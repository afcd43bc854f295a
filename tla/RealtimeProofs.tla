---------------------------- MODULE RealtimeProofs ---------------------------
(***************************************************************************)
(* Proofs about the live feed, for any rooms, any number of sockets, any   *)
(* capacities of the channels and any number of events.                    *)
(***************************************************************************)
EXTENDS Realtime, SequenceTheorems, TLAPS

-----------------------------------------------------------------------------
(* Sequences: what a message moved along does to the whole.                *)

\* The first element may be taken off before or after the other sequence is
\* appended.
LEMMA TailOfConcat ==
  ASSUME NEW S, NEW s \in Seq(S), NEW t \in Seq(S), s # <<>>
  PROVE  Head(s \o t) = Head(s) /\ Tail(s \o t) = Tail(s) \o t /\ s \o t # <<>>
<1>1. /\ s \o t \in Seq(S) /\ Len(s \o t) = Len(s) + Len(t)
      /\ \A i \in 1 .. Len(s) + Len(t) :
           (s \o t)[i] = IF i <= Len(s) THEN s[i] ELSE t[i - Len(s)]
  BY ConcatProperties
<1>2. Len(s) \in Nat \ {0} /\ Len(t) \in Nat
  BY EmptySeq, LenProperties
<1>3. s \o t # <<>>
  BY <1>1, <1>2, EmptySeq
<1>4. Head(s \o t) = Head(s)
  BY <1>1, <1>2
<1>5. /\ Tail(s) \in Seq(S) /\ Len(Tail(s)) = Len(s) - 1
      /\ \A i \in 1 .. Len(Tail(s)) : Tail(s)[i] = s[i + 1]
  BY <1>2, HeadTailProperties
<1>6. /\ Tail(s \o t) \in Seq(S) /\ Len(Tail(s \o t)) = Len(s) + Len(t) - 1
      /\ \A i \in 1 .. Len(Tail(s \o t)) : Tail(s \o t)[i] = (s \o t)[i + 1]
  BY <1>1, <1>3, HeadTailProperties
<1>7. /\ Tail(s) \o t \in Seq(S) /\ Len(Tail(s) \o t) = Len(s) - 1 + Len(t)
      /\ \A i \in 1 .. Len(s) - 1 + Len(t) :
           (Tail(s) \o t)[i] = IF i <= Len(s) - 1 THEN Tail(s)[i]
                               ELSE t[i - (Len(s) - 1)]
  BY <1>5, ConcatProperties
<1>8. \A i \in 1 .. Len(s) + Len(t) - 1 : Tail(s \o t)[i] = (Tail(s) \o t)[i]
  BY <1>1, <1>2, <1>5, <1>6, <1>7
<1>9. Tail(s \o t) = Tail(s) \o t
  BY <1>2, <1>6, <1>7, <1>8, SeqEqual
<1>10. QED
  BY <1>3, <1>4, <1>9

\* A message that changes from the second sequence to the first stays where
\* it is in the whole.
LEMMA HeadMovesOver ==
  ASSUME NEW S, NEW s \in Seq(S), NEW t \in Seq(S), t # <<>>
  PROVE  Append(s, Head(t)) \o Tail(t) = s \o t
<1>1. /\ Append(s, Head(t)) \in Seq(S) /\ Len(Append(s, Head(t))) = Len(s) + 1
      /\ \A i \in 1 .. Len(s) : Append(s, Head(t))[i] = s[i]
      /\ Append(s, Head(t))[Len(s) + 1] = Head(t)
  BY HeadTailProperties, AppendProperties
<1>2. /\ Tail(t) \in Seq(S) /\ Len(Tail(t)) = Len(t) - 1
      /\ \A i \in 1 .. Len(Tail(t)) : Tail(t)[i] = t[i + 1]
  BY HeadTailProperties
<1>3. Len(s) \in Nat /\ Len(t) \in Nat \ {0} /\ Head(t) = t[1]
  BY EmptySeq, LenProperties
<1>4. /\ s \o t \in Seq(S) /\ Len(s \o t) = Len(s) + Len(t)
      /\ \A i \in 1 .. Len(s) + Len(t) :
           (s \o t)[i] = IF i <= Len(s) THEN s[i] ELSE t[i - Len(s)]
  BY ConcatProperties
<1> DEFINE a == Append(s, Head(t))
           b == Tail(t)
<1>5. /\ a \o b \in Seq(S) /\ Len(a \o b) = Len(s) + Len(t)
      /\ \A i \in 1 .. Len(s) + Len(t) :
           (a \o b)[i] = IF i <= Len(s) + 1 THEN a[i] ELSE b[i - (Len(s) + 1)]
  BY <1>1, <1>2, <1>3, ConcatProperties
<1>6. \A i \in 1 .. Len(s) + Len(t) : (a \o b)[i] = (s \o t)[i]
  <2>1. ASSUME NEW i \in 1 .. Len(s) + Len(t) PROVE (a \o b)[i] = (s \o t)[i]
    <3>1. CASE i <= Len(s)
      BY <1>1, <1>3, <1>4, <1>5, <3>1
    <3>2. CASE i = Len(s) + 1
      BY <1>1, <1>3, <1>4, <1>5, <3>2
    <3>3. CASE i > Len(s) + 1
      <4>1. i - (Len(s) + 1) \in 1 .. Len(b)
        BY <1>2, <1>3, <3>3
      <4>2. b[i - (Len(s) + 1)] = t[i - Len(s)]
        BY <1>2, <1>3, <4>1
      <4>3. QED
        BY <1>3, <1>4, <1>5, <3>3, <4>2
    <3>4. QED
      BY <1>3, <3>1, <3>2, <3>3
  <2>2. QED
    BY <2>1
<1>7. QED
  BY <1>3, <1>4, <1>5, <1>6, SeqEqual

\* An event put at the end of the second is at the end of the whole.
LEMMA AppendOfConcat ==
  ASSUME NEW S, NEW s \in Seq(S), NEW t \in Seq(S), NEW e \in S
  PROVE  s \o Append(t, e) = Append(s \o t, e)
<1>1. /\ s \o t \in Seq(S) /\ Len(s \o t) = Len(s) + Len(t)
      /\ \A i \in 1 .. Len(s) + Len(t) :
           (s \o t)[i] = IF i <= Len(s) THEN s[i] ELSE t[i - Len(s)]
  BY ConcatProperties
<1>2. /\ Append(t, e) \in Seq(S) /\ Len(Append(t, e)) = Len(t) + 1
      /\ \A i \in 1 .. Len(t) : Append(t, e)[i] = t[i]
      /\ Append(t, e)[Len(t) + 1] = e
  BY AppendProperties
<1>3. Len(s) \in Nat /\ Len(t) \in Nat
  BY LenProperties
<1>4. /\ s \o Append(t, e) \in Seq(S)
      /\ Len(s \o Append(t, e)) = Len(s) + Len(t) + 1
      /\ \A i \in 1 .. Len(s) + Len(t) + 1 :
           (s \o Append(t, e))[i] =
             IF i <= Len(s) THEN s[i] ELSE Append(t, e)[i - Len(s)]
  BY <1>2, <1>3, ConcatProperties
<1>5. /\ Append(s \o t, e) \in Seq(S)
      /\ Len(Append(s \o t, e)) = Len(s) + Len(t) + 1
      /\ \A i \in 1 .. Len(s) + Len(t) : Append(s \o t, e)[i] = (s \o t)[i]
      /\ Append(s \o t, e)[Len(s) + Len(t) + 1] = e
  BY <1>1, <1>3, AppendProperties
<1>6. ASSUME NEW i \in 1 .. Len(s) + Len(t) + 1
      PROVE  (s \o Append(t, e))[i] = Append(s \o t, e)[i]
  <2>1. CASE i <= Len(s)
    BY <1>1, <1>3, <1>4, <1>5, <2>1
  <2>2. CASE i = Len(s) + Len(t) + 1
    BY <1>2, <1>3, <1>4, <1>5, <2>2
  <2>3. CASE i > Len(s) /\ i <= Len(s) + Len(t)
    <3>1. i - Len(s) \in 1 .. Len(t)
      BY <1>3, <2>3
    <3>2. QED
      BY <1>1, <1>2, <1>3, <1>4, <1>5, <2>3, <3>1
  <2>4. QED
    BY <1>3, <2>1, <2>2, <2>3
<1>7. QED
  BY <1>3, <1>4, <1>5, <1>6, SeqEqual

-----------------------------------------------------------------------------
(* What a page shows after a sequence of events, one event at a time.      *)

\* No event changes nothing.
LEMMA AfterNothing ==
  ASSUME NEW rooms \in SUBSET Room
  PROVE  After(rooms, <<>>) = rooms
  BY DEF After, LastAbout

\* Sequences over Event, taken apart.
LEMMA EventAt ==
  ASSUME NEW s \in Seq(Event)
  PROVE  /\ DOMAIN s = 1 .. Len(s) /\ Len(s) \in Nat
         /\ \A i \in DOMAIN s : s[i].room \in Room /\
              s[i].type \in {"room.held", "room.released"}
<1>1. DOMAIN s = 1 .. Len(s) /\ Len(s) \in Nat
  BY LenProperties
<1>2. \A i \in DOMAIN s : s[i] \in Event
  BY <1>1, ElementOfSeq
<1>3. QED
  BY <1>1, <1>2 DEF Event

\* One more event is folded in last.
LEMMA AfterAppend ==
  ASSUME NEW rooms \in SUBSET Room, NEW s \in Seq(Event), NEW e \in Event
  PROVE  After(rooms, Append(s, e)) = Fold(After(rooms, s), e)
<1> DEFINE t == Append(s, e)
<1>1. /\ t \in Seq(Event) /\ Len(t) = Len(s) + 1 /\ Len(s) \in Nat
      /\ \A i \in 1 .. Len(s) : t[i] = s[i]
      /\ t[Len(s) + 1] = e
  BY AppendProperties, LenProperties
<1>2. DOMAIN t = 1 .. Len(s) + 1 /\ DOMAIN s = 1 .. Len(s)
  BY <1>1, EventAt
<1> HIDE DEF t
<1>3. LastAbout(e.room, t) = {Len(s) + 1}
  BY <1>1, <1>2 DEF LastAbout
<1>4. ASSUME NEW r \in Room, r # e.room
      PROVE  LastAbout(r, t) = LastAbout(r, s)
  BY <1>1, <1>2, <1>4 DEF LastAbout
<1>5. ASSUME NEW r \in Room
      PROVE  r \in After(rooms, t) <=> r \in Fold(After(rooms, s), e)
  <2>1. CASE r = e.room
    BY <1>1, <1>3, <2>1 DEF After, Fold, Event
  <2>2. CASE r # e.room
    <3>1. LastAbout(r, t) = LastAbout(r, s)
      BY <1>4, <2>2
    <3>2. \A i \in LastAbout(r, s) : t[i] = s[i]
      BY <1>1, <1>2 DEF LastAbout
    <3>3. r \in Fold(After(rooms, s), e) <=> r \in After(rooms, s)
      BY <2>2 DEF Fold
    <3>4. (\A i \in DOMAIN t : t[i].room # r) <=> \A i \in DOMAIN s : s[i].room # r
      BY <1>1, <1>2, <2>2
    <3>5. (\E i \in LastAbout(r, t) : t[i].type = "room.held") <=>
            \E i \in LastAbout(r, s) : s[i].type = "room.held"
      BY <3>1, <3>2
    <3>6. QED
      BY <3>3, <3>4, <3>5 DEF After
  <2>3. QED
    BY <2>1, <2>2
<1>6. e.room \in Room
  BY DEF Event
<1>7. QED
  BY <1>5, <1>6 DEF After, Fold, t

\* An event handled now is one event less to come.
LEMMA AfterHead ==
  ASSUME NEW rooms \in SUBSET Room, NEW s \in Seq(Event), s # <<>>
  PROVE  After(Fold(rooms, Head(s)), Tail(s)) = After(rooms, s)
<1> DEFINE t == Tail(s)
<1>1. /\ t \in Seq(Event) /\ Len(t) = Len(s) - 1 /\ Len(s) \in Nat \ {0}
      /\ \A i \in 1 .. Len(t) : t[i] = s[i + 1]
      /\ Head(s) = s[1]
  BY HeadTailProperties, LenProperties, EmptySeq
<1>2. DOMAIN t = 1 .. Len(s) - 1 /\ DOMAIN s = 1 .. Len(s)
  BY <1>1, EventAt
<1> HIDE DEF t
<1>3. ASSUME NEW r \in Room, NEW i \in DOMAIN t
      PROVE  i \in LastAbout(r, t) <=> i + 1 \in LastAbout(r, s)
  <2>1. ASSUME i \in LastAbout(r, t) PROVE i + 1 \in LastAbout(r, s)
    <3>1. ASSUME NEW j \in DOMAIN s, s[j].room = r PROVE j <= i + 1
      <4>1. CASE j = 1
        BY <1>2, <4>1
      <4>2. CASE j > 1
        <5>1. j - 1 \in DOMAIN t /\ t[j - 1] = s[j]
          BY <1>1, <1>2, <4>2
        <5>2. QED
          BY <1>2, <2>1, <3>1, <5>1 DEF LastAbout
      <4>3. QED
        BY <1>2, <4>1, <4>2
    <3>2. QED
      BY <1>1, <1>2, <2>1, <3>1 DEF LastAbout
  <2>2. ASSUME i + 1 \in LastAbout(r, s) PROVE i \in LastAbout(r, t)
    <3>1. ASSUME NEW j \in DOMAIN t, t[j].room = r PROVE j <= i
      <4>1. j + 1 \in DOMAIN s /\ s[j + 1].room = r
        BY <1>1, <1>2, <3>1
      <4>2. QED
        BY <1>2, <2>2, <4>1 DEF LastAbout
    <3>2. QED
      BY <1>1, <1>2, <2>2, <3>1 DEF LastAbout
  <2>3. QED
    BY <2>1, <2>2
<1>4. ASSUME NEW r \in Room
      PROVE  r \in After(Fold(rooms, Head(s)), t) <=> r \in After(rooms, s)
  <2>1. CASE \E k \in DOMAIN t : t[k].room = r
    <3>1. PICK k \in DOMAIN t : t[k].room = r
      BY <2>1
    <3>2. k + 1 \in DOMAIN s /\ s[k + 1].room = r
      BY <1>1, <1>2, <3>1
    <3>3. (\E i \in LastAbout(r, t) : t[i].type = "room.held") =>
            \E i \in LastAbout(r, s) : s[i].type = "room.held"
      <4>1. ASSUME NEW i \in LastAbout(r, t), t[i].type = "room.held"
            PROVE  i + 1 \in LastAbout(r, s) /\ s[i + 1].type = "room.held"
        BY <1>1, <1>2, <1>3, <4>1 DEF LastAbout
      <4>2. QED
        BY <4>1
    <3>4. (\E i \in LastAbout(r, s) : s[i].type = "room.held") =>
            \E i \in LastAbout(r, t) : t[i].type = "room.held"
      <4>1. ASSUME NEW i \in LastAbout(r, s), s[i].type = "room.held"
            PROVE  i - 1 \in LastAbout(r, t) /\ t[i - 1].type = "room.held"
        <5>1. i \in DOMAIN s /\ k + 1 <= i
          BY <3>2, <4>1 DEF LastAbout
        <5>2. i - 1 \in DOMAIN t /\ (i - 1) + 1 = i
          BY <1>2, <5>1
        <5>3. QED
          BY <1>1, <1>2, <1>3, <4>1, <5>2
      <4>2. QED
        BY <4>1
    <3>5. QED
      BY <3>1, <3>2, <3>3, <3>4 DEF After
  <2>2. CASE \A k \in DOMAIN t : t[k].room # r
    <3>1. \A i \in DOMAIN s : s[i].room = r => i = 1
      <4>1. ASSUME NEW i \in DOMAIN s, s[i].room = r, i # 1 PROVE FALSE
        <5>1. i - 1 \in DOMAIN t /\ t[i - 1] = s[i]
          BY <1>1, <1>2, <4>1
        <5>2. QED
          BY <2>2, <4>1, <5>1
      <4>2. QED
        BY <4>1
    <3>2. LastAbout(r, t) = {} /\ 1 \in DOMAIN s
      BY <1>1, <1>2, <2>2 DEF LastAbout
    <3>3. CASE s[1].room = r
      <4>1. LastAbout(r, s) = {1}
        BY <1>2, <3>1, <3>2, <3>3 DEF LastAbout
      <4>2. s[1].type \in {"room.held", "room.released"}
        BY <3>2, EventAt
      <4>3. QED
        BY <1>1, <2>2, <3>2, <3>3, <4>1, <4>2 DEF After, Fold
    <3>4. CASE s[1].room # r
      <4>1. LastAbout(r, s) = {} /\ \A i \in DOMAIN s : s[i].room # r
        BY <3>1, <3>4 DEF LastAbout
      <4>2. r \in Fold(rooms, Head(s)) <=> r \in rooms
        BY <1>1, <3>4 DEF Fold
      <4>3. QED
        BY <2>2, <3>2, <4>1, <4>2 DEF After
    <3>5. QED
      BY <3>3, <3>4
  <2>3. QED
    BY <2>1, <2>2
<1>5. QED
  BY <1>4 DEF After, t

-----------------------------------------------------------------------------
(* The invariant: what holds of one socket, given its connection, whether  *)
(* the hub has it among its clients, what the page shows and what is due.  *)

Sound(d, joined, v, u) ==
  /\ d \in Conn /\ Len(d.send) <= SendLen
  /\ v \in SUBSET Room /\ u \in SUBSET Room
  /\ joined => d.reader \in {"reading", "leaving"} /\ ~d.sendClosed
  /\ d.reader \in {"off", "joining"} =>
       ~d.sendClosed /\ d.wire = <<>> /\ d.send = <<>> /\ v = u
  /\ d.socket = "new" => d.reader = "off"
  /\ joined /\ d.socket = "open" => After(v, d.wire \o d.send) = u

SocketsSound == \A c \in Client : Sound(conn[c], c \in clients, view[c], due[c])

\* The way to the hub.
Pipes ==
  /\ published \in 0 .. MaxEvents
  /\ channel \in Seq(Event) /\ queue \in Seq(Event) /\ Len(queue) <= QueueLen
  /\ feed \in BOOLEAN

Shape ==
  /\ conn = [c \in Client |-> conn[c]]
  /\ view = [c \in Client |-> view[c]] /\ due = [c \in Client |-> due[c]]
  /\ clients \subseteq Client
  /\ Pipes

Inv == Shape /\ SocketsSound /\ panicked = FALSE

\* A step of one socket keeps the invariant if it keeps that socket sound.
LEMMA OneSocket ==
  ASSUME Inv, NEW c \in Client, NEW d, NEW joined \in BOOLEAN, NEW v,
         conn' = [conn EXCEPT ![c] = d], Sound(d, joined, v, due[c]),
         clients' = IF joined THEN clients \cup {c} ELSE clients \ {c},
         view' = [view EXCEPT ![c] = v],
         UNCHANGED <<upstream, queue, due>>, panicked' = FALSE
  PROVE  Inv'
<1>1. /\ conn'[c] = d /\ view'[c] = v /\ due' = due
      /\ c \in clients' <=> joined
  BY DEF Inv, Shape
<1>2. \A b \in Client \ {c} :
        /\ conn'[b] = conn[b] /\ view'[b] = view[b]
        /\ b \in clients' <=> b \in clients
  BY DEF Inv, Shape
<1>3. ASSUME NEW b \in Client
      PROVE  Sound(conn'[b], b \in clients', view'[b], due'[b])
  <2>1. CASE b = c
    <3>1. (c \in clients') = joined
      BY <1>1
    <3>2. QED
      BY <1>1, <2>1, <3>1
  <2>2. CASE b # c
    <3>1. (b \in clients') = (b \in clients)
      BY <1>2, <2>2
    <3>2. QED
      BY <1>1, <1>2, <2>2, <3>1 DEF Inv, SocketsSound
  <2>3. QED
    BY <2>1, <2>2
<1>4. Shape'
  BY DEF Inv, Shape, Pipes, upstream
<1>5. QED
  BY <1>3, <1>4 DEF Inv, SocketsSound

\* The same when only the connection changes.
LEMMA OneConnection ==
  ASSUME Inv, NEW c \in Client, NEW d, conn' = [conn EXCEPT ![c] = d],
         Sound(d, c \in clients, view[c], due[c]),
         UNCHANGED <<upstream, queue, clients, page, panicked>>
  PROVE  Inv'
<1> DEFINE joined == c \in clients
<1>1. clients' = IF joined THEN clients \cup {c} ELSE clients \ {c}
  OBVIOUS
<1>2. view' = [view EXCEPT ![c] = view[c]] /\ UNCHANGED due
  BY DEF Inv, Shape, page
<1>3. joined \in BOOLEAN /\ panicked' = FALSE
  BY DEF Inv
<1> HIDE DEF joined
<1>4. Sound(d, joined, view[c], due[c])
  BY DEF joined
<1>5. QED
  BY <1>1, <1>2, <1>3, <1>4, OneSocket

\* A connection that differs from a sound one where the feed does not look,
\* or has lost its socket.
LEMMA SameFeed ==
  ASSUME NEW d, NEW e \in Conn, NEW joined, NEW v, NEW u, Sound(d, joined, v, u),
         e.send = d.send, e.sendClosed = d.sendClosed,
         e.wire = d.wire \/ (e.wire = <<>> /\ e.socket = "closed"),
         e.socket = d.socket \/ e.socket = "closed",
         e.reader = d.reader \/ (e.reader = "leaving" /\ d.reader = "reading")
  PROVE  Sound(e, joined, v, u)
  BY DEF Sound

\* A page that opens its socket asks for its rooms again.
LEMMA ConnectStep ==
  ASSUME Inv, NEW c \in Client, Connect(c)
  PROVE  Inv'
<1> DEFINE d == [conn[c] EXCEPT !.socket = "open", !.reader = "joining",
                                !.inbox = <<"subscribe">>]
<1>1. conn' = [conn EXCEPT ![c] = d]
  BY DEF Connect, Inv, Shape
<1>2. Sound(conn[c], c \in clients, view[c], due[c])
  BY DEF Inv, SocketsSound
<1>3. conn[c] \in Conn /\ conn[c].socket = "new" /\ conn[c].reader = "off"
  BY <1>2 DEF Connect, Sound
<1>4. <<"subscribe">> \in Seq({"subscribe", "unsubscribe"})
  OBVIOUS
<1>5. /\ d \in Conn /\ d.socket = "open" /\ d.reader = "joining"
      /\ d.send = conn[c].send /\ d.wire = conn[c].wire
      /\ d.sendClosed = conn[c].sendClosed
  BY <1>3, <1>4 DEF Conn
<1> HIDE DEF d
<1>6. Sound(d, c \in clients, view[c], due[c])
  <2>1. c \notin clients
    BY <1>2, <1>3 DEF Sound
  <2>2. QED
    BY <1>2, <1>3, <1>5, <2>1 DEF Sound
<1>7. QED
  BY <1>1, <1>6, OneConnection DEF Connect

\* The steps after which the feed of the socket is as before, or is lost.
LEMMA PlainStep ==
  ASSUME Inv, NEW c \in Client,
         \/ Leave(c) \/ NetworkFails(c) \/ ReadPump(c) \/ ReadError(c)
         \/ WriteClose(c) \/ WriteError(c)
  PROVE  Inv'
<1>1. Sound(conn[c], c \in clients, view[c], due[c]) /\ conn[c] \in Conn
  BY DEF Inv, SocketsSound, Sound
<1>0. <<>> \in Seq(Event) /\ <<>> \in Seq({"subscribe", "unsubscribe"})
  BY EmptySeq
<1>2. ASSUME NEW e \in Conn, conn' = [conn EXCEPT ![c] = e],
             e.send = conn[c].send, e.sendClosed = conn[c].sendClosed,
             e.wire = conn[c].wire \/ (e.wire = <<>> /\ e.socket = "closed"),
             e.socket = conn[c].socket \/ e.socket = "closed",
             \/ e.reader = conn[c].reader
             \/ e.reader = "leaving" /\ conn[c].reader = "reading",
             UNCHANGED <<upstream, queue, clients, page, panicked>>
      PROVE  Inv'
  <2>1. Sound(e, c \in clients, view[c], due[c])
    BY <1>1, <1>2, SameFeed
  <2>2. QED
    BY <1>2, <2>1, OneConnection
<1>3. CASE Leave(c)
  <2> DEFINE e == [conn[c] EXCEPT !.socket = "closed", !.wire = <<>>,
                                  !.inbox = Append(@, "unsubscribe")]
  <2>1. conn' = [conn EXCEPT ![c] = e]
    BY <1>3 DEF Leave
  <2>2. Append(conn[c].inbox, "unsubscribe") \in Seq({"subscribe", "unsubscribe"})
    BY <1>1 DEF Conn
  <2>3. /\ e \in Conn /\ e.send = conn[c].send /\ e.wire = <<>>
        /\ e.sendClosed = conn[c].sendClosed /\ e.socket = "closed"
        /\ e.reader = conn[c].reader
    BY <1>0, <1>1, <2>2 DEF Conn
  <2> HIDE DEF e
  <2>4. QED
    BY <1>2, <1>3, <2>1, <2>3 DEF Leave
<1>4. CASE NetworkFails(c)
  <2> DEFINE e == [conn[c] EXCEPT !.socket = "closed", !.wire = <<>>,
                                  !.inbox = <<>>]
  <2>1. conn' = [conn EXCEPT ![c] = e]
    BY <1>4 DEF NetworkFails
  <2>2. /\ e \in Conn /\ e.send = conn[c].send /\ e.wire = <<>>
        /\ e.sendClosed = conn[c].sendClosed /\ e.socket = "closed"
        /\ e.reader = conn[c].reader
    BY <1>0, <1>1 DEF Conn
  <2> HIDE DEF e
  <2>3. QED
    BY <1>2, <1>4, <2>1, <2>2 DEF NetworkFails
<1>5. CASE ReadPump(c)
  <2> DEFINE subscribes == Head(conn[c].inbox) = "subscribe"
             e == [conn[c] EXCEPT !.subscribed = subscribes, !.inbox = Tail(@)]
  <2>1. conn' = [conn EXCEPT ![c] = e]
    BY <1>5 DEF ReadPump
  <2>2. subscribes \in BOOLEAN
    OBVIOUS
  <2>3. Tail(conn[c].inbox) \in Seq({"subscribe", "unsubscribe"})
    BY <1>1, <1>5 DEF Conn, ReadPump
  <2> HIDE DEF subscribes
  <2>4. /\ e \in Conn /\ e.send = conn[c].send /\ e.wire = conn[c].wire
        /\ e.sendClosed = conn[c].sendClosed /\ e.socket = conn[c].socket
        /\ e.reader = conn[c].reader
    BY <1>1, <2>2, <2>3 DEF Conn
  <2> HIDE DEF e
  <2>5. QED
    BY <1>2, <1>5, <2>1, <2>4 DEF ReadPump
<1>6. CASE ReadError(c)
  <2> DEFINE e == [conn[c] EXCEPT !.reader = "leaving"]
  <2>1. conn' = [conn EXCEPT ![c] = e] /\ conn[c].reader = "reading"
    BY <1>6 DEF ReadError
  <2>2. /\ e \in Conn /\ e.send = conn[c].send /\ e.wire = conn[c].wire
        /\ e.sendClosed = conn[c].sendClosed /\ e.socket = conn[c].socket
        /\ e.reader = "leaving"
    BY <1>1 DEF Conn
  <2> HIDE DEF e
  <2>3. QED
    BY <1>2, <1>6, <2>1, <2>2 DEF ReadError
<1>7. CASE WriteClose(c)
  <2> DEFINE e == [conn[c] EXCEPT !.writer = "done", !.socket = "closed"]
  <2>1. conn' = [conn EXCEPT ![c] = e]
    BY <1>7 DEF WriteClose
  <2>2. /\ e \in Conn /\ e.send = conn[c].send /\ e.wire = conn[c].wire
        /\ e.sendClosed = conn[c].sendClosed /\ e.socket = "closed"
        /\ e.reader = conn[c].reader
    BY <1>1 DEF Conn
  <2> HIDE DEF e
  <2>3. QED
    BY <1>2, <1>7, <2>1, <2>2 DEF WriteClose
<1>8. CASE WriteError(c)
  <2> DEFINE e == [conn[c] EXCEPT !.writer = "done"]
  <2>1. conn' = [conn EXCEPT ![c] = e]
    BY <1>8 DEF WriteError
  <2>2. /\ e \in Conn /\ e.send = conn[c].send /\ e.wire = conn[c].wire
        /\ e.sendClosed = conn[c].sendClosed /\ e.socket = conn[c].socket
        /\ e.reader = conn[c].reader
    BY <1>1 DEF Conn
  <2> HIDE DEF e
  <2>3. QED
    BY <1>2, <1>8, <2>1, <2>2 DEF WriteError
<1>9. QED
  BY <1>3, <1>4, <1>5, <1>6, <1>7, <1>8

\* The page takes an event off the wire.
LEMMA OnMessageStep ==
  ASSUME Inv, NEW c \in Client, OnMessage(c)
  PROVE  Inv'
<1> DEFINE joined == c \in clients
           v == Fold(view[c], Head(conn[c].wire))
           d == [conn[c] EXCEPT !.wire = Tail(@)]
<1>1. Sound(conn[c], joined, view[c], due[c]) /\ joined \in BOOLEAN
  BY DEF Inv, SocketsSound
<1>2. /\ conn' = [conn EXCEPT ![c] = d] /\ view' = [view EXCEPT ![c] = v]
      /\ clients' = IF joined THEN clients \cup {c} ELSE clients \ {c}
      /\ UNCHANGED <<upstream, queue, due>> /\ panicked' = FALSE
      /\ conn[c].wire # <<>>
  BY DEF OnMessage, Inv
<1>3. /\ conn[c] \in Conn /\ conn[c].wire \in Seq(Event)
      /\ conn[c].send \in Seq(Event) /\ view[c] \in SUBSET Room
  BY <1>1 DEF Sound, Conn
<1>4. Head(conn[c].wire) \in Event /\ Tail(conn[c].wire) \in Seq(Event)
  BY <1>2, <1>3, HeadTailProperties
<1>5. v \in SUBSET Room
  BY <1>3, <1>4 DEF Fold, Event
<1>6. /\ d \in Conn /\ d.wire = Tail(conn[c].wire) /\ d.send = conn[c].send
      /\ d.sendClosed = conn[c].sendClosed /\ d.reader = conn[c].reader
      /\ d.socket = conn[c].socket
  BY <1>3, <1>4 DEF Conn
<1> HIDE DEF d
<1>7. After(v, d.wire \o d.send) = After(view[c], conn[c].wire \o conn[c].send)
  <2>1. /\ Head(conn[c].wire \o conn[c].send) = Head(conn[c].wire)
        /\ Tail(conn[c].wire \o conn[c].send) = Tail(conn[c].wire) \o conn[c].send
        /\ conn[c].wire \o conn[c].send # <<>>
    BY <1>2, <1>3, TailOfConcat
  <2>2. conn[c].wire \o conn[c].send \in Seq(Event)
    BY <1>3, ConcatProperties
  <2>3. QED
    BY <1>3, <1>6, <2>1, <2>2, AfterHead
<1> HIDE DEF joined, v
<1>8. Sound(d, joined, v, due[c])
  BY <1>1, <1>2, <1>5, <1>6, <1>7 DEF Sound
<1>9. QED
  BY <1>1, <1>2, <1>8, OneSocket

\* The writer puts an event on the wire.
LEMMA WritePumpStep ==
  ASSUME Inv, NEW c \in Client, WritePump(c)
  PROVE  Inv'
<1> DEFINE d == [conn[c] EXCEPT !.wire = Append(@, Head(conn[c].send)),
                                !.send = Tail(@)]
<1>1. Sound(conn[c], c \in clients, view[c], due[c])
  BY DEF Inv, SocketsSound
<1>2. conn' = [conn EXCEPT ![c] = d] /\ conn[c].send # <<>>
  BY DEF WritePump
<1>3. /\ conn[c] \in Conn /\ conn[c].wire \in Seq(Event)
      /\ conn[c].send \in Seq(Event) /\ Len(conn[c].send) <= SendLen
  BY <1>1 DEF Sound, Conn
<1>4. /\ Head(conn[c].send) \in Event /\ Tail(conn[c].send) \in Seq(Event)
      /\ Len(Tail(conn[c].send)) = Len(conn[c].send) - 1
      /\ Len(conn[c].send) \in Nat
  BY <1>2, <1>3, HeadTailProperties, LenProperties
<1>5. Append(conn[c].wire, Head(conn[c].send)) \in Seq(Event)
  BY <1>3, <1>4, AppendProperties
<1>6. /\ d \in Conn /\ d.wire = Append(conn[c].wire, Head(conn[c].send))
      /\ d.send = Tail(conn[c].send) /\ d.sendClosed = conn[c].sendClosed
      /\ d.reader = conn[c].reader /\ d.socket = conn[c].socket
  BY <1>3, <1>4, <1>5 DEF Conn
<1> HIDE DEF d
<1>7. d.wire \o d.send = conn[c].wire \o conn[c].send
  BY <1>2, <1>3, <1>6, HeadMovesOver
<1>8. Len(d.send) <= SendLen
  BY <1>3, <1>4, <1>6, CapacityAssumption
<1>9. Sound(d, c \in clients, view[c], due[c])
  BY <1>1, <1>2, <1>6, <1>7, <1>8 DEF Sound
<1>10. QED
  BY <1>2, <1>9, OneConnection DEF WritePump

\* The hub takes a client in, who has missed nothing yet.
LEMMA RegisterStep ==
  ASSUME Inv, NEW c \in Client, Register(c)
  PROVE  Inv'
<1> DEFINE d == [conn[c] EXCEPT !.reader = "reading", !.writer = "writing"]
<1>1. Sound(conn[c], c \in clients, view[c], due[c])
  BY DEF Inv, SocketsSound
<1>2. /\ conn' = [conn EXCEPT ![c] = d] /\ conn[c].reader = "joining"
      /\ clients' = clients \cup {c}
  BY DEF Register
<1>3. /\ d \in Conn /\ d.reader = "reading" /\ d.socket = conn[c].socket
      /\ d.wire = conn[c].wire /\ d.send = conn[c].send
      /\ d.sendClosed = conn[c].sendClosed
  BY <1>1 DEF Sound, Conn
<1> HIDE DEF d
<1>4. /\ d.wire = <<>> /\ d.send = <<>> /\ ~d.sendClosed
      /\ view[c] = due[c] /\ view[c] \in SUBSET Room
      /\ d.socket # "new"
  BY <1>1, <1>2, <1>3 DEF Sound
<1>5. d.wire \o d.send = <<>>
  BY <1>4, ConcatEmptySeq, EmptySeq
<1>6. Sound(d, TRUE, view[c], due[c])
  BY <1>1, <1>3, <1>4, <1>5, AfterNothing DEF Sound
<1>7. /\ view' = [view EXCEPT ![c] = view[c]]
      /\ UNCHANGED <<upstream, queue, due>> /\ panicked' = FALSE
  BY DEF Register, page, Inv, Shape
<1>8. QED
  BY <1>2, <1>6, <1>7, OneSocket

\* The hub lets a client go.  Its channel is closed here or was closed when it
\* was dropped, never both.
LEMMA UnregisterStep ==
  ASSUME Inv, NEW c \in Client, Unregister(c)
  PROVE  Inv'
<1> DEFINE close == c \in clients
           d == [conn[c] EXCEPT !.reader = "done", !.socket = "closed",
                                !.sendClosed = @ \/ close]
<1>1. Sound(conn[c], close, view[c], due[c]) /\ close \in BOOLEAN
  BY DEF Inv, SocketsSound
<1>2. conn' = [conn EXCEPT ![c] = d] /\ clients' = clients \ {c}
  BY DEF Unregister
<1>3. UNCHANGED <<upstream, queue, due>> /\ view' = [view EXCEPT ![c] = view[c]]
  BY DEF Unregister, page, Inv, Shape
<1>4. conn[c] \in Conn /\ (close => ~conn[c].sendClosed)
  BY <1>1 DEF Sound
<1>5. panicked' = (panicked \/ (close /\ conn[c].sendClosed)) /\ ~panicked
  BY DEF Unregister, Inv
<1> HIDE DEF close
<1>6. panicked' = FALSE
  BY <1>4, <1>5
<1>7. /\ d \in Conn /\ d.reader = "done" /\ d.socket = "closed"
      /\ d.wire = conn[c].wire /\ d.send = conn[c].send
  BY <1>1, <1>4 DEF Conn
<1> HIDE DEF d
<1>8. Sound(d, FALSE, view[c], due[c])
  BY <1>1, <1>7 DEF Sound
<1>9. QED
  BY <1>2, <1>3, <1>6, <1>8, OneSocket

\* The hub hands an event to the clients that subscribed.  A client whose
\* channel is full is dropped and owed nothing more; every other one has the
\* event at the end of what is on its way to it.
LEMMA DeliverStep ==
  ASSUME Inv, DeliverTargeted
  PROVE  Inv'
<1> DEFINE e == Head(queue)
           subscribers == {c \in clients : conn[c].subscribed}
           slow == {c \in subscribers : Len(conn[c].send) = SendLen}
<1>1. queue \in Seq(Event) /\ queue # <<>> /\ clients \subseteq Client
  BY DEF Inv, Shape, Pipes, DeliverTargeted
<1>2. /\ e \in Event /\ queue' = Tail(queue) /\ queue' \in Seq(Event)
      /\ Len(queue') = Len(queue) - 1 /\ Len(queue) \in Nat
  BY <1>1, HeadTailProperties, LenProperties DEF DeliverTargeted
<1>3. /\ conn' = [c \in Client |->
           IF c \in slow THEN TooSlow(c)
           ELSE IF c \in subscribers THEN [conn[c] EXCEPT !.send = Append(@, e)]
           ELSE conn[c]]
      /\ due' = [c \in Client |-> IF c \in subscribers THEN Fold(due[c], e) ELSE due[c]]
      /\ view' = view /\ UNCHANGED upstream /\ clients' = clients \ slow
      /\ panicked' = (panicked \/ \E c \in subscribers : conn[c].sendClosed)
  BY DEF DeliverTargeted
<1>4. subscribers \subseteq clients /\ slow \subseteq subscribers
  OBVIOUS
<1>5. \A c \in slow : Len(conn[c].send) = SendLen
  OBVIOUS
<1>6. \A c \in subscribers \ slow : Len(conn[c].send) # SendLen
  OBVIOUS
<1> HIDE DEF e, subscribers, slow
<1>7. panicked' = FALSE
  <2>1. \A c \in subscribers : ~conn[c].sendClosed
    BY <1>1, <1>4 DEF Inv, SocketsSound, Sound
  <2>2. QED
    BY <1>3, <2>1 DEF Inv
<1>8. ASSUME NEW c \in Client
      PROVE  Sound(conn'[c], c \in clients', view'[c], due'[c])
  <2>1. Sound(conn[c], c \in clients, view[c], due[c]) /\ view'[c] = view[c]
    BY <1>3 DEF Inv, SocketsSound
  <2>2. /\ conn[c] \in Conn /\ conn[c].wire \in Seq(Event)
        /\ conn[c].send \in Seq(Event) /\ Len(conn[c].send) <= SendLen
        /\ view[c] \in SUBSET Room /\ due[c] \in SUBSET Room
    BY <2>1 DEF Sound, Conn
  <2>3. Fold(due[c], e) \in SUBSET Room
    BY <1>2, <2>2 DEF Fold, Event
  <2>4. CASE c \notin subscribers
    <3>1. conn'[c] = conn[c] /\ due'[c] = due[c] /\ (c \in clients') = (c \in clients)
      BY <1>3, <1>4, <2>4
    <3>2. QED
      BY <2>1, <3>1
  <2>5. CASE c \in slow
    <3>1. /\ conn'[c] = TooSlow(c) /\ due'[c] = Fold(due[c], e)
          /\ c \notin clients' /\ c \in clients
      BY <1>3, <1>4, <2>5
    <3> DEFINE d == TooSlow(c)
    <3>2. /\ d \in Conn /\ d.send = conn[c].send /\ d.reader = conn[c].reader
          /\ d.socket = conn[c].socket
      BY <2>2 DEF TooSlow, Conn
    <3>3. conn[c].reader \in {"reading", "leaving"}
      BY <2>1, <3>1 DEF Sound
    <3>4. (c \in clients') = FALSE
      BY <3>1
    <3> HIDE DEF d
    <3>5. Sound(d, FALSE, view[c], Fold(due[c], e))
      BY <2>1, <2>2, <2>3, <3>2, <3>3 DEF Sound
    <3>6. QED
      BY <2>1, <3>1, <3>4, <3>5 DEF d
  <2>6. CASE c \in subscribers \ slow
    <3> DEFINE d == [conn[c] EXCEPT !.send = Append(@, e)]
    <3>1. /\ conn'[c] = d /\ due'[c] = Fold(due[c], e)
          /\ c \in clients /\ (c \in clients') = TRUE
      BY <1>3, <1>4, <2>6
    <3>2. Append(conn[c].send, e) \in Seq(Event)
      BY <1>2, <2>2, AppendProperties
    <3>3. /\ d \in Conn /\ d.send = Append(conn[c].send, e)
          /\ d.wire = conn[c].wire /\ d.sendClosed = conn[c].sendClosed
          /\ d.reader = conn[c].reader /\ d.socket = conn[c].socket
      BY <2>2, <3>2 DEF Conn
    <3>4. Len(d.send) <= SendLen
      <4>1. /\ Len(Append(conn[c].send, e)) = Len(conn[c].send) + 1
            /\ Len(conn[c].send) \in Nat /\ Len(conn[c].send) # SendLen
        BY <1>2, <1>6, <2>2, <2>6, AppendProperties, LenProperties
      <4>2. QED
        BY <2>2, <3>3, <4>1, CapacityAssumption
    <3> HIDE DEF d
    <3>5. d.wire \o d.send = Append(conn[c].wire \o conn[c].send, e)
      <4>1. \A s, t \in Seq(Event) : s \o Append(t, e) = Append(s \o t, e)
        BY <1>2, AppendOfConcat
      <4>2. QED
        BY <2>2, <3>3, <4>1
    <3>6. conn[c].wire \o conn[c].send \in Seq(Event)
      BY <2>2, ConcatProperties
    <3>7. After(view[c], d.wire \o d.send)
            = Fold(After(view[c], conn[c].wire \o conn[c].send), e)
      BY <1>2, <2>2, <3>5, <3>6, AfterAppend
    <3>8. Sound(d, TRUE, view[c], Fold(due[c], e))
      BY <2>1, <2>2, <2>3, <3>1, <3>3, <3>4, <3>7 DEF Sound
    <3>9. QED
      BY <2>1, <3>1, <3>8
  <2>7. QED
    BY <2>4, <2>5, <2>6
<1>9. Shape'
  <2>1. conn' = [c \in Client |-> conn'[c]] /\ due' = [c \in Client |-> due'[c]]
    BY <1>3
  <2>2. view' = [c \in Client |-> view'[c]] /\ clients' \subseteq Client
    BY <1>1, <1>3 DEF Inv, Shape
  <2>3. Len(queue') <= QueueLen
    BY <1>2, CapacityAssumption DEF Inv, Shape, Pipes
  <2>4. Pipes'
    BY <1>2, <1>3, <2>3 DEF Inv, Shape, Pipes, upstream
  <2>5. QED
    BY <2>1, <2>2, <2>4 DEF Shape
<1>10. QED
  BY <1>7, <1>8, <1>9 DEF Inv, SocketsSound

-----------------------------------------------------------------------------
(* All steps.                                                              *)

\* What happens on the way to the hub leaves the sockets alone.
LEMMA UpstreamStep ==
  ASSUME Inv, (\E e \in Event : Publish(e)) \/ SubscriptionLost \/ BroadcastToProperty
  PROVE  Inv'
<1>1. UNCHANGED <<clients, conn, view, due, panicked>>
  BY DEF Publish, SubscriptionLost, BroadcastToProperty, page
<1>2. Pipes'
  <2>1. ASSUME NEW e \in Event, Publish(e) PROVE Pipes'
    <3>1. Append(channel, e) \in Seq(Event)
      BY AppendProperties DEF Inv, Shape, Pipes
    <3>2. channel' \in Seq(Event) /\ UNCHANGED <<queue, feed>>
      BY <2>1, <3>1 DEF Publish, Inv, Shape, Pipes
    <3>3. published' \in 0 .. MaxEvents
      BY <2>1, CapacityAssumption DEF Publish, Inv, Shape, Pipes
    <3>4. QED
      BY <3>2, <3>3 DEF Inv, Shape, Pipes
  <2>2. CASE SubscriptionLost
    BY <2>2, EmptySeq DEF SubscriptionLost, Inv, Shape, Pipes
  <2>3. CASE BroadcastToProperty
    <3>1. channel \in Seq(Event) /\ channel # <<>> /\ queue \in Seq(Event)
      BY <2>3 DEF BroadcastToProperty, Inv, Shape, Pipes
    <3>2. Head(channel) \in Event /\ Tail(channel) \in Seq(Event)
      BY <3>1, HeadTailProperties
    <3>3. /\ Append(queue, Head(channel)) \in Seq(Event)
          /\ Len(Append(queue, Head(channel))) = Len(queue) + 1
          /\ Len(queue) \in Nat
      BY <3>1, <3>2, AppendProperties, LenProperties
    <3>4. QED
      BY <2>3, <3>2, <3>3, CapacityAssumption
      DEF BroadcastToProperty, Inv, Shape, Pipes
  <2>4. QED
    BY <2>1, <2>2, <2>3
<1>3. Shape' /\ SocketsSound'
  BY <1>1, <1>2 DEF Inv, Shape, SocketsSound
<1>4. QED
  BY <1>1, <1>3 DEF Inv

\* No page is connected and no channel exists.
LEMMA InvInit == Init => Inv
<1>1. SUFFICES ASSUME Init PROVE Inv
  OBVIOUS
<1>2. <<>> \in Seq(Event) /\ <<>> \in Seq({"subscribe", "unsubscribe"}) /\ Len(<<>>) = 0
  BY EmptySeq
<1>3. /\ NewConn \in Conn /\ NewConn.send = <<>> /\ NewConn.wire = <<>>
      /\ NewConn.reader = "off" /\ NewConn.sendClosed = FALSE
  BY <1>2 DEF NewConn, Conn
<1>4. Sound(NewConn, FALSE, {}, {})
  BY <1>2, <1>3, CapacityAssumption DEF Sound
<1>5. SocketsSound
  <2>1. ASSUME NEW c \in Client PROVE Sound(conn[c], c \in clients, view[c], due[c])
    <3>1. conn[c] = NewConn /\ (c \in clients) = FALSE /\ view[c] = {} /\ due[c] = {}
      BY <1>1 DEF Init
    <3>2. QED
      BY <1>4, <3>1
  <2>2. QED
    BY <2>1 DEF SocketsSound
<1>6. Shape
  BY <1>1, <1>2, CapacityAssumption DEF Init, Shape, Pipes
<1>7. QED
  BY <1>1, <1>5, <1>6 DEF Init, Inv

\* Every goroutine, page and network step keeps the invariant.
LEMMA InvStep == Inv /\ [Next]_vars => Inv'
<1>1. SUFFICES ASSUME Inv, [Next]_vars PROVE Inv'
  OBVIOUS
<1>2. CASE UNCHANGED vars
  BY <1>1, <1>2 DEF vars, Inv, Shape, Pipes, SocketsSound
<1>3. CASE DeliverTargeted
  BY <1>1, <1>3, DeliverStep
<1>4. CASE (\E e \in Event : Publish(e)) \/ SubscriptionLost \/ BroadcastToProperty
  BY <1>1, <1>4, UpstreamStep
<1>5. ASSUME NEW c \in Client,
             Service(c) \/ Connect(c) \/ OnMessage(c) \/ Leave(c) \/ NetworkFails(c)
      PROVE  Inv'
  BY <1>1, <1>5, RegisterStep, UnregisterStep, WritePumpStep, PlainStep,
     ConnectStep, OnMessageStep DEF Service
<1>6. QED
  BY <1>1, <1>2, <1>3, <1>4, <1>5 DEF Next

\* In every state of the feed a socket the hub serves is owed exactly what is
\* on its way to it (main.go, Hub.run and the pumps of a client).
THEOREM FeedCorrect == Spec => []Inv
<1>1. QED
  BY InvInit, InvStep, PTL DEF Spec

\* The hub, its channels and its sockets keep to their types and capacities.
THEOREM FeedTypes == Spec => []TypeOK
<1>1. Inv => TypeOK
  <2>1. SUFFICES ASSUME Inv PROVE TypeOK
    OBVIOUS
  <2>2. \A c \in Client :
          /\ conn[c] \in Conn /\ Len(conn[c].send) <= SendLen
          /\ view[c] \in SUBSET Room /\ due[c] \in SUBSET Room
    BY <2>1 DEF Inv, SocketsSound, Sound
  <2>3. /\ conn \in [Client -> Conn]
        /\ view \in [Client -> SUBSET Room] /\ due \in [Client -> SUBSET Room]
    BY <2>1, <2>2 DEF Inv, Shape
  <2>4. panicked \in BOOLEAN /\ clients \in SUBSET Client
    BY <2>1 DEF Inv, Shape
  <2>5. QED
    BY <2>1, <2>2, <2>3, <2>4 DEF TypeOK, Inv, Shape, Pipes
<1>2. QED
  BY <1>1, FeedCorrect, PTL

\* No channel is closed twice or written to after it was closed, whatever the
\* hub and the two pumps of every socket do and in whatever order: a client
\* the hub serves has an open channel (main.go, Hub.run).
THEOREM HubSurvives == Spec => []HubNeverPanics
<1>1. Inv => HubNeverPanics
  BY DEF Inv, HubNeverPanics
<1>2. QED
  BY <1>1, FeedCorrect, PTL

\* A page the hub serves shows, once it has read what is on its way, what
\* every event delivered since it subscribed adds up to: a slow client is
\* dropped before it can miss one (main.go, Hub.run).
THEOREM PagesMissNothing == Spec => []NothingSkipped
<1>1. Inv => NothingSkipped
  BY DEF Inv, Shape, SocketsSound, Sound, NothingSkipped
<1>2. QED
  BY <1>1, FeedCorrect, PTL
=============================================================================
