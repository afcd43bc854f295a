---------------------------- MODULE RoomCalendar ----------------------------
(***************************************************************************)
(* What the booking system promises about rooms: a calendar of room        *)
(* nights, in which a night is claimed by one booking at most.  A booking  *)
(* claims all the nights of its stay at once, always the same ones, and    *)
(* gives them all back at once; several bookings may be released together. *)
(***************************************************************************)
CONSTANTS Booking, RoomNight

VARIABLES
  claim,      \* the room nights each booking holds now
  booked      \* the room nights each booking has asked for, {} before that

Free(b, cells) == \A c \in Booking \ {b} : claim[c] \cap cells = {}

CalInit ==
  /\ claim = [b \in Booking |-> {}]
  /\ booked = [b \in Booking |-> {}]

\* A new booking claims its nights, all of them free.
Claim(b, cells) ==
  /\ booked[b] = {} /\ cells # {}
  /\ Free(b, cells)
  /\ booked' = [booked EXCEPT ![b] = cells]
  /\ claim' = [claim EXCEPT ![b] = cells]

\* A booking that had given its nights back claims them again, if it can.
Reclaim(b) ==
  /\ booked[b] # {} /\ claim[b] = {}
  /\ Free(b, booked[b])
  /\ claim' = [claim EXCEPT ![b] = booked[b]]
  /\ UNCHANGED booked

Release(bs) ==
  /\ claim' = [b \in Booking |-> IF b \in bs THEN {} ELSE claim[b]]
  /\ UNCHANGED booked

CalNext ==
  \/ \E b \in Booking, cells \in SUBSET RoomNight : Claim(b, cells)
  \/ \E b \in Booking : Reclaim(b)
  \/ \E bs \in SUBSET Booking : Release(bs)

CalSpec == CalInit /\ [][CalNext]_<<claim, booked>>

\* No room night is claimed twice.
NightsDisjoint ==
  \A a, b \in Booking : a # b => claim[a] \cap claim[b] = {}
=============================================================================
