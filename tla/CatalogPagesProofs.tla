-------------------------- MODULE CatalogPagesProofs -------------------------
(***************************************************************************)
(* Proofs about the pages around a listing, for any prices, any number of  *)
(* administrators and any number of IDs handed in.                         *)
(***************************************************************************)
EXTENDS CatalogPages, TLAPS

\* The history of offers misses none.
OffersAreRemembered == Offered(property.status, room.state) => property.offered

\* What a visitor has on screen was on offer when it was loaded.
ShownWasOffered == visitor.result # <<>> => property.offered

\* A list that offers Approve and Reject has shown the ID.
ListedWasSeen == \A a \in Admin : MayReview(list[a].host) => seen # {}

Result == {<<>>} \cup {<<r>> : r \in [price : Price \cup {NULL}, verified : BOOLEAN]}

RowTypes ==
  /\ property \in [status : PropertyStatus \cup {NoRow}, offered : BOOLEAN]
  /\ room \in [state : {NoRow, "active", "inactive"},
               price : Price \cup {NULL}, taken : BOOLEAN]
  /\ account \in [verification : Verification,
                  note : 1 .. MaxSubmissions \cup {NULL},
                  handedIn : 0 .. MaxSubmissions]
  /\ account.verification = "PENDING" => account.handedIn > 0

PageTypes ==
  /\ desk \in [room : {NoRow, "active", "inactive"}, edit : Price \cup {NULL},
               card : Verification \cup {NULL}]
  /\ list \in [Admin -> [host : [verification : Verification,
                                 note : 1 .. MaxSubmissions \cup {NULL}]
                                \cup {NULL},
                         status : PropertyStatus \cup {NULL}]]
  /\ visitor \in [at : Place, result : Result]

Inv == /\ TypeOK /\ RowTypes /\ PageTypes
       /\ OffersAreRemembered /\ ShownWasOffered
       /\ ListedWasSeen /\ VerifiedWasSeen

RowInv == /\ RowTypes /\ OffersAreRemembered
          /\ room.state = NoRow <=> room.price = NULL
          /\ property.status = NoRow => room.state = NoRow
          /\ account.verification = "PENDING" => account.note = account.handedIn

-----------------------------------------------------------------------------
(* The endpoints.  None of them takes back that the room was on offer.     *)

\* Whoever sets the status of the property.
LEMMA PropertyStep ==
  ASSUME Inv, NEW status \in PropertyStatus, SetProperty(status)
  PROVE  RowInv' /\ (property.offered => property'.offered)
<1>1. /\ property' = [status |-> status,
                      offered |-> property.offered \/ Offered(status, room.state)]
      /\ UNCHANGED <<room, account>>
  BY DEF SetProperty
<1>2. property.offered \in BOOLEAN /\ Offered(status, room.state) \in BOOLEAN
  BY DEF Inv, RowTypes, Offered
<1>3. NoRow \notin PropertyStatus
  BY DEF NoRow, PropertyStatus
<1>4. QED
  BY <1>1, <1>2, <1>3 DEF Inv, TypeOK, RowInv, RowTypes, OffersAreRemembered

\* Whoever sets the state and the price of the room.
LEMMA RoomStep ==
  ASSUME Inv, NEW state \in {"active", "inactive"}, NEW price \in Price,
         property.status # NoRow, SetRoom(state, price)
  PROVE  RowInv' /\ (property.offered => property'.offered)
<1>1. /\ room' \in [state : {NoRow, "active", "inactive"},
                    price : Price \cup {NULL}, taken : BOOLEAN]
      /\ room'.state = state /\ room'.price = price
  BY DEF SetRoom, Inv, RowTypes
<1>2. property.offered \in BOOLEAN /\ Offered(property.status, state) \in BOOLEAN
  BY DEF Inv, RowTypes, Offered
<1>3. /\ property' \in [status : PropertyStatus \cup {NoRow}, offered : BOOLEAN]
      /\ property'.status = property.status
      /\ property'.offered = (property.offered \/ Offered(property.status, state))
  BY <1>2 DEF SetRoom, Inv, RowTypes
<1>4. state # NoRow /\ price # NULL /\ account' = account
  BY CatalogAssumption DEF NoRow, SetRoom
<1>5. QED
  BY <1>1, <1>3, <1>4 DEF Inv, TypeOK, RowInv, RowTypes, OffersAreRemembered

\* The room an endpoint changes has its property and its price.
LEMMA RoomRow ==
  ASSUME Inv, room.state # NoRow
  PROVE  /\ property.status # NoRow /\ room.state \in {"active", "inactive"}
         /\ room.price \in Price
  BY DEF Inv, TypeOK, RowTypes

\* A booking of the room, or its end.
LEMMA TakenStep ==
  ASSUME Inv, NEW taken \in BOOLEAN,
         room' = [room EXCEPT !.taken = taken], UNCHANGED <<property, account>>
  PROVE  RowInv' /\ property'.offered = property.offered
<1>1. /\ room' \in [state : {NoRow, "active", "inactive"},
                    price : Price \cup {NULL}, taken : BOOLEAN]
      /\ room'.state = room.state /\ room'.price = room.price
  BY DEF Inv, RowTypes
<1>2. QED
  BY <1>1 DEF Inv, TypeOK, RowInv, RowTypes, OffersAreRemembered

\* A step that writes no table.
LEMMA QuietTables ==
  ASSUME Inv, UNCHANGED tables
  PROVE  RowInv' /\ property'.offered = property.offered
  BY DEF tables, Inv, TypeOK, RowInv, RowTypes, OffersAreRemembered

\* Handing in an ID asks for a new decision.
LEMMA SubmissionStep ==
  ASSUME Inv, submitVerification
  PROVE  /\ RowInv' /\ property'.offered = property.offered
         /\ account'.verification = "PENDING"
<1>1. account.handedIn \in 0 .. MaxSubmissions /\ account.handedIn < MaxSubmissions
  BY DEF Inv, RowTypes, submitVerification
<1>2. account.handedIn + 1 \in 1 .. MaxSubmissions
  BY <1>1, CatalogAssumption
<1>3. /\ account' = [verification |-> "PENDING", note |-> account.handedIn + 1,
                     handedIn |-> account.handedIn + 1]
      /\ UNCHANGED <<property, room>>
  BY DEF submitVerification
<1>4. QED
  BY <1>2, <1>3 DEF Inv, TypeOK, RowInv, RowTypes, Verification,
                    OffersAreRemembered

\* A decision is about whatever ID has been handed in last.
LEMMA DecisionStep ==
  ASSUME Inv, NEW decision \in {"VERIFIED", "REJECTED"},
         reviewHostVerification(decision)
  PROVE  RowInv' /\ property'.offered = property.offered
<1>1. /\ account' \in [verification : Verification,
                       note : 1 .. MaxSubmissions \cup {NULL},
                       handedIn : 0 .. MaxSubmissions]
      /\ account'.verification = decision
  BY DEF reviewHostVerification, Inv, RowTypes, Verification
<1>2. QED
  BY <1>1 DEF reviewHostVerification, Inv, TypeOK, RowInv, RowTypes,
              OffersAreRemembered

\* What the API shows a guest, it shows of a room on offer.
LEMMA ShownResult ==
  ASSUME Inv, NEW open \in BOOLEAN,
         open => Offered(property.status, room.state)
  PROVE  /\ Rooms(open) \in Result
         /\ Rooms(open) # <<>> => property.offered
         /\ Rooms(open) # <<>> /\ Head(Rooms(open)).verified =>
              account.verification = "VERIFIED"
<1>1. Shown \in [price : Price \cup {NULL}, verified : BOOLEAN]
  BY DEF Shown, Inv, RowTypes
<1>2. <<Shown>> # <<>> /\ Head(<<Shown>>) = Shown
  OBVIOUS
<1>3. QED
  BY <1>1, <1>2 DEF Rooms, Result, Shown, Inv, OffersAreRemembered

-----------------------------------------------------------------------------
(* The pages.                                                              *)

PageInv ==
  /\ PageTypes /\ seen \subseteq 1 .. MaxSubmissions
  /\ visitor.at \in {"form", "sent", "booked"} => visitor.result # <<>>
  /\ ShownWasOffered /\ ListedWasSeen /\ VerifiedWasSeen

\* The invariant is one half about the rows and one about the pages.
LEMMA InvParts == RowInv /\ PageInv => Inv
  BY DEF RowInv, PageInv, Inv, TypeOK, RowTypes, PageTypes

\* The same of the next state.
LEMMA InvPartsNext == RowInv' /\ PageInv' => Inv'
  BY DEF RowInv, PageInv, Inv, TypeOK, RowTypes, PageTypes

\* The half about the pages.
LEMMA PagesHold == Inv => PageInv
  BY DEF PageInv, Inv, TypeOK

\* A page that is not looked at stays right, as long as no badge is given.
LEMMA PagesRest ==
  ASSUME Inv, HostOnly, property.offered => property'.offered,
         account'.verification = "VERIFIED" => account.verification = "VERIFIED",
         desk' \in [room : {NoRow, "active", "inactive"},
                    edit : Price \cup {NULL}, card : Verification \cup {NULL}]
  PROVE  PageInv'
<1>1. UNCHANGED <<list, seen, visitor>> /\ PageInv
  BY PagesHold DEF HostOnly
<1>2. ListedWasSeen'
  BY <1>1 DEF PageInv, ListedWasSeen, MayReview
<1>3. QED
  BY <1>1, <1>2 DEF PageInv, PageTypes, ShownWasOffered, VerifiedWasSeen

\* The host's pages keep the invariant.
LEMMA HostInv ==
  ASSUME Inv, HostSteps
  PROVE  Inv'
<1> DEFINE Desk == [room : {NoRow, "active", "inactive"},
                    edit : Price \cup {NULL}, card : Verification \cup {NULL}]
<1>1. desk \in Desk /\ RowTypes
  BY DEF Inv, PageTypes
<1>2. ASSUME RowInv', HostOnly, property.offered => property'.offered,
             account' = account, desk' \in Desk
      PROVE  Inv'
  BY <1>2, PagesRest, InvPartsNext
<1>3. ASSUME UNCHANGED tables, HostOnly, desk' \in Desk
      PROVE  Inv'
  BY <1>2, <1>3, QuietTables DEF tables
<1>4. ASSUME RowInv', Reloaded PROVE desk' \in Desk
  BY <1>1, <1>4 DEF Reloaded, findOne, RowInv, RowTypes
<1>5. CASE NewPropertyForm
  <2>1. PICK status \in PropertyStatus : SetProperty(status)
    BY <1>5 DEF NewPropertyForm, createProperty
  <2>2. account' = account
    BY <2>1 DEF SetProperty
  <2>3. QED
    BY <1>1, <1>2, <1>5, <2>1, <2>2, PropertyStep DEF NewPropertyForm
<1>6. CASE HostStatus
  <2>1. PICK status \in PropertyStatus : SetProperty(status)
    BY <1>6 DEF HostStatus, removeProperty, updateProperty, PropertyStatus
  <2>2. account' = account
    BY <2>1 DEF SetProperty
  <2>3. QED
    BY <1>1, <1>2, <1>6, <2>1, <2>2, PropertyStep DEF HostStatus
<1>7. CASE loadProperty
  BY <1>1, <1>3, <1>7 DEF loadProperty, findOne, RowTypes
<1>8. ASSUME NEW state \in {"active", "inactive"}, NEW price \in Price,
             property.status # NoRow, SetRoom(state, price), HostOnly,
             RowInv' => desk' \in Desk
      PROVE  Inv'
  <2>1. account' = account
    BY <1>8 DEF SetRoom
  <2>2. QED
    BY <1>2, <1>8, <2>1, RoomStep
<1>9. CASE addRoom
  BY <1>4, <1>8, <1>9 DEF addRoom, createRoom
<1>10. CASE toggleRoom
  BY <1>4, <1>8, <1>10, RoomRow DEF toggleRoom, updateActive
<1>11. CASE RemoveRoom
  BY <1>1, <1>8, <1>11, RoomRow DEF RemoveRoom, removeRoom, updateActive
<1>12. CASE openEdit
  BY <1>1, <1>3, <1>12 DEF openEdit, findAll, RowTypes
<1>13. CASE handleUpdateRoom
  <2>1. PICK price \in Price : updatePrice(price)
    BY <1>1, <1>13 DEF handleUpdateRoom
  <2>2. desk' \in Desk
    BY <1>1, <1>13 DEF handleUpdateRoom
  <2>3. QED
    BY <1>8, <1>13, <2>1, <2>2, RoomRow DEF handleUpdateRoom, updatePrice
<1>14. CASE loadVerification
  BY <1>1, <1>3, <1>14 DEF loadVerification, RowTypes
<1>15. CASE VerificationCard
  <2>1. RowInv' /\ property'.offered = property.offered
        /\ account'.verification = "PENDING"
    BY <1>15, SubmissionStep DEF VerificationCard
  <2>2. desk' \in Desk
    BY <1>1, <1>15 DEF VerificationCard, Verification
  <2>3. QED
    BY <1>15, <2>1, <2>2, PagesRest, InvPartsNext DEF VerificationCard
<1>16. QED
  BY <1>5, <1>6, <1>7, <1>9, <1>10, <1>11, <1>12, <1>13, <1>14, <1>15
     DEF HostSteps

\* An administrator's pages keep the invariant, also with an old list.
LEMMA AdminInv ==
  ASSUME Inv, NEW a \in Admin, AdminSteps(a)
  PROVE  Inv'
<1> DEFINE Row == [verification : Verification,
                   note : 1 .. MaxSubmissions \cup {NULL}]
           Lists == [host : Row \cup {NULL}, status : PropertyStatus \cup {NULL}]
<1>1. PageInv /\ RowTypes /\ list \in [Admin -> Lists]
  BY PagesHold DEF Inv, PageTypes
<1>2. ASSUME RowInv', AdminOnly, property.offered => property'.offered,
             list' \in [Admin -> Lists], seen \subseteq seen',
             seen' \subseteq 1 .. MaxSubmissions,
             account'.verification = "VERIFIED" =>
               account.verification = "VERIFIED" \/ seen' # {},
             \A b \in Admin : MayReview(list'[b].host) => seen' # {}
      PROVE  Inv'
  <2>1. UNCHANGED <<desk, visitor>>
    BY <1>2 DEF AdminOnly
  <2>2. PageInv'
    BY <1>1, <1>2, <2>1 DEF PageInv, PageTypes, ShownWasOffered, ListedWasSeen,
                            VerifiedWasSeen
  <2>3. QED
    BY <1>2, <2>2, InvPartsNext
<1>3. CASE loadHosts(a)
  <2>1. /\ list' = [list EXCEPT ![a].host = HostRow(account)]
        /\ seen' = Sees(account) /\ UNCHANGED tables /\ AdminOnly
    BY <1>3 DEF loadHosts
  <2>2. HostRow(account) \in Row
    BY <1>1 DEF HostRow, RowTypes
  <2>3. /\ list' \in [Admin -> Lists]
        /\ list'[a].host = HostRow(account)
        /\ \A b \in Admin \ {a} : list'[b] = list[b]
    BY <1>1, <2>1, <2>2
  <2>4. account.verification = "PENDING" => account.note \in 1 .. MaxSubmissions
    BY CatalogAssumption DEF Inv, TypeOK, RowTypes
  <2>5. seen \subseteq seen' /\ seen' \subseteq 1 .. MaxSubmissions
    BY <1>1, <2>1, <2>4 DEF Sees, PageInv
  <2>6. MayReview(HostRow(account)) => seen' # {}
    BY <2>1 DEF MayReview, HostRow, Sees
  <2>7. \A b \in Admin : MayReview(list'[b].host) => seen' # {}
    BY <1>1, <2>3, <2>5, <2>6 DEF PageInv, ListedWasSeen
  <2>8. QED
    BY <1>2, <2>1, <2>3, <2>5, <2>7, QuietTables DEF tables
<1>4. CASE reviewVerification(a)
  <2>1. PICK decision \in {"VERIFIED", "REJECTED"} :
          reviewHostVerification(decision)
    BY <1>4 DEF reviewVerification
  <2>2. RowInv' /\ property'.offered = property.offered
    BY <2>1, DecisionStep
  <2>3. HostRow(account') \in Row /\ HostRow(account').verification = decision
    BY <1>1, <2>1 DEF HostRow, reviewHostVerification, RowTypes, Verification
  <2>4. /\ list' \in [Admin -> Lists]
        /\ list'[a].host = HostRow(account')
        /\ \A b \in Admin \ {a} : list'[b] = list[b]
    BY <1>1, <1>4, <2>3 DEF reviewVerification
  <2>5. seen # {} /\ seen' = seen /\ AdminOnly
    BY <1>1, <1>4 DEF reviewVerification, PageInv, ListedWasSeen
  <2>6. seen' # {} /\ seen \subseteq seen' /\ seen' \subseteq 1 .. MaxSubmissions
    BY <1>1, <2>5 DEF PageInv
  <2>7. QED
    BY <1>2, <2>2, <2>4, <2>5, <2>6
<1>5. CASE loadProperties(a)
  <2>1. /\ list' \in [Admin -> Lists]
        /\ \A b \in Admin : list'[b].host = list[b].host
    BY <1>1, <1>5 DEF loadProperties, RowTypes
  <2>2. QED
    BY <1>1, <1>2, <1>5, <2>1, QuietTables
       DEF loadProperties, tables, PageInv, ListedWasSeen
<1>6. CASE setStatus(a)
  <2>1. PICK status \in PropertyStatus :
          /\ SetProperty(status)
          /\ list' = [list EXCEPT ![a].status = status]
    BY <1>6 DEF setStatus, setPropertyStatus, PropertyStatus
  <2>2. /\ list' \in [Admin -> Lists]
        /\ \A b \in Admin : list'[b].host = list[b].host
    BY <1>1, <2>1
  <2>3. account' = account
    BY <2>1 DEF SetProperty
  <2>4. QED
    BY <1>1, <1>2, <1>6, <2>1, <2>2, <2>3, PropertyStep
       DEF setStatus, PageInv, ListedWasSeen
<1>7. QED
  BY <1>3, <1>4, <1>5, <1>6 DEF AdminSteps

\* The guest's pages keep the invariant.
LEMMA VisitorInv ==
  ASSUME Inv, VisitorSteps
  PROVE  Inv'
<1>1. PageInv
  BY PagesHold
<1>2. visitor \in [at : Place, result : Result]
  BY DEF Inv, PageTypes
<1>3. ASSUME RowInv', VisitorOnly, property'.offered = property.offered,
             account' = account, NEW place \in Place, NEW result \in Result,
             Goes(place, result),
             result # <<>> => property.offered,
             result # <<>> /\ Head(result).verified => seen # {},
             place \in {"form", "sent", "booked"} => result # <<>>
      PROVE  Inv'
  <2>1. UNCHANGED <<desk, list, seen>>
    BY <1>3 DEF VisitorOnly
  <2>2. /\ visitor' \in [at : Place, result : Result]
        /\ visitor'.at = place /\ visitor'.result = result
    BY <1>3 DEF Goes
  <2>3. PageInv'
    BY <1>1, <1>3, <2>1, <2>2 DEF PageInv, PageTypes, ShownWasOffered,
                                  ListedWasSeen, VerifiedWasSeen, MayReview
  <2>4. QED
    BY <1>3, <2>3, InvPartsNext
<1>4. /\ visitor.result \in Result
      /\ visitor.result # <<>> => property.offered
      /\ visitor.result # <<>> /\ Head(visitor.result).verified => seen # {}
  BY <1>1, <1>2 DEF PageInv, ShownWasOffered, VerifiedWasSeen
<1>5. account.verification = "VERIFIED" => seen # {}
  BY <1>1 DEF PageInv, VerifiedWasSeen
<1>6. ASSUME UNCHANGED tables, VisitorOnly, NEW place \in Place,
             place \in {"form", "sent", "booked"} => visitor.result # <<>>,
             Goes(place, visitor.result)
      PROVE  Inv'
  BY <1>3, <1>4, <1>6, QuietTables DEF tables
<1>7. ASSUME UNCHANGED tables, VisitorOnly,
             NEW place \in Place \ {"form", "sent", "booked"},
             NEW result \in Result, Goes(place, result),
             result # <<>> => property.offered,
             result # <<>> /\ Head(result).verified =>
               account.verification = "VERIFIED"
      PROVE  Inv'
  BY <1>3, <1>5, <1>7, QuietTables DEF tables
<1>8. CASE HomePage \/ SearchNothing
  BY <1>7, <1>8 DEF HomePage, SearchNothing, Place, Result
<1>9. CASE loadResults \/ applyFilters
  <2>1. PICK maxPrice \in Price \cup {NULL} : Goes("search", search(maxPrice))
    BY <1>9 DEF loadResults, applyFilters
  <2> DEFINE open == /\ property.status = "ACTIVE" /\ room.state = "active"
                     /\ maxPrice # NULL => room.price <= maxPrice
                     /\ checkAvailability
  <2>2. search(maxPrice) = Rooms(open) /\ open \in BOOLEAN
    BY DEF search, checkAvailability
  <2>3. open => Offered(property.status, room.state)
    BY DEF Offered
  <2> HIDE DEF open
  <2>4. QED
    BY <1>7, <1>9, <2>1, <2>2, <2>3, ShownResult
       DEF loadResults, applyFilters, Place
<1>10. CASE openResult \/ openLink
  <2>1. /\ property.status = "ACTIVE" => findOneBySlug = Rooms(room.state = "active")
        /\ findOneBySlug # NULL => property.status = "ACTIVE"
    BY DEF findOneBySlug
  <2>2. property.status = "ACTIVE" =>
          (room.state = "active" => Offered(property.status, room.state))
    BY DEF Offered
  <2>3. (room.state = "active") \in BOOLEAN
    OBVIOUS
  <2>4. QED
    BY <1>7, <1>10, <2>1, <2>2, <2>3, ShownResult DEF openResult, openLink, Place
<1>11. CASE handleBookRoom
  BY <1>6, <1>11 DEF handleBookRoom, Place
<1>12. CASE SubmitForm
  <2>1. visitor.result # <<>>
    BY <1>1, <1>12 DEF PageInv, SubmitForm
  <2>2. CASE UNCHANGED visitor
    <3>1. Goes(visitor.at, visitor.result)
      BY <1>2, <2>2 DEF Goes
    <3>2. QED
      BY <1>2, <1>6, <1>12, <2>1, <3>1 DEF SubmitForm
  <2>3. QED
    BY <1>6, <1>12, <2>1, <2>2 DEF SubmitForm, Place
<1>13. CASE FormAnswered
  <2>1. visitor.result # <<>>
    BY <1>1, <1>13 DEF PageInv, FormAnswered
  <2>2. CASE InsertBooking /\ Goes("booked", visitor.result)
    <3>1. RowInv' /\ property'.offered = property.offered /\ account' = account
      BY <2>2, TakenStep DEF InsertBooking
    <3>2. QED
      BY <1>3, <1>4, <1>13, <2>1, <2>2, <3>1 DEF FormAnswered, Place
  <2>3. CASE Goes("form", visitor.result) /\ UNCHANGED tables
    BY <1>6, <1>13, <2>1, <2>3 DEF FormAnswered, Place
  <2>4. QED
    BY <1>13, <2>2, <2>3 DEF FormAnswered
<1>14. QED
  BY <1>8, <1>9, <1>10, <1>11, <1>12, <1>13 DEF VisitorSteps

-----------------------------------------------------------------------------
(* The theorems.                                                           *)

\* Before anything is listed nothing has been offered, seen or sold.
LEMMA InvInit == Init => Inv
<1> SUFFICES ASSUME Init PROVE Inv
  OBVIOUS
<1>1. RowInv
  BY CatalogAssumption
     DEF Init, InitTables, RowInv, RowTypes, NoRow, Verification,
         OffersAreRemembered, Offered
<1>2. /\ seen = {} /\ visitor = [at |-> "home", result |-> <<>>]
      /\ account.verification = "UNVERIFIED"
  BY DEF Init, InitTables
<1>3. PageTypes
  BY <1>2 DEF Init, InitTables, PageTypes, findOne, Place, Result
<1>4. ListedWasSeen
  BY DEF Init, ListedWasSeen, MayReview
<1>5. PageInv
  BY <1>2, <1>3, <1>4 DEF PageInv, ShownWasOffered, VerifiedWasSeen
<1>6. QED
  BY <1>1, <1>5, InvParts

\* Whoever acts, and on whatever old page, the invariant is kept.
LEMMA InvStep == Inv /\ [Next]_vars => Inv'
<1> SUFFICES ASSUME Inv, [Next]_vars PROVE Inv'
  OBVIOUS
<1>1. ASSUME RowInv', property'.offered = property.offered, account' = account,
             UNCHANGED <<desk, list, seen, visitor>>
      PROVE  Inv'
  BY <1>1, PagesRest, InvPartsNext DEF HostOnly, Inv, PageTypes
<1>2. CASE NightsChange
  <2>1. RowInv' /\ property'.offered = property.offered /\ account' = account
    BY <1>2, TakenStep DEF NightsChange, OthersBook
  <2>2. QED
    BY <1>1, <1>2, <2>1 DEF NightsChange
<1>3. CASE UNCHANGED vars
  BY <1>1, <1>3, QuietTables DEF vars, tables
<1>4. QED
  BY <1>2, <1>3, HostInv, AdminInv, VisitorInv DEF Next

\* The invariant of the listing and its pages.
THEOREM CatalogCorrect == Spec => []Inv
<1>1. QED
  BY InvInit, InvStep, PTL DEF Spec

\* Every table and page holds what it is meant to hold.
THEOREM CatalogTypes == Spec => []TypeOK
<1>1. Inv => TypeOK
  BY DEF Inv
<1>2. QED
  BY <1>1, CatalogCorrect, PTL

\* Through the pages, only a room that has been on offer is booked.
THEOREM OnlyOfferedIsSold == Spec => []SoldWasOffered
<1>1. Inv => SoldWasOffered
  BY DEF Inv, TypeOK, ShownWasOffered, SoldWasOffered
<1>2. QED
  BY <1>1, CatalogCorrect, PTL

\* No badge without an ID that somebody has had on screen.
THEOREM BadgesRestOnIds == Spec => []VerifiedWasSeen
<1>1. Inv => VerifiedWasSeen
  BY DEF Inv
<1>2. QED
  BY <1>1, CatalogCorrect, PTL
=============================================================================
