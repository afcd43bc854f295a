---------------------------- MODULE CatalogPages ----------------------------
(***************************************************************************)
(* The pages of apps/web around a listing: the host's forms, the           *)
(* administrators' lists, and a visitor who searches, looks and books.  A  *)
(* page acts on the rows it loaded, however old they are.                  *)
(***************************************************************************)
EXTENDS Catalog

CONSTANT Admin   \* administrators' browsers

VARIABLES
  desk,     \* the host: room as shown, price in the edit form, status on the card
  list,     \* what each administrator's lists show
  seen,     \* history: IDs an administrator has had on screen, still pending
  visitor   \* the visitor's tab: place and result shown

vars == <<tables, desk, list, seen, visitor>>

Place == {"home", "search", "property", "form", "sent", "booked"}

Init ==
  /\ InitTables
  /\ desk = [room |-> findOne, edit |-> NULL, card |-> NULL]
  /\ list = [a \in Admin |-> [host |-> NULL, status |-> NULL]]
  /\ seen = {}
  /\ visitor = [at |-> "home", result |-> <<>>]

HostOnly == UNCHANGED <<list, seen, visitor>>
AdminOnly == UNCHANGED <<desk, visitor>>
VisitorOnly == UNCHANGED <<desk, list, seen>>

-----------------------------------------------------------------------------
(* The host's pages.                                                       *)

\* The form for a new property posts it open to guests at once; the API also
\* takes a draft.
NewPropertyForm ==
  /\ \E status \in PropertyStatus : createProperty(status)
  /\ HostOnly /\ UNCHANGED desk

\* No page changes the status afterwards; the API does.
HostStatus ==
  /\ removeProperty \/ \E status \in PropertyStatus : updateProperty(status)
  /\ HostOnly /\ UNCHANGED desk

loadProperty ==
  /\ desk' = [desk EXCEPT !.room = findOne]
  /\ HostOnly /\ UNCHANGED tables

\* A change of the room, after which the page loads the property again.
Reloaded == desk' = [desk EXCEPT !.room = findOne']

addRoom ==
  /\ \E price \in Price : createRoom(price)
  /\ Reloaded /\ HostOnly

toggleRoom ==
  /\ desk.room # NoRow
  /\ updateActive(desk.room # "active")
  /\ Reloaded /\ HostOnly

RemoveRoom ==
  /\ removeRoom
  /\ HostOnly /\ UNCHANGED desk

\* The rooms page: load the rooms, open the form of the room.
openEdit ==
  /\ desk.edit = NULL /\ room.state # NoRow
  /\ desk' = [desk EXCEPT !.edit = findAll]
  /\ HostOnly /\ UNCHANGED tables

\* The form posts every field, the price as well when it was left as it was.
handleUpdateRoom ==
  /\ desk.edit # NULL
  /\ \E price \in {desk.edit} \cup Price : updatePrice(price)
  /\ desk' = [desk EXCEPT !.edit = NULL]
  /\ HostOnly

loadVerification ==
  /\ desk' = [desk EXCEPT !.card = account.verification]
  /\ HostOnly /\ UNCHANGED tables

\* The card has a form only while it shows neither VERIFIED nor PENDING.
VerificationCard ==
  /\ desk.card \notin {"VERIFIED", "PENDING"}
  /\ submitVerification
  /\ desk' = [desk EXCEPT !.card = "PENDING"]
  /\ HostOnly

-----------------------------------------------------------------------------
(* The administrators' pages.                                              *)

\* A list that shows a pending ID has shown it to a person.
Sees(row) == IF row.verification = "PENDING" THEN seen \cup {row.note} ELSE seen
HostRow(acc) == [verification |-> acc.verification, note |-> acc.note]

loadHosts(a) ==
  /\ list' = [list EXCEPT ![a].host = HostRow(account)]
  /\ seen' = Sees(account)
  /\ AdminOnly /\ UNCHANGED tables

\* A mutant: the buttons are there for every host in the list.
MayReviewAny(row) == row # NULL

\* Approve and Reject are there for a host the list shows as pending.
MayReview(row) == row # NULL /\ row.verification = "PENDING"

reviewVerification(a) ==
  /\ MayReview(list[a].host)
  /\ \E decision \in {"VERIFIED", "REJECTED"} : reviewHostVerification(decision)
  /\ list' = [list EXCEPT ![a].host = HostRow(account')]
  /\ UNCHANGED seen /\ AdminOnly

loadProperties(a) ==
  /\ property.status # NoRow
  /\ list' = [list EXCEPT ![a].status = property.status]
  /\ UNCHANGED seen /\ AdminOnly /\ UNCHANGED tables

setStatus(a) ==
  /\ list[a].status # NULL
  /\ LET status == IF list[a].status # "SUSPENDED" THEN "SUSPENDED" ELSE "ACTIVE"
     IN  /\ setPropertyStatus(status)
         /\ list' = [list EXCEPT ![a].status = status]
  /\ UNCHANGED seen /\ AdminOnly

-----------------------------------------------------------------------------
(* The visitor.                                                            *)

Goes(place, result) == visitor' = [at |-> place, result |-> result]

\* The home page links to the search without a destination, and such a search
\* asks the API nothing.
HomePage ==
  /\ visitor.at # "sent"
  /\ Goes("home", <<>>)
  /\ UNCHANGED tables /\ VisitorOnly

SearchNothing ==
  /\ visitor.at = "home" /\ Goes("search", <<>>)
  /\ UNCHANGED tables /\ VisitorOnly

\* With a city and dates in the address, which no page links to.
loadResults ==
  /\ visitor.at \in {"home", "property"}
  /\ Goes("search", search(NULL))
  /\ UNCHANGED tables /\ VisitorOnly

\* The filters go into the address and the results are loaded anew.
applyFilters ==
  /\ visitor.at = "search"
  /\ \E maxPrice \in Price \cup {NULL} : Goes("search", search(maxPrice))
  /\ UNCHANGED tables /\ VisitorOnly

\* A result of the search leads to its property, which may be gone by now.
openResult ==
  /\ visitor.at = "search" /\ visitor.result # <<>>
  /\ findOneBySlug # NULL
  /\ Goes("property", findOneBySlug)
  /\ UNCHANGED tables /\ VisitorOnly

\* A link kept from earlier; a property that is not found offers the way home.
openLink ==
  /\ visitor.at = "home"
  /\ findOneBySlug # NULL
  /\ Goes("property", findOneBySlug)
  /\ UNCHANGED tables /\ VisitorOnly

handleBookRoom ==
  /\ visitor.at = "property" /\ visitor.result # <<>>
  /\ Goes("form", visitor.result)
  /\ UNCHANGED tables /\ VisitorOnly

SubmitForm ==
  /\ visitor.at = "form"
  /\ IF RoomFound THEN Goes("sent", visitor.result) ELSE UNCHANGED visitor
  /\ UNCHANGED tables /\ VisitorOnly

FormAnswered ==
  /\ visitor.at = "sent"
  /\ \/ InsertBooking /\ Goes("booked", visitor.result)
     \/ room.taken /\ Goes("form", visitor.result) /\ UNCHANGED tables
  /\ VisitorOnly

NightsChange == OthersBook /\ UNCHANGED <<desk, list, seen, visitor>>

HostSteps ==
  \/ NewPropertyForm \/ HostStatus \/ loadProperty \/ addRoom \/ toggleRoom
  \/ RemoveRoom \/ openEdit \/ handleUpdateRoom \/ loadVerification
  \/ VerificationCard

AdminSteps(a) ==
  \/ loadHosts(a) \/ reviewVerification(a) \/ loadProperties(a) \/ setStatus(a)

VisitorSteps ==
  \/ HomePage \/ SearchNothing \/ loadResults \/ applyFilters
  \/ openResult \/ openLink \/ handleBookRoom \/ SubmitForm \/ FormAnswered

Next ==
  \/ HostSteps
  \/ \E a \in Admin : AdminSteps(a)
  \/ VisitorSteps
  \/ NightsChange

Spec == Init /\ [][Next]_vars

-----------------------------------------------------------------------------
(* Properties.                                                             *)

\* Every table and page holds what it is meant to hold; a room belongs to a
\* property and has a price, and no page has a room it was never shown.
TypeOK ==
  /\ property.status \in PropertyStatus \cup {NoRow}
  /\ room.state \in {NoRow, "active", "inactive"}
  /\ room.state = NoRow <=> room.price = NULL
  /\ property.status = NoRow => room.state = NoRow
  /\ account.verification \in Verification
  /\ account.verification = "PENDING" => account.note = account.handedIn
  /\ desk.edit \in Price \cup {NULL}
  /\ \A a \in Admin : list[a].status \in PropertyStatus \cup {NULL}
  /\ seen \subseteq 1 .. MaxSubmissions
  /\ visitor.at \in Place
  /\ visitor.at \in {"form", "sent", "booked"} => visitor.result # <<>>

\* A guest's booking, made through the pages, is for a room that has been on
\* offer: active in a property open to guests, at one and the same moment.
\* The API itself never asks whether the property is open, and the room may
\* come and go while the visitor looks at an old page.
SoldWasOffered == visitor.at = "booked" => property.offered

\* The badge a guest sees rests on an ID that an administrator had on screen
\* while it was pending.
VerifiedWasSeen ==
  \/ account.verification # "VERIFIED" /\
       (visitor.result = <<>> \/ ~Head(visitor.result).verified)
  \/ seen # {}
=============================================================================
