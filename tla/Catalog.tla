------------------------------ MODULE Catalog -------------------------------
(***************************************************************************)
(* One host's listing as the API keeps it: the property, its room and the  *)
(* host's identity check, with the endpoints that change or show them.     *)
(* Every endpoint is one step but POST /bookings, which reads the room and *)
(* inserts the booking later.                                              *)
(***************************************************************************)
EXTENDS Integers, Sequences

CONSTANTS
  Price,           \* base prices of a room, and limits a visitor sets
  MaxSubmissions,  \* bound: times the host hands in an ID
  NULL

ASSUME CatalogAssumption ==
  Price \subseteq Nat /\ NULL \notin Price /\ MaxSubmissions \in Nat

VARIABLES
  property,  \* status of the property; offered: history, see Offered below
  room,      \* isActive, base price, and whether another guest has the nights
  account    \* the host's verification, the ID on file, IDs handed in so far

tables == <<property, room, account>>

PropertyStatus == {"DRAFT", "ACTIVE", "SUSPENDED"}
Verification == {"UNVERIFIED", "PENDING", "VERIFIED", "REJECTED"}
NoRow == "none"

InitTables ==
  /\ property = [status |-> NoRow, offered |-> FALSE]
  /\ room = [state |-> NoRow, price |-> NULL, taken |-> FALSE]
  /\ account = [verification |-> "UNVERIFIED", note |-> NULL, handedIn |-> 0]

\* The room has been on offer: active, in a property open to guests.
Offered(status, state) == status = "ACTIVE" /\ state = "active"

SetProperty(status) ==
  /\ property' = [status |-> status,
                  offered |-> property.offered \/ Offered(status, room.state)]
  /\ UNCHANGED <<room, account>>

SetRoom(state, price) ==
  /\ room' = [room EXCEPT !.state = state, !.price = price]
  /\ property' = [property EXCEPT !.offered =
                    @ \/ Offered(property.status, state)]
  /\ UNCHANGED account

-----------------------------------------------------------------------------
(* Properties: POST, PUT and DELETE /host/properties, GET /properties.     *)

createProperty(status) == property.status = NoRow /\ SetProperty(status)

\* The host may write any status, whoever wrote the last one.
updateProperty(status) == property.status # NoRow /\ SetProperty(status)

removeProperty == property.status # NoRow /\ SetProperty("SUSPENDED")

\* The host's own view of the room, inactive or not.
findOne == room.state

\* What a guest gets of the property: its active rooms, or not found.
Shown == [price |-> room.price, verified |-> account.verification = "VERIFIED"]
Rooms(open) == IF open THEN <<Shown>> ELSE <<>>

\* A mutant: the property page gets the inactive rooms, too.
findOneBySlugAllRooms ==
  IF property.status = "ACTIVE" THEN Rooms(room.state # NoRow) ELSE NULL

findOneBySlug ==
  IF property.status = "ACTIVE" THEN Rooms(room.state = "active") ELSE NULL

-----------------------------------------------------------------------------
(* Rooms: POST, PUT and DELETE /host/properties/:id/rooms.                 *)

\* A mutant: the room form is offered while the property does not exist yet.
createRoomAnywhere(price) == room.state = NoRow /\ SetRoom("active", price)

createRoom(price) ==
  property.status # NoRow /\ room.state = NoRow /\ SetRoom("active", price)

\* The rooms with all their fields, for the form.
findAll == room.price

updatePrice(price) == room.state # NoRow /\ SetRoom(room.state, price)

updateActive(isActive) ==
  /\ room.state # NoRow
  /\ SetRoom(IF isActive THEN "active" ELSE "inactive", room.price)

removeRoom == updateActive(FALSE)

checkAvailability == ~room.taken

-----------------------------------------------------------------------------
(* Search: GET /search.                                                    *)

\* The active, free rooms of open properties, none dearer than asked for.
search(maxPrice) ==
  Rooms(/\ property.status = "ACTIVE" /\ room.state = "active"
        /\ maxPrice # NULL => room.price <= maxPrice
        /\ checkAvailability)

-----------------------------------------------------------------------------
(* Bookings: POST /bookings reads the room, then inserts.                  *)

\* Whether the property is open to guests is not asked.
RoomFound == room.state = "active"

InsertBooking ==
  /\ ~room.taken
  /\ room' = [room EXCEPT !.taken = TRUE]
  /\ UNCHANGED <<property, account>>

\* Another guest takes the nights, or gives them back.
OthersBook ==
  /\ property.offered
  /\ \E taken \in BOOLEAN : room' = [room EXCEPT !.taken = taken]
  /\ UNCHANGED <<property, account>>

-----------------------------------------------------------------------------
(* The identity check.                                                     *)

submitVerification ==
  /\ account.handedIn < MaxSubmissions
  /\ account' = [verification |-> "PENDING", note |-> account.handedIn + 1,
                 handedIn |-> account.handedIn + 1]
  /\ UNCHANGED <<property, room>>

\* The decision is written over whatever is there, the ID on file included.
reviewHostVerification(decision) ==
  /\ account' = [account EXCEPT !.verification = decision, !.note = NULL]
  /\ UNCHANGED <<property, room>>

setPropertyStatus(status) == property.status # NoRow /\ SetProperty(status)
=============================================================================
