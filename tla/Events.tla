------------------------------- MODULE Events -------------------------------
(***************************************************************************)
(* One event and its pool of tickets: application/event/service.go.  The   *)
(* handlers read documents and write them back whole; FindAvailable claims *)
(* nothing, and one wallet may have several purchases under way.  A QR     *)
(* code stands for the ticket and the wallet it was sealed for, and for    *)
(* the purchase that sealed it; its own age limit lies beyond the check-in *)
(* window and is left out.                                                 *)
(***************************************************************************)
EXTENDS Integers, FiniteSets

CONSTANTS
  Seats,               \* the tickets generated with the event
  Wallets,             \* who may buy
  Guests,              \* BuyTicket calls
  Scans,               \* CheckIn calls
  MaxEventAsides       \* bound: faults and restarts

ASSUME EventAssumption == MaxEventAsides \in Nat

VARIABLES
  event,               \* the event document
  seat,                \* the ticket documents
  doors,               \* where the clock is: "before", "open", "closed"
  booking, scanning,    \* the handlers
  passes,              \* QR codes handed out
  fee,                 \* what became of the payment of each guest
  entered,             \* ghost: the scans that let somebody in, each with its code
  sales,               \* ghost: how often each ticket was written as sold
  crowded,             \* ghost: the tickets two check-ins had in hand at once
  eventAsides

atDoor == <<entered, crowded>>
eventVars == <<event, seat, doors, booking, scanning, passes, fee, sales, atDoor, eventAsides>>

NoEvent   == [price |-> "none"]
NoSeat    == [status |-> "absent", owner |-> "none"]
FreeSeat  == [status |-> "AVAILABLE", owner |-> "none"]
Waiting   == [step |-> "idle"]
Finished  == [step |-> "over"]

EventInit ==
  /\ event = NoEvent
  /\ seat = [s \in Seats |-> NoSeat]
  /\ doors = "before"
  /\ booking = [g \in Guests |-> Waiting] /\ scanning = [k \in Scans |-> Waiting]
  /\ passes = {} /\ fee = [g \in Guests |-> "none"]
  /\ entered = {} /\ sales = [s \in Seats |-> 0] /\ crowded = {} /\ eventAsides = 0

\* the codes anybody may present, and those the service sealed for a ticket
Codewords == [ticket : Seats, owner : Wallets, buy : Guests]
EncryptQR(s, w, g) == {c \in Codewords : c.ticket = s /\ c.owner = w /\ c.buy = g}

\* authenticated encryption: a code opens only if it was sealed and handed out
DecryptQR(c) == c \in passes

EventAside == eventAsides < MaxEventAsides /\ eventAsides' = eventAsides + 1

\* the pool is inserted after the event; a failed insert leaves part of it
CreateEvent ==
  /\ event = NoEvent
  /\ \E price \in {"free", "paid"} : event' = [price |-> price, sold |-> 0, checkedIn |-> 0]
  /\ \E made \in SUBSET Seats :
       /\ seat' = [s \in Seats |-> IF s \in made THEN FreeSeat ELSE NoSeat]
       /\ IF made = Seats THEN UNCHANGED eventAsides ELSE EventAside
  /\ UNCHANGED <<doors, booking, scanning, passes, fee, sales, atDoor>>

\* bookings are never closed: the doors open and close while tickets are sold
DoorsMove ==
  /\ event # NoEvent
  /\ \/ doors = "before" /\ doors' = "open"
     \/ doors = "open" /\ doors' = "closed"
  /\ UNCHANGED <<event, seat, booking, scanning, passes, fee, sales, atDoor, eventAsides>>

-----------------------------------------------------------------------------
(* BuyTicket                                                               *)

BuyerFrame == UNCHANGED <<doors, scanning, atDoor>>

ReadEvent(g) ==
  /\ booking[g] = Waiting /\ event # NoEvent
  /\ \E w \in Wallets :
       booking' = [booking EXCEPT ![g] = [step |-> "find", wallet |-> w, copy |-> event]]
  /\ UNCHANGED <<event, seat, passes, fee, sales, eventAsides>> /\ BuyerFrame

\* all tickets have the same created_at: any of the available ones may come
\* first
FindAvailable(g) ==
  /\ booking[g].step = "find"
  /\ \/ \E s \in Seats :
          /\ seat[s].status = "AVAILABLE"
          /\ booking' = [booking EXCEPT ![g] =
               [step |-> IF @.copy.price = "paid" THEN "pay" ELSE "write",
                wallet |-> @.wallet, copy |-> @.copy, seat |-> s]]
     \/ /\ \A s \in Seats : seat[s].status # "AVAILABLE"
        /\ booking' = [booking EXCEPT ![g] = Finished]
  /\ UNCHANGED <<event, seat, passes, fee, sales, eventAsides>> /\ BuyerFrame

\* mutant of PayForSeat: a refused payment does not end the handler
PayForSeatOrNot(g) ==
  /\ booking[g].step = "pay"
  /\ booking' = [booking EXCEPT ![g].step = "write"]
  /\ \/ fee' = [fee EXCEPT ![g] = "PENDING"] /\ UNCHANGED eventAsides
     \/ EventAside /\ UNCHANGED fee
  /\ UNCHANGED <<event, seat, passes, sales>> /\ BuyerFrame

\* CheckAndReserve and SubmitTransfer, rolled back when refused
PayForSeat(g) ==
  /\ booking[g].step = "pay"
  /\ \/ /\ fee' = [fee EXCEPT ![g] = "PENDING"]
        /\ booking' = [booking EXCEPT ![g].step = "write"]
        /\ UNCHANGED eventAsides
     \/ /\ booking' = [booking EXCEPT ![g] = Finished] /\ EventAside
        /\ UNCHANGED fee
  /\ UNCHANGED <<event, seat, passes, sales>> /\ BuyerFrame

\* the whole ticket as it was found, sold
WriteSeat(g) ==
  /\ booking[g].step = "write"
  /\ LET s == booking[g].seat IN
     \/ /\ seat' = [seat EXCEPT ![s] = [status |-> "SOLD", owner |-> booking[g].wallet]]
        /\ sales' = [sales EXCEPT ![s] = @ + 1]
        /\ booking' = [booking EXCEPT ![g].step = "count"]
        /\ UNCHANGED eventAsides
     \/ /\ booking' = [booking EXCEPT ![g] = Finished] /\ EventAside
        /\ UNCHANGED <<seat, sales>>
  /\ UNCHANGED <<event, passes, fee>> /\ BuyerFrame

\* the QR code is returned only when the event could be written as well
CountSold(g) ==
  /\ booking[g].step = "count"
  /\ \/ /\ event' = [booking[g].copy EXCEPT !.sold = @ + 1]
        /\ passes' = passes \cup EncryptQR(booking[g].seat, booking[g].wallet, g)
        /\ UNCHANGED eventAsides
     \/ EventAside /\ UNCHANGED <<event, passes>>
  /\ booking' = [booking EXCEPT ![g] = Finished]
  /\ UNCHANGED <<seat, fee, sales>> /\ BuyerFrame

\* the settlement of the payment: the hook for tickets looks for a purchase of
\* the ticketing service and finds none, so neither outcome reaches the seat
SettleFee(g) ==
  /\ fee[g] = "PENDING"
  /\ \E outcome \in {"SUCCESS", "FAILED"} : fee' = [fee EXCEPT ![g] = outcome]
  /\ UNCHANGED <<event, seat, doors, booking, scanning, passes, sales, atDoor, eventAsides>>

-----------------------------------------------------------------------------
(* CheckIn                                                                 *)

ScanFrame == UNCHANGED <<doors, booking, passes, fee, sales>>

ReadEventAtDoor(k) ==
  /\ scanning[k] = Waiting /\ doors = "open"
  /\ \E pass \in Codewords :
       /\ DecryptQR(pass)
       /\ scanning' = [scanning EXCEPT ![k] = [step |-> "ticket", pass |-> pass, copy |-> event]]
  /\ UNCHANGED <<event, seat, atDoor, eventAsides>> /\ ScanFrame

\* mutant of PassValid: a used ticket is let in again
PassValidTwice(pass) == seat[pass.ticket].owner = pass.owner

\* the ticket still belongs to the owner in the code and is not used
PassValid(pass) == seat[pass.ticket] = [status |-> "SOLD", owner |-> pass.owner]

\* the check-ins that found the ticket valid and have not written it yet
InHand(s) == {k \in Scans : scanning[k].step = "admit" /\ scanning[k].pass.ticket = s}

ReadSeat(k) ==
  /\ scanning[k].step = "ticket"
  /\ LET pass == scanning[k].pass IN
     \/ /\ PassValid(pass)
        /\ scanning' = [scanning EXCEPT ![k].step = "admit"]
        /\ crowded' = crowded \cup {s \in {pass.ticket} : InHand(s) # {}}
     \/ /\ ~PassValid(pass)
        /\ scanning' = [scanning EXCEPT ![k] = Finished] /\ UNCHANGED crowded
  /\ UNCHANGED <<event, seat, entered, eventAsides>> /\ ScanFrame

WriteCheckIn(k) ==
  /\ scanning[k].step = "admit"
  /\ LET pass == scanning[k].pass IN
     \/ /\ seat' = [seat EXCEPT ![pass.ticket] = [status |-> "CHECKED_IN", owner |-> pass.owner]]
        /\ entered' = entered \cup {[scan |-> k, pass |-> pass]}
        /\ scanning' = [scanning EXCEPT ![k].step = "count"]
        /\ UNCHANGED eventAsides
     \/ /\ scanning' = [scanning EXCEPT ![k] = Finished] /\ EventAside
        /\ UNCHANGED <<seat, entered>>
  /\ UNCHANGED <<event, crowded>> /\ ScanFrame

CountCheckIn(k) ==
  /\ scanning[k].step = "count"
  /\ \/ event' = [scanning[k].copy EXCEPT !.checkedIn = @ + 1] /\ UNCHANGED eventAsides
     \/ EventAside /\ UNCHANGED event
  /\ scanning' = [scanning EXCEPT ![k] = Finished]
  /\ UNCHANGED <<seat, atDoor>> /\ ScanFrame

EventRestart ==
  /\ EventAside
  /\ booking' = [g \in Guests |-> IF booking[g] = Waiting THEN Waiting ELSE Finished]
  /\ scanning' = [k \in Scans |-> IF scanning[k] = Waiting THEN Waiting ELSE Finished]
  /\ UNCHANGED <<event, seat, doors, passes, fee, sales, atDoor>>

EventNext ==
  \/ CreateEvent \/ DoorsMove \/ EventRestart
  \/ \E g \in Guests : \/ ReadEvent(g) \/ FindAvailable(g) \/ PayForSeat(g)
                       \/ WriteSeat(g) \/ CountSold(g) \/ SettleFee(g)
  \/ \E k \in Scans : \/ ReadEventAtDoor(k) \/ ReadSeat(k)
                      \/ WriteCheckIn(k) \/ CountCheckIn(k)

-----------------------------------------------------------------------------
(* Properties                                                              *)

EventTypeOK ==
  /\ event = NoEvent \/ event \in
       [price : {"free", "paid"}, sold : 0 .. Cardinality(Guests), checkedIn : 0 .. Cardinality(Scans)]
  /\ seat \in [Seats -> [status : {"absent", "AVAILABLE", "SOLD", "CHECKED_IN"},
                         owner : Wallets \cup {"none"}]]
  /\ doors \in {"before", "open", "closed"}
  /\ \A g \in Guests : booking[g].step \in {"idle", "find", "pay", "write", "count", "over"}
  /\ \A k \in Scans : scanning[k].step \in {"idle", "ticket", "admit", "count", "over"}
  /\ passes \subseteq Codewords /\ entered \subseteq [scan : Scans, pass : Codewords]
  /\ sales \in [Seats -> Nat] /\ crowded \subseteq Seats
  /\ fee \in [Guests -> {"none", "PENDING", "SUCCESS", "FAILED"}]
  /\ eventAsides \in 0 .. MaxEventAsides

\* Two buyers may be sold one seat and both may get in, and a payment may fail
\* after its ticket was used; but whoever is let in to a paid event did put a
\* payment into the queue.
AdmittedHadPaid ==
  event # NoEvent /\ event.price = "paid" =>
    \A entry \in entered : fee[entry.pass.buy] # "none"

EntriesOf(s) == {entry \in entered : entry.pass.ticket = s}

\* The counters are stale copies written back by handlers that overwrite each
\* other: they only ever miss, so the event shows no more entries than there
\* were and no more sales than codes handed out.  A late sale turns a used
\* ticket back to SOLD, and with it every older code of the same wallet; still a
\* ticket lets in no more often than it was sold, unless two check-ins had it in
\* hand at once.
EventCountsBacked ==
  /\ event # NoEvent =>
       event.checkedIn <= Cardinality(entered) /\ event.sold <= Cardinality(passes)
  /\ \A s \in Seats \ crowded : Cardinality(EntriesOf(s)) <= sales[s]
=============================================================================
