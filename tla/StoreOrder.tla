------------------------------- MODULE StoreOrder -------------------------------
(***************************************************************************)
(* Orders at the partner stores: which store an order is sent to, the      *)
(* store's daily quota, the acceptance of a laundry pickup and the stock   *)
(* of what was ordered.                                                    *)
(*                                                                         *)
(* Nothing here is a transaction: every Prisma call is a step of its own.  *)
(* A handler that throws is CallDies.                                      *)
(***************************************************************************)
EXTENDS Integers, FiniteSets

CONSTANTS
  Seller, Order, Product,
  Caller,      \* the requests in flight at once
  DailyLimit,  \* Seller.dailyOrderLimit, on the free plan
  MaxDay,      \* bound: the days that pass
  MaxBookings, \* bound: the attempts to book one laundry pickup
  MaxCount,    \* bound: the orders counted for a store
  NoSeller     \* the sellerId of an order that does not exist yet

ASSUME SellerAssumption == NoSeller \notin Seller
ASSUME BoundAssumption == {DailyLimit, MaxDay, MaxBookings, MaxCount} \subseteq Nat

VARIABLES
  seller,       \* Seller.status; none is not registered, out is rejected or suspended
  pro,          \* the sellers on a plan without a quota
  ordersToday,
  lastDay,      \* the day of Seller.lastOrderDate
  order,        \* SellerOrder.status
  kind,         \* SellerOrder.orderType
  holder,       \* SellerOrder.sellerId
  bookings,     \* the Booking rows made for a laundry order
  counted,      \* history: the orders a store was counted for
  accepted,     \* history: the orders that an acceptance or a claim has written
  taken,        \* how often an order has lowered the stock of a product
  day,          \* today
  resetting,    \* resets of a daily count that were sent and not waited for
  call          \* what each request is doing

sellerVars == <<seller, pro>>
countVars == <<ordersToday, lastDay, counted>>
orderVars == <<order, kind, holder, bookings, accepted>>
vars == <<sellerVars, countVars, orderVars, taken, day, resetting, call>>

Day == 0 .. MaxDay
SellerStatus == {"none", "PENDING", "APPROVED", "out"}

\* Pickup Scheduled stands for every status after it, too.
OrderStatus == {"none", "Preparing", "Awaiting Partner Acceptance", "Pickup Scheduled"}

Idle == [stage |-> "idle"]

\* doing: placing a grocery or a laundry order, the store's accept, or the claim of
\* a broadcast pickup.  fresh and read are what acceptStoreOrder keeps of its read of the
\* seller: whether the count is of another day, and the day it was then.
Call == [stage : {"create", "booked", "readSeller", "count", "link", "claim", "stock"},
         doing : {"Grocery", "Laundry", "accept", "claim"},
         order : Order, seller : Seller \cup {NoSeller}, items : SUBSET Product,
         fresh : BOOLEAN, read : Day]

TypeOK ==
  /\ seller \in [Seller -> SellerStatus]
  /\ pro \in SUBSET Seller
  /\ ordersToday \in [Seller -> Nat]
  /\ lastDay \in [Seller -> Day \cup {-1}]
  /\ counted \in SUBSET (Order \X Seller)
  /\ order \in [Order -> OrderStatus]
  /\ kind \in [Order -> {"Grocery", "Laundry", "none"}]
  /\ holder \in [Order -> Seller \cup {NoSeller}]
  /\ bookings \in [Order -> Nat]
  /\ accepted \in SUBSET Order
  /\ taken \in [Order -> [Product -> Nat]]
  /\ day \in Day
  /\ resetting \in SUBSET (Caller \X Seller \X Day)
  /\ call \in [Caller -> Call \cup {Idle}]

Init ==
  /\ seller = [s \in Seller |-> "none"]
  /\ pro \in SUBSET Seller
  /\ ordersToday = [s \in Seller |-> 0]
  /\ lastDay = [s \in Seller |-> -1]
  /\ counted = {}
  /\ order = [o \in Order |-> "none"]
  /\ kind = [o \in Order |-> "none"]
  /\ holder = [o \in Order |-> NoSeller]
  /\ bookings = [o \in Order |-> 0]
  /\ accepted = {}
  /\ taken = [o \in Order |-> [p \in Product |-> 0]]
  /\ day = 0
  /\ resetting = {}
  /\ call = [c \in Caller |-> Idle]

At(c, stage) == call[c].stage = stage

Begin(c, stage, doing, o, s) ==
  /\ call[c] = Idle
  /\ call' = [call EXCEPT ![c] = [stage |-> stage, doing |-> doing, order |-> o, seller |-> s,
                                  items |-> {}, fresh |-> FALSE, read |-> 0]]

\* After the count: what was read of the seller is not used again.
Goto(c, stage) ==
  call' = [call EXCEPT ![c].stage = stage, ![c].fresh = FALSE, ![c].read = 0]

Done(c) == call' = [call EXCEPT ![c] = Idle]

\* The process stops, or a statement throws.
CallDies(c) ==
  /\ call[c] # Idle
  /\ Done(c)
  /\ UNCHANGED <<sellerVars, countVars, orderVars, taken, day, resetting>>

(***************************************************************************)
(* The sellers and the administrator.                                      *)
(***************************************************************************)

\* The phone is unique.  Registering sets lastOrderDate.
Register(s) ==
  /\ seller[s] = "none"
  /\ seller' = [seller EXCEPT ![s] = "PENDING"]
  /\ lastDay' = [lastDay EXCEPT ![s] = day]
  /\ UNCHANGED <<pro, ordersToday, counted, orderVars, taken, day, resetting, call>>

\* The sign-in of a new address (see StoreSignIn): approved at once, with no lastOrderDate.
SignUp(s) ==
  /\ seller[s] = "none"
  /\ seller' = [seller EXCEPT ![s] = "APPROVED"]
  /\ UNCHANGED <<pro, countVars, orderVars, taken, day, resetting, call>>

SetStatus(s) ==
  /\ seller[s] # "none"
  /\ \E status \in SellerStatus \ {"none"} : seller' = [seller EXCEPT ![s] = status]
  /\ UNCHANGED <<pro, countVars, orderVars, taken, day, resetting, call>>

SetPlan(s) ==
  /\ seller[s] # "none"
  /\ pro' \in {pro \cup {s}, pro \ {s}}
  /\ UNCHANGED <<seller, countVars, orderVars, taken, day, resetting, call>>

Midnight ==
  /\ day < MaxDay
  /\ day' = day + 1
  /\ UNCHANGED <<sellerVars, countVars, orderVars, taken, resetting, call>>

(***************************************************************************)
(* Which store an order is sent to.                                        *)
(***************************************************************************)

\* Mutant of IsNewDay: every day counts as new.
AlwaysNewDay(s) == lastDay[s] <= day

IsNewDay(s) == lastDay[s] # day

CountToday(s) == IF IsNewDay(s) THEN 0 ELSE ordersToday[s]

\* Which of them is nearest, and in which tier, is left open: any may be chosen.
Available ==
  {s \in Seller : /\ seller[s] = "APPROVED"
                  /\ s \in pro \/ DailyLimit = 0 \/ CountToday(s) < DailyLimit}

\* The search sends a reset for every approved seller whose count is of another day,
\* and does not wait for it.
FindStores(c) ==
  resetting' = resetting \cup
    {<<c, s, day>> : s \in {s \in Seller : seller[s] = "APPROVED" /\ IsNewDay(s)}}

ResetLands(r) ==
  /\ r \in resetting
  /\ ordersToday' = [ordersToday EXCEPT ![r[2]] = 0]
  /\ lastDay' = [lastDay EXCEPT ![r[2]] = r[3]]
  /\ resetting' = resetting \ {r}
  /\ UNCHANGED <<sellerVars, counted, orderVars, taken, day, call>>

(***************************************************************************)
(* Placing an order.  The customer chooses the order number, and sends the *)
(* request again when no answer came.                                      *)
(***************************************************************************)

\* Where no store is left, the order goes to the one the customer named, or to the
\* store of id 1: the quota and the approval are not looked at again.
GroceryDispatch(c, o, s) ==
  /\ s \in Available \/ (Available = {} /\ seller[s] # "none")
  /\ Begin(c, "create", "Grocery", o, s)
  /\ FindStores(c)
  /\ UNCHANGED <<sellerVars, countVars, orderVars, taken, day>>

\* The Booking, CONFIRMED, comes before the search for a store.
LaundryBook(c, o) ==
  /\ bookings[o] < MaxBookings
  /\ Begin(c, "booked", "Laundry", o, NoSeller)
  /\ bookings' = [bookings EXCEPT ![o] = @ + 1]
  /\ UNCHANGED <<sellerVars, countVars, order, kind, holder, accepted, taken, day, resetting>>

\* Without a store there is no order (the booking stays).
LaundryDispatch(c) ==
  /\ At(c, "booked")
  /\ \/ \E s \in Seller :
          /\ s \in Available \/ (Available = {} /\ seller[s] # "none")
          /\ call' = [call EXCEPT ![c].stage = "create", ![c].seller = s]
     \/ Available = {} /\ Done(c)
  /\ FindStores(c)
  /\ UNCHANGED <<sellerVars, countVars, orderVars, taken, day>>

\* Mutant of Unused: the order number is not unique.
UnusedOrNot(o) == o \in Order

Unused(o) == order[o] = "none"

CreateOrder(c) ==
  LET o == call[c].order IN
  /\ At(c, "create")
  /\ Unused(o)
  /\ kind' = [kind EXCEPT ![o] = call[c].doing]
  /\ holder' = [holder EXCEPT ![o] = call[c].seller]
  /\ \/ /\ call[c].doing = "Grocery"
        /\ order' = [order EXCEPT ![o] = "Preparing"]
        /\ \E items \in (SUBSET Product) \ {{}} :
             call' = [call EXCEPT ![c].stage = "readSeller", ![c].items = items]
     \/ /\ call[c].doing = "Laundry"
        /\ order' = [order EXCEPT ![o] = "Awaiting Partner Acceptance"]
        /\ Done(c)
  /\ UNCHANGED <<sellerVars, countVars, bookings, accepted, taken, day, resetting>>

\* One item at a time; the error of one is swallowed and the next one follows.
TakeStock(c, p) ==
  LET o == call[c].order IN
  /\ At(c, "stock")
  /\ p \in call[c].items
  /\ taken' \in {taken, [taken EXCEPT ![o][p] = @ + 1]}
  /\ IF call[c].items = {p} THEN Done(c)
     ELSE call' = [call EXCEPT ![c].items = @ \ {p}]
  /\ UNCHANGED <<sellerVars, countVars, orderVars, day, resetting>>

(***************************************************************************)
(* The acceptance of an order, which is also the end of placing a grocery  *)
(* order.                                                                  *)
(***************************************************************************)

\* The store's own accept: neither the order nor the quota is looked at.
AcceptBegin(c, o, s) ==
  /\ seller[s] # "none"
  /\ Begin(c, "readSeller", "accept", o, s)
  /\ UNCHANGED <<sellerVars, countVars, orderVars, taken, day, resetting>>

\* A broadcast pickup is claimed; 409 if another store has it.  Awaiting stands for the
\* three statuses in which it is offered.
ClaimBegin(c, o, s) ==
  /\ seller[s] # "none"
  /\ order[o] # "none"
  /\ order[o] = "Awaiting Partner Acceptance" \/ holder[o] = s
  /\ Begin(c, "readSeller", "claim", o, s)
  /\ UNCHANGED <<sellerVars, countVars, orderVars, taken, day, resetting>>

\* What comes after acceptStoreOrder, successful or, for a grocery order, not.
AfterAccept(c) ==
  CASE call[c].doing = "Grocery" -> Goto(c, "stock")
    [] call[c].doing = "claim" -> Goto(c, "claim")
    [] OTHER -> Done(c)

\* What is decided here is written as it is, however long the update takes to come.
ReadSeller(c) ==
  /\ At(c, "readSeller")
  /\ call' = [call EXCEPT ![c].stage = "count", ![c].fresh = IsNewDay(call[c].seller),
                          ![c].read = day]
  /\ UNCHANGED <<sellerVars, countVars, orderVars, taken, day, resetting>>

CountOrder(c) ==
  LET s == call[c].seller IN
  /\ At(c, "count")
  /\ ordersToday[s] < MaxCount
  /\ ordersToday' = [ordersToday EXCEPT ![s] = IF call[c].fresh THEN 1 ELSE @ + 1]
  /\ lastDay' = [lastDay EXCEPT ![s] = call[c].read]
  /\ counted' = counted \cup {<<call[c].order, s>>}
  /\ Goto(c, "link")
  /\ UNCHANGED <<sellerVars, orderVars, taken, day, resetting>>

\* The update by order number changes no row if there is none.
LinkOrder(c) ==
  LET o == call[c].order IN
  /\ At(c, "link")
  /\ \/ order[o] = "none" /\ UNCHANGED <<order, holder, accepted>>
     \/ /\ order[o] # "none"
        /\ order' = [order EXCEPT ![o] = "Preparing"]
        /\ holder' = [holder EXCEPT ![o] = call[c].seller]
        /\ accepted' = accepted \cup {o}
  /\ AfterAccept(c)
  /\ UNCHANGED <<sellerVars, countVars, kind, bookings, taken, day, resetting>>

\* Mutant of AcceptFails: the error of a claim is logged as well.
AcceptFailsQuietly(c) ==
  /\ call[c].stage \in {"readSeller", "count", "link"}
  /\ AfterAccept(c)
  /\ UNCHANGED <<sellerVars, countVars, orderVars, taken, day, resetting>>

\* An error of acceptStoreOrder is logged, and the grocery order goes on.
AcceptFails(c) ==
  /\ call[c].stage \in {"readSeller", "count", "link"}
  /\ call[c].doing = "Grocery"
  /\ Goto(c, "stock")
  /\ UNCHANGED <<sellerVars, countVars, orderVars, taken, day, resetting>>

ClaimOrder(c) ==
  LET o == call[c].order IN
  /\ At(c, "claim")
  /\ order' = [order EXCEPT ![o] = "Pickup Scheduled"]
  /\ holder' = [holder EXCEPT ![o] = call[c].seller]
  /\ accepted' = accepted \cup {o}
  /\ Done(c)
  /\ UNCHANGED <<sellerVars, countVars, kind, bookings, taken, day, resetting>>

\* The store's update, by id or order number, to whatever status the request names, and
\* those of the delivery.
UpdateStatus(o) ==
  /\ order[o] # "none"
  /\ \E status \in OrderStatus \ {"none"} : order' = [order EXCEPT ![o] = status]
  /\ UNCHANGED <<sellerVars, countVars, kind, holder, bookings, accepted, taken, day,
                 resetting, call>>

-----------------------------------------------------------------------------
Place(c) ==
  \/ \E o \in Order, s \in Seller : GroceryDispatch(c, o, s)
  \/ \E o \in Order : LaundryBook(c, o)
  \/ LaundryDispatch(c) \/ CreateOrder(c)
  \/ \E p \in Product : TakeStock(c, p)

Accept(c) ==
  \/ \E o \in Order, s \in Seller : AcceptBegin(c, o, s) \/ ClaimBegin(c, o, s)
  \/ ReadSeller(c) \/ CountOrder(c) \/ LinkOrder(c) \/ AcceptFails(c) \/ ClaimOrder(c)

Next ==
  \/ \E s \in Seller : Register(s) \/ SignUp(s) \/ SetStatus(s) \/ SetPlan(s)
  \/ \E o \in Order : UpdateStatus(o)
  \/ \E c \in Caller : Place(c) \/ Accept(c) \/ CallDies(c)
  \/ \E r \in resetting : ResetLands(r)
  \/ Midnight

Spec == Init /\ [][Next]_vars

(***************************************************************************)
(* Properties                                                              *)
(***************************************************************************)

\* The call has created the grocery order and has yet to take the stock of p.
Owes(c, o, p) ==
  /\ call[c].stage \in {"readSeller", "count", "link", "stock"}
  /\ call[c].doing = "Grocery" /\ call[c].order = o /\ p \in call[c].items

\* However often the customer sends the order again, and wherever a call stops, an
\* order lowers the stock of a product at most once, and only if it was created.
StockTakenOnce ==
  \A o \in Order, p \in Product :
    /\ taken[o][p] <= 1
    /\ taken[o][p] = 1 => kind[o] = "Grocery"
    /\ \A c \in Caller :
         Owes(c, o, p) => /\ taken[o][p] = 0
                          /\ kind[o] = "Grocery"
                          /\ \A d \in Caller : Owes(d, o, p) => c = d

\* Nothing that was decided before the seller's first order of the day, or yesterday, is
\* still on its way to the seller's count: a reset, or an acceptance that has read the
\* seller before, which would start the count again or date it back to yesterday.
Settled(s) ==
  /\ lastDay[s] = day
  /\ \A r \in resetting : r[2] # s
  /\ \A c \in Caller :
       At(c, "count") /\ call[c].seller = s => ~call[c].fresh /\ call[c].read = day

\* Until midnight, a settled count loses no order: no search and no acceptance sets
\* it back.
SettledCountKeeps ==
  [][\A s \in Seller : Settled(s) /\ day' = day => /\ ordersToday'[s] >= ordersToday[s]
                                                   /\ Settled(s)']_vars

\* The store that holds an order some store has accepted or claimed was counted for it:
\* whichever stores do so together, whatever their calls have read of it, wherever they
\* stop, and whatever status the order is given meanwhile.  (Until then the order is with
\* the store the search chose, also if a status that was sent in calls it scheduled.)
HolderIsCounted ==
  \A o \in accepted : <<o, holder[o]>> \in counted
=============================================================================
