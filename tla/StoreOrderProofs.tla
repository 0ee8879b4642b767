---------------------------- MODULE StoreOrderProofs ----------------------------
(***************************************************************************)
(* Proofs about StoreOrder, for any sets of stores, orders and products,   *)
(* any number of requests in flight, any quota and any bounds.             *)
(***************************************************************************)
EXTENDS StoreOrder, TLAPS

\* An order has its kind from when it is created, it is created once, and only then
\* accepted.
KindIsOfAnOrder ==
  \A o \in Order : kind[o] # "none" \/ o \in accepted => order[o] # "none"

\* Whoever goes on to link or claim an order has been counted for it.
ClaimsAreCounted ==
  \A c \in Caller :
    call[c].stage \in {"claim", "link"} => <<call[c].order, call[c].seller>> \in counted

\* Stock is only taken of what grocery orders name.
StockIsOfGroceries ==
  \A c \in Caller : call[c].stage = "stock" => call[c].doing = "Grocery"

\* A store is chosen before the order is created, and counted after.
StoreIsChosen ==
  \A c \in Caller : call[c].stage \notin {"idle", "booked"} => call[c].seller \in Seller

IInv ==
  /\ TypeOK /\ KindIsOfAnOrder /\ StockTakenOnce /\ StockIsOfGroceries
  /\ StoreIsChosen /\ ClaimsAreCounted /\ HolderIsCounted

\* There are no orders.
LEMMA InitIInv == Init => IInv
  BY BoundAssumption
  DEF Init, IInv, TypeOK, Day, SellerStatus, OrderStatus, KindIsOfAnOrder, StockTakenOnce,
      Owes, StockIsOfGroceries, StoreIsChosen, ClaimsAreCounted, HolderIsCounted, Idle

\* A step of a call that leaves the orders alone keeps IInv, if the call owes no stock
\* and is counted for the pickup it goes on to claim.
LEMMA CallKeeps ==
  ASSUME IInv, TypeOK', NEW c \in Caller, UNCHANGED <<order, kind, holder, accepted, taken>>,
         counted \subseteq counted',
         \A d \in Caller \ {c} : call'[d] = call[d],
         \A o \in Order, p \in Product : Owes(c, o, p)' => Owes(c, o, p),
         call'[c].stage \in {"claim", "link"}
           => <<call'[c].order, call'[c].seller>> \in counted',
         call'[c].stage = "stock" => call'[c].doing = "Grocery",
         call'[c].stage \notin {"idle", "booked"} => call'[c].seller \in Seller
  PROVE  IInv'
<1>1. KindIsOfAnOrder' /\ HolderIsCounted'
  BY DEF IInv, KindIsOfAnOrder, HolderIsCounted
<1>2. ClaimsAreCounted' /\ StockIsOfGroceries' /\ StoreIsChosen'
  BY DEF IInv, ClaimsAreCounted, StockIsOfGroceries, StoreIsChosen
<1>3. \A d \in Caller, o \in Order, p \in Product : Owes(d, o, p)' => Owes(d, o, p)
  BY DEF Owes
<1>4. StockTakenOnce'
  BY <1>3 DEF IInv, StockTakenOnce
<1> QED
  BY <1>1, <1>2, <1>4 DEF IInv

\* A call has a day before it has read one.
LEMMA NoDay == 0 \in Day
  BY BoundAssumption DEF Day

\* What a call does that has begun leaves the other calls alone.
LEMMA OneCall ==
  ASSUME TypeOK, NEW c \in Caller, NEW k, call' = [call EXCEPT ![c] = k],
         k \in Call \cup {Idle}
  PROVE  /\ call' \in [Caller -> Call \cup {Idle}]
         /\ call'[c] = k
         /\ \A d \in Caller \ {c} : call'[d] = call[d]
  BY DEF TypeOK

\* A request begins with nothing owed.
LEMMA BeginKeeps ==
  ASSUME IInv, NEW c \in Caller, NEW o \in Order, NEW s \in Seller \cup {NoSeller},
         NEW stage \in {"create", "booked", "readSeller"},
         NEW doing \in {"Grocery", "Laundry", "accept", "claim"},
         Begin(c, stage, doing, o, s),
         UNCHANGED <<sellerVars, countVars, order, kind, holder, accepted, taken, day>>,
         stage # "booked" => s \in Seller,
         bookings' \in [Order -> Nat], resetting' \in SUBSET (Caller \X Seller \X Day)
  PROVE  IInv'
<1> DEFINE k == [stage |-> stage, doing |-> doing, order |-> o, seller |-> s,
                 items |-> {}, fresh |-> FALSE, read |-> 0]
<1>1. k \in Call
  BY NoDay DEF Call
<1>2. /\ call' \in [Caller -> Call \cup {Idle}]
      /\ call'[c] = k
      /\ \A d \in Caller \ {c} : call'[d] = call[d]
  BY <1>1, OneCall DEF IInv, Begin
<1>3. TypeOK'
  BY <1>2 DEF IInv, TypeOK, sellerVars, countVars
<1>4. \A e \in Order, p \in Product : ~Owes(c, e, p)'
  BY <1>2 DEF Owes
<1>5. call'[c].stage \notin {"link", "claim", "stock"} /\ counted \subseteq counted'
  BY <1>2 DEF countVars
<1>6. UNCHANGED <<order, kind, holder, accepted, taken>>
  OBVIOUS
<1>7. call'[c].stage \notin {"idle", "booked"} => call'[c].seller \in Seller
  BY <1>2
<1> QED
  BY <1>2, <1>3, <1>4, <1>5, <1>6, <1>7, CallKeeps

\* A call ends, wherever it is.
LEMMA DiesKeeps == ASSUME IInv, NEW c \in Caller, CallDies(c) PROVE IInv'
<1>1. /\ call' \in [Caller -> Call \cup {Idle}]
      /\ call'[c] = Idle
      /\ \A d \in Caller \ {c} : call'[d] = call[d]
  BY OneCall DEF IInv, CallDies, Done
<1>2. UNCHANGED <<sellerVars, countVars, orderVars, taken, day, resetting>>
  BY DEF CallDies
<1>3. TypeOK'
  BY <1>1, <1>2 DEF IInv, TypeOK, sellerVars, countVars, orderVars
<1>4. \A o \in Order, p \in Product : ~Owes(c, o, p)'
  BY <1>1 DEF Owes, Idle
<1>5. call'[c].stage = "idle" /\ call'[c].stage \notin {"link", "claim", "stock"}
  BY <1>1 DEF Idle
<1>6. UNCHANGED <<order, kind, holder, accepted, taken>> /\ counted \subseteq counted'
  BY <1>2 DEF orderVars, countVars
<1> QED
  BY <1>1, <1>3, <1>4, <1>5, <1>6, CallKeeps

\* The order is created, and with it what the call owes of the stock: nobody owes, or
\* has taken, anything of an order that was not there.
LEMMA CreateKeeps == ASSUME IInv, NEW c \in Caller, CreateOrder(c) PROVE IInv'
<1> DEFINE o == call[c].order
<1>1. call[c] \in Call /\ call[c].stage = "create"
  <2>1. call[c].stage = "create"
    BY DEF CreateOrder, At
  <2> QED
    BY <2>1 DEF IInv, TypeOK, Idle
<1>2. o \in Order /\ call[c].doing \in {"Grocery", "Laundry", "accept", "claim"}
      /\ call[c].seller \in Seller \cup {NoSeller}
  BY <1>1 DEF Call
<1>3. order[o] = "none" /\ kind[o] = "none" /\ o \notin accepted
  <2>1. order[o] = "none"
    BY DEF CreateOrder, Unused
  <2> QED
    BY <1>2, <2>1 DEF IInv, KindIsOfAnOrder
<1>4. /\ kind' = [kind EXCEPT ![o] = call[c].doing]
      /\ holder' = [holder EXCEPT ![o] = call[c].seller]
      /\ UNCHANGED <<sellerVars, countVars, bookings, accepted, taken, day, resetting>>
  BY DEF CreateOrder
<1>5. \A p \in Product : taken[o][p] = 0 /\ \A d \in Caller : ~Owes(d, o, p)
  <2>1. \A p \in Product : taken[o][p] \in Nat
    BY <1>2 DEF IInv, TypeOK
  <2>2. \A p \in Product : taken[o][p] <= 1 /\ taken[o][p] # 1
    BY <1>2, <1>3 DEF IInv, StockTakenOnce
  <2>3. \A p \in Product, d \in Caller : ~Owes(d, o, p)
    BY <1>2, <1>3 DEF IInv, StockTakenOnce
  <2> QED
    BY <2>1, <2>2, <2>3
<1>6. \A e \in accepted : e \in Order /\ e # o
  BY <1>3 DEF IInv, TypeOK
<1>7. HolderIsCounted'
  BY <1>4, <1>6 DEF IInv, TypeOK, HolderIsCounted, countVars
<1>8. CASE /\ call[c].doing = "Grocery"
           /\ order' = [order EXCEPT ![o] = "Preparing"]
           /\ \E items \in (SUBSET Product) \ {{}} :
                call' = [call EXCEPT ![c].stage = "readSeller", ![c].items = items]
  <2>1. PICK items \in SUBSET Product :
          call' = [call EXCEPT ![c].stage = "readSeller", ![c].items = items]
    BY <1>8
  <2> DEFINE k == [call[c] EXCEPT !.stage = "readSeller", !.items = items]
  <2>2. k \in Call /\ k.stage = "readSeller" /\ k.doing = "Grocery" /\ k.order = o
        /\ k.seller = call[c].seller
    BY <1>1, <1>8 DEF Call
  <2>3. call' = [call EXCEPT ![c] = k]
    BY <2>1 DEF IInv, TypeOK
  <2> HIDE DEF k
  <2>4. /\ call' \in [Caller -> Call \cup {Idle}]
        /\ call'[c] = k
        /\ \A d \in Caller \ {c} : call'[d] = call[d]
    BY <2>2, <2>3, OneCall DEF IInv
  <2>5. TypeOK'
    BY <1>2, <1>4, <1>8, <2>4 DEF IInv, TypeOK, OrderStatus, sellerVars, countVars
  <2>6. KindIsOfAnOrder' /\ HolderIsCounted'
    BY <1>2, <1>4, <1>8, <1>6, <1>7 DEF IInv, TypeOK, KindIsOfAnOrder
  <2>7. (ClaimsAreCounted /\ StockIsOfGroceries /\ StoreIsChosen)'
    BY <1>1, <1>4, <2>2, <2>4
    DEF IInv, ClaimsAreCounted, StockIsOfGroceries, StoreIsChosen, countVars
  <2>8. \A e \in Order, p \in Product, d \in Caller :
          Owes(d, e, p)' => (e = o /\ d = c) \/ (e # o /\ d # c /\ Owes(d, e, p))
    BY <1>5, <2>2, <2>4 DEF Owes
  <2>9. kind'[o] = "Grocery" /\ \A e \in Order \ {o} : kind'[e] = kind[e]
    BY <1>2, <1>4, <1>8 DEF IInv, TypeOK
  <2>10. StockTakenOnce'
    BY <1>4, <1>5, <2>8, <2>9 DEF IInv, StockTakenOnce
  <2> QED
    BY <2>5, <2>6, <2>7, <2>10 DEF IInv
<1>9. CASE /\ call[c].doing = "Laundry"
           /\ order' = [order EXCEPT ![o] = "Awaiting Partner Acceptance"]
           /\ Done(c)
  <2>1. /\ call' \in [Caller -> Call \cup {Idle}]
        /\ call'[c] = Idle
        /\ \A d \in Caller \ {c} : call'[d] = call[d]
    BY <1>9, OneCall DEF IInv, Done
  <2>2. TypeOK'
    BY <1>2, <1>4, <1>9, <2>1 DEF IInv, TypeOK, OrderStatus, sellerVars, countVars
  <2>3. KindIsOfAnOrder' /\ HolderIsCounted'
    BY <1>2, <1>4, <1>9, <1>6, <1>7 DEF IInv, TypeOK, KindIsOfAnOrder
  <2>4. (ClaimsAreCounted /\ StockIsOfGroceries /\ StoreIsChosen)'
    BY <1>4, <2>1
    DEF IInv, ClaimsAreCounted, StockIsOfGroceries, StoreIsChosen, countVars, Idle
  <2>5. \A e \in Order, p \in Product, d \in Caller : Owes(d, e, p)' => e # o /\ Owes(d, e, p)
    BY <1>5, <2>1 DEF Owes, Idle
  <2>6. \A e \in Order \ {o} : kind'[e] = kind[e]
    BY <1>2, <1>4 DEF IInv, TypeOK
  <2>7. StockTakenOnce'
    BY <1>4, <1>5, <2>5, <2>6 DEF IInv, StockTakenOnce
  <2> QED
    BY <2>2, <2>3, <2>4, <2>7 DEF IInv
<1> QED
  BY <1>8, <1>9 DEF CreateOrder

\* The stock of a product is taken, or its error swallowed, by the call that owes it.
LEMMA StockKeeps ==
  ASSUME IInv, NEW c \in Caller, NEW p \in Product, TakeStock(c, p)
  PROVE  IInv'
<1> DEFINE o == call[c].order
<1>1. /\ call[c].stage = "stock" /\ p \in call[c].items
      /\ UNCHANGED <<sellerVars, countVars, orderVars, day, resetting>>
      /\ taken' \in {taken, [taken EXCEPT ![o][p] = @ + 1]}
  BY DEF TakeStock, At
<1>2. call[c] \in Call /\ o \in Order /\ call[c].doing = "Grocery"
  BY <1>1 DEF IInv, TypeOK, StockIsOfGroceries, Call, Idle
<1>3. /\ call' \in [Caller -> Call \cup {Idle}]
      /\ \A d \in Caller \ {c} : call'[d] = call[d]
      /\ \A e \in Order, q \in Product : Owes(c, e, q)' => Owes(c, e, q) /\ q # p
      /\ call'[c].stage \in {"stock", "idle"}
      /\ call'[c].stage = "stock" => call'[c].doing = "Grocery" /\ call'[c].seller \in Seller
  <2>1. CASE call[c].items = {p}
    <3>1. call' = [call EXCEPT ![c] = Idle]
      BY <2>1 DEF TakeStock, Done
    <3>2. /\ call' \in [Caller -> Call \cup {Idle}]
          /\ call'[c] = Idle
          /\ \A d \in Caller \ {c} : call'[d] = call[d]
      BY <3>1, OneCall DEF IInv
    <3> QED
      BY <3>2 DEF Owes, Idle
  <2>2. CASE call[c].items # {p}
    <3> DEFINE k == [call[c] EXCEPT !.items = @ \ {p}]
    <3>1. call' = [call EXCEPT ![c] = k]
      BY <2>2 DEF TakeStock, IInv, TypeOK
    <3>2. /\ k \in Call /\ k.stage = call[c].stage /\ k.doing = call[c].doing
          /\ k.order = call[c].order /\ k.items = call[c].items \ {p}
          /\ k.seller = call[c].seller
      BY <1>2 DEF Call
    <3> HIDE DEF k
    <3>3. /\ call' \in [Caller -> Call \cup {Idle}]
          /\ call'[c] = k
          /\ \A d \in Caller \ {c} : call'[d] = call[d]
      BY <3>1, <3>2, OneCall DEF IInv
    <3>4. call'[c].stage = "stock" /\ call'[c].doing = "Grocery" /\ call'[c].seller \in Seller
      BY <1>1, <1>2, <3>2, <3>3 DEF IInv, StoreIsChosen
    <3>5. \A e \in Order, q \in Product : Owes(c, e, q)' => Owes(c, e, q) /\ q # p
      BY <1>1, <1>2, <3>2, <3>3 DEF Owes
    <3> QED
      BY <3>3, <3>4, <3>5
  <2> QED
    BY <2>1, <2>2
<1>4. TypeOK'
  <2>1. taken' \in [Order -> [Product -> Nat]]
    <3>1. taken \in [Order -> [Product -> Nat]] /\ taken[o] \in [Product -> Nat]
      BY <1>2 DEF IInv, TypeOK
    <3>2. taken[o][p] + 1 \in Nat
      BY <3>1
    <3>3. [taken[o] EXCEPT ![p] = @ + 1] \in [Product -> Nat]
      BY <3>1, <3>2
    <3>4. CASE taken' = [taken EXCEPT ![o][p] = @ + 1]
      BY <1>2, <3>1, <3>3, <3>4
    <3> QED
      BY <1>1, <3>1, <3>4
  <2> QED
    BY <1>1, <1>3, <2>1 DEF IInv, TypeOK, sellerVars, countVars, orderVars
<1>5. (KindIsOfAnOrder /\ HolderIsCounted /\ ClaimsAreCounted /\ StockIsOfGroceries
       /\ StoreIsChosen)'
  BY <1>1, <1>3
  DEF IInv, KindIsOfAnOrder, HolderIsCounted, ClaimsAreCounted, StockIsOfGroceries,
      StoreIsChosen, orderVars, countVars
<1>6. CASE taken' = taken
  BY <1>1, <1>3, <1>4, <1>6, CallKeeps DEF orderVars, countVars
<1>7. CASE taken' = [taken EXCEPT ![o][p] = @ + 1]
  <2>1. Owes(c, o, p)
    BY <1>1, <1>2 DEF Owes
  <2>2. taken[o][p] = 0 /\ kind[o] = "Grocery" /\ \A d \in Caller : Owes(d, o, p) => c = d
    BY <1>2, <2>1 DEF IInv, StockTakenOnce
  <2>3. /\ taken'[o][p] = 1
        /\ \A e \in Order, q \in Product : e # o \/ q # p => taken'[e][q] = taken[e][q]
    BY <1>2, <1>7, <2>2 DEF IInv, TypeOK
  <2>4. \A d \in Caller, e \in Order, q \in Product :
          Owes(d, e, q)' => Owes(d, e, q) /\ (e # o \/ q # p)
    BY <1>3, <2>2 DEF Owes
  <2>5. StockTakenOnce'
    BY <1>1, <2>2, <2>3, <2>4 DEF IInv, StockTakenOnce, orderVars
  <2> QED
    BY <1>4, <1>5, <2>5 DEF IInv
<1> QED
  BY <1>1, <1>6, <1>7

\* A call goes on to a stage in which it owes no more than before.
LEMMA GotoKeeps ==
  ASSUME IInv, NEW c \in Caller, NEW stage \in {"count", "link", "claim", "stock"},
         call[c].stage \in {"readSeller", "count", "link"}, Goto(c, stage),
         UNCHANGED <<order, kind, holder, accepted, taken>>, counted \subseteq counted',
         stage = "stock" => call[c].doing = "Grocery",
         stage \in {"claim", "link"} => <<call[c].order, call[c].seller>> \in counted',
         call' \in [Caller -> Call \cup {Idle}] => TypeOK'
  PROVE  IInv'
<1> DEFINE k == [call[c] EXCEPT !.stage = stage, !.fresh = FALSE, !.read = 0]
<1>1. call[c] \in Call
  BY DEF IInv, TypeOK, Idle
<1>2. /\ k \in Call /\ k.stage = stage /\ k.doing = call[c].doing /\ k.order = call[c].order
      /\ k.seller = call[c].seller /\ k.items = call[c].items
  BY <1>1, NoDay DEF Call
<1>3. call' = [call EXCEPT ![c] = k]
  BY DEF Goto, IInv, TypeOK
<1> HIDE DEF k
<1>4. /\ call' \in [Caller -> Call \cup {Idle}]
      /\ call'[c] = k
      /\ \A d \in Caller \ {c} : call'[d] = call[d]
  BY <1>2, <1>3, OneCall DEF IInv
<1>5. \A o \in Order, p \in Product : Owes(c, o, p)' => Owes(c, o, p)
  BY <1>2, <1>4 DEF Owes
<1>6. call[c].seller \in Seller
  BY DEF IInv, StoreIsChosen
<1> QED
  BY <1>2, <1>4, <1>5, <1>6, CallKeeps

\* The acceptance reads the seller, counts the order, or fails.
LEMMA AcceptKeeps ==
  ASSUME IInv, NEW c \in Caller, ReadSeller(c) \/ CountOrder(c) \/ AcceptFails(c)
  PROVE  IInv'
<1>1. CASE ReadSeller(c)
  <2> DEFINE k == [call[c] EXCEPT !.stage = "count", !.fresh = IsNewDay(call[c].seller),
                                  !.read = day]
  <2>1. call[c] \in Call /\ call[c].stage = "readSeller"
    BY <1>1 DEF ReadSeller, At, IInv, TypeOK, Idle
  <2>2. IsNewDay(call[c].seller) \in BOOLEAN /\ day \in Day
    BY DEF IsNewDay, IInv, TypeOK
  <2>3. /\ k \in Call /\ k.stage = "count" /\ k.doing = call[c].doing
        /\ k.order = call[c].order /\ k.items = call[c].items /\ k.seller \in Seller
    BY <2>1, <2>2 DEF Call, IInv, StoreIsChosen
  <2>4. call' = [call EXCEPT ![c] = k]
    BY <1>1 DEF ReadSeller, IInv, TypeOK
  <2> HIDE DEF k
  <2>5. /\ call' \in [Caller -> Call \cup {Idle}]
        /\ call'[c] = k
        /\ \A d \in Caller \ {c} : call'[d] = call[d]
    BY <2>3, <2>4, OneCall DEF IInv
  <2>6. UNCHANGED <<sellerVars, countVars, orderVars, taken, day, resetting>>
    BY <1>1 DEF ReadSeller
  <2>7. TypeOK'
    BY <2>5, <2>6 DEF IInv, TypeOK, sellerVars, countVars, orderVars
  <2>8. \A o \in Order, p \in Product : Owes(c, o, p)' => Owes(c, o, p)
    BY <2>1, <2>3, <2>5 DEF Owes
  <2>9. UNCHANGED <<order, kind, holder, accepted, taken>> /\ counted \subseteq counted'
    BY <2>6 DEF orderVars, countVars
  <2> QED
    BY <2>3, <2>5, <2>7, <2>8, <2>9, CallKeeps
<1>2. CASE CountOrder(c)
  <2>1. /\ call[c].stage = "count" /\ Goto(c, "link")
        /\ counted' = counted \cup {<<call[c].order, call[c].seller>>}
        /\ lastDay' = [lastDay EXCEPT ![call[c].seller] = call[c].read]
        /\ ordersToday' = [ordersToday EXCEPT ![call[c].seller] =
                             IF call[c].fresh THEN 1 ELSE @ + 1]
        /\ UNCHANGED <<sellerVars, orderVars, taken, day, resetting>>
    BY <1>2 DEF CountOrder, At
  <2>2. call[c].order \in Order /\ call[c].seller \in Seller /\ call[c].read \in Day
    BY <2>1 DEF IInv, TypeOK, StoreIsChosen, Call, Idle
  <2>3. ordersToday' \in [Seller -> Nat]
    BY <2>1, <2>2 DEF IInv, TypeOK
  <2>4. lastDay' \in [Seller -> Day \cup {-1}] /\ counted' \subseteq Order \X Seller
    BY <2>1, <2>2 DEF IInv, TypeOK
  <2>5. call' \in [Caller -> Call \cup {Idle}] => TypeOK'
    BY <2>1, <2>3, <2>4 DEF IInv, TypeOK, sellerVars, orderVars
  <2> QED
    BY <2>1, <2>5, GotoKeeps DEF orderVars
<1>3. CASE AcceptFails(c)
  <2>1. /\ call[c].stage \in {"readSeller", "count", "link"} /\ call[c].doing = "Grocery"
        /\ Goto(c, "stock")
        /\ UNCHANGED <<sellerVars, countVars, orderVars, taken, day, resetting>>
    BY <1>3 DEF AcceptFails
  <2>2. call' \in [Caller -> Call \cup {Idle}] => TypeOK'
    BY <2>1 DEF IInv, TypeOK, sellerVars, countVars, orderVars
  <2> QED
    BY <2>1, <2>2, GotoKeeps DEF orderVars, countVars
<1> QED
  BY <1>1, <1>2, <1>3

\* An order is accepted by a store that was counted for it.
LEMMA OrderKeeps ==
  ASSUME IInv, NEW o \in Order, NEW s \in Seller, NEW new \in OrderStatus \ {"none"},
         order' = [order EXCEPT ![o] = new], holder' = [holder EXCEPT ![o] = s],
         accepted' = accepted \cup {o}, <<o, s>> \in counted,
         UNCHANGED <<sellerVars, countVars, kind, bookings, taken, day, resetting>>
  PROVE  /\ KindIsOfAnOrder' /\ HolderIsCounted'
         /\ order' \in [Order -> OrderStatus] /\ holder' \in [Order -> Seller \cup {NoSeller}]
         /\ accepted' \subseteq Order
<1>1. \A e \in Order : /\ order'[e] = IF e = o THEN new ELSE order[e]
                       /\ holder'[e] = IF e = o THEN s ELSE holder[e]
  BY DEF IInv, TypeOK
<1>2. KindIsOfAnOrder'
  BY <1>1 DEF IInv, KindIsOfAnOrder
<1>3. ASSUME NEW e \in accepted'
      PROVE  <<e, holder'[e]>> \in counted'
  <2>1. counted \subseteq counted'
    BY DEF countVars
  <2>2. CASE e = o
    BY <1>1, <2>1, <2>2
  <2>3. CASE e # o
    <3>1. e \in accepted /\ e \in Order
      BY <1>3, <2>3 DEF IInv, TypeOK
    <3>2. holder'[e] = holder[e] /\ <<e, holder[e]>> \in counted
      BY <1>1, <2>3, <3>1 DEF IInv, HolderIsCounted
    <3> QED
      BY <2>1, <3>1, <3>2
  <2> QED
    BY <2>2, <2>3
<1> QED
  BY <1>2, <1>3 DEF IInv, TypeOK, HolderIsCounted

\* The end of an acceptance links the order to the store, the end of a claim schedules
\* the pickup.
LEMMA LinkKeeps ==
  ASSUME IInv, NEW c \in Caller, LinkOrder(c) \/ ClaimOrder(c)
  PROVE  IInv'
<1> DEFINE o == call[c].order
<1>1. call[c].stage \in {"link", "claim"}
  BY DEF LinkOrder, ClaimOrder, At
<1>2. call[c] \in Call /\ o \in Order /\ call[c].seller \in Seller
  BY <1>1 DEF IInv, TypeOK, StoreIsChosen, Call, Idle
<1>3. UNCHANGED <<sellerVars, countVars, kind, bookings, taken, day, resetting>>
  BY DEF LinkOrder, ClaimOrder
<1>4. /\ KindIsOfAnOrder' /\ HolderIsCounted'
      /\ order' \in [Order -> OrderStatus] /\ holder' \in [Order -> Seller \cup {NoSeller}]
      /\ accepted' \subseteq Order
  <2>0. <<o, call[c].seller>> \in counted
    BY <1>1 DEF IInv, ClaimsAreCounted
  <2>1. CASE UNCHANGED <<order, holder, accepted>>
    BY <1>3, <2>1 DEF IInv, TypeOK, KindIsOfAnOrder, HolderIsCounted, countVars
  <2>2. CASE /\ order' = [order EXCEPT ![o] = "Preparing"]
             /\ holder' = [holder EXCEPT ![o] = call[c].seller]
             /\ accepted' = accepted \cup {o}
    BY <1>2, <1>3, <2>0, <2>2, OrderKeeps DEF OrderStatus
  <2>3. CASE ClaimOrder(c)
    <3>1. /\ order' = [order EXCEPT ![o] = "Pickup Scheduled"]
          /\ holder' = [holder EXCEPT ![o] = call[c].seller]
          /\ accepted' = accepted \cup {o}
      BY <2>3 DEF ClaimOrder
    <3> QED
      BY <1>2, <1>3, <2>0, <3>1, OrderKeeps DEF OrderStatus
  <2> QED
    BY <2>1, <2>2, <2>3 DEF LinkOrder
<1>5. CASE Done(c)
  <2>1. /\ call' \in [Caller -> Call \cup {Idle}]
        /\ call'[c] = Idle
        /\ \A d \in Caller \ {c} : call'[d] = call[d]
    BY <1>5, OneCall DEF IInv, Done
  <2>2. TypeOK'
    BY <1>3, <1>4, <2>1 DEF IInv, TypeOK, sellerVars, countVars
  <2>3. (ClaimsAreCounted /\ StockIsOfGroceries /\ StoreIsChosen)'
    BY <1>3, <2>1
    DEF IInv, ClaimsAreCounted, StockIsOfGroceries, StoreIsChosen, countVars, Idle
  <2>4. \A d \in Caller, e \in Order, p \in Product : Owes(d, e, p)' => Owes(d, e, p)
    BY <2>1 DEF Owes, Idle
  <2>5. StockTakenOnce'
    BY <1>3, <2>4 DEF IInv, StockTakenOnce
  <2> QED
    BY <1>4, <2>2, <2>3, <2>5 DEF IInv
<1>6. CASE /\ call[c].stage = "link"
           /\ \/ call[c].doing = "Grocery" /\ Goto(c, "stock")
              \/ call[c].doing = "claim" /\ Goto(c, "claim")
  <2>1. PICK stage \in {"stock", "claim"} :
          Goto(c, stage) /\ call[c].doing = (IF stage = "stock" THEN "Grocery" ELSE "claim")
    BY <1>6
  <2> DEFINE k == [call[c] EXCEPT !.stage = stage, !.fresh = FALSE, !.read = 0]
  <2>2. /\ k \in Call /\ k.stage = stage /\ k.doing = call[c].doing /\ k.order = call[c].order
        /\ k.seller = call[c].seller /\ k.items = call[c].items
    BY <1>2, NoDay DEF Call
  <2>3. call' = [call EXCEPT ![c] = k]
    BY <2>1 DEF Goto, IInv, TypeOK
  <2> HIDE DEF k
  <2>4. /\ call' \in [Caller -> Call \cup {Idle}]
        /\ call'[c] = k
        /\ \A d \in Caller \ {c} : call'[d] = call[d]
    BY <2>2, <2>3, OneCall DEF IInv
  <2>5. TypeOK'
    BY <1>3, <1>4, <2>4 DEF IInv, TypeOK, sellerVars, countVars
  <2>6. ClaimsAreCounted'
    BY <1>3, <1>6, <2>2, <2>4 DEF IInv, ClaimsAreCounted, countVars
  <2>7. (StockIsOfGroceries /\ StoreIsChosen)'
    BY <1>2, <2>1, <2>2, <2>4 DEF IInv, StockIsOfGroceries, StoreIsChosen
  <2>8. \A d \in Caller, e \in Order, p \in Product : Owes(d, e, p)' => Owes(d, e, p)
    BY <1>6, <2>2, <2>4 DEF Owes
  <2>9. StockTakenOnce'
    BY <1>3, <2>8 DEF IInv, StockTakenOnce
  <2> QED
    BY <1>4, <2>5, <2>6, <2>7, <2>9 DEF IInv
<1> QED
  BY <1>5, <1>6 DEF LinkOrder, ClaimOrder, AfterAccept, At

\* A request begins.
LEMMA RequestKeeps ==
  ASSUME IInv, NEW c \in Caller,
         \/ \E o \in Order, s \in Seller :
              GroceryDispatch(c, o, s) \/ AcceptBegin(c, o, s) \/ ClaimBegin(c, o, s)
         \/ \E o \in Order : LaundryBook(c, o)
  PROVE  IInv'
<1>1. FindStores(c) => resetting' \in SUBSET (Caller \X Seller \X Day)
  BY DEF FindStores, IInv, TypeOK
<1>2. /\ resetting' = resetting => resetting' \in SUBSET (Caller \X Seller \X Day)
      /\ bookings' = bookings => bookings' \in [Order -> Nat]
  BY DEF IInv, TypeOK
<1>3. ASSUME NEW o \in Order, NEW s \in Seller, GroceryDispatch(c, o, s) PROVE IInv'
  BY <1>1, <1>2, <1>3, BeginKeeps DEF GroceryDispatch, orderVars
<1>4. ASSUME NEW o \in Order, NEW s \in Seller, AcceptBegin(c, o, s) \/ ClaimBegin(c, o, s)
      PROVE  IInv'
  BY <1>2, <1>4, BeginKeeps DEF AcceptBegin, ClaimBegin, orderVars
<1>5. ASSUME NEW o \in Order, LaundryBook(c, o) PROVE IInv'
  <2>1. bookings' \in [Order -> Nat]
    BY <1>5 DEF LaundryBook, IInv, TypeOK
  <2> QED
    BY <1>2, <1>5, <2>1, BeginKeeps DEF LaundryBook
<1> QED
  BY <1>3, <1>4, <1>5

\* A laundry order gets a store, or there is none.
LEMMA LaundryKeeps == ASSUME IInv, NEW c \in Caller, LaundryDispatch(c) PROVE IInv'
<1>1. /\ UNCHANGED <<sellerVars, countVars, orderVars, taken, day>>
      /\ resetting' \in SUBSET (Caller \X Seller \X Day)
  BY DEF LaundryDispatch, FindStores, IInv, TypeOK
<1>2. UNCHANGED <<order, kind, holder, accepted, taken>> /\ counted \subseteq counted'
  BY <1>1 DEF orderVars, countVars
<1>3. call[c] \in Call
  BY DEF LaundryDispatch, At, IInv, TypeOK, Idle
<1>4. PICK k \in Call \cup {Idle} :
        /\ call' = [call EXCEPT ![c] = k]
        /\ \/ k = Idle
           \/ k.stage = "create" /\ k.seller \in Seller
  <2>1. CASE Done(c)
    BY <2>1 DEF Done
  <2>2. ASSUME NEW s \in Seller, call' = [call EXCEPT ![c].stage = "create", ![c].seller = s]
        PROVE  \E k \in Call : /\ call' = [call EXCEPT ![c] = k]
                               /\ k.stage = "create" /\ k.seller \in Seller
    <3> DEFINE k == [call[c] EXCEPT !.stage = "create", !.seller = s]
    <3>1. k \in Call /\ k.stage = "create" /\ k.seller \in Seller
      BY <1>3 DEF Call
    <3>2. call' = [call EXCEPT ![c] = k]
      BY <2>2 DEF IInv, TypeOK
    <3> QED
      BY <3>1, <3>2
  <2> QED
    BY <2>1, <2>2 DEF LaundryDispatch
<1>5. /\ call' \in [Caller -> Call \cup {Idle}]
      /\ call'[c] = k
      /\ \A d \in Caller \ {c} : call'[d] = call[d]
  BY <1>4, OneCall DEF IInv
<1>6. TypeOK'
  BY <1>1, <1>5 DEF IInv, TypeOK, sellerVars, countVars, orderVars
<1>7. k.stage \in {"idle", "create"} /\ (k.stage # "idle" => k.seller \in Seller)
  BY <1>4 DEF Idle
<1>8. \A o \in Order, p \in Product : ~Owes(c, o, p)'
  BY <1>5, <1>7 DEF Owes
<1> QED
  BY <1>2, <1>5, <1>6, <1>7, <1>8, CallKeeps

\* What is not a step of a call.
LEMMA OthersKeep ==
  ASSUME IInv,
         \/ \E s \in Seller : Register(s) \/ SignUp(s) \/ SetStatus(s) \/ SetPlan(s)
         \/ \E o \in Order : UpdateStatus(o)
         \/ \E r \in resetting : ResetLands(r)
         \/ Midnight
  PROVE  IInv'
<1>1. UNCHANGED <<kind, taken, counted, bookings, accepted, call>>
  BY DEF Register, SignUp, SetStatus, SetPlan, UpdateStatus, ResetLands, Midnight, countVars,
         orderVars
<1>2. (StockTakenOnce /\ StockIsOfGroceries /\ StoreIsChosen /\ ClaimsAreCounted)'
  BY <1>1
  DEF IInv, StockTakenOnce, Owes, StockIsOfGroceries, StoreIsChosen, ClaimsAreCounted
<1>3. ASSUME NEW o \in Order, UpdateStatus(o) PROVE IInv'
  <2>1. PICK new \in OrderStatus \ {"none"} : order' = [order EXCEPT ![o] = new]
    BY <1>3 DEF UpdateStatus
  <2>2. /\ UNCHANGED <<sellerVars, countVars, holder, day, resetting>>
    BY <1>3 DEF UpdateStatus
  <2>3. order' \in [Order -> OrderStatus]
    BY <2>1 DEF IInv, TypeOK, OrderStatus
  <2>4. (KindIsOfAnOrder /\ HolderIsCounted)'
    BY <1>1, <2>1, <2>2 DEF IInv, TypeOK, KindIsOfAnOrder, HolderIsCounted
  <2>5. TypeOK'
    BY <1>1, <2>2, <2>3 DEF IInv, TypeOK, sellerVars, countVars
  <2> QED
    BY <1>2, <2>4, <2>5 DEF IInv
<1>4. CASE UNCHANGED <<order, holder>> /\ TypeOK'
  <2>1. (KindIsOfAnOrder /\ HolderIsCounted)'
    BY <1>1, <1>4 DEF IInv, KindIsOfAnOrder, HolderIsCounted
  <2> QED
    BY <1>2, <1>4, <2>1 DEF IInv
<1>5. ASSUME NEW s \in Seller, Register(s) \/ SignUp(s) \/ SetStatus(s) \/ SetPlan(s)
      PROVE  UNCHANGED <<order, holder>> /\ TypeOK'
  <2>1. UNCHANGED <<orderVars, ordersToday, counted, taken, day, resetting, call>>
    BY <1>5 DEF Register, SignUp, SetStatus, SetPlan, countVars
  <2>2. seller' \in [Seller -> SellerStatus]
    BY <1>5 DEF Register, SignUp, SetStatus, SetPlan, IInv, TypeOK, SellerStatus
  <2>3. pro' \in SUBSET Seller
    BY <1>5 DEF Register, SignUp, SetStatus, SetPlan, IInv, TypeOK
  <2>4. lastDay' \in [Seller -> Day \cup {-1}]
    BY <1>5 DEF Register, SignUp, SetStatus, SetPlan, IInv, TypeOK, countVars
  <2> QED
    BY <2>1, <2>2, <2>3, <2>4 DEF IInv, TypeOK, orderVars
<1>6. ASSUME NEW r \in resetting, ResetLands(r)
      PROVE  UNCHANGED <<order, holder>> /\ TypeOK'
  <2>1. r[2] \in Seller /\ r[3] \in Day
    BY <1>6 DEF IInv, TypeOK
  <2> QED
    BY <1>6, <2>1 DEF ResetLands, IInv, TypeOK, sellerVars, orderVars
<1>7. CASE Midnight
  <2>1. day' \in Day
    BY <1>7, BoundAssumption DEF Midnight, IInv, TypeOK, Day
  <2>2. UNCHANGED <<sellerVars, countVars, orderVars, taken, resetting, call>>
    BY <1>7 DEF Midnight
  <2>3. TypeOK'
    BY <2>1, <2>2 DEF IInv, TypeOK, sellerVars, countVars, orderVars
  <2> QED
    BY <1>4, <2>2, <2>3 DEF orderVars
<1> QED
  BY <1>3, <1>4, <1>5, <1>6, <1>7

\* Every step keeps IInv.
LEMMA NextIInv == IInv /\ [Next]_vars => IInv'
<1> SUFFICES ASSUME IInv, [Next]_vars PROVE IInv'
  OBVIOUS
<1>1. CASE UNCHANGED vars
  <2>1. /\ UNCHANGED <<sellerVars, countVars, orderVars, taken, day, resetting, call>>
        /\ UNCHANGED <<order, kind, holder, accepted, taken>> /\ counted \subseteq counted'
    BY <1>1 DEF vars, countVars, orderVars
  <2>2. TypeOK'
    BY <2>1 DEF IInv, TypeOK, sellerVars, countVars, orderVars
  <2>3. (KindIsOfAnOrder /\ StockTakenOnce /\ StockIsOfGroceries /\ StoreIsChosen)'
    BY <2>1 DEF IInv, KindIsOfAnOrder, StockTakenOnce, Owes, StockIsOfGroceries, StoreIsChosen
  <2>4. ClaimsAreCounted' /\ HolderIsCounted'
    BY <2>1 DEF IInv, ClaimsAreCounted, HolderIsCounted
  <2> QED
    BY <2>2, <2>3, <2>4 DEF IInv
<1>2. ASSUME NEW c \in Caller, Place(c) PROVE IInv'
  BY <1>2, RequestKeeps, LaundryKeeps, CreateKeeps, StockKeeps DEF Place
<1>3. ASSUME NEW c \in Caller, Accept(c) PROVE IInv'
  BY <1>3, RequestKeeps, AcceptKeeps, LinkKeeps DEF Accept
<1> QED
  BY <1>1, <1>2, <1>3, DiesKeeps, OthersKeep DEF Next

\* IInv holds in every reachable state.
LEMMA Invariance == Spec => []IInv
  BY InitIInv, NextIInv, PTL DEF Spec

\* The rows and the calls in flight keep their types.
THEOREM TypeCorrect == Spec => []TypeOK
  BY Invariance, PTL DEF IInv

\* However often an order is sent, it lowers the stock of a product at most once, and
\* only if it was created.
THEOREM StockIsTakenOnce == Spec => []StockTakenOnce
  BY Invariance, PTL DEF IInv

\* The store that holds an order which was accepted or claimed was counted for it.
THEOREM AcceptedOrdersAreCounted == Spec => []HolderIsCounted
  BY Invariance, PTL DEF IInv

\* No step takes anything from a count that is settled, as long as the day lasts.
LEMMA SettledStep ==
  ASSUME IInv, [Next]_vars, NEW s \in Seller, Settled(s), day' = day
  PROVE  ordersToday'[s] >= ordersToday[s] /\ Settled(s)'
<1> DEFINE Kept == /\ lastDay'[s] = day /\ ordersToday'[s] >= ordersToday[s]
                   /\ \A r \in resetting' : r[2] # s
                   /\ \A c \in Caller :
                        call'[c].stage = "count" /\ call'[c].seller = s
                          => ~call'[c].fresh /\ call'[c].read = day
<1>1. ordersToday[s] \in Nat /\ lastDay[s] = day
  BY DEF IInv, TypeOK, Settled
<1>2. SUFFICES Kept
  BY DEF Settled, At
<1> HIDE DEF Kept
<1>3. ASSUME UNCHANGED <<ordersToday, lastDay>>, resetting' \subseteq resetting,
             NEW c \in Caller, \A d \in Caller \ {c} : call'[d] = call[d],
             call'[c] = call[c] \/ call'[c].stage # "count"
      PROVE  Kept
  BY <1>1, <1>3 DEF Kept, Settled, At
<1>4. ASSUME NEW c \in Caller, NEW o \in Order, NEW t \in Seller,
             LaundryBook(c, o) \/ AcceptBegin(c, o, t) \/ ClaimBegin(c, o, t)
      PROVE  Kept
  <2>1. UNCHANGED <<countVars, resetting>>
    BY <1>4 DEF LaundryBook, AcceptBegin, ClaimBegin
  <2>2. PICK stage \in {"booked", "readSeller"}, doing \in {"Laundry", "accept", "claim"},
               u \in Seller \cup {NoSeller} : Begin(c, stage, doing, o, u)
    BY <1>4 DEF LaundryBook, AcceptBegin, ClaimBegin
  <2>3. (\A d \in Caller \ {c} : call'[d] = call[d]) /\ call'[c].stage # "count"
    BY <2>2 DEF Begin, IInv, TypeOK
  <2> QED
    BY <1>3, <2>1, <2>3 DEF countVars
<1>5. ASSUME NEW c \in Caller, CreateOrder(c) PROVE Kept
  <2>1. UNCHANGED <<ordersToday, lastDay, resetting>>
    BY <1>5 DEF CreateOrder, countVars
  <2>2. \/ \E items \in SUBSET Product :
             call' = [call EXCEPT ![c].stage = "readSeller", ![c].items = items]
        \/ call' = [call EXCEPT ![c] = Idle]
    BY <1>5 DEF CreateOrder, Done
  <2>3. (\A d \in Caller \ {c} : call'[d] = call[d]) /\ call'[c].stage # "count"
    <3>1. CASE call' = [call EXCEPT ![c] = Idle]
      BY <3>1 DEF Idle, IInv, TypeOK
    <3>2. ASSUME NEW items,
                 call' = [call EXCEPT ![c].stage = "readSeller", ![c].items = items]
          PROVE  (\A d \in Caller \ {c} : call'[d] = call[d]) /\ call'[c].stage # "count"
      <4>1. call[c].stage = "create"
        BY <1>5 DEF CreateOrder, At
      <4>2. call[c] \in Call
        BY <4>1 DEF IInv, TypeOK, Idle
      <4> QED
        BY <3>2, <4>2 DEF Call, IInv, TypeOK
    <3> QED
      BY <2>2, <3>1, <3>2
  <2> QED
    BY <1>3, <2>1, <2>3
<1>6. ASSUME NEW c \in Caller, NEW p \in Product, TakeStock(c, p) PROVE Kept
  <2>1. UNCHANGED <<ordersToday, lastDay, resetting>> /\ call[c].stage = "stock"
    BY <1>6 DEF TakeStock, At, countVars
  <2>2. call' = [call EXCEPT ![c] = Idle] \/ call' = [call EXCEPT ![c].items = @ \ {p}]
    BY <1>6 DEF TakeStock, Done
  <2>3. call[c] \in Call
    BY <2>1 DEF IInv, TypeOK, Idle
  <2>4. (\A d \in Caller \ {c} : call'[d] = call[d]) /\ call'[c].stage # "count"
    BY <2>1, <2>2, <2>3 DEF Idle, Call, IInv, TypeOK
  <2> QED
    BY <1>3, <2>1, <2>4
<1>7. ASSUME NEW c \in Caller, LinkOrder(c) \/ AcceptFails(c) \/ ClaimOrder(c) \/ CallDies(c)
      PROVE  Kept
  <2>1. UNCHANGED <<countVars, resetting>>
    BY <1>7 DEF LinkOrder, AcceptFails, ClaimOrder, CallDies
  <2>2. CASE Done(c)
    <3>1. (\A d \in Caller \ {c} : call'[d] = call[d]) /\ call'[c].stage # "count"
      BY <2>2 DEF Done, Idle, IInv, TypeOK
    <3> QED
      BY <1>3, <2>1, <3>1 DEF countVars
  <2>3. ASSUME NEW stage \in {"stock", "claim"}, Goto(c, stage),
               call[c].stage \in {"readSeller", "count", "link"}
        PROVE  Kept
    <3>1. call[c] \in Call
      BY <2>3 DEF IInv, TypeOK, Idle
    <3>2. (\A d \in Caller \ {c} : call'[d] = call[d]) /\ call'[c].stage # "count"
      BY <2>3, <3>1 DEF Goto, Call, IInv, TypeOK
    <3> QED
      BY <1>3, <2>1, <3>2 DEF countVars
  <2>4. \/ Done(c)
        \/ /\ call[c].stage \in {"readSeller", "count", "link"}
           /\ Goto(c, "stock") \/ Goto(c, "claim")
    BY <1>7 DEF LinkOrder, AcceptFails, ClaimOrder, CallDies, AfterAccept, At
  <2> QED
    BY <2>2, <2>3, <2>4
<1>8. ASSUME NEW c \in Caller, ReadSeller(c) PROVE Kept
  <2>1. /\ call' = [call EXCEPT ![c].stage = "count", ![c].fresh = IsNewDay(call[c].seller),
                                ![c].read = day]
        /\ UNCHANGED <<ordersToday, lastDay, resetting>>
    BY <1>8 DEF ReadSeller, countVars
  <2>2. call[c] \in Call
    BY <1>8 DEF ReadSeller, At, IInv, TypeOK, Idle
  <2>3. /\ \A d \in Caller \ {c} : call'[d] = call[d]
        /\ call'[c].seller = call[c].seller
        /\ call'[c].fresh <=> lastDay[call[c].seller] # day
        /\ call'[c].read = day
    BY <2>1, <2>2 DEF Call, IsNewDay, IInv, TypeOK
  <2>4. ASSUME NEW d \in Caller, call'[d].stage = "count", call'[d].seller = s
        PROVE  ~call'[d].fresh /\ call'[d].read = day
    <3>1. CASE d = c
      BY <1>1, <2>3, <2>4, <3>1
    <3>2. CASE d # c
      BY <2>3, <2>4, <3>2 DEF Settled, At
    <3> QED
      BY <3>1, <3>2
  <2>5. /\ lastDay'[s] = day /\ ordersToday'[s] >= ordersToday[s]
        /\ \A r \in resetting' : r[2] # s
    BY <1>1, <2>1 DEF Settled
  <2> QED
    BY <2>4, <2>5 DEF Kept
<1>9. ASSUME NEW c \in Caller, CountOrder(c) PROVE Kept
  <2>1. /\ call[c].stage = "count" /\ Goto(c, "link") /\ resetting' = resetting
        /\ lastDay' = [lastDay EXCEPT ![call[c].seller] = call[c].read]
        /\ ordersToday' = [ordersToday EXCEPT ![call[c].seller] =
                             IF call[c].fresh THEN 1 ELSE @ + 1]
    BY <1>9 DEF CountOrder, At
  <2>2. call[c] \in Call
    BY <2>1 DEF IInv, TypeOK, Idle
  <2>3. (\A d \in Caller \ {c} : call'[d] = call[d]) /\ call'[c].stage # "count"
    BY <2>1, <2>2 DEF Goto, Call, IInv, TypeOK
  <2>4. call[c].seller = s => ~call[c].fresh /\ call[c].read = day
    BY <2>1 DEF Settled, At
  <2>5. ordersToday'[s] >= ordersToday[s] /\ lastDay'[s] = day
    BY <1>1, <2>1, <2>4 DEF IInv, TypeOK
  <2> QED
    BY <2>1, <2>3, <2>5 DEF Kept, Settled, At
<1>10. ASSUME NEW c \in Caller, FindStores(c), UNCHANGED countVars,
              \A d \in Caller \ {c} : call'[d] = call[d], call'[c].stage # "count"
       PROVE  Kept
  <2>1. \A r \in resetting' : r \in resetting \/ r[2] # s
    BY <1>1, <1>10 DEF FindStores, IsNewDay
  <2>2. UNCHANGED <<ordersToday, lastDay>>
    BY <1>10 DEF countVars
  <2> QED
    BY <1>1, <1>10, <2>1, <2>2 DEF Kept, Settled, At
<1>11. ASSUME NEW c \in Caller, NEW o \in Order, NEW t \in Seller, GroceryDispatch(c, o, t)
       PROVE  Kept
  <2>1. (\A d \in Caller \ {c} : call'[d] = call[d]) /\ call'[c].stage # "count"
    BY <1>11 DEF GroceryDispatch, Begin, IInv, TypeOK
  <2> QED
    BY <1>10, <1>11, <2>1 DEF GroceryDispatch
<1>12. ASSUME NEW c \in Caller, LaundryDispatch(c) PROVE Kept
  <2>1. call[c] \in Call
    BY <1>12 DEF LaundryDispatch, At, IInv, TypeOK, Idle
  <2>2. \/ \E t \in Seller : call' = [call EXCEPT ![c].stage = "create", ![c].seller = t]
        \/ call' = [call EXCEPT ![c] = Idle]
    BY <1>12 DEF LaundryDispatch, Done
  <2>3. (\A d \in Caller \ {c} : call'[d] = call[d]) /\ call'[c].stage # "count"
    <3>1. CASE call' = [call EXCEPT ![c] = Idle]
      BY <3>1 DEF Idle, IInv, TypeOK
    <3>2. ASSUME NEW t \in Seller,
                 call' = [call EXCEPT ![c].stage = "create", ![c].seller = t]
          PROVE  (\A d \in Caller \ {c} : call'[d] = call[d]) /\ call'[c].stage # "count"
      BY <2>1, <3>2 DEF Call, IInv, TypeOK
    <3> QED
      BY <2>2, <3>1, <3>2
  <2> QED
    BY <1>10, <1>12, <2>3 DEF LaundryDispatch
<1>13. ASSUME UNCHANGED <<ordersToday, call>>, lastDay'[s] = day,
              resetting' \subseteq resetting
       PROVE  Kept
  BY <1>1, <1>13 DEF Kept, Settled, At
<1>14. ASSUME NEW t \in Seller, Register(t) \/ SignUp(t) \/ SetStatus(t) \/ SetPlan(t) PROVE Kept
  <2>1. lastDay'[s] = day
    BY <1>1, <1>14 DEF Register, SignUp, SetStatus, SetPlan, countVars, IInv, TypeOK
  <2>2. UNCHANGED <<ordersToday, resetting, call>>
    BY <1>14 DEF Register, SignUp, SetStatus, SetPlan, countVars
  <2> QED
    BY <1>13, <2>1, <2>2
<1>15. ASSUME NEW r \in resetting, ResetLands(r) PROVE Kept
  <2>1. r[2] # s
    BY DEF Settled
  <2>2. lastDay'[s] = day /\ ordersToday'[s] = ordersToday[s]
    BY <1>1, <1>15, <2>1 DEF ResetLands, IInv, TypeOK
  <2>3. resetting' \subseteq resetting /\ call' = call
    BY <1>15 DEF ResetLands
  <2> QED
    BY <1>1, <2>2, <2>3 DEF Kept, Settled, At
<1>16. CASE Midnight
  BY <1>16 DEF Midnight, IInv, TypeOK, Day
<1>17. CASE UNCHANGED vars \/ \E o \in Order : UpdateStatus(o)
  <2>1. UNCHANGED <<ordersToday, lastDay, resetting, call>>
    BY <1>17 DEF vars, UpdateStatus, countVars
  <2> QED
    BY <1>1, <1>13, <2>1
<1>18. ASSUME NEW c \in Caller, Place(c) PROVE Kept
  <2>1. ASSUME NEW o \in Order, LaundryBook(c, o) PROVE Kept
    BY <1>4, <2>1
  <2> QED
    BY <1>5, <1>6, <1>11, <1>12, <1>18, <2>1 DEF Place
<1>19. ASSUME NEW c \in Caller, Accept(c) PROVE Kept
  BY <1>4, <1>7, <1>8, <1>9, <1>19 DEF Accept
<1> QED
  BY <1>7, <1>14, <1>15, <1>16, <1>17, <1>18, <1>19 DEF Next

\* Until midnight, no search and no acceptance sets a settled count back.
THEOREM SettledCountsKeep == Spec => SettledCountKeeps
<1>1. IInv /\ [Next]_vars
        => \A s \in Seller : Settled(s) /\ day' = day => /\ ordersToday'[s] >= ordersToday[s]
                                                         /\ Settled(s)'
  BY SettledStep
<1> QED
  BY <1>1, Invariance, PTL DEF Spec, SettledCountKeeps
=============================================================================
