------------------------------ MODULE StoreProofs ------------------------------
(***************************************************************************)
(* Proofs about the deliveries and the images of the store, for any sets   *)
(* of orders, workers, rows and requests in flight, and about the store    *)
(* as MCStore composes it.                                                 *)
(***************************************************************************)
EXTENDS MCStore, StoreOrderProofs

-----------------------------------------------------------------------------
(***************************************************************************)
(* StoreDelivery                                                           *)
(***************************************************************************)

\* What verified order o: the master code, or a code that was made for it.
Told(o) == "master" \in told[o] \/ ("customer" \in told[o] /\ mailed[o] > 0)

\* A code is accepted only where one was made, an order is verified only by a code or the
\* master code, and a payment is only under way for an order that was verified when it
\* began; a new arrival takes back verified, but not told.
PayersWereTold ==
  /\ \A o \in Order : (code[o] # 0 => mailed[o] > 0) /\ (verified[o] => Told(o))
  /\ \A c \in Caller :
       /\ deliveryCall[c].stage = "verify" => mailed[deliveryCall[c].order] > 0
       /\ deliveryCall[c].stage \in {"startPayment", "settle"} => Told(deliveryCall[c].order)

DeliveryInv == Delivery!TypeOK /\ PayersWereTold /\ PaidWasVerified

\* No code was entered, and nothing is paid.
LEMMA DeliveryInit == Delivery!Init => DeliveryInv
  BY DEF Delivery!Init, Delivery!TypeOK, Delivery!Status, Delivery!Payment, Delivery!Idle,
     DeliveryInv, PayersWereTold, Told, PaidWasVerified, Delivery!PaidWasVerified

\* A new call is of the type of calls, verifies by a code only if there is one, and pays
\* only if the order was verified.
LEMMA DeliveryBegins ==
  ASSUME DeliveryInv, NEW c \in Caller, NEW o \in Order, NEW w \in Worker \cup {NoWorker},
         NEW stage \in {"assign", "arrive", "wrong", "verify", "master", "startPayment",
                        "settle"},
         stage = "verify" => code[o] # 0,
         stage \in {"startPayment", "settle"} => verified[o],
         Delivery!Begin(c, stage, o, w),
         UNCHANGED <<employed, assigned, status, payment, code, mailed, expired, verified,
                     attempts, told>>
  PROVE  DeliveryInv'
<1> DEFINE k == [stage |-> stage, order |-> o, worker |-> w,
                 paid |-> stage \in {"verify", "master"} /\ payment[o] = "PAID"]
<1>1. k \in Delivery!Call
  BY DEF Delivery!Call
<1>2. deliveryCall' = [deliveryCall EXCEPT ![c] = k]
  BY DEF Delivery!Begin
<1>3. Delivery!TypeOK'
  BY <1>1, <1>2 DEF DeliveryInv, Delivery!TypeOK
<1>4. PayersWereTold'
  <2>1. /\ deliveryCall'[c] = k
        /\ \A d \in Caller \ {c} : deliveryCall'[d] = deliveryCall[d]
    BY <1>2 DEF DeliveryInv, Delivery!TypeOK
  <2>2. \A e \in Order : Told(e)' <=> Told(e)
    BY DEF Told
  <2>3. k.stage = stage /\ k.order = o
    OBVIOUS
  <2> HIDE DEF k
  <2>4. /\ k.stage = "verify" => mailed[k.order] > 0
        /\ k.stage \in {"startPayment", "settle"} => Told(k.order)
    BY <2>3 DEF DeliveryInv, PayersWereTold
  <2> QED
    BY <2>1, <2>2, <2>4 DEF DeliveryInv, PayersWereTold, Told
<1> QED
  BY <1>3, <1>4 DEF DeliveryInv, PaidWasVerified, Delivery!PaidWasVerified

\* A call that ends leaves nothing under way.
LEMMA DeliveryEnds ==
  ASSUME DeliveryInv, NEW c \in Caller, Delivery!Done(c)
  PROVE  /\ deliveryCall' \in [Caller -> Delivery!Call \cup {Delivery!Idle}]
         /\ \A d \in Caller : deliveryCall'[d].stage \in {"verify", "startPayment", "settle"}
                             => /\ deliveryCall[d].stage = deliveryCall'[d].stage
                                /\ deliveryCall'[d].order = deliveryCall[d].order
                                /\ deliveryCall[d].order \in Order
  BY DEF Delivery!Done, DeliveryInv, Delivery!TypeOK, Delivery!Idle, Delivery!Call

\* A new worker, and the deliveries of a store's own page, touch no code and no payment.
LEMMA StoreDelivers ==
  ASSUME DeliveryInv, NEW c \in Caller, NEW o \in Order, NEW w \in Worker,
         Delivery!Store(c, o, w)
  PROVE  DeliveryInv'
<1>1. CASE Delivery!AssignRead(c, o, w)
  BY <1>1, DeliveryBegins
  DEF Delivery!AssignRead, Delivery!orderVars, Delivery!codeVars
<1>2. CASE Delivery!AssignWrite(c, o)
  <2>1. deliveryCall[c].stage = "assign"
    BY <1>2 DEF Delivery!AssignWrite, Delivery!At
  <2>2. deliveryCall[c].worker \in Worker \cup {NoWorker}
    BY <2>1 DEF DeliveryInv, Delivery!TypeOK, Delivery!Call, Delivery!Idle
  <2>3. assigned' \in [Order -> Worker \cup {NoWorker}]
        /\ status' \in [Order -> Delivery!Status]
    BY <1>2, <2>2
    DEF Delivery!AssignWrite, Delivery!Status, DeliveryInv, Delivery!TypeOK
  <2> QED
    BY <1>2, <2>3, DeliveryEnds
    DEF Delivery!AssignWrite, Delivery!codeVars, DeliveryInv, Delivery!TypeOK,
        PayersWereTold, Told, PaidWasVerified, Delivery!PaidWasVerified
<1> QED
  BY <1>1, <1>2 DEF Delivery!Store

\* At the door a code is mailed, tried, and found right: the last sets told as well.
LEMMA DoorKeeps ==
  ASSUME DeliveryInv, NEW c \in Caller, NEW o \in Order, NEW w \in Worker,
         Delivery!Door(c, o, w)
  PROVE  DeliveryInv'
<1>1. CASE Delivery!ArriveRead(c, o, w)
  BY <1>1, DeliveryBegins
  DEF Delivery!ArriveRead, Delivery!orderVars, Delivery!codeVars
<1>2. CASE Delivery!ArriveWrite(c, o)
  <2>0. status' \in [Order -> Delivery!Status]
    BY <1>2 DEF Delivery!ArriveWrite, DeliveryInv, Delivery!TypeOK, Delivery!Status
  <2>1. Delivery!TypeOK'
    BY <1>2, <2>0, DeliveryEnds DEF Delivery!ArriveWrite, DeliveryInv, Delivery!TypeOK
  <2>2. PayersWereTold' /\ PaidWasVerified'
    BY <1>2, DeliveryEnds
    DEF Delivery!ArriveWrite, DeliveryInv, Delivery!TypeOK, PayersWereTold, Told,
      PaidWasVerified, Delivery!PaidWasVerified
  <2> QED
    BY <2>1, <2>2 DEF DeliveryInv
<1>3. CASE Delivery!VerifyRead(c, o, w)
  BY <1>3, DeliveryBegins
  DEF Delivery!VerifyRead, Delivery!orderVars, Delivery!codeVars
<1>4. CASE Delivery!VerifyWrong(c, o)
  BY <1>4, DeliveryEnds
  DEF Delivery!VerifyWrong, Delivery!orderVars, DeliveryInv, Delivery!TypeOK,
      PayersWereTold, Told, PaidWasVerified, Delivery!PaidWasVerified
<1>5. CASE Delivery!VerifyRight(c, o)
  <2>0. status' \in [Order -> Delivery!Status]
    BY <1>5 DEF Delivery!VerifyRight, DeliveryInv, Delivery!TypeOK, Delivery!Status
  <2>1. Delivery!TypeOK'
    BY <1>5, <2>0, DeliveryEnds DEF Delivery!VerifyRight, DeliveryInv, Delivery!TypeOK
  <2>2. deliveryCall[c].stage = "verify" \/ deliveryCall[c].stage = "master"
    BY <1>5 DEF Delivery!VerifyRight, Delivery!At
  <2>3. deliveryCall[c].order = o /\ (deliveryCall[c].stage = "verify" => mailed[o] > 0)
    BY <1>5 DEF Delivery!VerifyRight, Delivery!At, DeliveryInv, PayersWereTold
  <2>4. /\ told'[o] = told[o] \cup {IF deliveryCall[c].stage = "master"
                                    THEN "master" ELSE "customer"}
        /\ \A e \in Order \ {o} : told'[e] = told[e] /\ verified'[e] = verified[e]
        /\ \A e \in Order : code'[e] # 0 => code[e] # 0
        /\ mailed' = mailed /\ payment' = payment
    BY <1>5 DEF Delivery!VerifyRight, DeliveryInv, Delivery!TypeOK
  <2>5. Told(o)' /\ \A e \in Order : Told(e) => Told(e)'
    BY <2>2, <2>3, <2>4 DEF Told
  <2>6. PayersWereTold'
    BY <1>5, <2>4, <2>5, DeliveryEnds DEF Delivery!VerifyRight, DeliveryInv, PayersWereTold
  <2>7. PaidWasVerified'
    BY <2>4, <2>5 DEF DeliveryInv, Told, PaidWasVerified, Delivery!PaidWasVerified
  <2> QED
    BY <2>1, <2>6, <2>7 DEF DeliveryInv
<1> QED
  BY <1>1, <1>2, <1>3, <1>4, <1>5 DEF Delivery!Door

\* A payment begins only of a verified order; when it is written, the order was told.
LEMMA PayKeeps ==
  ASSUME DeliveryInv, NEW c \in Caller, NEW o \in Order, Delivery!Pay(c, o)
  PROVE  DeliveryInv'
<1>1. CASE Delivery!StartPaymentRead(c, o)
  BY <1>1, DeliveryBegins
  DEF Delivery!StartPaymentRead, Delivery!MayPay, Delivery!orderVars, Delivery!codeVars
<1>2. CASE Delivery!StartPaymentWrite(c, o)
  BY <1>2, DeliveryEnds
  DEF Delivery!StartPaymentWrite, Delivery!At, Delivery!codeVars, DeliveryInv,
      Delivery!TypeOK, Delivery!Payment, PayersWereTold, Told, PaidWasVerified,
      Delivery!PaidWasVerified
<1>3. CASE Delivery!SettleRead(c, o)
  BY <1>3, DeliveryBegins
  DEF Delivery!SettleRead, Delivery!MayPay, Delivery!orderVars, Delivery!codeVars
<1>4. CASE Delivery!SettleWrite(c, o)
  <2>1. Delivery!TypeOK'
    BY <1>4, DeliveryEnds
    DEF Delivery!SettleWrite, Delivery!codeVars, DeliveryInv, Delivery!TypeOK, Delivery!Status,
        Delivery!Payment
  <2>2. PayersWereTold' /\ PaidWasVerified'
    BY <1>4, DeliveryEnds
    DEF Delivery!SettleWrite, Delivery!At, Delivery!codeVars, DeliveryInv, Delivery!TypeOK,
        PayersWereTold, Told, PaidWasVerified,
        Delivery!PaidWasVerified
  <2> QED
    BY <2>1, <2>2 DEF DeliveryInv
<1> QED
  BY <1>1, <1>2, <1>3, <1>4 DEF Delivery!Pay

\* Every step keeps the invariant.
LEMMA DeliveryStep == DeliveryInv /\ [Delivery!Next]_(Delivery!vars) => DeliveryInv'
<1> SUFFICES ASSUME DeliveryInv, [Delivery!Next]_(Delivery!vars) PROVE DeliveryInv'
  OBVIOUS
<1>1. ASSUME NEW w \in Worker, Delivery!AddWorker(w) \/ Delivery!RemoveWorker(w)
      PROVE  DeliveryInv'
  BY <1>1
  DEF Delivery!AddWorker, Delivery!RemoveWorker, Delivery!orderVars, Delivery!codeVars,
      DeliveryInv, Delivery!TypeOK, PayersWereTold, Told,
      PaidWasVerified, Delivery!PaidWasVerified
<1>2. ASSUME NEW o \in Order, Delivery!UpdateStatus(o) \/ Delivery!CodeExpires(o)
      PROVE  DeliveryInv'
  <2>1. status' \in [Order -> Delivery!Status]
    BY <1>2
    DEF Delivery!UpdateStatus, Delivery!CodeExpires, Delivery!orderVars, Delivery!Status,
        DeliveryInv, Delivery!TypeOK
  <2> QED
    BY <1>2, <2>1
    DEF Delivery!UpdateStatus, Delivery!CodeExpires, Delivery!orderVars, Delivery!codeVars,
        DeliveryInv, Delivery!TypeOK, PayersWereTold, Told,
      PaidWasVerified, Delivery!PaidWasVerified
<1>3. ASSUME NEW c \in Caller, Delivery!CallDies(c) PROVE DeliveryInv'
  BY <1>3, DeliveryEnds
  DEF Delivery!CallDies, Delivery!orderVars, Delivery!codeVars, DeliveryInv,
      Delivery!TypeOK, PayersWereTold, Told,
      PaidWasVerified, Delivery!PaidWasVerified
<1>4. CASE UNCHANGED Delivery!vars
  BY <1>4
  DEF Delivery!vars, Delivery!orderVars, Delivery!codeVars, DeliveryInv, Delivery!TypeOK,
      PayersWereTold, Told, PaidWasVerified, Delivery!PaidWasVerified
<1> QED
  BY <1>1, <1>2, <1>3, <1>4, StoreDelivers, DoorKeeps, PayKeeps DEF Delivery!Next

\* StoreDelivery: an order that is paid, or being paid, is one whose customer has given a
\* code that was made for it, or of which a worker entered the master code, in any
\* interleaving of arrivals, codes and payments.
THEOREM DeliveryIsPaidAfterItsCode == Delivery!Spec => [](Delivery!TypeOK /\ PaidWasVerified)
<1>1. DeliveryInv => Delivery!TypeOK /\ PaidWasVerified
  BY DEF DeliveryInv
<1> QED
  BY <1>1, DeliveryInit, DeliveryStep, PTL DEF Delivery!Spec

-----------------------------------------------------------------------------
(***************************************************************************)
(* Images.  A picture that no client named belongs to one row: a call that *)
(* brings it is the only one that knows of it, and once the row has shown  *)
(* it, no call writes it again.                                            *)
(***************************************************************************)

\* What call c has read and brings, if it is under way.
Old(c, i) == imageCall[c] # Picture!Idle /\ imageCall[c].old = i
New(c, i) == imageCall[c] # Picture!Idle /\ imageCall[c].new = i

\* Nobody knows of a picture that is not uploaded, and whoever writes a photo was sent one.
PicturesAreNumbered ==
  /\ \A r \in Picture!Row : image[r] <= added
  /\ \A c \in Caller : imageCall[c] # Picture!Idle =>
       /\ imageCall[c].old <= added /\ imageCall[c].new <= added
       /\ imageCall[c].stage \in {"avatar", "avatarRow"} => imageCall[c].sent

\* One row shows the picture i, and only calls of that row have read it.
ShownByOne(i) ==
  /\ \A r, q \in Picture!Row : image[r] = i /\ image[q] = i => r = q
  /\ \A c \in Caller, r \in Picture!Row : Old(c, i) /\ image[r] = i => imageCall[c].row = r

\* A call that brings i is the only one that knows of it.
BroughtByOne(i) ==
  \A c \in Caller : New(c, i) =>
    /\ i \in stored
    /\ \A d \in Caller : ~Old(d, i) /\ (New(d, i) => c = d)
    /\ \A r \in Picture!Row : image[r] # i

PicturesAreOwn == \A i \in Picture!Image \ loose : ShownByOne(i) /\ BroughtByOne(i)

PictureInv ==
  Picture!ImagesTypeOK /\ PicturesAreNumbered /\ PicturesAreOwn /\ ShownImageExists

LEMMA PictureNumbers ==
  ASSUME Picture!ImagesAssumption
  PROVE  /\ MaxImages \in Nat
         /\ Picture!Image \subseteq Nat /\ 0 \notin Picture!Image
         /\ \A i \in Picture!Image : i # 0
  BY DEF Picture!ImagesAssumption, Picture!Image

\* No picture was uploaded.
LEMMA PictureInit == Picture!ImagesAssumption /\ Picture!Init => PictureInv
<1> SUFFICES ASSUME Picture!ImagesAssumption, Picture!Init PROVE PictureInv
  OBVIOUS
<1> USE DEF Picture!Init
<1>1. Picture!ImagesTypeOK
  BY PictureNumbers DEF Picture!ImagesTypeOK
<1>2. PicturesAreNumbered
  BY DEF PicturesAreNumbered, Picture!Idle
<1>3. PicturesAreOwn
  BY PictureNumbers DEF PicturesAreOwn, ShownByOne, BroughtByOne, Old, New, Picture!Idle
<1>4. ShownImageExists
  BY DEF ShownImageExists, Picture!ShownImageExists
<1> QED
  BY <1>1, <1>2, <1>3, <1>4 DEF PictureInv

\* A call under way, and a step of one call.
LEMMA PictureCall ==
  ASSUME PictureInv, Picture!ImagesAssumption, NEW c \in Caller, imageCall[c] # Picture!Idle
  PROVE  /\ imageCall[c] \in Picture!Call
         /\ imageCall[c].row \in Picture!Row /\ imageCall[c].sent \in BOOLEAN
         /\ imageCall[c].old \in Picture!Image \cup {0} /\ imageCall[c].old \in Nat
         /\ imageCall[c].new \in Picture!Image \cup {0} /\ imageCall[c].new \in Nat
         /\ added \in Nat
<1>1. imageCall[c] \in Picture!Call
  BY DEF PictureInv, Picture!ImagesTypeOK
<1> QED
  BY <1>1, PictureNumbers DEF Picture!Call, PictureInv, Picture!ImagesTypeOK

LEMMA PictureMoves ==
  ASSUME Picture!ImagesTypeOK, NEW c \in Caller, NEW k \in Picture!Call \cup {Picture!Idle},
         imageCall' = [imageCall EXCEPT ![c] = k]
  PROVE  /\ imageCall' \in [Caller -> Picture!Call \cup {Picture!Idle}]
         /\ imageCall'[c] = k
         /\ \A d \in Caller \ {c} : imageCall'[d] = imageCall[d]
  BY DEF Picture!ImagesTypeOK

\* A call writes its row and ends: with the picture it brings, or none, or the one there
\* is, or one that is loose.  It deletes at most the one it has read.
LEMMA PictureWrites ==
  ASSUME Picture!ImagesAssumption, PictureInv, NEW c \in Caller, NEW v,
         imageCall[c] # Picture!Idle, v <= added,
         imageCall' = [imageCall EXCEPT ![c] = Picture!Idle],
         image' = [image EXCEPT ![imageCall[c].row] = v],
         \/ v = imageCall[c].new
         \/ /\ v = image[imageCall[c].row] \/ v \in loose' \cap (Picture!Image \cup {0})
            /\ imageCall[c].stage # "avatarRow" /\ Picture!There(imageCall[c].row),
         stored' \subseteq stored, stored \ stored' \subseteq {imageCall[c].old} \ {v},
         loose \subseteq loose', loose' \in SUBSET (Picture!Image \cup {0}), added' = added,
         row' \in [Picture!Row -> {"none", "there", "gone"}],
         \A r \in Picture!Row \ {imageCall[c].row} : Picture!There(r)' => Picture!There(r),
         shelf' \in [Item -> Shelf], linked' = linked
  PROVE  PictureInv'
<1> DEFINE k == imageCall[c]
           R == k.row
<1>0. Picture!ImagesTypeOK /\ PicturesAreNumbered /\ PicturesAreOwn /\ ShownImageExists
  BY DEF PictureInv
<1>1. /\ R \in Picture!Row /\ k.old \in Picture!Image \cup {0} /\ k.new \in Picture!Image \cup {0}
      /\ k.new <= added
  BY <1>0, PictureCall DEF PicturesAreNumbered
<1>2. /\ imageCall' \in [Caller -> Picture!Call \cup {Picture!Idle}]
      /\ imageCall'[c] = Picture!Idle
      /\ \A d \in Caller \ {c} : imageCall'[d] = imageCall[d]
  BY <1>0, PictureMoves
<1>3. v \in Picture!Image \cup {0}
  BY <1>0, <1>1 DEF Picture!ImagesTypeOK
<1>4. image'[R] = v /\ \A r \in Picture!Row \ {R} : image'[r] = image[r]
  BY <1>0, <1>1 DEF Picture!ImagesTypeOK
<1>5. Picture!ImagesTypeOK'
  BY <1>0, <1>1, <1>2, <1>3 DEF Picture!ImagesTypeOK
<1>6. \A d \in Caller : \A i : /\ Old(d, i)' <=> d # c /\ Old(d, i)
                               /\ New(d, i)' <=> d # c /\ New(d, i)
  BY <1>2 DEF Old, New
<1>7. Old(c, k.old) /\ New(c, k.new)
  BY DEF Old, New
<1>8. PicturesAreNumbered'
  BY <1>0, <1>2, <1>4 DEF PicturesAreNumbered
<1>9. ASSUME NEW i \in Picture!Image, i \notin loose'
      PROVE  /\ ShownByOne(i) /\ BroughtByOne(i)
             /\ i = v => New(c, i) \/ image[R] = i
  <2>1. i \notin loose
    BY <1>9
  <2>2. i = v => i = k.new \/ i = image[R]
    BY <1>9
  <2> QED
    BY <1>0, <1>7, <2>1, <2>2 DEF PicturesAreOwn
<1>10. \A i : i \in stored /\ (i = k.old => i = v) => i \in stored'
  OBVIOUS
<1> HIDE DEF k, R
<1>11. ASSUME NEW i \in Picture!Image, i \notin loose'
       PROVE  ShownByOne(i)'
  BY <1>1, <1>4, <1>6, <1>9, <1>11 DEF ShownByOne, BroughtByOne
<1>12. ASSUME NEW i \in Picture!Image, i \notin loose'
       PROVE  BroughtByOne(i)'
  BY <1>1, <1>4, <1>6, <1>7, <1>9, <1>10, <1>12 DEF BroughtByOne
<1>13. ASSUME NEW r \in Picture!Row, Picture!There(r)', image'[r] \notin {0} \cup loose',
              \A d \in Caller : Picture!At(d, "avatarRow")' => imageCall'[d].old # image'[r]
       PROVE  image'[r] \in stored'
  <2> DEFINE i == image'[r]
  <2>1. i \in Picture!Image /\ i \notin loose'
    BY <1>5, <1>13 DEF Picture!ImagesTypeOK
  <2>2. ShownByOne(i) /\ BroughtByOne(i) /\ (i = v => New(c, i) \/ image[R] = i)
    BY <1>9, <2>1
  <2>3. CASE New(c, i)
    <3>1. i \in stored /\ ~Old(c, i)
      BY <2>2, <2>3 DEF BroughtByOne
    <3> QED
      BY <1>7, <1>10, <3>1
  <2>4. CASE ~New(c, i)
    <3>1. image[r] = i /\ (r = R => v = i)
      BY <1>4, <2>2, <2>4
    <3>2. Old(c, i) => r = R
      BY <2>2, <3>1, <1>1 DEF ShownByOne, k, R
    <3>3. v # k.new => Picture!There(R) /\ ~Picture!At(c, "avatarRow")
      BY DEF k, R, Picture!At
    <3>4. v = i => v # k.new
      BY <1>7, <2>4 DEF New, k
    <3>5. Picture!There(r)
      BY <1>13, <3>1, <3>3, <3>4 DEF R, k
    <3>6. ASSUME NEW d \in Caller, Picture!At(d, "avatarRow") PROVE imageCall[d].old # i
      <4>1. CASE d = c
        BY <3>1, <3>2, <3>3, <3>4, <3>6, <4>1 DEF Old
      <4>2. CASE d # c
        BY <1>2, <1>13, <3>6, <4>2 DEF Picture!At
      <4> QED
        BY <4>1, <4>2
    <3>7. i \in stored
      BY <1>0, <2>1, <3>1, <3>5, <3>6, PictureNumbers
      DEF ShownImageExists, Picture!ShownImageExists
    <3>8. i = k.old => i = v
      BY <3>1, <3>2 DEF Old, k
    <3> QED
      BY <1>10, <3>7, <3>8
  <2> QED
    BY <2>3, <2>4
<1>14. ShownImageExists'
  BY <1>13 DEF ShownImageExists, Picture!ShownImageExists, Picture!There, Picture!At
<1> QED
  BY <1>5, <1>8, <1>11, <1>12, <1>14 DEF PictureInv, PicturesAreOwn

\* A call begins: it has read its row's picture, and brings none, or one that is loose,
\* or one that is uploaded now.
LEMMA PictureSends ==
  ASSUME Picture!ImagesAssumption, PictureInv, NEW c \in Caller, NEW k \in Picture!Call,
         imageCall[c] = Picture!Idle, imageCall' = [imageCall EXCEPT ![c] = k],
         k.old = image[k.row], k.stage \in {"avatar", "avatarRow"} => k.sent,
         k.stage # "avatarRow",
         \/ k.new \in {0} \cup loose' /\ k.new <= added /\ added' = added /\ stored' = stored
         \/ /\ k.new = added + 1 /\ k.new \in Picture!Image
            /\ added' = k.new /\ stored' = stored \cup {k.new},
         loose \subseteq loose', loose' \in SUBSET (Picture!Image \cup {0}),
         row' = row, image' = image, shelf' = shelf, linked' = linked
  PROVE  PictureInv'
<1>0. Picture!ImagesTypeOK /\ PicturesAreNumbered /\ PicturesAreOwn /\ ShownImageExists
  BY DEF PictureInv
<1>1. /\ k.row \in Picture!Row
      /\ k.old \in Picture!Image \cup {0} /\ k.new \in Picture!Image \cup {0}
      /\ k.old \in Nat /\ k.new \in Nat /\ added \in Nat /\ added' \in Nat
      /\ k # Picture!Idle
  BY <1>0, PictureNumbers DEF Picture!Call, Picture!ImagesTypeOK, Picture!Idle
<1>2. /\ imageCall' \in [Caller -> Picture!Call \cup {Picture!Idle}]
      /\ imageCall'[c] = k
      /\ \A d \in Caller \ {c} : imageCall'[d] = imageCall[d]
  BY <1>0, PictureMoves
<1>3. added <= added' /\ k.old <= added /\ k.new <= added' /\ stored \subseteq stored'
  BY <1>0, <1>1 DEF PicturesAreNumbered
<1>4. Picture!ImagesTypeOK'
  <2>1. added' \in Picture!Image \cup {0}
    BY <1>0 DEF Picture!ImagesTypeOK
  <2>2. stored' \subseteq 1 .. added'
    BY <1>0, <1>1, <1>3 DEF Picture!ImagesTypeOK, Picture!Image
  <2> QED
    BY <1>0, <1>2, <2>1, <2>2 DEF Picture!ImagesTypeOK
<1>5. PicturesAreNumbered'
  <2>1. \A r \in Picture!Row : image[r] \in Nat
    BY <1>0, PictureNumbers DEF Picture!ImagesTypeOK
  <2>2. \A r \in Picture!Row : image'[r] <= added'
    BY <1>0, <1>1, <1>3, <2>1 DEF PicturesAreNumbered
  <2>3. ASSUME NEW d \in Caller, imageCall'[d] # Picture!Idle
        PROVE  /\ imageCall'[d].old <= added' /\ imageCall'[d].new <= added'
               /\ imageCall'[d].stage \in {"avatar", "avatarRow"} => imageCall'[d].sent
    <3>1. CASE d = c
      BY <1>1, <1>2, <1>3, <3>1
    <3>2. CASE d # c
      BY <1>0, <1>1, <1>2, <1>3, <2>3, <3>2, PictureCall DEF PicturesAreNumbered
    <3> QED
      BY <3>1, <3>2
  <2> QED
    BY <2>2, <2>3 DEF PicturesAreNumbered
<1>6. \A d \in Caller : \A i :
        /\ Old(d, i)' <=> (d = c /\ k.old = i) \/ (d # c /\ Old(d, i))
        /\ New(d, i)' <=> (d = c /\ k.new = i) \/ (d # c /\ New(d, i))
  BY <1>1, <1>2 DEF Old, New
<1>7. ASSUME NEW i \in Picture!Image, i \notin loose', i = k.new
      PROVE  /\ i \in stored'
             /\ \A d \in Caller : ~Old(d, i) /\ ~New(d, i)
             /\ \A r \in Picture!Row : image[r] # i
  <2>1. i = added + 1 /\ i \in stored' /\ ~(i <= added)
    BY <1>1, <1>7, PictureNumbers
  <2> QED
    BY <1>0, <2>1 DEF PicturesAreNumbered, Old, New
<1>8. ASSUME NEW i \in Picture!Image, i \notin loose'
      PROVE  ShownByOne(i)' /\ BroughtByOne(i)'
  <2>1. ShownByOne(i) /\ BroughtByOne(i)
    BY <1>0, <1>8 DEF PicturesAreOwn
  <2>2. ShownByOne(i)'
    BY <1>1, <1>2, <1>6, <2>1 DEF ShownByOne
  <2>3. BroughtByOne(i)'
    BY <1>1, <1>3, <1>6, <1>7, <1>8, <2>1 DEF BroughtByOne
  <2> QED
    BY <2>2, <2>3
<1>9. ShownImageExists'
  <2>1. \A d \in Caller : Picture!At(d, "avatarRow")' <=> Picture!At(d, "avatarRow") /\ d # c
    BY <1>2 DEF Picture!At, Picture!Idle
  <2>2. ASSUME NEW r \in Picture!Row, Picture!There(r)', image'[r] \notin {0} \cup loose',
               \A d \in Caller : Picture!At(d, "avatarRow")' => imageCall'[d].old # image'[r]
        PROVE  image'[r] \in stored'
    <3>1. \A d \in Caller : Picture!At(d, "avatarRow") => d # c
      BY DEF Picture!At, Picture!Idle
    <3>2. \A d \in Caller : Picture!At(d, "avatarRow") => imageCall[d].old # image[r]
      BY <1>2, <2>1, <2>2, <3>1
    <3> QED
      BY <1>0, <1>3, <2>2, <3>2 DEF ShownImageExists, Picture!ShownImageExists, Picture!There
  <2> QED
    BY <2>2 DEF ShownImageExists, Picture!ShownImageExists, Picture!There, Picture!At
<1> QED
  BY <1>4, <1>5, <1>8, <1>9 DEF PictureInv, PicturesAreOwn

\* A call goes on; a photo that it replaces may be deleted as it goes to write the row.
LEMMA PictureGoes ==
  ASSUME Picture!ImagesAssumption, PictureInv, NEW c \in Caller, NEW stage,
         imageCall[c] # Picture!Idle, imageCall[c].stage # "avatarRow",
         imageCall' = [imageCall EXCEPT ![c].stage = stage],
         \/ stage = "remove" /\ stored' = stored
         \/ /\ stage = "avatarRow" /\ imageCall[c].sent
            /\ stored' = stored \ ({imageCall[c].old} \ {imageCall[c].new}),
         added' = added, loose' = loose,
         row' = row, image' = image, shelf' = shelf, linked' = linked
  PROVE  PictureInv'
<1> DEFINE k == imageCall[c]
           m == [k EXCEPT !.stage = stage]
<1>0. Picture!ImagesTypeOK /\ PicturesAreNumbered /\ PicturesAreOwn /\ ShownImageExists
  BY DEF PictureInv
<1>1. k \in Picture!Call
  BY PictureCall
<1>2. /\ m \in Picture!Call /\ m # Picture!Idle
      /\ m.row = k.row /\ m.old = k.old /\ m.new = k.new /\ m.sent = k.sent /\ m.stage = stage
  BY <1>1 DEF Picture!Call, Picture!Idle
<1>3. imageCall' = [imageCall EXCEPT ![c] = m]
  OBVIOUS
<1>4. k.sent \/ stage = "remove"
  OBVIOUS
<1>5. /\ stored' \subseteq stored /\ \A i \in stored : i \in stored' \/ (i = k.old /\ i # k.new)
      /\ stored' = stored \/ stage = "avatarRow"
  OBVIOUS
<1>6. imageCall[c] = k /\ k # Picture!Idle /\ k.stage # "avatarRow"
  OBVIOUS
<1> HIDE DEF k, m
<1>7. /\ imageCall' \in [Caller -> Picture!Call \cup {Picture!Idle}]
      /\ imageCall'[c] = m
      /\ \A d \in Caller \ {c} : imageCall'[d] = imageCall[d]
  BY <1>0, <1>2, <1>3, PictureMoves
<1>8. Picture!ImagesTypeOK'
  BY <1>0, <1>5, <1>7 DEF Picture!ImagesTypeOK
<1>9. PicturesAreNumbered'
  BY <1>0, <1>2, <1>4, <1>6, <1>7 DEF PicturesAreNumbered
<1>10. \A d \in Caller : \A i : /\ Old(d, i)' <=> Old(d, i)
                                /\ New(d, i)' <=> New(d, i)
                                /\ imageCall'[d].row = imageCall[d].row
  BY <1>2, <1>6, <1>7 DEF Old, New
<1>11. Old(c, k.old) /\ \A i : New(c, i) => i = k.new
  BY <1>6 DEF Old, New
<1>12. ASSUME NEW i \in Picture!Image, i \notin loose'
       PROVE  ShownByOne(i)' /\ BroughtByOne(i)'
  <2>1. ShownByOne(i) /\ BroughtByOne(i)
    BY <1>0, <1>12 DEF PicturesAreOwn
  <2>2. ShownByOne(i)'
    BY <1>10, <2>1 DEF ShownByOne
  <2>3. BroughtByOne(i)'
    BY <1>5, <1>10, <1>11, <2>1 DEF BroughtByOne
  <2> QED
    BY <2>2, <2>3
<1>13. ASSUME NEW r \in Picture!Row, Picture!There(r)', image'[r] \notin {0} \cup loose',
              \A d \in Caller : Picture!At(d, "avatarRow")' => imageCall'[d].old # image'[r]
       PROVE  image'[r] \in stored'
  <2>1. \A d \in Caller : Picture!At(d, "avatarRow") => imageCall[d].old # image[r]
    BY <1>6, <1>7, <1>13 DEF Picture!At
  <2>2. image[r] \in stored
    BY <1>0, <1>13, <2>1 DEF ShownImageExists, Picture!ShownImageExists, Picture!There
  <2>3. stage = "avatarRow" => image[r] # k.old
    BY <1>2, <1>7, <1>13 DEF Picture!At
  <2> QED
    BY <1>5, <2>2, <2>3
<1>14. ShownImageExists'
  BY <1>13 DEF ShownImageExists, Picture!ShownImageExists, Picture!There, Picture!At
<1> QED
  BY <1>8, <1>9, <1>12, <1>14 DEF PictureInv, PicturesAreOwn

\* Calls end without a word, clients upload, name and delete: what is lost is loose.
LEMMA PictureLoses ==
  ASSUME Picture!ImagesAssumption, PictureInv,
         imageCall' \in [Caller -> Picture!Call \cup {Picture!Idle}],
         \A d \in Caller : imageCall'[d] \in {imageCall[d], Picture!Idle},
         \A d \in Caller : /\ imageCall[d].stage = "avatarRow" /\ imageCall'[d] = Picture!Idle
                           => imageCall[d].old \in loose' \cup {imageCall[d].new},
         added <= added', added' \in Picture!Image \cup {0}, stored' \subseteq 1 .. added',
         \A i \in stored : i \in stored' \cup loose',
         loose \subseteq loose', loose' \in SUBSET (Picture!Image \cup {0}),
         row' = row, image' = image, shelf' = shelf, linked' \subseteq Category
  PROVE  PictureInv'
<1>0. Picture!ImagesTypeOK /\ PicturesAreNumbered /\ PicturesAreOwn /\ ShownImageExists
  BY DEF PictureInv
<1>1. Picture!ImagesTypeOK'
  BY <1>0 DEF Picture!ImagesTypeOK
<1>2. PicturesAreNumbered'
  <2>1. added \in Nat /\ added' \in Nat /\ \A r \in Picture!Row : image[r] \in Nat
    BY <1>0, PictureNumbers DEF Picture!ImagesTypeOK
  <2>2. \A r \in Picture!Row : image'[r] <= added'
    BY <1>0, <2>1 DEF PicturesAreNumbered
  <2>3. \A d \in Caller : imageCall'[d] # Picture!Idle => imageCall'[d] = imageCall[d]
    OBVIOUS
  <2>4. \A d \in Caller : imageCall[d] # Picture!Idle =>
                             imageCall[d].old \in Nat /\ imageCall[d].new \in Nat
    BY PictureCall
  <2>5. \A d \in Caller : imageCall'[d] # Picture!Idle =>
           /\ imageCall'[d].old <= added' /\ imageCall'[d].new <= added'
           /\ imageCall'[d].stage \in {"avatar", "avatarRow"} => imageCall'[d].sent
    BY <1>0, <2>1, <2>3, <2>4 DEF PicturesAreNumbered
  <2> QED
    BY <2>2, <2>5 DEF PicturesAreNumbered
<1>3. \A d \in Caller : \A i : /\ Old(d, i)' => Old(d, i) /\ imageCall'[d].row = imageCall[d].row
                               /\ New(d, i)' => New(d, i)
  BY DEF Old, New
<1>4. ASSUME NEW i \in Picture!Image, i \notin loose'
      PROVE  ShownByOne(i)' /\ BroughtByOne(i)'
  <2>1. ShownByOne(i) /\ BroughtByOne(i)
    BY <1>0, <1>4 DEF PicturesAreOwn
  <2>2. ShownByOne(i)'
    BY <1>3, <2>1 DEF ShownByOne
  <2>3. BroughtByOne(i)'
    BY <1>3, <1>4, <2>1 DEF BroughtByOne
  <2> QED
    BY <2>2, <2>3
<1>5. ASSUME NEW r \in Picture!Row, Picture!There(r)', image'[r] \notin {0} \cup loose',
             \A d \in Caller : Picture!At(d, "avatarRow")' => imageCall'[d].old # image'[r]
      PROVE  image'[r] \in stored'
  <2> DEFINE i == image[r]
  <2>1. i \in Picture!Image /\ i \notin loose
    BY <1>0, <1>5 DEF Picture!ImagesTypeOK
  <2>2. BroughtByOne(i)
    BY <1>0, <2>1 DEF PicturesAreOwn
  <2>3. ASSUME NEW d \in Caller, Picture!At(d, "avatarRow"), imageCall[d].old = i PROVE FALSE
    <3>1. imageCall[d] # Picture!Idle /\ Old(d, i)
      BY <2>3 DEF Picture!At, Picture!Idle, Old
    <3>2. imageCall'[d] # imageCall[d]
      BY <1>5, <2>3 DEF Picture!At
    <3>3. imageCall[d].new = i
      BY <1>5, <2>3, <3>2 DEF Picture!At
    <3> QED
      BY <2>2, <3>1, <3>3 DEF BroughtByOne, New
  <2>4. i \in stored
    BY <1>0, <1>5, <2>1, <2>3 DEF ShownImageExists, Picture!ShownImageExists, Picture!There
  <2> QED
    BY <1>5, <2>4
<1>6. ShownImageExists'
  BY <1>5 DEF ShownImageExists, Picture!ShownImageExists, Picture!There, Picture!At
<1> QED
  BY <1>1, <1>2, <1>4, <1>6 DEF PictureInv, PicturesAreOwn

\* The rows that go show nothing; what is deleted is what the row of the call showed.
LEMMA PictureRemoves ==
  ASSUME Picture!ImagesAssumption, PictureInv, NEW c \in Caller,
         imageCall[c] # Picture!Idle, imageCall[c].stage = "remove", Picture!RemoveRow(c)
  PROVE  PictureInv'
<1> DEFINE k == imageCall[c]
           gone == Picture!Cascade(k.row)
<1>0. Picture!ImagesTypeOK /\ PicturesAreNumbered /\ PicturesAreOwn /\ ShownImageExists
  BY DEF PictureInv
<1>1. k.row \in Picture!Row /\ k.row \in gone
  BY PictureCall DEF Picture!Cascade
<1>2. /\ row' = [r \in Picture!Row |-> IF r \in gone THEN "gone" ELSE row[r]]
      /\ image' = [r \in Picture!Row |-> IF r \in gone THEN 0 ELSE image[r]]
      /\ stored' = stored \ {k.old} /\ shelf' = shelf /\ linked' = linked
      /\ added' = added /\ loose' = loose /\ imageCall' = [imageCall EXCEPT ![c] = Picture!Idle]
  BY DEF Picture!RemoveRow, Picture!DeleteFromCloudinary, Picture!Done
<1>3. /\ imageCall' \in [Caller -> Picture!Call \cup {Picture!Idle}]
      /\ imageCall'[c] = Picture!Idle
      /\ \A d \in Caller \ {c} : imageCall'[d] = imageCall[d]
  BY <1>0, <1>2, PictureMoves
<1>4. Old(c, k.old) /\ k.stage = "remove"
  BY DEF Old
<1> HIDE DEF gone
<1>5. \A r \in Picture!Row : /\ image'[r] \in {0, image[r]} /\ (image'[r] # 0 => r \notin gone)
                             /\ row'[r] \in {"gone", row[r]}
  BY <1>2
<1>6. Picture!ImagesTypeOK'
  <2>1. image' \in [Picture!Row -> Picture!Image \cup {0}]
    BY <1>0, <1>2 DEF Picture!ImagesTypeOK
  <2>2. row' \in [Picture!Row -> {"none", "there", "gone"}]
    BY <1>0, <1>2 DEF Picture!ImagesTypeOK
  <2> QED
    BY <1>0, <1>2, <1>3, <2>1, <2>2 DEF Picture!ImagesTypeOK
<1>7. PicturesAreNumbered'
  <2>1. 0 <= added
    BY <1>0, PictureNumbers DEF Picture!ImagesTypeOK
  <2> QED
    BY <1>0, <1>2, <1>3, <1>5, <2>1 DEF PicturesAreNumbered
<1>8. \A d \in Caller : \A i : /\ Old(d, i)' <=> d # c /\ Old(d, i)
                               /\ New(d, i)' <=> d # c /\ New(d, i)
  BY <1>3 DEF Old, New
<1>9. ASSUME NEW i \in Picture!Image, i \notin loose'
      PROVE  ShownByOne(i)' /\ BroughtByOne(i)'
  <2>1. ShownByOne(i) /\ BroughtByOne(i) /\ i # 0
    BY <1>0, <1>2, <1>9, PictureNumbers DEF PicturesAreOwn
  <2>2. ShownByOne(i)'
    BY <1>3, <1>5, <1>8, <2>1 DEF ShownByOne
  <2>3. BroughtByOne(i)'
    BY <1>2, <1>4, <1>5, <1>8, <2>1 DEF BroughtByOne
  <2> QED
    BY <2>2, <2>3
<1>10. ASSUME NEW r \in Picture!Row, Picture!There(r)', image'[r] \notin {0} \cup loose',
              \A d \in Caller : Picture!At(d, "avatarRow")' => imageCall'[d].old # image'[r]
       PROVE  image'[r] \in stored'
  <2>1. image'[r] = image[r] /\ r \notin gone /\ r # k.row
    BY <1>1, <1>5, <1>10
  <2>2. Picture!There(r)
    BY <1>5, <1>10 DEF Picture!There
  <2>3. \A d \in Caller : Picture!At(d, "avatarRow") => imageCall[d].old # image[r]
    BY <1>3, <1>4, <1>10, <2>1 DEF Picture!At
  <2>4. image[r] \in stored
    BY <1>0, <1>2, <1>10, <2>1, <2>2, <2>3 DEF ShownImageExists, Picture!ShownImageExists
  <2>5. image[r] \in Picture!Image /\ image[r] \notin loose
    BY <1>0, <1>2, <1>10, <2>1 DEF Picture!ImagesTypeOK
  <2>6. image[r] # k.old
    BY <1>0, <1>4, <2>1, <2>5 DEF PicturesAreOwn, ShownByOne
  <2> QED
    BY <1>2, <2>1, <2>4, <2>6
<1>11. ShownImageExists'
  BY <1>10 DEF ShownImageExists, Picture!ShownImageExists, Picture!There, Picture!At
<1> QED
  BY <1>6, <1>7, <1>9, <1>11 DEF PictureInv, PicturesAreOwn

LEMMA PictureStep ==
  Picture!ImagesAssumption /\ PictureInv /\ [Picture!Next]_(Picture!vars) => PictureInv'
<1> SUFFICES ASSUME Picture!ImagesAssumption, PictureInv, [Picture!Next]_(Picture!vars)
             PROVE  PictureInv'
  OBVIOUS
<1> USE DEF Picture!rowVars, Picture!cloudVars
<1>0. /\ Picture!ImagesTypeOK /\ PicturesAreNumbered
      /\ added \in Nat /\ Picture!Image \subseteq Nat /\ 1 .. added \subseteq Picture!Image
      /\ \A r \in Picture!Row : image[r] \in Picture!Image \cup {0} /\ image[r] <= added
  BY PictureNumbers DEF PictureInv, Picture!ImagesTypeOK, PicturesAreNumbered, Picture!Image
<1>1. ASSUME NEW c \in Caller, NEW stage, NEW r \in Picture!Row, Picture!Sends(c, stage, r),
             stage \in {"create", "category", "catalogue", "avatar"},
             stage = "avatar" => imageCall'[c].sent
      PROVE  PictureInv'
  <2>1. imageCall[c] = Picture!Idle /\ UNCHANGED <<row, image, shelf, linked>>
    BY <1>1 DEF Picture!Sends
  <2>2. PICK sent \in BOOLEAN, i \in Picture!Image \cup {0} :
          /\ imageCall' = [imageCall EXCEPT ![c] = [stage |-> stage, row |-> r, old |-> image[r],
                                                    sent |-> sent, new |-> i]]
          /\ \/ /\ i \in {0} \cup loose' /\ i <= added /\ added' = added /\ stored' = stored
                /\ loose' \in SUBSET (Picture!Image \cup {0}) /\ loose \subseteq loose'
             \/ /\ i = added + 1 /\ i \in Picture!Image
                /\ added' = i /\ stored' = stored \cup {i} /\ loose' = loose
    <3>1. CASE \E sent \in BOOLEAN :
                 /\ imageCall' = [imageCall EXCEPT ![c] =
                      [stage |-> stage, row |-> r, old |-> image[r], sent |-> sent, new |-> 0]]
                 /\ UNCHANGED <<added, stored, loose>>
      <4>1. 0 \in Picture!Image \cup {0} /\ 0 \in {0} \cup loose' /\ 0 <= added
        BY <1>0
      <4>2. loose \in SUBSET (Picture!Image \cup {0})
        BY <1>0 DEF Picture!ImagesTypeOK
      <4> QED
        BY <3>1, <4>1, <4>2
    <3>2. CASE \E i \in Picture!Image :
                 /\ Picture!Upload(i)
                 /\ imageCall' = [imageCall EXCEPT ![c] =
                      [stage |-> stage, row |-> r, old |-> image[r], sent |-> TRUE, new |-> i]]
                 /\ UNCHANGED loose
      BY <3>2 DEF Picture!Upload
    <3>3. CASE \E i \in 1 .. added :
                 /\ imageCall' = [imageCall EXCEPT ![c] =
                      [stage |-> stage, row |-> r, old |-> image[r], sent |-> TRUE, new |-> i]]
                 /\ Picture!Named(i) /\ UNCHANGED <<added, stored>>
      <4>1. \A i \in 1 .. added : i \in Picture!Image \cup {0} /\ i <= added
        BY <1>0
      <4>2. loose \in SUBSET (Picture!Image \cup {0})
        BY <1>0 DEF Picture!ImagesTypeOK
      <4> QED
        BY <3>3, <4>1, <4>2 DEF Picture!Named
    <3> QED
      BY <1>1, <3>1, <3>2, <3>3 DEF Picture!Sends
  <2> DEFINE k == [stage |-> stage, row |-> r, old |-> image[r], sent |-> sent, new |-> i]
  <2>3. k \in Picture!Call
    BY <1>0, <1>1 DEF Picture!Call
  <2>4. imageCall'[c] = k
    BY <1>0, <1>1, <2>2 DEF Picture!ImagesTypeOK
  <2>5. loose \subseteq loose' /\ loose' \in SUBSET (Picture!Image \cup {0})
    BY <1>0, <2>2 DEF Picture!ImagesTypeOK
  <2> QED
    BY <1>1, <2>1, <2>2, <2>3, <2>4, <2>5, PictureSends
<1>2. ASSUME NEW c \in Caller, NEW r \in Picture!Row, Picture!CreateRow(c, r),
             shelf' \in [Item -> Shelf]
      PROVE  PictureInv'
  <2> DEFINE k == imageCall[c]
  <2>1. k # Picture!Idle /\ k.row = r /\ row' = [row EXCEPT ![r] = "there"]
    BY <1>2 DEF Picture!CreateRow, Picture!At, Picture!Idle
  <2>2. k.new \in Picture!Image \cup {0} /\ k.new <= added
    BY <1>0, <2>1, PictureCall DEF PicturesAreNumbered
  <2>3. /\ row' \in [Picture!Row -> {"none", "there", "gone"}]
        /\ \A q \in Picture!Row \ {r} : row'[q] = row[q]
    BY <1>0, <2>1 DEF Picture!ImagesTypeOK
  <2>4. /\ image' = [image EXCEPT ![r] = k.new]
        /\ imageCall' = [imageCall EXCEPT ![c] = Picture!Idle]
        /\ linked' = linked /\ stored' = stored /\ loose' = loose /\ added' = added
    BY <1>2 DEF Picture!CreateRow, Picture!Done
  <2>5. loose' \in SUBSET (Picture!Image \cup {0})
    BY <1>0, <2>4 DEF Picture!ImagesTypeOK
  <2> QED
    BY <1>2, <2>1, <2>2, <2>3, <2>4, <2>5, PictureWrites DEF Picture!There
<1>3. ASSUME NEW c \in Caller, Picture!Create(c) PROVE PictureInv'
  BY <1>1, <1>3 DEF Picture!Create
<1>4. ASSUME NEW c \in Caller,
             Picture!CreateCategory(c) \/ Picture!CreateShelf(c) \/ Picture!CreateProduct(c)
      PROVE  PictureInv'
  <2>1. shelf' \in [Item -> Shelf]
    BY <1>0, <1>4 DEF Picture!CreateCategory, Picture!CreateShelf, Picture!CreateProduct,
         Picture!ImagesTypeOK
  <2> QED
    BY <1>2, <1>4, <2>1 DEF Picture!CreateCategory, Picture!CreateShelf, Picture!CreateProduct,
         Picture!Row
<1>5. ASSUME NEW c \in Caller, Picture!Update(c) PROVE PictureInv'
  BY <1>1, <1>5 DEF Picture!Update, Picture!Row
<1>6. ASSUME NEW c \in Caller, Picture!UpdateCategory(c) PROVE PictureInv'
  <2> DEFINE k == imageCall[c]
             v == IF k.sent THEN k.new ELSE k.old
  <2>1. k # Picture!Idle /\ k.stage = "category" /\ Picture!There(k.row)
    BY <1>6 DEF Picture!UpdateCategory, Picture!At, Picture!Idle
  <2>2. /\ k.new \in Picture!Image \cup {0} /\ k.new <= added
        /\ k.old \in Picture!Image \cup {0} /\ k.old <= added /\ k.row \in Picture!Row
    BY <1>0, <2>1, PictureCall DEF PicturesAreNumbered
  <2>3. /\ imageCall' = [imageCall EXCEPT ![c] = Picture!Idle]
        /\ image' = [image EXCEPT ![k.row] = v]
        /\ row' = row /\ shelf' = shelf /\ linked' = linked /\ added' = added
        /\ stored' = stored \ Picture!Replaced(c)
    BY <1>6 DEF Picture!UpdateCategory, Picture!Done, Picture!DeleteFromCloudinary
  <2>4. stored' \subseteq stored /\ stored \ stored' \subseteq {k.old} \ {v}
    BY <2>3 DEF Picture!Replaced
  <2>5. loose' = IF ~k.sent /\ image[k.row] # k.old THEN loose \cup {k.old} ELSE loose
    BY <1>6 DEF Picture!UpdateCategory
  <2>6. loose \subseteq loose' /\ loose' \in SUBSET (Picture!Image \cup {0})
    BY <1>0, <2>2, <2>5 DEF Picture!ImagesTypeOK
  <2>7. v = k.new \/ v = image[k.row] \/ v \in loose' \cap (Picture!Image \cup {0})
    BY <2>2, <2>5
  <2>8. v <= added /\ k.stage # "avatarRow"
    BY <2>1, <2>2
  <2>9. row' \in [Picture!Row -> {"none", "there", "gone"}] /\ shelf' \in [Item -> Shelf]
    BY <1>0, <2>3 DEF Picture!ImagesTypeOK
  <2>10. \A r \in Picture!Row : Picture!There(r)' => Picture!There(r)
    BY <2>3 DEF Picture!There
  <2> HIDE DEF v
  <2> QED
    BY <2>1, <2>3, <2>4, <2>6, <2>7, <2>8, <2>9, <2>10, PictureWrites
<1>7. ASSUME NEW c \in Caller, Picture!UpdateImage(c), shelf' \in [Item -> Shelf]
      PROVE  PictureInv'
  <2> DEFINE k == imageCall[c]
             v == IF k.sent THEN k.new ELSE image[k.row]
  <2>1. k # Picture!Idle /\ k.stage = "catalogue" /\ Picture!There(k.row)
    BY <1>7 DEF Picture!UpdateImage, Picture!At, Picture!Idle
  <2>2. /\ k.new \in Picture!Image \cup {0} /\ k.new <= added /\ k.row \in Picture!Row
        /\ image[k.row] <= added
    BY <1>0, <2>1, PictureCall DEF PicturesAreNumbered
  <2>3. /\ imageCall' = [imageCall EXCEPT ![c] = Picture!Idle]
        /\ row' = row /\ linked' = linked /\ added' = added /\ loose' = loose
        /\ stored' = stored \ Picture!Replaced(c)
    BY <1>7 DEF Picture!UpdateImage, Picture!Done, Picture!DeleteFromCloudinary
  <2>4. image' = [image EXCEPT ![k.row] = v]
    BY <1>0, <1>7, <2>2 DEF Picture!UpdateImage, Picture!ImagesTypeOK
  <2>5. stored' \subseteq stored /\ stored \ stored' \subseteq {k.old} \ {v}
    BY <2>3 DEF Picture!Replaced
  <2>6. loose \subseteq loose' /\ loose' \in SUBSET (Picture!Image \cup {0})
    BY <1>0, <2>3 DEF Picture!ImagesTypeOK
  <2>7. v = k.new \/ v = image[k.row]
    OBVIOUS
  <2>8. v <= added /\ k.stage # "avatarRow"
    BY <2>1, <2>2
  <2>9. row' \in [Picture!Row -> {"none", "there", "gone"}]
    BY <1>0, <2>3 DEF Picture!ImagesTypeOK
  <2>10. \A r \in Picture!Row : Picture!There(r)' => Picture!There(r)
    BY <2>3 DEF Picture!There
  <2> HIDE DEF v
  <2> QED
    BY <1>7, <2>1, <2>3, <2>4, <2>5, <2>6, <2>7, <2>8, <2>9, <2>10, PictureWrites
<1>8. ASSUME NEW c \in Caller, Picture!UpdateShelf(c) \/ Picture!UpdateProduct(c)
      PROVE  PictureInv'
  <2>1. Picture!UpdateImage(c)
    BY <1>8 DEF Picture!UpdateShelf, Picture!UpdateProduct
  <2>2. shelf' \in [Item -> Shelf]
    BY <1>0, <1>8 DEF Picture!UpdateShelf, Picture!UpdateProduct, Picture!ImagesTypeOK
  <2> QED
    BY <1>7, <2>1, <2>2
<1>9. ASSUME NEW c \in Caller, Picture!UploadProfilePhoto(c) PROVE PictureInv'
  BY <1>1, <1>9 DEF Picture!UploadProfilePhoto, Picture!Row
<1>10. ASSUME NEW c \in Caller, Picture!ReplaceAvatar(c) PROVE PictureInv'
  <2>1. imageCall[c] # Picture!Idle /\ imageCall[c].stage = "avatar"
    BY <1>10 DEF Picture!ReplaceAvatar, Picture!At, Picture!Idle
  <2>2. imageCall[c].sent
    BY <1>0, <2>1 DEF PicturesAreNumbered
  <2> QED
    BY <1>10, <2>1, <2>2, PictureGoes DEF Picture!ReplaceAvatar, Picture!Goes, Picture!Replaced,
         Picture!DeleteFromCloudinary
<1>11. ASSUME NEW c \in Caller, Picture!UpdateUser(c) PROVE PictureInv'
  <2> DEFINE k == imageCall[c]
  <2>1. k # Picture!Idle
    BY <1>11 DEF Picture!UpdateUser, Picture!At, Picture!Idle
  <2>2. k.new <= added
    BY <1>0, <2>1 DEF PicturesAreNumbered
  <2>3. /\ imageCall' = [imageCall EXCEPT ![c] = Picture!Idle]
        /\ image' = [image EXCEPT ![k.row] = k.new]
        /\ row' = row /\ shelf' = shelf /\ linked' = linked /\ added' = added
        /\ stored' = stored /\ loose' = loose
    BY <1>11 DEF Picture!UpdateUser, Picture!Done
  <2>4. /\ loose' \in SUBSET (Picture!Image \cup {0}) /\ shelf' \in [Item -> Shelf]
        /\ row' \in [Picture!Row -> {"none", "there", "gone"}]
    BY <1>0, <2>3 DEF Picture!ImagesTypeOK
  <2>5. \A r \in Picture!Row : Picture!There(r)' => Picture!There(r)
    BY <2>3 DEF Picture!There
  <2> QED
    BY <2>1, <2>2, <2>3, <2>4, <2>5, PictureWrites
<1>12. ASSUME NEW c \in Caller, NEW r \in Picture!Row, Picture!Delete(c, r) PROVE PictureInv'
  <2> DEFINE k == [stage |-> IF r \in Category THEN "count" ELSE "remove", row |-> r,
                   old |-> image[r], sent |-> FALSE, new |-> 0]
  <2>1. k \in Picture!Call
    BY <1>0 DEF Picture!Call
  <2>2. /\ imageCall[c] = Picture!Idle /\ imageCall' = [imageCall EXCEPT ![c] = k]
        /\ row' = row /\ image' = image /\ shelf' = shelf /\ linked' = linked
        /\ added' = added /\ stored' = stored /\ loose' = loose
    BY <1>12 DEF Picture!Delete
  <2>3. /\ k.old = image[k.row] /\ k.stage \notin {"avatar", "avatarRow"} /\ k.new = 0
        /\ k.new <= added
    BY <1>0
  <2>4. loose' \in SUBSET (Picture!Image \cup {0})
    BY <1>0, <2>2 DEF Picture!ImagesTypeOK
  <2> HIDE DEF k
  <2> QED
    BY <2>1, <2>2, <2>3, <2>4, PictureSends
<1>13. ASSUME NEW c \in Caller, imageCall[c] # Picture!Idle,
              imageCall' = [imageCall EXCEPT ![c] = Picture!Idle],
              loose' = IF Picture!At(c, "avatarRow") THEN loose \cup Picture!Replaced(c) ELSE loose,
              UNCHANGED <<row, image, shelf, linked, added, stored>>
       PROVE  PictureInv'
  <2>1. /\ imageCall' \in [Caller -> Picture!Call \cup {Picture!Idle}]
        /\ \A d \in Caller : imageCall'[d] \in {imageCall[d], Picture!Idle}
        /\ \A d \in Caller \ {c} : imageCall'[d] = imageCall[d]
    BY <1>0, <1>13 DEF Picture!ImagesTypeOK
  <2>2. Picture!Replaced(c) \subseteq Picture!Image \cup {0}
    BY <1>13, PictureCall DEF Picture!Replaced
  <2>3. loose \subseteq loose' /\ loose' \in SUBSET (Picture!Image \cup {0})
    BY <1>0, <1>13, <2>2 DEF Picture!ImagesTypeOK
  <2>4. imageCall[c].stage = "avatarRow" => imageCall[c].old \in loose' \cup {imageCall[c].new}
    BY <1>0, <1>13 DEF Picture!Replaced, Picture!At, PicturesAreNumbered
  <2>5. \A d \in Caller : /\ imageCall[d].stage = "avatarRow" /\ imageCall'[d] = Picture!Idle
                          => imageCall[d].old \in loose' \cup {imageCall[d].new}
    BY <2>1, <2>4 DEF Picture!Idle
  <2>6. /\ added' \in Picture!Image \cup {0} /\ stored' \subseteq 1 .. added' /\ added <= added'
        /\ linked' \subseteq Category /\ stored' = stored
    BY <1>0, <1>13 DEF Picture!ImagesTypeOK
  <2> QED
    BY <1>13, <2>1, <2>3, <2>5, <2>6, PictureLoses
<1>14. ASSUME NEW c \in Caller, Picture!CallDies(c) PROVE PictureInv'
  BY <1>13, <1>14 DEF Picture!CallDies, Picture!Done
<1>15. ASSUME NEW c \in Caller, Picture!CountLinks(c) PROVE PictureInv'
  <2>1. imageCall[c] # Picture!Idle /\ imageCall[c].stage = "count"
    BY <1>15 DEF Picture!CountLinks, Picture!At, Picture!Idle
  <2>2. CASE Picture!Goes(c, "remove")
    BY <1>15, <2>1, <2>2, PictureGoes DEF Picture!CountLinks, Picture!Goes
  <2>3. CASE Picture!Done(c)
    <3>1. ~Picture!At(c, "avatarRow")
      BY <2>1 DEF Picture!At
    <3> QED
      BY <1>13, <1>15, <2>1, <2>3, <3>1 DEF Picture!CountLinks, Picture!Done
  <2> QED
    BY <1>15, <2>2, <2>3 DEF Picture!CountLinks
<1>16. ASSUME NEW c \in Caller,
              Picture!RemoveCategory(c) \/ Picture!RemoveShelf(c) \/ Picture!RemoveProduct(c)
       PROVE  PictureInv'
  <2>1. imageCall[c] # Picture!Idle /\ imageCall[c].stage = "remove" /\ Picture!RemoveRow(c)
    BY <1>16 DEF Picture!RemoveCategory, Picture!RemoveShelf, Picture!RemoveProduct, Picture!At,
         Picture!Idle
  <2> QED
    BY <2>1, PictureRemoves
<1>17. ASSUME imageCall' = imageCall, UNCHANGED <<row, image, shelf>>, linked' \subseteq Category,
              added <= added', added' \in Picture!Image \cup {0}, stored' \subseteq 1 .. added',
              \A i \in stored : i \in stored' \cup loose',
              loose \subseteq loose', loose' \in SUBSET (Picture!Image \cup {0})
       PROVE  PictureInv'
  <2>1. imageCall' \in [Caller -> Picture!Call \cup {Picture!Idle}]
    BY <1>0, <1>17 DEF Picture!ImagesTypeOK
  <2>2. \A d \in Caller : imageCall[d].stage = "avatarRow" => imageCall'[d] # Picture!Idle
    BY <1>17 DEF Picture!Idle
  <2> QED
    BY <1>17, <2>1, <2>2, PictureLoses
<1>18. ASSUME NEW r \in Category, Picture!Link(r) PROVE PictureInv'
  BY <1>0, <1>17, <1>18 DEF Picture!Link, Picture!ImagesTypeOK
<1>19. ASSUME Picture!UploadUrl PROVE PictureInv'
  <2>1. PICK i \in Picture!Image : Picture!Upload(i)
    BY <1>19 DEF Picture!UploadUrl
  <2>2. added' = added + 1 /\ stored' = stored \cup {added + 1} /\ added' \in Picture!Image
    BY <2>1 DEF Picture!Upload
  <2>3. stored' \subseteq 1 .. added' /\ added <= added'
    BY <1>0, <2>2 DEF Picture!ImagesTypeOK
  <2> QED
    BY <1>0, <1>17, <1>19, <2>2, <2>3 DEF Picture!UploadUrl, Picture!ImagesTypeOK
<1>20. ASSUME NEW i \in Picture!Image, Picture!Unwanted(i) PROVE PictureInv'
  <2>1. /\ loose' = loose \cup {i} /\ stored' = stored \ {i} /\ added' = added
        /\ imageCall' = imageCall /\ UNCHANGED <<row, image, shelf, linked>>
    BY <1>20 DEF Picture!Unwanted, Picture!Named, Picture!DeleteFromCloudinary
  <2>2. /\ added' \in Picture!Image \cup {0} /\ stored' \subseteq 1 .. added' /\ added <= added'
        /\ linked' \subseteq Category /\ loose' \in SUBSET (Picture!Image \cup {0})
    BY <1>0, <2>1 DEF Picture!ImagesTypeOK
  <2> QED
    BY <1>17, <2>1, <2>2
<1>21. CASE UNCHANGED Picture!vars
  BY <1>0, <1>17, <1>21 DEF Picture!vars, Picture!ImagesTypeOK
<1> QED
  BY <1>3, <1>4, <1>5, <1>6, <1>8, <1>9, <1>10, <1>11, <1>12, <1>14, <1>15, <1>16, <1>18, <1>19,
     <1>20, <1>21 DEF Picture!Next

\* What a row shows is at Cloudinary, unless a client named it, or its call died between
\* the deletion of a user's old photo and the row: however updates, deletions and uploads
\* of categories, shelves, products and users race.
THEOREM ShownPicturesExist ==
  Picture!Spec => [](Picture!ImagesTypeOK /\ ShownImageExists)
<1>1. Picture!Init => PictureInv
  BY PictureHolds, PictureInit
<1>2. PictureInv /\ [Picture!Next]_(Picture!vars) => PictureInv'
  BY PictureHolds, PictureStep
<1>3. PictureInv => Picture!ImagesTypeOK /\ ShownImageExists
  BY DEF PictureInv
<1> QED
  BY <1>1, <1>2, <1>3, PTL DEF Picture!Spec

-----------------------------------------------------------------------------
(***************************************************************************)
(* The store as MCStore composes it                                        *)
(***************************************************************************)

\* A step of what runs together is a step of each part, or none.
LEMMA StoreStep ==
  [StoreNext]_allVars =>
    [Next]_vars /\ [Delivery!Next]_(Delivery!vars) /\ [Picture!Next]_(Picture!vars)
<1>1. UNCHANGED deliveryVars => UNCHANGED Delivery!vars
  BY DEF deliveryVars, Delivery!vars, Delivery!orderVars, Delivery!codeVars
<1>2. UNCHANGED pictureVars => UNCHANGED Picture!vars
  BY DEF pictureVars, Picture!vars, Picture!rowVars, Picture!cloudVars
<1>3. UNCHANGED allVars => UNCHANGED <<vars, deliveryVars, pictureVars>>
  BY DEF allVars
<1> QED
  BY <1>1, <1>2, <1>3 DEF StoreNext

\* So what runs together implements each of its parts.
LEMMA StoreImplements == StoreSpec => Spec /\ Delivery!Spec /\ Picture!Spec
<1>1. StoreInit => Init /\ Delivery!Init /\ Picture!Init
  BY DEF StoreInit
<1> QED
  BY <1>1, StoreStep, PTL DEF StoreSpec, Spec, Delivery!Spec, Picture!Spec

\* What orders, deliveries and pictures promise, they promise together.
THEOREM StoreKeepsItsPromises ==
  StoreSpec =>
    /\ [](/\ StoreTypeOK /\ StockTakenOnce /\ HolderIsCounted
          /\ PaidWasVerified /\ ShownImageExists)
    /\ SettledCountKeeps
<1>1. TypeOK /\ Delivery!TypeOK /\ Picture!ImagesTypeOK => StoreTypeOK
  BY DEF StoreTypeOK
<1> QED
  BY <1>1, StoreImplements, TypeCorrect, StockIsTakenOnce, AcceptedOrdersAreCounted,
     SettledCountsKeep, DeliveryIsPaidAfterItsCode, ShownPicturesExist, PTL
================================================================================
