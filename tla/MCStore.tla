------------------------------- MODULE MCStore -------------------------------
(***************************************************************************)
(* The store for TLC, one behaviour of one module at a time: StoreOrder    *)
(* and StoreDelivery share the order's row, but no column that one decides *)
(* by and the other writes.  What those that rest start from is fixed.     *)
(***************************************************************************)
EXTENDS StoreOrder, TLC

CONSTANTS
  Worker, MaxAttempts, MaxCode, NoWorker,
  Category, Shelf, Item, User, MaxImages, MaxNamed

VARIABLES
  focus,  \* which module
  employed, assigned, status, payment, code, mailed, expired, verified, attempts, told,
  deliveryCall,
  row, image, shelf, linked, added, stored, loose, imageCall

Delivery == INSTANCE StoreDelivery WITH call <- deliveryCall

Picture == INSTANCE Images WITH Product <- Item, call <- imageCall

ASSUME DeliveryHolds == Delivery!DeliveryAssumption
ASSUME PictureHolds == Picture!ImagesAssumption

deliveryVars ==
  <<employed, assigned, status, payment, code, mailed, expired, verified, attempts, told,
    deliveryCall>>
pictureVars == <<row, image, shelf, linked, added, stored, loose, imageCall>>

allVars == <<vars, deliveryVars, pictureVars, focus>>

\* The rows a behaviour of Images may be about; the others are gone.
InPlay ==
  CASE focus = "category" -> Category
    [] focus = "grocery" -> Shelf \cup Item
    [] focus = "user" -> User
    [] OTHER -> {}

\* Focus order has one store, any day and any order, which is placed and accepted; focus
\* pickup has two stores, which compete for the laundry pickups of a day.  A store registers
\* on any day, and signs up on the last one in focus order only.
OneStore == Cardinality({s \in Seller : seller[s] # "none" \/ s \in pro}) <= 1

Uncounted(s) == seller[s] # "none" /\ lastDay[s] = -1

SignsUpLate == day < MaxDay => \A s \in Seller : ~Uncounted(s)

Unclaimed ==
  /\ \A c \in Caller : call[c] # Idle => call[c].doing # "claim"
  /\ \A o \in Order : order[o] # "Pickup Scheduled"

OfPickups ==
  /\ day = 0
  /\ \A c \in Caller : call[c] # Idle => call[c].doing # "Grocery"
  /\ \A s \in Seller : ~Uncounted(s)

StoreInit ==
  /\ focus \in {"order", "pickup", "delivery", "category", "grocery", "user"}
  /\ focus # "order" => pro = {}
  /\ focus # "delivery" => employed = {}
  /\ Init /\ Delivery!Init /\ Picture!Init
  /\ OneStore
  /\ \A r \in DOMAIN row : row[r] = "gone" <=> r \notin InPlay
  /\ \A r \in InPlay \cap User : row[r] = "there"

\* A third picture is for a user's photos.
StoreNext ==
  /\ \/ /\ focus = "order" /\ Next /\ OneStore' /\ SignsUpLate' /\ Unclaimed'
        /\ UNCHANGED <<deliveryVars, pictureVars>>
     \/ focus = "pickup" /\ Next /\ OfPickups' /\ UNCHANGED <<deliveryVars, pictureVars>>
     \/ focus = "delivery" /\ Delivery!Next /\ UNCHANGED <<vars, pictureVars>>
     \/ /\ focus \in {"category", "grocery", "user"} /\ Picture!Next
        /\ focus # "user" => added' <= 2
        /\ UNCHANGED <<vars, deliveryVars>>
  /\ UNCHANGED focus

StoreSpec == StoreInit /\ [][StoreNext]_allVars

\* The rows and the calls in flight keep their types.
StoreTypeOK == TypeOK /\ Delivery!TypeOK /\ Picture!ImagesTypeOK

\* Money on delivery is taken only of an order that was verified, by the customer's code
\* or the master code (see StoreDelivery).
PaidWasVerified == Delivery!PaidWasVerified

\* What a row shows is still stored (see Images).
ShownImageExists == Picture!ShownImageExists

\* Of the products and the workers too, but that saves TLC less than it costs.
Symmetry == Permutations(Seller) \cup Permutations(Caller)
==============================================================================
