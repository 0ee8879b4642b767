----------------------------- MODULE StoreSignIn -----------------------------
(***************************************************************************)
(* The sign-in of the public store routes: a code is kept in the process's *)
(* memory for each address, and an address no store has is given to one    *)
(* that is approved, or to a new one.  Beside it there are the mailed      *)
(* codes of EmailCode, in columns of their own.                            *)
(*                                                                         *)
(* Looking the code up and deleting it is one piece of synchronous code;   *)
(* every read and write of the Seller rows awaits the database.            *)
(***************************************************************************)
EXTENDS Naturals

CONSTANTS
  Address, Store,
  Fresh,      \* the row with the phone number of the stores this sign-in creates
  Caller,     \* the requests in flight at once
  MaxCode,    \* bound: the codes made for an address
  NoAddress   \* the null of Seller.email

SignInAssumption == Fresh \in Store /\ NoAddress \notin Address /\ MaxCode \in Nat

VARIABLES
  code,      \* sellerEmailOtpStore: the number of the code of an address, 0 for none
  made,      \* how many codes were made; they are numbered
  lapsed,    \* the addresses whose code is older than ten minutes
  stores,    \* the Seller rows
  approved,  \* those whose status is APPROVED
  email,     \* Seller.email
  accepted,  \* history: how often a code was accepted
  call       \* what each request is doing

codeVars == <<code, made, lapsed, accepted>>
storeVars == <<stores, approved, email>>
vars == <<codeVars, storeVars, call>>

Code == 0 .. MaxCode
Idle == [stage |-> "idle"]

\* store is the approved one that was read.
Call == [stage : {"find", "approved", "link", "create"}, address : Address, store : Store]

TypeOK ==
  /\ code \in [Address -> Code]
  /\ made \in [Address -> Code]
  /\ lapsed \in SUBSET Address
  /\ stores \in SUBSET Store
  /\ approved \in SUBSET stores
  /\ email \in [Store -> Address \cup {NoAddress}]
  /\ accepted \in [Address -> [Code -> Nat]]
  /\ call \in [Caller -> Call \cup {Idle}]

Init ==
  /\ code = [a \in Address |-> 0]
  /\ made = [a \in Address |-> 0]
  /\ lapsed = {}
  /\ stores = {}
  /\ approved = {}
  /\ email = [s \in Store |-> NoAddress]
  /\ accepted = [a \in Address |-> [n \in Code |-> 0]]
  /\ call = [c \in Caller |-> Idle]

At(c, stage) == call[c].stage = stage

Goto(c, stage) == call' = [call EXCEPT ![c].stage = stage]

Done(c) == call' = [call EXCEPT ![c] = Idle]

\* A statement throws, or the connection is lost.
CallDies(c) ==
  /\ call[c] # Idle
  /\ Done(c)
  /\ UNCHANGED <<codeVars, storeVars>>

\* The codes are gone with the process.
Restart ==
  /\ code' = [a \in Address |-> 0]
  /\ lapsed' = {}
  /\ call' = [c \in Caller |-> Idle]
  /\ UNCHANGED <<made, accepted, storeVars>>

(***************************************************************************)
(* The other routes: a store registers, the administrator decides.         *)
(***************************************************************************)

\* The address is unique.
IsFree(a) == \A s \in stores : email[s] # a

Register(s, a) ==
  /\ s \notin stores
  /\ a = NoAddress \/ IsFree(a)
  /\ stores' = stores \cup {s}
  /\ email' = [email EXCEPT ![s] = a]
  /\ UNCHANGED <<codeVars, approved, call>>

SetStatus(s) ==
  /\ s \in stores
  /\ approved' \in {approved \cup {s}, approved \ {s}}
  /\ UNCHANGED <<codeVars, stores, email, call>>

(***************************************************************************)
(* The codes.                                                              *)
(***************************************************************************)

\* For any address; what is looked up of the stores is only for the answer.
SendOtp(a) ==
  LET n == made[a] + 1 IN
  /\ n \in Code
  /\ made' = [made EXCEPT ![a] = n]
  /\ code' = [code EXCEPT ![a] = n]
  /\ lapsed' = lapsed \ {a}
  /\ UNCHANGED <<accepted, storeVars, call>>

OtpExpires(a) ==
  /\ code[a] # 0
  /\ lapsed' = lapsed \cup {a}
  /\ UNCHANGED <<code, made, accepted, storeVars, call>>

\* The code of the address is deleted, whichever was entered: its own, or the master code.
\* A wrong one, or one that has expired, changes nothing.
Begin(c, a, s) ==
  /\ call[c] = Idle
  /\ call' = [call EXCEPT ![c] = [stage |-> "find", address |-> a, store |-> s]]
  /\ code' = [code EXCEPT ![a] = 0]
  /\ UNCHANGED <<made, lapsed, storeVars>>

VerifyRight(c, a) ==
  /\ code[a] # 0
  /\ a \notin lapsed
  /\ accepted' = [accepted EXCEPT ![a][code[a]] = @ + 1]
  /\ Begin(c, a, Fresh)

VerifyMaster(c, a) == Begin(c, a, Fresh) /\ UNCHANGED accepted

(***************************************************************************)
(* Whose store it is: the one of the address, an approved one, a new one.  *)
(***************************************************************************)

FindByAddress(c) ==
  /\ At(c, "find")
  /\ IF IsFree(call[c].address) THEN Goto(c, "approved") ELSE Done(c)
  /\ UNCHANGED <<codeVars, storeVars>>

\* Which of them comes first is left open.
FindApproved(c) ==
  /\ At(c, "approved")
  /\ \/ \E s \in approved : call' = [call EXCEPT ![c].stage = "link", ![c].store = s]
     \/ approved = {} /\ Goto(c, "create")
  /\ UNCHANGED <<codeVars, storeVars>>

\* By id, over the address the store has.  If the address is another's by now the update
\* fails, which is CallDies.
LinkAddress(c) ==
  /\ At(c, "link")
  /\ \A s \in stores : email[s] = call[c].address => s = call[c].store
  /\ email' = [email EXCEPT ![call[c].store] = call[c].address]
  /\ Done(c)
  /\ UNCHANGED <<codeVars, stores, approved>>

\* Approved at once, and always with the same phone number, which is unique.
CreateStore(c) ==
  /\ At(c, "create")
  /\ Fresh \notin stores
  /\ IsFree(call[c].address)
  /\ stores' = stores \cup {Fresh}
  /\ approved' = approved \cup {Fresh}
  /\ email' = [email EXCEPT ![Fresh] = call[c].address]
  /\ Done(c)
  /\ UNCHANGED codeVars

-----------------------------------------------------------------------------
VerifyOtp(c) ==
  \/ \E a \in Address : VerifyRight(c, a) \/ VerifyMaster(c, a)
  \/ FindByAddress(c) \/ FindApproved(c) \/ LinkAddress(c) \/ CreateStore(c)

Next ==
  \/ \E c \in Caller : VerifyOtp(c) \/ CallDies(c)
  \/ \E a \in Address : SendOtp(a) \/ OtpExpires(a)
  \/ \E s \in Store : SetStatus(s) \/ \E a \in Address \cup {NoAddress} : Register(s, a)
  \/ Restart

Spec == Init /\ [][Next]_vars

(***************************************************************************)
(* Properties                                                              *)
(***************************************************************************)

\* A code is accepted once, however many requests bring it at the same time, and none
\* after the server has forgotten it: nothing awaits between the look and the deletion.
AcceptedOnce == \A a \in Address, n \in Code : accepted[a][n] <= 1
==============================================================================
