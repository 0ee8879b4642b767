----------------------------- MODULE AddressBook -----------------------------
(***************************************************************************)
(* A customer's addresses, one of which should be the default.             *)
(*                                                                         *)
(* A new default is set in a transaction, READ COMMITTED: the statement    *)
(* that clears the others sees the rows committed by then, and a row that  *)
(* is inserted meanwhile keeps its mark.  The other requests read, decide  *)
(* and write in statements of their own.                                   *)
(***************************************************************************)
EXTENDS Naturals, FiniteSets, FiniteSetsExt

CONSTANTS
  Caller,       \* the customer's requests in flight at once
  MaxAddresses  \* bound: the addresses ever created; they are numbered

AddressAssumption == MaxAddresses \in Nat

VARIABLES
  there,    \* the UserAddress rows; createdAt is in the order of their numbers
  default,  \* those with isDefault
  created,  \* the number of addresses created
  ordered,  \* history: no two requests overlapped, and none cleared the default, since
            \* the start or since a default was set alone
  call      \* what each request is doing

rowVars == <<there, default, created>>
vars == <<rowVars, ordered, call>>

Address == 1 .. MaxAddresses
Idle == [stage |-> "idle"]

\* at: the address to be updated or deleted, 0 for a new one.  seen: the rows the
\* transaction cleared.  mark: what the request read or was sent for isDefault.
Call == [stage : {"set", "create", "update", "delete", "promote", "mark"},
         at : Address \cup {0}, seen : SUBSET Address, mark : BOOLEAN, alone : BOOLEAN]

AddressTypeOK ==
  /\ created \in 0 .. MaxAddresses
  /\ there \in SUBSET (1 .. created)
  /\ default \in SUBSET there
  /\ ordered \in BOOLEAN
  /\ call \in [Caller -> Call \cup {Idle}]

Init ==
  /\ there = {}
  /\ default = {}
  /\ created = 0
  /\ ordered = TRUE
  /\ call = [c \in Caller |-> Idle]

At(c, stage) == call[c].stage = stage
Busy == {c \in Caller : call[c] # Idle}

\* Two that overlap are both not alone.
Begin(c, stage, a, seen, mark) ==
  /\ call[c] = Idle
  /\ call' = [d \in Caller |->
       IF d = c THEN [stage |-> stage, at |-> a, seen |-> seen, mark |-> mark,
                      alone |-> Busy = {}]
       ELSE IF call[d] = Idle THEN Idle ELSE [call[d] EXCEPT !.alone = FALSE]]
  /\ UNCHANGED <<rowVars, ordered>>

Done(c) == call' = [call EXCEPT ![c] = Idle]

\* A row that a transaction has cleared waits for its commit.
Held(a) == \E c \in Caller : At(c, "set") /\ a \in call[c].seen

Keeps(c) == ordered' = (ordered /\ call[c].alone)

\* A transaction is rolled back; a deletion that stops half way leaves no default.
CallDies(c) ==
  /\ call[c] # Idle
  /\ Done(c)
  /\ ordered' = (ordered /\ call[c].alone /\ ~At(c, "promote") /\ ~At(c, "mark"))
  /\ UNCHANGED rowVars

(***************************************************************************)
(* Setting a default, with a new address or an old one.                    *)
(***************************************************************************)

\* Mutant of Marked: the others are cleared after it.
MarkedFirst(c, a) == (default \cup {a}) \ (call[c].seen \cup {a})

Marked(c, a) == (default \ call[c].seen) \cup {a}

SetRead(c, a) ==
  /\ a = 0 \/ a \in there
  /\ Begin(c, "set", a, there, TRUE)

SetWrite(c) ==
  LET a == IF call[c].at = 0 THEN created + 1 ELSE call[c].at IN
  /\ At(c, "set")
  /\ a \in Address
  /\ there' = there \cup {a}
  /\ created' = IF call[c].at = 0 THEN a ELSE created
  /\ default' = Marked(c, a)
  /\ ordered' = call[c].alone
  /\ Done(c)

(***************************************************************************)
(* Creating and updating without setting the default.                      *)
(***************************************************************************)

CreateRead(c) == Begin(c, "create", 0, {}, there = {})

CreateWrite(c) ==
  LET a == created + 1 IN
  /\ At(c, "create")
  /\ a \in Address
  /\ there' = there \cup {a}
  /\ created' = a
  /\ default' = IF call[c].mark THEN default \cup {a} ELSE default
  /\ Keeps(c)
  /\ Done(c)

\* isDefault is left out, which changes no mark, or false.
UpdateRead(c, a) == a \in there /\ \E mark \in BOOLEAN : Begin(c, "update", a, {}, mark)

UpdateWrite(c) ==
  /\ At(c, "update")
  /\ call[c].at \in there /\ ~Held(call[c].at)
  /\ default' = IF call[c].mark THEN default ELSE default \ {call[c].at}
  /\ ordered' = (ordered /\ call[c].alone /\ call[c].mark)
  /\ Done(c)
  /\ UNCHANGED <<there, created>>

(***************************************************************************)
(* Deleting.                                                               *)
(***************************************************************************)

DeleteRead(c, a) == a \in there /\ Begin(c, "delete", a, {}, a \in default)

\* Who deleted what was the default when it was read looks for another.
DeleteRow(c) ==
  LET a == call[c].at IN
  /\ At(c, "delete")
  /\ a \in there /\ ~Held(a)
  /\ there' = there \ {a}
  /\ default' = default \ {a}
  /\ IF call[c].mark THEN call' = [call EXCEPT ![c].stage = "promote"] /\ UNCHANGED ordered
     ELSE Done(c) /\ Keeps(c)
  /\ UNCHANGED created

\* The oldest.
PromoteRead(c) ==
  /\ At(c, "promote")
  /\ IF there = {} THEN Done(c) /\ Keeps(c)
     ELSE /\ call' = [call EXCEPT ![c].stage = "mark", ![c].at = Min(there)]
          /\ UNCHANGED ordered
  /\ UNCHANGED rowVars

PromoteWrite(c) ==
  /\ At(c, "mark")
  /\ call[c].at \in there /\ ~Held(call[c].at)
  /\ default' = default \cup {call[c].at}
  /\ Keeps(c)
  /\ Done(c)
  /\ UNCHANGED <<there, created>>

-----------------------------------------------------------------------------
Next ==
  \E c \in Caller :
    \/ \E a \in Address \cup {0} : SetRead(c, a)
    \/ SetWrite(c)
    \/ CreateRead(c) \/ CreateWrite(c)
    \/ \E a \in Address : UpdateRead(c, a) \/ DeleteRead(c, a)
    \/ UpdateWrite(c)
    \/ DeleteRow(c) \/ PromoteRead(c) \/ PromoteWrite(c)
    \/ CallDies(c)

Spec == Init /\ [][Next]_vars

(***************************************************************************)
(* Property                                                                *)
(***************************************************************************)

\* Requests that race leave two defaults or none; setting a default alone mends it, and
\* from then on requests one at a time keep exactly one, through deletions too.
DefaultHeals ==
  ordered /\ Busy = {} /\ there # {} => Cardinality(default) = 1
==============================================================================
