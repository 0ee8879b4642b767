------------------------------ MODULE ServiceList ------------------------------
(***************************************************************************)
(* The services a helper offers, by which a search finds him.  His profile *)
(* and his list of services each replace the rows in a transaction, READ   *)
(* COMMITTED: deleteMany deletes the rows there were when it began, waits  *)
(* for a transaction that has deleted one of them, and does not see what   *)
(* that one has inserted.  A profile locks the row of the user first.      *)
(*                                                                         *)
(* One helper.                                                             *)
(***************************************************************************)
EXTENDS FiniteSets

CONSTANTS
  Service,
  Caller    \* the requests in flight at once

VARIABLES
  exists,   \* the Service rows
  offered,  \* the helper's HelperService rows
  last,     \* history: the list last saved, with what was added or deleted since
  trusted,  \* history: the last to save was not overtaken
  call      \* what each request is doing

rowVars == <<exists, offered>>
vars == <<rowVars, last, trusted, call>>

Idle == [stage |-> "idle"]

\* rows is what deleteMany has found and, once deleted, holds; undisturbed says that
\* nothing was committed since that a lock of the user's row would not have kept out.
Call ==
  [stage : {"deleting", "deleted"}, kind : {"profile", "services"}, list : SUBSET Service,
   rows : SUBSET Service, undisturbed : BOOLEAN]
  \cup [stage : {"create", "delete"}, service : Service]

ServiceTypeOK ==
  /\ exists \in SUBSET Service
  /\ offered \in SUBSET exists
  /\ last \in SUBSET exists
  /\ trusted \in BOOLEAN
  /\ call \in [Caller -> Call \cup {Idle}]

\* Signed up: the administrator's services, and none of the helper's.
Init ==
  /\ exists \in SUBSET Service
  /\ offered = {}
  /\ last = {}
  /\ trusted = TRUE
  /\ call = [c \in Caller |-> Idle]

Saves(c) == call[c].stage \in {"deleting", "deleted"}
Holds(c, s) == call[c].stage = "deleted" /\ s \in call[c].rows

Begin(c, what) ==
  /\ call[c] = Idle
  /\ call' = [call EXCEPT ![c] = what]
  /\ UNCHANGED <<rowVars, last, trusted>>

\* Also what the database refuses: a service that is gone, or that is there twice.
CallDies(c) ==
  /\ call[c] # Idle
  /\ call' = [call EXCEPT ![c] = Idle]
  /\ UNCHANGED <<rowVars, last, trusted>>

(***************************************************************************)
(* A list replaces another.                                                *)
(***************************************************************************)

BeginSave(c, kind, list) ==
  Begin(c, [stage |-> "deleting", kind |-> kind, list |-> list, rows |-> offered,
            undisturbed |-> TRUE])

\* Mutant of UserRowFree: the row of the user is not written first.
UserRowUnused == TRUE

UserRowFree == \A d \in Caller : Saves(d) => call[d].kind # "profile"

\* The services are looked up before; a profile without services leaves the rows.
SubmitProfile(c, list) ==
  /\ list \subseteq exists
  /\ UserRowFree
  /\ BeginSave(c, "profile", list)

UpdateServices(c, list) == BeginSave(c, "services", list)

DeleteRows(c) ==
  /\ call[c].stage = "deleting"
  /\ \A d \in Caller, s \in call[c].rows : ~Holds(d, s)
  /\ call' = [call EXCEPT ![c].stage = "deleted"]
  /\ UNCHANGED <<rowVars, last, trusted>>

\* The transactions that saw the rows before c wrote them; a row c has deleted is
\* no longer there for them.
Overtaken(c, d) ==
  IF ~Saves(d) THEN call[d]
  ELSE [call[d] EXCEPT !.rows = @ \ call[c].rows,
                       !.undisturbed = @ /\ {call[c].kind, call[d].kind} = {"profile"}]

\* createMany, which waits for who holds such a row and fails on one that is there,
\* and the commit.
InsertRows(c) ==
  LET list == call[c].list
      kept == offered \ call[c].rows IN
  /\ call[c].stage = "deleted"
  /\ list \subseteq exists
  /\ list \cap kept = {}
  /\ offered' = kept \cup list
  /\ last' = list
  /\ trusted' = call[c].undisturbed
  /\ call' = [d \in Caller |-> IF d = c THEN Idle ELSE Overtaken(c, d)]
  /\ UNCHANGED exists

Save(c) == DeleteRows(c) \/ InsertRows(c)

(***************************************************************************)
(* A service of the helper's own.                                          *)
(***************************************************************************)

CreateService(c, s) ==
  /\ call[c] = Idle
  /\ s \notin exists
  /\ exists' = exists \cup {s}
  /\ call' = [call EXCEPT ![c] = [stage |-> "create", service |-> s]]
  /\ UNCHANGED <<offered, last, trusted>>

\* The upsert of the row.
LinkService(c) ==
  LET s == call[c].service IN
  /\ call[c].stage = "create"
  /\ s \in exists
  /\ \A d \in Caller : ~Holds(d, s)
  /\ offered' = offered \cup {s}
  /\ last' = last \cup {s}
  /\ call' = [d \in Caller |-> IF d = c THEN Idle
                               ELSE IF Saves(d) THEN [call[d] EXCEPT !.undisturbed = FALSE]
                               ELSE call[d]]
  /\ UNCHANGED <<exists, trusted>>

\* Whoever offers a service may delete it; one that a booking names stays.
DeleteServiceRead(c, s) ==
  /\ s \in offered
  /\ Begin(c, [stage |-> "delete", service |-> s])

\* The rows of the helpers go with it.
DeleteService(c) ==
  LET s == call[c].service IN
  /\ call[c].stage = "delete"
  /\ s \in exists
  /\ \A d \in Caller : ~Holds(d, s)
  /\ exists' = exists \ {s}
  /\ offered' = offered \ {s}
  /\ last' = last \ {s}
  /\ call' = [d \in Caller |-> IF d = c THEN Idle
                               ELSE IF Saves(d) THEN [call[d] EXCEPT !.rows = @ \ {s}]
                               ELSE call[d]]
  /\ UNCHANGED trusted

-----------------------------------------------------------------------------
Next ==
  \E c \in Caller :
    \/ \E list \in (SUBSET Service) \ {{}} : SubmitProfile(c, list) \/ UpdateServices(c, list)
    \/ Save(c) \/ LinkService(c) \/ DeleteService(c) \/ CallDies(c)
    \/ \E s \in Service : CreateService(c, s) \/ DeleteServiceRead(c, s)

Spec == Init /\ [][Next]_vars

(***************************************************************************)
(* Properties                                                              *)
(***************************************************************************)

\* Two lists of services saved at once are mixed into one, and the next save that is
\* alone mends it; profiles, which wait for each other, never mix.  A service that was
\* saved last is never missing.
ServicesHeal == last \subseteq offered /\ (trusted => offered = last)
=============================================================================
