---------------------------- MODULE PayoutAccount ----------------------------
(***************************************************************************)
(* The account at RazorpayX into which a helper is paid: the bank details  *)
(* the helper submits, the contact and fund account registered for them,   *)
(* and the cron job that registers again what failed.  Payout reads the    *)
(* result as an account that is ready or not (CheckHelper).                *)
(***************************************************************************)
EXTENDS Naturals, FiniteSets

CONSTANTS
  Helper,
  Detail,                    \* what bank details can be
  Caller,                    \* requests and runs of the job in flight at once
  MAX_REGISTRATION_RETRIES,
  MaxSubmits,                \* bound: the submissions of a helper
  MaxCrashes,                \* bound: the restarts of the server
  Nothing                    \* no bank row, or no fund account

ASSUME NothingAssumption == Nothing \notin Detail
ASSUME AccountAssumption ==
  MAX_REGISTRATION_RETRIES \in Nat \ {0} /\ MaxSubmits \in Nat /\ MaxCrashes \in Nat

VARIABLES
  bank,        \* HelperBank: the details
  fund,        \* HelperBank.razorpayFundAccountId, by the details it was made with
  verified,    \* HelperBank.isVerified
  enabled,     \* Helper.payoutEnabled
  setup,       \* Helper.payoutSetupStatus
  retries,     \* Helper.payoutRetryCount
  atRazorpay,  \* the fund accounts there are at RazorpayX
  submits, crashes,
  todo,        \* what a run of the job has read and not yet worked on
  call         \* what each request, or run, is doing

bankVars == <<bank, fund, verified>>
helperVars == <<enabled, setup, retries>>
boundVars == <<submits, crashes>>
vars == <<bankVars, helperVars, atRazorpay, boundVars, todo, call>>

Idle == [stage |-> "idle"]

\* What the job reads of a helper.
Snapshot == [helper : Helper, bank : Detail \cup {Nothing}, funded : BOOLEAN,
             retries : 0 .. MAX_REGISTRATION_RETRIES - 1]

\* enabled and retries are what was read; job tells a run from a request.
Call == [stage : {"save", "register", "persist", "activate", "failed"}, helper : Helper,
         detail : Detail, enabled : BOOLEAN, retries : 0 .. MAX_REGISTRATION_RETRIES - 1,
         job : BOOLEAN]

AccountTypeOK ==
  /\ bank \in [Helper -> Detail \cup {Nothing}]
  /\ fund \in [Helper -> Detail \cup {Nothing}]
  /\ verified \in [Helper -> BOOLEAN]
  /\ enabled \in [Helper -> BOOLEAN]
  /\ setup \in [Helper -> {"NOT_STARTED", "PENDING", "ACTIVE", "FAILED"}]
  /\ retries \in [Helper -> 0 .. MAX_REGISTRATION_RETRIES]
  /\ atRazorpay \in [Helper -> SUBSET Detail]
  /\ submits \in [Helper -> 0 .. MaxSubmits]
  /\ crashes \in 0 .. MaxCrashes
  /\ todo \in [Caller -> SUBSET Snapshot]
  /\ call \in [Caller -> Call \cup {Idle}]

Init ==
  /\ bank = [h \in Helper |-> Nothing]
  /\ fund = [h \in Helper |-> Nothing]
  /\ verified = [h \in Helper |-> FALSE]
  /\ enabled = [h \in Helper |-> FALSE]
  /\ setup = [h \in Helper |-> "NOT_STARTED"]
  /\ retries = [h \in Helper |-> 0]
  /\ atRazorpay = [h \in Helper |-> {}]
  /\ submits = [h \in Helper |-> 0]
  /\ crashes = 0
  /\ todo = [c \in Caller |-> {}]
  /\ call = [c \in Caller |-> Idle]

At(c, stage, h) == call[c].stage = stage /\ call[c].helper = h

Goto(c, stage) == call' = [call EXCEPT ![c].stage = stage]

Done(c) == call' = [call EXCEPT ![c] = Idle]

Restart ==
  /\ crashes < MaxCrashes
  /\ crashes' = crashes + 1
  /\ todo' = [c \in Caller |-> {}]
  /\ call' = [c \in Caller |-> Idle]
  /\ UNCHANGED <<bankVars, helperVars, atRazorpay, submits>>

(***************************************************************************)
(* The helper's bank details.                                              *)
(***************************************************************************)

\* submitBank reads the helper, looks the IFSC up, and saves.
SubmitRead(c, h, d) ==
  /\ call[c] = Idle /\ todo[c] = {}
  /\ submits[h] < MaxSubmits
  /\ submits' = [submits EXCEPT ![h] = @ + 1]
  /\ call' = [call EXCEPT ![c] = [stage |-> "save", helper |-> h, detail |-> d,
                                  enabled |-> enabled[h], retries |-> 0, job |-> FALSE]]
  /\ UNCHANGED <<bankVars, helperVars, atRazorpay, crashes, todo>>

\* Where there is a fund account already, other details change nothing at RazorpayX.
SubmitSave(c, h) ==
  /\ At(c, "save", h)
  /\ bank' = [bank EXCEPT ![h] = call[c].detail]
  /\ IF fund[h] # Nothing /\ call[c].enabled THEN Done(c) ELSE Goto(c, "register")
  /\ UNCHANGED <<fund, verified, helperVars, atRazorpay, boundVars, todo>>

\* An approved helper's own pages.  They register nothing.
CreateBank(h, d) ==
  /\ bank[h] = Nothing
  /\ bank' = [bank EXCEPT ![h] = d]
  /\ UNCHANGED <<fund, verified, helperVars, atRazorpay, boundVars, todo, call>>

\* One page takes the verification back, the other keeps it.
UpdateBank(h, d) ==
  /\ bank[h] # Nothing
  /\ bank' = [bank EXCEPT ![h] = d]
  /\ verified' \in {verified, [verified EXCEPT ![h] = FALSE]}
  /\ UNCHANGED <<fund, helperVars, atRazorpay, boundVars, todo, call>>

(***************************************************************************)
(* The job.                                                                *)
(***************************************************************************)

\* Mutant of ToRetry: one retry more than there is.
ToRetryOnceMore(h) ==
  /\ ~enabled[h]
  /\ setup[h] \in {"PENDING", "FAILED"}
  /\ retries[h] <= MAX_REGISTRATION_RETRIES

ToRetry(h) ==
  /\ ~enabled[h]
  /\ setup[h] \in {"PENDING", "FAILED"}
  /\ retries[h] < MAX_REGISTRATION_RETRIES

RetryStart(c) ==
  /\ call[c] = Idle /\ todo[c] = {}
  /\ \E h \in Helper : ToRetry(h)
  /\ todo' = [todo EXCEPT ![c] =
       {[helper |-> h, bank |-> bank[h], funded |-> fund[h] # Nothing, retries |-> retries[h]] :
          h \in {h \in Helper : ToRetry(h)}}]
  /\ UNCHANGED <<bankVars, helperVars, atRazorpay, boundVars, call>>

\* Mutant of NextStage: every helper on the list is activated.
NextStageAlways(s) == IF s.funded THEN "activate" ELSE "activate"

NextStage(s) == IF s.funded THEN "activate" ELSE "register"

\* Without a bank row there is nothing to do.
RetryNext(c) ==
  /\ call[c] = Idle
  /\ \E s \in todo[c] :
       /\ todo' = [todo EXCEPT ![c] = @ \ {s}]
       /\ IF s.bank = Nothing THEN UNCHANGED call
          ELSE call' = [call EXCEPT ![c] =
                 [stage |-> NextStage(s), helper |-> s.helper, detail |-> s.bank,
                  enabled |-> FALSE, retries |-> s.retries, job |-> TRUE]]
  /\ UNCHANGED <<bankVars, helperVars, atRazorpay, boundVars>>

(***************************************************************************)
(* The registration, with the details that were read.                      *)
(***************************************************************************)

\* The contact and the fund account.
Register(c, h) ==
  /\ At(c, "register", h)
  /\ atRazorpay' = [atRazorpay EXCEPT ![h] = @ \cup {call[c].detail}]
  /\ Goto(c, "persist")
  /\ UNCHANGED <<bankVars, helperVars, boundVars, todo>>

Persist(c, h) ==
  /\ At(c, "persist", h)
  /\ fund' = [fund EXCEPT ![h] = call[c].detail]
  /\ verified' = [verified EXCEPT ![h] = TRUE]
  /\ Goto(c, "activate")
  /\ UNCHANGED <<bank, helperVars, atRazorpay, boundVars, todo>>

Activate(c, h) ==
  /\ At(c, "activate", h)
  /\ enabled' = [enabled EXCEPT ![h] = TRUE]
  /\ setup' = [setup EXCEPT ![h] = "ACTIVE"]
  /\ retries' = [retries EXCEPT ![h] = 0]
  /\ Done(c)
  /\ UNCHANGED <<bankVars, atRazorpay, boundVars, todo>>

\* RazorpayX refuses or its answer is lost, or an update throws.
RegistrationThrows(c) ==
  /\ call[c].stage \in {"register", "persist", "activate"}
  /\ Goto(c, "failed")
  /\ UNCHANGED <<bankVars, helperVars, atRazorpay, boundVars, todo>>

\* Mutant of RetriesAfter: the count does not grow.
RetriesAfterNone(c) == call[c].retries

RetriesAfter(c) == call[c].retries + 1

\* A request starts the count anew and disables the payout; the job does not, although
\* the helper may have been enabled meanwhile.
SaveFailure(c, h) ==
  /\ At(c, "failed", h)
  /\ IF call[c].job
     THEN /\ retries' = [retries EXCEPT ![h] = RetriesAfter(c)]
          /\ setup' = [setup EXCEPT ![h] =
                         IF RetriesAfter(c) >= MAX_REGISTRATION_RETRIES THEN "FAILED"
                         ELSE "PENDING"]
          /\ UNCHANGED enabled
     ELSE /\ retries' = [retries EXCEPT ![h] = 0]
          /\ setup' = [setup EXCEPT ![h] = "PENDING"]
          /\ enabled' = [enabled EXCEPT ![h] = FALSE]
  /\ Done(c)
  /\ UNCHANGED <<bankVars, atRazorpay, boundVars, todo>>

-----------------------------------------------------------------------------
\* What a request or a run does by itself once it was started.
Proceed(c) ==
  \/ RetryNext(c) \/ RegistrationThrows(c)
  \/ \E h \in Helper :
       SubmitSave(c, h) \/ Register(c, h) \/ Persist(c, h) \/ Activate(c, h) \/ SaveFailure(c, h)

Next ==
  \/ \E c \in Caller : RetryStart(c) \/ Proceed(c)
  \/ \E h \in Helper, d \in Detail :
       CreateBank(h, d) \/ UpdateBank(h, d) \/ \E c \in Caller : SubmitRead(c, h, d)
  \/ Restart

\* Cron starts the job every half hour; what was started goes on.
Fairness ==
  /\ WF_vars(\E c \in Caller : RetryStart(c))
  /\ \A c \in Caller : WF_vars(Proceed(c))

Spec == Init /\ [][Next]_vars /\ Fairness

(***************************************************************************)
(* Properties                                                              *)
(***************************************************************************)

\* Whoever may be paid, and every bank row that counts as verified, has a fund account
\* that exists at RazorpayX, however the requests and the job overtake each other and
\* wherever the server stops.
PayableHasFundAccount ==
  \A h \in Helper : enabled[h] \/ verified[h] => fund[h] \in atRazorpay[h]

\* A registration that is pending ends: the helper can be paid, or the retries are
\* used up.
RegistrationSettles ==
  \A h \in Helper :
    setup[h] = "PENDING" ~> enabled[h] \/ retries[h] = MAX_REGISTRATION_RETRIES
=============================================================================
