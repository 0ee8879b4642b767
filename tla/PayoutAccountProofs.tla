-------------------------- MODULE PayoutAccountProofs --------------------------
(***************************************************************************)
(* Proofs about PayoutAccount, for any sets of helpers and bank details,   *)
(* any number of requests and runs in flight, and any bounds.              *)
(*                                                                         *)
(* A helper is enabled by a call that has read or written a fund account   *)
(* some time before: CallsKnow and TodoKnows say that it is still there.   *)
(***************************************************************************)
EXTENDS PayoutAccount, TLAPS

\* A fund account that is written down exists at RazorpayX, and is never wiped out.
FundExists == \A h \in Helper : fund[h] # Nothing => fund[h] \in atRazorpay[h]

\* Whoever is enabled or verified has one written down.
FundIsThere == \A h \in Helper : enabled[h] \/ verified[h] => fund[h] # Nothing

\* A call writes down what it has registered, and activates once it is written down.
CallsKnow ==
  \A c \in Caller, h \in Helper :
    /\ At(c, "persist", h) => call[c].detail \in atRazorpay[h]
    /\ At(c, "activate", h) => fund[h] # Nothing

\* So does a run that has read the fund account.
TodoKnows == \A c \in Caller : \A s \in todo[c] : s.funded => fund[s.helper] # Nothing

IInv == AccountTypeOK /\ FundExists /\ FundIsThere /\ CallsKnow /\ TodoKnows

\* No helper has bank details.
LEMMA InitIInv == Init => IInv
  BY AccountAssumption
  DEF Init, IInv, AccountTypeOK, FundExists, FundIsThere, CallsKnow, TodoKnows, At, Idle

\* The submission of bank details.
LEMMA SubmitKeeps ==
  ASSUME IInv, NEW h \in Helper,
         \/ \E c \in Caller, d \in Detail : SubmitRead(c, h, d)
         \/ \E c \in Caller : SubmitSave(c, h)
         \/ \E d \in Detail : CreateBank(h, d) \/ UpdateBank(h, d)
  PROVE  IInv'
<1> USE DEF IInv, bankVars, helperVars, boundVars
<1>1. ASSUME NEW c \in Caller, NEW d \in Detail, SubmitRead(c, h, d) PROVE IInv'
  <2>1. AccountTypeOK'
    BY <1>1, AccountAssumption DEF SubmitRead, AccountTypeOK, Call
  <2>2. (FundExists /\ FundIsThere /\ CallsKnow /\ TodoKnows)'
    BY <1>1 DEF SubmitRead, AccountTypeOK, FundExists, FundIsThere, CallsKnow, TodoKnows, At
  <2> QED
    BY <2>1, <2>2
<1>2. ASSUME NEW c \in Caller, SubmitSave(c, h) PROVE IInv'
  <2>1. call[c] \in Call
    BY <1>2 DEF SubmitSave, At, AccountTypeOK, Idle
  <2>2. \A e \in Caller : e # c => call'[e] = call[e]
    BY <1>2 DEF SubmitSave, Goto, Done, AccountTypeOK
  <2>3. call'[c] \in Call \cup {Idle} /\ call'[c].stage \in {"register", "idle"}
    BY <1>2, <2>1 DEF SubmitSave, Goto, Done, AccountTypeOK, Call, Idle
  <2>4. AccountTypeOK'
    <3>1. call' \in [Caller -> Call \cup {Idle}]
      BY <1>2, <2>2, <2>3 DEF SubmitSave, Goto, Done, AccountTypeOK
    <3>2. call[c].detail \in Detail
      BY <2>1 DEF Call
    <3> QED
      BY <1>2, <3>1, <3>2 DEF SubmitSave, AccountTypeOK
  <2>5. (FundExists /\ FundIsThere /\ TodoKnows)'
    BY <1>2 DEF SubmitSave, FundExists, FundIsThere, TodoKnows
  <2>6. CallsKnow'
    BY <1>2, <2>2, <2>3 DEF SubmitSave, CallsKnow, At
  <2> QED
    BY <2>4, <2>5, <2>6
<1>3. ASSUME NEW d \in Detail, CreateBank(h, d) \/ UpdateBank(h, d) PROVE IInv'
  <2>1. AccountTypeOK'
    BY <1>3 DEF CreateBank, UpdateBank, AccountTypeOK
  <2>2. \A g \in Helper : verified'[g] => verified[g]
    BY <1>3 DEF CreateBank, UpdateBank, AccountTypeOK
  <2>3. (FundExists /\ FundIsThere /\ CallsKnow /\ TodoKnows)'
    BY <1>3, <2>2 DEF CreateBank, UpdateBank, FundExists, FundIsThere, CallsKnow, TodoKnows, At
  <2> QED
    BY <2>1, <2>3
<1> QED
  BY <1>1, <1>2, <1>3

\* The job reads a list and works through it.
LEMMA RetryKeeps ==
  ASSUME IInv, NEW c \in Caller, RetryStart(c) \/ RetryNext(c)
  PROVE  IInv'
<1> USE DEF IInv, bankVars, helperVars, boundVars
<1>1. CASE RetryStart(c)
  <2> DEFINE list == {[helper |-> h, bank |-> bank[h], funded |-> fund[h] # Nothing,
                       retries |-> retries[h]] : h \in {h \in Helper : ToRetry(h)}}
  <2>1. todo' = [todo EXCEPT ![c] = list]
    BY <1>1 DEF RetryStart
  <2>2. \A h \in Helper : ToRetry(h) => retries[h] \in 0 .. MAX_REGISTRATION_RETRIES - 1
    BY AccountAssumption DEF ToRetry, AccountTypeOK
  <2>3. ASSUME NEW s \in list
        PROVE  s \in Snapshot /\ (s.funded => fund[s.helper] # Nothing)
    <3>1. PICK h \in Helper :
            /\ ToRetry(h)
            /\ s = [helper |-> h, bank |-> bank[h], funded |-> fund[h] # Nothing,
                    retries |-> retries[h]]
      OBVIOUS
    <3>2. bank[h] \in Detail \cup {Nothing} /\ (fund[h] # Nothing) \in BOOLEAN
      BY DEF AccountTypeOK
    <3>3. s \in Snapshot
      BY <2>2, <3>1, <3>2 DEF Snapshot
    <3>4. s.helper = h /\ s.funded = (fund[h] # Nothing)
      BY <3>1
    <3> QED
      BY <3>3, <3>4
  <2> HIDE DEF list
  <2>5. AccountTypeOK'
    BY <1>1, <2>1, <2>3 DEF RetryStart, AccountTypeOK
  <2>6. TodoKnows'
    BY <1>1, <2>1, <2>3 DEF RetryStart, TodoKnows, AccountTypeOK
  <2>7. (FundExists /\ FundIsThere /\ CallsKnow)'
    BY <1>1 DEF RetryStart, FundExists, FundIsThere, CallsKnow, At
  <2> QED
    BY <2>5, <2>6, <2>7
<1>2. CASE RetryNext(c)
  <2>1. PICK s \in todo[c] :
          /\ todo' = [todo EXCEPT ![c] = @ \ {s}]
          /\ IF s.bank = Nothing THEN UNCHANGED call
             ELSE call' = [call EXCEPT ![c] =
                    [stage |-> NextStage(s), helper |-> s.helper, detail |-> s.bank,
                     enabled |-> FALSE, retries |-> s.retries, job |-> TRUE]]
    BY <1>2 DEF RetryNext
  <2>2. s \in Snapshot /\ (s.funded => fund[s.helper] # Nothing)
    BY DEF AccountTypeOK, TodoKnows
  <2>3. UNCHANGED <<bankVars, helperVars, atRazorpay, boundVars>>
    BY <1>2 DEF RetryNext
  <2>4. todo' \in [Caller -> SUBSET Snapshot] /\ \A e \in Caller : todo'[e] \subseteq todo[e]
    BY <2>1 DEF AccountTypeOK
  <2>5. CASE s.bank = Nothing
    BY <2>1, <2>3, <2>4, <2>5
    DEF AccountTypeOK, FundExists, FundIsThere, CallsKnow, TodoKnows, At
  <2>6. CASE s.bank # Nothing
    <3> DEFINE new == [stage |-> NextStage(s), helper |-> s.helper, detail |-> s.bank,
                       enabled |-> FALSE, retries |-> s.retries, job |-> TRUE]
    <3>1. new \in Call
      BY <2>2, <2>6 DEF Snapshot, Call, NextStage
    <3>2. /\ new.helper = s.helper
          /\ new.stage \in {"activate", "register"} /\ (new.stage = "activate" => s.funded)
      BY DEF NextStage
    <3> HIDE DEF new
    <3>3. \A e \in Caller : call'[e] = IF e = c THEN new ELSE call[e]
      BY <2>1, <2>6 DEF AccountTypeOK, new
    <3>4. call' \in [Caller -> Call \cup {Idle}]
      BY <2>1, <2>6, <3>1 DEF AccountTypeOK, new
    <3>5. AccountTypeOK'
      BY <2>3, <2>4, <3>4 DEF AccountTypeOK
    <3>6. CallsKnow'
      BY <2>2, <2>3, <3>2, <3>3 DEF CallsKnow, At
    <3>7. (FundExists /\ FundIsThere /\ TodoKnows)'
      BY <2>3, <2>4 DEF FundExists, FundIsThere, TodoKnows
    <3> QED
      BY <3>5, <3>6, <3>7
  <2> QED
    BY <2>5, <2>6
<1> QED
  BY <1>1, <1>2

\* A call that goes on stays the call it was.
LEMMA GotoKeepsCall ==
  ASSUME AccountTypeOK, NEW c \in Caller, call[c] \in Call,
         NEW s \in {"save", "register", "persist", "activate", "failed"}, Goto(c, s)
  PROVE  /\ call' \in [Caller -> Call \cup {Idle}]
         /\ \A e \in Caller \ {c} : call'[e] = call[e]
         /\ call'[c].stage = s /\ call'[c].helper = call[c].helper
         /\ call'[c].detail = call[c].detail
<1>1. call'[c] = [call[c] EXCEPT !.stage = s]
  BY DEF Goto, AccountTypeOK
<1>2. call'[c] \in Call
  BY <1>1 DEF Call
<1>3. \A e \in Caller \ {c} : call'[e] = call[e]
  BY DEF Goto, AccountTypeOK
<1>4. call' \in [Caller -> Call \cup {Idle}]
  BY <1>2, <1>3 DEF Goto, AccountTypeOK
<1> QED
  BY <1>1, <1>3, <1>4 DEF Call

\* The registration writes down what there is at RazorpayX, step by step.
LEMMA RegistrationKeeps ==
  ASSUME IInv, NEW c \in Caller,
         \/ RegistrationThrows(c)
         \/ \E h \in Helper : Register(c, h) \/ Persist(c, h)
  PROVE  IInv'
<1> USE DEF IInv, bankVars, helperVars, boundVars
<1>1. call[c] \in Call
  BY DEF RegistrationThrows, Register, Persist, At, AccountTypeOK, Idle
<1>2. call[c].detail \in Detail
  BY <1>1 DEF Call
<1>3. CASE RegistrationThrows(c)
  <2>1. Goto(c, "failed") /\ UNCHANGED <<bankVars, helperVars, atRazorpay, boundVars, todo>>
    BY <1>3 DEF RegistrationThrows
  <2>2. AccountTypeOK'
    BY <1>1, <2>1, GotoKeepsCall DEF AccountTypeOK
  <2>3. CallsKnow'
    BY <1>1, <2>1, GotoKeepsCall DEF CallsKnow, At
  <2>4. (FundExists /\ FundIsThere /\ TodoKnows)'
    BY <2>1 DEF FundExists, FundIsThere, TodoKnows
  <2> QED
    BY <2>2, <2>3, <2>4
<1>4. ASSUME NEW h \in Helper, Register(c, h) PROVE IInv'
  <2>1. /\ Goto(c, "persist") /\ call[c].helper = h
        /\ atRazorpay' = [atRazorpay EXCEPT ![h] = @ \cup {call[c].detail}]
        /\ UNCHANGED <<bankVars, helperVars, boundVars, todo>>
    BY <1>4 DEF Register, At
  <2>2. /\ \A g \in Helper : atRazorpay[g] \subseteq atRazorpay'[g]
        /\ call[c].detail \in atRazorpay'[h]
    BY <2>1 DEF AccountTypeOK
  <2>3. atRazorpay' \in [Helper -> SUBSET Detail]
    BY <1>2, <2>1 DEF AccountTypeOK
  <2>4. AccountTypeOK'
    BY <1>1, <2>1, <2>3, GotoKeepsCall DEF AccountTypeOK
  <2>5. CallsKnow'
    BY <1>1, <2>1, <2>2, GotoKeepsCall DEF CallsKnow, At
  <2>6. (FundExists /\ FundIsThere /\ TodoKnows)'
    BY <2>1, <2>2 DEF FundExists, FundIsThere, TodoKnows
  <2> QED
    BY <2>4, <2>5, <2>6
<1>5. ASSUME NEW h \in Helper, Persist(c, h) PROVE IInv'
  <2>1. /\ Goto(c, "activate") /\ call[c].helper = h /\ call[c].detail \in atRazorpay[h]
        /\ fund' = [fund EXCEPT ![h] = call[c].detail]
        /\ verified' = [verified EXCEPT ![h] = TRUE]
        /\ UNCHANGED <<bank, helperVars, atRazorpay, boundVars, todo>>
    BY <1>5 DEF Persist, At, CallsKnow
  <2>2. \A g \in Helper : fund'[g] = IF g = h THEN call[c].detail ELSE fund[g]
    BY <2>1 DEF AccountTypeOK
  <2>3. \A g \in Helper : g # h => (verified'[g] <=> verified[g])
    BY <2>1 DEF AccountTypeOK
  <2>4. AccountTypeOK'
    BY <1>1, <1>2, <2>1, GotoKeepsCall DEF AccountTypeOK
  <2>5. fund'[h] # Nothing
    BY <1>2, <2>2, NothingAssumption
  <2>6. CallsKnow'
    BY <1>1, <2>1, <2>2, <2>5, GotoKeepsCall DEF CallsKnow, At
  <2>7. FundExists' /\ FundIsThere'
    BY <2>1, <2>2, <2>3, <2>5 DEF FundExists, FundIsThere
  <2>8. TodoKnows'
    BY <2>1, <2>2, <2>5 DEF TodoKnows, AccountTypeOK, Snapshot
  <2> QED
    BY <2>4, <2>6, <2>7, <2>8
<1> QED
  BY <1>3, <1>4, <1>5

\* The last step of a registration: the helper is enabled, or the failure is counted.
LEMMA EndKeeps ==
  ASSUME IInv, NEW c \in Caller, NEW h \in Helper, Activate(c, h) \/ SaveFailure(c, h)
  PROVE  IInv'
<1> USE DEF IInv, bankVars, helperVars, boundVars
<1>1. /\ Done(c) /\ UNCHANGED <<bankVars, atRazorpay, boundVars, todo>>
  BY DEF Activate, SaveFailure
<1>2. \A e \in Caller : call'[e] = IF e = c THEN Idle ELSE call[e]
  BY <1>1 DEF Done, AccountTypeOK
<1>3. call[c] \in Call
  BY DEF Activate, SaveFailure, At, AccountTypeOK, Idle
<1>4. call[c].retries \in 0 .. MAX_REGISTRATION_RETRIES - 1
  BY <1>3 DEF Call
<1>5. AccountTypeOK'
  <2>1. call' \in [Caller -> Call \cup {Idle}]
    BY <1>1 DEF Done, AccountTypeOK
  <2>2. CASE Activate(c, h)
    BY <1>1, <2>1, <2>2, AccountAssumption DEF Activate, AccountTypeOK
  <2>3. CASE SaveFailure(c, h)
    <3>1. RetriesAfter(c) \in 0 .. MAX_REGISTRATION_RETRIES
          /\ 0 \in 0 .. MAX_REGISTRATION_RETRIES
      BY <1>4, AccountAssumption DEF RetriesAfter
    <3>2. retries' \in [Helper -> 0 .. MAX_REGISTRATION_RETRIES]
      BY <2>3, <3>1 DEF SaveFailure, AccountTypeOK
    <3>3. setup' \in [Helper -> {"NOT_STARTED", "PENDING", "ACTIVE", "FAILED"}]
      <4>1. CASE call[c].job
        BY <2>3, <4>1 DEF SaveFailure, AccountTypeOK
      <4>2. CASE ~call[c].job
        BY <2>3, <4>2 DEF SaveFailure, AccountTypeOK
      <4> QED
        BY <4>1, <4>2
    <3>4. enabled' \in [Helper -> BOOLEAN]
      BY <2>3 DEF SaveFailure, AccountTypeOK
    <3> QED
      BY <1>1, <2>1, <2>3, <3>2, <3>3, <3>4 DEF SaveFailure, AccountTypeOK
  <2> QED
    BY <2>2, <2>3
<1>6. \A g \in Helper : enabled'[g] => enabled[g] \/ fund[g] # Nothing
  BY DEF Activate, SaveFailure, CallsKnow, AccountTypeOK
<1>7. (FundExists /\ FundIsThere /\ TodoKnows)'
  BY <1>1, <1>6 DEF FundExists, FundIsThere, TodoKnows
<1>8. CallsKnow'
  BY <1>1, <1>2 DEF CallsKnow, At, Idle
<1> QED
  BY <1>5, <1>7, <1>8

\* A restart forgets what was in flight.
LEMMA RestartKeeps == IInv /\ Restart => IInv'
  BY AccountAssumption
  DEF Restart, IInv, AccountTypeOK, FundExists, FundIsThere, CallsKnow, TodoKnows, At, Idle,
      bankVars, helperVars

\* Every step keeps IInv.
LEMMA NextIInv == IInv /\ [Next]_vars => IInv'
<1> SUFFICES ASSUME IInv, [Next]_vars PROVE IInv'
  OBVIOUS
<1>1. CASE UNCHANGED vars
  BY <1>1
  DEF vars, bankVars, helperVars, boundVars, IInv, AccountTypeOK, FundExists, FundIsThere,
      CallsKnow, TodoKnows, At
<1> QED
  BY <1>1, SubmitKeeps, RetryKeeps, RegistrationKeeps, EndKeeps, RestartKeeps DEF Next, Proceed

\* IInv holds in every reachable state.
LEMMA Invariance == Spec => []IInv
  BY InitIInv, NextIInv, PTL DEF Spec

\* The rows and the calls in flight keep their types.
THEOREM AccountTypeCorrect == Spec => []AccountTypeOK
  BY Invariance, PTL DEF IInv

\* Whoever may be paid has a fund account that exists at RazorpayX.
THEOREM PayableIsFunded == Spec => []PayableHasFundAccount
<1>1. IInv => PayableHasFundAccount
  BY DEF IInv, FundExists, FundIsThere, PayableHasFundAccount
<1> QED
  BY Invariance, <1>1, PTL
=============================================================================
