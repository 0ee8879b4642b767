------------------------------ MODULE AccessProofs ------------------------------
(***************************************************************************)
(* Proofs about the six ways in and, at the end, about all of them        *)
(* together: for any sets of people, any number of requests in flight and  *)
(* any bounds that MCAccess allows.                                        *)
(***************************************************************************)
EXTENDS MCAccess, TLAPS, FiniteSetTheorems, NaturalsInduction

-----------------------------------------------------------------------------
(***************************************************************************)
(* StartOtp.  That a code starts the job once rests on what TypeOK does    *)
(* not say: the code of now was never used, and neither was any that is    *)
(* yet to come.                                                            *)
(***************************************************************************)

\* The code of now is one of those generated, and a code that has started the job is
\* an earlier one.
CodesAreSpent ==
  \A b \in Booking :
    /\ startOtp[b] <= generated[b]
    /\ \A n \in Code : started[b][n] # 0 => n \in 1 .. generated[b] /\ n # startOtp[b]

\* A call that found its code right has read one: null is not a code.
RightIsACode ==
  \A c \in Caller : call[c] # Idle /\ call[c].stage = "right" => call[c].code # 0

IInv == TypeOK /\ CodesAreSpent /\ RightIsACode

\* The capture generates the first code.
LEMMA InitIInv == Init => IInv
  BY OtpAssumption DEF Init, IInv, TypeOK, CodesAreSpent, RightIsACode, Code, Call, Idle

\* The right code is spent in the step that starts the job.
LEMMA RightKeeps ==
  ASSUME IInv, NEW c \in Caller, NEW b \in Booking, VerifyRight(c, b)
  PROVE  IInv' /\ Contract!Accept(b)
<1> USE DEF IInv
<1> DEFINE n == call[c].code
<1>1. call[c] \in Call /\ n \in Code /\ n # 0
  BY DEF VerifyRight, At, TypeOK, Idle, Call, RightIsACode
<1>2. /\ startOtp[b] = n /\ status' = [status EXCEPT ![b] = "IN_PROGRESS"]
      /\ startOtp' = [startOtp EXCEPT ![b] = 0]
      /\ otpAttempts' = [otpAttempts EXCEPT ![b] = 0]
      /\ started' = [started EXCEPT ![b][n] = @ + 1]
      /\ call' = [call EXCEPT ![c] = Idle]
      /\ UNCHANGED <<generated, expired>>
  BY DEF VerifyRight, StillThatCode, Done
<1>3. started[b][n] = 0
  BY <1>1, <1>2 DEF CodesAreSpent, TypeOK
<1>4. started' = [started EXCEPT ![b][n] = 1]
  BY <1>2, <1>3
<1>5. TypeOK'
  <2>1. started' \in [Booking -> [Code -> Nat]]
    <3>1. started[b] \in [Code -> Nat]
      BY DEF TypeOK
    <3>2. [started[b] EXCEPT ![n] = 1] \in [Code -> Nat]
      BY <3>1
    <3>3. started' = [started EXCEPT ![b] = [started[b] EXCEPT ![n] = 1]]
      BY <1>4
    <3> QED
      BY <3>2, <3>3 DEF TypeOK
  <2>2. 0 \in Code
    BY OtpAssumption DEF Code
  <2>3. /\ status' \in [Booking -> {"CONFIRMED", "IN_PROGRESS", "closed"}]
        /\ startOtp' \in [Booking -> Code] /\ otpAttempts' \in [Booking -> Nat]
    BY <1>2, <2>2 DEF TypeOK
  <2>4. call' \in [Caller -> Call \cup {Idle}]
    BY <1>2 DEF TypeOK
  <2> QED
    BY <1>2, <2>1, <2>3, <2>4 DEF TypeOK
<1>6. CodesAreSpent'
  <2>1. \A d \in Booking \ {b} : started'[d] = started[d] /\ startOtp'[d] = startOtp[d]
    BY <1>2, <1>4 DEF TypeOK
  <2>2. \A m \in Code : started'[b][m] = IF m = n THEN 1 ELSE started[b][m]
    BY <1>1, <1>4 DEF TypeOK
  <2>3. n <= generated[b] /\ startOtp'[b] = 0
    BY <1>2 DEF CodesAreSpent, TypeOK
  <2>4. n \in 1 .. generated[b] /\ n # startOtp'[b]
    BY <1>1, <2>3 DEF Code, TypeOK
  <2>5. \A m \in Code : started[b][m] # 0 => m \in 1 .. generated[b] /\ m # 0
    BY OtpAssumption DEF CodesAreSpent, TypeOK, Code
  <2>6. startOtp'[b] <= generated'[b]
    BY <1>2, <2>3, OtpAssumption DEF TypeOK, Code
  <2>7. \A m \in Code : started'[b][m] # 0 => m \in 1 .. generated'[b] /\ m # startOtp'[b]
    BY <1>2, <2>2, <2>3, <2>4, <2>5
  <2>8. ASSUME NEW d \in Booking \ {b}
        PROVE  /\ startOtp'[d] <= generated'[d]
               /\ \A m \in Code :
                    started'[d][m] # 0 => m \in 1 .. generated'[d] /\ m # startOtp'[d]
    BY <1>2, <2>1 DEF CodesAreSpent
  <2> QED
    BY <2>6, <2>7, <2>8 DEF CodesAreSpent
<1>7. RightIsACode'
  BY <1>2 DEF RightIsACode, TypeOK
<1>8. Contract!Accept(b)
  BY <1>1, <1>2, <1>3, <1>4 DEF Contract!Accept
<1> QED
  BY <1>5, <1>6, <1>7, <1>8

\* A wrong code counts below the limit only.
LEMMA WrongKeeps ==
  ASSUME IInv, NEW c \in Caller, NEW b \in Booking, VerifyWrong(c, b)
  PROVE  IInv' /\ Contract!Refuse(b)
<1> USE DEF IInv, VerifyWrong, Done
<1>1. TypeOK'
  BY DEF TypeOK
<1>2. CodesAreSpent' /\ RightIsACode'
  BY DEF CodesAreSpent, RightIsACode, TypeOK
<1>3. Contract!Refuse(b)
  BY DEF Contract!Refuse, BelowCap
<1> QED
  BY <1>1, <1>2, <1>3

\* A new code is one that was never used.
LEMMA RegenerateKeeps ==
  ASSUME IInv, NEW c \in Caller, NEW b \in Booking, RegenerateWrite(c, b)
  PROVE  IInv' /\ Contract!Issue(b)
<1> USE DEF IInv, RegenerateWrite, Done
<1>1. generated[b] + 1 \in Code
  BY OtpAssumption DEF TypeOK, Code
<1>2. TypeOK'
  BY <1>1 DEF TypeOK
<1>3. CodesAreSpent'
  <2>1. \A d \in Booking \ {b} : startOtp'[d] = startOtp[d] /\ generated'[d] = generated[d]
    BY DEF TypeOK
  <2>2. startOtp'[b] = generated[b] + 1 /\ generated'[b] = generated[b] + 1
    BY DEF TypeOK
  <2>3. generated[b] \in Nat
    BY DEF TypeOK, Code
  <2>4. ASSUME NEW n \in Code, started'[b][n] # 0
        PROVE  n \in 1 .. generated'[b] /\ n # startOtp'[b]
    <3>1. n \in 1 .. generated[b]
      BY <2>4 DEF CodesAreSpent
    <3> QED
      BY <2>2, <2>3, <3>1
  <2> QED
    BY <2>1, <2>2, <2>3, <2>4 DEF CodesAreSpent
<1>4. RightIsACode'
  BY DEF RightIsACode, TypeOK
<1>5. Contract!Issue(b)
  BY DEF Contract!Issue
<1> QED
  BY <1>2, <1>3, <1>4, <1>5

\* Every other step leaves the code, its attempts and its uses alone.
LEMMA RestKeeps ==
  ASSUME IInv,
         \/ \E c \in Caller, b \in Booking :
              RegenerateRead(c, b) \/ \E n \in Code : VerifyRead(c, b, n)
         \/ \E b \in Booking : TimePasses(b) \/ BookingCloses(b)
         \/ \E c \in Caller : CallDies(c)
  PROVE  IInv' /\ UNCHANGED <<startOtp, generated, otpAttempts, started>>
<1> USE DEF IInv
<1>1. ASSUME NEW c \in Caller, NEW b \in Booking, NEW n \in Code, VerifyRead(c, b, n)
      PROVE  IInv' /\ UNCHANGED <<startOtp, generated, otpAttempts, started>>
  BY <1>1 DEF VerifyRead, Begin, TypeOK, CodesAreSpent, RightIsACode, Call, rowVars, Idle
<1>2. ASSUME NEW c \in Caller, NEW b \in Booking, RegenerateRead(c, b)
      PROVE  IInv' /\ UNCHANGED <<startOtp, generated, otpAttempts, started>>
  <2>1. 0 \in Code
    BY OtpAssumption DEF Code
  <2> QED
    BY <1>2, <2>1
    DEF RegenerateRead, Begin, TypeOK, CodesAreSpent, RightIsACode, Call, rowVars, Idle
<1>3. ASSUME NEW b \in Booking, TimePasses(b) \/ BookingCloses(b)
      PROVE  IInv' /\ UNCHANGED <<startOtp, generated, otpAttempts, started>>
  BY <1>3 DEF TimePasses, BookingCloses, TypeOK, CodesAreSpent, RightIsACode
<1>4. ASSUME NEW c \in Caller, CallDies(c)
      PROVE  IInv' /\ UNCHANGED <<startOtp, generated, otpAttempts, started>>
  BY <1>4 DEF CallDies, Done, TypeOK, CodesAreSpent, RightIsACode, rowVars
<1> QED
  BY <1>1, <1>2, <1>3, <1>4

\* Every step keeps IInv and is a step of the contract, or changes nothing it sees.
LEMMA NextKeepsAndImplements ==
  IInv /\ [Next]_vars => IInv' /\ [Contract!Next]_(Contract!vars)
<1> SUFFICES ASSUME IInv, [Next]_vars PROVE IInv' /\ [Contract!Next]_(Contract!vars)
  OBVIOUS
<1>1. CASE UNCHANGED vars
  BY <1>1
  DEF vars, rowVars, IInv, TypeOK, CodesAreSpent, RightIsACode, Contract!vars
<1>2. ASSUME NEW c \in Caller, NEW b \in Booking,
             VerifyWrong(c, b) \/ VerifyRight(c, b) \/ RegenerateWrite(c, b)
      PROVE  IInv' /\ [Contract!Next]_(Contract!vars)
  BY <1>2, WrongKeeps, RightKeeps, RegenerateKeeps DEF Contract!Next
<1> QED
  BY <1>1, <1>2, RestKeeps DEF Next, StartBookingWithOtp, RegenerateOtp, Contract!vars

\* However attempts, the right code and a new code overtake each other, the code by
\* which a job is started is a one-time code with a bounded number of attempts.
THEOREM StartCodeIsOneTime == Spec => ImplementsOneTimeCode
<1>1. Init => Contract!Init
  BY DEF Init, Contract!Init
<1> QED
  BY <1>1, InitIInv, NextKeepsAndImplements, PTL DEF Spec, ImplementsOneTimeCode, Contract!Spec

\* The row and the calls in flight keep their types.
LEMMA StartKeepsTypes == Spec => []TypeOK
<1>1. IInv => TypeOK
  BY DEF IInv
<1> QED
  BY <1>1, InitIInv, NextKeepsAndImplements, PTL DEF Spec

-----------------------------------------------------------------------------
(***************************************************************************)
(* Onboarding.  What a KYC submission has read may be out of date when it  *)
(* writes: SubmissionsKnow says by how much.                               *)
(***************************************************************************)

\* A submission began while the helper was not approved: if he is by now, he was
\* approved since.
SubmissionsKnow ==
  \A c \in Pair, h \in Helper :
    Kyc!At(c, "kyc", h) \/ Kyc!At(c, "status", h) =>
      /\ kycCall[c].approvals <= approvals[h]
      /\ standing[h] = "APPROVED" => kycCall[c].approvals < approvals[h]

KycInv == Kyc!OnboardingTypeOK /\ Kyc!OneHelperPerPan /\ SubmissionsKnow

\* Nobody has submitted anything.
LEMMA KycInit == Kyc!OnboardingAssumption /\ Kyc!Init => KycInv
  BY DEF Kyc!OnboardingAssumption, Kyc!Init, KycInv, Kyc!OnboardingTypeOK, Kyc!OneHelperPerPan,
         SubmissionsKnow, Kyc!At, Kyc!Idle, Kyc!Status

\* A request begins with what the rows say now.
LEMMA KycBeginKeeps ==
  ASSUME Kyc!OnboardingAssumption, KycInv, NEW c \in Pair, NEW h \in Helper,
         NEW p \in Pan \cup {NoPan}, NEW stage \in {"kyc", "upload", "approve"},
         stage = "kyc" => standing[h] # "APPROVED", Kyc!Begin(c, stage, h, p),
         UNCHANGED <<standing, Kyc!kycVars, Kyc!userVars, approvals>>
  PROVE  KycInv'
<1> USE DEF KycInv, Kyc!Begin
<1>1. Kyc!OnboardingTypeOK'
  BY DEF Kyc!OnboardingTypeOK, Kyc!Call, Kyc!kycVars, Kyc!userVars
<1>2. Kyc!OneHelperPerPan'
  BY DEF Kyc!OneHelperPerPan, Kyc!kycVars
<1>3. SubmissionsKnow'
  BY DEF SubmissionsKnow, Kyc!OnboardingTypeOK, Kyc!At
<1> QED
  BY <1>1, <1>2, <1>3

\* A submission writes the number, if no other helper has it, and then the status.
LEMMA KycSubmissionKeeps ==
  ASSUME Kyc!OnboardingAssumption, KycInv, NEW c \in Pair, NEW h \in Helper,
         Kyc!KycSave(c, h) \/ Kyc!KycStatus(c, h)
  PROVE  KycInv'
<1> USE DEF KycInv
<1>1. kycCall[c] \in Kyc!Call
  BY DEF Kyc!KycSave, Kyc!KycStatus, Kyc!At, Kyc!OnboardingTypeOK, Kyc!Idle
<1>2. CASE Kyc!KycSave(c, h)
  <2>1. kycCall[c].pan \in Pan \cup {NoPan}
    BY <1>1 DEF Kyc!Call
  <2>2. Kyc!OneHelperPerPan'
    BY <1>2, <2>1 DEF Kyc!KycSave, Kyc!OneHelperPerPan, Kyc!PanIsFree, Kyc!OnboardingTypeOK
  <2>3. \/ kycCall' = [kycCall EXCEPT ![c].stage = "status"]
        \/ kycCall' = [kycCall EXCEPT ![c] = Kyc!Idle]
    BY <1>2 DEF Kyc!KycSave, Kyc!Done
  <2>4. \A d \in Pair \ {c} : kycCall'[d] = kycCall[d]
    BY <2>3 DEF Kyc!OnboardingTypeOK
  <2>5. \/ kycCall'[c] = Kyc!Idle
        \/ /\ kycCall'[c] \in Kyc!Call /\ kycCall'[c].helper = h
           /\ kycCall'[c].approvals = kycCall[c].approvals
    BY <1>1, <1>2, <2>3 DEF Kyc!OnboardingTypeOK, Kyc!Call, Kyc!KycSave, Kyc!At
  <2>6. Kyc!OnboardingTypeOK'
    <3>1. kycCall' \in [Pair -> Kyc!Call \cup {Kyc!Idle}]
      BY <2>3, <2>4, <2>5 DEF Kyc!OnboardingTypeOK
    <3> QED
      BY <1>2, <2>1, <3>1 DEF Kyc!KycSave, Kyc!OnboardingTypeOK, Kyc!userVars
  <2>7. SubmissionsKnow'
    BY <1>2, <2>4, <2>5 DEF SubmissionsKnow, Kyc!KycSave, Kyc!At, Kyc!Idle
  <2> QED
    BY <2>2, <2>6, <2>7
<1>3. CASE Kyc!KycStatus(c, h)
  <2>1. Kyc!OnboardingTypeOK'
    BY <1>3
    DEF Kyc!KycStatus, Kyc!Done, Kyc!OnboardingTypeOK, Kyc!kycVars, Kyc!userVars, Kyc!Status
  <2>2. Kyc!OneHelperPerPan'
    BY <1>3 DEF Kyc!KycStatus, Kyc!OneHelperPerPan, Kyc!kycVars
  <2>3. SubmissionsKnow'
    BY <1>3 DEF Kyc!KycStatus, Kyc!Done, SubmissionsKnow, Kyc!OnboardingTypeOK, Kyc!At, Kyc!Idle
  <2> QED
    BY <2>1, <2>2, <2>3
<1> QED
  BY <1>2, <1>3

\* An approval is one more than any submission in flight knows of.
LEMMA KycApproveKeeps ==
  ASSUME Kyc!OnboardingAssumption, KycInv, NEW c \in Pair, NEW h \in Helper, Kyc!Approve(c, h)
  PROVE  KycInv'
<1> USE DEF KycInv, Kyc!Approve, Kyc!Done
<1>1. Kyc!OnboardingTypeOK'
  BY DEF Kyc!OnboardingAssumption, Kyc!OnboardingTypeOK, Kyc!VerifiedWith, Kyc!Status
<1>2. Kyc!OneHelperPerPan'
  BY DEF Kyc!OneHelperPerPan
<1>3. SubmissionsKnow'
  <2>1. \A g \in Helper : /\ g # h => approvals'[g] = approvals[g] /\ standing'[g] = standing[g]
                          /\ g = h => approvals'[g] = approvals[g] + 1
    BY DEF Kyc!OnboardingTypeOK
  <2>2. \A d \in Pair : kycCall'[d] = IF d = c THEN Kyc!Idle ELSE kycCall[d]
    BY DEF Kyc!OnboardingTypeOK
  <2>3. \A d \in Pair : kycCall[d] # Kyc!Idle => kycCall[d].approvals \in Nat
    BY DEF Kyc!OnboardingTypeOK, Kyc!OnboardingAssumption, Kyc!Call
  <2>4. \A g \in Helper : approvals[g] \in Nat
    BY DEF Kyc!OnboardingTypeOK, Kyc!OnboardingAssumption
  <2> QED
    BY <2>1, <2>2, <2>3, <2>4 DEF SubmissionsKnow, Kyc!At, Kyc!Idle
<1> QED
  BY <1>1, <1>2, <1>3

\* The other steps write neither a number nor an approval.
LEMMA KycRestKeeps ==
  ASSUME Kyc!OnboardingAssumption, KycInv,
         \/ \E c \in Pair, h \in Helper : Kyc!UploadSave(c, h) \/ Kyc!UploadPoliceDoc(c, h)
         \/ \E c \in Pair : Kyc!CallDies(c)
         \/ \E h \in Helper :
              \/ Kyc!Reject(h) \/ Kyc!Activate(h) \/ Kyc!Deactivate(h) \/ Kyc!Block(h)
              \/ Kyc!RegisterCustomer(h)
         \/ UNCHANGED Kyc!vars
  PROVE  KycInv'
<1> USE DEF KycInv
<1>1. UNCHANGED <<pan, approvals>>
  BY DEF Kyc!UploadSave, Kyc!UploadPoliceDoc, Kyc!CallDies, Kyc!Reject, Kyc!Activate,
         Kyc!Deactivate, Kyc!Block, Kyc!RegisterCustomer, Kyc!vars, Kyc!kycVars
<1>2. \A h \in Helper : standing'[h] = "APPROVED" => standing[h] = "APPROVED"
  BY DEF Kyc!UploadSave, Kyc!UploadPoliceDoc, Kyc!CallDies, Kyc!Reject, Kyc!Activate,
         Kyc!Deactivate, Kyc!Block, Kyc!RegisterCustomer, Kyc!vars, Kyc!OnboardingTypeOK
<1>3. \A d \in Pair : kycCall'[d] = kycCall[d] \/ kycCall'[d] = Kyc!Idle
  BY DEF Kyc!UploadSave, Kyc!UploadPoliceDoc, Kyc!CallDies, Kyc!Done, Kyc!Reject, Kyc!Activate,
         Kyc!Deactivate, Kyc!Block, Kyc!RegisterCustomer, Kyc!vars, Kyc!OnboardingTypeOK
<1>4. Kyc!OneHelperPerPan'
  BY <1>1 DEF Kyc!OneHelperPerPan
<1>5. SubmissionsKnow'
  BY <1>1, <1>2, <1>3 DEF SubmissionsKnow, Kyc!At, Kyc!Idle
<1>6. Kyc!OnboardingTypeOK'
  BY DEF Kyc!UploadSave, Kyc!UploadPoliceDoc, Kyc!CallDies, Kyc!Done, Kyc!Reject, Kyc!Activate,
         Kyc!Deactivate, Kyc!Block, Kyc!RegisterCustomer, Kyc!vars, Kyc!kycVars, Kyc!userVars,
         Kyc!OnboardingTypeOK, Kyc!Status
<1> QED
  BY <1>4, <1>5, <1>6

\* Every step keeps KycInv.
LEMMA KycNext == Kyc!OnboardingAssumption /\ KycInv /\ [Kyc!Next]_(Kyc!vars) => KycInv'
<1> SUFFICES ASSUME Kyc!OnboardingAssumption, KycInv, [Kyc!Next]_(Kyc!vars) PROVE KycInv'
  OBVIOUS
<1>1. ASSUME NEW c \in Pair, NEW h \in Helper,
             \/ \E p \in Pan : Kyc!KycRead(c, h, p)
             \/ Kyc!UploadRead(c, h) \/ Kyc!ApproveRead(c, h)
      PROVE  KycInv'
  BY <1>1, KycBeginKeeps DEF Kyc!KycRead, Kyc!UploadRead, Kyc!ApproveRead
<1> QED
  BY <1>1, KycSubmissionKeeps, KycApproveKeeps, KycRestKeeps DEF Kyc!Next

\* KycInv holds in every reachable state.
LEMMA KycInvariance == Kyc!Spec => []KycInv
<1>1. Kyc!Init => KycInv
  BY KycInit, KycHolds
<1>2. KycInv /\ [Kyc!Next]_(Kyc!vars) => KycInv'
  BY KycNext, KycHolds
<1> QED
  BY <1>1, <1>2, PTL DEF Kyc!Spec

\* The rows and the calls in flight keep their types, and two helpers never get by with
\* one PAN.
THEOREM PansAreUnique == Kyc!Spec => [](Kyc!OnboardingTypeOK /\ OneHelperPerPan)
<1>1. KycInv => Kyc!OnboardingTypeOK /\ OneHelperPerPan
  BY DEF KycInv, OneHelperPerPan
<1> QED
  BY KycInvariance, <1>1, PTL

\* Only a submission that began before the approval takes it back.
THEOREM ApprovalLasts == Kyc!Spec => ApprovalOutlastsLaterCalls
<1>1. KycInv /\ [Kyc!Next]_(Kyc!vars) =>
        [\A h \in Helper :
           standing[h] = "APPROVED" /\ standing'[h] = "PENDING_APPROVAL" =>
             \E c \in Pair : Kyc!At(c, "status", h)
                               /\ kycCall[c].approvals < approvals[h]]_(Kyc!vars)
  <2> SUFFICES ASSUME KycInv, Kyc!Next, NEW h \in Helper,
                      standing[h] = "APPROVED", standing'[h] = "PENDING_APPROVAL"
               PROVE  \E c \in Pair : Kyc!At(c, "status", h) /\ kycCall[c].approvals < approvals[h]
    OBVIOUS
  <2>1. PICK c \in Pair : Kyc!KycStatus(c, h)
    BY DEF Kyc!Next, Kyc!KycRead, Kyc!KycSave, Kyc!KycStatus, Kyc!UploadRead, Kyc!UploadSave,
           Kyc!UploadPoliceDoc, Kyc!ApproveRead, Kyc!Approve, Kyc!Reject, Kyc!Activate,
           Kyc!Deactivate, Kyc!Block, Kyc!RegisterCustomer, Kyc!CallDies, Kyc!Begin, KycInv,
           Kyc!OnboardingTypeOK
  <2> QED
    BY <2>1 DEF Kyc!KycStatus, KycInv, SubmissionsKnow
<1> QED
  BY KycInvariance, <1>1, PTL
  DEF Kyc!Spec, ApprovalOutlastsLaterCalls, Kyc!ApprovalOutlastsLaterCalls

-----------------------------------------------------------------------------
(***************************************************************************)
(* Sessions.  A refresh takes away the row it has read before it adds      *)
(* another, and the id of a row is never given again: so of two refreshes  *)
(* of one row only one goes on.                                            *)
(***************************************************************************)

\* What the modules below count with is the Cardinality of FiniteSets.
LEMMA SessionCounts ==
  \A S : Session!Cardinality(S) = Cardinality(S) /\ (Session!IsFiniteSet(S) <=> IsFiniteSet(S))
  BY DEF Session!Cardinality, Cardinality, Session!IsFiniteSet, IsFiniteSet

\* The ids of the rows are those given so far, and no two rows have one.
IdsAreUnique ==
  /\ IsFiniteSet(rows)
  /\ \A r \in rows : r.id \in 1 .. created
  /\ \A r, q \in rows : r.id = q.id => r = q

\* A refresh takes away a row of its own user, and what is stored is one token of the
\* user who asked for it.
CallsAreOwn ==
  \A c \in Pair :
    /\ Session!At(c, "delete") =>
         /\ sessionCall[c].id <= created
         /\ \A r \in rows : r.id = sessionCall[c].id => r.token.user = sessionCall[c].user
    /\ Session!At(c, "store") \/ Session!At(c, "rotate") =>
         \E t \in Session!Token :
           sessionCall[c].made = {t} /\ t.user = sessionCall[c].user

RowsOf(u) == {r \in rows : r.token.user = u}
Rotating(u) == {c \in Pair : Session!At(c, "rotate") /\ sessionCall[c].user = u}

SessionInv == Session!TypeOK /\ IdsAreUnique /\ CallsAreOwn /\ SessionsComeFromLogins

\* The property in terms of the two sets.
LEMMA SessionsCounted ==
  SessionsComeFromLogins <=>
    \A u \in User : Cardinality(RowsOf(u)) + Cardinality(Rotating(u)) <= logins[u]
  BY SessionCounts
  DEF SessionsComeFromLogins, Session!SessionsComeFromLogins, RowsOf, Rotating

\* There are finitely many of each.
LEMMA SessionsFinite ==
  ASSUME Session!SessionAssumption, IsFiniteSet(rows), NEW u
  PROVE  /\ IsFiniteSet(RowsOf(u)) /\ IsFiniteSet(Rotating(u))
         /\ Cardinality(RowsOf(u)) \in Nat /\ Cardinality(Rotating(u)) \in Nat
<1>1. IsFiniteSet(Pair)
  BY SessionCounts DEF Session!SessionAssumption
<1>2. RowsOf(u) \subseteq rows /\ Rotating(u) \subseteq Pair
  BY DEF RowsOf, Rotating
<1>3. IsFiniteSet(RowsOf(u)) /\ IsFiniteSet(Rotating(u))
  BY <1>1, <1>2, FS_Subset
<1> QED
  BY <1>3, FS_CardinalityType

\* A step that adds neither a row nor a rotation keeps the count.
LEMMA SessionsShrink ==
  ASSUME Session!SessionAssumption, IsFiniteSet(rows), SessionsComeFromLogins,
         Session!TypeOK, UNCHANGED logins,
         rows' \subseteq rows,
         \A c \in Pair : Session!At(c, "rotate")' =>
           Session!At(c, "rotate") /\ sessionCall'[c].user = sessionCall[c].user
  PROVE  SessionsComeFromLogins'
<1> SUFFICES ASSUME NEW u \in User
             PROVE  Cardinality(RowsOf(u)') + Cardinality(Rotating(u)') <= logins'[u]
  BY SessionCounts
  DEF SessionsComeFromLogins, Session!SessionsComeFromLogins, RowsOf, Rotating
<1> DEFINE A == RowsOf(u)
           B == Rotating(u)
           A2 == RowsOf(u)'
           B2 == Rotating(u)'
<1>1. A2 \subseteq A /\ B2 \subseteq B
  BY DEF RowsOf, Rotating
<1>2. /\ IsFiniteSet(A) /\ IsFiniteSet(B)
      /\ Cardinality(A) \in Nat /\ Cardinality(B) \in Nat
  BY SessionsFinite
<1>3. Cardinality(A) + Cardinality(B) <= logins[u]
  BY SessionsCounted
<1> HIDE DEF A, B, A2, B2
<1>4. /\ Cardinality(A2) \in Nat /\ Cardinality(A2) <= Cardinality(A)
      /\ Cardinality(B2) \in Nat /\ Cardinality(B2) <= Cardinality(B)
  BY <1>1, <1>2, FS_Subset, FS_CardinalityType
<1>5. logins[u] \in Nat
  BY DEF Session!TypeOK
<1>6. Cardinality(A2) + Cardinality(B2) <= logins[u]
  BY <1>2, <1>3, <1>4, <1>5
<1> QED
  BY <1>6 DEF A2, B2

\* A row that is created is a new one.
LEMMA RowIsAdded ==
  ASSUME IdsAreUnique, Session!TypeOK, Session!SessionAssumption, NEW t \in Session!Token,
         Session!CreateRow(t)
  PROVE  /\ IdsAreUnique'
         /\ rows' \in SUBSET [token : Session!Token, id : 1 .. MaxRows]
         /\ created' \in 0 .. MaxRows /\ created <= created'
         /\ \A r \in rows' : r.id <= created => r \in rows
         /\ \A u : Cardinality(RowsOf(u)') =
                     Cardinality(RowsOf(u)) + (IF t.user = u THEN 1 ELSE 0)
<1> USE DEF Session!CreateRow
<1> DEFINE new == [token |-> t, id |-> created + 1]
<1>1. created \in Nat /\ MaxRows \in Nat
  BY DEF Session!TypeOK, Session!SessionAssumption
<1>2. new \notin rows /\ rows' = rows \cup {new} /\ new.id = created + 1 /\ new.token = t
  BY <1>1 DEF IdsAreUnique
<1>3. IsFiniteSet(rows')
  BY <1>2, FS_AddElement DEF IdsAreUnique
<1>4. created' = created + 1 /\ created < MaxRows
  OBVIOUS
<1>5. IdsAreUnique'
  BY <1>1, <1>2, <1>3, <1>4 DEF IdsAreUnique
<1>6. rows' \in SUBSET [token : Session!Token, id : 1 .. MaxRows]
  <2>1. new \in [token : Session!Token, id : 1 .. MaxRows]
    BY <1>1
  <2> QED
    BY <1>2, <2>1 DEF Session!TypeOK
<1>7. \A r \in rows' : r.id <= created => r \in rows
  BY <1>1, <1>2
<1>8. ASSUME NEW u
      PROVE  Cardinality(RowsOf(u)') = Cardinality(RowsOf(u)) + (IF t.user = u THEN 1 ELSE 0)
  <2> DEFINE A == RowsOf(u)
             A2 == RowsOf(u)'
  <2>1. IsFiniteSet(A)
    BY SessionsFinite DEF IdsAreUnique
  <2>2. A2 = IF t.user = u THEN A \cup {new} ELSE A
    BY <1>2 DEF RowsOf
  <2>3. new \notin A
    BY <1>2 DEF RowsOf
  <2>4. Cardinality(A) \in Nat
    BY <2>1, FS_CardinalityType
  <2> HIDE DEF A, A2, new
  <2>5. Cardinality(A2) = Cardinality(A) + (IF t.user = u THEN 1 ELSE 0)
    <3>1. CASE t.user = u
      BY <2>1, <2>2, <2>3, <3>1, FS_AddElement
    <3>2. CASE t.user # u
      BY <2>2, <2>4, <3>2
    <3> QED
      BY <3>1, <3>2
  <2> QED
    BY <2>5 DEF A, A2
<1> QED
  BY <1>1, <1>4, <1>5, <1>6, <1>7, <1>8

\* Nobody has logged in.
LEMMA SessionInit == Session!SessionAssumption /\ Session!Init => SessionInv
<1> SUFFICES ASSUME Session!SessionAssumption, Session!Init PROVE SessionInv
  OBVIOUS
<1>1. Session!TypeOK
  BY DEF Session!SessionAssumption, Session!Init, Session!TypeOK, Session!Role
<1>2. IdsAreUnique
  BY FS_EmptySet DEF Session!Init, IdsAreUnique
<1>3. CallsAreOwn
  BY DEF Session!Init, CallsAreOwn, Session!At, Session!Idle
<1>4. \A u \in User : RowsOf(u) = {} /\ Rotating(u) = {} /\ logins[u] = 0
  BY DEF Session!Init, RowsOf, Rotating, Session!At, Session!Idle
<1>5. SessionsComeFromLogins
  BY <1>4, SessionsCounted, FS_EmptySet
<1> QED
  BY <1>1, <1>2, <1>3, <1>5 DEF SessionInv

\* A call that is under way, by its stage.
LEMMA SessionCall ==
  ASSUME Session!TypeOK, NEW c \in Pair, sessionCall[c] # Session!Idle
  PROVE  /\ sessionCall[c] \in Session!Call
         /\ sessionCall[c].user \in User /\ sessionCall[c].seen \in Session!Role
         /\ sessionCall[c].made \in SUBSET Session!Token
         /\ sessionCall[c].stage \in {"user", "helper", "sign", "store"} =>
              sessionCall[c] \in [stage : {"user", "helper", "sign", "store"}, user : User,
                                  flow : {"customer", "helper"}, seen : Session!Role,
                                  made : SUBSET Session!Token]
         /\ sessionCall[c].stage \in {"delete", "rotate", "blacklist", "logout"} =>
              sessionCall[c] \in [stage : {"delete", "rotate", "blacklist", "logout"},
                                  user : User, used : Session!Token, id : Nat,
                                  seen : Session!Role, made : SUBSET Session!Token]
<1>1. sessionCall[c] \in Session!Call
  BY DEF Session!TypeOK
<1> QED
  BY <1>1 DEF Session!Call

\* A call that ends, or begins or goes on without a token of its own.
LEMMA SessionKeeps ==
  ASSUME Session!SessionAssumption, SessionInv, NEW c \in Pair,
         NEW k \in Session!Call \cup {Session!Idle},
         sessionCall' = [sessionCall EXCEPT ![c] = k],
         k.stage \in {"idle", "user", "helper", "sign", "blacklist", "logout"},
         UNCHANGED <<logins, created, adminPhone, now>>,
         rows' \subseteq rows,
         role' \in [User -> Session!Role], helper' \in SUBSET User,
         blacklist' \in SUBSET Session!Token, issued' \in SUBSET Session!Token
  PROVE  SessionInv'
<1>1. \A d \in Pair : sessionCall'[d] = IF d = c THEN k ELSE sessionCall[d]
  BY DEF SessionInv, Session!TypeOK
<1>2. Session!TypeOK'
  BY DEF SessionInv, Session!TypeOK
<1>3. IdsAreUnique'
  BY FS_Subset DEF SessionInv, IdsAreUnique
<1>4. CallsAreOwn'
  <2> SUFFICES ASSUME NEW d \in Pair
               PROVE  /\ Session!At(d, "delete")' =>
                           /\ sessionCall'[d].id <= created'
                           /\ \A r \in rows' : r.id = sessionCall'[d].id =>
                                r.token.user = sessionCall'[d].user
                      /\ Session!At(d, "store")' \/ Session!At(d, "rotate")' =>
                           \E t \in Session!Token :
                             sessionCall'[d].made = {t} /\ t.user = sessionCall'[d].user
    BY DEF CallsAreOwn
  <2>1. CASE d = c
    BY <1>1, <2>1 DEF Session!At
  <2>2. CASE d # c
    BY <1>1, <2>2 DEF Session!At, SessionInv, CallsAreOwn
  <2> QED
    BY <2>1, <2>2
<1>5. SessionsComeFromLogins'
  <2>1. \A d \in Pair : Session!At(d, "rotate")' =>
          Session!At(d, "rotate") /\ sessionCall'[d].user = sessionCall[d].user
    BY <1>1 DEF Session!At
  <2> QED
    BY <2>1, SessionsShrink DEF SessionInv, IdsAreUnique
<1> QED
  BY <1>2, <1>3, <1>4, <1>5 DEF SessionInv

\* The login up to the signing, and what ends a call, add no session.
LEMMA SessionPlainKeeps ==
  ASSUME Session!SessionAssumption, SessionInv, NEW c \in Pair,
         \/ \E u \in User, flow \in {"customer", "helper"} : Session!LoginRead(c, u, flow)
         \/ Session!SetUser(c) \/ Session!EnsureHelper(c)
         \/ Session!RefreshBlacklist(c) \/ Session!Logout(c) \/ Session!CallDies(c)
  PROVE  SessionInv'
<1>0. Session!TypeOK
  BY DEF SessionInv
<1>a. sessionCall[c] \in Session!Call \cup {Session!Idle} /\ issued \subseteq Session!Token
  BY <1>0 DEF Session!TypeOK
<1> USE DEF Session!userVars, Session!rowVars
<1>1. ASSUME NEW u \in User, NEW flow \in {"customer", "helper"}, Session!LoginRead(c, u, flow)
      PROVE  SessionInv'
  <2> DEFINE k == [stage |-> "user", user |-> u, flow |-> flow, seen |-> role[u], made |-> {}]
  <2>1. k \in Session!Call
    BY <1>0 DEF Session!TypeOK, Session!Call
  <2> QED
    BY <1>0, <1>1, <2>1, SessionKeeps DEF Session!LoginRead, Session!Begin, Session!TypeOK
<1>2. CASE Session!SetUser(c)
  <2> DEFINE u == sessionCall[c].user
             new == Session!RoleAfter(u, sessionCall[c].flow, sessionCall[c].seen)
             k == [sessionCall[c] EXCEPT !.seen = new,
                     !.stage = IF sessionCall[c].flow = "helper" THEN "helper" ELSE "sign"]
  <2>1. sessionCall[c] # Session!Idle /\ sessionCall[c].stage = "user"
    BY <1>2 DEF Session!SetUser, Session!At, Session!Idle
  <2>2. /\ sessionCall[c] \in [stage : {"user", "helper", "sign", "store"}, user : User,
                               flow : {"customer", "helper"}, seen : Session!Role,
                               made : SUBSET Session!Token]
        /\ u \in User
    BY <1>0, <2>1, SessionCall
  <2>3. new \in Session!Role
    BY <2>2 DEF Session!RoleAfter, Session!Role
  <2>4. k \in Session!Call /\ k.stage \in {"helper", "sign"}
    BY <2>2, <2>3 DEF Session!Call
  <2>5. sessionCall' = [sessionCall EXCEPT ![c] = k]
    BY <1>0, <1>2 DEF Session!SetUser, Session!TypeOK
  <2>6. role' \in [User -> Session!Role]
    BY <1>0, <1>2, <2>2, <2>3 DEF Session!SetUser, Session!TypeOK
  <2>7. UNCHANGED <<adminPhone, helper, rows, created, blacklist, issued, logins, now>>
    BY <1>2 DEF Session!SetUser
  <2> HIDE DEF k
  <2> QED
    BY <1>0, <2>4, <2>5, <2>6, <2>7, SessionKeeps DEF Session!TypeOK
<1>3. CASE Session!EnsureHelper(c)
  <2> DEFINE k == [sessionCall[c] EXCEPT !.stage = "sign"]
  <2>1. sessionCall[c] # Session!Idle /\ sessionCall[c].stage = "helper"
    BY <1>3 DEF Session!EnsureHelper, Session!At, Session!Idle
  <2>2. /\ sessionCall[c] \in [stage : {"user", "helper", "sign", "store"}, user : User,
                               flow : {"customer", "helper"}, seen : Session!Role,
                               made : SUBSET Session!Token]
        /\ sessionCall[c].user \in User
    BY <1>0, <2>1, SessionCall
  <2>3. k \in Session!Call /\ k.stage = "sign"
    BY <2>2 DEF Session!Call
  <2>4. sessionCall' = [sessionCall EXCEPT ![c] = k]
    BY <1>0, <1>3 DEF Session!EnsureHelper, Session!TypeOK
  <2>5. helper' \in SUBSET User
    BY <1>0, <1>3, <2>2 DEF Session!EnsureHelper, Session!TypeOK
  <2>6. UNCHANGED <<adminPhone, role, rows, created, blacklist, issued, logins, now>>
    BY <1>3 DEF Session!EnsureHelper
  <2> HIDE DEF k
  <2> QED
    BY <1>0, <2>3, <2>4, <2>5, <2>6, SessionKeeps DEF Session!TypeOK
<1>4. CASE Session!RefreshBlacklist(c) \/ Session!LogoutBlacklist(c) \/ Session!CallDies(c)
  <2>1. sessionCall[c] # Session!Idle
    BY <1>4 DEF Session!RefreshBlacklist, Session!LogoutBlacklist, Session!CallDies,
         Session!At, Session!Idle
  <2>2. sessionCall[c].stage \in {"blacklist", "logout"} => sessionCall[c].used \in Session!Token
    BY <1>0, <2>1, SessionCall
  <2>3. sessionCall[c].made \in SUBSET Session!Token
    BY <1>0, <2>1, SessionCall
  <2>4. blacklist' \in SUBSET Session!Token /\ issued' \in SUBSET Session!Token
    BY <1>0, <1>4, <2>2, <2>3
    DEF Session!RefreshBlacklist, Session!LogoutBlacklist, Session!CallDies, Session!At,
        Session!TypeOK
  <2>5. /\ sessionCall' = [sessionCall EXCEPT ![c] = Session!Idle]
        /\ UNCHANGED <<adminPhone, role, helper, rows, created, logins, now>>
    BY <1>4 DEF Session!RefreshBlacklist, Session!LogoutBlacklist, Session!CallDies, Session!Done
  <2>6. Session!Idle.stage = "idle"
    BY DEF Session!Idle
  <2> QED
    BY <1>0, <2>4, <2>5, <2>6, SessionKeeps DEF Session!TypeOK
<1>5. ASSUME NEW t \in issued, Session!LogoutDelete(c, t)
      PROVE  SessionInv'
  <2> DEFINE k == [stage |-> "logout", user |-> t.user, used |-> t, id |-> 0,
                   seen |-> "none", made |-> {}]
  <2>1. t \in Session!Token /\ t.user \in User
    BY <1>0, <1>a, <1>5 DEF Session!Token
  <2>2. k \in Session!Call
    BY <2>1 DEF Session!Call, Session!Role
  <2>3. /\ sessionCall' = [sessionCall EXCEPT ![c] = k] /\ k.stage = "logout"
        /\ rows' \subseteq rows
        /\ UNCHANGED <<adminPhone, role, helper, created, blacklist, issued, logins, now>>
    BY <1>5 DEF Session!LogoutDelete, Session!Begin
  <2> HIDE DEF k
  <2> QED
    BY <1>0, <2>2, <2>3, SessionKeeps DEF Session!TypeOK
<1> QED
  BY <1>1, <1>2, <1>3, <1>4, <1>5 DEF Session!Logout

\* A row taken away by its user, a customer of the shop, the restart and the time add no
\* session either.
LEMMA SessionOutsideKeeps ==
  ASSUME Session!SessionAssumption, SessionInv,
         \/ \E t \in issued : Session!RefreshReused(t)
         \/ \E u \in User : Session!LogoutEverywhere(u) \/ Session!CreateCustomer(u)
         \/ Session!Restart \/ Session!Tick \/ UNCHANGED Session!vars
  PROVE  SessionInv'
<1> USE DEF Session!userVars, Session!rowVars, Session!RefreshReused,
            Session!LogoutEverywhere, Session!CreateCustomer, Session!Restart, Session!Tick,
            Session!vars
<1>1. /\ UNCHANGED <<adminPhone, helper, created, logins, issued>>
      /\ rows' \subseteq rows
  OBVIOUS
<1>8. role' \in [User -> Session!Role]
  BY DEF SessionInv, Session!TypeOK, Session!Role
<1>2. \A d \in Pair : sessionCall'[d] = sessionCall[d] \/ sessionCall'[d] = Session!Idle
  OBVIOUS
<1>3. Session!TypeOK'
  <2>1. now' \in 0 .. MaxTime
    <3>1. MaxTime \in Nat
      BY DEF Session!SessionAssumption
    <3> QED
      BY <3>1 DEF SessionInv, Session!TypeOK
  <2>2. blacklist' \in SUBSET Session!Token
    BY DEF SessionInv, Session!TypeOK
  <2>3. sessionCall' \in [Pair -> Session!Call \cup {Session!Idle}]
    BY DEF SessionInv, Session!TypeOK
  <2> QED
    BY <1>1, <1>8, <2>1, <2>2, <2>3 DEF SessionInv, Session!TypeOK
<1>4. IdsAreUnique'
  BY <1>1, FS_Subset DEF SessionInv, IdsAreUnique
<1>5. CallsAreOwn'
  BY <1>1, <1>2 DEF SessionInv, CallsAreOwn, Session!At, Session!Idle
<1>6. \A d \in Pair : Session!At(d, "rotate")' =>
        Session!At(d, "rotate") /\ sessionCall'[d].user = sessionCall[d].user
  BY <1>2 DEF Session!At, Session!Idle
<1>7. SessionsComeFromLogins'
  BY <1>1, <1>6, SessionsShrink DEF SessionInv, IdsAreUnique
<1> QED
  BY <1>3, <1>4, <1>5, <1>7 DEF SessionInv

\* What a step of one call does to the calls, if the call goes on as k.
LEMMA SessionMoves ==
  ASSUME Session!TypeOK, NEW c \in Pair, NEW k \in Session!Call \cup {Session!Idle},
         sessionCall' = [sessionCall EXCEPT ![c] = k]
  PROVE  /\ sessionCall' \in [Pair -> Session!Call \cup {Session!Idle}]
         /\ \A d \in Pair : sessionCall'[d] = IF d = c THEN k ELSE sessionCall[d]
  BY DEF Session!TypeOK

\* The other calls keep what is theirs when a row is added.
LEMMA OthersStayOwn ==
  ASSUME Session!TypeOK, CallsAreOwn, NEW c \in Pair, created \in Nat, created' \in Nat,
         created <= created', \A r \in rows' : r.id <= created => r \in rows,
         \A d \in Pair \ {c} : sessionCall'[d] = sessionCall[d],
         sessionCall'[c].stage \in {"idle", "blacklist"}
  PROVE  CallsAreOwn'
<1> SUFFICES ASSUME NEW d \in Pair
             PROVE  /\ Session!At(d, "delete")' =>
                         /\ sessionCall'[d].id <= created'
                         /\ \A r \in rows' : r.id = sessionCall'[d].id =>
                              r.token.user = sessionCall'[d].user
                    /\ Session!At(d, "store")' \/ Session!At(d, "rotate")' =>
                         \E t \in Session!Token :
                           sessionCall'[d].made = {t} /\ t.user = sessionCall'[d].user
  BY DEF CallsAreOwn
<1>1. CASE d = c
  BY <1>1 DEF Session!At
<1>2. CASE d # c
  <2>1. sessionCall'[d] = sessionCall[d]
    BY <1>2
  <2>2. sessionCall[d].stage = "delete" => sessionCall[d].id \in Nat
    BY SessionCall DEF Session!Idle
  <2>3. sessionCall[d].stage = "delete" =>
          /\ sessionCall[d].id <= created
          /\ \A r \in rows : r.id = sessionCall[d].id => r.token.user = sessionCall[d].user
    BY DEF CallsAreOwn, Session!At
  <2>4. Session!At(d, "delete")' =>
          /\ sessionCall'[d].id <= created'
          /\ \A r \in rows' : r.id = sessionCall'[d].id =>
               r.token.user = sessionCall'[d].user
    BY <2>1, <2>2, <2>3 DEF Session!At
  <2>5. Session!At(d, "store")' \/ Session!At(d, "rotate")' =>
          \E t \in Session!Token :
            sessionCall'[d].made = {t} /\ t.user = sessionCall'[d].user
    BY <2>1 DEF Session!At, CallsAreOwn
  <2> QED
    BY <2>4, <2>5
<1> QED
  BY <1>1, <1>2

\* A token is signed for the user of the call.
LEMMA SignKeeps ==
  ASSUME Session!SessionAssumption, SessionInv, NEW c \in Pair, Session!SignLogin(c)
  PROVE  SessionInv'
<1> USE DEF Session!userVars, Session!rowVars
<1> DEFINE t == Session!Signed(c)
           k == [sessionCall[c] EXCEPT !.stage = "store", !.made = {t}]
<1>1. sessionCall[c] # Session!Idle /\ sessionCall[c].stage = "sign"
  BY DEF Session!SignLogin, Session!At, Session!Idle
<1>2. /\ sessionCall[c] \in [stage : {"user", "helper", "sign", "store"}, user : User,
                             flow : {"customer", "helper"}, seen : Session!Role,
                             made : SUBSET Session!Token]
      /\ sessionCall[c].user \in User /\ sessionCall[c].seen \in Session!Role
  BY <1>1, SessionCall DEF SessionInv
<1>3. t \in Session!Token /\ t.user = sessionCall[c].user
  BY <1>2 DEF Session!Signed, Session!Token, SessionInv, Session!TypeOK
<1> HIDE DEF t
<1>4. /\ k \in Session!Call /\ k.stage = "store" /\ k.made = {t}
      /\ k.user = sessionCall[c].user
  BY <1>2, <1>3 DEF Session!Call
<1>5. sessionCall' = [sessionCall EXCEPT ![c] = k]
  BY DEF Session!SignLogin, SessionInv, Session!TypeOK, t
<1>6. UNCHANGED <<adminPhone, role, helper, rows, created, blacklist, issued, logins, now>>
  BY DEF Session!SignLogin
<1> HIDE DEF k
<1>7. created \in Nat
  BY DEF Session!SessionAssumption, SessionInv, Session!TypeOK
<1>8. Session!TypeOK' /\ IdsAreUnique'
  BY <1>4, <1>5, <1>6, SessionMoves DEF SessionInv, Session!TypeOK, IdsAreUnique
<1>9. \A d \in Pair : sessionCall'[d] = IF d = c THEN k ELSE sessionCall[d]
  BY <1>4, <1>5, SessionMoves DEF SessionInv
<1>10. CallsAreOwn'
  BY <1>3, <1>4, <1>6, <1>9 DEF SessionInv, CallsAreOwn, Session!At
<1>11. \A d \in Pair : Session!At(d, "rotate")' =>
         Session!At(d, "rotate") /\ sessionCall'[d].user = sessionCall[d].user
  BY <1>4, <1>9 DEF Session!At
<1>12. SessionsComeFromLogins'
  BY <1>6, <1>11, SessionsShrink DEF SessionInv, IdsAreUnique
<1> QED
  BY <1>8, <1>10, <1>12 DEF SessionInv

\* A refresh begins with a row of the token's user.
LEMMA RefreshReadKeeps ==
  ASSUME Session!SessionAssumption, SessionInv, NEW c \in Pair, NEW t \in issued,
         Session!RefreshRead(c, t)
  PROVE  SessionInv'
<1> USE DEF Session!userVars, Session!rowVars
<1>1. PICK r \in rows :
        /\ r.token = t
        /\ sessionCall[c] = Session!Idle
        /\ sessionCall' = [sessionCall EXCEPT ![c] =
             [stage |-> "delete", user |-> t.user, used |-> t, id |-> r.id,
              seen |-> role[t.user], made |-> {}]]
  BY DEF Session!RefreshRead, Session!Begin
<1> DEFINE k == [stage |-> "delete", user |-> t.user, used |-> t, id |-> r.id,
                 seen |-> role[t.user], made |-> {}]
<1>2. UNCHANGED <<adminPhone, role, helper, rows, created, blacklist, issued, logins, now>>
  BY DEF Session!RefreshRead
<1>3. t \in Session!Token /\ t.user \in User
  BY DEF SessionInv, Session!TypeOK, Session!Token
<1>4. created \in Nat /\ r.id \in 1 .. created
  BY DEF Session!SessionAssumption, SessionInv, Session!TypeOK, IdsAreUnique
<1>5. k \in Session!Call /\ k.stage = "delete" /\ k.id = r.id /\ k.user = t.user
  <2>1. role[t.user] \in Session!Role /\ r.id \in Nat
    BY <1>3, <1>4 DEF SessionInv, Session!TypeOK
  <2> QED
    BY <1>3, <2>1 DEF Session!Call
<1>6. sessionCall' = [sessionCall EXCEPT ![c] = k]
  BY <1>1
<1> HIDE DEF k
<1>7. Session!TypeOK' /\ IdsAreUnique'
  BY <1>2, <1>5, <1>6, SessionMoves DEF SessionInv, Session!TypeOK, IdsAreUnique
<1>8. \A d \in Pair : sessionCall'[d] = IF d = c THEN k ELSE sessionCall[d]
  BY <1>5, <1>6, SessionMoves DEF SessionInv
<1>9. \A q \in rows : q.id = r.id => q.token.user = t.user
  BY <1>1 DEF SessionInv, IdsAreUnique
<1>10. CallsAreOwn'
  BY <1>2, <1>4, <1>5, <1>8, <1>9 DEF SessionInv, CallsAreOwn, Session!At
<1>11. \A d \in Pair : Session!At(d, "rotate")' =>
         Session!At(d, "rotate") /\ sessionCall'[d].user = sessionCall[d].user
  BY <1>5, <1>8 DEF Session!At
<1>12. SessionsComeFromLogins'
  BY <1>2, <1>11, SessionsShrink DEF SessionInv, IdsAreUnique
<1> QED
  BY <1>7, <1>10, <1>12 DEF SessionInv

\* A rotation takes away a row for the one it will add.
LEMMA RefreshDeleteKeeps ==
  ASSUME Session!SessionAssumption, SessionInv, NEW c \in Pair, Session!RefreshDelete(c)
  PROVE  SessionInv'
<1> USE DEF Session!userVars
<1> DEFINE t == Session!Signed(c)
           k == [sessionCall[c] EXCEPT !.stage = "rotate", !.made = {t}]
           v == sessionCall[c].user
<1>1. sessionCall[c] # Session!Idle /\ sessionCall[c].stage = "delete"
  BY DEF Session!RefreshDelete, Session!At, Session!Idle
<1>2. /\ sessionCall[c] \in [stage : {"delete", "rotate", "blacklist", "logout"},
                             user : User, used : Session!Token, id : Nat,
                             seen : Session!Role, made : SUBSET Session!Token]
      /\ v \in User /\ sessionCall[c].seen \in Session!Role
  BY <1>1, SessionCall DEF SessionInv
<1>3. t \in Session!Token /\ t.user = v
  BY <1>2 DEF Session!Signed, Session!Token, SessionInv, Session!TypeOK
<1> HIDE DEF t
<1>4. k \in Session!Call /\ k.stage = "rotate" /\ k.made = {t} /\ k.user = v
  BY <1>2, <1>3 DEF Session!Call
<1>5. sessionCall' = [sessionCall EXCEPT ![c] = k]
  BY DEF Session!RefreshDelete, SessionInv, Session!TypeOK, t
<1>6. UNCHANGED <<adminPhone, role, helper, created, blacklist, issued, logins, now>>
  BY DEF Session!RefreshDelete
<1>7. rows' \subseteq rows
  BY DEF Session!RefreshDelete
<1>8. PICK r \in rows : r.id = sessionCall[c].id /\ r \notin rows'
  BY DEF Session!RefreshDelete, Session!MayRotate
<1>9. r.token.user = v
  BY <1>1, <1>8 DEF SessionInv, CallsAreOwn, Session!At
<1> HIDE DEF k, v
<1>10. Session!TypeOK' /\ IdsAreUnique'
  BY <1>4, <1>5, <1>6, <1>7, SessionMoves, FS_Subset
  DEF SessionInv, Session!TypeOK, IdsAreUnique
<1>11. \A d \in Pair : sessionCall'[d] = IF d = c THEN k ELSE sessionCall[d]
  BY <1>4, <1>5, SessionMoves DEF SessionInv
<1>12. CallsAreOwn'
  BY <1>3, <1>4, <1>6, <1>7, <1>11 DEF SessionInv, CallsAreOwn, Session!At
<1>13. SessionsComeFromLogins'
  <2> SUFFICES ASSUME NEW u \in User
               PROVE  Cardinality(RowsOf(u)') + Cardinality(Rotating(u)') <= logins'[u]
    BY SessionCounts
    DEF SessionsComeFromLogins, Session!SessionsComeFromLogins, RowsOf, Rotating
  <2> DEFINE A == RowsOf(u)
             B == Rotating(u)
             A2 == RowsOf(u)'
             B2 == Rotating(u)'
  <2>1. /\ IsFiniteSet(A) /\ IsFiniteSet(B)
        /\ Cardinality(A) \in Nat /\ Cardinality(B) \in Nat
    BY SessionsFinite DEF SessionInv, IdsAreUnique
  <2>2. Cardinality(A) + Cardinality(B) <= logins[u]
    BY SessionsCounted DEF SessionInv
  <2>3. A2 \subseteq A /\ (u = v => r \in A /\ A2 \subseteq A \ {r})
    BY <1>7, <1>8, <1>9 DEF RowsOf
  <2>4. B2 = (IF u = v THEN B \cup {c} ELSE B) /\ c \notin B
    BY <1>1, <1>4, <1>11 DEF Rotating, Session!At
  <2>5. logins'[u] = logins[u] /\ logins[u] \in Nat
    BY <1>6 DEF SessionInv, Session!TypeOK
  <2> HIDE DEF A, B, A2, B2
  <2>6. CASE u = v
    <3>1. Cardinality(B2) = Cardinality(B) + 1
      BY <2>1, <2>4, <2>6, FS_AddElement
    <3>2. IsFiniteSet(A \ {r}) /\ Cardinality(A \ {r}) = Cardinality(A) - 1
      BY <2>1, <2>3, <2>6, FS_RemoveElement
    <3>3. Cardinality(A2) <= Cardinality(A) - 1 /\ Cardinality(A2) \in Nat
      BY <2>3, <2>6, <3>2, FS_Subset, FS_CardinalityType
    <3>4. Cardinality(A2) + Cardinality(B2) <= logins'[u]
      BY <2>1, <2>2, <2>5, <3>1, <3>3
    <3> QED
      BY <3>4 DEF A2, B2
  <2>7. CASE u # v
    <3>1. Cardinality(A2) <= Cardinality(A) /\ Cardinality(A2) \in Nat
      BY <2>1, <2>3, FS_Subset, FS_CardinalityType
    <3>2. Cardinality(A2) + Cardinality(B2) <= logins'[u]
      BY <2>1, <2>2, <2>4, <2>5, <2>7, <3>1
    <3> QED
      BY <3>2 DEF A2, B2
  <2> QED
    BY <2>6, <2>7
<1> QED
  BY <1>10, <1>12, <1>13 DEF SessionInv

\* A login adds a row and counts; a rotation adds the row that was taken away.
LEMMA StoreKeeps ==
  ASSUME Session!SessionAssumption, SessionInv, NEW c \in Pair,
         Session!StoreLogin(c) \/ Session!RefreshStore(c)
  PROVE  SessionInv'
<1> USE DEF Session!userVars
<1> DEFINE v == sessionCall[c].user
           k == IF Session!StoreLogin(c) THEN Session!Idle
                ELSE [sessionCall[c] EXCEPT !.stage = "blacklist"]
<1>0. Session!TypeOK /\ IdsAreUnique /\ CallsAreOwn
  BY DEF SessionInv
<1>1. /\ sessionCall[c] # Session!Idle /\ sessionCall[c].stage \in {"store", "rotate"}
      /\ Session!StoreLogin(c) <=> sessionCall[c].stage = "store"
  BY DEF Session!StoreLogin, Session!RefreshStore, Session!At, Session!Idle
<1>2. PICK t \in Session!Token : sessionCall[c].made = {t} /\ t.user = v
  BY <1>0, <1>1 DEF CallsAreOwn, Session!At
<1>3. Session!CreateRow(t)
  BY <1>2 DEF Session!StoreLogin, Session!RefreshStore
<1>4. v \in User
  BY <1>0, <1>1, SessionCall
<1>5. k \in Session!Call \cup {Session!Idle} /\ k.stage \in {"idle", "blacklist"}
  <2>1. CASE Session!StoreLogin(c)
    BY <2>1 DEF Session!Idle
  <2>2. CASE ~Session!StoreLogin(c)
    <3>1. sessionCall[c] \in [stage : {"delete", "rotate", "blacklist", "logout"},
                              user : User, used : Session!Token, id : Nat,
                              seen : Session!Role, made : SUBSET Session!Token]
      BY <1>0, <1>1, <2>2, SessionCall
    <3>2. [sessionCall[c] EXCEPT !.stage = "blacklist"] \in Session!Call
      BY <3>1 DEF Session!Call
    <3>3. [sessionCall[c] EXCEPT !.stage = "blacklist"].stage = "blacklist"
      BY <3>1
    <3> QED
      BY <2>2, <3>2, <3>3
  <2> QED
    BY <2>1, <2>2
<1>6. sessionCall' = [sessionCall EXCEPT ![c] = k]
  <2>1. CASE Session!StoreLogin(c)
    BY <2>1 DEF Session!StoreLogin, Session!Done
  <2>2. CASE ~Session!StoreLogin(c)
    BY <1>0, <2>2 DEF Session!RefreshStore, Session!TypeOK
  <2> QED
    BY <2>1, <2>2
<1>7. /\ UNCHANGED <<adminPhone, role, helper, blacklist, now>>
      /\ issued' \in SUBSET Session!Token
      /\ logins' = IF sessionCall[c].stage = "store"
                   THEN [logins EXCEPT ![v] = @ + 1] ELSE logins
  BY <1>0, <1>1, <1>2 DEF Session!StoreLogin, Session!RefreshStore, Session!TypeOK
<1> HIDE DEF k, v
<1>8. /\ IdsAreUnique'
      /\ rows' \in SUBSET [token : Session!Token, id : 1 .. MaxRows]
      /\ created' \in 0 .. MaxRows /\ created <= created'
      /\ \A r \in rows' : r.id <= created => r \in rows
      /\ \A u : Cardinality(RowsOf(u)') =
                  Cardinality(RowsOf(u)) + (IF t.user = u THEN 1 ELSE 0)
  BY <1>0, <1>3, RowIsAdded
<1>9. /\ sessionCall' \in [Pair -> Session!Call \cup {Session!Idle}]
      /\ \A d \in Pair : sessionCall'[d] = IF d = c THEN k ELSE sessionCall[d]
  BY <1>0, <1>5, <1>6, SessionMoves
<1>10. Session!TypeOK'
  <2>1. logins' \in [User -> Nat]
    BY <1>0, <1>4, <1>7 DEF Session!TypeOK
  <2> QED
    BY <1>0, <1>7, <1>8, <1>9, <2>1 DEF Session!TypeOK
<1>11. CallsAreOwn'
  <2>1. created \in Nat /\ created' \in Nat
    BY <1>0, <1>8 DEF Session!SessionAssumption, Session!TypeOK
  <2> QED
    BY <1>0, <1>5, <1>8, <1>9, <2>1, OthersStayOwn
<1>12. SessionsComeFromLogins'
  <2> SUFFICES ASSUME NEW u \in User
               PROVE  Cardinality(RowsOf(u)') + Cardinality(Rotating(u)') <= logins'[u]
    BY SessionCounts
    DEF SessionsComeFromLogins, Session!SessionsComeFromLogins, RowsOf, Rotating
  <2> DEFINE A == RowsOf(u)
             B == Rotating(u)
             A2 == RowsOf(u)'
             B2 == Rotating(u)'
  <2>1. /\ IsFiniteSet(A) /\ IsFiniteSet(B)
        /\ Cardinality(A) \in Nat /\ Cardinality(B) \in Nat
    BY <1>0, SessionsFinite DEF IdsAreUnique
  <2>2. Cardinality(A) + Cardinality(B) <= logins[u]
    BY SessionsCounted DEF SessionInv
  <2>3. Cardinality(A2) = Cardinality(A) + (IF v = u THEN 1 ELSE 0)
    BY <1>2, <1>8
  <2>4. B2 = B \ {c} /\ (c \in B <=> sessionCall[c].stage = "rotate" /\ v = u)
    BY <1>5, <1>9 DEF Rotating, Session!At, v
  <2>5. /\ logins[u] \in Nat
        /\ logins'[u] = IF sessionCall[c].stage = "store" /\ v = u
                        THEN logins[u] + 1 ELSE logins[u]
    BY <1>0, <1>4, <1>7 DEF Session!TypeOK
  <2> HIDE DEF A, B, A2, B2
  <2>6. IsFiniteSet(B2) /\ Cardinality(B2) = Cardinality(B) - (IF c \in B THEN 1 ELSE 0)
    <3>1. CASE c \in B
      BY <2>1, <2>4, <3>1, FS_RemoveElement
    <3>2. CASE c \notin B
      BY <2>1, <2>4, <3>2
    <3> QED
      BY <3>1, <3>2
  <2>7. Cardinality(A2) + Cardinality(B2) <= logins'[u]
    BY <1>1, <2>1, <2>2, <2>3, <2>4, <2>5, <2>6
  <2> QED
    BY <2>7 DEF A2, B2
<1> QED
  BY <1>8, <1>10, <1>11, <1>12 DEF SessionInv

\* A user has at most as many sessions as logins, however many requests refresh at once.
THEOREM SessionsAreLogins == Session!Spec => [](Session!TypeOK /\ SessionsComeFromLogins)
<1>1. Session!Init => SessionInv
  BY SessionInit, SessionHolds
<1>2. SessionInv /\ [Session!Next]_(Session!vars) => SessionInv'
  BY SessionHolds, SessionPlainKeeps, SessionOutsideKeeps, SignKeeps, RefreshReadKeeps,
     RefreshDeleteKeeps, StoreKeeps
  DEF Session!Next, Session!Login, Session!Refresh
<1>3. SessionInv => Session!TypeOK /\ SessionsComeFromLogins
  BY DEF SessionInv
<1> QED
  BY <1>1, <1>2, <1>3, PTL DEF Session!Spec

-----------------------------------------------------------------------------
(***************************************************************************)
(* EmailCode.  The attempts counted against a code are never fewer than    *)
(* the tries answered as wrong, as long as the code is stored, although    *)
(* the increments come late and count against whichever code is there by   *)
(* then; and a code that was accepted is stored no more.                   *)
(***************************************************************************)

\* The codes stored are of those mailed, one at a time where it is a column, and what was
\* tried or read is one of them.
MailedCodes ==
  /\ \A a \in Account :
       /\ \A n \in live[a] : n <= mailed[a]
       /\ Email!IsLogin(a) => \A m, n \in live[a] : m = n
       /\ \A n \in Email!Code : wrong[a][n] # 0 \/ accepted[a][n] # 0 => n <= mailed[a]
       /\ \A n \in live[a] : wrong[a][n] <= attempts[a][n] /\ accepted[a][n] = 0
  /\ \A c \in Pair, a \in Account :
       Email!At(c, "wrong", a) \/ Email!At(c, "right", a) =>
         /\ mailCall[c].code <= mailed[a]
         /\ Email!At(c, "right", a) => mailCall[c].code # 0

Trying(a, n) == {c \in Pair : Email!At(c, "wrong", a) /\ mailCall[c].code = n}
Entering(a, n) == {c \in Pair : Email!At(c, "right", a) /\ mailCall[c].code = n}

\* The limit, with the calls that are under way.
CodesAreBounded ==
  \A a \in Account, n \in Email!Code :
    /\ wrong[a][n] + Cardinality(Trying(a, n)) <= MaxAttempts + Cardinality(Pair) - 1
    /\ accepted[a][n] + Cardinality(Entering(a, n)) <= Cardinality(Pair)

EmailInv == Email!TypeOK /\ MailedCodes /\ CodesAreBounded

LEMMA EmailCounts ==
  \A S : Email!Cardinality(S) = Cardinality(S) /\ (Email!IsFiniteSet(S) <=> IsFiniteSet(S))
  BY DEF Email!Cardinality, Cardinality, Email!IsFiniteSet, IsFiniteSet

LEMMA EmailNumbers ==
  ASSUME Email!EmailAssumption
  PROVE  /\ IsFiniteSet(Pair) /\ Cardinality(Pair) \in Nat
         /\ MaxAttempts \in Nat /\ MaxAttempts > 0 /\ MaxSends \in Nat /\ MaxMail \in Nat
<1>1. IsFiniteSet(Pair)
  BY EmailCounts DEF Email!EmailAssumption
<1>2. Cardinality(Pair) \in Nat
  BY <1>1, FS_CardinalityType
<1>3. MaxAttempts \in Nat /\ MaxAttempts > 0 /\ MaxSends \in Nat /\ MaxMail \in Nat
  BY DEF Email!EmailAssumption
<1> QED
  BY <1>1, <1>2, <1>3

\* The bound and the calls under way give the two properties.
LEMMA BoundsSuffice ==
  ASSUME Email!EmailAssumption, EmailInv
  PROVE  WrongTriesAreBounded /\ Email!AcceptedTogetherOnly
<1> SUFFICES ASSUME NEW a \in Account, NEW n \in Email!Code
             PROVE  /\ wrong[a][n] <= MaxAttempts + Cardinality(Pair) - 1
                    /\ accepted[a][n] + Cardinality(Entering(a, n)) <= Cardinality(Pair)
  BY EmailCounts
  DEF WrongTriesAreBounded, Email!WrongTriesAreBounded, Email!AcceptedTogetherOnly, Entering
<1>1. IsFiniteSet(Trying(a, n)) /\ Cardinality(Trying(a, n)) \in Nat
  <2>1. Trying(a, n) \subseteq Pair
    BY DEF Trying
  <2> QED
    BY <2>1, EmailNumbers, FS_Subset, FS_CardinalityType
<1>2. wrong[a][n] \in Nat
  BY DEF EmailInv, Email!TypeOK
<1>3. /\ wrong[a][n] + Cardinality(Trying(a, n)) <= MaxAttempts + Cardinality(Pair) - 1
      /\ accepted[a][n] + Cardinality(Entering(a, n)) <= Cardinality(Pair)
  BY DEF EmailInv, CodesAreBounded
<1> QED
  BY <1>1, <1>2, <1>3, EmailNumbers

\* The code of now is the latest of those stored.
LEMMA CurrentIsStored ==
  ASSUME Email!EmailAssumption, Email!TypeOK, NEW a \in Account
  PROVE  /\ Email!Current(a) \in live[a] \cup {0}
         /\ \A n \in live[a] : n <= Email!Current(a)
         /\ Email!Current(a) \in Email!Code \cup {0}
<1> DEFINE S == live[a] \cup {0}
           U == {m \in Nat : \A n \in S : n <= m}
           less == OpToRel(<, Nat)
<1>1. S \subseteq 0 .. MaxMail /\ S \subseteq Nat /\ 0 \in S
  BY EmailNumbers DEF Email!TypeOK, Email!Code
<1>2. MaxMail \in U
  BY <1>1, EmailNumbers
<1>3. \A x, y \in Nat : y < x => <<y, x>> \in less
  BY DEF OpToRel
<1>4. IsWellFoundedOn(less, Nat)
  BY NatLessThanWellFounded
<1>5. U \subseteq Nat
  OBVIOUS
<1> HIDE DEF less
<1>6. PICK x \in U : \A y \in U : ~(<<y, x>> \in less)
  BY <1>2, <1>4, <1>5, WFMin
<1>7. x \in S
  <2> SUFFICES ASSUME x \notin S PROVE FALSE
    OBVIOUS
  <2>1. x \in Nat /\ x # 0
    BY <1>1
  <2>2. x - 1 \in Nat
    BY <2>1
  <2>3. \A n \in S : n <= x - 1
    <3> TAKE n \in S
    <3>1. n <= x /\ n # x /\ n \in Nat
      BY <1>1
    <3> QED
      BY <2>1, <3>1
  <2>4. x - 1 \in U
    BY <2>2, <2>3
  <2>5. <<x - 1, x>> \in less
    BY <1>3, <2>1, <2>2
  <2> QED
    BY <1>6, <2>4, <2>5
<1>8. \A y \in S : x >= y
  BY <1>1
<1>9. Email!Max(S) \in S /\ \A y \in S : Email!Max(S) >= y
  <2> HIDE DEF S
  <2> QED
    BY <1>7, <1>8 DEF Email!Max
<1>10. Email!Current(a) = Email!Max(S)
  BY DEF Email!Current
<1>11. \A n \in S : n \in Nat
  BY <1>1
<1> QED
  BY <1>9, <1>10, <1>11 DEF Email!TypeOK

\* Nothing was mailed.
LEMMA EmailInit == Email!EmailAssumption /\ Email!Init => EmailInv
<1> SUFFICES ASSUME Email!EmailAssumption, Email!Init PROVE EmailInv
  OBVIOUS
<1>1. Email!TypeOK
  BY EmailNumbers DEF Email!Init, Email!TypeOK, Email!Code
<1>2. MailedCodes
  BY EmailNumbers DEF Email!Init, MailedCodes, Email!At, Email!Idle, Email!Code
<1>3. CodesAreBounded
  <2> SUFFICES ASSUME NEW a \in Account, NEW n \in Email!Code
               PROVE  /\ wrong[a][n] + Cardinality(Trying(a, n))
                           <= MaxAttempts + Cardinality(Pair) - 1
                      /\ accepted[a][n] + Cardinality(Entering(a, n)) <= Cardinality(Pair)
    BY DEF CodesAreBounded
  <2>1. Trying(a, n) = {} /\ Entering(a, n) = {}
    BY DEF Email!Init, Trying, Entering, Email!At, Email!Idle
  <2>2. wrong[a][n] = 0 /\ accepted[a][n] = 0
    BY DEF Email!Init
  <2>3. Cardinality(Trying(a, n)) = 0 /\ Cardinality(Entering(a, n)) = 0
    BY <2>1, FS_EmptySet
  <2> QED
    BY <2>2, <2>3, EmailNumbers
<1> QED
  BY <1>1, <1>2, <1>3 DEF EmailInv

\* A step after which no more calls try or enter a code, and which answers none, keeps the
\* bounds.
LEMMA EmailShrinks ==
  ASSUME Email!EmailAssumption, Email!TypeOK, CodesAreBounded, UNCHANGED <<wrong, accepted>>,
         \A d \in Pair : \/ mailCall'[d] = mailCall[d]
                         \/ mailCall'[d].stage \notin {"wrong", "right"}
  PROVE  CodesAreBounded'
<1> SUFFICES ASSUME NEW a \in Account, NEW n \in Email!Code
             PROVE  /\ wrong'[a][n] + Cardinality(Trying(a, n)')
                         <= MaxAttempts + Cardinality(Pair) - 1
                    /\ accepted'[a][n] + Cardinality(Entering(a, n)') <= Cardinality(Pair)
  BY DEF CodesAreBounded
<1> DEFINE A == Trying(a, n)
           B == Entering(a, n)
           A2 == Trying(a, n)'
           B2 == Entering(a, n)'
<1>1. A \subseteq Pair /\ B \subseteq Pair /\ A2 \subseteq A /\ B2 \subseteq B
  BY DEF Trying, Entering, Email!At
<1>2. /\ wrong[a][n] + Cardinality(A) <= MaxAttempts + Cardinality(Pair) - 1
      /\ accepted[a][n] + Cardinality(B) <= Cardinality(Pair)
  BY DEF CodesAreBounded
<1>3. wrong[a][n] \in Nat /\ accepted[a][n] \in Nat
  BY DEF Email!TypeOK
<1> HIDE DEF A, B, A2, B2
<1>4. /\ Cardinality(A2) <= Cardinality(A) /\ Cardinality(A2) \in Nat /\ Cardinality(A) \in Nat
      /\ Cardinality(B2) <= Cardinality(B) /\ Cardinality(B2) \in Nat /\ Cardinality(B) \in Nat
  BY <1>1, EmailNumbers, FS_Subset, FS_CardinalityType
<1>5. /\ wrong[a][n] + Cardinality(A2) <= MaxAttempts + Cardinality(Pair) - 1
      /\ accepted[a][n] + Cardinality(B2) <= Cardinality(Pair)
  BY <1>2, <1>3, <1>4, EmailNumbers
<1> QED
  BY <1>5 DEF A2, B2

\* What touches no code, and the beginning of a mail.
LEMMA EmailQuietKeeps ==
  ASSUME Email!EmailAssumption, EmailInv,
         \/ \E a \in Account : \/ Email!WindowEnds(a) \/ Email!SetBarred(a)
                               \/ Email!CodeExpires(a)
         \/ \E c \in Pair, a \in Account : Email!SendRead(c, a)
         \/ \E c \in Pair : Email!CallDies(c)
         \/ Email!Restart \/ UNCHANGED Email!vars
  PROVE  EmailInv'
<1>1. UNCHANGED <<kind, mailed, live, attempts, wrong, accepted>>
  BY DEF Email!WindowEnds, Email!SetBarred, Email!CodeExpires, Email!SendRead, Email!CallDies,
         Email!Restart, Email!vars, Email!codeVars
<1>2. /\ \A d \in Pair : \/ mailCall'[d] = mailCall[d]
                         \/ mailCall'[d].stage \notin {"wrong", "right"}
      /\ mailCall' \in [Pair -> Email!Call \cup {Email!Idle}]
  <2>1. CASE \E a \in Account : Email!WindowEnds(a) \/ Email!SetBarred(a) \/ Email!CodeExpires(a)
    BY <2>1 DEF Email!WindowEnds, Email!SetBarred, Email!CodeExpires, EmailInv, Email!TypeOK
  <2>2. ASSUME NEW c \in Pair, NEW a \in Account, Email!SendRead(c, a)
        PROVE  <1>2!1 /\ <1>2!2
    <3> DEFINE k == [stage |-> "send", account |-> a, code |-> 0]
    <3>1. k \in Email!Call /\ k.stage = "send"
      BY DEF Email!Call
    <3>2. mailCall' = mailCall \/ mailCall' = [mailCall EXCEPT ![c] = k]
      BY <2>2 DEF Email!SendRead, Email!Begin
    <3> HIDE DEF k
    <3> QED
      BY <3>1, <3>2 DEF EmailInv, Email!TypeOK
  <2>3. CASE (\E c \in Pair : Email!CallDies(c)) \/ Email!Restart \/ UNCHANGED Email!vars
    BY <2>3 DEF Email!CallDies, Email!Done, Email!Restart, Email!vars, EmailInv, Email!TypeOK,
       Email!Idle
  <2> QED
    BY <2>1, <2>2, <2>3
<1>3. /\ barred' \in SUBSET Account
      /\ mailExpired' \in [Account -> SUBSET Email!Code]
      /\ sends' \in [Account -> 0 .. MaxSends]
  <2>1. CASE \E c \in Pair, a \in Account : Email!SendRead(c, a)
    BY <2>1, EmailNumbers DEF Email!SendRead, Email!codeVars, EmailInv, Email!TypeOK
  <2>2. CASE Email!Restart \/ \E c \in Pair : Email!CallDies(c)
    <3>1. 0 \in 0 .. MaxSends
      BY EmailNumbers
    <3> QED
      BY <2>2, <3>1
      DEF Email!Restart, Email!CallDies, Email!codeVars, EmailInv, Email!TypeOK
  <2>3. ASSUME NEW a \in Account,
               Email!WindowEnds(a) \/ Email!SetBarred(a) \/ Email!CodeExpires(a)
        PROVE  <1>3!1 /\ <1>3!2 /\ <1>3!3
    <3>1. 0 \in 0 .. MaxSends
      BY EmailNumbers
    <3>2. live[a] \subseteq Email!Code
      BY DEF EmailInv, Email!TypeOK
    <3>3. CASE Email!WindowEnds(a)
      BY <3>1, <3>3 DEF Email!WindowEnds, Email!codeVars, EmailInv, Email!TypeOK
    <3>4. CASE Email!SetBarred(a)
      BY <3>4 DEF Email!SetBarred, Email!codeVars, EmailInv, Email!TypeOK
    <3>5. CASE Email!CodeExpires(a)
      BY <3>2, <3>5 DEF Email!CodeExpires, EmailInv, Email!TypeOK
    <3> QED
      BY <2>3, <3>3, <3>4, <3>5
  <2>4. CASE UNCHANGED Email!vars
    BY <2>4 DEF Email!vars, Email!codeVars, EmailInv, Email!TypeOK
  <2> QED
    BY <2>1, <2>2, <2>3, <2>4
<1>4. Email!TypeOK'
  BY <1>1, <1>2, <1>3 DEF EmailInv, Email!TypeOK
<1>5. MailedCodes'
  BY <1>1, <1>2 DEF EmailInv, MailedCodes, Email!At, Email!IsLogin
<1>6. CodesAreBounded'
  BY <1>1, <1>2, EmailShrinks DEF EmailInv
<1> QED
  BY <1>4, <1>5, <1>6 DEF EmailInv

\* A code just mailed was never tried, and takes the place of the login code there was.
LEMMA SendKeepsCodes ==
  ASSUME Email!EmailAssumption, EmailInv, NEW c \in Pair, NEW a \in Account,
         Email!SendWrite(c, a)
  PROVE  EmailInv'
<1> DEFINE m == mailed[a] + 1
<1>1. /\ m \in Email!Code /\ mailed' = [mailed EXCEPT ![a] = m]
      /\ live' = [live EXCEPT ![a] = IF Email!IsLogin(a) THEN {m} ELSE @ \cup {m}]
      /\ mailCall' = [mailCall EXCEPT ![c] = Email!Idle]
      /\ UNCHANGED <<kind, barred, mailExpired, attempts, sends, wrong, accepted>>
  BY DEF Email!SendWrite, Email!Done
<1>2. mailed[a] \in Nat /\ m = mailed[a] + 1
  BY DEF EmailInv, Email!TypeOK
<1> HIDE DEF m
<1>3. \A d \in Pair : mailCall'[d] = IF d = c THEN Email!Idle ELSE mailCall[d]
  BY <1>1 DEF EmailInv, Email!TypeOK
<1>4. Email!TypeOK'
  <2>1. m \in 0 .. MaxMail
    BY <1>1, EmailNumbers DEF Email!Code
  <2>2. live' \in [Account -> SUBSET Email!Code]
    BY <1>1 DEF EmailInv, Email!TypeOK
  <2> QED
    BY <1>1, <2>1, <2>2 DEF EmailInv, Email!TypeOK
<1>5. MailedCodes'
  <2>1. ASSUME NEW b \in Account
        PROVE  /\ \A n \in live'[b] : n <= mailed'[b]
               /\ Email!IsLogin(b)' => \A k, n \in live'[b] : k = n
               /\ \A n \in Email!Code : wrong'[b][n] # 0 \/ accepted'[b][n] # 0 => n <= mailed'[b]
               /\ \A n \in live'[b] : wrong'[b][n] <= attempts'[b][n] /\ accepted'[b][n] = 0
               /\ mailed[b] <= mailed'[b]
    <3>1. CASE b # a
      <4>1. live'[b] = live[b] /\ mailed'[b] = mailed[b] /\ mailed[b] \in Nat
        BY <1>1, <3>1 DEF EmailInv, Email!TypeOK
      <4> QED
        BY <1>1, <4>1 DEF EmailInv, MailedCodes, Email!IsLogin
    <3>2. CASE b = a
      <4>1. /\ mailed'[b] = m
            /\ live'[b] = IF Email!IsLogin(a) THEN {m} ELSE live[a] \cup {m}
        BY <1>1, <3>2 DEF EmailInv, Email!TypeOK
      <4>2. wrong[a][m] = 0 /\ accepted[a][m] = 0 /\ attempts[a][m] \in Nat
        <5>1. ~(m <= mailed[a])
          BY <1>2
        <5> QED
          BY <1>1, <5>1 DEF EmailInv, MailedCodes, Email!TypeOK
      <4>3. \A n \in Email!Code : n <= mailed[a] => n <= m
        BY <1>2, EmailNumbers DEF Email!Code
      <4>4. live[a] \subseteq Email!Code /\ m <= m /\ mailed[a] <= m
        BY <1>2 DEF EmailInv, Email!TypeOK
      <4>5. \A n \in live'[b] : n <= mailed'[b]
        BY <4>1, <4>3, <4>4 DEF EmailInv, MailedCodes
      <4>6. \A n \in live'[b] : wrong'[b][n] <= attempts'[b][n] /\ accepted'[b][n] = 0
        BY <1>1, <3>2, <4>1, <4>2 DEF EmailInv, MailedCodes
      <4>7. Email!IsLogin(b)' => \A k, n \in live'[b] : k = n
        BY <1>1, <3>2, <4>1 DEF Email!IsLogin
      <4>8. \A n \in Email!Code : wrong'[b][n] # 0 \/ accepted'[b][n] # 0 => n <= mailed'[b]
        BY <1>1, <3>2, <4>1, <4>3 DEF EmailInv, MailedCodes
      <4> QED
        BY <3>2, <4>1, <4>4, <4>5, <4>6, <4>7, <4>8
    <3> QED
      BY <3>1, <3>2
  <2>2. ASSUME NEW d \in Pair, NEW b \in Account,
               Email!At(d, "wrong", b)' \/ Email!At(d, "right", b)'
        PROVE  /\ mailCall'[d].code <= mailed'[b]
               /\ Email!At(d, "right", b)' => mailCall'[d].code # 0
    <3>1. mailCall'[d] = mailCall[d] /\ mailCall[d] # Email!Idle
      BY <1>3, <2>2 DEF Email!At, Email!Idle
    <3>2. mailCall[d].code \in Nat
      BY <3>1, EmailNumbers DEF EmailInv, Email!TypeOK, Email!Call, Email!Code
    <3>3. mailCall[d].code <= mailed[b] /\ (Email!At(d, "right", b)' => mailCall[d].code # 0)
      BY <2>2, <3>1 DEF EmailInv, MailedCodes, Email!At
    <3>4. mailed[b] \in Nat /\ mailed'[b] \in Nat /\ mailed[b] <= mailed'[b]
      BY <1>4, <2>1 DEF EmailInv, Email!TypeOK
    <3> QED
      BY <3>1, <3>2, <3>3, <3>4
  <2> QED
    BY <2>1, <2>2 DEF MailedCodes
<1>6. CodesAreBounded'
  BY <1>1, <1>3, EmailShrinks DEF EmailInv, Email!Idle
<1> QED
  BY <1>4, <1>5, <1>6 DEF EmailInv

\* What a call that tries or enters a code has read.
LEMMA EmailCall ==
  ASSUME Email!EmailAssumption, EmailInv, NEW c \in Pair, NEW a \in Account,
         Email!At(c, "wrong", a) \/ Email!At(c, "right", a)
  PROVE  /\ mailCall[c] \in Email!Call
         /\ mailCall[c].code \in Email!Code \cup {0} /\ mailCall[c].code \in Nat
         /\ mailCall[c].code <= mailed[a] /\ mailed[a] \in Nat
         /\ Email!At(c, "right", a) => mailCall[c].code \in Email!Code
<1>1. mailCall[c] \in Email!Call
  BY DEF EmailInv, Email!TypeOK, Email!At, Email!Idle
<1>2. mailCall[c].code \in Email!Code \cup {0}
  BY <1>1 DEF Email!Call
<1>3. mailCall[c].code \in Nat
  BY <1>2 DEF Email!Code
<1>4. mailed[a] \in Nat
  BY EmailNumbers DEF EmailInv, Email!TypeOK
<1>5. mailCall[c].code <= mailed[a] /\ (Email!At(c, "right", a) => mailCall[c].code # 0)
  BY DEF EmailInv, MailedCodes
<1> QED
  BY <1>1, <1>2, <1>3, <1>4, <1>5

\* The number of some calls, and of one more or fewer.
LEMMA PairsCount ==
  ASSUME IsFiniteSet(Pair), NEW S \in SUBSET Pair, NEW c \in Pair
  PROVE  /\ IsFiniteSet(S) /\ Cardinality(S) \in Nat /\ Cardinality(S) <= Cardinality(Pair)
         /\ Cardinality(S \cup {c}) \in Nat /\ Cardinality(S \cup {c}) <= Cardinality(Pair)
         /\ c \in S => Cardinality(S \ {c}) = Cardinality(S) - 1
<1>1. S \cup {c} \subseteq Pair
  OBVIOUS
<1>2. IsFiniteSet(S) /\ Cardinality(S) <= Cardinality(Pair)
  BY <1>1, FS_Subset
<1>3. IsFiniteSet(S \cup {c}) /\ Cardinality(S \cup {c}) <= Cardinality(Pair)
  BY <1>1, FS_Subset
<1>4. c \in S => Cardinality(S \ {c}) = Cardinality(S) - 1
  BY <1>2, FS_RemoveElement
<1> QED
  BY <1>2, <1>3, <1>4, FS_CardinalityType

\* A try begins while fewer than MaxAttempts are counted, and a code is entered while it
\* was never accepted.
LEMMA VerifyReadKeeps ==
  ASSUME Email!EmailAssumption, EmailInv, NEW c \in Pair, NEW a \in Account,
         Email!VerifyRead(c, a)
  PROVE  EmailInv'
<1> DEFINE n == Email!Current(a)
<1>0. /\ n \in live[a] \cup {0} /\ n \in Email!Code \cup {0}
  BY CurrentIsStored DEF EmailInv
<1>1. PICK stage \in {"wrong", "right", "master"} :
        /\ mailCall[c] = Email!Idle
        /\ mailCall' = [mailCall EXCEPT ![c] = [stage |-> stage, account |-> a, code |-> n]]
        /\ n # 0 => attempts[a][n] < MaxAttempts
        /\ stage = "right" => n # 0
        /\ UNCHANGED <<kind, barred, mailed, live, mailExpired, attempts, sends, wrong, accepted>>
  BY DEF Email!VerifyRead, Email!Begin, Email!MayTry, Email!codeVars
<1> DEFINE k == [stage |-> stage, account |-> a, code |-> n]
<1> HIDE DEF n
<1>2. k \in Email!Call /\ k.stage = stage /\ k.account = a /\ k.code = n
  BY <1>0 DEF Email!Call
<1>3. \A d \in Pair : mailCall'[d] = IF d = c THEN k ELSE mailCall[d]
  BY <1>1 DEF EmailInv, Email!TypeOK
<1>4. mailCall' = [mailCall EXCEPT ![c] = k]
  BY <1>1
<1> HIDE DEF k
<1>5. Email!TypeOK'
  BY <1>1, <1>2, <1>4 DEF EmailInv, Email!TypeOK
<1>6. MailedCodes'
  <2>1. n <= mailed[a]
    BY <1>0, EmailNumbers DEF EmailInv, MailedCodes, Email!TypeOK
  <2>2. ASSUME NEW d \in Pair, NEW b \in Account,
               Email!At(d, "wrong", b)' \/ Email!At(d, "right", b)'
        PROVE  /\ mailCall'[d].code <= mailed'[b]
               /\ Email!At(d, "right", b)' => mailCall'[d].code # 0
    BY <1>1, <1>2, <1>3, <2>1, <2>2 DEF Email!At, EmailInv, MailedCodes
  <2> QED
    BY <1>1, <2>2 DEF EmailInv, MailedCodes, Email!IsLogin
<1>7. CodesAreBounded'
  <2> SUFFICES ASSUME NEW b \in Account, NEW m \in Email!Code
               PROVE  /\ wrong'[b][m] + Cardinality(Trying(b, m)')
                           <= MaxAttempts + Cardinality(Pair) - 1
                      /\ accepted'[b][m] + Cardinality(Entering(b, m)') <= Cardinality(Pair)
    BY DEF CodesAreBounded
  <2> DEFINE A == Trying(b, m)
             B == Entering(b, m)
             A2 == Trying(b, m)'
             B2 == Entering(b, m)'
             mine == b = a /\ m = n
  <2>1. A \in SUBSET Pair /\ B \in SUBSET Pair
    BY DEF Trying, Entering
  <2>2. /\ A2 = IF mine /\ stage = "wrong" THEN A \cup {c} ELSE A
        /\ B2 = IF mine /\ stage = "right" THEN B \cup {c} ELSE B
    <3>1. mailCall[c].stage = "idle"
      BY <1>1 DEF Email!Idle
    <3> QED
      BY <1>2, <1>3, <3>1 DEF Trying, Entering, Email!At
  <2>3. /\ wrong[b][m] + Cardinality(A) <= MaxAttempts + Cardinality(Pair) - 1
        /\ accepted[b][m] + Cardinality(B) <= Cardinality(Pair)
    BY DEF EmailInv, CodesAreBounded
  <2>4. mine => /\ wrong[b][m] <= attempts[b][m] /\ attempts[b][m] < MaxAttempts
                /\ accepted[b][m] = 0
    <3>1. mine => m \in live[b] /\ n # 0
      BY <1>0 DEF Email!Code
    <3> QED
      BY <1>1, <3>1 DEF EmailInv, MailedCodes
  <2>5. wrong[b][m] \in Nat /\ accepted[b][m] \in Nat /\ attempts[b][m] \in Nat
    BY DEF EmailInv, Email!TypeOK
  <2> HIDE DEF A, B, A2, B2, mine
  <2>6. /\ Cardinality(A \cup {c}) \in Nat /\ Cardinality(A \cup {c}) <= Cardinality(Pair)
        /\ Cardinality(B \cup {c}) \in Nat /\ Cardinality(B \cup {c}) <= Cardinality(Pair)
    BY <2>1, PairsCount, EmailNumbers
  <2>7. wrong[b][m] + Cardinality(A2) <= MaxAttempts + Cardinality(Pair) - 1
    <3>1. CASE mine /\ stage = "wrong"
      BY <2>2, <2>4, <2>5, <2>6, <3>1, EmailNumbers
    <3>2. CASE ~(mine /\ stage = "wrong")
      BY <2>2, <2>3, <3>2
    <3> QED
      BY <3>1, <3>2
  <2>8. accepted[b][m] + Cardinality(B2) <= Cardinality(Pair)
    <3>1. CASE mine /\ stage = "right"
      BY <2>2, <2>4, <2>5, <2>6, <3>1, EmailNumbers
    <3>2. CASE ~(mine /\ stage = "right")
      BY <2>2, <2>3, <3>2
    <3> QED
      BY <3>1, <3>2
  <2> QED
    BY <1>1, <2>7, <2>8 DEF A2, B2
<1> QED
  BY <1>5, <1>6, <1>7 DEF EmailInv

\* The answer counts against the code of now, which is the one that was tried if that is
\* still stored.
LEMMA VerifyWrongKeeps ==
  ASSUME Email!EmailAssumption, EmailInv, NEW c \in Pair, NEW a \in Account,
         Email!VerifyWrong(c, a)
  PROVE  EmailInv'
<1> DEFINE m == mailCall[c].code
           n == IF Email!IsLogin(a) THEN Email!Current(a) ELSE m
<1>1. /\ Email!At(c, "wrong", a)
      /\ attempts' = IF n = 0 THEN attempts ELSE [attempts EXCEPT ![a][n] = @ + 1]
      /\ wrong' = IF m = 0 THEN wrong ELSE [wrong EXCEPT ![a][m] = @ + 1]
      /\ mailCall' = [mailCall EXCEPT ![c] = Email!Idle]
      /\ UNCHANGED <<kind, barred, mailed, live, mailExpired, sends, accepted>>
  BY DEF Email!VerifyWrong, Email!Done
<1>2. m \in Email!Code \cup {0} /\ m \in Nat /\ m <= mailed[a] /\ mailed[a] \in Nat
  BY <1>1, EmailCall
<1>3. n \in Email!Code \cup {0} /\ (m \in live[a] => n = m)
  <2>1. /\ Email!Current(a) \in live[a] \cup {0}
        /\ \A k \in live[a] : k <= Email!Current(a)
        /\ Email!Current(a) \in Email!Code \cup {0}
    BY CurrentIsStored DEF EmailInv
  <2>2. live[a] \subseteq Email!Code
    BY DEF EmailInv, Email!TypeOK
  <2>3. m \in live[a] => Email!Current(a) # 0
    BY <2>1, <2>2 DEF Email!Code
  <2>4. Email!IsLogin(a) /\ m \in live[a] => Email!Current(a) = m
    BY <2>1, <2>3 DEF EmailInv, MailedCodes
  <2> QED
    BY <1>2, <2>1, <2>4
<1> HIDE DEF m, n
<1>4. \A b \in Account, k \in Email!Code :
        /\ wrong'[b][k] = IF b = a /\ k = m THEN wrong[b][k] + 1 ELSE wrong[b][k]
        /\ attempts'[b][k] = IF b = a /\ k = n THEN attempts[b][k] + 1 ELSE attempts[b][k]
        /\ wrong[b][k] \in Nat /\ attempts[b][k] \in Nat /\ k # 0
  <2>1. \A k \in Email!Code : k # 0
    BY DEF Email!Code
  <2> QED
    BY <1>1, <1>2, <1>3, <2>1 DEF EmailInv, Email!TypeOK
<1>5. \A d \in Pair : mailCall'[d] = IF d = c THEN Email!Idle ELSE mailCall[d]
  BY <1>1 DEF EmailInv, Email!TypeOK
<1>6. Email!TypeOK'
  <2>1. wrong' \in [Account -> [Email!Code -> Nat]]
    BY <1>1, <1>2 DEF EmailInv, Email!TypeOK
  <2>2. attempts' \in [Account -> [Email!Code -> Nat]]
    BY <1>1, <1>3 DEF EmailInv, Email!TypeOK
  <2> QED
    BY <1>1, <2>1, <2>2 DEF EmailInv, Email!TypeOK
<1>7. MailedCodes'
  <2>1. ASSUME NEW b \in Account
        PROVE  /\ \A k \in Email!Code : wrong'[b][k] # 0 \/ accepted'[b][k] # 0 => k <= mailed'[b]
               /\ \A k \in live'[b] : wrong'[b][k] <= attempts'[b][k] /\ accepted'[b][k] = 0
    <3>1. ASSUME NEW k \in Email!Code, wrong'[b][k] # 0 \/ accepted'[b][k] # 0
          PROVE  k <= mailed'[b]
      BY <1>1, <1>2, <1>4, <3>1 DEF EmailInv, MailedCodes
    <3>2. ASSUME NEW k \in live'[b]
          PROVE  wrong'[b][k] <= attempts'[b][k] /\ accepted'[b][k] = 0
      <4>1. k \in live[b] /\ k \in Email!Code
        BY <1>1 DEF EmailInv, Email!TypeOK
      <4>2. wrong[b][k] <= attempts[b][k] /\ accepted[b][k] = 0
        BY <4>1 DEF EmailInv, MailedCodes
      <4> QED
        BY <1>1, <1>3, <1>4, <4>1, <4>2
    <3> QED
      BY <3>1, <3>2
  <2>2. \A d \in Pair, b \in Account :
          Email!At(d, "wrong", b)' \/ Email!At(d, "right", b)' =>
            /\ mailCall'[d].code <= mailed'[b]
            /\ Email!At(d, "right", b)' => mailCall'[d].code # 0
    BY <1>1, <1>5 DEF EmailInv, MailedCodes, Email!At, Email!Idle
  <2>3. \A b \in Account : /\ \A k \in live'[b] : k <= mailed'[b]
                           /\ Email!IsLogin(b)' => \A i, k \in live'[b] : i = k
    BY <1>1 DEF EmailInv, MailedCodes, Email!IsLogin
  <2> QED
    BY <2>1, <2>2, <2>3 DEF MailedCodes
<1>8. CodesAreBounded'
  <2> SUFFICES ASSUME NEW b \in Account, NEW k \in Email!Code
               PROVE  /\ wrong'[b][k] + Cardinality(Trying(b, k)')
                           <= MaxAttempts + Cardinality(Pair) - 1
                      /\ accepted'[b][k] + Cardinality(Entering(b, k)') <= Cardinality(Pair)
    BY DEF CodesAreBounded
  <2> DEFINE A == Trying(b, k)
             A2 == Trying(b, k)'
  <2>1. A \in SUBSET Pair /\ Entering(b, k)' = Entering(b, k)
    BY <1>1, <1>5 DEF Trying, Entering, Email!At, Email!Idle
  <2>2. A2 = A \ {c} /\ (c \in A <=> b = a /\ k = m)
    BY <1>1, <1>5 DEF Trying, Email!At, Email!Idle, m
  <2>3. /\ wrong[b][k] + Cardinality(A) <= MaxAttempts + Cardinality(Pair) - 1
        /\ accepted[b][k] + Cardinality(Entering(b, k)) <= Cardinality(Pair)
    BY DEF EmailInv, CodesAreBounded
  <2> HIDE DEF A, A2
  <2>4. Cardinality(A2) = Cardinality(A) - (IF c \in A THEN 1 ELSE 0) /\ Cardinality(A) \in Nat
    <3>1. Cardinality(A) \in Nat /\ (c \in A => Cardinality(A \ {c}) = Cardinality(A) - 1)
      BY <2>1, PairsCount, EmailNumbers
    <3>2. c \notin A => A2 = A
      BY <2>2
    <3> QED
      BY <2>2, <3>1, <3>2
  <2>5. wrong'[b][k] = wrong[b][k] + (IF c \in A THEN 1 ELSE 0) /\ wrong[b][k] \in Nat
    BY <1>4, <2>2
  <2>6. wrong'[b][k] + Cardinality(A2) <= MaxAttempts + Cardinality(Pair) - 1
    BY <2>3, <2>4, <2>5, EmailNumbers
  <2> QED
    BY <1>1, <2>1, <2>3, <2>6 DEF A2
<1> QED
  BY <1>6, <1>7, <1>8 DEF EmailInv

\* A code that is accepted is stored no more.
LEMMA VerifyRightKeeps ==
  ASSUME Email!EmailAssumption, EmailInv, NEW c \in Pair, NEW a \in Account,
         Email!VerifyRight(c, a)
  PROVE  EmailInv'
<1> DEFINE n == mailCall[c].code
<1>1. /\ Email!At(c, "right", a)
      /\ live' = [live EXCEPT ![a] = Email!Spend(a, n)]
      /\ accepted' = [accepted EXCEPT ![a][n] = @ + 1]
      /\ mailCall' = [mailCall EXCEPT ![c] = Email!Idle]
      /\ UNCHANGED <<kind, barred, mailed, mailExpired, attempts, sends, wrong>>
  BY DEF Email!VerifyRight, Email!Done
<1>2. n \in Email!Code /\ n \in Nat /\ n <= mailed[a] /\ mailed[a] \in Nat
  BY <1>1, EmailCall
<1> HIDE DEF n
<1>3. \A b \in Account : live'[b] \subseteq live[b]
  BY <1>1 DEF EmailInv, Email!TypeOK, Email!Spend
<1>4. n \notin live'[a]
  BY <1>1 DEF EmailInv, Email!TypeOK, Email!Spend
<1>5. \A b \in Account, k \in Email!Code :
        /\ accepted'[b][k] = IF b = a /\ k = n THEN accepted[b][k] + 1 ELSE accepted[b][k]
        /\ accepted[b][k] \in Nat
  BY <1>1, <1>2 DEF EmailInv, Email!TypeOK
<1>6. \A d \in Pair : mailCall'[d] = IF d = c THEN Email!Idle ELSE mailCall[d]
  BY <1>1 DEF EmailInv, Email!TypeOK
<1>7. Email!TypeOK'
  <2>1. accepted' \in [Account -> [Email!Code -> Nat]]
    BY <1>1, <1>2 DEF EmailInv, Email!TypeOK
  <2>2. live' \in [Account -> SUBSET Email!Code]
    BY <1>1 DEF EmailInv, Email!TypeOK, Email!Spend
  <2> QED
    BY <1>1, <2>1, <2>2 DEF EmailInv, Email!TypeOK
<1>8. MailedCodes'
  <2>1. ASSUME NEW b \in Account
        PROVE  /\ \A k \in Email!Code : wrong'[b][k] # 0 \/ accepted'[b][k] # 0 => k <= mailed'[b]
               /\ \A k \in live'[b] : wrong'[b][k] <= attempts'[b][k] /\ accepted'[b][k] = 0
    <3>1. ASSUME NEW k \in Email!Code, wrong'[b][k] # 0 \/ accepted'[b][k] # 0
          PROVE  k <= mailed'[b]
      BY <1>1, <1>2, <1>5, <3>1 DEF EmailInv, MailedCodes
    <3>2. ASSUME NEW k \in live'[b]
          PROVE  wrong'[b][k] <= attempts'[b][k] /\ accepted'[b][k] = 0
      <4>1. k \in live[b] /\ k \in Email!Code /\ ~(b = a /\ k = n)
        BY <1>3, <1>4 DEF EmailInv, Email!TypeOK
      <4> QED
        BY <1>1, <1>5, <4>1 DEF EmailInv, MailedCodes
    <3> QED
      BY <3>1, <3>2
  <2>2. \A d \in Pair, b \in Account :
          Email!At(d, "wrong", b)' \/ Email!At(d, "right", b)' =>
            /\ mailCall'[d].code <= mailed'[b]
            /\ Email!At(d, "right", b)' => mailCall'[d].code # 0
    BY <1>1, <1>6 DEF EmailInv, MailedCodes, Email!At, Email!Idle
  <2>3. \A b \in Account : /\ \A k \in live'[b] : k <= mailed'[b]
                           /\ Email!IsLogin(b)' => \A i, k \in live'[b] : i = k
    BY <1>1, <1>3 DEF EmailInv, MailedCodes, Email!IsLogin
  <2> QED
    BY <2>1, <2>2, <2>3 DEF MailedCodes
<1>9. CodesAreBounded'
  <2> SUFFICES ASSUME NEW b \in Account, NEW k \in Email!Code
               PROVE  /\ wrong'[b][k] + Cardinality(Trying(b, k)')
                           <= MaxAttempts + Cardinality(Pair) - 1
                      /\ accepted'[b][k] + Cardinality(Entering(b, k)') <= Cardinality(Pair)
    BY DEF CodesAreBounded
  <2> DEFINE B == Entering(b, k)
             B2 == Entering(b, k)'
  <2>1. B \in SUBSET Pair /\ Trying(b, k)' = Trying(b, k)
    BY <1>1, <1>6 DEF Trying, Entering, Email!At, Email!Idle
  <2>2. B2 = B \ {c} /\ (c \in B <=> b = a /\ k = n)
    BY <1>1, <1>6 DEF Entering, Email!At, Email!Idle, n
  <2>3. /\ wrong[b][k] + Cardinality(Trying(b, k)) <= MaxAttempts + Cardinality(Pair) - 1
        /\ accepted[b][k] + Cardinality(B) <= Cardinality(Pair)
    BY DEF EmailInv, CodesAreBounded
  <2> HIDE DEF B, B2
  <2>4. Cardinality(B2) = Cardinality(B) - (IF c \in B THEN 1 ELSE 0) /\ Cardinality(B) \in Nat
    <3>1. Cardinality(B) \in Nat /\ (c \in B => Cardinality(B \ {c}) = Cardinality(B) - 1)
      BY <2>1, PairsCount, EmailNumbers
    <3>2. c \notin B => B2 = B
      BY <2>2
    <3> QED
      BY <2>2, <3>1, <3>2
  <2>5. accepted'[b][k] = accepted[b][k] + (IF c \in B THEN 1 ELSE 0) /\ accepted[b][k] \in Nat
    BY <1>5, <2>2
  <2>6. accepted'[b][k] + Cardinality(B2) <= Cardinality(Pair)
    BY <2>3, <2>4, <2>5, EmailNumbers
  <2> QED
    BY <1>1, <2>1, <2>3, <2>6 DEF B2
<1> QED
  BY <1>7, <1>8, <1>9 DEF EmailInv

\* The master code spends what is stored, and is no acceptance of a mailed code.
LEMMA VerifyMasterKeeps ==
  ASSUME Email!EmailAssumption, EmailInv, NEW c \in Pair, NEW a \in Account,
         Email!VerifyMaster(c, a)
  PROVE  EmailInv'
<1>1. /\ live' = [live EXCEPT ![a] = Email!Spend(a, mailCall[c].code)]
      /\ mailCall' = [mailCall EXCEPT ![c] = Email!Idle]
      /\ UNCHANGED <<kind, barred, mailed, mailExpired, attempts, sends, wrong, accepted>>
  BY DEF Email!VerifyMaster, Email!Done
<1>2. \A b \in Account : live'[b] \subseteq live[b]
  BY <1>1 DEF EmailInv, Email!TypeOK, Email!Spend
<1>3. \A d \in Pair : mailCall'[d] = IF d = c THEN Email!Idle ELSE mailCall[d]
  BY <1>1 DEF EmailInv, Email!TypeOK
<1>4. Email!TypeOK'
  <2>1. live' \in [Account -> SUBSET Email!Code]
    BY <1>1 DEF EmailInv, Email!TypeOK, Email!Spend
  <2> QED
    BY <1>1, <2>1 DEF EmailInv, Email!TypeOK
<1>5. MailedCodes'
  <2>1. \A b \in Account :
          /\ \A n \in live'[b] : n <= mailed'[b]
          /\ Email!IsLogin(b)' => \A m, n \in live'[b] : m = n
          /\ \A n \in Email!Code : wrong'[b][n] # 0 \/ accepted'[b][n] # 0 => n <= mailed'[b]
          /\ \A n \in live'[b] : wrong'[b][n] <= attempts'[b][n] /\ accepted'[b][n] = 0
    BY <1>1, <1>2 DEF EmailInv, MailedCodes, Email!IsLogin
  <2>2. \A d \in Pair, b \in Account :
          Email!At(d, "wrong", b)' \/ Email!At(d, "right", b)' =>
            /\ mailCall'[d].code <= mailed'[b]
            /\ Email!At(d, "right", b)' => mailCall'[d].code # 0
    BY <1>1, <1>3 DEF EmailInv, MailedCodes, Email!At, Email!Idle
  <2> QED
    BY <2>1, <2>2 DEF MailedCodes
<1>6. CodesAreBounded'
  BY <1>1, <1>3, EmailShrinks DEF EmailInv, Email!Idle
<1> QED
  BY <1>4, <1>5, <1>6 DEF EmailInv

\* A mailed code is given up after a bounded number of wrong tries, and accepted again only
\* by calls that had read it before it was spent, whatever the master code spends meanwhile.
THEOREM MailedCodesAreBounded ==
  Email!Spec => [](Email!TypeOK /\ WrongTriesAreBounded /\ Email!AcceptedTogetherOnly)
<1>1. Email!Init => EmailInv
  BY EmailInit, EmailHolds
<1>2. EmailInv /\ [Email!Next]_(Email!vars) => EmailInv'
  BY EmailHolds, EmailQuietKeeps, SendKeepsCodes, VerifyReadKeeps, VerifyWrongKeeps,
     VerifyRightKeeps, VerifyMasterKeeps
  DEF Email!Next, Email!SendLoginCode, Email!SendWorkerCode, Email!SendRegistrationCode,
      Email!VerifyLogin, Email!VerifyWorkerLogin, Email!VerifyRegistration, Email!Verify
<1>3. EmailInv => Email!TypeOK /\ WrongTriesAreBounded /\ Email!AcceptedTogetherOnly
  BY BoundsSuffice, EmailHolds DEF EmailInv
<1> QED
  BY <1>1, <1>2, <1>3, PTL DEF Email!Spec

-----------------------------------------------------------------------------
(***************************************************************************)
(* StoreSignIn.  As for the start code, the code of now was never used and *)
(* neither was any that is yet to come; here a code is used in the step    *)
(* that finds it.                                                          *)
(***************************************************************************)

\* The code of now is one of those made, and an accepted code is an earlier one.
StoreCodesAreSpent ==
  \A a \in Address :
    /\ storeCode[a] <= made[a]
    /\ \A n \in SignIn!Code :
         storeAccepted[a][n] # 0 => n \in 1 .. made[a] /\ n # storeCode[a]

SignInInv == SignIn!TypeOK /\ StoreCodesAreSpent /\ SignIn!AcceptedOnce

\* No code was made, and no store has registered.
LEMMA SignInInit == SignIn!SignInAssumption /\ SignIn!Init => SignInInv
  BY DEF SignIn!SignInAssumption, SignIn!Init, SignInInv, SignIn!TypeOK, StoreCodesAreSpent,
         SignIn!AcceptedOnce, SignIn!Code, SignIn!Idle

\* Accepting no code and making none, a step may forget codes.
LEMMA ForgettingKeeps ==
  ASSUME SignInInv, UNCHANGED <<made, storeAccepted>>,
         \A a \in Address : storeCode'[a] \in {0, storeCode[a]}
  PROVE  StoreCodesAreSpent' /\ SignIn!AcceptedOnce'
<1>1. \A a \in Address : storeCode'[a] <= made[a]
  <2>1. \A a \in Address : made[a] \in Nat /\ storeCode[a] <= made[a]
    BY DEF SignInInv, StoreCodesAreSpent, SignIn!TypeOK, SignIn!Code
  <2> QED
    BY <2>1
<1>2. \A a \in Address, n \in SignIn!Code :
        storeAccepted[a][n] # 0 => n \in 1 .. made[a] /\ n # storeCode'[a]
  BY DEF SignInInv, StoreCodesAreSpent, SignIn!TypeOK, SignIn!Code
<1> QED
  BY <1>1, <1>2 DEF SignInInv, StoreCodesAreSpent, SignIn!AcceptedOnce

\* What a request makes of the stores.
LEMMA StoreStepKeeps ==
  ASSUME SignIn!SignInAssumption, SignInInv, NEW c \in Pair,
         \/ SignIn!FindByAddress(c) \/ SignIn!FindApproved(c) \/ SignIn!LinkAddress(c)
         \/ SignIn!CreateStore(c) \/ SignIn!CallDies(c)
  PROVE  SignInInv'
<1> USE DEF SignInInv
<1>1. UNCHANGED <<storeCode, made, lapsed, storeAccepted>>
  BY DEF SignIn!FindByAddress, SignIn!FindApproved, SignIn!LinkAddress, SignIn!CreateStore,
         SignIn!CallDies, SignIn!codeVars
<1>2. storeCall[c] \in SignIn!Call
  BY DEF SignIn!FindByAddress, SignIn!FindApproved, SignIn!LinkAddress, SignIn!CreateStore,
         SignIn!CallDies, SignIn!At, SignIn!Idle, SignIn!TypeOK
<1>3. storeCall' \in [Pair -> SignIn!Call \cup {SignIn!Idle}]
  <2>1. CASE SignIn!FindApproved(c)
    <3>1. CASE approved = {} /\ SignIn!Goto(c, "create")
      BY <1>2, <3>1 DEF SignIn!Goto, SignIn!TypeOK, SignIn!Call
    <3>2. ASSUME NEW s \in approved,
                 storeCall' = [storeCall EXCEPT ![c].stage = "link", ![c].store = s]
          PROVE  storeCall' \in [Pair -> SignIn!Call \cup {SignIn!Idle}]
      <4>1. s \in Store
        BY DEF SignIn!TypeOK
      <4> QED
        BY <1>2, <3>2, <4>1 DEF SignIn!TypeOK, SignIn!Call
    <3> QED
      BY <2>1, <3>1, <3>2 DEF SignIn!FindApproved
  <2>2. CASE SignIn!FindByAddress(c)
    <3>1. CASE SignIn!Goto(c, "approved")
      BY <1>2, <3>1 DEF SignIn!Goto, SignIn!TypeOK, SignIn!Call
    <3>2. CASE SignIn!Done(c)
      BY <3>2 DEF SignIn!Done, SignIn!TypeOK
    <3> QED
      BY <2>2, <3>1, <3>2 DEF SignIn!FindByAddress
  <2>3. CASE SignIn!LinkAddress(c) \/ SignIn!CreateStore(c) \/ SignIn!CallDies(c)
    BY <2>3 DEF SignIn!LinkAddress, SignIn!CreateStore, SignIn!CallDies, SignIn!Done, SignIn!TypeOK
  <2> QED
    BY <2>1, <2>2, <2>3
<1>4. /\ stores' \in SUBSET Store /\ approved' \in SUBSET stores'
      /\ email' \in [Store -> Address \cup {NoAddress}]
  <2>1. storeCall[c].address \in Address /\ storeCall[c].store \in Store /\ Fresh \in Store
    BY <1>2 DEF SignIn!Call, SignIn!SignInAssumption
  <2>2. CASE UNCHANGED SignIn!storeVars
    BY <2>2 DEF SignIn!storeVars, SignIn!TypeOK
  <2>3. CASE SignIn!LinkAddress(c)
    BY <2>1, <2>3 DEF SignIn!LinkAddress, SignIn!TypeOK
  <2>4. CASE SignIn!CreateStore(c)
    BY <2>1, <2>4 DEF SignIn!CreateStore, SignIn!TypeOK
  <2> QED
    BY <2>2, <2>3, <2>4 DEF SignIn!FindByAddress, SignIn!FindApproved, SignIn!CallDies
<1>5. SignIn!TypeOK'
  BY <1>1, <1>3, <1>4 DEF SignIn!TypeOK
<1> QED
  BY <1>1, <1>5, ForgettingKeeps

\* A code is taken away as it is accepted, and by the master code too.
LEMMA StoreVerifyKeeps ==
  ASSUME SignIn!SignInAssumption, SignInInv, NEW c \in Pair, NEW a \in Address,
         SignIn!VerifyRight(c, a) \/ SignIn!VerifyMaster(c, a)
  PROVE  SignInInv'
<1> USE DEF SignInInv, SignIn!Begin
<1> DEFINE n == storeCode[a]
<1>1. n \in SignIn!Code /\ 0 \in SignIn!Code /\ made[a] \in Nat /\ n <= made[a]
  BY DEF SignIn!TypeOK, SignIn!Code, SignIn!SignInAssumption, StoreCodesAreSpent
<1>2. /\ storeCode' = [storeCode EXCEPT ![a] = 0] /\ UNCHANGED <<made, lapsed>>
      /\ UNCHANGED SignIn!storeVars
      /\ storeCall' = [storeCall EXCEPT ![c] = [stage |-> "find", address |-> a, store |-> Fresh]]
  BY DEF SignIn!VerifyRight, SignIn!VerifyMaster
<1>3. /\ storeCall' \in [Pair -> SignIn!Call \cup {SignIn!Idle}]
      /\ storeCode' \in [Address -> SignIn!Code]
  BY <1>1, <1>2 DEF SignIn!TypeOK, SignIn!Call, SignIn!SignInAssumption
<1>4. CASE SignIn!VerifyMaster(c, a)
  <2>1. UNCHANGED storeAccepted
    BY <1>4 DEF SignIn!VerifyMaster
  <2>2. \A b \in Address : storeCode'[b] \in {0, storeCode[b]}
    BY <1>2 DEF SignIn!TypeOK
  <2>3. SignIn!TypeOK'
    BY <1>2, <1>3, <2>1 DEF SignIn!TypeOK, SignIn!storeVars
  <2> QED
    BY <1>2, <2>1, <2>2, <2>3, ForgettingKeeps
<1>5. CASE SignIn!VerifyRight(c, a)
  <2>1. n # 0 /\ storeAccepted' = [storeAccepted EXCEPT ![a][n] = @ + 1]
    BY <1>5 DEF SignIn!VerifyRight
  <2>2. storeAccepted[a][n] = 0
    BY <1>1 DEF StoreCodesAreSpent, SignIn!TypeOK
  <2>3. storeAccepted' = [storeAccepted EXCEPT ![a] = [storeAccepted[a] EXCEPT ![n] = 1]]
    BY <1>1, <2>1, <2>2 DEF SignIn!TypeOK
  <2>4. storeAccepted[a] \in [SignIn!Code -> Nat]
    BY DEF SignIn!TypeOK
  <2>5. storeAccepted' \in [Address -> [SignIn!Code -> Nat]]
    <3>1. [storeAccepted[a] EXCEPT ![n] = 1] \in [SignIn!Code -> Nat]
      BY <2>4
    <3> QED
      BY <2>3, <3>1 DEF SignIn!TypeOK
  <2>6. \A b \in Address, m \in SignIn!Code :
          storeAccepted'[b][m] = IF b = a /\ m = n THEN 1 ELSE storeAccepted[b][m]
    BY <1>1, <2>3, <2>4 DEF SignIn!TypeOK
  <2>7. SignIn!TypeOK'
    BY <1>2, <1>3, <2>5 DEF SignIn!TypeOK, SignIn!storeVars
  <2>8. SignIn!AcceptedOnce'
    BY <2>6 DEF SignIn!AcceptedOnce
  <2>9. n \in 1 .. made[a]
    BY <1>1, <2>1 DEF SignIn!Code
  <2>10. \A b \in Address : storeCode'[b] = IF b = a THEN 0 ELSE storeCode[b]
    BY <1>2 DEF SignIn!TypeOK
  <2>11. StoreCodesAreSpent'
    <3> SUFFICES ASSUME NEW b \in Address
                 PROVE  /\ storeCode'[b] <= made[b]
                        /\ \A m \in SignIn!Code : storeAccepted'[b][m] # 0 =>
                             m \in 1 .. made[b] /\ m # storeCode'[b]
      BY <1>2 DEF StoreCodesAreSpent
    <3>1. CASE b # a
      BY <2>6, <2>10, <3>1 DEF StoreCodesAreSpent
    <3>2. CASE b = a
      <4>1. storeCode'[b] = 0
        BY <2>10, <3>2
      <4>2. \A m \in SignIn!Code : storeAccepted'[b][m] # 0 => m \in 1 .. made[b]
        BY <2>6, <2>9, <3>2 DEF StoreCodesAreSpent
      <4> QED
        BY <1>1, <3>2, <4>1, <4>2
    <3> QED
      BY <3>1, <3>2
  <2> QED
    BY <2>7, <2>8, <2>11
<1> QED
  BY <1>4, <1>5

\* A new code is one that was never used; the other steps make none.
LEMMA StoreRestKeeps ==
  ASSUME SignIn!SignInAssumption, SignInInv,
         \/ \E a \in Address : SignIn!SendOtp(a) \/ SignIn!OtpExpires(a)
         \/ \E s \in Store : \/ SignIn!SetStatus(s)
                             \/ \E a \in Address \cup {NoAddress} : SignIn!Register(s, a)
         \/ SignIn!Restart \/ UNCHANGED SignIn!vars
  PROVE  SignInInv'
<1> USE DEF SignInInv, SignIn!codeVars, SignIn!storeVars
<1>1. ASSUME NEW a \in Address, SignIn!SendOtp(a)
      PROVE  SignInInv'
  <2>1. made[a] \in Nat /\ made[a] + 1 \in SignIn!Code
    BY <1>1 DEF SignIn!SendOtp, SignIn!TypeOK, SignIn!Code
  <2>2. \A b \in Address : /\ b # a => storeCode'[b] = storeCode[b] /\ made'[b] = made[b]
                           /\ storeCode'[a] = made[a] + 1 /\ made'[a] = made[a] + 1
    BY <1>1 DEF SignIn!SendOtp, SignIn!TypeOK
  <2>3. SignIn!TypeOK'
    BY <1>1, <2>1 DEF SignIn!SendOtp, SignIn!TypeOK
  <2>4. SignIn!AcceptedOnce' /\ UNCHANGED storeAccepted
    BY <1>1 DEF SignIn!SendOtp, SignIn!AcceptedOnce
  <2>5. ASSUME NEW n \in SignIn!Code, storeAccepted[a][n] # 0
        PROVE  n \in 1 .. made'[a] /\ n # storeCode'[a]
    <3>1. n \in 1 .. made[a]
      BY <2>5 DEF StoreCodesAreSpent
    <3> QED
      BY <2>1, <2>2, <3>1
  <2>6. storeCode'[a] <= made'[a]
    BY <2>1, <2>2
  <2>7. StoreCodesAreSpent'
    BY <2>2, <2>4, <2>5, <2>6 DEF StoreCodesAreSpent
  <2> QED
    BY <2>3, <2>4, <2>7
<1>2. CASE \/ \E a \in Address : SignIn!OtpExpires(a)
           \/ \E s \in Store : \/ SignIn!SetStatus(s)
                               \/ \E a \in Address \cup {NoAddress} : SignIn!Register(s, a)
           \/ SignIn!Restart \/ UNCHANGED SignIn!vars
  <2> USE <1>2 DEF SignIn!OtpExpires, SignIn!SetStatus, SignIn!Register, SignIn!Restart,
                   SignIn!vars
  <2>1. UNCHANGED <<made, storeAccepted>> /\ 0 \in SignIn!Code
    BY DEF SignIn!Code, SignIn!SignInAssumption
  <2>2. \A a \in Address : storeCode'[a] \in {0, storeCode[a]}
    BY DEF SignIn!TypeOK
  <2>3. /\ storeCode' \in [Address -> SignIn!Code] /\ lapsed' \in SUBSET Address
        /\ storeCall' \in [Pair -> SignIn!Call \cup {SignIn!Idle}]
    BY <2>1 DEF SignIn!TypeOK
  <2>4. /\ stores' \in SUBSET Store /\ approved' \in SUBSET stores'
        /\ email' \in [Store -> Address \cup {NoAddress}]
    BY DEF SignIn!TypeOK
  <2>5. SignIn!TypeOK'
    BY <2>1, <2>3, <2>4 DEF SignIn!TypeOK
  <2> QED
    BY <2>1, <2>2, <2>5, ForgettingKeeps
<1> QED
  BY <1>1, <1>2

\* The codes, the stores and the calls in flight keep their types, and a code that is kept
\* in memory is accepted once.
LEMMA StoreCodesAreOneTime == SignIn!Spec => [](SignIn!TypeOK /\ SignIn!AcceptedOnce)
<1>1. SignIn!Init => SignInInv
  BY SignInInit, SignInHolds
<1>2. SignInInv /\ [SignIn!Next]_(SignIn!vars) => SignInInv'
  BY SignInHolds, StoreStepKeeps, StoreVerifyKeeps, StoreRestKeeps
  DEF SignIn!Next, SignIn!VerifyOtp
<1>3. SignInInv => SignIn!TypeOK /\ SignIn!AcceptedOnce
  BY DEF SignInInv
<1> QED
  BY <1>1, <1>2, <1>3, PTL DEF SignIn!Spec

\* So no call that begins after a code was spent gets in with it: not with a mailed one, nor
\* with one that is kept in memory (one that enters a master code still does).
THEOREM MailedCodesAreSpent == Email!Spec /\ SignIn!Spec => []AcceptedTogetherOnly
<1>1. Email!AcceptedTogetherOnly /\ SignIn!AcceptedOnce => AcceptedTogetherOnly
  BY DEF AcceptedTogetherOnly
<1> QED
  BY <1>1, MailedCodesAreBounded, StoreCodesAreOneTime, PTL

-----------------------------------------------------------------------------
(***************************************************************************)
(* LoginOtp.  While Redis has not been away, a code that was deleted is    *)
(* found neither there nor in the memory: a code is stored in Redis once,  *)
(* by the call that made it and before it reaches the phone.               *)
(***************************************************************************)

\* The numbers calls carry: a code, or the failures that were read.
CarriedNumbers ==
  \A c \in Pair :
    /\ smsCall[c].stage \in {"store", "delete", "success"} => smsCall[c].n \in Sms!Code
    /\ smsCall[c].stage = "count" => smsCall[c].n \in 0 .. MAX_FAILED_ATTEMPTS

\* n was deleted at p: it had reached the phone, and is stored nowhere.
Gone(p, n) == n \in known[p] /\ memory[p] # n /\ redis[p] # n

\* The call is at this stage with the code n of p.
Holds(c, stage, p, n) ==
  smsCall[c].stage = stage /\ smsCall[c].phone = p /\ smsCall[c].n = n

\* A code being stored, by one call, has not reached the phone; one being deleted has, and
\* one that was deleted is gone.
FoundCodes ==
  /\ redisUp
  /\ \A p \in Phone : \A n \in known[p] : n <= sent[p]
  /\ \A c \in Pair, p \in Phone, n \in Sms!Code :
       /\ Holds(c, "store", p, n) => n \notin known[p] /\ n <= sent[p]
       /\ Holds(c, "delete", p, n) => n \in known[p] /\ memory[p] # n
       /\ Holds(c, "success", p, n) => Gone(p, n)
       /\ \A d \in Pair : Holds(c, "store", p, n) /\ Holds(d, "store", p, n) => c = d
  /\ \A p \in Phone, n \in Sms!Code : smsAccepted[p][n] # 0 => Gone(p, n)

Finding(p, n) == {c \in Pair : Holds(c, "delete", p, n) \/ Holds(c, "success", p, n)}

FoundTogether ==
  \A p \in Phone, n \in Sms!Code :
    smsAccepted[p][n] + Cardinality(Finding(p, n)) <= Cardinality(Pair)

SmsInv ==
  Sms!TypeOK /\ CarriedNumbers /\ (~outage => FoundCodes /\ FoundTogether)

LEMMA SmsCounts ==
  \A S : Sms!Cardinality(S) = Cardinality(S) /\ (Sms!IsFiniteSet(S) <=> IsFiniteSet(S))
  BY DEF Sms!Cardinality, Cardinality, Sms!IsFiniteSet, IsFiniteSet

LEMMA SmsNumbers ==
  ASSUME Sms!LoginAssumption
  PROVE  /\ IsFiniteSet(Pair) /\ Cardinality(Pair) \in Nat
         /\ MAX_FAILED_ATTEMPTS \in Nat /\ MaxSms \in Nat
<1>1. IsFiniteSet(Pair)
  BY SmsCounts DEF Sms!LoginAssumption
<1>2. Cardinality(Pair) \in Nat
  BY <1>1, FS_CardinalityType
<1>3. MAX_FAILED_ATTEMPTS \in Nat /\ MaxSms \in Nat
  BY DEF Sms!LoginAssumption
<1> QED
  BY <1>1, <1>2, <1>3

\* No code was sent.
LEMMA SmsInit == Sms!LoginAssumption /\ Sms!Init => SmsInv
<1> SUFFICES ASSUME Sms!LoginAssumption, Sms!Init PROVE SmsInv
  OBVIOUS
<1> USE DEF Sms!Init
<1>1. Sms!TypeOK
  <2>1. 0 \in 0 .. MaxSms /\ 0 \in 0 .. MAX_FAILED_ATTEMPTS
    BY SmsNumbers
  <2> QED
    BY <2>1 DEF Sms!TypeOK
<1>2. CarriedNumbers /\ FoundCodes
  BY DEF CarriedNumbers, FoundCodes, Holds, Sms!Idle
<1>3. FoundTogether
  <2> SUFFICES ASSUME NEW p \in Phone, NEW n \in Sms!Code
               PROVE  smsAccepted[p][n] + Cardinality(Finding(p, n)) <= Cardinality(Pair)
    BY DEF FoundTogether
  <2>1. Finding(p, n) = {}
    BY DEF Finding, Holds, Sms!Idle
  <2>2. smsAccepted[p][n] = 0 /\ Cardinality(Finding(p, n)) = 0
    BY <2>1, FS_EmptySet
  <2> QED
    BY <2>2, SmsNumbers
<1> QED
  BY <1>1, <1>2, <1>3 DEF SmsInv

\* A step after which no more calls have found a code, and which accepts none.
LEMMA SmsShrinks ==
  ASSUME Sms!LoginAssumption, Sms!TypeOK, FoundTogether, UNCHANGED smsAccepted,
         \A d \in Pair :
           \/ smsCall'[d].stage \notin {"delete", "success"}
           \/ /\ smsCall[d].stage \in {"delete", "success"}
              /\ smsCall'[d].phone = smsCall[d].phone /\ smsCall'[d].n = smsCall[d].n
  PROVE  FoundTogether'
<1> SUFFICES ASSUME NEW p \in Phone, NEW n \in Sms!Code
             PROVE  smsAccepted'[p][n] + Cardinality(Finding(p, n)') <= Cardinality(Pair)
  BY DEF FoundTogether
<1> DEFINE A == Finding(p, n)
           A2 == Finding(p, n)'
<1>1. A \subseteq Pair /\ A2 \subseteq A
  BY DEF Finding, Holds
<1>2. smsAccepted[p][n] + Cardinality(A) <= Cardinality(Pair) /\ smsAccepted[p][n] \in Nat
  BY DEF FoundTogether, Sms!TypeOK
<1> HIDE DEF A, A2
<1>3. Cardinality(A2) <= Cardinality(A) /\ Cardinality(A2) \in Nat /\ Cardinality(A) \in Nat
  BY <1>1, SmsNumbers, FS_Subset, FS_CardinalityType
<1>4. smsAccepted[p][n] + Cardinality(A2) <= Cardinality(Pair)
  BY <1>2, <1>3, SmsNumbers
<1> QED
  BY <1>4 DEF A2

\* The world: what is stored goes, and calls end.
LEMMA SmsWorldKeeps ==
  ASSUME Sms!LoginAssumption, SmsInv,
         \/ \E p \in Phone : Sms!LockPasses(p) \/ \E n \in Sms!Code : Sms!CodeExpires(p, n)
         \/ Sms!Restart \/ Sms!RedisFails \/ Sms!RedisReturns \/ UNCHANGED Sms!vars
  PROVE  SmsInv'
<1> USE DEF Sms!storeVars, Sms!redisVars, Sms!lockVars
<1>1. /\ UNCHANGED <<sent, known, failures, tries, smsAccepted>>
      /\ redisUp' \in BOOLEAN /\ outage' \in BOOLEAN
      /\ lock' \in [Phone -> {"none", "held", "past"}]
      /\ outage => outage'
      /\ redisUp => redisUp' \/ outage'
  BY DEF Sms!LockPasses, Sms!CodeExpires, Sms!Restart, Sms!RedisFails, Sms!RedisReturns,
         Sms!vars, SmsInv, Sms!TypeOK
<1>2. \A p \in Phone : (memory'[p] = memory[p] \/ memory'[p] = 0)
                         /\ (redis'[p] = redis[p] \/ redis'[p] = 0)
  BY DEF Sms!LockPasses, Sms!CodeExpires, Sms!Restart, Sms!RedisFails, Sms!RedisReturns,
         Sms!vars, Sms!Without, SmsInv, Sms!TypeOK
<1>3. memory' \in [Phone -> 0 .. MaxSms] /\ redis' \in [Phone -> 0 .. MaxSms]
  <2>1. 0 \in 0 .. MaxSms
    BY SmsNumbers
  <2>2. CASE Sms!Restart \/ Sms!RedisReturns
    BY <2>1, <2>2 DEF Sms!Restart, Sms!RedisReturns, SmsInv, Sms!TypeOK
  <2>3. ASSUME NEW p \in Phone, NEW n \in Sms!Code, Sms!CodeExpires(p, n)
        PROVE  memory' \in [Phone -> 0 .. MaxSms] /\ redis' \in [Phone -> 0 .. MaxSms]
    BY <2>1, <2>3 DEF Sms!CodeExpires, Sms!Without, SmsInv, Sms!TypeOK
  <2>4. CASE (\E p \in Phone : Sms!LockPasses(p)) \/ Sms!RedisFails \/ UNCHANGED Sms!vars
    BY <2>4 DEF Sms!LockPasses, Sms!RedisFails, Sms!vars, SmsInv, Sms!TypeOK
  <2> QED
    BY <2>2, <2>3, <2>4
<1>4. /\ \A d \in Pair : smsCall'[d] = smsCall[d] \/ smsCall'[d] = Sms!Idle
      /\ smsCall' \in [Pair -> Sms!Call \cup {Sms!Idle}]
  BY DEF Sms!LockPasses, Sms!CodeExpires, Sms!Restart, Sms!RedisFails, Sms!RedisReturns,
         Sms!vars, SmsInv, Sms!TypeOK
<1>5. Sms!TypeOK'
  BY <1>1, <1>3, <1>4 DEF SmsInv, Sms!TypeOK
<1>6. CarriedNumbers'
  BY <1>4 DEF SmsInv, CarriedNumbers, Sms!Idle
<1>7. ASSUME ~outage' PROVE FoundCodes' /\ FoundTogether'
  <2>1. FoundCodes /\ FoundTogether /\ redisUp'
    BY <1>1, <1>7 DEF SmsInv, FoundCodes
  <2>2. \A p \in Phone, n \in Sms!Code : Gone(p, n) => Gone(p, n)'
    <3>1. 0 \notin Sms!Code
      BY DEF Sms!Code
    <3> QED
      BY <1>1, <1>2, <3>1 DEF Gone
  <2>3. \A d \in Pair : smsCall'[d].stage # "idle" =>
          /\ smsCall'[d] = smsCall[d] /\ smsCall[d] \in Sms!Call
          /\ smsCall[d].phone \in Phone
    BY <1>4 DEF Sms!Idle, SmsInv, Sms!TypeOK, Sms!Call
  <2>4. FoundCodes'
    <3>1. ASSUME NEW d \in Pair, NEW p \in Phone, NEW n \in Sms!Code
          PROVE  /\ Holds(d, "store", p, n)' => n \notin known'[p] /\ n <= sent'[p]
                 /\ Holds(d, "delete", p, n)' => n \in known'[p] /\ memory'[p] # n
                 /\ Holds(d, "success", p, n)' => Gone(p, n)'
                 /\ \A e \in Pair : Holds(d, "store", p, n)' /\ Holds(e, "store", p, n)' => d = e
      <4>1. \A e \in Pair, stage \in {"store", "delete", "success"} :
              Holds(e, stage, p, n)' => Holds(e, stage, p, n)
        BY <2>3 DEF Holds
      <4>2. memory[p] # n => memory'[p] # n
        BY <1>2 DEF Sms!Code
      <4> QED
        BY <1>1, <2>1, <2>2, <4>1, <4>2 DEF FoundCodes
    <3>2. \A p \in Phone : \A n \in known'[p] : n <= sent'[p]
      BY <1>1, <2>1 DEF FoundCodes
    <3>3. \A p \in Phone, n \in Sms!Code : smsAccepted'[p][n] # 0 => Gone(p, n)'
      BY <1>1, <2>1, <2>2 DEF FoundCodes
    <3> QED
      BY <2>1, <3>1, <3>2, <3>3 DEF FoundCodes
  <2>5. FoundTogether'
    BY <1>1, <1>4, <2>1, SmsShrinks DEF SmsInv, Sms!Idle
  <2> QED
    BY <2>4, <2>5
<1> QED
  BY <1>5, <1>6, <1>7 DEF SmsInv

\* A call that goes on as k.
LEMMA SmsMoves ==
  ASSUME Sms!TypeOK, NEW c \in Pair, NEW k \in Sms!Call \cup {Sms!Idle},
         smsCall' = [smsCall EXCEPT ![c] = k]
  PROVE  /\ smsCall' \in [Pair -> Sms!Call \cup {Sms!Idle}]
         /\ \A d \in Pair : smsCall'[d] = IF d = c THEN k ELSE smsCall[d]
         /\ \A d \in Pair \ {c} : \A stage, p, n : Holds(d, stage, p, n)' <=> Holds(d, stage, p, n)
         /\ \A stage, p, n :
              Holds(c, stage, p, n)' <=> k.stage = stage /\ k.phone = p /\ k.n = n
  BY DEF Sms!TypeOK, Holds

\* Where Goto takes a call.
LEMMA SmsGoes ==
  ASSUME Sms!TypeOK, NEW c \in Pair, smsCall[c].stage # "idle",
         NEW stage \in {"lookup", "delete", "success", "count"}, NEW n \in Nat,
         Sms!Goto(c, stage, n)
  PROVE  \E k \in Sms!Call :
           /\ smsCall' = [smsCall EXCEPT ![c] = k]
           /\ k.stage = stage /\ k.phone = smsCall[c].phone /\ k.n = n
<1> DEFINE k == [smsCall[c] EXCEPT !.stage = stage, !.n = n]
<1>1. smsCall[c] \in Sms!Call
  BY DEF Sms!TypeOK, Sms!Idle
<1>2. k \in Sms!Call /\ k.stage = stage /\ k.phone = smsCall[c].phone /\ k.n = n
  BY <1>1 DEF Sms!Call
<1>3. smsCall' = [smsCall EXCEPT ![c] = k]
  BY DEF Sms!Goto, Sms!TypeOK
<1> QED
  BY <1>2, <1>3

\* The lock and the counters touch no code.
LEMMA SmsQuietKeeps ==
  ASSUME Sms!LoginAssumption, SmsInv, NEW c \in Pair, NEW k \in Sms!Call \cup {Sms!Idle},
         smsCall' = [smsCall EXCEPT ![c] = k],
         k.stage \in {"idle", "unlock", "lookup", "count"},
         k.stage = "count" => k.n \in 0 .. MAX_FAILED_ATTEMPTS,
         UNCHANGED <<memory, redis, redisUp, outage, sent, known, smsAccepted>>,
         failures' \in [Phone -> 0 .. MAX_FAILED_ATTEMPTS],
         lock' \in [Phone -> {"none", "held", "past"}],
         tries' \in [Phone -> Nat]
  PROVE  SmsInv'
<1>0. Sms!TypeOK
  BY DEF SmsInv
<1>1. /\ smsCall' \in [Pair -> Sms!Call \cup {Sms!Idle}]
      /\ \A d \in Pair : smsCall'[d] = IF d = c THEN k ELSE smsCall[d]
      /\ \A d \in Pair \ {c} : \A stage, p, n : Holds(d, stage, p, n)' <=> Holds(d, stage, p, n)
      /\ \A stage, p, n :
           Holds(c, stage, p, n)' <=> k.stage = stage /\ k.phone = p /\ k.n = n
  BY <1>0, SmsMoves
<1>2. Sms!TypeOK'
  BY <1>0, <1>1 DEF Sms!TypeOK
<1>3. CarriedNumbers'
  BY <1>1 DEF SmsInv, CarriedNumbers
<1>4. ASSUME ~outage PROVE FoundCodes' /\ FoundTogether'
  <2>1. FoundCodes /\ FoundTogether
    BY <1>4 DEF SmsInv
  <2>2. \A d \in Pair, p \in Phone, n \in Sms!Code, stage \in {"store", "delete", "success"} :
          Holds(d, stage, p, n)' => Holds(d, stage, p, n)
    BY <1>1
  <2>3. FoundCodes'
    BY <2>1, <2>2 DEF FoundCodes, Gone
  <2>4. FoundTogether'
    BY <1>0, <1>1, <2>1, SmsShrinks
  <2> QED
    BY <2>3, <2>4
<1> QED
  BY <1>2, <1>3, <1>4 DEF SmsInv

LEMMA SmsLockKeeps ==
  ASSUME Sms!LoginAssumption, SmsInv, NEW c \in Pair, NEW p \in Phone,
         \/ Sms!VerifyBegin(c, p) \/ Sms!Unlock(c, p)
         \/ Sms!RecordFailureRead(c, p) \/ Sms!RecordFailureWrite(c, p)
  PROVE  SmsInv'
<1> USE DEF Sms!storeVars, Sms!redisVars, Sms!lockVars
<1>0. Sms!TypeOK /\ CarriedNumbers
  BY DEF SmsInv
<1>1. /\ failures[p] \in 0 .. MAX_FAILED_ATTEMPTS /\ failures[p] \in Nat
      /\ 0 \in 0 .. MAX_FAILED_ATTEMPTS
  BY <1>0, SmsNumbers DEF Sms!TypeOK
<1>2. UNCHANGED <<memory, redis, redisUp, outage, sent, known, smsAccepted>>
  BY DEF Sms!VerifyBegin, Sms!Unlock, Sms!RecordFailureRead, Sms!RecordFailureWrite
<1>3. CASE Sms!VerifyBegin(c, p)
  <2> DEFINE k == [stage |-> IF lock[p] = "past" THEN "unlock" ELSE "lookup",
                   phone |-> p, n |-> 0]
  <2>1. k \in Sms!Call /\ k.stage \in {"unlock", "lookup"}
    BY DEF Sms!Call
  <2>2. smsCall' = [smsCall EXCEPT ![c] = k] /\ UNCHANGED <<failures, lock, tries>>
    BY <1>3 DEF Sms!VerifyBegin, Sms!Begin
  <2> HIDE DEF k
  <2> QED
    BY <1>0, <1>2, <2>1, <2>2, SmsQuietKeeps DEF Sms!TypeOK
<1>4. CASE Sms!Unlock(c, p)
  <2>1. smsCall[c].stage # "idle" /\ Sms!Goto(c, "lookup", 0)
    BY <1>4 DEF Sms!Unlock, Sms!At
  <2>2. PICK k \in Sms!Call : smsCall' = [smsCall EXCEPT ![c] = k] /\ k.stage = "lookup"
    BY <1>0, <2>1, SmsGoes
  <2>3. /\ failures' \in [Phone -> 0 .. MAX_FAILED_ATTEMPTS]
        /\ lock' \in [Phone -> {"none", "held", "past"}] /\ tries' \in [Phone -> Nat]
    BY <1>0, <1>1, <1>4 DEF Sms!Unlock, Sms!TypeOK
  <2> QED
    BY <1>2, <2>2, <2>3, SmsQuietKeeps
<1>5. CASE Sms!RecordFailureRead(c, p)
  <2>1. smsCall[c].stage # "idle" /\ Sms!Goto(c, "count", failures[p])
    BY <1>5 DEF Sms!RecordFailureRead, Sms!At
  <2>2. PICK k \in Sms!Call :
          smsCall' = [smsCall EXCEPT ![c] = k] /\ k.stage = "count" /\ k.n = failures[p]
    BY <1>0, <1>1, <2>1, SmsGoes
  <2>3. UNCHANGED <<failures, lock, tries>>
    BY <1>5 DEF Sms!RecordFailureRead
  <2> QED
    BY <1>0, <1>1, <1>2, <2>2, <2>3, SmsQuietKeeps DEF Sms!TypeOK
<1>6. CASE Sms!RecordFailureWrite(c, p)
  <2>1. smsCall[c].n \in 0 .. MAX_FAILED_ATTEMPTS
    BY <1>0, <1>6 DEF Sms!RecordFailureWrite, Sms!At, CarriedNumbers
  <2>2. (IF smsCall[c].n < MAX_FAILED_ATTEMPTS THEN smsCall[c].n + 1 ELSE smsCall[c].n)
          \in 0 .. MAX_FAILED_ATTEMPTS
    BY <2>1, SmsNumbers
  <2>3. /\ failures' \in [Phone -> 0 .. MAX_FAILED_ATTEMPTS]
        /\ lock' \in [Phone -> {"none", "held", "past"}] /\ tries' \in [Phone -> Nat]
    BY <1>0, <1>6, <2>2 DEF Sms!RecordFailureWrite, Sms!TypeOK
  <2>4. smsCall' = [smsCall EXCEPT ![c] = Sms!Idle] /\ Sms!Idle.stage = "idle"
    BY <1>6 DEF Sms!RecordFailureWrite, Sms!Done, Sms!Idle
  <2> QED
    BY <1>2, <2>3, <2>4, SmsQuietKeeps
<1> QED
  BY <1>3, <1>4, <1>5, <1>6

\* The code that is sent is new.
LEMMA SmsSendKeeps ==
  ASSUME Sms!LoginAssumption, SmsInv, NEW c \in Pair, NEW p \in Phone,
         Sms!StoreMemory(c, p) \/ Sms!StoreRedis(c, p)
  PROVE  SmsInv'
<1> USE DEF Sms!storeVars, Sms!redisVars, Sms!lockVars
<1>0. Sms!TypeOK /\ CarriedNumbers
  BY DEF SmsInv
<1>1. CASE Sms!StoreMemory(c, p)
  <2> DEFINE m == sent[p] + 1
             k == [stage |-> "store", phone |-> p, n |-> m]
  <2>1. /\ m \in Sms!Code /\ smsCall[c] = Sms!Idle
        /\ smsCall' = [smsCall EXCEPT ![c] = k]
        /\ memory' = [memory EXCEPT ![p] = m] /\ sent' = [sent EXCEPT ![p] = m]
        /\ UNCHANGED <<redis, redisUp, outage, known, failures, lock, tries, smsAccepted>>
    BY <1>1 DEF Sms!StoreMemory, Sms!Begin
  <2>2. sent[p] \in Nat /\ m = sent[p] + 1
    BY <1>0 DEF Sms!TypeOK
  <2> HIDE DEF m
  <2>3. m \in 0 .. MaxSms /\ m \in Nat
    BY <2>1, SmsNumbers DEF Sms!Code
  <2>4. k \in Sms!Call /\ k.stage = "store" /\ k.phone = p /\ k.n = m
    BY <2>3 DEF Sms!Call
  <2> HIDE DEF k
  <2>5. /\ smsCall' \in [Pair -> Sms!Call \cup {Sms!Idle}]
        /\ \A d \in Pair : smsCall'[d] = IF d = c THEN k ELSE smsCall[d]
        /\ \A d \in Pair \ {c} : \A stage, q, n : Holds(d, stage, q, n)' <=> Holds(d, stage, q, n)
        /\ \A stage, q, n :
             Holds(c, stage, q, n)' <=> k.stage = stage /\ k.phone = q /\ k.n = n
    BY <1>0, <2>1, <2>4, SmsMoves
  <2>6. Sms!TypeOK'
    BY <1>0, <2>1, <2>3, <2>5 DEF Sms!TypeOK
  <2>7. CarriedNumbers'
    BY <1>0, <2>1, <2>4, <2>5 DEF CarriedNumbers
  <2>8. ASSUME ~outage PROVE FoundCodes' /\ FoundTogether'
    <3>1. FoundCodes /\ FoundTogether
      BY <2>8 DEF SmsInv
    <3>2. /\ \A q \in Phone : \A n \in known[q] : n \in Sms!Code /\ n <= sent[q]
          /\ \A q \in Phone, n \in Sms!Code : n <= sent[q] => n <= sent'[q]
          /\ m \notin known[p] /\ m <= sent'[p]
      BY <1>0, <2>1, <2>2, <3>1, SmsNumbers DEF FoundCodes, Sms!TypeOK, Sms!Code
    <3>4. \A q \in Phone, n \in Sms!Code :
            n \in known[q] /\ memory[q] # n => memory'[q] # n
      BY <1>0, <2>1, <3>2 DEF Sms!TypeOK
    <3>5. \A q \in Phone, n \in Sms!Code : Gone(q, n) => Gone(q, n)'
      BY <2>1, <3>4 DEF Gone
    <3>6. ASSUME NEW d \in Pair, NEW q \in Phone, NEW n \in Sms!Code
          PROVE  /\ Holds(d, "store", q, n)' => n \notin known'[q] /\ n <= sent'[q]
                 /\ Holds(d, "delete", q, n)' => n \in known'[q] /\ memory'[q] # n
                 /\ Holds(d, "success", q, n)' => Gone(q, n)'
                 /\ \A e \in Pair : Holds(d, "store", q, n)' /\ Holds(e, "store", q, n)' => d = e
      <4>1. CASE d = c
        <5>1. \A e \in Pair \ {c} : ~Holds(e, "store", p, m)
          BY <2>1, <2>2, <3>1 DEF FoundCodes
        <5> QED
          BY <2>1, <2>4, <2>5, <3>2, <4>1, <5>1
      <4>2. CASE d # c
        <5>1. ~Holds(d, "store", p, m)
          BY <2>1, <2>2, <3>1 DEF FoundCodes
        <5> QED
          BY <2>1, <2>4, <2>5, <3>1, <3>2, <3>4, <3>5, <4>2, <5>1 DEF FoundCodes
      <4> QED
        BY <4>1, <4>2
    <3>7. FoundCodes'
      BY <2>1, <3>1, <3>2, <3>5, <3>6 DEF FoundCodes
    <3>8. FoundTogether'
      BY <1>0, <2>1, <2>4, <2>5, <3>1, SmsShrinks
    <3> QED
      BY <3>7, <3>8
  <2> QED
    BY <2>1, <2>6, <2>7, <2>8 DEF SmsInv
<1>2. CASE Sms!StoreRedis(c, p)
  <2> DEFINE m == smsCall[c].n
  <2>1. /\ smsCall[c].stage = "store" /\ smsCall[c].phone = p
        /\ redis' = IF redisUp THEN [redis EXCEPT ![p] = m] ELSE redis
        /\ known' \in {known, [known EXCEPT ![p] = @ \cup {m}]}
        /\ smsCall' = [smsCall EXCEPT ![c] = Sms!Idle]
        /\ UNCHANGED <<memory, redisUp, outage, sent, failures, lock, tries, smsAccepted>>
    BY <1>2 DEF Sms!StoreRedis, Sms!At, Sms!SendViaTwilio, Sms!Done
  <2>2. m \in Sms!Code /\ m \in 0 .. MaxSms
    BY <1>0, <2>1, SmsNumbers DEF CarriedNumbers, Sms!Code
  <2>3. Holds(c, "store", p, m)
    BY <2>1 DEF Holds
  <2> HIDE DEF m
  <2>4. /\ smsCall' \in [Pair -> Sms!Call \cup {Sms!Idle}]
        /\ \A d \in Pair : smsCall'[d] = IF d = c THEN Sms!Idle ELSE smsCall[d]
        /\ \A d \in Pair \ {c} : \A stage, q, n : Holds(d, stage, q, n)' <=> Holds(d, stage, q, n)
        /\ \A stage, q, n : Holds(c, stage, q, n)' => stage = "idle"
    <3>1. Sms!Idle.stage = "idle" /\ Sms!Idle \in Sms!Call \cup {Sms!Idle}
      BY DEF Sms!Idle
    <3> QED
      BY <1>0, <2>1, <3>1, SmsMoves
  <2>5. Sms!TypeOK'
    <3>1. redis' \in [Phone -> 0 .. MaxSms]
      BY <1>0, <2>1, <2>2 DEF Sms!TypeOK
    <3>2. known' \in [Phone -> SUBSET Sms!Code]
      BY <1>0, <2>1, <2>2 DEF Sms!TypeOK
    <3> QED
      BY <1>0, <2>1, <2>4, <3>1, <3>2 DEF Sms!TypeOK
  <2>6. CarriedNumbers'
    BY <1>0, <2>1, <2>4 DEF CarriedNumbers, Sms!Idle
  <2>7. ASSUME ~outage PROVE FoundCodes' /\ FoundTogether'
    <3>1. FoundCodes /\ FoundTogether
      BY <2>7 DEF SmsInv
    <3>2. m \notin known[p] /\ m <= sent[p]
      BY <2>2, <2>3, <3>1 DEF FoundCodes
    <3>3. \A q \in Phone, n \in Sms!Code : Gone(q, n) => Gone(q, n)'
      BY <1>0, <2>1, <3>2 DEF Gone, Sms!TypeOK
    <3>4. \A q \in Phone, n \in Sms!Code :
            /\ n \in known'[q] => n \in known[q] \/ (q = p /\ n = m)
            /\ n \in known[q] => n \in known'[q]
      <4>1. known \in [Phone -> SUBSET Sms!Code]
        BY <1>0 DEF Sms!TypeOK
      <4>2. known' = known \/ known' = [known EXCEPT ![p] = known[p] \cup {m}]
        BY <2>1
      <4> QED
        BY <4>1, <4>2
    <3>5. \A q \in Phone, n \in Sms!Code : n \in known[q] => n \in known'[q]
      BY <3>4
    <3>6. ASSUME NEW d \in Pair, NEW q \in Phone, NEW n \in Sms!Code
          PROVE  /\ Holds(d, "store", q, n)' => n \notin known'[q] /\ n <= sent'[q]
                 /\ Holds(d, "delete", q, n)' => n \in known'[q] /\ memory'[q] # n
                 /\ Holds(d, "success", q, n)' => Gone(q, n)'
                 /\ \A e \in Pair : Holds(d, "store", q, n)' /\ Holds(e, "store", q, n)' => d = e
      <4>1. CASE d = c
        BY <2>4, <4>1
      <4>2. CASE d # c
        <5>1. ~Holds(d, "store", p, m)
          BY <2>2, <2>3, <3>1, <4>2 DEF FoundCodes
        <5>2. \A e \in Pair : Holds(e, "store", q, n)' => Holds(e, "store", q, n)
          BY <2>4
        <5> QED
          BY <2>1, <2>4, <3>1, <3>3, <3>4, <3>5, <4>2, <5>1, <5>2 DEF FoundCodes
      <4> QED
        BY <4>1, <4>2
    <3>7. \A q \in Phone : \A n \in known'[q] : n <= sent'[q]
      <4>1. \A q \in Phone : known'[q] \subseteq Sms!Code
        BY <2>5 DEF Sms!TypeOK
      <4> QED
        BY <2>1, <3>1, <3>2, <3>4, <4>1 DEF FoundCodes
    <3>8. FoundCodes'
      BY <2>1, <3>1, <3>3, <3>6, <3>7 DEF FoundCodes
    <3>9. FoundTogether'
      BY <1>0, <2>1, <2>4, <3>1, SmsShrinks DEF Sms!Idle
    <3> QED
      BY <3>8, <3>9
  <2> QED
    BY <2>1, <2>5, <2>6, <2>7 DEF SmsInv
<1> QED
  BY <1>1, <1>2

\* What is found has reached the phone and leaves the memory; then it leaves Redis; then it
\* is accepted.
LEMMA SmsFindKeeps ==
  ASSUME Sms!LoginAssumption, SmsInv, NEW c \in Pair, NEW p \in Phone,
         Sms!LookUp(c, p) \/ Sms!DeleteRedis(c, p)
  PROVE  SmsInv'
<1> USE DEF Sms!storeVars, Sms!redisVars, Sms!lockVars
<1>0. Sms!TypeOK /\ CarriedNumbers
  BY DEF SmsInv
<1> DEFINE n == IF Sms!LookUp(c, p) THEN Sms!Stored(p) ELSE smsCall[c].n
           to == IF Sms!LookUp(c, p) THEN "delete" ELSE "success"
<1>1. /\ smsCall[c].stage # "idle" /\ smsCall[c].phone = p
      /\ Sms!Goto(c, to, n) /\ n \in Sms!Code /\ to \in {"delete", "success"}
      /\ UNCHANGED <<redisUp, outage, sent, known, failures, lock, tries, smsAccepted>>
  <2>1. CASE Sms!LookUp(c, p)
    BY <1>0, <2>1 DEF Sms!LookUp, Sms!At, Sms!TypeOK
  <2>2. CASE ~Sms!LookUp(c, p)
    BY <1>0, <2>2 DEF Sms!DeleteRedis, Sms!At, CarriedNumbers
  <2> QED
    BY <2>1, <2>2
<1>2. /\ Sms!LookUp(c, p) => /\ n \in known[p] /\ (n = memory[p] \/ (redisUp /\ n = redis[p]))
                             /\ memory' = [memory EXCEPT ![p] = 0] /\ redis' = redis
                             /\ to = "delete" /\ smsCall[c].stage = "lookup"
      /\ ~Sms!LookUp(c, p) => /\ Holds(c, "delete", p, n) /\ memory' = memory
                              /\ redis' = IF redisUp THEN [redis EXCEPT ![p] = 0] ELSE redis
                              /\ to = "success"
  <2>1. CASE Sms!LookUp(c, p)
    <3>1. n = Sms!Stored(p) /\ to = "delete"
      BY <2>1
    <3>2. Sms!Stored(p) = memory[p] \/ (redisUp /\ Sms!Stored(p) = redis[p])
      BY DEF Sms!Stored
    <3>3. /\ Sms!Stored(p) \in known[p] /\ memory' = [memory EXCEPT ![p] = 0]
          /\ redis' = redis /\ smsCall[c].stage = "lookup"
      BY <2>1 DEF Sms!LookUp, Sms!At
    <3> HIDE DEF n, to
    <3> QED
      BY <2>1, <3>1, <3>2, <3>3
  <2>2. CASE ~Sms!LookUp(c, p)
    BY <2>2 DEF Sms!DeleteRedis, Sms!Deleted, Sms!At, Holds
  <2> QED
    BY <2>1, <2>2
<1> HIDE DEF n, to
<1>3. n \in Nat /\ n # 0
  BY <1>1 DEF Sms!Code
<1>4. PICK k \in Sms!Call :
        /\ smsCall' = [smsCall EXCEPT ![c] = k]
        /\ k.stage = to /\ k.phone = p /\ k.n = n
  BY <1>0, <1>1, <1>3, SmsGoes
<1>5. /\ smsCall' \in [Pair -> Sms!Call \cup {Sms!Idle}]
      /\ \A d \in Pair : smsCall'[d] = IF d = c THEN k ELSE smsCall[d]
      /\ \A d \in Pair \ {c} : \A stage, q, m : Holds(d, stage, q, m)' <=> Holds(d, stage, q, m)
      /\ \A stage, q, m :
           Holds(c, stage, q, m)' <=> k.stage = stage /\ k.phone = q /\ k.n = m
  BY <1>0, <1>4, SmsMoves
<1>6. /\ memory' \in [Phone -> 0 .. MaxSms] /\ redis' \in [Phone -> 0 .. MaxSms]
      /\ \A q \in Phone : memory'[q] \in {0, memory[q]} /\ redis'[q] \in {0, redis[q]}
  <2>1. 0 \in 0 .. MaxSms
    BY SmsNumbers
  <2> QED
    BY <1>0, <1>2, <2>1 DEF Sms!TypeOK
<1>7. Sms!TypeOK'
  BY <1>0, <1>1, <1>5, <1>6 DEF Sms!TypeOK
<1>8. CarriedNumbers'
  BY <1>0, <1>1, <1>4, <1>5 DEF CarriedNumbers
<1>9. ASSUME ~outage PROVE FoundCodes' /\ FoundTogether'
  <2>1. FoundCodes /\ FoundTogether /\ redisUp
    BY <1>9 DEF SmsInv, FoundCodes
  <2>2. \A q \in Phone, m \in Sms!Code :
          /\ memory[q] # m => memory'[q] # m
          /\ Gone(q, m) => Gone(q, m)'
    <3>1. \A m \in Sms!Code : m # 0
      BY DEF Sms!Code
    <3> QED
      BY <1>1, <1>6, <3>1 DEF Gone
  <2>3. n \in known[p] /\ memory'[p] # n /\ (to = "success" => redis'[p] # n)
    <3>1. CASE Sms!LookUp(c, p)
      BY <1>0, <1>2, <1>3, <3>1 DEF Sms!TypeOK
    <3>2. CASE ~Sms!LookUp(c, p)
      BY <1>0, <1>1, <1>2, <1>3, <2>1, <3>2 DEF FoundCodes, Sms!TypeOK
    <3> QED
      BY <3>1, <3>2
  <2>4. ASSUME NEW d \in Pair, NEW q \in Phone, NEW m \in Sms!Code
        PROVE  /\ Holds(d, "store", q, m)' => m \notin known'[q] /\ m <= sent'[q]
               /\ Holds(d, "delete", q, m)' => m \in known'[q] /\ memory'[q] # m
               /\ Holds(d, "success", q, m)' => Gone(q, m)'
               /\ \A e \in Pair : Holds(d, "store", q, m)' /\ Holds(e, "store", q, m)' => d = e
    <3>1. \A e \in Pair : Holds(e, "store", q, m)' => Holds(e, "store", q, m)
      BY <1>1, <1>4, <1>5
    <3>2. CASE d = c
      BY <1>1, <1>4, <1>5, <2>3, <3>2 DEF Gone
    <3>3. CASE d # c
      BY <1>1, <1>5, <2>1, <2>2, <3>1, <3>3 DEF FoundCodes
    <3> QED
      BY <3>2, <3>3
  <2>5. FoundCodes'
    BY <1>1, <2>1, <2>2, <2>4 DEF FoundCodes
  <2>6. FoundTogether'
    <3> SUFFICES ASSUME NEW q \in Phone, NEW m \in Sms!Code
                 PROVE  smsAccepted'[q][m] + Cardinality(Finding(q, m)') <= Cardinality(Pair)
      BY DEF FoundTogether
    <3> DEFINE A == Finding(q, m)
               A2 == Finding(q, m)'
               mine == q = p /\ m = n
    <3>1. A \in SUBSET Pair
      BY DEF Finding
    <3>2. A2 = IF mine THEN A \cup {c} ELSE A
      <4>1. Holds(c, "delete", q, m) \/ Holds(c, "success", q, m) => mine
        BY <1>1, <1>2 DEF Holds, Sms!DeleteRedis, n
      <4>2. Holds(c, "delete", q, m)' \/ Holds(c, "success", q, m)' <=> mine
        BY <1>1, <1>4, <1>5
      <4> QED
        BY <1>5, <4>1, <4>2 DEF Finding
    <3>3. smsAccepted[q][m] + Cardinality(A) <= Cardinality(Pair) /\ smsAccepted[q][m] \in Nat
      BY <1>0, <2>1 DEF FoundTogether, Sms!TypeOK
    <3>4. mine => smsAccepted[q][m] = 0 \/ c \in A
      <4>1. CASE Sms!LookUp(c, p)
        BY <1>1, <1>2, <2>1, <4>1 DEF FoundCodes, Gone
      <4>2. CASE ~Sms!LookUp(c, p)
        BY <1>2, <4>2 DEF Finding
      <4> QED
        BY <4>1, <4>2
    <3> HIDE DEF A, A2, mine
    <3>5. smsAccepted[q][m] + Cardinality(A2) <= Cardinality(Pair)
      <4>1. /\ Cardinality(A \cup {c}) \in Nat /\ Cardinality(A \cup {c}) <= Cardinality(Pair)
            /\ c \in A => A \cup {c} = A
        BY <3>1, PairsCount, SmsNumbers
      <4>2. CASE ~mine \/ c \in A
        BY <3>2, <3>3, <4>1, <4>2
      <4>3. CASE mine /\ c \notin A
        BY <3>2, <3>4, <4>1, <4>3, SmsNumbers
      <4> QED
        BY <4>2, <4>3
    <3> QED
      BY <1>1, <3>5 DEF A2
  <2> QED
    BY <2>5, <2>6
<1> QED
  BY <1>1, <1>7, <1>8, <1>9 DEF SmsInv

\* A code is accepted once for each call that has found it.
LEMMA SmsSuccessKeeps ==
  ASSUME Sms!LoginAssumption, SmsInv, NEW c \in Pair, NEW p \in Phone,
         Sms!RecordSuccess(c, p)
  PROVE  SmsInv'
<1> USE DEF Sms!storeVars, Sms!redisVars
<1> DEFINE n == smsCall[c].n
<1>0. Sms!TypeOK /\ CarriedNumbers
  BY DEF SmsInv
<1>1. /\ Holds(c, "success", p, n) /\ n \in Sms!Code
      /\ failures' = [failures EXCEPT ![p] = 0] /\ lock' = [lock EXCEPT ![p] = "none"]
      /\ tries' = [tries EXCEPT ![p] = 0]
      /\ smsAccepted' = IF outage THEN smsAccepted ELSE [smsAccepted EXCEPT ![p][n] = @ + 1]
      /\ smsCall' = [smsCall EXCEPT ![c] = Sms!Idle]
      /\ UNCHANGED <<memory, redis, redisUp, outage, sent, known>>
  BY <1>0 DEF Sms!RecordSuccess, Sms!At, Sms!Done, Holds, CarriedNumbers
<1> HIDE DEF n
<1>2. /\ smsCall' \in [Pair -> Sms!Call \cup {Sms!Idle}]
      /\ \A d \in Pair : smsCall'[d] = IF d = c THEN Sms!Idle ELSE smsCall[d]
      /\ \A d \in Pair \ {c} : \A stage, q, m : Holds(d, stage, q, m)' <=> Holds(d, stage, q, m)
      /\ \A stage, q, m : Holds(c, stage, q, m)' => stage = "idle"
  <2>1. Sms!Idle.stage = "idle" /\ Sms!Idle \in Sms!Call \cup {Sms!Idle}
    BY DEF Sms!Idle
  <2> QED
    BY <1>0, <1>1, <2>1, SmsMoves
<1>3. smsAccepted' \in [Phone -> [Sms!Code -> Nat]]
  BY <1>0, <1>1 DEF Sms!TypeOK
<1>4. Sms!TypeOK'
  <2>1. 0 \in 0 .. MAX_FAILED_ATTEMPTS
    BY SmsNumbers
  <2> QED
    BY <1>0, <1>1, <1>2, <1>3, <2>1 DEF Sms!TypeOK
<1>5. CarriedNumbers'
  BY <1>0, <1>2 DEF CarriedNumbers, Sms!Idle
<1>6. ASSUME ~outage PROVE FoundCodes' /\ FoundTogether'
  <2>1. FoundCodes /\ FoundTogether
    BY <1>6 DEF SmsInv
  <2>2. \A q \in Phone, m \in Sms!Code :
          /\ smsAccepted'[q][m] = smsAccepted[q][m] + (IF q = p /\ m = n THEN 1 ELSE 0)
          /\ smsAccepted[q][m] \in Nat
    BY <1>0, <1>1, <1>6 DEF Sms!TypeOK
  <2>3. Gone(p, n)
    BY <1>1, <2>1 DEF FoundCodes
  <2>4. \A q \in Phone, m \in Sms!Code : smsAccepted'[q][m] # 0 => Gone(q, m)'
    BY <1>1, <2>1, <2>2, <2>3 DEF FoundCodes, Gone
  <2>5. \A d \in Pair, q \in Phone, m \in Sms!Code, stage \in {"store", "delete", "success"} :
          Holds(d, stage, q, m)' => Holds(d, stage, q, m)
    BY <1>2
  <2>6. FoundCodes'
    BY <1>1, <2>1, <2>4, <2>5 DEF FoundCodes, Gone
  <2>7. FoundTogether'
    <3> SUFFICES ASSUME NEW q \in Phone, NEW m \in Sms!Code
                 PROVE  smsAccepted'[q][m] + Cardinality(Finding(q, m)') <= Cardinality(Pair)
      BY DEF FoundTogether
    <3> DEFINE A == Finding(q, m)
               A2 == Finding(q, m)'
    <3>1. A \in SUBSET Pair
      BY DEF Finding
    <3>2. A2 = A \ {c} /\ (c \in A <=> q = p /\ m = n)
      BY <1>1, <1>2 DEF Finding, Holds
    <3>3. smsAccepted[q][m] + Cardinality(A) <= Cardinality(Pair)
      BY <2>1 DEF FoundTogether
    <3> HIDE DEF A, A2
    <3>4. Cardinality(A) \in Nat /\ (c \in A => Cardinality(A \ {c}) = Cardinality(A) - 1)
      BY <3>1, PairsCount, SmsNumbers
    <3>5. c \notin A => A2 = A
      BY <3>2
    <3>6. smsAccepted'[q][m] + Cardinality(A2) <= Cardinality(Pair)
      <4>1. CASE c \in A
        <5>1. smsAccepted'[q][m] = smsAccepted[q][m] + 1 /\ smsAccepted[q][m] \in Nat
          BY <2>2, <3>2, <4>1
        <5>2. Cardinality(A2) = Cardinality(A) - 1
          BY <3>2, <3>4, <4>1
        <5> QED
          BY <3>3, <3>4, <5>1, <5>2, SmsNumbers
      <4>2. CASE c \notin A
        <5>1. smsAccepted'[q][m] = smsAccepted[q][m] /\ smsAccepted[q][m] \in Nat
          BY <2>2, <3>2, <4>2
        <5> QED
          BY <3>3, <3>5, <4>2, <5>1
      <4> QED
        BY <4>1, <4>2
    <3> QED
      BY <3>6 DEF A2
  <2> QED
    BY <2>6, <2>7
<1> QED
  BY <1>1, <1>4, <1>5, <1>6 DEF SmsInv

\* Every step keeps it.
LEMMA SmsStep == SmsInv /\ [Sms!Next]_(Sms!vars) => SmsInv'
  BY SmsHolds, SmsWorldKeeps, SmsLockKeeps, SmsSendKeeps, SmsFindKeeps, SmsSuccessKeeps
  DEF Sms!Next, Sms!Login, Sms!VerifyOtp

\* While Redis has not been away, a code by SMS is accepted again only by calls that found
\* it together.
THEOREM SmsCodesAreSpent == Sms!Spec => [](Sms!TypeOK /\ AcceptedTwiceTogetherOnly)
<1>1. Sms!Init => SmsInv
  BY SmsInit, SmsHolds
<1>2. SmsInv /\ [Sms!Next]_(Sms!vars) => SmsInv'
  BY SmsStep
<1>3. SmsInv => Sms!TypeOK /\ AcceptedTwiceTogetherOnly
  <2>1. \A p \in Phone, n \in Sms!Code :
          Finding(p, n) = {c \in Pair : smsCall[c].stage \in {"delete", "success"}
                                          /\ smsCall[c].phone = p /\ smsCall[c].n = n}
    BY DEF Finding, Holds
  <2> QED
    BY <2>1, SmsCounts
    DEF SmsInv, FoundTogether, AcceptedTwiceTogetherOnly, Sms!AcceptedTwiceTogetherOnly
<1> QED
  BY <1>1, <1>2, <1>3, PTL DEF Sms!Spec

-----------------------------------------------------------------------------
(***************************************************************************)
(* The lock.  The failures may fall, by a late write of an old count, so   *)
(* no count of them bounds the wrong codes.  What never comes back is how  *)
(* the calls stand: at each call is what it will write at worst, and for   *)
(* each k the calls at most at k are counted.  A wrong code that does not  *)
(* lock takes its call above some k; a late write brings others down, but  *)
(* only to above that k.  So the counts fall there, and below it none      *)
(* rises: the standing comes later in an order in which none comes again.  *)
(***************************************************************************)

\* At least so much, but for the one that is added, the call will write.
Levels(p) ==
  [c \in Pair |-> IF Sms!At(c, "count", p) /\ smsCall[c].n < failures[p]
                  THEN smsCall[c].n ELSE failures[p]]

StandOf(L) == [k \in Sms!Harmless |-> Cardinality({c \in Pair : L[c] <= k})]

\* s comes before t.
Before(s, t) ==
  \E k \in Sms!Harmless : t[k] < s[k] /\ \A j \in Sms!Harmless : j < k => t[j] <= s[j]

Passed(s) == {r \in Sms!Standing : Before(r, s)}

\* The calls that may still answer that the code is wrong.
Wrong(p) == {c \in Pair : Sms!At(c, "lookup", p) \/ Sms!At(c, "count", p)}

\* Before the lock comes, every wrong code has passed a standing; from then on, no call
\* comes to those that may still answer.
LockIsNearAt(p) ==
  IF lock[p] = "none"
  THEN tries[p] <= Cardinality(Passed(StandOf(Levels(p))))
  ELSE tries[p] + Cardinality(Wrong(p)) <= Sms!TriesBound

LockInv == SmsInv /\ \A p \in Phone : LockIsNearAt(p)

\* There are finitely many standings: a function is told by the pairs it consists of.
LEMMA StandingsAreFinite ==
  ASSUME Sms!LoginAssumption
  PROVE  /\ IsFiniteSet(Sms!Standing) /\ Cardinality(Sms!Standing) \in Nat
         /\ Sms!TriesBound = Cardinality(Sms!Standing) - 1 + Cardinality(Pair)
<1> DEFINE C == 0 .. Cardinality(Pair)
           Graph(s) == {e \in Sms!Harmless \X C : s[e[1]] = e[2]}
           graph == [s \in Sms!Standing |-> Graph(s)]
<1>1. IsFiniteSet(Sms!Harmless)
  <2>1. IsFiniteSet(0 .. MAX_FAILED_ATTEMPTS)
    BY SmsNumbers, FS_Interval
  <2>2. Sms!Harmless \subseteq 0 .. MAX_FAILED_ATTEMPTS
    BY DEF Sms!Harmless
  <2> QED
    BY <2>1, <2>2, FS_Subset
<1>2. IsFiniteSet(C)
  BY SmsNumbers, FS_Interval
<1>3. IsFiniteSet(SUBSET (Sms!Harmless \X C))
  BY <1>1, <1>2, FS_Product, FS_SUBSET
<1>4. Sms!Standing \subseteq [Sms!Harmless -> C]
  BY SmsCounts DEF Sms!Standing
<1> HIDE DEF C
<1>5. graph \in Injection(Sms!Standing, SUBSET (Sms!Harmless \X C))
  <2>1. graph \in [Sms!Standing -> SUBSET (Sms!Harmless \X C)]
    OBVIOUS
  <2>2. ASSUME NEW s \in Sms!Standing, NEW t \in Sms!Standing, graph[s] = graph[t]
        PROVE  s = t
    <3>1. s \in [Sms!Harmless -> C] /\ t \in [Sms!Harmless -> C]
      BY <1>4
    <3>2. ASSUME NEW k \in Sms!Harmless PROVE s[k] = t[k]
      <4>1. <<k, s[k]>> \in Graph(s)
        BY <3>1
      <4>2. <<k, s[k]>> \in Graph(t)
        BY <2>2, <4>1
      <4> QED
        BY <4>2
    <3> QED
      BY <3>1, <3>2
  <2> QED
    BY <2>1, <2>2 DEF Injection, IsInjective
<1>6. IsFiniteSet(Sms!Standing)
  BY <1>3, <1>5, FS_Injection
<1>7. Sms!TriesBound = Cardinality(Sms!Standing) - 1 + Cardinality(Pair)
  BY SmsCounts DEF Sms!TriesBound
<1> QED
  BY <1>6, <1>7, FS_CardinalityType

LEMMA StandOfIsStanding ==
  ASSUME Sms!LoginAssumption, NEW L \in [Pair -> Nat]
  PROVE  StandOf(L) \in Sms!Standing
<1> DEFINE UpTo(k) == {c \in Pair : L[c] <= k}
<1>1. Sms!Harmless \subseteq Nat
  BY SmsNumbers DEF Sms!Harmless
<1>2. \A k \in Sms!Harmless : /\ UpTo(k) \in SUBSET Pair /\ IsFiniteSet(UpTo(k))
                              /\ Cardinality(UpTo(k)) \in 0 .. Cardinality(Pair)
  BY SmsNumbers, FS_Subset, FS_CardinalityType
<1>3. ASSUME NEW j \in Sms!Harmless, NEW k \in Sms!Harmless, j <= k
      PROVE  Cardinality(UpTo(j)) <= Cardinality(UpTo(k))
  <2>1. UpTo(j) \subseteq UpTo(k)
    BY <1>1, <1>3
  <2> QED
    BY <1>2, <2>1, FS_Subset
<1> HIDE DEF UpTo
<1>4. StandOf(L) = [k \in Sms!Harmless |-> Cardinality(UpTo(k))]
  BY DEF StandOf, UpTo
<1> QED
  BY <1>2, <1>3, <1>4, SmsCounts DEF Sms!Standing

\* A standing was not passed when it comes, so another one is left.
LEMMA PassedOthers ==
  ASSUME Sms!LoginAssumption, NEW s \in Sms!Standing
  PROVE  /\ s \notin Passed(s) /\ IsFiniteSet(Passed(s)) /\ Cardinality(Passed(s)) \in Nat
         /\ Cardinality(Passed(s)) <= Cardinality(Sms!Standing) - 1
<1>1. s \notin Passed(s)
  <2>1. \A k \in Sms!Harmless : s[k] \in Int
    BY SmsCounts, SmsNumbers DEF Sms!Standing
  <2> QED
    BY <2>1 DEF Passed, Before
<1>2. /\ IsFiniteSet(Sms!Standing \ {s})
      /\ Cardinality(Sms!Standing \ {s}) = Cardinality(Sms!Standing) - 1
  BY StandingsAreFinite, FS_RemoveElement
<1>3. Passed(s) \subseteq Sms!Standing \ {s}
  BY <1>1 DEF Passed
<1>4. IsFiniteSet(Passed(s)) /\ Cardinality(Passed(s)) <= Cardinality(Sms!Standing \ {s})
  BY <1>2, <1>3, FS_Subset
<1> QED
  BY <1>1, <1>2, <1>4, FS_CardinalityType

\* Of two levels of the calls, at which fewer are at most at k.
LEMMA StandFalls ==
  ASSUME Sms!LoginAssumption, NEW L \in [Pair -> Nat], NEW M \in [Pair -> Nat],
         NEW k \in Sms!Harmless, \A c \in Pair : M[c] <= k => L[c] <= k
  PROVE  /\ StandOf(M)[k] \in Nat /\ StandOf(L)[k] \in Nat
         /\ StandOf(M)[k] <= StandOf(L)[k]
         /\ (\E c \in Pair : L[c] <= k /\ ~(M[c] <= k)) => StandOf(M)[k] < StandOf(L)[k]
<1> DEFINE A == {c \in Pair : L[c] <= k}
           B == {c \in Pair : M[c] <= k}
<1>1. B \subseteq A /\ A \subseteq Pair
  OBVIOUS
<1>2. (\E c \in Pair : L[c] <= k /\ ~(M[c] <= k)) => A # B
  OBVIOUS
<1>3. StandOf(L)[k] = Cardinality(A) /\ StandOf(M)[k] = Cardinality(B)
  BY DEF StandOf
<1> HIDE DEF A, B
<1>4. IsFiniteSet(A) /\ IsFiniteSet(B)
  BY <1>1, SmsNumbers, FS_Subset
<1>5. Cardinality(A) \in Nat /\ Cardinality(B) \in Nat
  BY <1>4, FS_CardinalityType
<1>6. Cardinality(B) <= Cardinality(A) /\ (Cardinality(A) = Cardinality(B) => A = B)
  BY <1>1, <1>4, FS_Subset
<1> QED
  BY <1>2, <1>3, <1>5, <1>6

\* Levels that do not fall leave the passed standings passed.
LEMMA RiseKeepsPassed ==
  ASSUME Sms!LoginAssumption, NEW L \in [Pair -> Nat], NEW M \in [Pair -> Nat],
         \A c \in Pair : L[c] <= M[c]
  PROVE  Cardinality(Passed(StandOf(L))) <= Cardinality(Passed(StandOf(M)))
<1>1. Sms!Harmless \subseteq Nat
  BY SmsNumbers DEF Sms!Harmless
<1>2. \A k \in Sms!Harmless : /\ StandOf(M)[k] \in Nat /\ StandOf(L)[k] \in Nat
                              /\ StandOf(M)[k] <= StandOf(L)[k]
  <2> SUFFICES ASSUME NEW k \in Sms!Harmless
               PROVE  /\ StandOf(M)[k] \in Nat /\ StandOf(L)[k] \in Nat
                      /\ StandOf(M)[k] <= StandOf(L)[k]
    OBVIOUS
  <2>1. \A c \in Pair : M[c] <= k => L[c] <= k
    <3> SUFFICES ASSUME NEW c \in Pair, M[c] <= k PROVE L[c] <= k
      OBVIOUS
    <3>1. L[c] \in Nat /\ M[c] \in Nat /\ L[c] <= M[c] /\ k \in Nat
      BY <1>1
    <3> QED
      BY <3>1
  <2> QED
    BY <2>1, StandFalls
<1>3. \A r \in Sms!Standing, k \in Sms!Harmless : r[k] \in Nat
  BY SmsCounts, SmsNumbers DEF Sms!Standing
<1>4. Passed(StandOf(L)) \subseteq Passed(StandOf(M))
  <2> SUFFICES ASSUME NEW r \in Sms!Standing, Before(r, StandOf(L))
               PROVE  Before(r, StandOf(M))
    BY DEF Passed
  <2>1. PICK k \in Sms!Harmless :
          /\ StandOf(L)[k] < r[k]
          /\ \A j \in Sms!Harmless : j < k => StandOf(L)[j] <= r[j]
    BY DEF Before
  <2>2. StandOf(M)[k] < r[k]
    BY <1>2, <1>3, <2>1
  <2>3. \A j \in Sms!Harmless : j < k => StandOf(M)[j] <= r[j]
    BY <1>2, <1>3, <2>1
  <2> QED
    BY <2>2, <2>3 DEF Before
<1> QED
  BY <1>4, StandOfIsStanding, PassedOthers, FS_Subset

\* A call that rises above j, while others fall only to above j, passes the standing.
LEMMA RisePasses ==
  ASSUME Sms!LoginAssumption, NEW L \in [Pair -> Nat], NEW M \in [Pair -> Nat],
         NEW j \in Sms!Harmless, NEW c \in Pair, L[c] <= j, j < M[c],
         \A d \in Pair : M[d] < L[d] => j < M[d]
  PROVE  Cardinality(Passed(StandOf(L))) + 1 <= Cardinality(Passed(StandOf(M)))
<1> DEFINE s == StandOf(L)
           t == StandOf(M)
<1>1. Sms!Harmless \subseteq Nat
  BY SmsNumbers DEF Sms!Harmless
<1>2. \A k \in Sms!Harmless : k <= j => /\ t[k] \in Nat /\ s[k] \in Nat /\ t[k] <= s[k]
                                        /\ k = j => t[k] < s[k]
  <2> SUFFICES ASSUME NEW k \in Sms!Harmless, k <= j
               PROVE  /\ t[k] \in Nat /\ s[k] \in Nat /\ t[k] <= s[k]
                      /\ k = j => t[k] < s[k]
    OBVIOUS
  <2>1. \A d \in Pair : M[d] <= k => L[d] <= k
    <3> SUFFICES ASSUME NEW d \in Pair, M[d] <= k PROVE L[d] <= k
      OBVIOUS
    <3>1. /\ L[d] \in Nat /\ M[d] \in Nat /\ k \in Nat /\ j \in Nat
          /\ M[d] < L[d] => j < M[d]
      BY <1>1
    <3> QED
      BY <3>1
  <2>2. k = j => L[c] <= k /\ ~(M[c] <= k)
    <3>1. M[c] \in Nat /\ j \in Nat
      BY <1>1
    <3> QED
      BY <3>1
  <2> QED
    BY <2>1, <2>2, StandFalls
<1>3. s \in Sms!Standing /\ t \in Sms!Standing
  BY StandOfIsStanding
<1> HIDE DEF s, t
<1>4. \A r \in Sms!Standing, k \in Sms!Harmless : r[k] \in Nat
  BY SmsCounts, SmsNumbers DEF Sms!Standing
<1>5. Before(s, t)
  <2>1. \A k \in Sms!Harmless : k < j => t[k] <= s[k]
    BY <1>1, <1>2
  <2>2. t[j] < s[j]
    BY <1>1, <1>2
  <2> QED
    BY <2>1, <2>2 DEF Before
<1>6. ASSUME NEW r \in Sms!Standing, Before(r, s) PROVE Before(r, t)
  <2>1. PICK k \in Sms!Harmless :
          s[k] < r[k] /\ \A i \in Sms!Harmless : i < k => s[i] <= r[i]
    BY <1>6 DEF Before
  <2>2. CASE k <= j
    <3>1. t[k] < r[k]
      BY <1>2, <1>4, <2>1, <2>2
    <3>2. ASSUME NEW i \in Sms!Harmless, i < k PROVE t[i] <= r[i]
      <4>1. i <= j
        BY <1>1, <2>2, <3>2
      <4> QED
        BY <1>2, <1>4, <2>1, <3>2, <4>1
    <3> QED
      BY <3>1, <3>2 DEF Before
  <2>3. CASE ~(k <= j)
    <3>1. j < k
      BY <1>1, <2>3
    <3>2. t[j] < r[j]
      <4>1. s[j] <= r[j] /\ t[j] < s[j]
        BY <1>1, <1>2, <2>1, <3>1
      <4> QED
        BY <1>3, <1>4, <4>1
    <3>3. ASSUME NEW i \in Sms!Harmless, i < j PROVE t[i] <= r[i]
      <4>1. i <= j /\ i < k
        BY <1>1, <3>1, <3>3
      <4> QED
        BY <1>2, <1>4, <2>1, <4>1
    <3> QED
      BY <3>2, <3>3 DEF Before
  <2> QED
    BY <2>2, <2>3
<1>7. Passed(s) \cup {s} \subseteq Passed(t)
  BY <1>3, <1>5, <1>6 DEF Passed
<1>8. /\ IsFiniteSet(Passed(s)) /\ s \notin Passed(s) /\ IsFiniteSet(Passed(t))
      /\ Cardinality(Passed(s)) \in Nat
  BY <1>3, PassedOthers
<1>9. Cardinality(Passed(s) \cup {s}) = Cardinality(Passed(s)) + 1
  BY <1>8, FS_AddElement
<1>10. Cardinality(Passed(s) \cup {s}) <= Cardinality(Passed(t))
  BY <1>7, <1>8, FS_Subset
<1> QED
  BY <1>9, <1>10 DEF s, t

\* The levels are numbers up to the failures, before a step as after it.
LEMMA LevelsAre ==
  ASSUME Sms!LoginAssumption, SmsInv, NEW p \in Phone
  PROVE  /\ Levels(p) \in [Pair -> Nat] /\ failures[p] \in Nat
         /\ \A c \in Pair : Levels(p)[c] \in Nat /\ Levels(p)[c] <= failures[p]
<1>1. failures[p] \in Nat
  BY SmsNumbers DEF SmsInv, Sms!TypeOK
<1>2. \A c \in Pair : Sms!At(c, "count", p) => smsCall[c].n \in Nat
  BY SmsNumbers DEF SmsInv, CarriedNumbers, Sms!At
<1>3. \A c \in Pair : Levels(p)[c] \in Nat /\ Levels(p)[c] <= failures[p]
  BY <1>1, <1>2 DEF Levels
<1> QED
  BY <1>1, <1>3 DEF Levels

LEMMA LevelsBecome ==
  ASSUME Sms!LoginAssumption, SmsInv', NEW p \in Phone
  PROVE  Levels(p)' \in [Pair -> Nat]
<1>1. failures'[p] \in Nat
  BY SmsNumbers DEF SmsInv, Sms!TypeOK
<1>2. \A c \in Pair : Sms!At(c, "count", p)' => smsCall'[c].n \in Nat
  BY SmsNumbers DEF SmsInv, CarriedNumbers, Sms!At
<1> QED
  BY <1>1, <1>2 DEF Levels

LEMMA LockInit == Sms!LoginAssumption /\ Sms!Init => LockInv
<1> SUFFICES ASSUME Sms!LoginAssumption, Sms!Init PROVE LockInv
  OBVIOUS
<1>1. SmsInv
  BY SmsInit
<1>2. ASSUME NEW p \in Phone PROVE LockIsNearAt(p)
  <2>1. lock[p] = "none" /\ tries[p] = 0
    BY DEF Sms!Init
  <2>2. Cardinality(Passed(StandOf(Levels(p)))) \in Nat
    BY <1>1, LevelsAre, StandOfIsStanding, PassedOthers
  <2> QED
    BY <2>1, <2>2 DEF LockIsNearAt
<1> QED
  BY <1>1, <1>2 DEF LockInv

\* Once the counters are reset, nothing was answered yet.
LEMMA ResetIsNear ==
  ASSUME Sms!LoginAssumption, SmsInv', NEW p \in Phone, lock'[p] = "none", tries'[p] = 0
  PROVE  LockIsNearAt(p)'
<1>1. Cardinality(Passed(StandOf(Levels(p)'))) \in Nat
  BY LevelsBecome, StandOfIsStanding, PassedOthers
<1> QED
  BY <1>1 DEF LockIsNearAt

\* A step that answers no call at p as wrong, and starts none there unless no lock has
\* come: the calls in flight go on with what they read, or read the failures of now.
LEMMA QuietIsNear ==
  ASSUME Sms!LoginAssumption, SmsInv, SmsInv', NEW p \in Phone, LockIsNearAt(p),
         failures'[p] = failures[p], tries'[p] = tries[p],
         lock'[p] = "none" <=> lock[p] = "none",
         \A c \in Pair :
           /\ Sms!At(c, "count", p)' =>
                \/ Sms!At(c, "count", p) /\ smsCall'[c].n = smsCall[c].n
                \/ Sms!At(c, "lookup", p) /\ smsCall'[c].n = failures[p]
           /\ Sms!At(c, "lookup", p)' => Sms!At(c, "lookup", p) \/ lock[p] = "none"
  PROVE  LockIsNearAt(p)'
<1>1. tries[p] \in Nat /\ tries'[p] \in Nat
  BY DEF SmsInv, Sms!TypeOK
<1>2. CASE lock[p] = "none"
  <2> DEFINE L == Levels(p)
             M == Levels(p)'
  <2>1. L \in [Pair -> Nat] /\ M \in [Pair -> Nat]
    BY LevelsAre, LevelsBecome
  <2>2. \A c \in Pair : L[c] <= M[c]
    <3> SUFFICES ASSUME NEW c \in Pair PROVE L[c] <= M[c]
      OBVIOUS
    <3>1. L[c] \in Nat /\ L[c] <= failures[p] /\ failures[p] \in Nat
      BY LevelsAre
    <3>2. CASE M[c] = failures'[p]
      BY <3>1, <3>2
    <3>3. CASE M[c] # failures'[p]
      <4>1. /\ Sms!At(c, "count", p)' /\ smsCall'[c].n < failures'[p]
            /\ M[c] = smsCall'[c].n
        BY <3>3 DEF Levels
      <4>2. Sms!At(c, "count", p) /\ smsCall'[c].n = smsCall[c].n
        BY <3>3, <4>1
      <4> QED
        BY <3>1, <4>1, <4>2 DEF Levels
    <3> QED
      BY <3>2, <3>3
  <2> HIDE DEF L, M
  <2>3. Cardinality(Passed(StandOf(L))) <= Cardinality(Passed(StandOf(M)))
    BY <2>1, <2>2, RiseKeepsPassed
  <2>4. /\ Cardinality(Passed(StandOf(L))) \in Nat /\ Cardinality(Passed(StandOf(M))) \in Nat
    BY <2>1, StandOfIsStanding, PassedOthers
  <2>5. tries[p] <= Cardinality(Passed(StandOf(L)))
    BY <1>2 DEF LockIsNearAt, L
  <2>6. tries'[p] <= Cardinality(Passed(StandOf(M)))
    BY <1>1, <2>3, <2>4, <2>5
  <2> QED
    BY <1>2, <2>6 DEF LockIsNearAt, M
<1>3. CASE lock[p] # "none"
  <2> DEFINE W == Wrong(p)
             V == Wrong(p)'
  <2>1. V \subseteq W /\ W \subseteq Pair
    BY <1>3 DEF Wrong
  <2>2. tries[p] + Cardinality(W) <= Sms!TriesBound
    BY <1>3 DEF LockIsNearAt
  <2> HIDE DEF V, W
  <2>3. IsFiniteSet(W) /\ IsFiniteSet(V) /\ Cardinality(V) <= Cardinality(W)
    BY <2>1, SmsNumbers, FS_Subset
  <2>4. Cardinality(W) \in Nat /\ Cardinality(V) \in Nat
    BY <2>3, FS_CardinalityType
  <2>5. tries'[p] + Cardinality(V) <= Sms!TriesBound
    BY <1>1, <2>2, <2>3, <2>4, StandingsAreFinite, SmsNumbers
  <2> QED
    BY <1>3, <2>5 DEF LockIsNearAt, V
<1> QED
  BY <1>2, <1>3

\* A call that goes on without an answer as k.
LEMMA CallIsNear ==
  ASSUME Sms!LoginAssumption, LockInv, SmsInv', NEW c \in Pair,
         NEW k \in Sms!Call \cup {Sms!Idle}, smsCall' = [smsCall EXCEPT ![c] = k],
         NEW p \in Phone,
         failures'[p] = failures[p], tries'[p] = tries[p], lock'[p] = lock[p],
         k.stage = "count" /\ k.phone = p => Sms!At(c, "lookup", p) /\ k.n = failures[p],
         k.stage = "lookup" /\ k.phone = p => lock[p] = "none"
  PROVE  LockIsNearAt(p)'
<1>1. \A d \in Pair : smsCall'[d] = IF d = c THEN k ELSE smsCall[d]
  BY DEF LockInv, SmsInv, Sms!TypeOK
<1>2. ASSUME NEW d \in Pair
      PROVE  /\ Sms!At(d, "count", p)' =>
                  \/ Sms!At(d, "count", p) /\ smsCall'[d].n = smsCall[d].n
                  \/ Sms!At(d, "lookup", p) /\ smsCall'[d].n = failures[p]
             /\ Sms!At(d, "lookup", p)' => Sms!At(d, "lookup", p) \/ lock[p] = "none"
  <2>1. CASE d = c
    BY <1>1, <2>1 DEF Sms!At
  <2>2. CASE d # c
    BY <1>1, <2>2 DEF Sms!At
  <2> QED
    BY <2>1, <2>2
<1> QED
  BY <1>2, QuietIsNear DEF LockInv

\* A wrong code that does not lock the phone: the call rises above what it would write at
\* worst before, and what the others would write falls at most to where it stands now.
LEMMA HarmlessWriteIsNear ==
  ASSUME Sms!LoginAssumption, LockInv, SmsInv', NEW c \in Pair, NEW p \in Phone,
         Sms!RecordFailureWrite(c, p), lock[p] = "none", lock'[p] = "none"
  PROVE  LockIsNearAt(p)'
<1> DEFINE n == smsCall[c].n
           L == Levels(p)
           M == Levels(p)'
           j == IF n < failures[p] THEN n ELSE failures[p]
<1>1. SmsInv /\ Sms!At(c, "count", p) /\ tries[p] \in Nat
  BY DEF LockInv, SmsInv, Sms!TypeOK, Sms!RecordFailureWrite
<1>2. n \in Nat /\ n <= MAX_FAILED_ATTEMPTS /\ MAX_FAILED_ATTEMPTS \in Nat
  BY <1>1, SmsNumbers DEF SmsInv, CarriedNumbers, Sms!At
<1>3. /\ n + 1 < MAX_FAILED_ATTEMPTS
      /\ failures'[p] = n + 1 /\ tries'[p] = tries[p] + 1
      /\ smsCall' = [smsCall EXCEPT ![c] = Sms!Idle]
  <2> DEFINE newCount == IF n < MAX_FAILED_ATTEMPTS THEN n + 1 ELSE n
  <2>1. /\ failures' = [failures EXCEPT ![p] = newCount]
        /\ lock' = [lock EXCEPT ![p] = IF newCount >= MAX_FAILED_ATTEMPTS THEN "held" ELSE @]
        /\ tries' = [tries EXCEPT ![p] = @ + 1]
        /\ smsCall' = [smsCall EXCEPT ![c] = Sms!Idle]
    BY DEF Sms!RecordFailureWrite, Sms!Done
  <2> HIDE DEF newCount
  <2>2. /\ failures'[p] = newCount /\ tries'[p] = tries[p] + 1
        /\ lock'[p] = IF newCount >= MAX_FAILED_ATTEMPTS THEN "held" ELSE lock[p]
    BY <1>1, <2>1 DEF SmsInv, Sms!TypeOK
  <2>3. ~(newCount >= MAX_FAILED_ATTEMPTS)
    BY <2>2
  <2> QED
    BY <1>2, <2>1, <2>2, <2>3 DEF newCount
<1>4. /\ L \in [Pair -> Nat] /\ M \in [Pair -> Nat] /\ failures[p] \in Nat
      /\ \A d \in Pair : L[d] \in Nat /\ M[d] \in Nat /\ L[d] <= failures[p]
  BY <1>1, LevelsAre, LevelsBecome
<1>5. j \in Nat /\ j <= n /\ j <= failures[p]
  BY <1>2, <1>4
<1>6. j \in Sms!Harmless
  BY <1>2, <1>3, <1>5 DEF Sms!Harmless
<1>7. L[c] = j
  BY <1>1 DEF Levels
<1>8. \A d \in Pair : smsCall'[d] = IF d = c THEN Sms!Idle ELSE smsCall[d]
  BY <1>1, <1>3 DEF SmsInv, Sms!TypeOK
<1>9. M[c] = n + 1
  <2>1. ~Sms!At(c, "count", p)'
    BY <1>8 DEF Sms!At, Sms!Idle
  <2> QED
    BY <1>3, <2>1 DEF Levels
<1>10. ASSUME NEW d \in Pair, M[d] < L[d] PROVE j < M[d]
  <2>1. CASE M[d] = n + 1
    BY <1>2, <1>5, <2>1
  <2>2. CASE M[d] # n + 1
    <3>1. Sms!At(d, "count", p)' /\ M[d] = smsCall'[d].n /\ M[d] < n + 1
      BY <1>3, <2>2 DEF Levels
    <3>2. d # c
      BY <1>9, <2>2
    <3>3. Sms!At(d, "count", p) /\ M[d] = smsCall[d].n
      BY <1>8, <3>1, <3>2 DEF Sms!At
    <3>4. L[d] = IF M[d] < failures[p] THEN M[d] ELSE failures[p]
      BY <3>3 DEF Levels
    <3> HIDE DEF L, M
    <3> QED
      BY <1>4, <1>10, <3>4
  <2> QED
    BY <2>1, <2>2
<1> HIDE DEF j, L, M
<1>11. L[c] <= j /\ j < M[c]
  BY <1>2, <1>5, <1>7, <1>9
<1>12. Cardinality(Passed(StandOf(L))) + 1 <= Cardinality(Passed(StandOf(M)))
  BY <1>4, <1>6, <1>10, <1>11, RisePasses
<1>13. tries[p] <= Cardinality(Passed(StandOf(L)))
  BY DEF LockInv, LockIsNearAt, L
<1>14. Cardinality(Passed(StandOf(L))) \in Nat /\ Cardinality(Passed(StandOf(M))) \in Nat
  BY <1>4, StandOfIsStanding, PassedOthers
<1>15. tries'[p] <= Cardinality(Passed(StandOf(M)))
  BY <1>1, <1>3, <1>12, <1>13, <1>14
<1> QED
  BY <1>15 DEF LockIsNearAt, M

\* The wrong code that locks the phone, or comes after that: the call is one of those that
\* may still answer, and there are no more of these than calls.
LEMMA LockedWriteIsNear ==
  ASSUME Sms!LoginAssumption, LockInv, SmsInv', NEW c \in Pair, NEW p \in Phone,
         Sms!RecordFailureWrite(c, p), lock'[p] # "none"
  PROVE  LockIsNearAt(p)'
<1> DEFINE W == Wrong(p)
           V == Wrong(p)'
<1>1. /\ SmsInv /\ Sms!At(c, "count", p) /\ tries[p] \in Nat /\ tries'[p] = tries[p] + 1
      /\ \A d \in Pair : smsCall'[d] = IF d = c THEN Sms!Idle ELSE smsCall[d]
  BY DEF LockInv, SmsInv, Sms!TypeOK, Sms!RecordFailureWrite, Sms!Done
<1>2. c \in W /\ W \in SUBSET Pair
  BY <1>1 DEF Wrong
<1>3. V = W \ {c}
  <2>1. ~Sms!At(c, "lookup", p)' /\ ~Sms!At(c, "count", p)'
    BY <1>1 DEF Sms!At, Sms!Idle
  <2>2. \A d \in Pair \ {c}, stage \in {"lookup", "count"} :
          Sms!At(d, stage, p)' <=> Sms!At(d, stage, p)
    BY <1>1 DEF Sms!At
  <2> QED
    BY <2>1, <2>2 DEF Wrong
<1> HIDE DEF V, W
<1>4. /\ Cardinality(W) \in Nat /\ Cardinality(W) <= Cardinality(Pair)
      /\ Cardinality(V) = Cardinality(W) - 1
  BY <1>2, <1>3, PairsCount, SmsNumbers
<1>5. tries'[p] + Cardinality(V) <= Sms!TriesBound
  <2>1. CASE lock[p] = "none"
    <3>1. tries[p] <= Cardinality(Passed(StandOf(Levels(p))))
      BY <2>1 DEF LockInv, LockIsNearAt
    <3>2. /\ Cardinality(Passed(StandOf(Levels(p)))) \in Nat
          /\ Cardinality(Passed(StandOf(Levels(p)))) <= Cardinality(Sms!Standing) - 1
      BY <1>1, LevelsAre, StandOfIsStanding, PassedOthers
    <3> QED
      BY <1>1, <1>4, <3>1, <3>2, StandingsAreFinite, SmsNumbers
  <2>2. CASE lock[p] # "none"
    <3>1. tries[p] + Cardinality(W) <= Sms!TriesBound
      BY <2>2 DEF LockInv, LockIsNearAt, W
    <3> QED
      BY <1>1, <1>4, <3>1, StandingsAreFinite, SmsNumbers
  <2> QED
    BY <2>1, <2>2
<1> QED
  BY <1>5 DEF LockIsNearAt, V

\* What the world does.
LEMMA LockWorldKeeps ==
  ASSUME Sms!LoginAssumption, LockInv, SmsInv',
         \/ \E p \in Phone : Sms!LockPasses(p) \/ \E n \in Sms!Code : Sms!CodeExpires(p, n)
         \/ Sms!Restart \/ Sms!RedisFails \/ Sms!RedisReturns \/ UNCHANGED Sms!vars
  PROVE  LockInv'
<1> SUFFICES ASSUME NEW q \in Phone PROVE LockIsNearAt(q)'
  BY DEF LockInv
<1> USE DEF Sms!lockVars
<1>1. /\ UNCHANGED <<failures, tries>>
      /\ lock' = lock \/ \E p \in Phone : lock[p] = "held" /\ lock' = [lock EXCEPT ![p] = "past"]
      /\ \A c \in Pair : smsCall'[c] = smsCall[c] \/ smsCall'[c] = Sms!Idle
  BY DEF Sms!LockPasses, Sms!CodeExpires, Sms!Restart, Sms!RedisFails, Sms!RedisReturns,
         Sms!vars
<1>2. lock'[q] = "none" <=> lock[q] = "none"
  BY <1>1 DEF LockInv, SmsInv, Sms!TypeOK
<1>3. \A c \in Pair, stage \in {"lookup", "count"} :
        Sms!At(c, stage, q)' => Sms!At(c, stage, q) /\ smsCall'[c] = smsCall[c]
  BY <1>1 DEF Sms!At, Sms!Idle
<1> QED
  BY <1>1, <1>2, <1>3, QuietIsNear DEF LockInv

\* The requests that answer nothing as wrong.
LEMMA LockCallKeeps ==
  ASSUME Sms!LoginAssumption, LockInv, SmsInv', NEW c \in Pair, NEW p \in Phone,
         \/ Sms!StoreMemory(c, p) \/ Sms!StoreRedis(c, p) \/ Sms!VerifyBegin(c, p)
         \/ Sms!LookUp(c, p) \/ Sms!DeleteRedis(c, p) \/ Sms!RecordFailureRead(c, p)
  PROVE  LockInv'
<1> SUFFICES ASSUME NEW q \in Phone PROVE LockIsNearAt(q)'
  BY DEF LockInv
<1> USE DEF Sms!lockVars
<1>0. Sms!TypeOK /\ CarriedNumbers
  BY DEF LockInv, SmsInv
<1>1. UNCHANGED <<failures, lock, tries>>
  BY DEF Sms!StoreMemory, Sms!StoreRedis, Sms!VerifyBegin, Sms!LookUp, Sms!DeleteRedis,
         Sms!RecordFailureRead
<1>2. CASE Sms!StoreMemory(c, p)
  <2> DEFINE k == [stage |-> "store", phone |-> p, n |-> sent[p] + 1]
  <2>1. smsCall' = [smsCall EXCEPT ![c] = k]
    BY <1>2 DEF Sms!StoreMemory, Sms!Begin
  <2>2. k \in Sms!Call /\ k.stage = "store"
    BY <1>0 DEF Sms!Call, Sms!TypeOK
  <2> HIDE DEF k
  <2> QED
    BY <1>1, <2>1, <2>2, CallIsNear
<1>3. CASE Sms!StoreRedis(c, p)
  <2>1. smsCall' = [smsCall EXCEPT ![c] = Sms!Idle] /\ Sms!Idle.stage = "idle"
    BY <1>3 DEF Sms!StoreRedis, Sms!Done, Sms!Idle
  <2> QED
    BY <1>1, <2>1, CallIsNear
<1>4. CASE Sms!VerifyBegin(c, p)
  <2> DEFINE k == [stage |-> IF lock[p] = "past" THEN "unlock" ELSE "lookup",
                   phone |-> p, n |-> 0]
  <2>1. smsCall' = [smsCall EXCEPT ![c] = k] /\ lock[p] # "held"
    BY <1>4 DEF Sms!VerifyBegin, Sms!Begin, Sms!Locked
  <2>2. k \in Sms!Call /\ k.stage \in {"unlock", "lookup"} /\ k.phone = p
    BY DEF Sms!Call
  <2>3. k.stage = "lookup" => lock[p] = "none"
    BY <1>0, <2>1 DEF Sms!TypeOK
  <2> HIDE DEF k
  <2> QED
    BY <1>1, <2>1, <2>2, <2>3, CallIsNear
<1>5. CASE Sms!LookUp(c, p) \/ Sms!DeleteRedis(c, p)
  <2>1. PICK stage \in {"delete", "success"}, n \in Nat :
          smsCall[c].stage # "idle" /\ Sms!Goto(c, stage, n)
    <3>1. Sms!LookUp(c, p) => Sms!Stored(p) \in Nat /\ Sms!Goto(c, "delete", Sms!Stored(p))
      BY <1>0 DEF Sms!LookUp, Sms!TypeOK, Sms!Code
    <3>2. Sms!DeleteRedis(c, p) => smsCall[c].n \in Nat /\ Sms!Goto(c, "success", smsCall[c].n)
      BY <1>0 DEF Sms!DeleteRedis, Sms!At, CarriedNumbers, Sms!Code
    <3>3. smsCall[c].stage # "idle"
      BY <1>5 DEF Sms!LookUp, Sms!DeleteRedis, Sms!At
    <3> QED
      BY <1>5, <3>1, <3>2, <3>3
  <2>2. PICK k \in Sms!Call : smsCall' = [smsCall EXCEPT ![c] = k] /\ k.stage = stage
    BY <1>0, <2>1, SmsGoes
  <2> QED
    BY <1>1, <2>2, CallIsNear
<1>6. CASE Sms!RecordFailureRead(c, p)
  <2>1. /\ smsCall[c].stage # "idle" /\ Sms!At(c, "lookup", p) /\ failures[p] \in Nat
        /\ Sms!Goto(c, "count", failures[p])
    BY <1>0, <1>6, SmsNumbers DEF Sms!RecordFailureRead, Sms!At, Sms!TypeOK
  <2>2. PICK k \in Sms!Call :
          /\ smsCall' = [smsCall EXCEPT ![c] = k]
          /\ k.stage = "count" /\ k.phone = smsCall[c].phone /\ k.n = failures[p]
    BY <1>0, <2>1, SmsGoes
  <2>3. k.phone = p
    BY <2>1, <2>2 DEF Sms!At
  <2> QED
    BY <1>1, <2>1, <2>2, <2>3, CallIsNear
<1> QED
  BY <1>2, <1>3, <1>4, <1>5, <1>6

\* The requests that write the counters.
LEMMA LockWriteKeeps ==
  ASSUME Sms!LoginAssumption, LockInv, SmsInv', NEW c \in Pair, NEW p \in Phone,
         \/ Sms!Unlock(c, p) \/ Sms!RecordSuccess(c, p) \/ Sms!RecordFailureWrite(c, p)
  PROVE  LockInv'
<1> SUFFICES ASSUME NEW q \in Phone PROVE LockIsNearAt(q)'
  BY DEF LockInv
<1>0. Sms!TypeOK /\ CarriedNumbers
  BY DEF LockInv, SmsInv
<1>1. PICK k \in Sms!Call \cup {Sms!Idle} :
        /\ smsCall' = [smsCall EXCEPT ![c] = k]
        /\ k = Sms!Idle \/ (k.stage = "lookup" /\ k.phone = p)
  <2>1. CASE Sms!Unlock(c, p)
    <3>1. smsCall[c].stage # "idle" /\ smsCall[c].phone = p /\ Sms!Goto(c, "lookup", 0)
      BY <2>1 DEF Sms!Unlock, Sms!At
    <3>2. \E k \in Sms!Call :
            /\ smsCall' = [smsCall EXCEPT ![c] = k]
            /\ k.stage = "lookup" /\ k.phone = smsCall[c].phone
      BY <1>0, <3>1, SmsGoes
    <3> QED
      BY <3>1, <3>2
  <2>2. CASE Sms!RecordSuccess(c, p) \/ Sms!RecordFailureWrite(c, p)
    BY <2>2 DEF Sms!RecordSuccess, Sms!RecordFailureWrite, Sms!Done
  <2> QED
    BY <2>1, <2>2
<1>2. CASE q # p
  <2>1. failures'[q] = failures[q] /\ tries'[q] = tries[q] /\ lock'[q] = lock[q]
    BY <1>0, <1>2 DEF Sms!Unlock, Sms!RecordSuccess, Sms!RecordFailureWrite, Sms!TypeOK
  <2>2. k.stage # "count" /\ ~(k.stage = "lookup" /\ k.phone = q)
    BY <1>1, <1>2 DEF Sms!Idle
  <2> QED
    BY <1>1, <2>1, <2>2, CallIsNear
<1>3. CASE q = p /\ (Sms!Unlock(c, p) \/ Sms!RecordSuccess(c, p))
  <2>1. lock'[p] = "none" /\ tries'[p] = 0
    BY <1>0, <1>3 DEF Sms!Unlock, Sms!RecordSuccess, Sms!TypeOK
  <2> QED
    BY <1>3, <2>1, ResetIsNear
<1>4. CASE q = p /\ Sms!RecordFailureWrite(c, p)
  <2>1. lock'[p] = "none" => lock[p] = "none"
    BY <1>0, <1>4 DEF Sms!RecordFailureWrite, Sms!TypeOK
  <2> QED
    BY <1>4, <2>1, HarmlessWriteIsNear, LockedWriteIsNear
<1> QED
  BY <1>2, <1>3, <1>4

\* A phone is locked after a bounded number of wrong codes: with these calls and this
\* limit no more than TriesBound are answered before the counters are reset.
THEOREM LockIsInTime == Sms!Spec => []LockComesInTime
<1>1. Sms!Init => LockInv
  BY LockInit, SmsHolds
<1>2. LockInv /\ [Sms!Next]_(Sms!vars) => LockInv'
  <2> SUFFICES ASSUME LockInv, [Sms!Next]_(Sms!vars) PROVE LockInv'
    OBVIOUS
  <2>1. SmsInv
    BY DEF LockInv
  <2>2. SmsInv'
    BY <2>1, SmsHolds, SmsStep
  <2> QED
    BY <2>2, SmsHolds, LockWorldKeeps, LockCallKeeps, LockWriteKeeps
    DEF Sms!Next, Sms!Login, Sms!VerifyOtp
<1>3. LockInv => LockComesInTime
  <2> SUFFICES ASSUME LockInv, NEW p \in Phone PROVE tries[p] <= Sms!TriesBound
    BY DEF LockComesInTime, Sms!LockComesInTime
  <2>1. SmsInv /\ tries[p] \in Nat /\ Sms!LoginAssumption
    BY SmsHolds DEF LockInv, SmsInv, Sms!TypeOK
  <2>2. CASE lock[p] = "none"
    <3>1. tries[p] <= Cardinality(Passed(StandOf(Levels(p))))
      BY <2>2 DEF LockInv, LockIsNearAt
    <3>2. /\ Cardinality(Passed(StandOf(Levels(p)))) \in Nat
          /\ Cardinality(Passed(StandOf(Levels(p)))) <= Cardinality(Sms!Standing) - 1
      BY <2>1, LevelsAre, StandOfIsStanding, PassedOthers
    <3> QED
      BY <2>1, <3>1, <3>2, StandingsAreFinite, SmsNumbers
  <2>3. CASE lock[p] # "none"
    <3>1. tries[p] + Cardinality(Wrong(p)) <= Sms!TriesBound
      BY <2>3 DEF LockInv, LockIsNearAt
    <3>2. Wrong(p) \in SUBSET Pair
      BY DEF Wrong
    <3>3. Cardinality(Wrong(p)) \in Nat
      BY <2>1, <3>2, SmsNumbers, FS_Subset, FS_CardinalityType
    <3> QED
      BY <2>1, <3>1, <3>3, StandingsAreFinite, SmsNumbers
  <2> QED
    BY <2>2, <2>3
<1> QED
  BY <1>1, <1>2, <1>3, PTL DEF Sms!Spec

-----------------------------------------------------------------------------
(***************************************************************************)
(* All of them together                                                    *)
(***************************************************************************)

\* Whichever is in focus, each takes a step of its own or none.
LEMMA AccessStep ==
  [AccessNext]_accessVars =>
    /\ [Next]_vars /\ [Email!Next]_(Email!vars) /\ [Sms!Next]_(Sms!vars)
    /\ [Session!Next]_(Session!vars) /\ [Kyc!Next]_(Kyc!vars)
    /\ [SignIn!Next]_(SignIn!vars)
<1>1. UNCHANGED emailVars => UNCHANGED Email!vars
  BY DEF emailVars, Email!vars, Email!codeVars
<1>2. UNCHANGED smsVars => UNCHANGED Sms!vars
  BY DEF smsVars, Sms!vars, Sms!storeVars, Sms!redisVars, Sms!lockVars
<1>3. UNCHANGED sessionVars => UNCHANGED Session!vars
  BY DEF sessionVars, Session!vars, Session!userVars, Session!rowVars
<1>4. UNCHANGED kycVars => UNCHANGED Kyc!vars
  BY DEF kycVars, Kyc!vars, Kyc!kycVars, Kyc!userVars
<1>5. UNCHANGED signInVars => UNCHANGED SignIn!vars
  BY DEF signInVars, SignIn!vars, SignIn!codeVars, SignIn!storeVars
<1>6. UNCHANGED accessVars =>
        UNCHANGED <<vars, emailVars, smsVars, sessionVars, kycVars, signInVars>>
  BY DEF accessVars
<1> QED
  BY <1>1, <1>2, <1>3, <1>4, <1>5, <1>6 DEF AccessNext

\* So what runs together implements each of its parts.
LEMMA AccessImplements ==
  AccessSpec => Spec /\ Email!Spec /\ Sms!Spec /\ Session!Spec /\ Kyc!Spec /\ SignIn!Spec
<1>1. AccessInit =>
        Init /\ Email!Init /\ Sms!Init /\ Session!Init /\ Kyc!Init /\ SignIn!Init
  BY DEF AccessInit
<1> QED
  BY <1>1, AccessStep, PTL
  DEF AccessSpec, Spec, Email!Spec, Sms!Spec, Session!Spec, Kyc!Spec, SignIn!Spec

\* What the six ways in promise, they promise together.
THEOREM AccessKeepsItsPromises ==
  AccessSpec =>
    /\ [](/\ AccessTypeOK /\ WrongTriesAreBounded /\ AcceptedTogetherOnly
          /\ AcceptedTwiceTogetherOnly /\ LockComesInTime
          /\ SessionsComeFromLogins /\ OneHelperPerPan)
    /\ ImplementsOneTimeCode /\ ApprovalOutlastsLaterCalls
<1>1. TypeOK /\ Email!TypeOK /\ Sms!TypeOK /\ Session!TypeOK /\ Kyc!OnboardingTypeOK
        /\ SignIn!TypeOK => AccessTypeOK
  BY DEF AccessTypeOK
<1> QED
  BY <1>1, AccessImplements, StartKeepsTypes, MailedCodesAreBounded, MailedCodesAreSpent,
     StoreCodesAreOneTime, SmsCodesAreSpent,
     LockIsInTime, SessionsAreLogins, PansAreUnique, StartCodeIsOneTime, ApprovalLasts, PTL
===============================================================================
