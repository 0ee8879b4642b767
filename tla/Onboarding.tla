------------------------------ MODULE Onboarding ------------------------------
(***************************************************************************)
(* A helper's way to approval: the profile, the KYC documents, the         *)
(* administrator's decision, and the accounts the administrator activates  *)
(* and blocks.  Each handler reads the helper first and writes later.      *)
(***************************************************************************)
EXTENDS Naturals, FiniteSets

CONSTANTS
  Helper, Pan,
  Caller,        \* the requests in flight at once
  MaxApprovals,  \* bound: the approvals of a helper
  NoPan          \* no KYC row, or one without a number

OnboardingAssumption == NoPan \notin Pan /\ MaxApprovals \in Nat

VARIABLES
  status,     \* Helper.onboardingStatus
  pan,        \* HelperKyc.panNumber
  documents,  \* the helpers with a HelperKyc row
  verified,   \* HelperKyc.isVerified
  active,     \* User.isActive
  blocked,    \* User.isBlocked
  online,     \* Helper.isAvailable
  approvals,  \* history: how often the helper was approved
  call        \* what each request is doing

kycVars == <<pan, documents, verified>>
userVars == <<active, blocked, online>>
vars == <<status, kycVars, userVars, approvals, call>>

Status == {"PENDING_KYC", "PENDING_APPROVAL", "APPROVED", "REJECTED"}
Idle == [stage |-> "idle"]

\* status is what the request has read, and approvals the history at that time.
Call == [stage : {"kyc", "upload", "status", "approve"}, helper : Helper,
         pan : Pan \cup {NoPan}, status : Status, approvals : 0 .. MaxApprovals]

OnboardingTypeOK ==
  /\ status \in [Helper -> Status]
  /\ pan \in [Helper -> Pan \cup {NoPan}]
  /\ documents \in SUBSET Helper
  /\ verified \in SUBSET documents
  /\ active \in SUBSET Helper
  /\ blocked \in SUBSET Helper
  /\ online \in SUBSET Helper
  /\ approvals \in [Helper -> 0 .. MaxApprovals]
  /\ call \in [Caller -> Call \cup {Idle}]

\* Signed up as a helper, or as a customer first, who is active.
Init ==
  /\ status = [h \in Helper |-> "PENDING_KYC"]
  /\ pan = [h \in Helper |-> NoPan]
  /\ documents = {}
  /\ verified = {}
  /\ active \in SUBSET Helper
  /\ blocked = {}
  /\ online = {}
  /\ approvals = [h \in Helper |-> 0]
  /\ call = [c \in Caller |-> Idle]

At(c, stage, h) == call[c].stage = stage /\ call[c].helper = h

Begin(c, stage, h, p) ==
  /\ call[c] = Idle
  /\ call' = [call EXCEPT ![c] = [stage |-> stage, helper |-> h, pan |-> p,
                                  status |-> status[h], approvals |-> approvals[h]]]

Done(c) == call' = [call EXCEPT ![c] = Idle]

CallDies(c) ==
  /\ call[c] # Idle
  /\ Done(c)
  /\ UNCHANGED <<status, kycVars, userVars, approvals>>

(***************************************************************************)
(* The helper.                                                             *)
(***************************************************************************)

KycRead(c, h, p) ==
  /\ status[h] # "APPROVED"
  /\ \A g \in Helper \ {h} : pan[g] # p
  /\ Begin(c, "kyc", h, p)
  /\ UNCHANGED <<status, kycVars, userVars, approvals>>

\* Mutant of PanIsFree: the number is not unique.
PanMaybeFree(h, p) == h \in Helper /\ p \in Pan

PanIsFree(h, p) == \A g \in Helper \ {h} : pan[g] # p

MayAdvance(s) == s \in {"PENDING_KYC", "REJECTED"}

\* A new row is not verified; one there was stays as it is.
KycSave(c, h) ==
  /\ At(c, "kyc", h)
  /\ PanIsFree(h, call[c].pan)
  /\ pan' = [pan EXCEPT ![h] = call[c].pan]
  /\ documents' = documents \cup {h}
  /\ IF MayAdvance(call[c].status)
     THEN call' = [call EXCEPT ![c].stage = "status"] ELSE Done(c)
  /\ UNCHANGED <<status, verified, userVars, approvals>>

\* By id.
KycStatus(c, h) ==
  /\ At(c, "status", h)
  /\ status' = [status EXCEPT ![h] = "PENDING_APPROVAL"]
  /\ Done(c)
  /\ UNCHANGED <<kycVars, userVars, approvals>>

\* A selfie, the PAN card or the police document: stored after the upload.
UploadRead(c, h) ==
  /\ status[h] # "APPROVED"
  /\ Begin(c, "upload", h, NoPan)
  /\ UNCHANGED <<status, kycVars, userVars, approvals>>

\* Mutant of UploadSave: the upload submits the helper for approval.
UploadSubmits(c, h) ==
  /\ At(c, "upload", h)
  /\ documents' = documents \cup {h}
  /\ status' = [status EXCEPT ![h] = "PENDING_APPROVAL"]
  /\ Done(c)
  /\ UNCHANGED <<pan, verified, userVars, approvals>>

UploadSave(c, h) ==
  /\ At(c, "upload", h)
  /\ documents' = documents \cup {h}
  /\ Done(c)
  /\ UNCHANGED <<status, pan, verified, userVars, approvals>>

\* An update: without a row it fails, which is CallDies.
UploadPoliceDoc(c, h) ==
  /\ At(c, "upload", h)
  /\ h \in documents
  /\ Done(c)
  /\ UNCHANGED <<status, kycVars, userVars, approvals>>

(***************************************************************************)
(* The administrator.                                                      *)
(***************************************************************************)

ApproveRead(c, h) ==
  /\ status[h] # "APPROVED"
  /\ Begin(c, "approve", h, NoPan)
  /\ UNCHANGED <<status, kycVars, userVars, approvals>>

\* Mutant of VerifiedWith: the helpers without documents as well.
VerifiedAnyway(h) == verified \cup {h}

\* An updateMany: without a KYC row there is nothing to verify.
VerifiedWith(h) == verified \cup ({h} \cap documents)

\* One transaction, whatever the status is by now, and with or without documents.
Approve(c, h) ==
  /\ At(c, "approve", h)
  /\ approvals[h] < MaxApprovals
  /\ approvals' = [approvals EXCEPT ![h] = @ + 1]
  /\ status' = [status EXCEPT ![h] = "APPROVED"]
  /\ online' = online \cup {h}
  /\ active' = active \cup {h}
  /\ verified' = VerifiedWith(h)
  /\ Done(c)
  /\ UNCHANGED <<pan, documents, blocked>>

\* An approved helper is rejected as well.  Without a reason the KYC row stays.
Reject(h) ==
  /\ status' = [status EXCEPT ![h] = "REJECTED"]
  /\ verified' \in {verified, verified \ {h}}
  /\ UNCHANGED <<pan, documents, userVars, approvals, call>>

Activate(h) ==
  /\ active' = active \cup {h}
  /\ blocked' = blocked \ {h}
  /\ UNCHANGED <<status, kycVars, online, approvals, call>>

Deactivate(h) ==
  /\ active' = active \ {h}
  /\ online' = online \ {h}
  /\ UNCHANGED <<status, kycVars, blocked, approvals, call>>

\* 409 if nothing would change.
Block(h) ==
  /\ blocked' = IF h \in blocked THEN blocked \ {h} ELSE blocked \cup {h}
  /\ UNCHANGED <<status, kycVars, active, online, approvals, call>>

(***************************************************************************)
(* The shop.                                                               *)
(***************************************************************************)

\* Who registers as a customer with a phone number or an address that has a row makes
\* that row active, whoever's it is.
RegisterCustomer(h) ==
  /\ active' = active \cup {h}
  /\ UNCHANGED <<status, kycVars, blocked, online, approvals, call>>

-----------------------------------------------------------------------------
Next ==
  \/ \E c \in Caller, h \in Helper :
       \/ \E p \in Pan : KycRead(c, h, p)
       \/ KycSave(c, h) \/ KycStatus(c, h) \/ UploadRead(c, h) \/ UploadSave(c, h)
       \/ UploadPoliceDoc(c, h)
       \/ ApproveRead(c, h) \/ Approve(c, h)
  \/ \E h \in Helper : Reject(h) \/ Activate(h) \/ Deactivate(h) \/ Block(h) \/ RegisterCustomer(h)
  \/ \E c \in Caller : CallDies(c)

Spec == Init /\ [][Next]_vars

(***************************************************************************)
(* Properties                                                              *)
(***************************************************************************)

\* An approval ends by the administrator's rejection, or by the second half of a KYC
\* submission that had begun before it: nothing a helper begins afterwards undoes it.
ApprovalOutlastsLaterCalls ==
  [][\A h \in Helper :
       status[h] = "APPROVED" /\ status'[h] = "PENDING_APPROVAL" =>
         \E c \in Caller : At(c, "status", h) /\ call[c].approvals < approvals[h]]_vars

\* Two helpers never get by with one PAN, although each looked before the other wrote.
OneHelperPerPan ==
  \A g, h \in Helper : pan[g] = pan[h] /\ pan[g] # NoPan => g = h
=============================================================================
