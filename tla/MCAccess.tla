------------------------------- MODULE MCAccess -------------------------------
(***************************************************************************)
(* The six ways in for TLC, one behaviour of one of them at a time: the    *)
(* start of a job, the mailed codes, the codes by SMS, the sessions, the   *)
(* onboarding and the sign-in of the stores.  They share no column that    *)
(* one decides by and another writes.                                      *)
(***************************************************************************)
EXTENDS StartOtp, TLC

CONSTANTS
  Pair,  \* the callers, where two are enough
  Account, MaxAttempts, MaxSends, MaxMail,
  Phone, MAX_FAILED_ATTEMPTS, MaxSms,
  User, MaxTime, MaxRows,
  Helper, Pan, MaxApprovals, NoPan,
  Address, Store, Fresh, NoAddress

VARIABLES
  focus,  \* which of the six
  kind, barred, mailed, live, mailExpired, attempts, sends, wrong, accepted, mailCall,
  memory, redis, redisUp, sent, known, failures, lock, tries, smsAccepted, outage, smsCall,
  adminPhone, role, helper, rows, created, blacklist, issued, logins, now, sessionCall,
  standing, pan, documents, verified, active, blocked, online, approvals, kycCall,
  storeCode, made, lapsed, stores, approved, email, storeAccepted, storeCall

Email == INSTANCE EmailCode
  WITH Caller <- Pair, MaxCode <- MaxMail, expired <- mailExpired, call <- mailCall

Sms == INSTANCE LoginOtp
  WITH Caller <- Pair, MaxCode <- MaxSms, accepted <- smsAccepted, call <- smsCall

Session == INSTANCE Sessions WITH Caller <- Pair, call <- sessionCall

Kyc == INSTANCE Onboarding WITH Caller <- Pair, status <- standing, call <- kycCall

SignIn == INSTANCE StoreSignIn
  WITH Caller <- Pair, MaxCode <- MaxMail, code <- storeCode, accepted <- storeAccepted,
       call <- storeCall

ASSUME EmailHolds == Email!EmailAssumption
ASSUME SmsHolds == Sms!LoginAssumption
ASSUME SessionHolds == Session!SessionAssumption
ASSUME KycHolds == Kyc!OnboardingAssumption
ASSUME SignInHolds == SignIn!SignInAssumption

emailVars ==
  <<kind, barred, mailed, live, mailExpired, attempts, sends, wrong, accepted, mailCall>>
smsVars ==
  <<memory, redis, redisUp, sent, known, failures, lock, tries, smsAccepted, outage, smsCall>>
sessionVars ==
  <<adminPhone, role, helper, rows, created, blacklist, issued, logins, now, sessionCall>>
kycVars ==
  <<standing, pan, documents, verified, active, blocked, online, approvals, kycCall>>
signInVars == <<storeCode, made, lapsed, stores, approved, email, storeAccepted, storeCall>>
accessVars == <<vars, emailVars, smsVars, sessionVars, kycVars, signInVars, focus>>

\* What the one in focus may start from, the others start from once.
AccessInit ==
  /\ focus \in {"start", "email", "sms", "session", "kyc", "store"}
  /\ focus # "email" => kind = [a \in Account |-> "seller"]
  /\ focus # "session" => adminPhone = {}
  /\ focus # "kyc" => active = {}
  /\ Init /\ Email!Init /\ Sms!Init /\ Session!Init /\ Kyc!Init
  /\ SignIn!Init

\* A second code of an address is made where no other address has one.
FewCodes == \A a, b \in Address : made[a] > 1 => a = b \/ made[b] = 0

\* Nothing the others do depends on who is blocked.
OneIsBlocked == \A g, h \in blocked : g = h

AccessNext ==
  /\ \/ /\ focus = "start" /\ Next
        /\ UNCHANGED <<emailVars, smsVars, sessionVars, kycVars, signInVars>>
     \/ /\ focus = "email" /\ Email!Next
        /\ UNCHANGED <<vars, smsVars, sessionVars, kycVars, signInVars>>
     \/ /\ focus = "sms" /\ Sms!Next
        /\ UNCHANGED <<vars, emailVars, sessionVars, kycVars, signInVars>>
     \/ /\ focus = "session" /\ Session!Next
        /\ UNCHANGED <<vars, emailVars, smsVars, kycVars, signInVars>>
     \/ /\ focus = "kyc" /\ Kyc!Next /\ OneIsBlocked'
        /\ UNCHANGED <<vars, emailVars, smsVars, sessionVars, signInVars>>
     \/ /\ focus = "store" /\ SignIn!Next /\ FewCodes'
        /\ UNCHANGED <<vars, emailVars, smsVars, sessionVars, kycVars>>
  /\ UNCHANGED focus

AccessSpec == AccessInit /\ [][AccessNext]_accessVars

\* The rows, the stores of codes and tokens and the calls in flight keep their types.
AccessTypeOK ==
  /\ TypeOK /\ Email!TypeOK /\ Sms!TypeOK /\ Session!TypeOK /\ Kyc!OnboardingTypeOK
  /\ SignIn!TypeOK

\* A mailed code is given up after a bounded number of wrong tries (see EmailCode).
WrongTriesAreBounded == Email!WrongTriesAreBounded

\* A mailed code is accepted again only by calls that had read it before it was spent, and
\* a code that is kept in memory never; master codes are not counted (see EmailCode and
\* StoreSignIn).
AcceptedTogetherOnly == Email!AcceptedTogetherOnly /\ SignIn!AcceptedOnce

\* While Redis has not been away, a code by SMS is accepted again only by calls that
\* found it together (see LoginOtp).
AcceptedTwiceTogetherOnly == Sms!AcceptedTwiceTogetherOnly

\* A phone is locked after a bounded number of wrong codes (see LoginOtp).
LockComesInTime == Sms!LockComesInTime

\* Refreshing never multiplies a session (see Sessions).
SessionsComeFromLogins == Session!SessionsComeFromLogins

\* Two helpers never get by with one PAN (see Onboarding).
OneHelperPerPan == Kyc!OneHelperPerPan

\* No KYC submission that begins after an approval takes it back (see Onboarding).
ApprovalOutlastsLaterCalls == Kyc!ApprovalOutlastsLaterCalls

Symmetry == Permutations(Pair) \cup Permutations(Helper)
===============================================================================
