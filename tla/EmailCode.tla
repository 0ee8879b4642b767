------------------------------ MODULE EmailCode ------------------------------
(***************************************************************************)
(* The codes mailed to sellers and delivery workers who log in, and to     *)
(* those who want to become sellers.                                       *)
(*                                                                         *)
(* A login code is a column of the Seller or SellerWorker row: a new one   *)
(* takes its place.  A registration code is a PlatformOtp row of its own:  *)
(* the latest row not yet verified counts, and the one before it counts    *)
(* again when the latest is verified.  A login code is also written as a   *)
(* PlatformOtp row, which no login reads.  The master code is accepted in  *)
(* place of a mailed one, in every environment.                            *)
(***************************************************************************)
EXTENDS Naturals, FiniteSets, FiniteSetsExt

CONSTANTS
  Account,      \* the addresses codes are mailed to
  Caller,       \* the requests in flight at once
  MaxAttempts,  \* wrong codes before a new one is needed
  MaxSends,     \* mails to an address in ten minutes
  MaxCode       \* bound: the codes mailed to an address

EmailAssumption ==
  {MaxAttempts, MaxSends, MaxCode} \subseteq Nat /\ MaxAttempts > 0 /\ IsFiniteSet(Caller)

VARIABLES
  kind,       \* what the codes of an address are for
  barred,     \* no code is sent: suspended, deactivated, or already a seller
  mailed,     \* the number of codes mailed; they are numbered
  live,       \* the codes that are stored and not verified
  expired,    \* the codes whose ten minutes are over
  attempts,   \* the wrong tries counted against a code
  sends,      \* otpRequestRateLimit: the mails in this window, in the process's memory
  wrong,      \* history: the tries answered as wrong, by the code that was read
  accepted,   \* history: how often a mailed code was accepted
  call        \* what each request is doing

codeVars == <<mailed, live, expired, attempts>>
vars == <<kind, barred, codeVars, sends, wrong, accepted, call>>

Code == 1 .. MaxCode
Idle == [stage |-> "idle"]

IsLogin(a) == kind[a] # "registration"

\* code is the one that was the code of now when the call read the row, 0 for none.
Call == [stage : {"send", "wrong", "right", "master"}, account : Account, code : Code \cup {0}]

TypeOK ==
  /\ kind \in [Account -> {"seller", "worker", "registration"}]
  /\ barred \in SUBSET Account
  /\ mailed \in [Account -> 0 .. MaxCode]
  /\ live \in [Account -> SUBSET Code]
  /\ expired \in [Account -> SUBSET Code]
  /\ attempts \in [Account -> [Code -> Nat]]
  /\ sends \in [Account -> 0 .. MaxSends]
  /\ wrong \in [Account -> [Code -> Nat]]
  /\ accepted \in [Account -> [Code -> Nat]]
  /\ call \in [Caller -> Call \cup {Idle}]

Init ==
  /\ kind \in [Account -> {"seller", "worker", "registration"}]
  /\ barred = {}
  /\ mailed = [a \in Account |-> 0]
  /\ live = [a \in Account |-> {}]
  /\ expired = [a \in Account |-> {}]
  /\ attempts = [a \in Account |-> [n \in Code |-> 0]]
  /\ sends = [a \in Account |-> 0]
  /\ wrong = [a \in Account |-> [n \in Code |-> 0]]
  /\ accepted = [a \in Account |-> [n \in Code |-> 0]]
  /\ call = [c \in Caller |-> Idle]

\* The code of now, 0 for none.
Current(a) == Max(live[a] \cup {0})

At(c, stage, a) == call[c].stage = stage /\ call[c].account = a

Begin(c, stage, a, n) ==
  /\ call[c] = Idle
  /\ call' = [call EXCEPT ![c] = [stage |-> stage, account |-> a, code |-> n]]

Done(c) == call' = [call EXCEPT ![c] = Idle]

CallDies(c) ==
  /\ call[c] # Idle
  /\ Done(c)
  /\ UNCHANGED <<kind, barred, codeVars, sends, wrong, accepted>>

\* The server restarts: the windows of the rate limit and the calls are gone.
Restart ==
  /\ sends' = [a \in Account |-> 0]
  /\ call' = [c \in Caller |-> Idle]
  /\ UNCHANGED <<kind, barred, codeVars, wrong, accepted>>

WindowEnds(a) ==
  /\ sends[a] > 0
  /\ sends' = [sends EXCEPT ![a] = 0]
  /\ UNCHANGED <<kind, barred, codeVars, wrong, accepted, call>>

\* The administrator, the store, or the registration itself.
SetBarred(a) ==
  /\ barred' \in {barred \cup {a}, barred \ {a}}
  /\ UNCHANGED <<kind, codeVars, sends, wrong, accepted, call>>

(***************************************************************************)
(* Sending a code.                                                         *)
(***************************************************************************)

\* checkRateLimit counts the request before the address is looked up.
SendRead(c, a) ==
  /\ call[c] = Idle
  /\ sends[a] < MaxSends
  /\ sends' = [sends EXCEPT ![a] = @ + 1]
  /\ IF a \in barred THEN UNCHANGED call ELSE Begin(c, "send", a, 0)
  /\ UNCHANGED <<kind, barred, codeVars, wrong, accepted>>

\* By id, with the attempts back at 0; a registration adds a row.
SendWrite(c, a) ==
  LET n == mailed[a] + 1 IN
  /\ At(c, "send", a)
  /\ n \in Code
  /\ mailed' = [mailed EXCEPT ![a] = n]
  /\ live' = [live EXCEPT ![a] = IF IsLogin(a) THEN {n} ELSE @ \cup {n}]
  /\ Done(c)
  /\ UNCHANGED <<kind, barred, expired, attempts, sends, wrong, accepted>>

SendLoginCode(c, a) == kind[a] = "seller" /\ (SendRead(c, a) \/ SendWrite(c, a))

SendWorkerCode(c, a) == kind[a] = "worker" /\ (SendRead(c, a) \/ SendWrite(c, a))

SendRegistrationCode(c, a) ==
  kind[a] = "registration" /\ (SendRead(c, a) \/ SendWrite(c, a))

CodeExpires(a) ==
  /\ \E n \in live[a] \ expired[a] : expired' = [expired EXCEPT ![a] = @ \cup {n}]
  /\ UNCHANGED <<kind, barred, mailed, live, attempts, sends, wrong, accepted, call>>

(***************************************************************************)
(* Entering a code.                                                        *)
(***************************************************************************)

\* Mutant of MayTry: one try more.
MayTryOnceMore(a, n) == n # 0 => attempts[a][n] <= MaxAttempts

MayTry(a, n) == n # 0 => attempts[a][n] < MaxAttempts

\* The right code is the one of now and not expired.  A login takes the master code also
\* where no code is stored, or an expired one.  A registration answers an expired code, or
\* none, whatever was entered, without counting.
VerifyRead(c, a) ==
  LET n == Current(a) IN
  /\ MayTry(a, n)
  /\ \/ /\ IsLogin(a) \/ (n # 0 /\ n \notin expired[a])
        /\ Begin(c, "wrong", a, n) \/ Begin(c, "master", a, n)
     \/ n # 0 /\ n \notin expired[a] /\ Begin(c, "right", a, n)
  /\ UNCHANGED <<kind, barred, codeVars, sends, wrong, accepted>>

\* An atomic increment of the account's column, whichever code that has by now, or of
\* the registration's row.
VerifyWrong(c, a) ==
  LET m == call[c].code
      n == IF IsLogin(a) THEN Current(a) ELSE m IN
  /\ At(c, "wrong", a)
  /\ attempts' = IF n = 0 THEN attempts ELSE [attempts EXCEPT ![a][n] = @ + 1]
  /\ wrong' = IF m = 0 THEN wrong ELSE [wrong EXCEPT ![a][m] = @ + 1]
  /\ Done(c)
  /\ UNCHANGED <<kind, barred, mailed, live, expired, sends, accepted>>

\* Mutant of Spend: the code stays, and its attempts start again.
SpendNothing(a, n) == live[a] \ ({n} \ Code)

\* A login clears the column, although the code there may be a newer one.
Spend(a, n) == IF IsLogin(a) THEN {} ELSE live[a] \ {n}

VerifyRight(c, a) ==
  LET n == call[c].code IN
  /\ At(c, "right", a)
  /\ live' = [live EXCEPT ![a] = Spend(a, n)]
  /\ accepted' = [accepted EXCEPT ![a][n] = @ + 1]
  /\ Done(c)
  /\ UNCHANGED <<kind, barred, mailed, expired, attempts, sends, wrong>>

\* It spends the code that is stored, if one is.
VerifyMaster(c, a) ==
  /\ At(c, "master", a)
  /\ live' = [live EXCEPT ![a] = Spend(a, call[c].code)]
  /\ Done(c)
  /\ UNCHANGED <<kind, barred, mailed, expired, attempts, sends, wrong, accepted>>

Verify(c, a) ==
  VerifyRead(c, a) \/ VerifyWrong(c, a) \/ VerifyRight(c, a) \/ VerifyMaster(c, a)

VerifyLogin(c, a) == kind[a] = "seller" /\ Verify(c, a)

VerifyWorkerLogin(c, a) == kind[a] = "worker" /\ Verify(c, a)

VerifyRegistration(c, a) == kind[a] = "registration" /\ Verify(c, a)

-----------------------------------------------------------------------------
Next ==
  \/ \E c \in Caller, a \in Account :
       \/ SendLoginCode(c, a) \/ SendWorkerCode(c, a) \/ SendRegistrationCode(c, a)
       \/ VerifyLogin(c, a) \/ VerifyWorkerLogin(c, a) \/ VerifyRegistration(c, a)
  \/ \E a \in Account : WindowEnds(a) \/ SetBarred(a) \/ CodeExpires(a)
  \/ \E c \in Caller : CallDies(c)
  \/ Restart

Spec == Init /\ [][Next]_vars

(***************************************************************************)
(* Properties                                                              *)
(***************************************************************************)

\* A code is given up after MaxAttempts wrong tries and those in flight with the last
\* of them, through new codes, logins and late increments of other codes.
WrongTriesAreBounded ==
  \A a \in Account, n \in Code : wrong[a][n] <= MaxAttempts + Cardinality(Caller) - 1

\* A mailed code is accepted again only by calls that had read it before it was spent,
\* by a call that entered it or the master code: never more often than there are calls in
\* flight.  The master code itself is accepted again and again, and not counted here.
AcceptedTogetherOnly ==
  \A a \in Account, n \in Code :
    accepted[a][n] + Cardinality({c \in Caller : At(c, "right", a) /\ call[c].code = n})
      <= Cardinality(Caller)
=============================================================================
