------------------------------- MODULE LoginOtp -------------------------------
(***************************************************************************)
(* The code sent by SMS to a customer or helper who logs in.  It is kept   *)
(* in the process's memory and in Redis; Redis is asked first, and what    *)
(* fails there is only logged.  Wrong codes are counted in OtpSecurity,    *)
(* which locks the phone for a while.                                      *)
(*                                                                         *)
(* The resend counters are written and, resendOtp having no caller, never  *)
(* read.  The database answers; MSG91, which checks its own codes, is not  *)
(* configured.                                                             *)
(***************************************************************************)
EXTENDS Naturals, FiniteSets

CONSTANTS
  Phone,
  Caller,              \* the requests in flight at once
  MAX_FAILED_ATTEMPTS,
  MaxCode              \* bound: the codes sent to a phone

LoginAssumption ==
  {MAX_FAILED_ATTEMPTS, MaxCode} \subseteq Nat /\ IsFiniteSet(Caller)

VARIABLES
  memory,     \* inMemoryOtpStore: the number of the code, 0 for none
  redis,      \* the code under otp:<phone>
  redisUp,
  sent,       \* the codes generated, numbered
  known,      \* the codes that have reached the phone
  failures,   \* OtpSecurity.failedAttempts
  lock,       \* OtpSecurity.lockedUntil: null, in the future, or past
  tries,      \* history: the codes answered as wrong since the counters were reset
  accepted,   \* history: how often a code was accepted before the outage
  outage,     \* history: Redis has been away
  call        \* what each request is doing

storeVars == <<memory, redis>>
redisVars == <<redisUp, outage>>
lockVars == <<failures, lock, tries>>
vars == <<storeVars, redisVars, sent, known, lockVars, accepted, call>>

Code == 1 .. MaxCode
Idle == [stage |-> "idle"]

\* n is the code being sent or accepted, or the failures that were read.
Call == [stage : {"store", "unlock", "lookup", "delete", "success", "count"},
         phone : Phone, n : Nat]

TypeOK ==
  /\ memory \in [Phone -> 0 .. MaxCode]
  /\ redis \in [Phone -> 0 .. MaxCode]
  /\ redisUp \in BOOLEAN
  /\ sent \in [Phone -> 0 .. MaxCode]
  /\ known \in [Phone -> SUBSET Code]
  /\ failures \in [Phone -> 0 .. MAX_FAILED_ATTEMPTS]
  /\ lock \in [Phone -> {"none", "held", "past"}]
  /\ tries \in [Phone -> Nat]
  /\ accepted \in [Phone -> [Code -> Nat]]
  /\ outage \in BOOLEAN
  /\ call \in [Caller -> Call \cup {Idle}]

Init ==
  /\ memory = [p \in Phone |-> 0]
  /\ redis = [p \in Phone |-> 0]
  /\ redisUp = TRUE
  /\ sent = [p \in Phone |-> 0]
  /\ known = [p \in Phone |-> {}]
  /\ failures = [p \in Phone |-> 0]
  /\ lock = [p \in Phone |-> "none"]
  /\ tries = [p \in Phone |-> 0]
  /\ accepted = [p \in Phone |-> [n \in Code |-> 0]]
  /\ outage = FALSE
  /\ call = [c \in Caller |-> Idle]

At(c, stage, p) == call[c].stage = stage /\ call[c].phone = p

Begin(c, stage, p, n) ==
  /\ call[c] = Idle
  /\ call' = [call EXCEPT ![c] = [stage |-> stage, phone |-> p, n |-> n]]

Goto(c, stage, n) == call' = [call EXCEPT ![c].stage = stage, ![c].n = n]

Done(c) == call' = [call EXCEPT ![c] = Idle]

(***************************************************************************)
(* The world: the server, Redis and the clock.                             *)
(***************************************************************************)

Restart ==
  /\ memory' = [p \in Phone |-> 0]
  /\ call' = [c \in Caller |-> Idle]
  /\ UNCHANGED <<redis, redisVars, sent, known, lockVars, accepted>>

RedisFails ==
  /\ redisUp
  /\ redisUp' = FALSE
  /\ outage' = TRUE
  /\ UNCHANGED <<storeVars, sent, known, lockVars, accepted, call>>

\* With what it held, or empty.
RedisReturns ==
  /\ ~redisUp
  /\ redisUp' = TRUE
  /\ redis' \in {redis, [p \in Phone |-> 0]}
  /\ UNCHANGED <<memory, outage, sent, known, lockVars, accepted, call>>

Without(store, p, n) == [store EXCEPT ![p] = IF @ = n THEN 0 ELSE @]

CodeExpires(p, n) ==
  /\ n \in {memory[p], redis[p]} \ {0}
  /\ memory' = Without(memory, p, n)
  /\ redis' = Without(redis, p, n)
  /\ UNCHANGED <<redisVars, sent, known, lockVars, accepted, call>>

LockPasses(p) ==
  /\ lock[p] = "held"
  /\ lock' = [lock EXCEPT ![p] = "past"]
  /\ UNCHANGED <<storeVars, redisVars, sent, known, failures, tries, accepted, call>>

(***************************************************************************)
(* Sending a code.                                                         *)
(***************************************************************************)

StoreMemory(c, p) ==
  LET n == sent[p] + 1 IN
  /\ n \in Code
  /\ Begin(c, "store", p, n)
  /\ memory' = [memory EXCEPT ![p] = n]
  /\ sent' = [sent EXCEPT ![p] = n]
  /\ UNCHANGED <<redis, redisVars, known, lockVars, accepted>>

\* Twilio has delivered the SMS, or it fails, which leaves the code where it is.
SendViaTwilio(p, n) == {known, [known EXCEPT ![p] = @ \cup {n}]}

\* And the SMS, once Redis has answered or failed.
StoreRedis(c, p) ==
  LET n == call[c].n IN
  /\ At(c, "store", p)
  /\ redis' = IF redisUp THEN [redis EXCEPT ![p] = n] ELSE redis
  /\ known' \in SendViaTwilio(p, n)
  /\ Done(c)
  /\ UNCHANGED <<memory, redisVars, sent, lockVars, accepted>>

(***************************************************************************)
(* Verifying a code.                                                       *)
(***************************************************************************)

Locked(p) == lock[p] = "held"

VerifyBegin(c, p) ==
  /\ ~Locked(p)
  /\ Begin(c, IF lock[p] = "past" THEN "unlock" ELSE "lookup", p, 0)
  /\ UNCHANGED <<storeVars, redisVars, sent, known, lockVars, accepted>>

\* By phone, whatever the lock is by now.
Unlock(c, p) ==
  /\ At(c, "unlock", p)
  /\ lock' = [lock EXCEPT ![p] = "none"]
  /\ failures' = [failures EXCEPT ![p] = 0]
  /\ tries' = [tries EXCEPT ![p] = 0]
  /\ Goto(c, "lookup", 0)
  /\ UNCHANGED <<storeVars, redisVars, sent, known, accepted>>

Stored(p) == IF redisUp /\ redis[p] # 0 THEN redis[p] ELSE memory[p]

\* The right code leaves the memory at once.
LookUp(c, p) ==
  /\ At(c, "lookup", p)
  /\ Stored(p) \in known[p]
  /\ memory' = [memory EXCEPT ![p] = 0]
  /\ Goto(c, "delete", Stored(p))
  /\ UNCHANGED <<redis, redisVars, sent, known, lockVars, accepted>>

\* Mutant of Deleted: the code stays in Redis.
DeletedNowhere(p) == [redis EXCEPT ![p] = @]

Deleted(p) == [redis EXCEPT ![p] = 0]

\* By phone: a code sent meanwhile goes as well.
DeleteRedis(c, p) ==
  /\ At(c, "delete", p)
  /\ redis' = IF redisUp THEN Deleted(p) ELSE redis
  /\ Goto(c, "success", call[c].n)
  /\ UNCHANGED <<memory, redisVars, sent, known, lockVars, accepted>>

RecordSuccess(c, p) ==
  /\ At(c, "success", p)
  /\ failures' = [failures EXCEPT ![p] = 0]
  /\ lock' = [lock EXCEPT ![p] = "none"]
  /\ tries' = [tries EXCEPT ![p] = 0]
  /\ accepted' = IF outage THEN accepted ELSE [accepted EXCEPT ![p][call[c].n] = @ + 1]
  /\ Done(c)
  /\ UNCHANGED <<storeVars, redisVars, sent, known>>

\* A code that is not the stored one, which may always be entered: looking it up
\* changes nothing.
RecordFailureRead(c, p) ==
  /\ At(c, "lookup", p)
  /\ Goto(c, "count", failures[p])
  /\ UNCHANGED <<storeVars, redisVars, sent, known, lockVars, accepted>>

\* Mutant of RecordFailureWrite: the count is not read, and every wrong code is the first.
RecordFirstFailure(c, p) ==
  /\ At(c, "lookup", p)
  /\ failures' = [failures EXCEPT ![p] = 1]
  /\ lock' = [lock EXCEPT ![p] = IF MAX_FAILED_ATTEMPTS = 1 THEN "held" ELSE @]
  /\ tries' = [tries EXCEPT ![p] = @ + 1]
  /\ Done(c)
  /\ UNCHANGED <<storeVars, redisVars, sent, known, accepted>>

\* What was read, plus one: of two failures read together one is lost.  Above the
\* limit the number makes no difference.
RecordFailureWrite(c, p) ==
  LET newCount == IF call[c].n < MAX_FAILED_ATTEMPTS THEN call[c].n + 1 ELSE call[c].n IN
  /\ At(c, "count", p)
  /\ failures' = [failures EXCEPT ![p] = newCount]
  /\ lock' = [lock EXCEPT ![p] = IF newCount >= MAX_FAILED_ATTEMPTS THEN "held" ELSE @]
  /\ tries' = [tries EXCEPT ![p] = @ + 1]
  /\ Done(c)
  /\ UNCHANGED <<storeVars, redisVars, sent, known, accepted>>

-----------------------------------------------------------------------------
Login(c, p) == StoreMemory(c, p) \/ StoreRedis(c, p)

VerifyOtp(c, p) ==
  \/ VerifyBegin(c, p) \/ Unlock(c, p) \/ LookUp(c, p) \/ DeleteRedis(c, p)
  \/ RecordSuccess(c, p) \/ RecordFailureRead(c, p) \/ RecordFailureWrite(c, p)

Next ==
  \/ \E c \in Caller, p \in Phone : Login(c, p) \/ VerifyOtp(c, p)
  \/ \E p \in Phone : LockPasses(p) \/ \E n \in Code : CodeExpires(p, n)
  \/ Restart \/ RedisFails \/ RedisReturns

Spec == Init /\ [][Next]_vars

(***************************************************************************)
(* Properties                                                              *)
(***************************************************************************)

\* As long as Redis has not been away, a code is accepted again only by the calls that
\* found it together; a new code, a restart and a late delete do not bring it back.
AcceptedTwiceTogetherOnly ==
  ~outage =>
    \A p \in Phone, n \in Code :
      accepted[p][n]
        + Cardinality({c \in Caller : call[c].stage \in {"delete", "success"}
                                        /\ call[c].phone = p /\ call[c].n = n})
        <= Cardinality(Caller)

\* The counts after which a wrong code does not lock the phone, and how the calls may
\* stand to them: how many would write at most k + 1, for each such k.
Harmless == {k \in 0 .. MAX_FAILED_ATTEMPTS : k + 1 < MAX_FAILED_ATTEMPTS}
Standing ==
  {s \in [Harmless -> 0 .. Cardinality(Caller)] :
     \A j, k \in Harmless : j <= k => s[j] <= s[k]}

\* A wrong code that does not lock the phone brings another standing, and none comes
\* again; then all the calls there are may answer once more.
TriesBound == Cardinality(Standing) - 1 + Cardinality(Caller)

\* The lock comes after a bounded number of wrong codes although counts read together
\* are lost, set back by a late write and reset by a late unlock.
LockComesInTime ==
  \A p \in Phone : tries[p] <= TriesBound
=============================================================================
