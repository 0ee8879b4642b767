------------------------------- MODULE Sessions -------------------------------
(***************************************************************************)
(* What follows an accepted login code: the user and helper rows, and the  *)
(* refresh tokens, which are rotated at each refresh and blacklisted when  *)
(* they were used.  The blacklist is in the process's memory.              *)
(*                                                                         *)
(* A refresh token is a JWT of the user, the role and the second in which  *)
(* it was signed: of one user and role, two of the same second are equal.  *)
(* The days until a token expires do not pass here.                        *)
(***************************************************************************)
EXTENDS Naturals, FiniteSets

CONSTANTS
  User,      \* a phone number, with or without a User row
  Caller,    \* the requests in flight at once
  MaxTime,   \* bound: the seconds that pass
  MaxRows    \* bound: the RefreshToken rows created

SessionAssumption == {MaxTime, MaxRows} \subseteq Nat /\ IsFiniteSet(Caller)

VARIABLES
  adminPhone,  \* the users with the administrator's number
  role,        \* User.role; none is no row
  helper,      \* the users with a Helper row
  rows,        \* the RefreshToken rows
  created,     \* how many of them were created; the last id
  blacklist,
  issued,      \* the tokens clients have been given
  logins,      \* history: how many logins have stored a token
  now,         \* the second
  call         \* what each request is doing

userVars == <<adminPhone, role, helper>>
rowVars == <<rows, created>>
vars == <<userVars, rowVars, blacklist, issued, logins, now, call>>

Role == {"none", "CUSTOMER", "HELPER", "ADMIN"}
Token == [user : User, role : Role, iat : 0 .. MaxTime]
Idle == [stage |-> "idle"]

\* used is the token presented, made the one signed; seen is the role that was read.
Call ==
  [stage : {"user", "helper", "sign", "store"}, user : User,
   flow : {"customer", "helper"}, seen : Role, made : SUBSET Token]
  \cup [stage : {"delete", "rotate", "blacklist", "logout"}, user : User, used : Token,
        id : Nat, seen : Role, made : SUBSET Token]

TypeOK ==
  /\ adminPhone \in SUBSET User
  /\ role \in [User -> Role]
  /\ helper \in SUBSET User
  /\ rows \in SUBSET [token : Token, id : 1 .. MaxRows]
  /\ created \in 0 .. MaxRows
  /\ blacklist \in SUBSET Token
  /\ issued \in SUBSET Token
  /\ logins \in [User -> Nat]
  /\ now \in 0 .. MaxTime
  /\ call \in [Caller -> Call \cup {Idle}]

Init ==
  /\ adminPhone \in SUBSET User
  /\ role = [u \in User |-> "none"]
  /\ helper = {}
  /\ rows = {}
  /\ created = 0
  /\ blacklist = {}
  /\ issued = {}
  /\ logins = [u \in User |-> 0]
  /\ now = 0
  /\ call = [c \in Caller |-> Idle]

At(c, stage) == call[c].stage = stage

Begin(c, record) ==
  /\ call[c] = Idle
  /\ call' = [call EXCEPT ![c] = record]

Done(c) == call' = [call EXCEPT ![c] = Idle]

Hashes == {r.token : r \in rows}

\* tokenHash is unique: a second row of the same token is an error.
CreateRow(t) ==
  /\ t \notin Hashes
  /\ created < MaxRows
  /\ created' = created + 1
  /\ rows' = rows \cup {[token |-> t, id |-> created + 1]}

\* A statement throws, or the connection is lost.
CallDies(c) ==
  /\ call[c] # Idle
  /\ Done(c)
  /\ UNCHANGED <<userVars, rowVars, blacklist, issued, logins, now>>

Restart ==
  /\ blacklist' = {}
  /\ call' = [c \in Caller |-> Idle]
  /\ UNCHANGED <<userVars, rowVars, issued, logins, now>>

Tick ==
  /\ now < MaxTime
  /\ now' = now + 1
  /\ UNCHANGED <<userVars, rowVars, blacklist, issued, logins, call>>

(***************************************************************************)
(* Logging in.                                                             *)
(***************************************************************************)

LoginRead(c, u, flow) ==
  /\ Begin(c, [stage |-> "user", user |-> u, flow |-> flow, seen |-> role[u], made |-> {}])
  /\ UNCHANGED <<userVars, rowVars, blacklist, issued, logins, now>>

\* The role the flow gives a user who had the role r.
RoleAfter(u, flow, r) ==
  IF flow = "helper" THEN "HELPER"
  ELSE IF u \in adminPhone THEN "ADMIN"
  ELSE IF r = "none" THEN "CUSTOMER" ELSE r

\* A user is created only if there is none (the phone is unique), and updated only if
\* the role that was read differs.
SetUser(c) ==
  LET u == call[c].user
      new == RoleAfter(u, call[c].flow, call[c].seen)
  IN
  /\ At(c, "user")
  /\ call[c].seen = "none" => role[u] = "none"
  /\ role' = IF call[c].seen = new THEN role ELSE [role EXCEPT ![u] = new]
  /\ call' = [call EXCEPT ![c].seen = new,
                          ![c].stage = IF call[c].flow = "helper" THEN "helper" ELSE "sign"]
  /\ UNCHANGED <<adminPhone, helper, rowVars, blacklist, issued, logins, now>>

\* The shop's registration and its login, which give no refresh token: who has no row
\* becomes a customer, also with the administrator's number.  A row that is there keeps
\* its role.
CreateCustomer(u) ==
  /\ role[u] = "none"
  /\ role' = [role EXCEPT ![u] = "CUSTOMER"]
  /\ UNCHANGED <<adminPhone, helper, rowVars, blacklist, issued, logins, now, call>>

\* userId is unique.
EnsureHelper(c) ==
  /\ At(c, "helper")
  /\ helper' = helper \cup {call[c].user}
  /\ call' = [call EXCEPT ![c].stage = "sign"]
  /\ UNCHANGED <<adminPhone, role, rowVars, blacklist, issued, logins, now>>

Signed(c) == [user |-> call[c].user, role |-> call[c].seen, iat |-> now]

SignLogin(c) ==
  /\ At(c, "sign")
  /\ call' = [call EXCEPT ![c].stage = "store", ![c].made = {Signed(c)}]
  /\ UNCHANGED <<userVars, rowVars, blacklist, issued, logins, now>>

StoreLogin(c) ==
  /\ At(c, "store")
  /\ \A t \in call[c].made : CreateRow(t)
  /\ issued' = issued \cup call[c].made
  /\ logins' = [logins EXCEPT ![call[c].user] = @ + 1]
  /\ Done(c)
  /\ UNCHANGED <<userVars, blacklist, now>>

(***************************************************************************)
(* Refreshing: the row is read, deleted by its id, and another created.    *)
(***************************************************************************)

RefreshRead(c, t) ==
  /\ t \in issued \ blacklist
  /\ \E r \in rows :
       /\ r.token = t
       /\ Begin(c, [stage |-> "delete", user |-> t.user, used |-> t, id |-> r.id,
                    seen |-> role[t.user], made |-> {}])
  /\ UNCHANGED <<userVars, rowVars, blacklist, issued, logins, now>>

\* A token used again takes all the user's sessions away.
RefreshReused(t) ==
  /\ t \in issued \cap blacklist
  /\ rows' = {r \in rows : r.token.user # t.user}
  /\ UNCHANGED <<userVars, created, blacklist, issued, logins, now, call>>

\* Mutant of MayRotate: deleting a row that is gone is no error.
MayRotateAnyway(c) == call[c].id \in 1 .. created

MayRotate(c) == \E r \in rows : r.id = call[c].id

\* The new token is signed as soon as the row is deleted.
RefreshDelete(c) ==
  /\ At(c, "delete")
  /\ MayRotate(c)
  /\ rows' = {r \in rows : r.id # call[c].id}
  /\ call' = [call EXCEPT ![c].stage = "rotate", ![c].made = {Signed(c)}]
  /\ UNCHANGED <<userVars, created, blacklist, issued, logins, now>>

RefreshStore(c) ==
  /\ At(c, "rotate")
  /\ \A t \in call[c].made : CreateRow(t)
  /\ call' = [call EXCEPT ![c].stage = "blacklist"]
  /\ UNCHANGED <<userVars, blacklist, issued, logins, now>>

\* The blacklist, and the answer with the new token.
RefreshBlacklist(c) ==
  /\ At(c, "blacklist")
  /\ blacklist' = blacklist \cup {call[c].used}
  /\ issued' = issued \cup call[c].made
  /\ Done(c)
  /\ UNCHANGED <<userVars, rowVars, logins, now>>

(***************************************************************************)
(* Logging out, with the token or everywhere.                              *)
(***************************************************************************)

LogoutDelete(c, t) ==
  /\ t \in issued
  /\ Begin(c, [stage |-> "logout", user |-> t.user, used |-> t, id |-> 0,
               seen |-> "none", made |-> {}])
  /\ rows' = {r \in rows : r.token # t}
  /\ UNCHANGED <<userVars, created, blacklist, issued, logins, now>>

LogoutBlacklist(c) ==
  /\ At(c, "logout")
  /\ blacklist' = blacklist \cup {call[c].used}
  /\ Done(c)
  /\ UNCHANGED <<userVars, rowVars, issued, logins, now>>

LogoutEverywhere(u) ==
  /\ \E t \in issued : t.user = u
  /\ rows' = {r \in rows : r.token.user # u}
  /\ UNCHANGED <<userVars, created, blacklist, issued, logins, now, call>>

-----------------------------------------------------------------------------
Login(c) ==
  \/ \E u \in User, flow \in {"customer", "helper"} : LoginRead(c, u, flow)
  \/ SetUser(c) \/ EnsureHelper(c) \/ SignLogin(c) \/ StoreLogin(c)

Refresh(c) ==
  \/ \E t \in issued : RefreshRead(c, t)
  \/ RefreshDelete(c) \/ RefreshStore(c) \/ RefreshBlacklist(c)

Logout(c) == LogoutBlacklist(c) \/ \E t \in issued : LogoutDelete(c, t)

Next ==
  \/ \E c \in Caller : Login(c) \/ Refresh(c) \/ Logout(c) \/ CallDies(c)
  \/ \E t \in issued : RefreshReused(t)
  \/ \E u \in User : LogoutEverywhere(u) \/ CreateCustomer(u)
  \/ Restart \/ Tick

Spec == Init /\ [][Next]_vars

(***************************************************************************)
(* Properties                                                              *)
(***************************************************************************)

\* Refreshing never multiplies a session, however many requests present one token at
\* once: a user has at most as many sessions, with those between the two halves of a
\* rotation, as there were logins.
SessionsComeFromLogins ==
  \A u \in User :
    Cardinality({r \in rows : r.token.user = u})
      + Cardinality({c \in Caller : At(c, "rotate") /\ call[c].user = u}) <= logins[u]
=============================================================================
