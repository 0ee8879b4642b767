------------------------------ MODULE OneTimeCode ------------------------------
(***************************************************************************)
(* What a one-time code promises: it is accepted once, while it is the     *)
(* code of now, and it is given up after MaxWrong wrong tries.             *)
(***************************************************************************)
EXTENDS Naturals

CONSTANTS
  Subject,
  Code,     \* the numbers of the codes, 0 for none
  MaxWrong

VARIABLES
  current,   \* the code of now, 0 for none
  issued,    \* the number of codes issued; they are numbered
  wrong,     \* the wrong tries since it was issued
  accepted   \* how often each code was accepted

vars == <<current, issued, wrong, accepted>>

Init ==
  /\ issued \in [Subject -> {0, 1}]
  /\ current = issued
  /\ wrong = [s \in Subject |-> 0]
  /\ accepted = [s \in Subject |-> [n \in Code |-> 0]]

Issue(s) ==
  /\ issued' = [issued EXCEPT ![s] = @ + 1]
  /\ current' = [current EXCEPT ![s] = issued[s] + 1]
  /\ wrong' = [wrong EXCEPT ![s] = 0]
  /\ UNCHANGED accepted

Refuse(s) ==
  /\ wrong[s] < MaxWrong
  /\ wrong' = [wrong EXCEPT ![s] = @ + 1]
  /\ UNCHANGED <<current, issued, accepted>>

Accept(s) ==
  /\ current[s] # 0
  /\ accepted[s][current[s]] = 0
  /\ accepted' = [accepted EXCEPT ![s][current[s]] = 1]
  /\ current' = [current EXCEPT ![s] = 0]
  /\ wrong' = [wrong EXCEPT ![s] = 0]
  /\ UNCHANGED issued

Next == \E s \in Subject : Issue(s) \/ Refuse(s) \/ Accept(s)

Spec == Init /\ [][Next]_vars
=============================================================================
