------------------------------- MODULE MCDispatch -------------------------------
(***************************************************************************)
(* Instances of Dispatch for TLC.                                          *)
(***************************************************************************)
EXTENDS Dispatch, TLC

DispatchSymmetry ==
  Permutations(Request) \cup Permutations(Customer) \cup Permutations(Helper)
    \cup Permutations(Caller)
=============================================================================
