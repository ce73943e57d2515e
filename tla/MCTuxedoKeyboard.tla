-------------------------- MODULE MCTuxedoKeyboard --------------------------
(***************************************************************************)
(* Instances of TuxedoKeyboard for TLC: three interfaces that come and go  *)
(* in any order under Spec, the two Clevo ones under CalmSpec.  The        *)
(* interfaces are given in the configurations; nothing else needs a bound, *)
(* the state space is finite.                                              *)
(***************************************************************************)
EXTENDS TuxedoKeyboard

=============================================================================
