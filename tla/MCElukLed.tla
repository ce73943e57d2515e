------------------------------ MODULE MCElukLed ------------------------------
(***************************************************************************)
(* Instance of ElukLed for TLC.  Each input set has a value the check      *)
(* accepts, one it rejects and, for the two parameters it narrows to a     *)
(* byte, one it accepts although it is wider than a byte.                  *)
(***************************************************************************)
EXTENDS ElukLed

MCEffects == {2, 6, 257}
MCLevels  == {2, 3, 256}
MCColors  == {170, 16777216}

=============================================================================
