----------------------------- MODULE MCTuxedoIo -----------------------------
(***************************************************************************)
(* Instance of TuxedoIo for TLC.  Two callers; a fan speed that is wider   *)
(* than a byte; a mode that switches full fan mode on besides a profile,   *)
(* and one that does not; two rounds of writes, one before the ramp-up is  *)
(* over and one after; a failed read that looks like full fan mode and one *)
(* that does not.                                                          *)
(***************************************************************************)
EXTENDS TuxedoIo, TLC

MCGarbage  == {0, 255}
MCSpeeds   == {100, 300}
MCModes    == {16, 96}
MCEcSpeeds == {200}
MCLevels   == {0, 99}
MCArgs     == {1, 2}

CallerSymmetry == Permutations(Callers)

(***************************************************************************)
(* On the Uniwill machine with a lightbar tuxedo_io is not loaded, and on  *)
(* the one without it stays: ioctls and lightbar share no register, and    *)
(* the device's life is that of the Clevo machine.                         *)
(***************************************************************************)
MCInit ==
  /\ machine \in {"uniwill", "clevo"}
  /\ EcInit /\ FansInit /\ LightbarInit /\ ClevoInit
  /\ machine = "uniwill" => ~toggles /\ position = [s \in Switches |-> 0]
  /\ machine = "clevo" => ~hasLightbar
  /\ IF machine = "uniwill" /\ ~hasLightbar THEN Loaded ELSE NotLoaded
  /\ ops = 0

MCNext == Next /\ (machine = "uniwill" => UNCHANGED chardev)

MCSpec == MCInit /\ [][MCNext]_vars

=============================================================================
