-------------------------- MODULE MCUniwillKeyboard --------------------------
(***************************************************************************)
(* Instance of UniwillKeyboard for TLC: one sysfs writer, two channels, the*)
(* default and the highest brightness, a number and a color that are       *)
(* refused, an animation of two frames in bytes that the driver sends too, *)
(* and a backlight that is lit or dark when the driver comes.              *)
(***************************************************************************)
EXTENDS UniwillKeyboard

MCColors == {White, 16777216}
MCFrames == {3932360, 13107260}       \* 0x3c00c8 and 0xc8003c
=============================================================================
