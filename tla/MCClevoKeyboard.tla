--------------------------- MODULE MCClevoKeyboard ---------------------------
(***************************************************************************)
(* Instance of ClevoKeyboard for TLC: a main and an extra region, two      *)
(* patterns, two palette colors, and numbers that lie beyond a byte and    *)
(* beyond every range.  A brightness step is the whole range where         *)
(* operations follow one another, and most of it where they overlap.       *)
(***************************************************************************)
EXTENDS ClevoKeyboard

MCPalette == <<255, White>>
MCCodes   == {16777216 + 255}
MCParams  ==
  {[color |-> [r \in Regions |-> White], pattern |-> p, brightness |-> 65535, enabled |-> 1] :
     p \in {0, 1}}

=============================================================================
