----------------------------- MODULE MCUniwillEc -----------------------------
(***************************************************************************)
(* Instance of UniwillEc for TLC: two callers and two addresses that       *)
(* differ in both bytes (the keyboard's backlight state and red value).    *)
(***************************************************************************)
EXTENDS UniwillEc

MCAddrs    == {<<7, 140>>, <<24, 3>>}
MCOneAddr  == {<<7, 140>>}

\* The RAM starts out cleared.
MCInit == Init /\ ram = [a \in Address |-> 0]
MCSpec == MCInit /\ [][Next]_vars /\ Fairness

=============================================================================
