-------------------------------- MODULE MCMixer --------------------------------
(* Small instances of Mixer for TLC. *)
EXTENDS MixerInv, TLC

TwoFiles == {"adding.c", "sub/one.c"}
TwoNames == {"adding", "sub_one"}
Apart    == [f \in TwoFiles |-> IF f = "adding.c" THEN "adding" ELSE "sub_one"]

\* sub_one.c beside sub/one.c.
ThreeFiles == {"adding.c", "sub_one.c", "sub/one.c"}
Clashing   == [f \in ThreeFiles |-> IF f = "adding.c" THEN "adding" ELSE "sub_one"]

OneTest      == {"t"}
TestAndSetup == {"t", "initialize"}

Shrinking == [shrinks |-> TRUE, kills |-> FALSE, excludes |-> {{}, {"adding"}}]
Killing   == [shrinks |-> FALSE, kills |-> TRUE, excludes |-> {{"adding"}}]

\* Files are emptied and removed, and no run is killed; or runs are killed, files
\* keep their tests, and -x stays the same.
BothWorlds == {Shrinking, Killing}
OneWorld   == {[Shrinking EXCEPT !.excludes = {{}}]}
================================================================================
