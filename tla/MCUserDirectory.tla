-------------------------- MODULE MCUserDirectory --------------------------
(***************************************************************************)
(* Values of the constants of UserDirectory for TLC.                       *)
(***************************************************************************)
EXTENDS UserDirectory, TLC

WorkersAlike == Permutations(Workers)

TwoNumbers == <<"00000001", "00000002">>

\* The second number of the counter may be chosen as well.
TwoChosen == {"00000002", "zoe"}

\* The account that is imported looks like an ID.
OneAccount == {"00000002"}

\* The two IDs of an import, one of which may be somebody else's.
TwoAtOnce == {{"00000001", "00000002"}}
=============================================================================
