------------------------------ MODULE MCVoting ------------------------------
(***************************************************************************)
(* Voting for TLC: three honest validators and a faulty one, two blocks,   *)
(* the rounds 0 .. MaxRound.                                               *)
(***************************************************************************)
EXTENDS Voting, TLC

CONSTANTS h1, h2, h3, f1, b1, b2, nil, MaxRound

MCHonest == {h1, h2, h3}
MCFaulty == {f1}
MCValue == {b1, b2}
MCRound == 0 .. MaxRound

Symmetry == Permutations(MCHonest) \cup Permutations(MCValue)
=============================================================================
