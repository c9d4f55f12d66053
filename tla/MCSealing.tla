----------------------------- MODULE MCSealing ------------------------------
(***************************************************************************)
(* One height, for which this miner may make two blocks and another        *)
(* validator proposes one.                                                 *)
(***************************************************************************)
EXTENDS Sealing

MCNumbers == 1 .. 1

MCOwn == {[number |-> 1, id |-> "own"], [number |-> 1, id |-> "again"]}

MCBlocks == MCOwn \cup {[number |-> 1, id |-> "other"]}

MCChannels == 1 .. 2
=============================================================================
