---------------------------- MODULE ValidatorSet ----------------------------
(***************************************************************************)
(* The arithmetic of a validator set (validator/default.go): how many      *)
(* faulty members it tolerates, how many votes make a majority and whose   *)
(* turn it is to propose.                                                  *)
(*                                                                         *)
(* A set of n validators, sorted by address, is the interval 0 .. n-1: a   *)
(* validator is its index in the sorted list.  Every operator takes the    *)
(* size n, because the code recomputes it from the list on each call.      *)
(***************************************************************************)
EXTENDS Integers

\* GetByAddress(addr) # -1.
IsValidator(n, i) == i \in 0 .. n - 1

\* ceil(n / 3) - 1: the largest number of faulty validators tolerated.
F(n) == (n + 2) \div 3 - 1

\* The votes that make a polka (prevotes) or a commit (precommits).
MinMajority(n) == n - F(n)

\* Peers that a broadcast has to reach, and that a node needs to start.
MinPeers(n) == n - F(n) - 1

\* newDefaultSet: the proposer a fresh set starts with at a height.
InitialProposer(n, height) == (IF height > 0 THEN height - 1 ELSE height) % n

\* CalcProposer: roundRobinProposer and stickyProposer pick the same index.
CalcProposer(n, lastProposer, roundDiff) == (lastProposer + roundDiff) % n
=============================================================================
