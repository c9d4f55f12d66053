----------------------------- MODULE NetVoting ------------------------------
(***************************************************************************)
(* TendermintNet as an implementation of Voting.                           *)
(***************************************************************************)
EXTENDS TendermintNet

\* The votes and the decisions at the first height, as Voting sees them.
V1 == INSTANCE Voting WITH
        Value <- { b \in Accepted : b.number = 1 }, Round <- 0 .. MaxRound,
        prevotes <- VotesOf("prevote", 1), precommits <- VotesOf("precommit", 1),
        decided <- Decisions(1)

(***************************************************************************)
(* The cores, with their messages lost, delayed and reordered, keep the    *)
(* voting rules of a height: every handler is a batch of votes that Voting *)
(* allows, or leaves the votes alone (handleMsg, handleTimeout).           *)
(***************************************************************************)
Refines == V1!Spec
=============================================================================
