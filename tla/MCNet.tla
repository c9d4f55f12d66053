------------------------------- MODULE MCNet --------------------------------
(***************************************************************************)
(* TendermintNet for TLC: the bounds and the faulty validators of the      *)
(* runs.                                                                   *)
(***************************************************************************)
EXTENDS NetVoting, TLC

None == [i \in Honest |-> 0]
One == [i \in Honest |-> 1]
OnlyFirst == [i \in Honest |-> IF i = 0 THEN 1 ELSE 0]

BlockA == Mined(0, 1, 0)
BlockB == Mined(0, 1, 1)
BlockC == Mined(2, 1, 0)

Propose(i, r, b, polRound) ==
  [type |-> "propose", from |-> i, number |-> b.number, round |-> r, block |-> b,
   polRound |-> polRound]

Votes(types, senders, rounds, values) ==
  [type : types, from : senders, number : {1}, round : rounds, block : values]

(***************************************************************************)
(* The other validators of a core, free to send what they like: proposals  *)
(* of rounds 0 and 2, a block that fails the checks among them, votes, and *)
(* a catch-up reply nobody has asked for, which alone has a precommit of   *)
(* validator 0 in round 0, and one of validator 2, which ends it.          *)
(***************************************************************************)
Reply(i, votes) ==
  [type |-> "catchUpReply", from |-> i, to |-> Honest, number |-> 1, payloads |-> votes]

AnyVotes ==
  { Propose(0, 0, BlockA, -1), Propose(0, 0, BlockB, -1),
    Propose(2, 2, BlockC, -1), Propose(2, 2, BlockA, 0) } \cup
  Votes({"prevote"}, {0, 2, 3}, {0}, {BlockA}) \cup
  Votes({"prevote"}, {0, 2}, {1}, {BlockA, Nil}) \cup
  Votes({"prevote"}, {3}, {1}, {Nil}) \cup
  Votes({"prevote"}, {0, 2}, {2}, {BlockC}) \cup
  Votes({"precommit"}, {2}, {0}, {BlockA}) \cup
  Votes({"precommit"}, {0, 2}, {1}, {Nil}) \cup
  { Reply(0, votes) :
    votes \in Votes({"precommit"}, {0}, {0}, {BlockA}) \X Votes({"precommit"}, {2}, {0}, {BlockA}) }

\* The blocks that the miners make, and all of these but one.
Blocks == UNION { { Mined(i, h, k) : k \in 0 .. 1 } : i \in 0 .. N - 1, h \in 1 .. MaxHeight }

AllButB == Blocks \ {BlockB}

\* Handlers count votes, so those of the faulty ones may come in their order.
InOrder ==
  \A i \in Honest : \A votes \in {node[i].prevotes, node[i].precommits} :
    \A x \in votes, j \in Faulty :
      x[1] \in Faulty /\ j < x[1] => \E y \in votes : y[1] = j /\ y[2] = x[2]
-----------------------------------------------------------------------------
(* What comments of the code say, and the code does not do. *)

(***************************************************************************)
(* roundState.go: "validRound is last known round with PoLC for non-nil    *)
(* valid block".  A core locks a block on a polka for it, so the round of  *)
(* the lock would be such a round (SetLockedRoundAndBlock).                *)
(***************************************************************************)
ValidRoundIsLast == \A i \in Honest : node[i].validRound >= node[i].lockedRound

(***************************************************************************)
(* sentMsgStorage.go: "Core's state is increasing step by step"            *)
(* (UpdateRoundStep).                                                      *)
(***************************************************************************)
StepByStep == [][\A i \in Honest : Before(node[i], node'[i])]_vars

(***************************************************************************)
(* core.go: "futureMessages stores future messages [...] and handle them   *)
(* later when we jump to that block number" (processFutureMessages).       *)
(***************************************************************************)
FutureMessagesHandled ==
  \A i \in Honest : Ready(i) => \A m \in node[i].futureMessages : m.number > node[i].height

(***************************************************************************)
(* consensus.go: "if we hasn't received a legit block from miner, don't    *)
(* propose" (defaultDecideProposal).                                       *)
(***************************************************************************)
OnlyLegitProposals ==
  \A m \in Sent : m.type = "propose" => m.block # EmptyHeaderBlock

(***************************************************************************)
(* consensus.go: "enterPrevote is called [...] when proposal block and POL *)
(* is ready", so that no core rests at Propose with both (handlePrevote).  *)
(***************************************************************************)
PrevoteWhenReady ==
  \A i \in Honest : Ready(i) /\ node[i].step = RoundStepPropose => ~ IsProposalComplete(node[i])
=============================================================================
