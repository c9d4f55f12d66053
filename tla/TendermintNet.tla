---------------------------- MODULE TendermintNet ---------------------------
(***************************************************************************)
(* N validators exchanging proposals, votes and catch-up messages.  The    *)
(* honest ones run Core; a faulty one signs whatever it likes under its    *)
(* own name.  The network is what has been sent: a message may arrive      *)
(* late, never, more than once and in any order, at each receiver.         *)
(*                                                                         *)
(* A validator's chain grows by blocks that some honest validator has      *)
(* committed: its own (the miner writes what the backend returns) or one   *)
(* it downloads.  Handlers read only the number of its head.               *)
(***************************************************************************)
EXTENDS Core

CONSTANTS Honest,           \* validators that run the code
          Faulty,           \* the others
          FaultyMessages,   \* what the faulty ones may send
          MaxRound,         \* bound: no core goes to a later round
          MaxHeight,        \* bound: no core goes to a later height
          MaxMined,         \* bound: blocks the miner of each one makes for a height
          MaxRetry,         \* bound: catch-up requests of each one per step
          MaxStops          \* bound: stops of the core of each one

ASSUME NetAssumption ==
  /\ Honest \cup Faulty = 0 .. N - 1 /\ Honest \cap Faulty = {} /\ Honest # {}
  /\ \A m \in FaultyMessages : m.from \in Faulty /\ IsMessage(m)
  /\ MaxRound \in Nat /\ MaxHeight \in Nat
  /\ {MaxMined, MaxRetry, MaxStops} \subseteq [Honest -> Nat]

VARIABLES node,    \* the core of each honest validator
          head,    \* the number of the last block of its chain
          mined,   \* how many blocks its miner made on that head
          news,    \* chain head events that its worker has not read
          posted,  \* numbers of the FinalCommittedEvents on their way to its core
          up,      \* its core is started
          stops    \* how often it was stopped

chain == <<head, mined, news>>

vars == <<node, chain, posted, up, stops>>

\* The k-th block that validator i mines for a height.
Mined(i, height, k) == [number |-> height, id |-> <<i, k>>]

Sent == UNION { node[i].out : i \in Honest }

Committed == UNION { { c.block : c \in node[i].committed } : i \in Honest }

Receives(i, m) == m.type \in {"catchUpRequest", "catchUpReply"} => i \in m.to

\* Validator i goes to state s, which the bounds allow.
Becomes(i, s) ==
  /\ s.round <= MaxRound /\ s.height <= MaxHeight
  /\ node' = [node EXCEPT ![i] = s]

Ready(i) == up[i] /\ Idle(node[i])
-----------------------------------------------------------------------------
Init ==
  /\ node = [i \in Honest |-> Start(getInitializedState(i, 0), 0)]
  /\ head = [i \in Honest |-> 0]
  /\ mined = [i \in Honest |-> 0]
  /\ news = [i \in Honest |-> 0]
  /\ posted = [i \in Honest |-> {}]
  /\ up = [i \in Honest |-> TRUE]
  /\ stops = [i \in Honest |-> 0]

\* handleMsg, for a message of another validator or of its own.
Receive(i, m) ==
  /\ Ready(i) /\ Receives(i, m)
  /\ Becomes(i, handleMsgLocked(node[i], m))
  /\ UNCHANGED <<chain, posted, up, stops>>

\* A timeout reaches the core; MaxRetry bounds the catch-up requests of a step.
Timeout(i) ==
  /\ Ready(i)
  /\ \E t \in Timeouts(node[i]) :
       /\ t.step \in {RoundStepPrevote, RoundStepPrecommit} => t.retry < MaxRetry[i]
       /\ Becomes(i, handleTimeout(node[i], t))
  /\ UNCHANGED <<chain, posted, up, stops>>

\* Seal posts a block of the miner to the core; the miner makes no block twice.
NewBlock(i) ==
  /\ Ready(i) /\ mined[i] < MaxMined[i]
  /\ Becomes(i, handleNewBlock(node[i], Mined(i, head[i] + 1, mined[i])))
  /\ mined' = [mined EXCEPT ![i] = @ + 1]
  /\ UNCHANGED <<head, news, posted, up, stops>>

\* The chain is extended, whether or not the core runs.
InsertBlock(i) ==
  /\ head[i] < MaxHeight - 1
  /\ \E b \in Committed : b.number = head[i] + 1
  /\ head' = [head EXCEPT ![i] = @ + 1]
  /\ mined' = [mined EXCEPT ![i] = 0]
  /\ news' = [news EXCEPT ![i] = @ + 1]
  /\ UNCHANGED <<node, posted, up, stops>>

\* The worker reads a chain head event and tells the backend the current head.
HandleNewChainHead(i) ==
  /\ news[i] > 0
  /\ news' = [news EXCEPT ![i] = @ - 1]
  /\ posted' = [posted EXCEPT ![i] = IF up[i] THEN @ \cup {head[i]} ELSE @]
  /\ UNCHANGED <<node, head, mined, up, stops>>

\* FinalCommittedEvent, posted by a goroutine that may run at any time.
FinalCommitted(i) ==
  /\ Ready(i)
  /\ \E newHead \in posted[i] :
       /\ Becomes(i, handleFinalCommitted(node[i], newHead, head[i]))
       /\ posted' = [posted EXCEPT ![i] = @ \ {newHead}]
  /\ UNCHANGED <<chain, up, stops>>

\* An event posted to a stopped core is lost: it has no subscription.
LoseEvent(i) ==
  /\ ~ up[i]
  /\ \E newHead \in posted[i] : posted' = [posted EXCEPT ![i] = @ \ {newHead}]
  /\ UNCHANGED <<node, chain, up, stops>>

ProcessFutureMessage(i) ==
  /\ up[i] /\ node[i].draining /\ ~ node[i].panicked
  /\ IF DrainingDone(node[i]) THEN Becomes(i, [node[i] EXCEPT !.draining = FALSE])
     ELSE \E m \in FutureFront(node[i]) : Becomes(i, processFutureMessage(node[i], m))
  /\ UNCHANGED <<chain, posted, up, stops>>

StopCore(i) ==
  /\ Ready(i) /\ stops[i] < MaxStops[i]
  /\ Becomes(i, Stop(node[i]))
  /\ up' = [up EXCEPT ![i] = FALSE]
  /\ stops' = [stops EXCEPT ![i] = @ + 1]
  /\ UNCHANGED <<chain, posted>>

StartCore(i) ==
  /\ ~ up[i]
  /\ Becomes(i, Start(node[i], head[i]))
  /\ up' = [up EXCEPT ![i] = TRUE]
  /\ UNCHANGED <<chain, posted, stops>>

Next ==
  \E i \in Honest :
    \/ \E m \in Sent \cup FaultyMessages : Receive(i, m)
    \/ Timeout(i)
    \/ NewBlock(i)
    \/ InsertBlock(i)
    \/ HandleNewChainHead(i)
    \/ FinalCommitted(i)
    \/ LoseEvent(i)
    \/ ProcessFutureMessage(i)
    \/ StopCore(i)
    \/ StartCore(i)

Spec == Init /\ [][Next]_vars

\* Proposals may be lost for good; the timeout of Propose is there for that.
Lossless == { m \in Sent : m.type # "propose" }

Steps ==
  \E i \in Honest :
    \/ Timeout(i) \/ NewBlock(i) \/ StartCore(i)
    \/ InsertBlock(i) \/ HandleNewChainHead(i) \/ FinalCommitted(i)
    \/ ProcessFutureMessage(i)
    \/ \E m \in Lossless : Receive(i, m)

\* s is another state of i that the bounds allow.
Changes(i, s) == s # node[i] /\ s.round <= MaxRound /\ s.height <= MaxHeight

\* ENABLED <<Steps>>_vars, as a state predicate.
Busy ==
  \E i \in Honest :
    \/ ~ up[i] \/ news[i] > 0
    \/ /\ up[i] /\ node[i].draining
       /\ ~ DrainingDone(node[i]) =>
            \E m \in FutureFront(node[i]) : Changes(i, processFutureMessage(node[i], m))
    \/ head[i] < MaxHeight - 1 /\ \E b \in Committed : b.number = head[i] + 1
    \/ /\ Ready(i)
       /\ \/ mined[i] < MaxMined[i]
          \/ \E m \in Lossless : Receives(i, m) /\ Changes(i, handleMsgLocked(node[i], m))
          \/ \E t \in Timeouts(node[i]) :
               /\ t.step \in {RoundStepPrevote, RoundStepPrecommit} => t.retry < MaxRetry[i]
               /\ Changes(i, handleTimeout(node[i], t))
          \/ posted[i] # {}

(***************************************************************************)
(* WF_vars(Steps).  The timer fires, the miner makes its block, the loops  *)
(* of the handlers end, blocks and the events about them arrive, and so    *)
(* does every message between honest validators that is not a proposal: as *)
(* long as some of this can change a state, some of it happens.  Nobody    *)
(* has to stop.                                                            *)
(***************************************************************************)
Fairness == []<>(~ Busy) \/ []<><<Steps>>_vars

FairSpec == Spec /\ Fairness
-----------------------------------------------------------------------------
(* What a core has signed and received at the height it works on. *)

VotesOf(type, h) ==
  { <<m.from, m.round, m.block>> : m \in { k \in Sent : k.type = type /\ k.number = h } }

Decisions(h) ==
  UNION { { <<i, c.block>> : c \in { d \in node[i].committed : d.block.number = h } } : i \in Honest }

Own(i, type) == { x \in VotesOf(type, node[i].height) : x[1] = i }

\* The blocks, or Nil, with a polka among the prevotes that i has received.
PolkaSeen(i, r) == TwoThirdMajority(node[i].prevotes, r)

\* A polka for something other than b after round r0, up to round r.
ReleasedBy(i, b, r0, r) == \E r1 \in r0 + 1 .. r : PolkaSeen(i, r1) \ {b} # {}
-----------------------------------------------------------------------------
Block == [number : 0 .. MaxHeight, id : (0 .. N - 1) \X Nat] \cup {EmptyHeaderBlock}

TimeoutInfo == [number : Nat, round : Nat, step : 0 .. 8, retry : Nat]

(***************************************************************************)
(* The type of a core: the round state, its votes, its timer.              *)
(***************************************************************************)
TypeOK ==
  /\ DOMAIN node = Honest /\ up \in [Honest -> BOOLEAN]
  /\ head \in [Honest -> 0 .. MaxHeight] /\ {mined, news, stops} \subseteq [Honest -> Nat]
  /\ posted \in [Honest -> SUBSET (1 .. MaxHeight)]
  /\ \A i \in Honest : LET s == node[i] IN
       /\ s.address = i /\ s.height \in 1 .. MaxHeight
       /\ s.round \in 0 .. MaxRound /\ s.step \in RoundStepNewHeight .. RoundStepCommit
       /\ s.block \in Block \cup {Nil}
       /\ s.lockedRound \in -1 .. MaxRound /\ s.lockedBlock \in Block \cup {Nil}
       /\ s.validRound \in -1 .. MaxRound /\ s.validBlock \in Block \cup {Nil}
       /\ s.commitRound \in -1 .. MaxRound
       /\ s.proposalReceived # Nil =>
            s.proposalReceived \in [block : Block, round : 0 .. MaxRound, polRound : -1 .. MaxRound]
       /\ s.proposer \in 0 .. N - 1
       /\ \A x \in s.prevotes \cup s.precommits :
            x[1] \in 0 .. N - 1 /\ x[2] \in Nat /\ x[3] \in Block \cup {Nil}
       /\ s.ti \in TimeoutInfo /\ s.late \subseteq TimeoutInfo
       /\ {s.armed, s.precommitWaited, s.draining, s.panicked} \subseteq BOOLEAN

(***************************************************************************)
(* The impossible cases that the code answers with a panic never happen: a *)
(* precommit of a polka older than POLInfo, a wait or a commit without the *)
(* votes for it, a timeout of an unknown step (enterPrecommit,             *)
(* enterPrecommitWait, enterCommit, handleTimeout).                        *)
(***************************************************************************)
NoPanic == \A i \in Honest : ~ node[i].panicked

(***************************************************************************)
(* A core never signs two different votes of a kind in a round of a        *)
(* height, over timeouts, catch-up, skipped rounds and restarts in memory  *)
(* (enterPrevote, enterPrecommit, enterNewRound, startNewRound).           *)
(***************************************************************************)
OneVotePerRound ==
  \A i \in Honest : \A m, k \in node[i].out :
    (/\ m.type \in {"prevote", "precommit"} /\ m.type = k.type
     /\ m.number = k.number /\ m.round = k.round) => m = k

(***************************************************************************)
(* A core precommits a block only in a round in which it has received a    *)
(* polka for it; it then keeps its lock on that block until it has         *)
(* received a polka for something else, and before that prevotes nothing   *)
(* else in a later round (enterPrecommit, Unlock in handlePrevote,         *)
(* defaultDoPrevote).                                                      *)
(***************************************************************************)
LockRule ==
  \A i \in Honest : \A x \in Own(i, "precommit") : x[3] # Nil =>
    /\ x[3] \in PolkaSeen(i, x[2])
    /\ \/ ReleasedBy(i, x[3], x[2], node[i].round)
       \/ node[i].lockedBlock = x[3] /\ node[i].lockedRound >= x[2]
    /\ \A y \in Own(i, "prevote") :
         x[2] < y[2] /\ y[3] # x[3] => ReleasedBy(i, x[3], x[2], y[2])

(***************************************************************************)
(* Whatever rounds a core has skipped, and however it came to its height,  *)
(* it expects the proposer that every other core at its height and round   *)
(* expects (CalcProposer in enterNewRound, Validators in startNewRound).   *)
(***************************************************************************)
SameProposer ==
  \A i \in Honest :
    node[i].proposer = CalcProposer(N, InitialProposer(N, node[i].height), node[i].round)

(***************************************************************************)
(* A core that is not at Commit always has a timer running that will move  *)
(* it on, or make it ask again, from exactly where it is: no stop, restart,*)
(* skipped round or ignored ScheduleTimeout leaves it without              *)
(* (ScheduleTimeout, earlierOrEqual, startNewRound).                       *)
(***************************************************************************)
TimerRuns ==
  \A i \in Honest : LET s == node[i] IN
    Ready(i) /\ s.step # RoundStepCommit =>
      /\ s.armed
      /\ s.ti.number = s.height /\ s.ti.round = s.round /\ s.ti.step = s.step

(***************************************************************************)
(* What a core may be asked to send again is what it sent: every vote it   *)
(* signed at its height is in the store, one of a kind in a round, in the  *)
(* order of round and step that lookup needs (storeSentMsg,                *)
(* truncateMsgStored).                                                     *)
(***************************************************************************)
SentIsStored ==
  \A i \in Honest : LET s == node[i] IN
    /\ \A m \in s.out :
         m.type \in {"prevote", "precommit"} /\ m.number = s.height =>
           \E k \in 1 .. Len(s.savedMsg) : s.savedMsg[k] = m
    /\ \A j, k \in 1 .. Len(s.savedMsg) : LET m == s.savedMsg[j] q == s.savedMsg[k] IN
         j < k => \/ m.round < q.round
                  \/ m.round = q.round /\ StepOf(m) < StepOf(q)
                  \/ m.round = q.round /\ m.type = "propose" /\ q.type = "propose"

\* The messages of its sender that a reply repeats; the others are not looked at.
Repeated(m) ==
  { m.payloads[k] : k \in { j \in DOMAIN m.payloads : m.payloads[j].from = m.from } }

\* What validators have signed: their messages, and those inside of replies.
Signed ==
  LET all == Sent \cup FaultyMessages
  IN  all \cup UNION { Repeated(m) : m \in { x \in all : x.type = "catchUpReply" } }

(***************************************************************************)
(* A committed block is one that VerifyProposal accepted, and carries the  *)
(* seals of MinMajority validators that precommitted it in one round, even *)
(* when the core has left that round (FinalizeBlock, finalizeCommit).      *)
(***************************************************************************)
CommitSound ==
  \A i \in Honest : \A c \in node[i].committed :
    /\ c.block \in Accepted
    /\ Cardinality(c.seals) = MinMajority(N)
    /\ \E r \in { m.round : m \in { x \in Signed : x.type = "precommit" } } :
         \A j \in c.seals : \E m \in Signed :
           /\ m.type = "precommit" /\ m.from = j
           /\ m.number = c.block.number /\ m.round = r /\ m.block = c.block

(***************************************************************************)
(* Height and round never go back, and within a round the step does not    *)
(* either, but for the return from Commit to PrecommitWait when votes of   *)
(* the current round arrive after the majority of an earlier one           *)
(* (enterPrecommitWait).                                                   *)
(***************************************************************************)
Before(s, t) ==
  \/ s.height < t.height
  \/ s.height = t.height /\ s.round < t.round
  \/ s.height = t.height /\ s.round = t.round /\ s.step <= t.step

NeverBack ==
  [][\A i \in Honest :
       \/ Before(node[i], node'[i])
       \/ /\ node[i].step = RoundStepCommit /\ node'[i].step = RoundStepPrecommitWait
          /\ node[i].height = node'[i].height /\ node[i].round = node'[i].round
          /\ node[i].commitRound < node[i].round]_vars

(***************************************************************************)
(* When votes arrive, no core is stuck, whichever proposals are lost: each *)
(* one commits a block or goes on to the next round, up to the last round  *)
(* considered (enterPropose, enterPrevoteWait, enterPrecommitWait).        *)
(***************************************************************************)
Progress ==
  \A i \in Honest : <>(node[i].committed # {} \/ node[i].round = MaxRound)

(***************************************************************************)
(* Once a validator has committed the block of a height, every core goes   *)
(* on to a later height, also one that was stopped meanwhile or that could *)
(* not commit the block itself (handleFinalCommitted, startNewRound).      *)
(***************************************************************************)
NextHeight ==
  \A h \in 1 .. MaxHeight - 1 :
    (\E b \in Committed : b.number = h) ~> (\A i \in Honest : node[i].height > h)
=============================================================================
