------------------------------ MODULE CoreInv -------------------------------
(***************************************************************************)
(* The inductive invariant of one core, relative to the messages M that    *)
(* have been signed in the network.  Each part is about one concern of the *)
(* code, and every handler of Core keeps all of them.                      *)
(***************************************************************************)
EXTENDS Core

\* The fields of a core; no handler adds one.
CoreFields ==
  {"address", "height", "round", "step", "block", "lockedRound", "lockedBlock", "validRound",
   "validBlock", "proposalReceived", "prevotes", "precommits", "precommitWaited",
   "commitRound", "proposer", "futureProposals", "futureMessages", "draining", "savedMsg",
   "ti", "armed", "late", "out", "committed", "panicked"}

\* Votes as handlePrevote and handlePrecommit store them.
AreVotes(votes) ==
  \A x \in votes : x = <<x[1], x[2], x[3]>> /\ x[1] \in 0 .. N - 1 /\ x[2] \in Int

\* Step 0 is that of the timer before ScheduleTimeout was called.
IsTimeout(t) ==
  /\ t.number \in Nat /\ t.round \in Nat /\ t.retry \in Nat
  /\ t.step \in {0, 1, 3, 4, 5, 6, 7}

(***************************************************************************)
(* The type of a core that has not panicked.  While it waits to start its  *)
(* height it is in round 0.                                                *)
(***************************************************************************)
TypeInv(s) ==
  /\ DOMAIN s = CoreFields
  /\ s.address \in 0 .. N - 1 /\ s.height \in Nat \ {0} /\ s.round \in Nat
  /\ s.step \in {1, 3, 4, 5, 6, 7, 8}
  /\ s.lockedRound \in Int /\ s.validRound \in Int /\ s.commitRound \in Int /\ s.proposer \in Int
  /\ AreVotes(s.prevotes) /\ AreVotes(s.precommits)
  /\ s.precommitWaited \in BOOLEAN /\ s.armed \in BOOLEAN /\ s.draining \in BOOLEAN
  /\ s.panicked = FALSE
  /\ IsTimeout(s.ti) /\ \A t \in s.late : IsTimeout(t)
  /\ s.step = RoundStepNewHeight => s.round = 0

\* The proposer does not depend on the rounds that were skipped.
ProposerInv(s) == s.proposer = CalcProposer(N, InitialProposer(N, s.height), s.round)

\* The blocks that a core holds: a proposal or a lock passed VerifyProposal.
BlockInv(s) ==
  /\ s.block # Nil => s.block.number \in Nat
  /\ s.validRound # -1 => s.validBlock.number \in Nat
  /\ s.proposalReceived # Nil =>
       /\ s.proposalReceived.polRound \in Int /\ s.proposalReceived.polRound <= s.round
       /\ s.proposalReceived.block.number = s.height
       /\ s.proposalReceived.block \in Accepted
  /\ s.lockedBlock # Nil => s.lockedBlock.number = s.height /\ s.lockedBlock \in Accepted

\* j signed a vote for b.
Voted(M, type, j, h, r, b) ==
  \E m \in M : /\ m.type = type /\ m.from = j /\ m.number = h /\ m.round = r /\ m.block = b

\* What was received was signed: votes that count, and messages put aside.
ReceivedInv(s, M) ==
  /\ \A m \in s.futureProposals : m \in M /\ IsStored(m) /\ m.type = "propose"
  /\ \A m \in s.futureMessages : m \in M /\ IsStored(m)
  /\ \A x \in s.prevotes : Voted(M, "prevote", x[1], s.height, x[2], x[3])
  /\ \A x \in s.precommits : Voted(M, "precommit", x[1], s.height, x[2], x[3])

IsVote(m) == m.type \in {"prevote", "precommit"}

\* (round, step) is not after where s is.
NotAfter(r, step, s) == r < s.round \/ (r = s.round /\ step <= s.step)

\* A catch-up reply repeats messages of out.
Repeats(m, out) ==
  m.type = "catchUpReply" => \A k \in DOMAIN m.payloads : m.payloads[k] \in out

\* A vote is for a block of its height that passed the checks, or for Nil.
ForBlock(m) == m.block = Nil \/ (m.block \in Accepted /\ m.block.number = m.number)

(***************************************************************************)
(* What a core has sent: under its own name, one vote of a kind in a round,*)
(* and none for a place that the core has not come to.                     *)
(***************************************************************************)
OutInv(s) ==
  /\ \A m \in s.out : IsMessage(m) /\ m.from = s.address /\ Repeats(m, s.out)
  /\ \A m \in s.out : IsVote(m) =>
       /\ m.round \in Nat /\ ForBlock(m)
       /\ m.number < s.height \/ (m.number = s.height /\ NotAfter(m.round, StepOf(m), s))
  /\ \A m, k \in s.out :
       IsVote(m) /\ m.type = k.type /\ m.number = k.number /\ m.round = k.round => m = k

(***************************************************************************)
(* The store of sent messages: every vote of the height, in the order of   *)
(* round and step, which storeSentMsg needs to keep the next one.          *)
(***************************************************************************)
StoreInv(s) ==
  /\ s.savedMsg \in Seq(s.out)
  /\ \A k \in 1 .. Len(s.savedMsg) :
       IsStored(s.savedMsg[k]) /\ NotAfter(s.savedMsg[k].round, StepOf(s.savedMsg[k]), s)
  /\ \A m \in s.out :
       IsVote(m) /\ m.number = s.height => \E k \in 1 .. Len(s.savedMsg) : s.savedMsg[k] = m
  /\ \A j, k \in 1 .. Len(s.savedMsg) : LET m == s.savedMsg[j] q == s.savedMsg[k] IN
       j < k => \/ m.round < q.round
                \/ m.round = q.round /\ StepOf(m) < StepOf(q)
                \/ m.round = q.round /\ m.type = "propose" /\ q.type = "propose"

(***************************************************************************)
(* No timeout is for a place the core has not come to, neither the one of  *)
(* the timer nor those already in the channel; one of PrecommitWait says   *)
(* that the core has waited (precommitWaited), so enterNewRound may follow.*)
(***************************************************************************)
TimeInv(s) ==
  /\ \A t \in {s.ti} \cup s.late :
       t.number < s.height \/ (t.number = s.height /\ NotAfter(t.round, t.step, s))
  /\ \A t \in {s.ti} \cup s.late :
       /\ t.number = s.height /\ t.round = s.round /\ t.step = RoundStepPrecommitWait
       => s.precommitWaited
  /\ s.step = RoundStepPrecommitWait => s.precommitWaited

\* A polka for something other than b after round r0, up to round r.
Released(s, b, r0, r) == \E r1 \in r0 + 1 .. r : TwoThirdMajority(s.prevotes, r1) \ {b} # {}

(***************************************************************************)
(* The lock: a core that precommitted a block had a polka for it, holds it *)
(* until it has seen a later polka for something else, and prevotes        *)
(* nothing else before that.                                               *)
(***************************************************************************)
LockInv(s) ==
  /\ s.lockedRound = -1 <=> s.lockedBlock = Nil
  /\ s.lockedRound >= -1 /\ s.lockedRound <= s.round
  /\ \A x \in s.out : x.type = "precommit" /\ x.number = s.height /\ x.block # Nil =>
       /\ x.block \in TwoThirdMajority(s.prevotes, x.round)
       /\ \/ Released(s, x.block, x.round, s.round)
          \/ s.lockedBlock = x.block /\ s.lockedRound >= x.round
       /\ \A y \in s.out :
            y.type = "prevote" /\ y.number = s.height /\ x.round < y.round /\ y.block # x.block =>
              Released(s, x.block, x.round, y.round)

\* A commit is of a block that the core accepted, with the seals of a majority of one round.
CommitIsSound(c, M) ==
  /\ c.block # Nil /\ c.block \in Accepted
  /\ c.seals \subseteq 0 .. N - 1 /\ Cardinality(c.seals) = MinMajority(N)
  /\ \E r \in Int : \A j \in c.seals : Voted(M, "precommit", j, c.block.number, r, c.block)

\* A core at Commit, or that knows a commit round, has the precommits for it.
CommitInv(s, M) ==
  /\ s.step = RoundStepCommit => s.commitRound <= s.round
  /\ s.commitRound > -1 \/ s.step = RoundStepCommit => HasMajority(s.precommits, s.commitRound)
  /\ \A c \in s.committed : CommitIsSound(c, M)

(***************************************************************************)
(* What every handler keeps, on its own and in any order with the others   *)
(* (handleMsg, handleTimeout, handleNewBlock, handleFinalCommitted, Start, *)
(* Stop).                                                                  *)
(***************************************************************************)
CoreInv(s, M) ==
  /\ TypeInv(s) /\ ProposerInv(s) /\ BlockInv(s) /\ ReceivedInv(s, M)
  /\ OutInv(s) /\ StoreInv(s) /\ TimeInv(s) /\ LockInv(s) /\ CommitInv(s, M)
-----------------------------------------------------------------------------
(* What a handler does to a core, from s to t. *)

StepNumber == {1, 3, 4, 5, 6, 7, 8}

\* t is not before s, but for the return from Commit to PrecommitWait.
Later(s, t) ==
  s.round < t.round \/ (s.round = t.round /\ (s.step <= t.step \/ t.step = 7))

Placed(s) == s.round \in Nat /\ s.step \in StepNumber

TimerAt(s, h, r, step) == s.armed /\ s.ti.number = h /\ s.ti.round = r /\ s.ti.step = step

\* The vote m is for a place of s's height that s has not come to.
Ahead(m, s) ==
  /\ m.number = s.height /\ m.round \in Nat /\ StepOf(m) \in {4, 6}
  /\ s.round < m.round \/ (s.round = m.round /\ s.step < StepOf(m))

\* What is signed or committed stays so, and a new vote is for a place that s has not come to.
VotesGo(s, t) ==
  /\ s.out \subseteq t.out /\ s.committed \subseteq t.committed
  /\ \A m \in t.out : IsVote(m) => m \in s.out \/ Ahead(m, s)

\* Within a height a core goes on, but for the return from Commit to PrecommitWait.
Onward(s, t) ==
  /\ t.height = s.height /\ t.address = s.address /\ VotesGo(s, t)
  /\ s.round <= t.round
  /\ s.round = t.round =>
       /\ s.step <= t.step \/ (s.step = 8 /\ t.step = 7 /\ s.commitRound < s.round)
       /\ s.step = 8 /\ s.commitRound >= s.round => t.step = 8 /\ t.commitRound = s.commitRound

\* The timer is for where t is, or what it was and t is where s was.
TimerGoes(s, t) ==
  \/ t.step = 8
  \/ TimerAt(t, t.height, t.round, t.step)
  \/ t.round = s.round /\ t.step = s.step /\ t.ti = s.ti /\ t.armed = s.armed

Moves(s, t) == Onward(s, t) /\ TimerGoes(s, t)

\* What a handler that receives no vote does to a core.
Goes(s, t, M) ==
  /\ CoreInv(t, M) /\ Moves(s, t)
  /\ t.prevotes = s.prevotes /\ t.precommits = s.precommits

\* What a handler does to a core at its height.
Works(s, t, M) == CoreInv(t, M) /\ Moves(s, t)

\* A core that is not at Commit has the timer of its step running.
Timed(s) == s.step = 8 \/ TimerAt(s, s.height, s.round, s.step)

\* What a handler does to a core at its height, a timeout that it takes included.
Runs(s, t, M) == CoreInv(t, M) /\ Onward(s, t) /\ (Timed(s) => Timed(t))
=============================================================================
