-------------------------------- MODULE Core --------------------------------
(***************************************************************************)
(* The handlers of one consensus core (core/consensus.go, core/handler.go, *)
(* core/core.go, core/catch_up.go, core/state_modification.go).            *)
(*                                                                         *)
(* handleEvents runs one handler at a time and a handler holds core.mu, so *)
(* each operator here is the whole of a handler.  The block number that    *)
(* the code passes to the enter* methods is always the core's own height   *)
(* (handleTimeout compares it first), so it is not a parameter.            *)
(*                                                                         *)
(* out is every message the core has broadcast or multicast, committed     *)
(* what it has handed to backend.Commit; neither is read by a handler.     *)
(***************************************************************************)
EXTENDS RoundState

CONSTANT Accepted   \* blocks that pass the checks of VerifyProposal

ASSUME AcceptedAssumption == Nil \notin Accepted

\* What a message decodes to: a round may be negative, the number of a proposal
\* is that of its block.
IsStored(m) ==
  /\ m.type \in {"propose", "prevote", "precommit"}
  /\ m.number \in Nat /\ m.round \in Int
  /\ m.type = "propose" => m.number = m.block.number /\ m.polRound \in Int

IsMessage(m) ==
  \/ IsStored(m)
  \/ m.type = "catchUpRequest" /\ m.number \in Nat /\ m.round \in Int /\ m.step \in Nat
  \/ /\ m.type = "catchUpReply" /\ m.number \in Nat
     /\ m.payloads \in Seq({ m.payloads[k] : k \in DOMAIN m.payloads })
     /\ \A k \in DOMAIN m.payloads : IsStored(m.payloads[k])

(***************************************************************************)
(* Sending: a message is stored, then broadcast.                           *)
(***************************************************************************)
Send(s, m) == [s EXCEPT !.savedMsg = storeSentMsg(@, m), !.out = @ \cup {m}]

SendVote(s, type, block, r) ==
  Send(s, [type |-> type, from |-> s.address, number |-> s.height,
           round |-> r, block |-> block])

SendPropose(s, p) ==
  Send(s, [type |-> "propose", from |-> s.address, number |-> p.block.number,
           round |-> p.round, block |-> p.block, polRound |-> p.polRound])

IsProposer(s) == s.proposer = s.address

\* The valid block first, else the block of the miner; Nil is no proposal.
defaultDecideProposal(s, r) ==
  IF s.validRound # -1 THEN [block |-> s.validBlock, round |-> r, polRound |-> s.validRound]
  ELSE IF s.block = Nil THEN Nil
  ELSE [block |-> s.block, round |-> r, polRound |-> -1]

ProposeIfProposer(s, r) ==
  LET p == defaultDecideProposal(s, r)
  IN  IF IsProposer(s) /\ p # Nil THEN SendPropose(s, p) ELSE s

\* logger.Panicw: the process ends.
Panic(s) == [s EXCEPT !.panicked = TRUE]
-----------------------------------------------------------------------------
\* Mutant: the lock is not looked at.
defaultDoPrevoteUnlocked(s, r) ==
  SendVote(s, "prevote",
           IF s.proposalReceived = Nil THEN Nil ELSE s.proposalReceived.block, r)

defaultDoPrevote(s, r) ==
  SendVote(s, "prevote",
           IF s.lockedRound # -1 THEN s.lockedBlock
           ELSE IF s.proposalReceived = Nil THEN Nil
           ELSE s.proposalReceived.block, r)

enterPrevote(s, r) ==
  IF r < s.round \/ (r = s.round /\ s.step >= RoundStepPrevote) THEN s
  ELSE LET s1 == ScheduleTimeout(s, s.round, RoundStepPrevote, 0)
       IN  UpdateRoundStep(defaultDoPrevote(s1, r), r, RoundStepPrevote)

\* Mutant: no timeout for a proposal that does not come.
enterProposeUntimed(s, r) ==
  IF s.round > r \/ (s.round = r /\ s.step >= RoundStepPropose) THEN s
  ELSE LET s2 == UpdateRoundStep(ProposeIfProposer(s, r), r, RoundStepPropose)
       IN  IF IsProposalComplete(s2) THEN enterPrevote(s2, s.round) ELSE s2

enterPropose(s, r) ==
  IF s.round > r \/ (s.round = r /\ s.step >= RoundStepPropose) THEN s
  ELSE LET s1 == ProposeIfProposer(ScheduleTimeout(s, r, RoundStepPropose, 0), r)
           s2 == UpdateRoundStep(s1, r, RoundStepPropose)
       IN  IF IsProposalComplete(s2) THEN enterPrevote(s2, s.round) ELSE s2

\* Mutant: the step is not looked at.
enterPrevoteWaitAgain(s, r) ==
  IF r < s.round THEN s
  ELSE UpdateRoundStep(ScheduleTimeout(s, r, RoundStepPrevoteWait, 0), r, RoundStepPrevoteWait)

enterPrevoteWait(s, r) ==
  IF r < s.round \/ (r = s.round /\ s.step >= RoundStepPrevoteWait) THEN s
  ELSE UpdateRoundStep(ScheduleTimeout(s, r, RoundStepPrevoteWait, 0), r, RoundStepPrevoteWait)

\* Guarded by precommitWaited, not by the step.
enterPrecommitWait(s, r) ==
  IF r < s.round \/ (r = s.round /\ s.precommitWaited) THEN s
  ELSE IF ~ HasTwoThirdAny(s.precommits, r) THEN Panic(s)
  ELSE [UpdateRoundStep(ScheduleTimeout(s, r, RoundStepPrecommitWait, 0),
                        r, RoundStepPrecommitWait)
          EXCEPT !.precommitWaited = TRUE]

\* Mutant: the proposal is precommitted without a look at the polka.
doPrecommitProposal(s, r) ==
  LET proposed == IF s.proposalReceived = Nil THEN Nil ELSE s.proposalReceived.block
  IN  SendVote(SetLockedRoundAndBlock(s, r, proposed), "precommit", proposed, r)

(***************************************************************************)
(* Lock and precommit the block of the polka if the core has it; unlock on *)
(* any other polka; precommit nil when there is none.                      *)
(***************************************************************************)
doPrecommit(s, r) ==
  LET polka == TwoThirdMajority(s.prevotes, r)
      proposed == IF s.proposalReceived = Nil THEN Nil ELSE s.proposalReceived.block
  IN  IF polka = {} THEN SendVote(s, "precommit", Nil, r)
      ELSE IF ~ POLRoundReaches(s, r) THEN Panic(s)
      ELSE IF s.lockedBlock # Nil /\ s.lockedBlock \in polka
        THEN SendVote(SetLockedRoundAndBlock(s, r, s.lockedBlock), "precommit", s.lockedBlock, r)
      ELSE IF proposed # Nil /\ proposed \in polka
        THEN SendVote(SetLockedRoundAndBlock(s, r, proposed), "precommit", proposed, r)
      ELSE SendVote(Unlock(s), "precommit", Nil, r)

\* Mutant: > for >= in the guard on the step.
enterPrecommitTwice(s, r) ==
  IF r < s.round \/ (r = s.round /\ s.step > RoundStepPrecommit) THEN s
  ELSE LET s1 == ScheduleTimeout(s, s.round, RoundStepPrecommit, 0)
       IN  UpdateRoundStep(doPrecommit(s1, r), r, RoundStepPrecommit)

enterPrecommit(s, r) ==
  IF r < s.round \/ (r = s.round /\ s.step >= RoundStepPrecommit) THEN s
  ELSE LET s1 == ScheduleTimeout(s, s.round, RoundStepPrecommit, 0)
       IN  UpdateRoundStep(doPrecommit(s1, r), r, RoundStepPrecommit)
-----------------------------------------------------------------------------
\* Mutant: the seals of the current round, not of the commit round.
FinalizeBlockOfRound(s, block) ==
  LET voters == VotersOf(s.precommits, s.round, block)
  IN  [block |-> block,
       seals |-> { i \in voters : Cardinality({ j \in voters : j < i }) < MinMajority(N) }]

\* The first MinMajority seals for the block, in the order of the validators.
FinalizeBlock(s, block) ==
  LET voters == VotersOf(s.precommits, s.commitRound, block)
  IN  [block |-> block,
       seals |-> { i \in voters : Cardinality({ j \in voters : j < i }) < MinMajority(N) }]

finalizeCommit(s) ==
  LET majority == TwoThirdMajority(s.precommits, s.commitRound)
  IN  IF /\ s.step = RoundStepCommit
         /\ s.proposalReceived # Nil
         /\ s.proposalReceived.block \in majority \ {Nil}
      THEN [s EXCEPT !.committed = @ \cup {FinalizeBlock(s, s.proposalReceived.block)}]
      ELSE s

enterCommit(s, commitRound) ==
  LET majority == TwoThirdMajority(s.precommits, commitRound)
      p == IF s.lockedBlock # Nil /\ s.lockedBlock \in majority
           THEN [block |-> s.lockedBlock, round |-> commitRound, polRound |-> s.lockedRound]
           ELSE s.proposalReceived
      s1 == [s EXCEPT !.proposalReceived = IF p # Nil /\ p.block \notin majority THEN Nil ELSE p,
                      !.step = RoundStepCommit, !.commitRound = commitRound]
  IN  IF s.step >= RoundStepCommit THEN s
      ELSE IF majority = {} THEN Panic(s)
      ELSE finalizeCommit(s1)
-----------------------------------------------------------------------------
\* POLRound is -1 or an earlier round, the sender is the proposer, the block is sound.
VerifyProposal(s, m) ==
  /\ m.polRound >= -1 /\ m.polRound < m.round
  /\ m.from = s.proposer
  /\ m.block \in Accepted

SetFutureProposal(s, m) ==
  IF m.round > s.round /\ m.from = CalcProposer(N, s.proposer, m.round - s.round)
  THEN [s EXCEPT !.futureProposals = { p \in @ : p.round # m.round } \cup {m}]
  ELSE s

\* A message for a later height is put aside, one for an earlier height dropped.
PutAside(s, m) ==
  IF m.number > s.height THEN [s EXCEPT !.futureMessages = @ \cup {m}] ELSE s

handlePropose(s, m) ==
  LET s1 == [s EXCEPT !.proposalReceived =
                        [block |-> m.block, round |-> m.round, polRound |-> m.polRound]]
  IN  IF s.proposalReceived # Nil THEN s
      ELSE IF m.number # s.height THEN PutAside(s, m)
      ELSE IF m.round # s.round THEN SetFutureProposal(s, m)
      ELSE IF ~ VerifyProposal(s, m) THEN s
      ELSE IF s.step <= RoundStepPropose /\ IsProposalComplete(s1) THEN enterPrevote(s1, s1.round)
      ELSE finalizeCommit(s1)

\* Mutant: the proposer moves on by the round, not by the rounds passed.
enterNewRoundByNumber(s, r) ==
  IF r < s.round \/ (r = s.round /\ s.step # RoundStepNewHeight) THEN s
  ELSE enterPropose([s EXCEPT !.proposer = CalcProposer(N, @, r),
                              !.proposalReceived = IF r > 0 THEN Nil ELSE @,
                              !.round = r, !.step = RoundStepNewRound,
                              !.precommitWaited = FALSE], r)

enterNewRound(s, r) ==
  IF r < s.round \/ (r = s.round /\ s.step # RoundStepNewHeight) THEN s
  ELSE LET s1 == [s EXCEPT !.proposer = CalcProposer(N, @, r - s.round),
                           !.proposalReceived = IF r > 0 THEN Nil ELSE @,
                           !.round = r, !.step = RoundStepNewRound,
                           !.precommitWaited = FALSE]
           s2 == enterPropose(s1, r)
           future == { p \in s2.futureProposals : p.round = r }
       IN  IF future = {} THEN s2 ELSE handlePropose(s2, CHOOSE p \in future : TRUE)
-----------------------------------------------------------------------------
(***************************************************************************)
(* A polka for something else after the locked round unlocks; a polka for  *)
(* the proposal of the current round makes it the valid block, a polka for *)
(* another block drops the proposal.                                       *)
(***************************************************************************)
ApplyPolka(s, r) ==
  LET polka == TwoThirdMajority(s.prevotes, r)
      s1 == IF /\ polka # {} /\ s.lockedRound # -1
               /\ s.lockedRound < r /\ r <= s.round /\ s.lockedBlock \notin polka
            THEN Unlock(s) ELSE s
  IN  IF polka \ {Nil} = {} \/ s1.validRound >= r \/ r # s1.round THEN s1
      ELSE IF s1.proposalReceived # Nil /\ s1.proposalReceived.block \in polka
        THEN SetValidRoundAndBlock(s1, r, s1.proposalReceived.block)
      ELSE [s1 EXCEPT !.proposalReceived = Nil]

AfterPrevote(s, r) ==
  LET polka == TwoThirdMajority(s.prevotes, r)
  IN  IF s.round < r /\ HasTwoThirdAny(s.prevotes, r) THEN enterNewRound(s, r)
      ELSE IF s.round = r /\ s.step >= RoundStepPrevote THEN
        IF polka # {} /\ (IsProposalComplete(s) \/ Nil \in polka) THEN enterPrecommit(s, r)
        ELSE IF HasTwoThirdAny(s.prevotes, r) THEN enterPrevoteWait(s, r)
        ELSE s
      ELSE IF /\ s.proposalReceived # Nil
              /\ s.proposalReceived.polRound = r
              /\ IsProposalComplete(s)
        THEN enterPrevote(s, r)
      ELSE s

handlePrevote(s, m) ==
  IF m.number # s.height THEN PutAside(s, m)
  ELSE IF ~ CanAddVote(s.prevotes, m) THEN s
  ELSE LET s1 == [s EXCEPT !.prevotes = @ \cup {<<m.from, m.round, m.block>>}]
       IN  AfterPrevote(ApplyPolka(s1, m.round), m.round)

\* Mutant: prevotes are counted for the wait.
AfterPrecommitByPrevotes(s, r) ==
  LET majority == TwoThirdMajority(s.precommits, r)
      s1 == enterPrecommit(enterNewRound(s, r), r)
  IN  IF majority \ {Nil} # {} THEN enterCommit(s1, r)
      ELSE IF majority # {} THEN enterNewRound(s1, r + 1)
      ELSE IF s.round <= r /\ HasTwoThirdAny(s.prevotes, r)
        THEN enterPrecommitWait(enterNewRound(s, r), r)
      ELSE s

AfterPrecommit(s, r) ==
  LET majority == TwoThirdMajority(s.precommits, r)
      s1 == enterPrecommit(enterNewRound(s, r), r)
  IN  IF majority \ {Nil} # {} THEN enterCommit(s1, r)
      ELSE IF majority # {} THEN enterNewRound(s1, r + 1)
      ELSE IF s.round <= r /\ HasTwoThirdAny(s.precommits, r)
        THEN enterPrecommitWait(enterNewRound(s, r), r)
      ELSE s

handlePrecommit(s, m) ==
  IF m.number # s.height THEN PutAside(s, m)
  ELSE IF ~ CanAddVote(s.precommits, m) THEN s
  ELSE LET s1 == [s EXCEPT !.precommits = @ \cup {<<m.from, m.round, m.block>>}]
       IN  AfterPrecommit(s1, m.round)
-----------------------------------------------------------------------------
(* Catching up: a core stuck at prevote or precommit asks for what it misses. *)

catchUpReplyBatchSize == 3

Batches(q) ==
  { SubSeq(q, i, IF i + catchUpReplyBatchSize - 1 <= Len(q)
                 THEN i + catchUpReplyBatchSize - 1 ELSE Len(q)) :
      i \in { j \in 1 .. Len(q) : (j - 1) % catchUpReplyBatchSize = 0 } }

\* Ask the validators whose vote is missing; a vote of its own is posted again.
sendCatchUpRequest(s) ==
  LET votes == IF s.step = RoundStepPrevote THEN s.prevotes ELSE s.precommits
      missing == MissingVotes(votes, s.round)
      stored == StoredFrom(s.savedMsg, s.step, s.round)
      others == missing \ {s.address}
      request == [type |-> "catchUpRequest", from |-> s.address, to |-> others,
                  number |-> s.height, round |-> s.round, step |-> s.step]
      again == IF s.address \in missing /\ stored # <<>> THEN {stored[1]} ELSE {}
  IN  [s EXCEPT !.out = @ \cup again \cup IF others = {} THEN {} ELSE {request}]

\* Mutant: the core votes again instead of sending the vote it stored.
enterCatchupRevotes(s, t) ==
  IF t.round # s.round \/ t.step # s.step THEN s
  ELSE defaultDoPrevote(ScheduleTimeout(s, s.round, s.step, t.retry + 1), s.round)

enterCatchup(s, t) ==
  IF t.round # s.round \/ t.step # s.step THEN s
  ELSE sendCatchUpRequest(ScheduleTimeout(s, s.round, s.step, t.retry + 1))

handleCatchupRequest(s, m) ==
  LET stored == StoredFrom(s.savedMsg, m.step, m.round)
  IN  IF \/ m.number # s.height \/ m.round > s.round
         \/ m.round = s.round /\ m.step > s.step
      THEN s
      ELSE [s EXCEPT !.out = @ \cup { [type |-> "catchUpReply", from |-> s.address,
                                       to |-> {m.from}, number |-> s.height, payloads |-> b] :
                                      b \in Batches(stored) }]

\* handleMsgLocked returns an error.
HandleFails(s, m) ==
  CASE m.type = "propose"   -> /\ s.proposalReceived = Nil
                               /\ m.number = s.height /\ m.round = s.round
                               /\ ~ VerifyProposal(s, m)
    [] m.type = "prevote"   -> m.number = s.height /\ VoteConflicts(s.prevotes, m)
    [] m.type = "precommit" -> m.number = s.height /\ VoteConflicts(s.precommits, m)

\* A message as it is stored and replied.
handleStored(s, m) ==
  CASE m.type = "propose"   -> handlePropose(s, m)
    [] m.type = "prevote"   -> handlePrevote(s, m)
    [] m.type = "precommit" -> handlePrecommit(s, m)

\* An iteration of the loop over a reply of validator from; a message of
\* somebody else, an error or a panic ends the loop.
HandlePayload(t, p, from) ==
  IF ~ t.goesOn \/ p.from # from \/ HandleFails(t.core, p)
  THEN [core |-> t.core, goesOn |-> FALSE]
  ELSE LET next == handleStored(t.core, p) IN [core |-> next, goesOn |-> ~ next.panicked]

handleCatchUpReply(s, m) ==
  LET after[k \in 0 .. Len(m.payloads)] ==
        IF k = 0 THEN [core |-> s, goesOn |-> TRUE]
        ELSE HandlePayload(after[k - 1], m.payloads[k], m.from)
  IN  IF m.number # s.height THEN s ELSE after[Len(m.payloads)].core

handleMsgLocked(s, m) ==
  CASE m.type = "catchUpRequest" -> handleCatchupRequest(s, m)
    [] m.type = "catchUpReply"   -> handleCatchUpReply(s, m)
    [] OTHER                     -> handleStored(s, m)
-----------------------------------------------------------------------------
(* Timeouts, blocks of the miner, new heights. *)

handleTimeout(s, t) ==
  LET s1 == TakeTimeout(s, t)
  IN  IF t.number # s.height \/ t.round < s.round \/ (t.round = s.round /\ t.step < s.step)
      THEN s1
      ELSE CASE t.step = RoundStepNewHeight     -> enterNewRound(s1, 0)
             [] t.step = RoundStepNewRound      -> enterPropose(s1, 0)
             [] t.step = RoundStepPropose       -> enterPrevote(s1, t.round)
             [] t.step = RoundStepPrevote       -> enterCatchup(s1, t)
             [] t.step = RoundStepPrevoteWait   -> enterPrecommit(s1, t.round)
             [] t.step = RoundStepPrecommit     -> enterCatchup(s1, t)
             [] t.step = RoundStepPrecommitWait -> enterNewRound(enterPrecommit(s1, t.round), t.round + 1)
             [] OTHER                           -> Panic(s1)

\* A block below the height is cancelled; at Propose the proposer sends it at once.
handleNewBlock(s, block) ==
  IF s.height > block.number THEN s
  ELSE LET s1 == [s EXCEPT !.block = block]
       IN  IF s1.step = RoundStepPropose /\ IsValidator(N, s1.address)
           THEN ProposeIfProposer(s1, s1.round) ELSE s1

\* The validator set of a height is loaded afresh.
LoadValidators(s) == [s EXCEPT !.proposer = InitialProposer(N, s.height)]

updateStateForNewblock(s) ==
  IF s.commitRound > -1 /\ ~ HasMajority(s.precommits, s.commitRound) THEN s
  ELSE [LoadValidators(clearPreviousRoundData([s EXCEPT !.height = @ + 1]))
          EXCEPT !.futureProposals = {}]

\* Mutant: the chain's head is not looked at.
startNewRoundInPlace(s, head) ==
  IF s.step \in {RoundStepNewRound, RoundStepCommit} \/ ~ IsValidator(N, s.address) THEN s
  ELSE ScheduleTimeout(s, s.round, s.step, 0)

startNewRound(s, head) ==
  LET s1 == IF s.height = head + 1 THEN s
            ELSE [LoadValidators(clearPreviousRoundData([s EXCEPT !.height = head + 1]))
                    EXCEPT !.savedMsg = <<>>]
  IN  IF s1.step \in {RoundStepNewRound, RoundStepCommit} \/ ~ IsValidator(N, s1.address) THEN s1
      ELSE ScheduleTimeout(s1, s1.round, s1.step, 0)

\* Mutant: an event of an old block is not ignored.
handleFinalCommittedAlways(s, newHead, head) ==
  [startNewRound(updateStateForNewblock([s EXCEPT !.savedMsg = <<>>]), head)
     EXCEPT !.draining = TRUE]

\* Mutant: the store is emptied before the number is compared.
handleFinalCommittedEmptiesFirst(s, newHead, head) ==
  LET s1 == [s EXCEPT !.savedMsg = <<>>]
  IN  IF s.height > newHead THEN s1
      ELSE [startNewRound(updateStateForNewblock(s1), head) EXCEPT !.draining = TRUE]

\* The queue of future messages is emptied one by one, see processFutureMessage.
handleFinalCommitted(s, newHead, head) ==
  IF s.height > newHead THEN s
  ELSE [startNewRound(updateStateForNewblock([s EXCEPT !.savedMsg = <<>>]), head)
          EXCEPT !.draining = TRUE]

\* An iteration of processFutureMessages on a message at the front of the queue.
processFutureMessage(s, m) ==
  LET s1 == [s EXCEPT !.futureMessages = @ \ {m}]
  IN  IF m.number < s.height THEN s1 ELSE handleMsgLocked(s1, m)

FutureFront(s) ==
  { m \in s.futureMessages : \A k \in s.futureMessages : m.number <= k.number }

DrainingDone(s) == \A m \in FutureFront(s) : m.number > s.height
-----------------------------------------------------------------------------
getInitializedState(address, head) ==
  [address |-> address, height |-> head + 1, round |-> 0, step |-> RoundStepNewHeight,
   block |-> EmptyHeaderBlock,
   lockedRound |-> -1, lockedBlock |-> Nil, validRound |-> -1, validBlock |-> Nil,
   proposalReceived |-> Nil, prevotes |-> {}, precommits |-> {}, precommitWaited |-> FALSE,
   commitRound |-> -1, proposer |-> InitialProposer(N, head + 1),
   futureProposals |-> {}, futureMessages |-> {}, draining |-> FALSE,
   savedMsg |-> <<>>, ti |-> NoTimeout, armed |-> FALSE, late |-> {},
   out |-> {}, committed |-> {}, panicked |-> FALSE]

\* Mutant: the routine remembers the timeout of before the stop.
StartRemembering(s, head) == startNewRound(s, head)

\* timeout.Start runs a new routine, which remembers no timeout.
Start(s, head) == startNewRound([s EXCEPT !.ti = NoTimeout], head)

\* timeout.Stop stops the timer and closes tockChan; the round state stays in memory.
Stop(s) == [s EXCEPT !.armed = FALSE, !.late = {}]

\* Between two handlers; no loop of a handler is under way.
Idle(s) == ~ s.panicked /\ ~ s.draining
=============================================================================
