----------------------------- MODULE RoundState -----------------------------
(***************************************************************************)
(* The data of one consensus core and the operations on it that neither    *)
(* send nor decide: the round state (core/roundState.go), the sets of      *)
(* votes received (core/messages.go), the order of timeouts                *)
(* (core/timeout.go) and the store of sent messages                        *)
(* (core/sentMsgStorage.go).                                               *)
(*                                                                         *)
(* A core is a record, so that an operation of the code is an operator     *)
(* from a record to a record and a handler that calls other handlers is    *)
(* their composition.  Fields have the names of the code.  A block stands  *)
(* for its hash.  A set of votes is a set of <<sender, round, hash>>.      *)
(***************************************************************************)
EXTENDS ValidatorSet, FiniteSets, Sequences

CONSTANTS N,     \* number of validators; validator i is the i-th by address
          Nil    \* the nil pointer, and the empty hash of a nil vote

ASSUME NAssumption == N \in Nat \ {0}

RoundStepNewHeight == 1
RoundStepNewRound == 2
RoundStepPropose == 3
RoundStepPrevote == 4
RoundStepPrevoteWait == 5
RoundStepPrecommit == 6
RoundStepPrecommitWait == 7
RoundStepCommit == 8

\* NewBlockWithHeader(&Header{}): number 0, but a hash of its own.
EmptyHeaderBlock == [number |-> 0, id |-> "empty header"]
-----------------------------------------------------------------------------
(* Votes received. *)

VotersOf(votes, r, v) == { i \in 0 .. N - 1 : <<i, r, v>> \in votes }

\* AddVote stores the first vote of a validator in a round and no other.
CanAddVote(votes, m) ==
  /\ IsValidator(N, m.from)
  /\ \A x \in votes : ~ (x[1] = m.from /\ x[2] = m.round)

\* AddVote fails, rather than ignoring a duplicate.
VoteConflicts(votes, m) ==
  \/ ~ IsValidator(N, m.from)
  \/ \E x \in votes : x[1] = m.from /\ x[2] = m.round /\ x[3] # m.block

\* maj23 as a set: the hash with a majority of the round's votes, if any.
TwoThirdMajority(votes, r) ==
  { v \in { x[3] : x \in votes } : Cardinality(VotersOf(votes, r, v)) >= MinMajority(N) }

HasMajority(votes, r) == TwoThirdMajority(votes, r) # {}

\* Each validator has one vote in a round, so votes are counted by sender.
HasTwoThirdAny(votes, r) ==
  Cardinality({ i \in 0 .. N - 1 : \E x \in votes : x[1] = i /\ x[2] = r }) >= MinMajority(N)

MissingVotes(votes, r) ==
  { i \in 0 .. N - 1 : ~ \E x \in votes : x[1] = i /\ x[2] = r }
-----------------------------------------------------------------------------
(* Round state. *)

UpdateRoundStep(s, r, step) == [s EXCEPT !.round = r, !.step = step]

Unlock(s) == [s EXCEPT !.lockedRound = -1, !.lockedBlock = Nil]

SetLockedRoundAndBlock(s, r, b) == [s EXCEPT !.lockedRound = r, !.lockedBlock = b]

SetValidRoundAndBlock(s, r, b) == [s EXCEPT !.validRound = r, !.validBlock = b]

IsProposalComplete(s) ==
  /\ s.proposalReceived # Nil
  /\ \/ s.proposalReceived.polRound < 0
     \/ HasMajority(s.prevotes, s.proposalReceived.polRound)

\* POLInfo() >= r: the last round with a polka, up to the current one.
POLRoundReaches(s, r) == \E p \in 0 .. s.round : p >= r /\ HasMajority(s.prevotes, p)

clearPreviousRoundData(s) ==
  [s EXCEPT !.block = IF @ # Nil /\ @.number < s.height THEN Nil ELSE @,
            !.round = 0, !.step = RoundStepNewHeight,
            !.lockedRound = -1, !.lockedBlock = Nil,
            !.validRound = -1, !.validBlock = Nil,
            !.proposalReceived = Nil, !.commitRound = -1,
            !.prevotes = {}, !.precommits = {}, !.precommitWaited = FALSE]
-----------------------------------------------------------------------------
(* Timeouts. *)

\* The routine's own timeoutInfo before anything is scheduled.
NoTimeout == [number |-> 0, round |-> 0, step |-> 0, retry |-> 0]

earlierOrEqual(a, b) ==
  \/ a.number < b.number
  \/ /\ a.number = b.number
     /\ \/ a.round < b.round
        \/ /\ a.round = b.round
           /\ \/ a.step > 0 /\ a.step < b.step
              \/ a.step = b.step /\ a.retry <= b.retry

(***************************************************************************)
(* The ticker keeps one timer, ti while armed, and ignores what is not     *)
(* later than the last timeout it accepted, fired or not.  A timer that is *)
(* replaced may have fired just before, its timeout waiting in tockChan.   *)
(* handleTimeout ignores it for good when its step is over; late holds the *)
(* ones of the step newti is for, which differ in their retry.             *)
(***************************************************************************)
ScheduleTimeout(s, r, step, retry) ==
  LET newti == [number |-> s.height, round |-> r, step |-> step, retry |-> retry]
  IN  IF earlierOrEqual(newti, s.ti) THEN s
      ELSE [s EXCEPT !.ti = newti, !.armed = TRUE,
                     !.late = { t \in IF s.armed THEN @ \cup {s.ti} ELSE @ :
                                  t.number = s.height /\ t.round = r /\ t.step = step }]

\* The timeouts that handleEvents may receive.
Timeouts(s) == IF s.armed THEN s.late \cup {s.ti} ELSE s.late

\* A timeout is received once.
TakeTimeout(s, t) ==
  IF t = s.ti THEN [s EXCEPT !.armed = FALSE] ELSE [s EXCEPT !.late = @ \ {t}]
-----------------------------------------------------------------------------
(* Messages sent at this height, kept for the validators that ask again. *)

StepOf(m) == CASE m.type = "propose"   -> RoundStepPropose
               [] m.type = "prevote"   -> RoundStepPrevote
               [] m.type = "precommit" -> RoundStepPrecommit

\* storeSentMsg drops a message that is before the last one stored.
storeSentMsg(savedMsg, m) ==
  LET last == savedMsg[Len(savedMsg)]
  IN  IF /\ savedMsg # <<>>
         /\ last.round > m.round \/ (last.round = m.round /\ StepOf(last) > StepOf(m))
      THEN savedMsg
      ELSE Append(savedMsg, m)

\* The messages from the first one at or after (round, step) on.
StoredFrom(savedMsg, step, r) ==
  LET After(m) == m.round > r \/ (m.round = r /\ StepOf(m) >= step)
      hits == { i \in 1 .. Len(savedMsg) : After(savedMsg[i]) }
  IN  IF hits = {} THEN <<>>
      ELSE SubSeq(savedMsg, CHOOSE i \in hits : \A j \in hits : i <= j, Len(savedMsg))
=============================================================================
