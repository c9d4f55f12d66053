------------------------------ MODULE NetSteps ------------------------------
(***************************************************************************)
(* Every step of TendermintNet keeps NetInv, and what it says of single    *)
(* cores follows: no panic, one vote per round, the lock rule, the         *)
(* rotation of proposers, sound commits, a running timer, stored votes, no *)
(* return.  Nothing here bounds the number of validators, the rounds, the  *)
(* heights, the messages or the restarts: MaxRound and the other bounds of *)
(* the model only restrict steps, and the theorems hold for each value of  *)
(* them.                                                                   *)
(***************************************************************************)
EXTENDS NetInv, CoreSteps

\* handleMsgLocked keeps the invariant.  M holds the messages that the core may
\* receive, and the payloads of their senders.
LEMMA HandleMsgOK ==
  ASSUME NEW s, NEW M, CoreInv(s, M), NEW m \in M, IsMessage(m),
         m.type = "catchUpReply" =>
           \A k \in DOMAIN m.payloads : m.payloads[k].from = m.from => m.payloads[k] \in M,
         NEW t, t = handleMsgLocked(s, m)
  PROVE  Works(s, t, M)
<1>1. CASE IsStored(m)
  <2>1. t = handleStored(s, m)
    BY Zenon, <1>1 DEF IsStored, handleMsgLocked
  <2> QED BY Zenon, <1>1, <2>1, HandleStoredOK
<1>2. CASE m.type = "catchUpRequest"
  <2>1. t = handleCatchupRequest(s, m)
    BY Zenon, <1>2 DEF handleMsgLocked
  <2> QED BY Zenon, <2>1, HandleCatchupRequestOK
<1>3. CASE /\ m.type = "catchUpReply"
           /\ m.payloads \in Seq({ m.payloads[k] : k \in DOMAIN m.payloads })
           /\ \A k \in DOMAIN m.payloads : IsStored(m.payloads[k])
  <2>1. t = handleCatchUpReply(s, m)
    BY Zenon, <1>3 DEF handleMsgLocked
  <2>2. Len(m.payloads) \in Nat /\ DOMAIN m.payloads = 1 .. Len(m.payloads)
    BY <1>3
  <2> QED BY Zenon, <1>3, <2>1, <2>2, HandleCatchUpReplyOK
<1> QED BY Zenon, <1>1, <1>2, <1>3 DEF IsMessage
-----------------------------------------------------------------------------

\* handleTimeout keeps the invariant, for the timer's timeout and for one that
\* was already in the channel when another was set.
LEMMA HandleTimeoutOK ==
  ASSUME NEW s, NEW M, CoreInv(s, M), NEW x \in Timeouts(s), NEW t, t = handleTimeout(s, x)
  PROVE  Runs(s, t, M)
<1>1. TypeInv(s) /\ TimeInv(s)
  BY Zenon DEF CoreInv
<1>2. /\ TimerOK(s) /\ s.height \in Nat /\ s.round \in Nat /\ s.step \in {1, 3, 4, 5, 6, 7, 8}
      /\ (s.step = 1 => s.round = 0)
  BY <1>1, CoreInvTypes, Zenon DEF TypeInv, RoundStepNewHeight
<1>3. x \in {s.ti} \cup s.late
  BY Zenon DEF Timeouts
<1>4. IsTimeout(x)
  BY Zenon, <1>2, <1>3 DEF TimerOK
<1>5. x.number < s.height \/ (x.number = s.height /\ NotAfter(x.round, x.step, s))
  BY Zenon, <1>1, <1>3 DEF TimeInv
<1> DEFINE s1 == TakeTimeout(s, x)
<1>6. /\ CoreInv(s1, M) /\ Onward(s, s1) /\ s1.height = s.height /\ s1.round = s.round
      /\ s1.step = s.step /\ s1.ti = s.ti /\ (x # s.ti => s1.armed = s.armed)
  BY TakeTimeoutOK
<1>7. CASE x.number # s.height \/ x.round < s.round \/ (x.round = s.round /\ x.step < s.step)
  <2>1. t = s1
    BY Zenon, <1>7 DEF handleTimeout
  <2> HIDE DEF s1
  <2>2. Timed(s) => Timed(s1)
    <3>1. SUFFICES ASSUME Timed(s), s.step # 8 PROVE Timed(s1)
      BY Zenon, <1>6 DEF Timed
    <3>2. TimerAt(s, s.height, s.round, s.step)
      BY Zenon, <3>1 DEF Timed
    <3>3. x # s.ti
      BY <1>2, <1>7, <3>2 DEF TimerAt
    <3> QED BY <1>6, <3>2, <3>3, Zenon DEF Timed, TimerAt
  <2> QED BY Zenon, <1>6, <2>1, <2>2 DEF Runs
<1>8. CASE ~ (x.number # s.height \/ x.round < s.round \/ (x.round = s.round /\ x.step < s.step))
  <2>1. x.number = s.height /\ x.round = s.round /\ x.step = s.step /\ s.step \in {1, 3, 4, 5, 6, 7}
    BY <1>2, <1>4, <1>5, <1>8 DEF NotAfter, IsTimeout
  <2>2. t = CASE x.step = 1 -> enterNewRound(s1, 0)
              [] x.step = 2 -> enterPropose(s1, 0)
              [] x.step = 3 -> enterPrevote(s1, x.round)
              [] x.step = 4 -> enterCatchup(s1, x)
              [] x.step = 5 -> enterPrecommit(s1, x.round)
              [] x.step = 6 -> enterCatchup(s1, x)
              [] x.step = 7 -> enterNewRound(enterPrecommit(s1, x.round), x.round + 1)
              [] OTHER -> Panic(s1)
    BY Zenon, <1>8 DEF handleTimeout, RoundStepNewHeight, RoundStepNewRound, RoundStepPropose,
       RoundStepPrevote, RoundStepPrevoteWait, RoundStepPrecommit, RoundStepPrecommitWait
  <2> HIDE DEF s1
  <2>3. SUFFICES CoreInv(t, M) /\ Onward(s1, t) /\ (Timed(s) => Timed(t))
    BY Zenon, <1>6, OnwardOver DEF Runs
  <2>4. SUFFICES ASSUME ~ (x.step \in {4, 6})
                 PROVE  Works(s1, t, M) /\ (t.round # s1.round \/ t.step # s1.step)
    <3>1. CASE x.step \in {4, 6}
      <4>1. t = enterCatchup(s1, x)
        BY <2>2, <3>1
      <4>2. /\ CoreInv(t, M) /\ Onward(s1, t)
            /\ x = s1.ti => Timed(t)
            /\ Timed(s1) => Timed(t)
        BY <1>4, <1>6, <2>1, <4>1, EnterCatchupOK
      <4>3. x # s.ti => (Timed(s) => Timed(s1))
        BY Zenon, <1>6 DEF Timed, TimerAt
      <4> QED BY Zenon, <1>6, <4>2, <4>3
    <3>2. CASE x.step \notin {4, 6}
      BY Zenon, <2>4, <3>2, MovedOn DEF Works, Moves
    <3> QED BY Zenon, <3>1, <3>2
  <2>5. CASE x.step = 1
    <3>1. t = enterNewRound(s1, 0) /\ s1.round = 0 /\ s1.step = 1
      BY <1>2, <1>6, <2>1, <2>2, <2>5
    <3> QED BY <1>6, <3>1, EnterNewRoundOK DEF Goes, Works
  <2>6. CASE x.step = 3
    <3>1. t = enterPrevote(s1, s1.round) /\ s1.step = 3
      BY <1>6, <2>1, <2>2, <2>6
    <3> QED BY <1>2, <1>6, <3>1, EnterPrevoteOK DEF Goes, Works
  <2>7. CASE x.step = 5
    <3>1. t = enterPrecommit(s1, s1.round) /\ s1.step = 5
      BY <1>6, <2>1, <2>2, <2>7
    <3> QED BY <1>2, <1>6, <3>1, EnterPrecommitOK DEF Goes, Works
  <2>8. CASE x.step = 7
    <3> DEFINE u == enterPrecommit(s1, s1.round)
    <3>1. t = enterNewRound(u, s1.round + 1)
      BY <1>6, <2>1, <2>2, <2>8
    <3>2. Goes(s1, u, M) /\ u.round = s1.round
      BY <1>2, <1>6, EnterPrecommitOK
    <3> HIDE DEF u
    <3>3. CoreInv(u, M)
      BY Zenon, <3>2 DEF Goes
    <3>4. s1.round \in Nat /\ s1.round + 1 \in Int /\ s1.round + 1 > u.round
      BY <1>2, <1>6, <3>2
    <3>5. Goes(u, t, M) /\ t.round = s1.round + 1
      BY <3>1, <3>3, <3>4, EnterNewRoundOK
    <3>6. Works(s1, t, M)
      BY Zenon, <1>6, <3>2, <3>5, WorksTrans DEF Goes, Works
    <3> QED BY <3>4, <3>5, <3>6
  <2> QED BY Zenon, <2>1, <2>4, <2>5, <2>6, <2>7, <2>8
<1> QED BY Zenon, <1>7, <1>8
-----------------------------------------------------------------------------

\* processFutureMessages keeps the invariant, message by message.
LEMMA ProcessFutureMessageOK ==
  ASSUME NEW s, NEW M, CoreInv(s, M), NEW m \in s.futureMessages,
         NEW t, t = processFutureMessage(s, m)
  PROVE  Works(s, t, M)
<1>1. /\ DOMAIN s = CoreFields /\ s.draining \in BOOLEAN /\ s.validRound \in Int /\ BlockInv(s)
      /\ \A x \in s.futureProposals : x \in M /\ IsStored(x) /\ x.type = "propose"
      /\ \A x \in s.futureMessages : x \in M /\ IsStored(x)
      /\ \A d \in s.committed : CommitIsSound(d, M)
  BY Zenon, LightSelf
<1> DEFINE f == s.futureMessages \ {m}
           u == [s EXCEPT !.futureMessages = f]
<1>2. t = u \/ t = handleMsgLocked(u, m)
  BY Zenon DEF processFutureMessage
<1>3. f \subseteq s.futureMessages
  BY Zenon
<1> HIDE DEF f
<1>4. DOMAIN u = CoreFields /\ Same(s, u, {"futureMessages"}) /\ u.futureMessages = f
  BY Zenon, <1>1 DEF CoreFields, Same
<1> HIDE DEF u
<1>5. Same(s, u, LightFields)
  BY Zenon, <1>4 DEF Same, LightFields
<1>6. /\ u.draining = s.draining
      /\ u.committed = s.committed /\ u.futureProposals = s.futureProposals
      /\ u.validRound = s.validRound /\ u.validBlock = s.validBlock /\ u.block = s.block
      /\ u.proposalReceived = s.proposalReceived
      /\ u.lockedBlock = s.lockedBlock /\ u.height = s.height /\ u.round = s.round
  BY Zenon, <1>4 DEF Same, CoreFields
<1>7. BlockInv(u)
  BY Zenon, <1>1, <1>6 DEF BlockInv
<1>8. Works(s, u, M)
  BY Zenon, <1>1, <1>3, <1>4, <1>5, <1>6, <1>7, LightKeeps DEF Goes, Works
<1>9. CASE t = handleMsgLocked(u, m)
  <2>1. m \in M /\ IsStored(m) /\ CoreInv(u, M)
    BY Zenon, <1>1, <1>8 DEF Works
  <2>2. IsMessage(m) /\ m.type # "catchUpReply"
    BY Zenon, <2>1 DEF IsMessage, IsStored
  <2>3. Works(u, t, M)
    BY Zenon, <1>9, <2>1, <2>2, HandleMsgOK
  <2> QED BY Zenon, <1>8, <2>3, WorksTrans
<1> QED BY Zenon, <1>2, <1>8, <1>9

\* The votes of the others stay, so what is signed grows.
LEMMA SignedGrows ==
  ASSUME DOMAIN node = Honest, NEW i \in Honest, NEW t, node' = [node EXCEPT ![i] = t],
         node[i].out \subseteq t.out
  PROVE  Signed \subseteq Signed'
<1>1. \A j \in Honest : node[j].out \subseteq node'[j].out
  BY Zenon
<1>2. Sent \subseteq Sent'
  BY <1>1 DEF Sent
<1> QED BY Zenon, <1>2 DEF Signed

\* One validator goes on, the others stay.
LEMMA StepKeeps ==
  ASSUME NetInv, NEW i \in Honest, NEW t, node' = [node EXCEPT ![i] = t],
         CoreInv(t, Signed), GoesOn(node[i], t), t.height <= head[i] + 1,
         head' = head, DOMAIN posted' = Honest,
         \A j \in Honest : posted'[j] \subseteq posted[j],
         up' \in [Honest -> BOOLEAN], \A j \in Honest : j # i => up'[j] = up[j],
         up'[i] => Timed(t)
  PROVE  NetInv'
<1>1. node[i].out \subseteq t.out /\ t.address = node[i].address
  BY Zenon DEF GoesOn, Onward, VotesGo
<1>2. Signed \subseteq Signed'
  BY <1>1, SignedGrows, Zenon DEF NetInv
<1>3. DOMAIN node' = Honest /\ node'[i] = t /\ \A j \in Honest : j # i => node'[j] = node[j]
  BY Zenon DEF NetInv
<1>4. ASSUME NEW j \in Honest
      PROVE  /\ CoreInv(node'[j], Signed) /\ node'[j].address = j
             /\ node'[j].height <= head[j] + 1
             /\ (up'[j] => Timed(node'[j]))
  <2>1. CASE j = i
    BY Zenon, <1>1, <1>3, <2>1 DEF NetInv, ValidatorInv
  <2>2. CASE j # i
    BY Zenon, <1>3, <2>2 DEF NetInv, ValidatorInv
  <2> QED BY Zenon, <2>1, <2>2
<1>5. ASSUME NEW j \in Honest
      PROVE  ValidatorInv(j)'
  <2>1. CoreInv(node'[j], Signed')
    BY <1>2, <1>4, CoreInvGrows
  <2>2. \A h \in posted'[j] : h \in Nat /\ h <= head[j]
    BY Zenon DEF NetInv, ValidatorInv
  <2> QED BY Zenon, <1>4, <2>1, <2>2 DEF ValidatorInv
<1> QED BY Zenon, <1>3, <1>5 DEF NetInv

\* A core that stays as it is.
LEMMA OnwardSelf ==
  ASSUME NetInv, NEW i \in Honest
  PROVE  Onward(node[i], node[i])
<1>1. Placed(node[i])
  BY Zenon, CoreInvTypes DEF NetInv, ValidatorInv, CoreInv
<1> QED BY <1>1 DEF Onward, VotesGo, Placed, StepNumber

\* Every message in the network is one that a validator can send.
LEMMA SentAreMessages ==
  ASSUME NetInv, NEW m \in Sent \cup FaultyMessages
  PROVE  /\ IsMessage(m) /\ m \in Signed
         /\ m.type = "catchUpReply" =>
              \A k \in DOMAIN m.payloads : m.payloads[k].from = m.from => m.payloads[k] \in Signed
<1>1. IsMessage(m)
  <2>1. ASSUME NEW j \in Honest, m \in node[j].out
        PROVE  IsMessage(m)
    BY Zenon, <2>1 DEF NetInv, ValidatorInv, CoreInv, OutInv
  <2> QED BY Zenon, <2>1, NetAssumption DEF Sent
<1>2. m \in Signed
  BY Zenon DEF Signed
<1>3. m.type = "catchUpReply" =>
        \A k \in DOMAIN m.payloads : m.payloads[k].from = m.from => m.payloads[k] \in Signed
  <2>1. \A k \in DOMAIN m.payloads : m.payloads[k].from = m.from => m.payloads[k] \in Repeated(m)
    BY Zenon DEF Repeated
  <2>2. m.type = "catchUpReply" => Repeated(m) \subseteq Signed
    BY Zenon DEF Signed
  <2> QED BY Zenon, <2>1, <2>2
<1> QED BY Zenon, <1>1, <1>2, <1>3

\* A handler that leaves the core at its height, while the core is started.
LEMMA RunStep ==
  ASSUME NetInv, NEW i \in Honest, NEW t, node' = [node EXCEPT ![i] = t],
         Runs(node[i], t, Signed), t.round <= MaxRound, up[i], UNCHANGED <<head, posted, up>>
  PROVE  Stepped
<1>1. /\ CoreInv(t, Signed) /\ GoesOn(node[i], t) /\ Timed(t) /\ t.height = node[i].height
  BY Zenon DEF Runs, GoesOn, Onward, NetInv, ValidatorInv
<1>2. NodeStep(i, t)
  BY Zenon, <1>1 DEF NodeStep, NetInv
<1>3. /\ t.height <= head[i] + 1 /\ head' = head /\ DOMAIN posted' = Honest
      /\ \A j \in Honest : posted'[j] \subseteq posted[j]
      /\ up' \in [Honest -> BOOLEAN] /\ \A j \in Honest : j # i => up'[j] = up[j]
  BY Zenon, <1>1 DEF NetInv, ValidatorInv
<1>4. NetInv'
  BY <1>1, <1>3, StepKeeps, Zenon
<1> QED BY Zenon, <1>2, <1>4 DEF Stepped

\* handleMsg of any message in the network.
LEMMA ReceiveOK ==
  ASSUME NetInv, NEW i \in Honest, NEW m \in Sent \cup FaultyMessages, Receive(i, m)
  PROVE  Stepped
<1> DEFINE t == handleMsgLocked(node[i], m)
<1>1. /\ node' = [node EXCEPT ![i] = t] /\ t.round <= MaxRound
      /\ up[i] /\ UNCHANGED <<head, posted, up>>
  BY Zenon DEF Receive, Becomes, Ready, chain
<1>2. CoreInv(node[i], Signed)
  BY Zenon DEF NetInv, ValidatorInv
<1>3. Works(node[i], t, Signed)
  BY Zenon, <1>2, SentAreMessages, HandleMsgOK
<1> HIDE DEF t
<1>4. Runs(node[i], t, Signed)
  BY Zenon, <1>3, WorksRuns
<1> QED BY <1>1, <1>4, RunStep, Zenon

\* A timeout of any core.
LEMMA TimeoutOK ==
  ASSUME NetInv, NEW i \in Honest, Timeout(i)
  PROVE  Stepped
<1>1. PICK x \in Timeouts(node[i]) : Becomes(i, handleTimeout(node[i], x))
  BY Zenon DEF Timeout
<1> DEFINE t == handleTimeout(node[i], x)
<1>2. /\ node' = [node EXCEPT ![i] = t] /\ t.round <= MaxRound
      /\ up[i] /\ UNCHANGED <<head, posted, up>>
  BY <1>1, Zenon DEF Timeout, Becomes, Ready, chain
<1>3. CoreInv(node[i], Signed)
  BY Zenon DEF NetInv, ValidatorInv
<1>4. Runs(node[i], t, Signed)
  BY Zenon, <1>3, HandleTimeoutOK
<1> HIDE DEF t
<1> QED BY <1>2, <1>4, RunStep, Zenon

\* A block of the miner for any core.
LEMMA NewBlockOK ==
  ASSUME NetInv, NEW i \in Honest, NewBlock(i)
  PROVE  Stepped
<1> DEFINE b == Mined(i, head[i] + 1, mined[i])
           t == handleNewBlock(node[i], b)
<1>1. /\ node' = [node EXCEPT ![i] = t] /\ t.round <= MaxRound
      /\ up[i] /\ UNCHANGED <<head, posted, up>>
  BY Zenon DEF NewBlock, Becomes, Ready, chain
<1>2. CoreInv(node[i], Signed) /\ head[i] \in Nat
  BY Zenon DEF NetInv, ValidatorInv
<1>3. b.number \in Nat
  BY <1>2 DEF Mined
<1> HIDE DEF b
<1>4. Works(node[i], t, Signed)
  BY Zenon, <1>2, <1>3, HandleNewBlockOK
<1> HIDE DEF t
<1>5. Runs(node[i], t, Signed)
  BY Zenon, <1>4, WorksRuns
<1> QED BY <1>1, <1>5, RunStep, Zenon

\* A message that was put aside.
LEMMA ProcessOK ==
  ASSUME NetInv, NEW i \in Honest, ProcessFutureMessage(i)
  PROVE  Stepped
<1>1. CoreInv(node[i], Signed) /\ up[i] /\ UNCHANGED <<head, posted, up>>
  BY Zenon DEF NetInv, ValidatorInv, ProcessFutureMessage, chain
<1>2. PICK t : /\ node' = [node EXCEPT ![i] = t] /\ t.round <= MaxRound
               /\ Works(node[i], t, Signed)
  <2>1. CASE DrainingDone(node[i])
    <3> DEFINE t == [node[i] EXCEPT !.draining = FALSE]
    <3>1. node' = [node EXCEPT ![i] = t] /\ t.round <= MaxRound
      BY Zenon, <2>1 DEF ProcessFutureMessage, Becomes
    <3>2. Works(node[i], t, Signed)
      BY <1>1, DrainingOK, Zenon
    <3> QED BY <3>1, <3>2, Zenon
  <2>2. CASE ~ DrainingDone(node[i])
    <3>1. PICK m \in FutureFront(node[i]) : Becomes(i, processFutureMessage(node[i], m))
      BY Zenon, <2>2 DEF ProcessFutureMessage
    <3> DEFINE t == processFutureMessage(node[i], m)
    <3>2. node' = [node EXCEPT ![i] = t] /\ t.round <= MaxRound
      BY Zenon, <3>1 DEF Becomes
    <3>3. m \in node[i].futureMessages
      BY Zenon DEF FutureFront
    <3>4. Works(node[i], t, Signed)
      BY Zenon, <1>1, <3>3, ProcessFutureMessageOK
    <3> QED BY <3>2, <3>4, Zenon
  <2> QED BY Zenon, <2>1, <2>2
<1>3. Runs(node[i], t, Signed)
  BY Zenon, <1>2, WorksRuns
<1> QED BY <1>1, <1>2, <1>3, RunStep, Zenon

\* A FinalCommittedEvent, in whatever order they come.
LEMMA FinalCommittedOK ==
  ASSUME NetInv, NEW i \in Honest, FinalCommitted(i)
  PROVE  Stepped
<1>1. PICK newHead \in posted[i] :
        /\ Becomes(i, handleFinalCommitted(node[i], newHead, head[i]))
        /\ posted' = [posted EXCEPT ![i] = @ \ {newHead}]
  BY Zenon DEF FinalCommitted
<1> DEFINE t == handleFinalCommitted(node[i], newHead, head[i])
<1>2. /\ node' = [node EXCEPT ![i] = t] /\ t.round <= MaxRound /\ up[i]
      /\ UNCHANGED <<head, up>>
      /\ DOMAIN posted' = Honest /\ \A j \in Honest : posted'[j] \subseteq posted[j]
  BY Zenon, <1>1 DEF FinalCommitted, Becomes, Ready, chain, NetInv
<1>3. /\ CoreInv(node[i], Signed) /\ head[i] \in Nat /\ newHead \in Nat /\ newHead <= head[i]
      /\ node[i].height <= head[i] + 1 /\ Timed(node[i]) /\ up \in [Honest -> BOOLEAN]
  BY Zenon, <1>2 DEF NetInv, ValidatorInv
<1>4. \/ t = node[i]
      \/ /\ CoreInv(t, Signed) /\ t.address = node[i].address /\ t.height = head[i] + 1
         /\ node[i].height < t.height /\ Timed(t)
         /\ t.out = node[i].out /\ t.committed = node[i].committed
  BY <1>3, HandleFinalCommittedOK
<1> HIDE DEF t
<1>5. CoreInv(t, Signed) /\ GoesOn(node[i], t) /\ t.height <= head[i] + 1 /\ Timed(t)
  BY <1>3, <1>4, OnwardSelf DEF GoesOn
<1>6. NetInv'
  BY <1>2, <1>3, <1>5, StepKeeps, Zenon
<1> QED BY Zenon, <1>2, <1>5, <1>6 DEF Stepped, NodeStep, NetInv

\* The core of a validator is stopped.
LEMMA StopCoreOK ==
  ASSUME NetInv, NEW i \in Honest, StopCore(i)
  PROVE  Stepped
<1> DEFINE t == Stop(node[i])
<1>1. /\ node' = [node EXCEPT ![i] = t] /\ t.round <= MaxRound /\ UNCHANGED <<head, posted>>
      /\ up' \in [Honest -> BOOLEAN] /\ ~ up'[i] /\ \A j \in Honest : j # i => up'[j] = up[j]
      /\ DOMAIN posted' = Honest /\ \A j \in Honest : posted'[j] \subseteq posted[j]
  BY Zenon DEF StopCore, Becomes, chain, NetInv
<1>2. CoreInv(node[i], Signed) /\ node[i].height <= head[i] + 1
  BY Zenon DEF NetInv, ValidatorInv
<1>3. CoreInv(t, Signed) /\ Onward(node[i], t)
  BY Zenon, <1>2, StopOK
<1> HIDE DEF t
<1>4. GoesOn(node[i], t) /\ t.height <= head[i] + 1
  BY Zenon, <1>2, <1>3 DEF GoesOn, Onward
<1>5. NetInv'
  BY <1>1, <1>3, <1>4, StepKeeps, Zenon
<1> QED BY Zenon, <1>1, <1>3, <1>4, <1>5 DEF Stepped, NodeStep, NetInv

\* The core of a validator is started again, at whatever head its chain has.
LEMMA StartCoreOK ==
  ASSUME NetInv, NEW i \in Honest, StartCore(i)
  PROVE  Stepped
<1> DEFINE t == Start(node[i], head[i])
<1>1. /\ node' = [node EXCEPT ![i] = t] /\ t.round <= MaxRound /\ UNCHANGED <<head, posted>>
      /\ up' \in [Honest -> BOOLEAN] /\ \A j \in Honest : j # i => up'[j] = up[j]
      /\ DOMAIN posted' = Honest /\ \A j \in Honest : posted'[j] \subseteq posted[j]
  BY Zenon DEF StartCore, Becomes, chain, NetInv
<1>2. CoreInv(node[i], Signed) /\ head[i] \in Nat /\ node[i].height <= head[i] + 1
  BY Zenon DEF NetInv, ValidatorInv
<1>3. node[i].height \in Nat
  BY Zenon, <1>2, TimerIsOld
<1>4. /\ CoreInv(t, Signed) /\ t.address = node[i].address /\ t.height = head[i] + 1 /\ Timed(t)
      /\ t.out = node[i].out /\ t.committed = node[i].committed
      /\ node[i].height = head[i] + 1 => Onward(node[i], t)
  BY Zenon, <1>2, StartOK
<1> HIDE DEF t
<1>5. GoesOn(node[i], t) /\ t.height <= head[i] + 1
  BY <1>2, <1>3, <1>4 DEF GoesOn
<1>6. NetInv'
  BY <1>1, <1>4, <1>5, StepKeeps, Zenon
<1> QED BY Zenon, <1>1, <1>4, <1>5, <1>6 DEF Stepped, NodeStep, NetInv

\* A step of the chain, or of the events about it.
LEMMA ChainStep ==
  ASSUME NetInv, NEW i \in Honest, UNCHANGED <<node, up>>, head' \in [Honest -> Nat],
         \A j \in Honest : head[j] <= head'[j], DOMAIN posted' = Honest,
         \A j \in Honest : \A h \in posted'[j] : h \in posted[j] \/ h = head[j]
  PROVE  Stepped
<1>1. Signed' = Signed
  BY DEF Signed, Sent
<1>2. ASSUME NEW j \in Honest
      PROVE  ValidatorInv(j)'
  <2>1. /\ CoreInv(node[j], Signed) /\ node[j].address = j /\ node[j].height <= head[j] + 1
        /\ head[j] \in Nat /\ (\A h \in posted[j] : h \in Nat /\ h <= head[j])
        /\ up[j] => Timed(node[j])
    BY Zenon DEF NetInv, ValidatorInv
  <2>2. node[j].height \in Nat
    BY Zenon, <2>1, TimerIsOld
  <2>3. node[j].height <= head'[j] + 1 /\ \A h \in posted'[j] : h \in Nat /\ h <= head'[j]
    BY <2>1, <2>2
  <2> QED BY Zenon, <1>1, <2>1, <2>3 DEF ValidatorInv
<1>3. NetInv'
  BY Zenon, <1>2 DEF NetInv
<1>4. NodeStep(i, node[i])
  BY Zenon, OnwardSelf DEF NodeStep, GoesOn, NetInv, ValidatorInv
<1> QED BY Zenon, <1>3, <1>4 DEF Stepped

\* A block is written, its event is read, and an event is lost.
LEMMA ChainOK ==
  ASSUME NetInv, NEW i \in Honest, InsertBlock(i) \/ HandleNewChainHead(i) \/ LoseEvent(i)
  PROVE  Stepped
<1>1. head \in [Honest -> Nat] /\ DOMAIN posted = Honest
  BY Zenon DEF NetInv
<1>2. CASE InsertBlock(i)
  <2>1. UNCHANGED <<node, up, posted>> /\ head' = [head EXCEPT ![i] = @ + 1]
    BY Zenon, <1>2 DEF InsertBlock
  <2>2. head' \in [Honest -> Nat] /\ \A j \in Honest : head[j] <= head'[j]
    BY <1>1, <2>1
  <2> QED BY Zenon, <1>1, <2>1, <2>2, ChainStep
<1>3. CASE HandleNewChainHead(i)
  <2>1. UNCHANGED <<node, up, head>>
    BY Zenon, <1>3 DEF HandleNewChainHead
  <2>2. posted' = [posted EXCEPT ![i] = IF up[i] THEN @ \cup {head[i]} ELSE @]
    BY Zenon, <1>3 DEF HandleNewChainHead
  <2>3. /\ DOMAIN posted' = Honest
        /\ \A j \in Honest : \A h \in posted'[j] : h \in posted[j] \/ h = head[j]
    BY Zenon, <1>1, <2>2
  <2> QED BY <1>1, <2>1, <2>3, ChainStep
<1>4. CASE LoseEvent(i)
  <2>1. /\ UNCHANGED <<node, up, head>>
        /\ \E h \in posted[i] : posted' = [posted EXCEPT ![i] = @ \ {h}]
    BY <1>4, Zenon DEF LoseEvent, chain
  <2>2. /\ DOMAIN posted' = Honest
        /\ \A j \in Honest : \A h \in posted'[j] : h \in posted[j] \/ h = head[j]
    BY Zenon, <1>1, <2>1
  <2> QED BY <1>1, <2>1, <2>2, ChainStep
<1> QED BY Zenon, <1>2, <1>3, <1>4

\* Every step of the network is a step of one core that goes on.
LEMMA NextOK ==
  ASSUME NetInv, [Next]_vars
  PROVE  Stepped
<1>1. CASE Next
  <2>1. PICK i \in Honest :
          \/ \E m \in Sent \cup FaultyMessages : Receive(i, m)
          \/ Timeout(i) \/ NewBlock(i)
          \/ InsertBlock(i) \/ HandleNewChainHead(i) \/ LoseEvent(i)
          \/ FinalCommitted(i) \/ ProcessFutureMessage(i) \/ StopCore(i) \/ StartCore(i)
    BY Zenon, <1>1 DEF Next
  <2> QED BY Zenon, <2>1, ReceiveOK, TimeoutOK, NewBlockOK, ChainOK, FinalCommittedOK, ProcessOK,
             StopCoreOK, StartCoreOK
<1>2. CASE UNCHANGED vars
  <2>1. UNCHANGED <<node, up, head, posted>>
    BY Zenon, <1>2 DEF vars, chain
  <2>2. PICK i \in Honest : TRUE
    BY Zenon, NetAssumption
  <2> QED BY <2>1, <2>2, ChainStep DEF NetInv
<1> QED BY Zenon, <1>1, <1>2

\* The cores start at the height after the genesis block.
LEMMA InitOK ==
  ASSUME Init
  PROVE  NetInv
<1>1. ASSUME NEW i \in Honest
      PROVE  ValidatorInv(i)
  <2> DEFINE s == getInitializedState(i, 0)
             t == Start(s, 0)
  <2>1. i \in 0 .. N - 1
    BY Zenon, NetAssumption
  <2>2. CoreInv(s, Signed) /\ s.address = i /\ s.height = 0 + 1
    BY Zenon, <2>1, InitialOK
  <2> HIDE DEF s
  <2>3. CoreInv(t, Signed) /\ t.address = s.address /\ t.height = 0 + 1 /\ Timed(t)
    BY <2>2, StartOK
  <2>4. node[i] = t
    BY Zenon DEF Init, s
  <2> HIDE DEF t
  <2>5. head[i] = 0 /\ posted[i] = {}
    BY Zenon DEF Init
  <2> QED BY <2>2, <2>3, <2>4, <2>5 DEF ValidatorInv
<1> QED BY Zenon, <1>1 DEF Init, NetInv

\* The invariant of the network, for any number of validators, faulty ones included.
THEOREM NetInvariant == Spec => []NetInv
<1>1. NetInv /\ [Next]_vars => NetInv'
  BY Zenon, NextOK DEF Stepped
<1> QED BY <1>1, InitOK, PTL DEF Spec

\* No core panics.
THEOREM NeverPanics == Spec => []NoPanic
<1>1. NetInv => NoPanic
  BY Zenon DEF NetInv, ValidatorInv, CoreInv, TypeInv, NoPanic
<1> QED BY <1>1, NetInvariant, PTL

\* No core signs two prevotes, or two precommits, for one height and round: over
\* handlers, timeouts and restarts (SendVote, sentMsgStorage).
THEOREM VotesOnce == Spec => []OneVotePerRound
<1>1. NetInv => OneVotePerRound
  <2> SUFFICES ASSUME NetInv, NEW i \in Honest PROVE
        \A m, k \in node[i].out :
          (/\ m.type \in {"prevote", "precommit"} /\ m.type = k.type
           /\ m.number = k.number /\ m.round = k.round) => m = k
    BY Zenon DEF OneVotePerRound
  <2>1. OutInv(node[i])
    BY Zenon DEF NetInv, ValidatorInv, CoreInv
  <2> QED BY Zenon, <2>1 DEF OutInv, IsVote
<1> QED BY <1>1, NetInvariant, PTL

\* Two cores in one height and round expect the same proposer, whichever rounds
\* they skipped (enterNewRound, CalcProposer).
THEOREM ProposersAgree == Spec => []SameProposer
<1>1. NetInv => SameProposer
  BY Zenon DEF NetInv, ValidatorInv, CoreInv, ProposerInv, SameProposer
<1> QED BY <1>1, NetInvariant, PTL

\* The core of a started validator that is not at Commit has the timer of its step
\* running, so it never waits for messages only (ScheduleTimeout, enterCatchup).
THEOREM TimersRun == Spec => []TimerRuns
<1>1. NetInv => TimerRuns
  <2> SUFFICES ASSUME NetInv, NEW i \in Honest, up[i], node[i].step # 8
               PROVE  /\ node[i].armed
                      /\ node[i].ti.number = node[i].height /\ node[i].ti.round = node[i].round
                      /\ node[i].ti.step = node[i].step
    BY Zenon DEF TimerRuns, Ready, RoundStepCommit
  <2>1. Timed(node[i])
    BY Zenon DEF NetInv, ValidatorInv
  <2> QED BY Zenon, <2>1 DEF Timed, TimerAt
<1> QED BY <1>1, NetInvariant, PTL

\* Every vote that a core signed at its height is in its store, in the order of
\* rounds and steps, so a catch-up reply can repeat it (storeSentMsg).
THEOREM VotesAreStored == Spec => []SentIsStored
<1>1. NetInv => SentIsStored
  <2> SUFFICES ASSUME NetInv, NEW i \in Honest
               PROVE  LET s == node[i] IN
                 /\ \A m \in s.out :
                      m.type \in {"prevote", "precommit"} /\ m.number = s.height =>
                        \E k \in 1 .. Len(s.savedMsg) : s.savedMsg[k] = m
                 /\ \A j, k \in 1 .. Len(s.savedMsg) : LET m == s.savedMsg[j] q == s.savedMsg[k] IN
                      j < k => \/ m.round < q.round
                               \/ m.round = q.round /\ StepOf(m) < StepOf(q)
                               \/ m.round = q.round /\ m.type = "propose" /\ q.type = "propose"
    BY Zenon DEF SentIsStored
  <2>1. StoreInv(node[i])
    BY Zenon DEF NetInv, ValidatorInv, CoreInv
  <2> QED BY Zenon, <2>1 DEF StoreInv, IsVote
<1> QED BY <1>1, NetInvariant, PTL

\* A core precommits a block only on a polka, and then holds the lock, or prevotes
\* another one, only after a later polka (enterPrevote, enterPrecommit,
\* handlePrevote).
THEOREM LocksAreKept == Spec => []LockRule
<1>1. ASSUME NetInv, NEW i \in Honest, NEW type \in {"prevote", "precommit"},
             NEW x \in Own(i, type)
      PROVE  \E m \in node[i].out : /\ m.type = type /\ m.number = node[i].height
                                    /\ x[2] = m.round /\ x[3] = m.block
  <2>1. PICK m \in Sent : /\ m.type = type /\ m.number = node[i].height
                          /\ x = <<m.from, m.round, m.block>> /\ x[1] = i
    BY Zenon DEF Own, VotesOf
  <2>2. PICK j \in Honest : m \in node[j].out
    BY Zenon DEF Sent
  <2>3. m.from = j
    BY Zenon, <1>1, <2>2 DEF NetInv, ValidatorInv, CoreInv, OutInv
  <2> QED BY Zenon, <2>1, <2>2, <2>3
<1>2. NetInv => LockRule
  <2> SUFFICES ASSUME NetInv, NEW i \in Honest, NEW x \in Own(i, "precommit"), x[3] # Nil
               PROVE  /\ x[3] \in PolkaSeen(i, x[2])
                      /\ \/ ReleasedBy(i, x[3], x[2], node[i].round)
                         \/ node[i].lockedBlock = x[3] /\ node[i].lockedRound >= x[2]
                      /\ \A y \in Own(i, "prevote") :
                           x[2] < y[2] /\ y[3] # x[3] => ReleasedBy(i, x[3], x[2], y[2])
    BY Zenon DEF LockRule
  <2>1. LockInv(node[i])
    BY Zenon DEF NetInv, ValidatorInv, CoreInv
  <2>2. PICK m \in node[i].out : /\ m.type = "precommit" /\ m.number = node[i].height
                                 /\ x[2] = m.round /\ x[3] = m.block
    BY Zenon, <1>1
  <2>3. /\ x[3] \in TwoThirdMajority(node[i].prevotes, x[2])
        /\ \/ Released(node[i], x[3], x[2], node[i].round)
           \/ node[i].lockedBlock = x[3] /\ node[i].lockedRound >= x[2]
        /\ \A y \in node[i].out :
             y.type = "prevote" /\ y.number = node[i].height /\ x[2] < y.round /\ y.block # x[3] =>
               Released(node[i], x[3], x[2], y.round)
    BY Zenon, <2>1, <2>2 DEF LockInv
  <2>4. ASSUME NEW y \in Own(i, "prevote"), x[2] < y[2], y[3] # x[3]
        PROVE  Released(node[i], x[3], x[2], y[2])
    <3>1. PICK k \in node[i].out : /\ k.type = "prevote" /\ k.number = node[i].height
                                   /\ y[2] = k.round /\ y[3] = k.block
      BY Zenon, <1>1
    <3> QED BY Zenon, <2>3, <2>4, <3>1
  <2> QED BY Zenon, <2>3, <2>4 DEF Released, ReleasedBy, PolkaSeen
<1> QED BY <1>2, NetInvariant, PTL

\* A committed block passed the checks, and carries the seals of MinMajority
\* validators that signed a precommit for it in one round (finalizeCommit,
\* FinalizeBlock).
THEOREM CommitsAreSound == Spec => []CommitSound
<1>1. NetInv => CommitSound
  <2> SUFFICES ASSUME NetInv, NEW i \in Honest, NEW c \in node[i].committed
               PROVE  /\ c.block \in Accepted
                      /\ Cardinality(c.seals) = MinMajority(N)
                      /\ \E r \in { m.round : m \in { x \in Signed : x.type = "precommit" } } :
                           \A j \in c.seals : \E m \in Signed :
                             /\ m.type = "precommit" /\ m.from = j
                             /\ m.number = c.block.number /\ m.round = r /\ m.block = c.block
    BY Zenon DEF CommitSound
  <2>1. CommitIsSound(c, Signed)
    BY Zenon DEF NetInv, ValidatorInv, CoreInv, CommitInv
  <2>2. PICK r \in Int :
          \A j \in c.seals : Voted(Signed, "precommit", j, c.block.number, r, c.block)
    BY Zenon, <2>1 DEF CommitIsSound
  <2>3. c.seals # {}
    <3>1. Cardinality(c.seals) = MinMajority(N)
      BY Zenon, <2>1 DEF CommitIsSound
    <3>2. Cardinality({}) = 0
      BY Zenon, FS_EmptySet
    <3> QED BY <3>1, <3>2, MajorityNumber
  <2>4. r \in { m.round : m \in { x \in Signed : x.type = "precommit" } }
    BY Zenon, <2>2, <2>3 DEF Voted
  <2> QED BY <2>1, <2>2, <2>4 DEF CommitIsSound, Voted
<1> QED BY <1>1, NetInvariant, PTL

\* No step takes a core back to an earlier height, round or step, but for the
\* return from Commit to PrecommitWait with a commit of an earlier round
\* (enterPrecommitWait).
THEOREM NeverGoesBack == Spec => NeverBack
<1> DEFINE A == \A i \in Honest :
       \/ Before(node[i], node'[i])
       \/ /\ node[i].step = RoundStepCommit /\ node'[i].step = RoundStepPrecommitWait
          /\ node[i].height = node'[i].height /\ node[i].round = node'[i].round
          /\ node[i].commitRound < node[i].round
<1>1. ASSUME NetInv, [Next]_vars
      PROVE  A
  <2>1. PICK i \in Honest : \E t : NodeStep(i, t)
    BY Zenon, <1>1, NextOK DEF Stepped
  <2>2. ASSUME NEW j \in Honest
        PROVE  \/ Before(node[j], node'[j])
               \/ /\ node[j].step = RoundStepCommit /\ node'[j].step = RoundStepPrecommitWait
                  /\ node[j].height = node'[j].height /\ node[j].round = node'[j].round
                  /\ node[j].commitRound < node[j].round
    <3>1. GoesOn(node[j], node'[j])
      BY Zenon, <1>1, <2>1, OnwardSelf DEF NodeStep, GoesOn
    <3>2. /\ node[j].round \in Nat /\ node'[j].round \in Nat
      BY Zenon, <1>1, NextOK, CoreInvTypes DEF Stepped, NetInv, ValidatorInv, CoreInv
    <3> QED BY <3>1, <3>2 DEF GoesOn, Onward, Before, RoundStepCommit, RoundStepPrecommitWait
  <2> QED BY Zenon, <2>2
<1>2. NetInv /\ [Next]_vars => [A]_vars
  BY Zenon, <1>1
<1> QED BY <1>2, NetInvariant, PTL DEF Spec, NeverBack
-----------------------------------------------------------------------------
=============================================================================
