----------------------------- MODULE CoreLemmas -----------------------------
(***************************************************************************)
(* What the parts of the invariant of a core need: votes that are sent,    *)
(* the store of sent messages, the timer, majorities and the lock, each    *)
(* for a step from s to t that does one thing to them.                     *)
(***************************************************************************)
EXTENDS CoreInv, FiniteSetTheorems, TLAPS

\* What was reached at s was reached at t, a later place of the same height.
LEMMA NotAfterLater ==
  ASSUME NEW s, NEW t, Placed(s), Placed(t), Later(s, t),
         NEW r \in Int, NEW step \in Int, step <= 7, NotAfter(r, step, s)
  PROVE  NotAfter(r, step, t)
BY DEF Placed, Later, NotAfter, StepNumber

\* The step at which a stored message was sent: Propose, Prevote or Precommit
\* (storeSentMsg of sent_msg_storage.go keys on it).
LEMMA StepOfType ==
  ASSUME NEW m, IsStored(m)
  PROVE  /\ StepOf(m) \in {3, 4, 6}
         /\ m.type = "propose" => StepOf(m) = 3
         /\ m.type = "prevote" => StepOf(m) = 4
         /\ m.type = "precommit" => StepOf(m) = 6
BY Zenon DEF StepOf, IsStored, RoundStepPropose, RoundStepPrevote, RoundStepPrecommit

\* A vote that is a message is one that the store of sent messages takes.
LEMMA VoteIsStored ==
  ASSUME NEW m, IsMessage(m), IsVote(m)
  PROVE  IsStored(m) /\ StepOf(m) \in {4, 6}
<1>1. IsStored(m)
  BY Zenon DEF IsMessage, IsVote
<1> QED BY Zenon, <1>1, StepOfType DEF IsVote

\* A catch-up reply repeats messages that were sent, however many follow.
LEMMA RepeatsGrows ==
  ASSUME NEW m, NEW A, NEW B, A \subseteq B, Repeats(m, A)
  PROVE  Repeats(m, B)
BY Zenon DEF Repeats

\* OutInv is kept by a handler that sends no vote: SendPropose, and the two
\* catch-up messages.
LEMMA OutKept ==
  ASSUME NEW s, NEW t, OutInv(s), Placed(s), Placed(t), Later(s, t),
         t.height = s.height, t.address = s.address, s.out \subseteq t.out,
         \A m \in t.out :
           \/ m \in s.out
           \/ IsMessage(m) /\ ~ IsVote(m) /\ m.from = s.address /\ Repeats(m, s.out)
  PROVE  OutInv(t)
<1>1. ASSUME NEW m \in t.out
      PROVE  /\ IsMessage(m) /\ m.from = t.address /\ Repeats(m, t.out)
             /\ IsVote(m) => m \in s.out
  <2>1. IsMessage(m) /\ m.from = t.address /\ Repeats(m, s.out) /\ (IsVote(m) => m \in s.out)
    BY Zenon DEF OutInv
  <2> QED BY Zenon, <2>1, RepeatsGrows
<1>2. ASSUME NEW m \in t.out, IsVote(m)
      PROVE  /\ m.round \in Nat /\ ForBlock(m)
             /\ m.number < t.height \/ (m.number = t.height /\ NotAfter(m.round, StepOf(m), t))
  <2>1. m \in s.out /\ IsMessage(m)
    BY Zenon, <1>1, <1>2
  <2>2. /\ m.round \in Nat /\ ForBlock(m)
        /\ m.number < s.height \/ (m.number = s.height /\ NotAfter(m.round, StepOf(m), s))
    BY Zenon, <2>1, <1>2 DEF OutInv
  <2>3. StepOf(m) \in {4, 6}
    BY Zenon, <2>1, <1>2, VoteIsStored
  <2>4. NotAfter(m.round, StepOf(m), s) => NotAfter(m.round, StepOf(m), t)
    BY <2>2, <2>3, NotAfterLater
  <2> QED BY Zenon, <2>2, <2>4
<1>3. ASSUME NEW m \in t.out, NEW k \in t.out, IsVote(m), m.type = k.type, m.number = k.number,
             m.round = k.round
      PROVE  m = k
  <2>1. IsVote(k)
    BY Zenon, <1>3 DEF IsVote
  <2> QED BY Zenon, <1>1, <1>3, <2>1 DEF OutInv
<1> QED BY <1>1, <1>2, <1>3 DEF OutInv

\* (m, q) may stand in this order in the store.
Ordered(m, q) ==
  \/ m.round < q.round
  \/ m.round = q.round /\ StepOf(m) < StepOf(q)
  \/ m.round = q.round /\ m.type = "propose" /\ q.type = "propose"

\* StoreInv with its order as an operator.
LEMMA StoreInvMeans ==
  ASSUME NEW s
  PROVE  StoreInv(s) <=>
         /\ s.savedMsg \in Seq(s.out)
         /\ \A k \in 1 .. Len(s.savedMsg) :
              IsStored(s.savedMsg[k]) /\ NotAfter(s.savedMsg[k].round, StepOf(s.savedMsg[k]), s)
         /\ \A m \in s.out :
              IsVote(m) /\ m.number = s.height => \E k \in 1 .. Len(s.savedMsg) : s.savedMsg[k] = m
         /\ \A j, k \in 1 .. Len(s.savedMsg) : j < k => Ordered(s.savedMsg[j], s.savedMsg[k])
BY Zenon DEF StoreInv, Ordered

\* StoreInv is kept where no vote is sent and nothing is stored.
LEMMA StoreKept ==
  ASSUME NEW s, NEW t, StoreInv(s), Placed(s), Placed(t), Later(s, t),
         t.height = s.height, t.savedMsg = s.savedMsg, s.out \subseteq t.out,
         \A m \in t.out : IsVote(m) => m \in s.out
  PROVE  StoreInv(t)
<1>1. t.savedMsg \in Seq(t.out)
  BY StoreInvMeans
<1>2. ASSUME NEW k \in 1 .. Len(t.savedMsg)
      PROVE  IsStored(t.savedMsg[k]) /\ NotAfter(t.savedMsg[k].round, StepOf(t.savedMsg[k]), t)
  <2>1. IsStored(s.savedMsg[k]) /\ NotAfter(s.savedMsg[k].round, StepOf(s.savedMsg[k]), s)
    BY Zenon, StoreInvMeans
  <2>2. s.savedMsg[k].round \in Int /\ StepOf(s.savedMsg[k]) \in {3, 4, 6}
    BY Zenon, <2>1, StepOfType DEF IsStored
  <2>3. NotAfter(s.savedMsg[k].round, StepOf(s.savedMsg[k]), t)
    BY <2>1, <2>2, NotAfterLater
  <2> QED BY Zenon, <2>1, <2>3
<1>3. ASSUME NEW m \in t.out, IsVote(m), m.number = t.height
      PROVE  \E k \in 1 .. Len(t.savedMsg) : t.savedMsg[k] = m
  BY Zenon, <1>3, StoreInvMeans
<1>4. \A j, k \in 1 .. Len(t.savedMsg) : j < k => Ordered(t.savedMsg[j], t.savedMsg[k])
  BY Zenon, StoreInvMeans
<1> QED BY Zenon, <1>1, <1>2, <1>3, <1>4, StoreInvMeans

\* storeSentMsg: a message that is not before the last one stored is stored
\* behind it.
LEMMA StoreAdded ==
  ASSUME NEW s, NEW t, StoreInv(s), Placed(s), Placed(t), Later(s, t), t.height = s.height,
         NEW m, IsStored(m), NotAfter(m.round, StepOf(m), t),
         \A k \in 1 .. Len(s.savedMsg) : Ordered(s.savedMsg[k], m),
         t.out = s.out \cup {m}, t.savedMsg = storeSentMsg(s.savedMsg, m)
  PROVE  StoreInv(t)
<1>0. s.savedMsg \in Seq(s.out) /\ Len(s.savedMsg) \in Nat
  BY StoreInvMeans
<1>a. \A k \in 1 .. Len(s.savedMsg) : IsStored(s.savedMsg[k])
  BY Zenon, StoreInvMeans
<1>1. t.savedMsg = Append(s.savedMsg, m)
  <2> DEFINE last == s.savedMsg[Len(s.savedMsg)]
  <2>1. ASSUME s.savedMsg # <<>>
        PROVE  ~ (last.round > m.round \/ (last.round = m.round /\ StepOf(last) > StepOf(m)))
    <3>1. Len(s.savedMsg) \in 1 .. Len(s.savedMsg)
      BY <1>0, <2>1
    <3>2. Ordered(last, m) /\ IsStored(last)
      BY Zenon, <3>1, <1>a
    <3>3. /\ last.round \in Int /\ m.round \in Int /\ StepOf(last) \in {3, 4, 6}
          /\ StepOf(m) \in {3, 4, 6}
          /\ (m.type = "propose" => StepOf(m) = 3) /\ (last.type = "propose" => StepOf(last) = 3)
      BY Zenon, <3>2, StepOfType DEF IsStored
    <3> HIDE DEF last
    <3> QED BY <3>2, <3>3 DEF Ordered
  <2> QED BY Zenon, <2>1 DEF storeSentMsg
<1>2. /\ Append(s.savedMsg, m) \in Seq(t.out)
      /\ Len(Append(s.savedMsg, m)) = Len(s.savedMsg) + 1
      /\ \A k \in 1 .. Len(s.savedMsg) : Append(s.savedMsg, m)[k] = s.savedMsg[k]
      /\ Append(s.savedMsg, m)[Len(s.savedMsg) + 1] = m
  <2>1. s.savedMsg \in Seq(t.out)
    BY <1>0
  <2> QED BY <2>1, m \in t.out
<1> DEFINE q == t.savedMsg
           n == Len(s.savedMsg)
<1>3. /\ q \in Seq(t.out) /\ Len(q) = n + 1 /\ q[n + 1] = m /\ n \in Nat
      /\ \A k \in 1 .. n : q[k] = s.savedMsg[k]
  BY Zenon, <1>0, <1>1, <1>2
<1>4. ASSUME NEW k \in 1 .. n
      PROVE  IsStored(s.savedMsg[k]) /\ NotAfter(s.savedMsg[k].round, StepOf(s.savedMsg[k]), t)
  <2>1. IsStored(s.savedMsg[k]) /\ NotAfter(s.savedMsg[k].round, StepOf(s.savedMsg[k]), s)
    BY Zenon, StoreInvMeans
  <2>2. s.savedMsg[k].round \in Int /\ StepOf(s.savedMsg[k]) \in {3, 4, 6}
    BY Zenon, <2>1, StepOfType DEF IsStored
  <2> QED BY <2>1, <2>2, NotAfterLater
<1>5. ASSUME NEW x \in s.out, IsVote(x), x.number = s.height
      PROVE  \E k \in 1 .. n : s.savedMsg[k] = x
  BY Zenon, <1>5, StoreInvMeans
<1>6. ASSUME NEW j \in 1 .. n, NEW k \in 1 .. n, j < k
      PROVE  Ordered(s.savedMsg[j], s.savedMsg[k])
  BY Zenon, <1>6, StoreInvMeans
<1> HIDE DEF q, n
<1>7. \A k \in 1 .. Len(q) : IsStored(q[k]) /\ NotAfter(q[k].round, StepOf(q[k]), t)
  BY <1>3, <1>4
<1>8. \A x \in t.out : IsVote(x) /\ x.number = t.height => \E k \in 1 .. Len(q) : q[k] = x
  <2> SUFFICES ASSUME NEW x \in t.out, IsVote(x), x.number = t.height
               PROVE  \E k \in 1 .. Len(q) : q[k] = x
    BY Zenon
  <2>1. CASE x = m
    BY <2>1, <1>3
  <2>2. CASE x \in s.out
    <3>1. PICK k \in 1 .. n : s.savedMsg[k] = x
      BY Zenon, <2>2, <1>5
    <3> QED BY <3>1, <1>3
  <2> QED BY Zenon, <2>1, <2>2
<1>9. \A j, k \in 1 .. Len(q) : j < k => Ordered(q[j], q[k])
  <2> SUFFICES ASSUME NEW j \in 1 .. n + 1, NEW k \in 1 .. n + 1, j < k
               PROVE  Ordered(q[j], q[k])
    BY Zenon, <1>3
  <2>1. CASE k = n + 1
    <3>1. j \in 1 .. n
      BY <2>1, <1>3
    <3>2. Ordered(s.savedMsg[j], m)
      BY Zenon, <3>1 DEF n
    <3> QED BY Zenon, <2>1, <3>1, <3>2, <1>3
  <2>2. CASE k # n + 1
    <3>1. j \in 1 .. n /\ k \in 1 .. n
      BY <2>2, <1>3
    <3> QED BY Zenon, <3>1, <1>3, <1>6
  <2> QED BY Zenon, <2>1, <2>2
<1> QED BY <1>3, <1>7, <1>8, <1>9, StoreInvMeans, Zenon DEF q

(* Timeouts. *)

TimerOK(t) == IsTimeout(t.ti) /\ t.armed \in BOOLEAN /\ \A x \in t.late : IsTimeout(x)

\* The timeouts of t are those of s, but for one at (r, step).
TimerSet(s, t, r, step) ==
  \A x \in {t.ti} \cup t.late :
    x \in {s.ti} \cup s.late \/ (x.number = s.height /\ x.round = r /\ x.step = step)

\* TimeInv is kept when the only new timeout is one for where t is.
LEMMA TimeKept ==
  ASSUME NEW s, NEW t, TimeInv(s), TimerOK(s), Placed(s), Placed(t), Later(s, t),
         t.height = s.height, NEW r, NEW step, TimerSet(s, t, r, step), NotAfter(r, step, t),
         s.round = t.round /\ s.step >= 7 /\ s.precommitWaited => t.precommitWaited,
         r = t.round /\ step = 7 => t.precommitWaited,
         t.step = 7 /\ s.step # 7 => t.precommitWaited,
         t.step = 7 => t.round = s.round
  PROVE  TimeInv(t)
<1>1. ASSUME NEW x \in {t.ti} \cup t.late
      PROVE  /\ x.number < t.height \/ (x.number = t.height /\ NotAfter(x.round, x.step, t))
             /\ x.number = t.height /\ x.round = t.round /\ x.step = 7 => t.precommitWaited
  <2>1. CASE x.number = s.height /\ x.round = r /\ x.step = step
    BY Zenon, <2>1
  <2>2. CASE x \in {s.ti} \cup s.late
    <3>1. IsTimeout(x)
      BY Zenon, <2>2 DEF TimerOK
    <3>2. /\ x.number < s.height \/ (x.number = s.height /\ NotAfter(x.round, x.step, s))
          /\ x.number = s.height /\ x.round = s.round /\ x.step = 7 => s.precommitWaited
      BY Zenon, <2>2 DEF TimeInv, RoundStepPrecommitWait
    <3>3. x.round \in Int /\ x.step \in Int /\ x.step <= 7 /\ x.number \in Int
      BY <3>1 DEF IsTimeout
    <3>4. NotAfter(x.round, x.step, s) => NotAfter(x.round, x.step, t) /\ x.round <= s.round
      BY <3>3, NotAfterLater DEF Placed, NotAfter
    <3>5. s.round <= t.round /\ s.round \in Int /\ t.round \in Int
      BY DEF Later, Placed
    <3>6. s.step = 7 => s.precommitWaited
      BY Zenon DEF TimeInv, RoundStepPrecommitWait
    <3>7. CASE x.number < s.height
      BY <3>7, <3>3, t.height = s.height
    <3>8. CASE x.number = s.height /\ NotAfter(x.round, x.step, s)
      <4>1. x.step = 7 /\ x.round = s.round => s.step >= 7
        BY <3>3, <3>5, <3>8 DEF NotAfter
      <4> QED BY <3>2, <3>3, <3>4, <3>5, <3>8, <4>1
    <3> QED BY Zenon, <3>2, <3>7, <3>8
  <2> QED BY Zenon, <2>1, <2>2 DEF TimerSet
<1>2. t.step = 7 => t.precommitWaited
  <2>1. CASE s.step = 7 /\ t.step = 7
    <3>1. s.step >= 7 /\ s.precommitWaited
      BY <2>1 DEF TimeInv, RoundStepPrecommitWait
    <3> QED BY Zenon, <2>1, <3>1
  <2> QED BY Zenon, <2>1
<1> QED BY Zenon, <1>1, <1>2 DEF TimeInv, RoundStepPrecommitWait

Same(s, t, changed) == \A f \in CoreFields \ changed : t[f] = s[f]

Timer == {"ti", "armed", "late"}

\* The timer of s is for a step before (r, step).
Fresh(s, r, step) ==
  \/ s.ti.number < s.height
  \/ s.ti.number = s.height /\ (s.ti.round < r \/ (s.ti.round = r /\ s.ti.step < step))

\* ScheduleTimeout of timeout.go: a timeout of an earlier place gives way to the
\* new one; one of a later place stays.
LEMMA ScheduleEffect ==
  ASSUME NEW s, DOMAIN s = CoreFields, TimerOK(s), s.height \in Nat, NEW r \in Nat,
         NEW step \in {1, 3, 4, 5, 6, 7}, NEW retry \in Nat,
         NEW t, t = ScheduleTimeout(s, r, step, retry)
  PROVE  /\ DOMAIN t = CoreFields /\ Same(s, t, Timer) /\ TimerOK(t)
         /\ TimerSet(s, t, r, step)
         /\ Fresh(s, r, step) => TimerAt(t, s.height, r, step)
<1> DEFINE newti == [number |-> s.height, round |-> r, step |-> step, retry |-> retry]
           L == { x \in IF s.armed THEN s.late \cup {s.ti} ELSE s.late :
                                  x.number = s.height /\ x.round = r /\ x.step = step }
           u == [s EXCEPT !.ti = newti, !.armed = TRUE, !.late = L]
<1>0. DOMAIN s = CoreFields /\ TimerOK(s) /\ s.height \in Nat
  BY Zenon
<1>1. t = IF earlierOrEqual(newti, s.ti) THEN s ELSE u
  BY Zenon DEF ScheduleTimeout
<1>2. IsTimeout(newti) /\ newti.number = s.height /\ newti.round = r /\ newti.step = step
  BY Zenon, <1>0 DEF IsTimeout
<1>4. \A x \in L : x \in {s.ti} \cup s.late
  BY Zenon, <1>0
<1>5. DOMAIN u = CoreFields
  BY Zenon, <1>0 DEF CoreFields
<1>6. u.ti = newti /\ u.armed = TRUE /\ u.late = L
  <2> HIDE DEF newti, L
  <2> QED BY Zenon, <1>0 DEF CoreFields
<1>7. Same(s, u, Timer)
  <2> HIDE DEF newti, L
  <2> QED BY <1>0, Zenon DEF CoreFields, Same, Timer
<1> HIDE DEF u, newti, L
<1>8. TimerSet(s, u, r, step) /\ TimerOK(u)
  <2>1. \A x \in L : IsTimeout(x)
    BY Zenon, <1>0, <1>4 DEF TimerOK
  <2> QED BY <1>2, <1>4, <1>6, <2>1, Zenon DEF TimerSet, TimerOK
<1>9. TimerSet(s, s, r, step) /\ Same(s, s, Timer)
  BY Zenon DEF TimerSet, Same
<1>10. ASSUME Fresh(s, r, step)
       PROVE  ~ earlierOrEqual(newti, s.ti)
  <2>1. s.ti.number \in Nat /\ s.ti.round \in Nat /\ s.ti.step \in Nat
    BY <1>0 DEF TimerOK, IsTimeout
  <2> QED BY <1>0, <1>2, <1>10, <2>1 DEF earlierOrEqual, Fresh
<1>11. TimerAt(u, s.height, r, step)
  BY Zenon, <1>2, <1>6 DEF TimerAt
<1>12. CASE earlierOrEqual(newti, s.ti)
  BY Zenon, <1>0, <1>1, <1>9, <1>10, <1>12
<1>13. CASE ~ earlierOrEqual(newti, s.ti)
  BY Zenon, <1>1, <1>5, <1>7, <1>8, <1>11, <1>13
<1> QED BY Zenon, <1>12, <1>13

(* Votes and locks. *)

\* MinMajority of the validator set is at least one vote and at most all.
LEMMA MajorityNumber ==
  /\ F(N) \in Int /\ MinMajority(N) \in Int
  /\ MinMajority(N) >= 1 /\ MinMajority(N) <= N
<1>1. N \in Nat \ {0}
  BY Zenon, NAssumption
<1>2. (N + 2) \div 3 \in Int /\ 3 * ((N + 2) \div 3) <= N + 2 /\ 3 * ((N + 2) \div 3) > N - 1
  BY <1>1
<1> QED BY <1>1, <1>2 DEF F, MinMajority

\* Only validators count as voters, so they are finitely many.
LEMMA VotersFinite ==
  ASSUME NEW votes, NEW r, NEW v
  PROVE  IsFiniteSet(VotersOf(votes, r, v)) /\ Cardinality(VotersOf(votes, r, v)) \in Nat
<1>1. IsFiniteSet(0 .. N - 1)
  BY FS_Interval, NAssumption
<1>2. VotersOf(votes, r, v) \subseteq 0 .. N - 1
  BY Zenon DEF VotersOf
<1> QED BY <1>1, <1>2, FS_Subset, FS_CardinalityType, Zenon

\* A majority of a set of votes is one of every larger set (AddVote only adds).
LEMMA MajorityGrows ==
  ASSUME NEW votes, NEW more, votes \subseteq more, NEW r
  PROVE  TwoThirdMajority(votes, r) \subseteq TwoThirdMajority(more, r)
<1> SUFFICES ASSUME NEW v \in TwoThirdMajority(votes, r)
             PROVE  v \in TwoThirdMajority(more, r)
  BY Zenon
<1>1. v \in { x[3] : x \in votes } /\ Cardinality(VotersOf(votes, r, v)) >= MinMajority(N)
  BY Zenon DEF TwoThirdMajority
<1>2. VotersOf(votes, r, v) \subseteq VotersOf(more, r, v)
  BY Zenon DEF VotersOf
<1>3. Cardinality(VotersOf(votes, r, v)) <= Cardinality(VotersOf(more, r, v))
  BY Zenon, <1>2, VotersFinite, FS_Subset
<1>4. Cardinality(VotersOf(more, r, v)) >= MinMajority(N)
  BY <1>1, <1>3, VotersFinite, MajorityNumber
<1>5. v \in { x[3] : x \in more }
  BY Zenon, <1>1
<1> QED BY Zenon, <1>4, <1>5 DEF TwoThirdMajority

\* A polka that released a lock goes on releasing it in later rounds.
LEMMA ReleasedGrows ==
  ASSUME NEW s, NEW t, s.prevotes \subseteq t.prevotes, NEW b, NEW r0 \in Int,
         NEW r \in Int, NEW q \in Int, r <= q, Released(s, b, r0, r)
  PROVE  Released(t, b, r0, q)
<1>1. PICK r1 \in r0 + 1 .. r : TwoThirdMajority(s.prevotes, r1) \ {b} # {}
  BY Zenon DEF Released
<1>2. TwoThirdMajority(t.prevotes, r1) \ {b} # {}
  BY <1>1, MajorityGrows, Zenon
<1>3. r1 \in r0 + 1 .. q
  OBVIOUS
<1> QED BY Zenon, <1>2, <1>3 DEF Released

\* The lock on b since round r0 is kept in t, or released.
LockHeld(t, b, r0) ==
  Released(t, b, r0, t.round) \/ (t.lockedBlock = b /\ t.lockedRound >= r0)

LockIsSound(t) ==
  /\ t.lockedRound = -1 <=> t.lockedBlock = Nil
  /\ t.lockedRound >= -1 /\ t.lockedRound <= t.round

\* The clauses of LockInv for one precommit.
PrecommitKept(t, x) ==
  /\ x.block \in TwoThirdMajority(t.prevotes, x.round)
  /\ LockHeld(t, x.block, x.round)
  /\ \A y \in t.out :
       y.type = "prevote" /\ y.number = t.height /\ x.round < y.round /\ y.block # x.block =>
         Released(t, x.block, x.round, y.round)

\* LockInv, precommit by precommit.
LEMMA LockInvMeans ==
  ASSUME NEW s
  PROVE  LockInv(s) <=>
         /\ LockIsSound(s)
         /\ \A x \in s.out :
              x.type = "precommit" /\ x.number = s.height /\ x.block # Nil => PrecommitKept(s, x)
BY Zenon DEF LockInv, LockIsSound, PrecommitKept, LockHeld

\* What a core signed at its height is for a round that it has reached.
LEMMA VotesOut ==
  ASSUME NEW s, OutInv(s), Placed(s), NEW x \in s.out, IsVote(x), x.number = s.height,
         s.height \in Nat
  PROVE  x.round \in Nat /\ x.round <= s.round
<1>1. /\ x.round \in Nat
      /\ x.number < s.height \/ (x.number = s.height /\ NotAfter(x.round, StepOf(x), s))
  BY Zenon DEF OutInv
<1> QED BY <1>1 DEF NotAfter, Placed

\* LockInv is kept where no vote is sent and the lock is kept or released by a
\* polka.
LEMMA LockKept ==
  ASSUME NEW s, NEW t, LockInv(s), OutInv(s), Placed(s), Placed(t), s.height \in Nat,
         t.height = s.height, s.prevotes \subseteq t.prevotes, s.round <= t.round,
         \A m \in t.out : IsVote(m) => m \in s.out,
         LockIsSound(t),
         \A b, r0 : s.lockedBlock = b /\ s.lockedRound >= r0 /\ b # Nil /\ r0 \in Nat =>
           LockHeld(t, b, r0)
  PROVE  LockInv(t)
<1> SUFFICES ASSUME NEW x \in t.out, x.type = "precommit", x.number = t.height, x.block # Nil
             PROVE  PrecommitKept(t, x)
  BY Zenon, LockInvMeans
<1>1. x \in s.out /\ IsVote(x)
  BY Zenon DEF IsVote
<1>2. PrecommitKept(s, x)
  BY Zenon, <1>1, LockInvMeans
<1>3. x.round \in Nat /\ s.round \in Nat /\ t.round \in Nat
  BY Zenon, <1>1, VotesOut DEF Placed
<1>4. x.block \in TwoThirdMajority(t.prevotes, x.round)
  BY Zenon, <1>2, MajorityGrows DEF PrecommitKept
<1>5. LockHeld(t, x.block, x.round)
  <2>1. CASE Released(s, x.block, x.round, s.round)
    BY <2>1, <1>3, ReleasedGrows DEF LockHeld
  <2>2. CASE s.lockedBlock = x.block /\ s.lockedRound >= x.round
    BY Zenon, <2>2, <1>3
  <2> QED BY Zenon, <1>2, <2>1, <2>2 DEF PrecommitKept, LockHeld
<1>6. ASSUME NEW y \in t.out,
             y.type = "prevote", y.number = t.height, x.round < y.round, y.block # x.block
      PROVE  Released(t, x.block, x.round, y.round)
  <2>1. y \in s.out /\ IsVote(y)
    BY Zenon, <1>6 DEF IsVote
  <2>2. y.round \in Nat
    BY Zenon, <2>1, <1>6, VotesOut
  <2>3. Released(s, x.block, x.round, y.round)
    BY Zenon, <1>2, <1>6, <2>1 DEF PrecommitKept
  <2> QED BY <2>2, <2>3, <1>3, ReleasedGrows
<1> QED BY Zenon, <1>4, <1>5, <1>6 DEF PrecommitKept

\* A set of natural numbers has a least element: the form of induction used here.
LEMMA MinNat ==
  ASSUME NEW T \in SUBSET Nat, T # {}
  PROVE  \E x \in T : \A y \in T : x <= y
<1>1. PICK x \in T : \A y \in T : ~ (<<y, x>> \in OpToRel(<, Nat))
  BY NatLessThanWellFounded, WFMin, Zenon
<1>2. \A y \in T : ~ (y < x)
  BY <1>1, Zenon DEF OpToRel
<1> QED BY <1>2

\* CommitInv with the step as a number.
LEMMA CommitInvMeans ==
  ASSUME NEW s, NEW M
  PROVE  CommitInv(s, M) <=>
         /\ s.step = 8 => s.commitRound <= s.round
         /\ s.commitRound > -1 \/ s.step = 8 => HasMajority(s.precommits, s.commitRound)
         /\ \A c \in s.committed : CommitIsSound(c, M)
BY Zenon DEF CommitInv, RoundStepCommit

\* Two handlers that go on, one after the other, go on.
LEMMA OnwardTrans ==
  ASSUME NEW s, NEW t, NEW u, Placed(s), Placed(t), Placed(u),
         s.commitRound \in Int, t.commitRound \in Int, Onward(s, t), Onward(t, u)
  PROVE  Onward(s, u)
<1>1. VotesGo(s, u)
  <2>1. s.out \subseteq u.out /\ s.committed \subseteq u.committed
    BY Zenon DEF Onward, VotesGo
  <2>2. ASSUME NEW m \in u.out, IsVote(m), m \notin s.out
        PROVE  Ahead(m, s)
    <3>1. CASE m \in t.out
      BY Zenon, <2>2, <3>1 DEF Onward, VotesGo
    <3>2. CASE Ahead(m, t)
      <4>1. /\ t.height = s.height /\ s.round <= t.round
            /\ s.round = t.round => s.step <= t.step \/ (s.step = 8 /\ t.step = 7)
        BY Zenon DEF Onward
      <4> QED BY <3>2, <4>1 DEF Ahead, Placed, StepNumber
    <3> QED BY Zenon, <2>2, <3>1, <3>2 DEF Onward, VotesGo
  <2> QED BY Zenon, <2>1, <2>2 DEF VotesGo
<1> QED BY <1>1 DEF Onward, Placed, StepNumber

\* The same with the timer: several enter functions run in one handler.
LEMMA MovesTrans ==
  ASSUME NEW s, NEW t, NEW u, Placed(s), Placed(t), Placed(u),
         s.commitRound \in Int, t.commitRound \in Int, Moves(s, t), Moves(t, u)
  PROVE  Moves(s, u)
<1>1. Onward(s, u)
  BY Zenon, OnwardTrans DEF Moves
<1>2. TimerGoes(s, u)
  <2>1. CASE u.step = 8 \/ TimerAt(u, u.height, u.round, u.step)
    BY Zenon, <2>1 DEF TimerGoes
  <2>2. CASE u.round = t.round /\ u.step = t.step /\ u.ti = t.ti /\ u.armed = t.armed
    <3>1. u.height = t.height
      BY Zenon DEF Moves, Onward
    <3>2. TimerAt(t, t.height, t.round, t.step) => TimerAt(u, u.height, u.round, u.step)
      BY Zenon, <2>2, <3>1 DEF TimerAt
    <3> QED BY Zenon, <2>2, <3>2 DEF Moves, TimerGoes
  <2> QED BY Zenon, <2>1, <2>2 DEF Moves, TimerGoes
<1> QED BY Zenon, <1>1, <1>2 DEF Moves

\* A handler that returns early moves nothing.
LEMMA MovesSelf ==
  ASSUME NEW s, Placed(s)
  PROVE  Moves(s, s)
BY DEF Moves, Onward, VotesGo, TimerGoes, Placed, StepNumber

\* What TypeInv says of the numbers of a core.
LEMMA CoreInvTypes ==
  ASSUME NEW s, TypeInv(s)
  PROVE  /\ DOMAIN s = CoreFields
         /\ Placed(s) /\ TimerOK(s) /\ s.height \in Nat \ {0} /\ s.round \in Nat
         /\ s.step \in {1, 3, 4, 5, 6, 7, 8}
         /\ s.address \in 0 .. N - 1 /\ s.commitRound \in Int
         /\ s.lockedRound \in Int /\ s.validRound \in Int
BY Zenon DEF TypeInv, Placed, StepNumber, TimerOK

\* An early return goes nowhere.
LEMMA GoesSelf ==
  ASSUME NEW s, NEW M, CoreInv(s, M)
  PROVE  Goes(s, s, M)
<1>1. TypeInv(s)
  BY Zenon DEF CoreInv
<1> QED BY Zenon, <1>1, CoreInvTypes, MovesSelf DEF Goes

\* Division with remainder is unique.
LEMMA ModUnique ==
  ASSUME NEW a \in Int, NEW n \in Nat \ {0}, NEW q \in Int, NEW r \in 0 .. n - 1, a = n * q + r
  PROVE  a % n = r
OBVIOUS

\* A remainder may be taken before an addition.
LEMMA ModAdd ==
  ASSUME NEW a \in Nat, NEW d \in Nat, NEW n \in Nat \ {0}
  PROVE  ((a % n) + d) % n = (a + d) % n
<1> DEFINE b == (a % n) + d
<1>1. a \div n \in Int /\ a = n * (a \div n) + (a % n) /\ a % n \in 0 .. n - 1
  OBVIOUS
<1>2. b \in Nat
  BY <1>1
<1>3. b \div n \in Int /\ b = n * (b \div n) + (b % n) /\ b % n \in 0 .. n - 1
  BY <1>2
<1>4. n * (a \div n) + n * (b \div n) = n * ((a \div n) + (b \div n))
  BY <1>1, <1>3
<1>5. a + d = n * ((a \div n) + (b \div n)) + (b % n)
  BY <1>1, <1>2, <1>3, <1>4
<1>6. (a \div n) + (b \div n) \in Int
  BY <1>1, <1>3
<1>7. (a + d) % n = b % n
  <2> DEFINE c == a + d
             q == (a \div n) + (b \div n)
             r == b % n
  <2>1. c \in Int /\ q \in Int /\ r \in 0 .. n - 1 /\ c = n * q + r
    BY <1>3, <1>5, <1>6
  <2> HIDE DEF c, q, r
  <2>2. c % n = r
    BY Zenon, <2>1, ModUnique
  <2> QED BY Zenon, <2>2 DEF c, r
<1> QED BY Zenon, <1>7 DEF b

\* enterPropose sends at most one message, a proposal of its round.
LEMMA ProposeEffect ==
  ASSUME NEW u, DOMAIN u = CoreFields, u.validRound \in Int,
         u.block # Nil => u.block.number \in Nat,
         u.validRound # -1 => u.validBlock.number \in Nat,
         NEW r \in Nat, NEW t, t = ProposeIfProposer(u, r)
  PROVE  /\ DOMAIN t = CoreFields /\ Same(u, t, {"savedMsg", "out"})
         /\ \/ t = u
            \/ \E m : /\ IsStored(m) /\ m.type = "propose" /\ m.from = u.address /\ m.round = r
                      /\ t.out = u.out \cup {m} /\ t.savedMsg = storeSentMsg(u.savedMsg, m)
<1>1. CASE t = u
  BY Zenon, <1>1 DEF Same
<1>2. CASE t # u
  <2> DEFINE p == defaultDecideProposal(u, r)
             m == [type |-> "propose", from |-> u.address, number |-> p.block.number,
                   round |-> p.round, block |-> p.block, polRound |-> p.polRound]
  <2>1. t = Send(u, m) /\ p # Nil
    BY Zenon, <1>2 DEF ProposeIfProposer, SendPropose
  <2>2. p.round = r /\ p.polRound \in Int /\ p.block.number \in Nat
    <3>1. CASE u.validRound # -1
      <4>1. p = [block |-> u.validBlock, round |-> r, polRound |-> u.validRound]
        BY Zenon, <3>1 DEF defaultDecideProposal
      <4> HIDE DEF p
      <4> QED BY Zenon, <3>1, <4>1
    <3>2. CASE u.validRound = -1
      <4>1. u.block # Nil /\ p = [block |-> u.block, round |-> r, polRound |-> -1]
        BY Zenon, <2>1, <3>2 DEF defaultDecideProposal
      <4> HIDE DEF p
      <4> QED BY <4>1
    <3> QED BY Zenon, <3>1, <3>2
  <2> HIDE DEF p
  <2>3. /\ m.type = "propose" /\ m.from = u.address /\ m.round = r /\ m.number = p.block.number
        /\ m.block = p.block /\ m.polRound = p.polRound
    BY Zenon, <2>2
  <2> HIDE DEF m
  <2>4. IsStored(m)
    BY <2>2, <2>3 DEF IsStored
  <2>5. DOMAIN t = CoreFields /\ t.out = u.out \cup {m} /\ t.savedMsg = storeSentMsg(u.savedMsg, m)
    BY Zenon, <2>1 DEF Send, CoreFields
  <2>6. Same(u, t, {"savedMsg", "out"})
    BY <2>1, Zenon DEF Send, CoreFields, Same
  <2> QED BY Zenon, <2>3, <2>4, <2>5, <2>6
<1> QED BY Zenon, <1>1, <1>2

\* Sending a proposal of round r, at or before the step Propose of that round,
\* keeps the sent messages and the store in order.
LEMMA ProposalKept ==
  ASSUME NEW s, NEW t, TypeInv(s), OutInv(s), StoreInv(s), Placed(t), Later(s, t),
         t.height = s.height, t.address = s.address, NEW r \in Nat, NotAfter(r, 3, t),
         s.round < r \/ (s.round = r /\ s.step <= 3),
         \/ t.out = s.out /\ t.savedMsg = s.savedMsg
         \/ \E m : /\ IsStored(m) /\ m.type = "propose" /\ m.from = s.address /\ m.round = r
                   /\ t.out = s.out \cup {m} /\ t.savedMsg = storeSentMsg(s.savedMsg, m)
  PROVE  OutInv(t) /\ StoreInv(t) /\ (\A x \in t.out : IsVote(x) => x \in s.out)
<1>1. Placed(s) /\ s.round \in Nat /\ s.step \in {1, 3, 4, 5, 6, 7, 8}
  BY Zenon, CoreInvTypes
<1>2. CASE t.out = s.out /\ t.savedMsg = s.savedMsg
  <2>1. OutInv(t)
    BY Zenon, <1>1, <1>2, OutKept
  <2>2. StoreInv(t)
    BY Zenon, <1>1, <1>2, StoreKept
  <2> QED BY <1>2, <2>1, <2>2
<1>3. ASSUME NEW m, IsStored(m), m.type = "propose", m.from = s.address, m.round = r,
             t.out = s.out \cup {m}, t.savedMsg = storeSentMsg(s.savedMsg, m)
      PROVE  OutInv(t) /\ StoreInv(t) /\ (\A x \in t.out : IsVote(x) => x \in s.out)
  <2>1. IsMessage(m) /\ ~ IsVote(m) /\ StepOf(m) = 3 /\ Repeats(m, s.out)
    BY Zenon, <1>3, StepOfType DEF IsMessage, IsVote, Repeats
  <2>2. OutInv(t)
    BY Zenon, <1>1, <1>3, <2>1, OutKept
  <2>3. ASSUME NEW k \in 1 .. Len(s.savedMsg)
        PROVE  Ordered(s.savedMsg[k], m)
    <3> DEFINE q == s.savedMsg[k]
    <3>1. IsStored(q) /\ NotAfter(q.round, StepOf(q), s)
      BY Zenon, StoreInvMeans
    <3> HIDE DEF q
    <3>2. q.round \in Int /\ StepOf(q) \in {3, 4, 6} /\ (StepOf(q) = 3 => q.type = "propose")
      BY <3>1, StepOfType DEF IsStored
    <3>3. q.round < r \/ (q.round = r /\ StepOf(q) = 3)
      BY <1>1, <3>1, <3>2 DEF NotAfter
    <3>4. Ordered(q, m)
      BY Zenon, <1>3, <3>2, <3>3 DEF Ordered
    <3> QED BY Zenon, <3>4 DEF q
  <2>4. StoreInv(t)
    BY <1>1, <1>3, <2>1, <2>3, StoreAdded
  <2> QED BY Zenon, <1>3, <2>1, <2>2, <2>4
<1> QED BY Zenon, <1>2, <1>3

\* What t keeps of s when only votes, proposals, blocks and locks change.
Still(s, t) ==
  /\ t.address = s.address /\ t.height = s.height /\ t.round = s.round /\ t.step = s.step
  /\ t.precommitWaited = s.precommitWaited /\ t.commitRound = s.commitRound
  /\ t.proposer = s.proposer /\ t.savedMsg = s.savedMsg /\ t.out = s.out
  /\ t.ti = s.ti /\ t.armed = s.armed /\ t.late = s.late /\ t.panicked = s.panicked

\* A handler that adds votes, or changes proposals, blocks and locks, and leaves
\* the place of the core alone, keeps the invariant.
LEMMA StillKeeps ==
  ASSUME NEW s, NEW M, CoreInv(s, M), NEW t, DOMAIN t = CoreFields, Still(s, t),
         t.draining \in BOOLEAN, t.lockedRound \in Int, t.validRound \in Int,
         AreVotes(t.prevotes), AreVotes(t.precommits),
         s.prevotes \subseteq t.prevotes, s.precommits \subseteq t.precommits,
         BlockInv(t), ReceivedInv(t, M), LockIsSound(t),
         \A b, r0 : s.lockedBlock = b /\ s.lockedRound >= r0 /\ b # Nil /\ r0 \in Nat =>
           LockHeld(t, b, r0),
         s.committed \subseteq t.committed,
         \A c \in t.committed : CommitIsSound(c, M)
  PROVE  CoreInv(t, M) /\ Moves(s, t)
<1>1. /\ TypeInv(s) /\ ProposerInv(s) /\ BlockInv(s) /\ ReceivedInv(s, M)
      /\ OutInv(s) /\ StoreInv(s) /\ TimeInv(s) /\ LockInv(s) /\ CommitInv(s, M)
  BY Zenon DEF CoreInv
<1>2. /\ Placed(s) /\ TimerOK(s) /\ s.height \in Nat \ {0} /\ s.round \in Nat
      /\ s.commitRound \in Int
      /\ s.step \in {1, 3, 4, 5, 6, 7, 8} /\ s.lockedRound \in Int
  BY Zenon, <1>1, CoreInvTypes
<1>3. /\ t.address = s.address /\ t.height = s.height /\ t.round = s.round /\ t.step = s.step
      /\ t.precommitWaited = s.precommitWaited /\ t.commitRound = s.commitRound
      /\ t.proposer = s.proposer /\ t.savedMsg = s.savedMsg /\ t.out = s.out
      /\ t.ti = s.ti /\ t.armed = s.armed /\ t.late = s.late /\ t.panicked = s.panicked
  BY Zenon DEF Still
<1>4. Placed(t) /\ Later(s, t)
  BY <1>2, <1>3 DEF Placed, Later, StepNumber
<1>5. TypeInv(t)
  BY Zenon, <1>1, <1>3 DEF TypeInv
<1>6. ProposerInv(t)
  BY Zenon, <1>1, <1>3 DEF ProposerInv
<1>7. OutInv(t)
  BY Zenon, <1>1, <1>3 DEF OutInv, NotAfter
<1>8. StoreInv(t)
  BY <1>1, <1>2, <1>3, <1>4, StoreKept
<1>9. TimeInv(t)
  BY Zenon, <1>1, <1>3 DEF TimeInv, NotAfter
<1>10. LockInv(t)
  BY <1>1, <1>2, <1>3, <1>4, LockKept
<1>11. CommitInv(t, M)
  <2>1. HasMajority(s.precommits, s.commitRound) => HasMajority(t.precommits, s.commitRound)
    BY Zenon, MajorityGrows DEF HasMajority
  <2> QED BY Zenon, <1>1, <1>3, <2>1, CommitInvMeans
<1>12. Moves(s, t)
  BY <1>2, <1>3 DEF Moves, Onward, VotesGo, TimerGoes
<1> QED BY <1>5, <1>6, <1>7, <1>8, <1>9, <1>10, <1>11, <1>12 DEF CoreInv
-----------------------------------------------------------------------------

\* A lock that is left alone is held.
LEMMA SameLock ==
  ASSUME NEW s, NEW t, LockInv(s), t.lockedRound = s.lockedRound, t.lockedBlock = s.lockedBlock,
         t.round = s.round
  PROVE  /\ LockIsSound(t)
         /\ \A b, r0 : s.lockedBlock = b /\ s.lockedRound >= r0 /\ b # Nil /\ r0 \in Nat =>
              LockHeld(t, b, r0)
<1>1. LockIsSound(s)
  BY Zenon, LockInvMeans
<1> QED BY Zenon, <1>1 DEF LockIsSound, LockHeld

LightFields ==
  {"proposalReceived", "futureProposals", "futureMessages", "committed", "block", "draining",
   "validRound", "validBlock"}

\* A handler that leaves votes, locks and the place alone keeps the invariant.
LEMMA LightKeeps ==
  ASSUME NEW s, NEW M, CoreInv(s, M), NEW t, DOMAIN t = CoreFields, Same(s, t, LightFields),
         t.draining \in BOOLEAN, t.validRound \in Int, BlockInv(t),
         \A m \in t.futureProposals : m \in M /\ IsStored(m) /\ m.type = "propose",
         \A m \in t.futureMessages : m \in M /\ IsStored(m),
         s.committed \subseteq t.committed,
         \A c \in t.committed : CommitIsSound(c, M)
  PROVE  Goes(s, t, M) /\ t.round = s.round /\ t.step = s.step
<1>1. TypeInv(s) /\ LockInv(s) /\ ReceivedInv(s, M)
  BY Zenon DEF CoreInv
<1>2. /\ t.lockedRound = s.lockedRound /\ t.lockedBlock = s.lockedBlock /\ t.height = s.height
      /\ t.round = s.round /\ t.step = s.step
      /\ t.prevotes = s.prevotes /\ t.precommits = s.precommits
  BY Zenon DEF Same, LightFields, CoreFields
<1>3. Still(s, t)
  BY Zenon DEF Still, Same, LightFields, CoreFields
<1>4. AreVotes(t.prevotes) /\ AreVotes(t.precommits) /\ t.lockedRound \in Int
  BY Zenon, <1>1, <1>2 DEF TypeInv
<1>5. ReceivedInv(t, M)
  BY Zenon, <1>1, <1>2 DEF ReceivedInv
<1>6. /\ LockIsSound(t)
      /\ \A b, r0 : s.lockedBlock = b /\ s.lockedRound >= r0 /\ b # Nil /\ r0 \in Nat =>
           LockHeld(t, b, r0)
  BY Zenon, <1>1, <1>2, SameLock
<1>7. CoreInv(t, M) /\ Moves(s, t)
  BY <1>2, <1>3, <1>4, <1>5, <1>6, StillKeeps
<1> QED BY Zenon, <1>2, <1>7 DEF Goes

\* What LightKeeps asks for holds of s.
LEMMA LightSelf ==
  ASSUME NEW s, NEW M, CoreInv(s, M)
  PROVE  /\ DOMAIN s = CoreFields /\ s.draining \in BOOLEAN /\ s.validRound \in Int
         /\ BlockInv(s)
         /\ \A m \in s.futureProposals : m \in M /\ IsStored(m) /\ m.type = "propose"
         /\ \A m \in s.futureMessages : m \in M /\ IsStored(m)
         /\ \A c \in s.committed : CommitIsSound(c, M)
<1>1. TypeInv(s) /\ BlockInv(s) /\ ReceivedInv(s, M) /\ CommitInv(s, M)
  BY Zenon DEF CoreInv
<1> QED BY Zenon, <1>1, CommitInvMeans DEF TypeInv, ReceivedInv

\* Works is transitive.
LEMMA WorksTrans ==
  ASSUME NEW s, NEW t, NEW u, NEW M, CoreInv(s, M), Works(s, t, M), Works(t, u, M)
  PROVE  Works(s, u, M)
<1>1. TypeInv(s) /\ TypeInv(t) /\ TypeInv(u)
  BY Zenon DEF Works, CoreInv
<1>2. Placed(s) /\ Placed(t) /\ Placed(u) /\ s.commitRound \in Int /\ t.commitRound \in Int
  BY Zenon, <1>1, CoreInvTypes
<1> QED BY Zenon, <1>2, MovesTrans DEF Works
-----------------------------------------------------------------------------
(***************************************************************************)
(* What goes on beside the steps of a round keeps the invariant of a core: *)
(* the requests to catch up, the timer, a block of the miner, the event of *)
(* a final commit with the jump to a later height, Start and Stop.         *)
(***************************************************************************)

\* Sending something else than a vote keeps the invariant.
LEMMA SendKeeps ==
  ASSUME NEW s, NEW M, CoreInv(s, M), NEW t, DOMAIN t = CoreFields, Same(s, t, {"out"}),
         s.out \subseteq t.out,
         \A m \in t.out :
           \/ m \in s.out
           \/ IsMessage(m) /\ ~ IsVote(m) /\ m.from = s.address /\ Repeats(m, s.out)
  PROVE  Works(s, t, M)
<1>1. /\ TypeInv(s) /\ ProposerInv(s) /\ BlockInv(s) /\ ReceivedInv(s, M)
      /\ OutInv(s) /\ StoreInv(s) /\ TimeInv(s) /\ LockInv(s) /\ CommitInv(s, M)
  BY Zenon DEF CoreInv
<1>2. /\ Placed(s) /\ s.height \in Nat \ {0} /\ s.round \in Nat /\ s.commitRound \in Int
      /\ s.step \in {1, 3, 4, 5, 6, 7, 8} /\ s.lockedRound \in Int
  BY Zenon, <1>1, CoreInvTypes
<1>3. /\ t.address = s.address /\ t.height = s.height /\ t.round = s.round /\ t.step = s.step
      /\ t.block = s.block /\ t.validRound = s.validRound /\ t.validBlock = s.validBlock
      /\ t.lockedRound = s.lockedRound /\ t.lockedBlock = s.lockedBlock
      /\ t.proposalReceived = s.proposalReceived
      /\ t.prevotes = s.prevotes /\ t.precommits = s.precommits /\ t.commitRound = s.commitRound
      /\ t.proposer = s.proposer /\ t.precommitWaited = s.precommitWaited
      /\ t.futureProposals = s.futureProposals /\ t.futureMessages = s.futureMessages
      /\ t.draining = s.draining /\ t.committed = s.committed /\ t.panicked = s.panicked
      /\ t.savedMsg = s.savedMsg /\ t.ti = s.ti /\ t.armed = s.armed /\ t.late = s.late
  BY Zenon DEF Same, CoreFields
<1>4. Placed(t) /\ Later(s, t)
  BY <1>2, <1>3 DEF Placed, Later, StepNumber
<1>5. TypeInv(t)
  BY Zenon, <1>1, <1>3 DEF TypeInv
<1>6. ProposerInv(t)
  BY Zenon, <1>1, <1>3 DEF ProposerInv
<1>7. BlockInv(t)
  BY Zenon, <1>1, <1>3 DEF BlockInv
<1>8. ReceivedInv(t, M)
  BY Zenon, <1>1, <1>3 DEF ReceivedInv
<1>9. OutInv(t)
  BY Zenon, <1>1, <1>2, <1>3, <1>4, OutKept
<1>10. \A m \in t.out : IsVote(m) => m \in s.out
  BY Zenon
<1>11. StoreInv(t)
  BY Zenon, <1>1, <1>2, <1>3, <1>4, <1>10, StoreKept
<1>12. TimeInv(t)
  BY Zenon, <1>1, <1>3 DEF TimeInv, NotAfter
<1>13. LockInv(t)
  <2>1. /\ LockIsSound(t)
        /\ \A b, r0 : s.lockedBlock = b /\ s.lockedRound >= r0 /\ b # Nil /\ r0 \in Nat =>
             LockHeld(t, b, r0)
    BY Zenon, <1>1, <1>3, SameLock
  <2> QED BY <1>1, <1>2, <1>3, <1>4, <1>10, <2>1, LockKept
<1>14. CommitInv(t, M)
  BY Zenon, <1>1, <1>3 DEF CommitInv
<1>15. Moves(s, t)
  BY <1>2, <1>3, <1>10 DEF Moves, Onward, VotesGo, TimerGoes
<1> QED BY Zenon, <1>5, <1>6, <1>7, <1>8, <1>9, <1>11, <1>12, <1>13, <1>14, <1>15 DEF Works, CoreInv

\* A lookup in the store of sent messages returns messages of the store.
LEMMA StoredFromIs ==
  ASSUME NEW S, NEW q \in Seq(S), NEW step, NEW r
  PROVE  StoredFrom(q, step, r) \in Seq(S)
<1> DEFINE After(m) == m.round > r \/ (m.round = r /\ StepOf(m) >= step)
           hits == { i \in 1 .. Len(q) : After(q[i]) }
           first == CHOOSE i \in hits : \A j \in hits : i <= j
<1>1. StoredFrom(q, step, r) = IF hits = {} THEN <<>> ELSE SubSeq(q, first, Len(q))
  BY Zenon DEF StoredFrom
<1>2. CASE hits = {}
  BY <1>1, <1>2
<1>3. CASE hits # {}
  <2>0. hits \in SUBSET Nat /\ hits \subseteq 1 .. Len(q)
    OBVIOUS
  <2> HIDE DEF hits
  <2>1. \E i \in hits : \A j \in hits : i <= j
    BY Zenon, <1>3, <2>0, MinNat
  <2>2. first \in hits
    BY Zenon, <2>1
  <2> HIDE DEF first
  <2>3. first \in 1 .. Len(q) /\ Len(q) \in Nat
    BY <2>0, <2>2
  <2>4. \A i \in first .. Len(q) : q[i] \in S
    BY <2>3
  <2>5. SubSeq(q, first, Len(q)) \in Seq(S)
    BY <2>3, <2>4
  <2> QED BY Zenon, <1>1, <1>3, <2>5
<1> QED BY Zenon, <1>2, <1>3

\* The batches of a catch-up reply are made of messages of the store.
LEMMA BatchesAre ==
  ASSUME NEW S, NEW q \in Seq(S), NEW b \in Batches(q)
  PROVE  b \in Seq(S)
<1>1. PICK i \in 1 .. Len(q) :
        b = SubSeq(q, i, IF i + catchUpReplyBatchSize - 1 <= Len(q)
                         THEN i + catchUpReplyBatchSize - 1 ELSE Len(q))
  BY Zenon DEF Batches
<1> DEFINE e == IF i + catchUpReplyBatchSize - 1 <= Len(q)
                THEN i + catchUpReplyBatchSize - 1 ELSE Len(q)
<1>2. e \in Int /\ e <= Len(q) /\ i \in Int /\ i >= 1
  BY DEF catchUpReplyBatchSize
<1>3. b = SubSeq(q, i, e)
  BY Zenon, <1>1
<1> HIDE DEF e
<1>4. \A k \in i .. e : q[k] \in S
  BY <1>2
<1> QED BY <1>2, <1>3, <1>4

\* What the store holds are messages it has sent.
LEMMA StoreHolds ==
  ASSUME NEW s, StoreInv(s)
  PROVE  s.savedMsg \in Seq({ m \in s.out : IsStored(m) })
<1>1. s.savedMsg \in Seq(s.out) /\ \A k \in 1 .. Len(s.savedMsg) : IsStored(s.savedMsg[k])
  BY Zenon DEF StoreInv
<1> QED BY <1>1

\* sendCatchUpRequest keeps the invariant.
LEMMA SendCatchUpRequestOK ==
  ASSUME NEW s, NEW M, CoreInv(s, M), NEW t, t = sendCatchUpRequest(s)
  PROVE  Works(s, t, M) /\ Same(s, t, {"out"})
<1>1. TypeInv(s) /\ StoreInv(s)
  BY Zenon DEF CoreInv
<1>2. DOMAIN s = CoreFields /\ s.height \in Nat /\ s.round \in Nat /\ s.step \in Nat
  BY <1>1, CoreInvTypes
<1> DEFINE votes == IF s.step = RoundStepPrevote THEN s.prevotes ELSE s.precommits
           missing == MissingVotes(votes, s.round)
           stored == StoredFrom(s.savedMsg, s.step, s.round)
           others == missing \ {s.address}
           request == [type |-> "catchUpRequest", from |-> s.address, to |-> others,
                       number |-> s.height, round |-> s.round, step |-> s.step]
           again == IF s.address \in missing /\ stored # <<>> THEN {stored[1]} ELSE {}
           new == s.out \cup again \cup IF others = {} THEN {} ELSE {request}
<1>3. t = [s EXCEPT !.out = new]
  BY Zenon DEF sendCatchUpRequest
<1>4. again \subseteq s.out
  <2>1. stored \in Seq({ m \in s.out : IsStored(m) })
    BY Zenon, <1>1, StoreHolds, StoredFromIs
  <2> HIDE DEF stored
  <2>2. stored # <<>> => stored[1] \in s.out
    BY <2>1
  <2> QED BY Zenon, <2>2
<1>5. /\ IsMessage(request) /\ ~ IsVote(request) /\ request.from = s.address
      /\ Repeats(request, s.out)
  <2>1. /\ request.type = "catchUpRequest" /\ request.number = s.height
        /\ request.round = s.round
        /\ request.step = s.step /\ request.from = s.address
    BY Zenon
  <2> HIDE DEF request
  <2> QED BY <1>2, <2>1 DEF IsMessage, IsVote, Repeats
<1>6. s.out \subseteq new /\ \A m \in new : m \in s.out \/ m = request
  <2> HIDE DEF again, others, request
  <2> QED BY Zenon, <1>4
<1> HIDE DEF new, request
<1>7. DOMAIN t = CoreFields /\ Same(s, t, {"out"}) /\ t.out = new
  BY Zenon, <1>2, <1>3 DEF CoreFields, Same
<1> QED BY Zenon, <1>5, <1>6, <1>7, SendKeeps

\* handleCatchupRequest keeps the invariant: a reply repeats what was sent.
LEMMA HandleCatchupRequestOK ==
  ASSUME NEW s, NEW M, CoreInv(s, M), NEW m, NEW t, t = handleCatchupRequest(s, m)
  PROVE  Works(s, t, M)
<1>1. TypeInv(s) /\ StoreInv(s)
  BY Zenon DEF CoreInv
<1>2. DOMAIN s = CoreFields /\ s.height \in Nat
  BY Zenon, <1>1, CoreInvTypes
<1>3. CASE t = s
  BY Zenon, <1>3, GoesSelf DEF Goes, Works
<1>4. CASE t # s
  <2> DEFINE stored == StoredFrom(s.savedMsg, m.step, m.round)
             Reply(b) == [type |-> "catchUpReply", from |-> s.address,
                          to |-> {m.from}, number |-> s.height, payloads |-> b]
             replies == { Reply(b) : b \in Batches(stored) }
             new == s.out \cup replies
  <2>1. t = [s EXCEPT !.out = new]
    BY Zenon, <1>4 DEF handleCatchupRequest
  <2>2. stored \in Seq({ x \in s.out : IsStored(x) })
    BY Zenon, <1>1, StoreHolds, StoredFromIs
  <2>3. ASSUME NEW x \in replies
        PROVE  IsMessage(x) /\ ~ IsVote(x) /\ x.from = s.address /\ Repeats(x, s.out)
    <3>1. PICK b \in Batches(stored) : x = Reply(b)
      BY Zenon
    <3> HIDE DEF stored
    <3>2. b \in Seq({ y \in s.out : IsStored(y) })
      BY Zenon, <2>2, BatchesAre
    <3>3. /\ x.type = "catchUpReply" /\ x.number = s.height /\ x.payloads = b
          /\ x.from = s.address
      BY Zenon, <3>1
    <3>4. /\ b \in Seq({ b[k] : k \in DOMAIN b })
          /\ \A k \in DOMAIN b : IsStored(b[k]) /\ b[k] \in s.out
      BY <3>2
    <3> QED BY Zenon, <1>2, <3>3, <3>4 DEF IsMessage, IsVote, Repeats
  <2> HIDE DEF replies
  <2>4. s.out \subseteq new /\ \A x \in new : x \in s.out \/ x \in replies
    BY Zenon
  <2> HIDE DEF new
  <2>5. DOMAIN t = CoreFields /\ Same(s, t, {"out"}) /\ t.out = new
    BY Zenon, <1>2, <2>1 DEF CoreFields, Same
  <2> QED BY Zenon, <2>3, <2>4, <2>5, SendKeeps
<1> QED BY Zenon, <1>3, <1>4

\* A handler of a message runs.
LEMMA WorksRuns ==
  ASSUME NEW s, NEW t, NEW M, Works(s, t, M)
  PROVE  Runs(s, t, M)
BY Zenon DEF Works, Runs, Moves, Onward, TimerGoes, Timed, TimerAt

\* The invariant is kept where only the timer changes.
LEMMA TimerKeeps ==
  ASSUME NEW s, NEW M, CoreInv(s, M), NEW t, DOMAIN t = CoreFields, Same(s, t, Timer),
         TimerOK(t), TimeInv(t)
  PROVE  CoreInv(t, M) /\ Onward(s, t)
<1>1. /\ TypeInv(s) /\ ProposerInv(s) /\ BlockInv(s) /\ ReceivedInv(s, M)
      /\ OutInv(s) /\ StoreInv(s) /\ LockInv(s) /\ CommitInv(s, M)
  BY Zenon DEF CoreInv
<1>2. /\ Placed(s) /\ s.height \in Nat \ {0} /\ s.round \in Nat /\ s.commitRound \in Int
      /\ s.step \in {1, 3, 4, 5, 6, 7, 8}
  BY Zenon, <1>1, CoreInvTypes
<1>3. /\ t.address = s.address /\ t.height = s.height /\ t.round = s.round /\ t.step = s.step
      /\ t.block = s.block /\ t.validRound = s.validRound /\ t.validBlock = s.validBlock
      /\ t.lockedRound = s.lockedRound /\ t.lockedBlock = s.lockedBlock
      /\ t.proposalReceived = s.proposalReceived
      /\ t.prevotes = s.prevotes /\ t.precommits = s.precommits /\ t.commitRound = s.commitRound
      /\ t.proposer = s.proposer /\ t.precommitWaited = s.precommitWaited
      /\ t.futureProposals = s.futureProposals /\ t.futureMessages = s.futureMessages
      /\ t.draining = s.draining /\ t.committed = s.committed /\ t.panicked = s.panicked
      /\ t.savedMsg = s.savedMsg /\ t.out = s.out
  BY Zenon DEF Same, CoreFields, Timer
<1>5. TypeInv(t)
  BY Zenon, <1>1, <1>3 DEF TypeInv, TimerOK
<1>6. ProposerInv(t)
  BY Zenon, <1>1, <1>3 DEF ProposerInv
<1>7. BlockInv(t)
  BY Zenon, <1>1, <1>3 DEF BlockInv
<1>8. ReceivedInv(t, M)
  BY Zenon, <1>1, <1>3 DEF ReceivedInv
<1>9. OutInv(t)
  BY Zenon, <1>1, <1>3 DEF OutInv, NotAfter
<1>11. StoreInv(t)
  <2>1. Placed(t) /\ Later(s, t)
    BY <1>2, <1>3 DEF Placed, Later, StepNumber
  <2> QED BY Zenon, <1>1, <1>2, <1>3, <2>1, StoreKept
<1>13. LockInv(t)
  BY <1>1, <1>3 DEF LockInv, Released
<1>14. CommitInv(t, M)
  BY Zenon, <1>1, <1>3 DEF CommitInv
<1>15. Onward(s, t)
  BY <1>2, <1>3 DEF Onward, VotesGo
<1> QED BY Zenon, <1>5, <1>6, <1>7, <1>8, <1>9, <1>11, <1>13, <1>14, <1>15 DEF CoreInv

\* A timeout leaves the timer, or the channel it was late in.
LEMMA TakeTimeoutOK ==
  ASSUME NEW s, NEW M, CoreInv(s, M), NEW x, NEW t, t = TakeTimeout(s, x)
  PROVE  /\ CoreInv(t, M) /\ Onward(s, t) /\ t.height = s.height /\ t.round = s.round
         /\ t.step = s.step
         /\ t.ti = s.ti /\ (x # s.ti => t.armed = s.armed)
<1>1. TypeInv(s) /\ TimeInv(s)
  BY Zenon DEF CoreInv
<1>2. DOMAIN s = CoreFields /\ TimerOK(s)
  BY Zenon, <1>1, CoreInvTypes
<1>3. /\ DOMAIN t = CoreFields /\ Same(s, t, Timer) /\ t.ti = s.ti
      /\ t.armed \in BOOLEAN /\ t.late \subseteq s.late /\ (x # s.ti => t.armed = s.armed)
  <2>1. CASE x = s.ti
    <3>1. t = [s EXCEPT !.armed = FALSE]
      BY Zenon, <2>1 DEF TakeTimeout
    <3> QED BY <1>2, <2>1, <3>1, Zenon DEF CoreFields, Same, Timer
  <2>2. CASE x # s.ti
    <3> DEFINE l == s.late \ {x}
    <3>1. t = [s EXCEPT !.late = l]
      BY Zenon, <2>2 DEF TakeTimeout
    <3>2. l \subseteq s.late
      BY Zenon
    <3> HIDE DEF l
    <3> QED BY Zenon, <1>2, <2>2, <3>1, <3>2 DEF CoreFields, Same, Timer, TimerOK
  <2> QED BY Zenon, <2>1, <2>2
<1>4. /\ t.height = s.height /\ t.round = s.round /\ t.step = s.step
      /\ t.precommitWaited = s.precommitWaited
  BY Zenon, <1>3 DEF Same, CoreFields, Timer
<1>5. TimerOK(t)
  BY Zenon, <1>2, <1>3 DEF TimerOK
<1>6. TimeInv(t)
  BY Zenon, <1>1, <1>3, <1>4 DEF TimeInv, NotAfter
<1> QED BY Zenon, <1>3, <1>4, <1>5, <1>6, TimerKeeps

\* ScheduleTimeout for where the core is.
LEMMA ScheduleOK ==
  ASSUME NEW s, NEW M, CoreInv(s, M), s.step # 8, NEW retry \in Nat,
         NEW t, t = ScheduleTimeout(s, s.round, s.step, retry)
  PROVE  /\ CoreInv(t, M) /\ Onward(s, t) /\ t.height = s.height /\ t.round = s.round
         /\ t.step = s.step
         /\ t.out = s.out /\ t.committed = s.committed
         /\ TimerAt(t, s.height, s.round, s.step) \/ (t.ti = s.ti /\ t.armed = s.armed)
         /\ s.ti.number < s.height => TimerAt(t, s.height, s.round, s.step)
         /\ (/\ retry > s.ti.retry /\ s.ti.number = s.height
             /\ s.ti.round = s.round /\ s.ti.step = s.step) =>
              TimerAt(t, s.height, s.round, s.step)
<1>1. TypeInv(s) /\ TimeInv(s)
  BY Zenon DEF CoreInv
<1>2. /\ DOMAIN s = CoreFields /\ TimerOK(s) /\ s.height \in Nat /\ s.round \in Nat
      /\ s.step \in {1, 3, 4, 5, 6, 7} /\ Placed(s)
  BY Zenon, <1>1, CoreInvTypes
<1>3. /\ DOMAIN t = CoreFields /\ Same(s, t, Timer) /\ TimerOK(t)
      /\ TimerSet(s, t, s.round, s.step)
      /\ Fresh(s, s.round, s.step) => TimerAt(t, s.height, s.round, s.step)
  <2> DEFINE r == s.round
             w == s.step
  <2>1. r \in Nat /\ w \in {1, 3, 4, 5, 6, 7} /\ t = ScheduleTimeout(s, r, w, retry)
    BY Zenon, <1>2
  <2> HIDE DEF r, w
  <2>2. /\ DOMAIN t = CoreFields /\ Same(s, t, Timer) /\ TimerOK(t)
        /\ TimerSet(s, t, r, w)
        /\ Fresh(s, r, w) => TimerAt(t, s.height, r, w)
    BY <1>2, <2>1, ScheduleEffect
  <2> QED BY Zenon, <2>2 DEF r, w
<1>4. /\ t.height = s.height /\ t.round = s.round /\ t.step = s.step
      /\ t.precommitWaited = s.precommitWaited /\ t.out = s.out /\ t.committed = s.committed
  BY Zenon, <1>3 DEF Same, CoreFields, Timer
<1>5. Placed(t) /\ Later(s, t) /\ NotAfter(s.round, s.step, t)
  BY <1>2, <1>4 DEF Placed, Later, NotAfter, StepNumber
<1>6. s.step = 7 => s.precommitWaited
  BY Zenon, <1>1 DEF TimeInv, RoundStepPrecommitWait
<1>7. TimeInv(t)
  BY Zenon, <1>1, <1>2, <1>3, <1>4, <1>5, <1>6, TimeKept
<1>8. CoreInv(t, M) /\ Onward(s, t)
  BY Zenon, <1>3, <1>7, TimerKeeps
<1> DEFINE newti == [number |-> s.height, round |-> s.round, step |-> s.step, retry |-> retry]
           L == { x \in IF s.armed THEN s.late \cup {s.ti} ELSE s.late :
                    x.number = s.height /\ x.round = s.round /\ x.step = s.step }
<1>9. t = IF earlierOrEqual(newti, s.ti) THEN s
          ELSE [s EXCEPT !.ti = newti, !.armed = TRUE, !.late = L]
  BY Zenon DEF ScheduleTimeout
<1> HIDE DEF L
<1>10. ~ earlierOrEqual(newti, s.ti) => TimerAt(t, s.height, s.round, s.step)
  <2>1. ASSUME ~ earlierOrEqual(newti, s.ti)
        PROVE  TimerAt(t, s.height, s.round, s.step)
    <3>1. t = [s EXCEPT !.ti = newti, !.armed = TRUE, !.late = L]
      BY Zenon, <1>9, <2>1
    <3>2. t.ti = newti /\ t.armed
      BY Zenon, <1>2, <3>1 DEF CoreFields
    <3> QED BY <3>2 DEF TimerAt
  <2> QED BY Zenon, <2>1
<1>11. earlierOrEqual(newti, s.ti) => t.ti = s.ti /\ t.armed = s.armed
  BY Zenon, <1>9
<1>12. /\ newti.number = s.height /\ newti.round = s.round /\ newti.step = s.step
       /\ newti.retry = retry
  BY Zenon
<1> HIDE DEF newti
<1>13. s.ti.number < s.height => Fresh(s, s.round, s.step)
  BY Zenon DEF Fresh
<1>14. retry > s.ti.retry /\ s.ti.number = s.height /\ s.ti.round = s.round /\ s.ti.step = s.step =>
         ~ earlierOrEqual(newti, s.ti)
  BY <1>2, <1>12 DEF earlierOrEqual, TimerOK, IsTimeout
<1> QED BY Zenon, <1>3, <1>4, <1>8, <1>10, <1>11, <1>13, <1>14

\* OnwardTrans for cores within the invariant.
LEMMA OnwardOver ==
  ASSUME NEW s, NEW t, NEW u, NEW M, CoreInv(s, M), CoreInv(t, M), CoreInv(u, M),
         Onward(s, t), Onward(t, u)
  PROVE  Onward(s, u)
<1>1. TypeInv(s) /\ TypeInv(t) /\ TypeInv(u)
  BY Zenon DEF CoreInv
<1>2. Placed(s) /\ Placed(t) /\ Placed(u) /\ s.commitRound \in Int /\ t.commitRound \in Int
  BY Zenon, <1>1, CoreInvTypes
<1> QED BY Zenon, <1>2, OnwardTrans

\* A move that goes elsewhere sets the timer.
LEMMA MovedOn ==
  ASSUME NEW s, NEW t, NEW M, Works(s, t, M), t.round # s.round \/ t.step # s.step
  PROVE  Timed(t)
BY Zenon DEF Works, Moves, TimerGoes, Timed

\* enterCatchup keeps the invariant and sets the timer again.
LEMMA EnterCatchupOK ==
  ASSUME NEW s, NEW M, CoreInv(s, M), NEW x, IsTimeout(x), x.round = s.round, x.step = s.step,
         s.step # 8, x.number = s.height, NEW t, t = enterCatchup(s, x)
  PROVE  /\ CoreInv(t, M) /\ Onward(s, t)
         /\ x = s.ti => Timed(t)
         /\ Timed(s) => Timed(t)
<1> DEFINE u == ScheduleTimeout(s, s.round, s.step, x.retry + 1)
<1>1. t = sendCatchUpRequest(u)
  BY Zenon DEF enterCatchup
<1>2. x.retry \in Nat /\ x.retry + 1 \in Nat /\ x.retry + 1 > x.retry
  BY DEF IsTimeout
<1>3. /\ CoreInv(u, M) /\ Onward(s, u) /\ u.height = s.height /\ u.round = s.round
      /\ u.step = s.step
      /\ TimerAt(u, s.height, s.round, s.step) \/ (u.ti = s.ti /\ u.armed = s.armed)
      /\ (/\ x.retry + 1 > s.ti.retry /\ s.ti.number = s.height
          /\ s.ti.round = s.round /\ s.ti.step = s.step) =>
           TimerAt(u, s.height, s.round, s.step)
  BY <1>2, ScheduleOK
<1> HIDE DEF u
<1>4. Works(u, t, M)
  BY Zenon, <1>1, <1>3, SendCatchUpRequestOK
<1>5. Runs(u, t, M)
  BY Zenon, <1>4, WorksRuns
<1>6. Onward(s, t)
  BY Zenon, <1>3, <1>5, OnwardOver DEF Runs
<1>7. x = s.ti => Timed(u)
  BY Zenon, <1>2, <1>3 DEF Timed
<1>8. Timed(s) => Timed(u)
  BY Zenon, <1>3 DEF Timed, TimerAt
<1> QED BY Zenon, <1>5, <1>6, <1>7, <1>8 DEF Runs

\* A proposal sent at the step Propose keeps the invariant.
LEMMA ProposalSent ==
  ASSUME NEW s, NEW M, CoreInv(s, M), s.step = 3, NEW t, DOMAIN t = CoreFields,
         Same(s, t, {"savedMsg", "out"}),
         \E m : /\ IsStored(m) /\ m.type = "propose" /\ m.from = s.address /\ m.round = s.round
                /\ t.out = s.out \cup {m} /\ t.savedMsg = storeSentMsg(s.savedMsg, m)
  PROVE  Works(s, t, M)
<1>1. /\ TypeInv(s) /\ ProposerInv(s) /\ BlockInv(s) /\ ReceivedInv(s, M)
      /\ OutInv(s) /\ StoreInv(s) /\ TimeInv(s) /\ LockInv(s) /\ CommitInv(s, M)
  BY Zenon DEF CoreInv
<1>2. /\ Placed(s) /\ s.height \in Nat \ {0} /\ s.round \in Nat /\ s.commitRound \in Int
      /\ s.step \in {1, 3, 4, 5, 6, 7, 8} /\ s.lockedRound \in Int
  BY Zenon, <1>1, CoreInvTypes
<1>3. /\ t.address = s.address /\ t.height = s.height /\ t.round = s.round /\ t.step = s.step
      /\ t.block = s.block /\ t.validRound = s.validRound /\ t.validBlock = s.validBlock
      /\ t.lockedRound = s.lockedRound /\ t.lockedBlock = s.lockedBlock
      /\ t.proposalReceived = s.proposalReceived
      /\ t.prevotes = s.prevotes /\ t.precommits = s.precommits /\ t.commitRound = s.commitRound
      /\ t.proposer = s.proposer /\ t.precommitWaited = s.precommitWaited
      /\ t.futureProposals = s.futureProposals /\ t.futureMessages = s.futureMessages
      /\ t.draining = s.draining /\ t.committed = s.committed /\ t.panicked = s.panicked
      /\ t.ti = s.ti /\ t.armed = s.armed /\ t.late = s.late
  BY DEF Same, CoreFields
<1>4. Placed(t) /\ Later(s, t) /\ NotAfter(s.round, 3, t)
  BY <1>2, <1>3 DEF Placed, Later, StepNumber, NotAfter
<1>5. TypeInv(t)
  BY Zenon, <1>1, <1>3 DEF TypeInv
<1>6. ProposerInv(t)
  BY Zenon, <1>1, <1>3 DEF ProposerInv
<1>7. BlockInv(t)
  BY Zenon, <1>1, <1>3 DEF BlockInv
<1>8. ReceivedInv(t, M)
  BY Zenon, <1>1, <1>3 DEF ReceivedInv
<1>9. OutInv(t) /\ StoreInv(t) /\ \A x \in t.out : IsVote(x) => x \in s.out
  <2> DEFINE r == s.round
  <2>1. r \in Nat /\ s.round = r /\ s.step <= 3 /\ NotAfter(r, 3, t)
    BY <1>2, <1>4
  <2>2. \E m : /\ IsStored(m) /\ m.type = "propose" /\ m.from = s.address /\ m.round = r
               /\ t.out = s.out \cup {m} /\ t.savedMsg = storeSentMsg(s.savedMsg, m)
    BY Zenon
  <2> HIDE DEF r
  <2> QED BY Zenon, <1>1, <1>3, <1>4, <2>1, <2>2, ProposalKept
<1>12. TimeInv(t)
  BY <1>1, <1>3 DEF TimeInv, NotAfter
<1>13. LockInv(t)
  <2>1. /\ LockIsSound(t)
        /\ \A b, r0 : s.lockedBlock = b /\ s.lockedRound >= r0 /\ b # Nil /\ r0 \in Nat =>
             LockHeld(t, b, r0)
    BY Zenon, <1>1, <1>3, SameLock
  <2> QED BY <1>1, <1>2, <1>3, <1>4, <1>9, <2>1, LockKept
<1>14. CommitInv(t, M)
  BY Zenon, <1>1, <1>3 DEF CommitInv
<1>15. Moves(s, t)
  <2>1. VotesGo(s, t)
    BY Zenon, <1>3, <1>9 DEF VotesGo
  <2> QED BY <1>2, <1>3, <2>1 DEF Moves, Onward, TimerGoes
<1> QED BY Zenon, <1>5, <1>6, <1>7, <1>8, <1>9, <1>12, <1>13, <1>14, <1>15 DEF Works, CoreInv

\* handleNewBlock keeps the invariant: a proposer that waits for a block proposes.
LEMMA HandleNewBlockOK ==
  ASSUME NEW s, NEW M, CoreInv(s, M), NEW block, block.number \in Nat,
         NEW t, t = handleNewBlock(s, block)
  PROVE  Works(s, t, M)
<1>1. /\ DOMAIN s = CoreFields /\ s.draining \in BOOLEAN /\ s.validRound \in Int /\ BlockInv(s)
      /\ \A x \in s.futureProposals : x \in M /\ IsStored(x) /\ x.type = "propose"
      /\ \A x \in s.futureMessages : x \in M /\ IsStored(x)
      /\ \A d \in s.committed : CommitIsSound(d, M)
  BY Zenon, LightSelf
<1> DEFINE s1 == [s EXCEPT !.block = block]
<1>2. /\ DOMAIN s1 = CoreFields /\ Same(s, s1, {"block"}) /\ s1.block = block
  BY Zenon, <1>1 DEF CoreFields, Same
<1>3. t = s \/ t = s1 \/ (s1.step = 3 /\ t = ProposeIfProposer(s1, s1.round))
  BY Zenon DEF handleNewBlock, RoundStepPropose
<1> HIDE DEF s1
<1>4. Same(s, s1, LightFields)
  BY Zenon, <1>2 DEF Same, LightFields
<1>5. /\ s1.draining = s.draining /\ s1.futureMessages = s.futureMessages
      /\ s1.committed = s.committed /\ s1.futureProposals = s.futureProposals
      /\ s1.validRound = s.validRound /\ s1.validBlock = s.validBlock
      /\ s1.proposalReceived = s.proposalReceived
      /\ s1.lockedBlock = s.lockedBlock /\ s1.height = s.height /\ s1.round = s.round
  BY Zenon, <1>2 DEF Same, CoreFields
<1>6. BlockInv(s1)
  BY Zenon, <1>1, <1>2, <1>5 DEF BlockInv
<1>7. Works(s, s1, M)
  BY Zenon, <1>1, <1>2, <1>4, <1>5, <1>6, LightKeeps DEF Goes, Works
<1>8. CASE t = s
  BY Zenon, <1>8, GoesSelf DEF Goes, Works
<1>9. CASE s1.step = 3 /\ t = ProposeIfProposer(s1, s1.round) /\ t # s1
  <2>1. CoreInv(s1, M)
    BY Zenon, <1>7 DEF Works
  <2>2. TypeInv(s1)
    BY Zenon, <2>1 DEF CoreInv
  <2>3. s1.round \in Nat /\ s1.validRound \in Int
    BY Zenon, <2>2, CoreInvTypes
  <2>4. /\ s1.block # Nil => s1.block.number \in Nat
        /\ s1.validRound # -1 => s1.validBlock.number \in Nat
    BY Zenon, <1>6 DEF BlockInv
  <2> DEFINE r == s1.round
  <2>5. r \in Nat /\ t = ProposeIfProposer(s1, r)
    BY Zenon, <1>9, <2>3
  <2> HIDE DEF r
  <2>6. /\ DOMAIN t = CoreFields /\ Same(s1, t, {"savedMsg", "out"})
        /\ \/ t = s1
           \/ \E m : /\ IsStored(m) /\ m.type = "propose" /\ m.from = s1.address /\ m.round = r
                     /\ t.out = s1.out \cup {m} /\ t.savedMsg = storeSentMsg(s1.savedMsg, m)
    BY <1>2, <2>3, <2>4, <2>5, ProposeEffect
  <2>7. Works(s1, t, M)
    BY Zenon, <1>9, <2>1, <2>6, ProposalSent DEF r
  <2> QED BY Zenon, <1>7, <2>7, WorksTrans
<1> QED BY Zenon, <1>3, <1>7, <1>8, <1>9

\* A core that begins a height.
Begins(s, t, h) ==
  /\ t.address = s.address /\ t.height = h /\ t.round = 0 /\ t.step = 1
  /\ t.block # Nil => t.block = s.block
  /\ t.lockedRound = -1 /\ t.lockedBlock = Nil /\ t.validRound = -1 /\ t.proposalReceived = Nil
  /\ t.prevotes = {} /\ t.precommits = {} /\ t.precommitWaited \in BOOLEAN
  /\ t.commitRound = -1 /\ t.proposer = InitialProposer(N, h)
  /\ t.futureProposals \subseteq s.futureProposals /\ t.futureMessages = s.futureMessages
  /\ t.savedMsg = <<>> /\ t.ti = s.ti /\ t.armed = s.armed /\ t.late = s.late
  /\ t.out = s.out /\ t.committed = s.committed /\ t.panicked = s.panicked
  /\ t.draining \in BOOLEAN

\* The proposer of round 0 is a number, and itself after no rounds.
LEMMA InitialProposerIs ==
  ASSUME NEW h \in Nat \ {0}
  PROVE  /\ InitialProposer(N, h) \in Int
         /\ CalcProposer(N, InitialProposer(N, h), 0) = InitialProposer(N, h)
<1>1. N \in Nat \ {0} /\ h - 1 \in Nat
  BY NAssumption
<1>2. InitialProposer(N, h) = (h - 1) % N
  BY DEF InitialProposer
<1>3. (h - 1) % N \in 0 .. N - 1
  BY <1>1
<1>4. (((h - 1) % N) + 0) % N = (h - 1 + 0) % N
  BY <1>1, ModAdd, Zenon
<1>5. h - 1 + 0 = h - 1
  BY <1>1
<1> QED BY <1>2, <1>3, <1>4, <1>5 DEF CalcProposer

\* A core that begins a later height satisfies the invariant: what it signed is
\* of earlier heights.
LEMMA BeginsOK ==
  ASSUME NEW s, NEW M, CoreInv(s, M), NEW h \in Nat, s.height < h,
         NEW t, DOMAIN t = CoreFields, Begins(s, t, h)
  PROVE  CoreInv(t, M)
<1>1. /\ TypeInv(s) /\ BlockInv(s) /\ ReceivedInv(s, M)
      /\ OutInv(s) /\ TimeInv(s) /\ CommitInv(s, M)
  BY Zenon DEF CoreInv
<1>2. /\ Placed(s) /\ s.height \in Nat \ {0} /\ TimerOK(s) /\ s.address \in 0 .. N - 1
  BY Zenon, <1>1, CoreInvTypes
<1>3. h \in Nat \ {0}
  BY <1>2
<1>4. /\ InitialProposer(N, h) \in Int
      /\ CalcProposer(N, InitialProposer(N, h), 0) = InitialProposer(N, h)
  BY Zenon, <1>3, InitialProposerIs
<1>5. TypeInv(t)
  <2>1. s.panicked = FALSE
    BY Zenon, <1>1 DEF TypeInv
  <2> QED BY <1>2, <1>3, <1>4, <2>1 DEF TypeInv, Begins, AreVotes, TimerOK
<1>6. ProposerInv(t)
  BY Zenon, <1>4 DEF ProposerInv, Begins
<1>7. BlockInv(t)
  BY Zenon, <1>1 DEF BlockInv, Begins
<1>8. ReceivedInv(t, M)
  BY Zenon, <1>1 DEF ReceivedInv, Begins
<1>9. ASSUME NEW m \in t.out, IsVote(m)
      PROVE  m.round \in Nat /\ m.number < t.height /\ m.number \in Nat
  <2>1. m \in s.out /\ t.height = h
    BY Zenon DEF Begins
  <2>2. IsStored(m)
    BY Zenon, <1>1, <1>9, <2>1, VoteIsStored DEF OutInv
  <2>3. m.round \in Nat /\ (m.number < s.height \/ m.number = s.height)
    BY Zenon, <1>1, <1>9, <2>1 DEF OutInv
  <2> QED BY <1>2, <2>1, <2>2, <2>3 DEF IsStored
<1>10. OutInv(t)
  <2>1. t.out = s.out /\ t.address = s.address
    BY Zenon DEF Begins
  <2> QED BY Zenon, <1>1, <1>9, <2>1 DEF OutInv
<1>11. t.height \in Nat
  BY Zenon DEF Begins
<1>12. StoreInv(t)
  <2>1. t.savedMsg = <<>> /\ Len(t.savedMsg) = 0 /\ t.savedMsg \in Seq(t.out)
    BY DEF Begins
  <2>2. \A m \in t.out : ~ (IsVote(m) /\ m.number = t.height)
    BY <1>9, <1>11
  <2> QED BY <2>1, <2>2 DEF StoreInv
<1>13. TimeInv(t)
  <2>1. ASSUME NEW x \in {s.ti} \cup s.late
        PROVE  x.number < h
    <3>1. x.number \in Nat
      BY Zenon, <1>2 DEF TimerOK, IsTimeout
    <3> QED BY <1>1, <1>2, <3>1 DEF TimeInv
  <2>2. ASSUME NEW x \in {s.ti} \cup s.late
        PROVE  x.number # h
    <3>1. x.number \in Nat
      BY Zenon, <1>2 DEF TimerOK, IsTimeout
    <3> QED BY <2>1, <3>1
  <2> QED BY <2>1, <2>2 DEF TimeInv, Begins, RoundStepPrecommitWait
<1>14. LockInv(t)
  <2>1. \A x \in t.out : ~ (x.type = "precommit" /\ x.number = t.height)
    BY <1>9, <1>11 DEF IsVote
  <2>2. LockIsSound(t)
    BY DEF Begins, LockIsSound
  <2> QED BY Zenon, <2>1, <2>2, LockInvMeans
<1>15. CommitInv(t, M)
  <2>1. t.commitRound = -1 /\ t.step = 1 /\ t.committed = s.committed
    BY Zenon DEF Begins
  <2> QED BY <1>1, <2>1, CommitInvMeans
<1> QED BY Zenon, <1>5, <1>6, <1>7, <1>8, <1>10, <1>12, <1>13, <1>14, <1>15 DEF CoreInv
-----------------------------------------------------------------------------

\* The state that updateStateForNewblock and startNewRound make of u.
Cleared(u, h) == LoadValidators(clearPreviousRoundData([u EXCEPT !.height = h]))

ClearedFields ==
  {"height", "round", "step", "block", "lockedRound", "lockedBlock", "validRound", "validBlock",
   "proposalReceived", "prevotes", "precommits", "precommitWaited", "commitRound", "proposer"}

\* clearPreviousRoundData and the reload of the validators, field by field.
LEMMA ClearedIs ==
  ASSUME NEW u, DOMAIN u = CoreFields, NEW h, NEW t, t = Cleared(u, h)
  PROVE  /\ DOMAIN t = CoreFields /\ Same(u, t, ClearedFields)
         /\ t.height = h /\ t.round = 0 /\ t.step = 1 /\ (t.block # Nil => t.block = u.block)
         /\ t.lockedRound = -1 /\ t.lockedBlock = Nil /\ t.validRound = -1
         /\ t.proposalReceived = Nil
         /\ t.prevotes = {} /\ t.precommits = {} /\ t.precommitWaited \in BOOLEAN
         /\ t.commitRound = -1 /\ t.proposer = InitialProposer(N, h)
<1> DEFINE u1 == [u EXCEPT !.height = h]
           u2 == clearPreviousRoundData(u1)
<1>1. DOMAIN u1 = CoreFields /\ u1.height = h /\ u1.block = u.block /\ Same(u, u1, {"height"})
  BY Zenon DEF CoreFields, Same
<1>2. t = LoadValidators(u2)
  BY Zenon DEF Cleared
<1> HIDE DEF u1
<1> DEFINE b == IF u1.block # Nil /\ u1.block.number < u1.height THEN Nil ELSE u1.block
<1>3. u2 = [u1 EXCEPT !.block = b, !.round = 0, !.step = 1,
                      !.lockedRound = -1, !.lockedBlock = Nil,
                      !.validRound = -1, !.validBlock = Nil,
                      !.proposalReceived = Nil, !.commitRound = -1,
                      !.prevotes = {}, !.precommits = {}, !.precommitWaited = FALSE]
  BY Zenon DEF clearPreviousRoundData, RoundStepNewHeight
<1>4. b # Nil => b = u.block
  BY Zenon, <1>1
<1> HIDE DEF u2, b
<1>5. /\ DOMAIN u2 = CoreFields /\ u2.height = h /\ u2.round = 0 /\ u2.step = 1 /\ u2.block = b
      /\ u2.lockedRound = -1 /\ u2.lockedBlock = Nil /\ u2.validRound = -1
      /\ u2.proposalReceived = Nil
      /\ u2.prevotes = {} /\ u2.precommits = {} /\ u2.precommitWaited \in BOOLEAN
      /\ u2.commitRound = -1
  BY <1>1, <1>3, Zenon DEF CoreFields
<1>6. Same(u1, u2, ClearedFields)
  BY <1>1, <1>3, Zenon DEF CoreFields, Same, ClearedFields
<1>7. Same(u, u2, ClearedFields)
  BY Zenon, <1>1, <1>6 DEF Same, ClearedFields
<1> DEFINE p == InitialProposer(N, h)
<1>8. t = [u2 EXCEPT !.proposer = p]
  BY Zenon, <1>2, <1>5 DEF LoadValidators
<1> HIDE DEF p
<1>9. /\ DOMAIN t = CoreFields /\ Same(u2, t, {"proposer"}) /\ t.proposer = p
  BY Zenon, <1>5, <1>8 DEF CoreFields, Same
<1>10. Same(u, t, ClearedFields)
  BY Zenon, <1>7, <1>9 DEF Same, ClearedFields
<1>11. /\ t.height = u2.height /\ t.round = u2.round /\ t.step = u2.step /\ t.block = u2.block
       /\ t.lockedRound = u2.lockedRound /\ t.lockedBlock = u2.lockedBlock
       /\ t.validRound = u2.validRound /\ t.proposalReceived = u2.proposalReceived
       /\ t.prevotes = u2.prevotes /\ t.precommits = u2.precommits
       /\ t.precommitWaited = u2.precommitWaited /\ t.commitRound = u2.commitRound
  BY Zenon, <1>9 DEF Same, CoreFields
<1> QED BY <1>4, <1>5, <1>9, <1>10, <1>11 DEF p

\* startNewRound begins the height after the head of the chain.
LEMMA JumpBegins ==
  ASSUME NEW s, DOMAIN s = CoreFields, s.draining \in BOOLEAN, NEW h,
         NEW t, t = [Cleared(s, h) EXCEPT !.savedMsg = <<>>]
  PROVE  DOMAIN t = CoreFields /\ Begins(s, t, h)
<1> DEFINE u == Cleared(s, h)
<1>1. /\ DOMAIN u = CoreFields /\ Same(s, u, ClearedFields)
      /\ u.height = h /\ u.round = 0 /\ u.step = 1 /\ (u.block # Nil => u.block = s.block)
      /\ u.lockedRound = -1 /\ u.lockedBlock = Nil /\ u.validRound = -1
      /\ u.proposalReceived = Nil
      /\ u.prevotes = {} /\ u.precommits = {} /\ u.precommitWaited \in BOOLEAN
      /\ u.commitRound = -1 /\ u.proposer = InitialProposer(N, h)
  BY ClearedIs
<1> HIDE DEF u
<1>2. t = [u EXCEPT !.savedMsg = <<>>]
  BY Zenon DEF u
<1>3. /\ u.address = s.address /\ u.futureProposals = s.futureProposals
      /\ u.futureMessages = s.futureMessages /\ u.ti = s.ti /\ u.armed = s.armed
      /\ u.late = s.late
      /\ u.out = s.out /\ u.committed = s.committed /\ u.panicked = s.panicked
      /\ u.draining = s.draining
  BY <1>1 DEF Same, ClearedFields, CoreFields
<1>4. DOMAIN t = CoreFields /\ Same(u, t, {"savedMsg"}) /\ t.savedMsg = <<>>
  BY <1>1, <1>2, Zenon DEF CoreFields, Same
<1>5. /\ t.height = u.height /\ t.round = u.round /\ t.step = u.step /\ t.block = u.block
      /\ t.lockedRound = u.lockedRound /\ t.lockedBlock = u.lockedBlock
      /\ t.validRound = u.validRound /\ t.proposalReceived = u.proposalReceived
      /\ t.prevotes = u.prevotes /\ t.precommits = u.precommits /\ t.proposer = u.proposer
      /\ t.precommitWaited = u.precommitWaited /\ t.commitRound = u.commitRound
      /\ t.address = u.address /\ t.futureProposals = u.futureProposals
      /\ t.futureMessages = u.futureMessages /\ t.ti = u.ti /\ t.armed = u.armed
      /\ t.late = u.late
      /\ t.out = u.out /\ t.committed = u.committed /\ t.panicked = u.panicked
      /\ t.draining = u.draining
  BY <1>4 DEF Same, CoreFields
<1> QED BY <1>1, <1>3, <1>4, <1>5 DEF Begins

\* updateStateForNewblock begins the next height.
LEMMA UpdateBegins ==
  ASSUME NEW s, NEW M, CoreInv(s, M),
         NEW t, t = updateStateForNewblock([s EXCEPT !.savedMsg = <<>>])
  PROVE  DOMAIN t = CoreFields /\ Begins(s, t, s.height + 1)
<1>1. TypeInv(s) /\ CommitInv(s, M)
  BY Zenon DEF CoreInv
<1>2. DOMAIN s = CoreFields /\ s.draining \in BOOLEAN /\ s.commitRound \in Int
  BY Zenon, <1>1, CoreInvTypes DEF TypeInv
<1> DEFINE s0 == [s EXCEPT !.savedMsg = <<>>]
           h == s.height + 1
           u == Cleared(s0, h)
<1>3. DOMAIN s0 = CoreFields /\ Same(s, s0, {"savedMsg"}) /\ s0.savedMsg = <<>>
  BY Zenon, <1>2 DEF CoreFields, Same
<1>4. t = updateStateForNewblock(s0)
  BY Zenon
<1> HIDE DEF s0
<1>5. s0.commitRound = s.commitRound /\ s0.precommits = s.precommits /\ s0.height = s.height
  BY Zenon, <1>3 DEF Same, CoreFields
<1>6. ~ (s0.commitRound > -1 /\ ~ HasMajority(s0.precommits, s0.commitRound))
  BY Zenon, <1>1, <1>5, CommitInvMeans
<1>7. t = [u EXCEPT !.futureProposals = {}]
  BY <1>4, <1>5, <1>6, Zenon DEF updateStateForNewblock, Cleared
<1>8. /\ DOMAIN u = CoreFields /\ Same(s0, u, ClearedFields)
      /\ u.height = h /\ u.round = 0 /\ u.step = 1 /\ (u.block # Nil => u.block = s0.block)
      /\ u.lockedRound = -1 /\ u.lockedBlock = Nil /\ u.validRound = -1
      /\ u.proposalReceived = Nil
      /\ u.prevotes = {} /\ u.precommits = {} /\ u.precommitWaited \in BOOLEAN
      /\ u.commitRound = -1 /\ u.proposer = InitialProposer(N, h)
  BY <1>3, ClearedIs
<1> HIDE DEF u, h
<1>9. /\ s0.address = s.address /\ s0.block = s.block
      /\ s0.futureMessages = s.futureMessages /\ s0.ti = s.ti /\ s0.armed = s.armed
      /\ s0.late = s.late
      /\ s0.out = s.out /\ s0.committed = s.committed /\ s0.panicked = s.panicked
      /\ s0.draining = s.draining
  BY Zenon, <1>3 DEF Same, CoreFields
<1>10. /\ u.address = s0.address /\ u.savedMsg = s0.savedMsg
       /\ u.futureMessages = s0.futureMessages /\ u.ti = s0.ti /\ u.armed = s0.armed
       /\ u.late = s0.late
       /\ u.out = s0.out /\ u.committed = s0.committed /\ u.panicked = s0.panicked
       /\ u.draining = s0.draining
  BY <1>8 DEF Same, ClearedFields, CoreFields
<1>11. DOMAIN t = CoreFields /\ Same(u, t, {"futureProposals"}) /\ t.futureProposals = {}
  BY Zenon, <1>7, <1>8 DEF CoreFields, Same
<1>12. /\ t.height = u.height /\ t.round = u.round /\ t.step = u.step /\ t.block = u.block
       /\ t.lockedRound = u.lockedRound /\ t.lockedBlock = u.lockedBlock
       /\ t.validRound = u.validRound /\ t.proposalReceived = u.proposalReceived
       /\ t.prevotes = u.prevotes /\ t.precommits = u.precommits /\ t.proposer = u.proposer
       /\ t.precommitWaited = u.precommitWaited /\ t.commitRound = u.commitRound
       /\ t.address = u.address /\ t.savedMsg = u.savedMsg
       /\ t.futureMessages = u.futureMessages /\ t.ti = u.ti /\ t.armed = u.armed
       /\ t.late = u.late
       /\ t.out = u.out /\ t.committed = u.committed /\ t.panicked = u.panicked
       /\ t.draining = u.draining
  BY <1>11 DEF Same, CoreFields
<1>13. Begins(s, t, h)
  BY <1>2, <1>3, <1>8, <1>9, <1>10, <1>11, <1>12 DEF Begins
<1> QED BY Zenon, <1>11, <1>13 DEF h

\* The last timeout is not one of a later height.
LEMMA TimerIsOld ==
  ASSUME NEW s, NEW M, CoreInv(s, M)
  PROVE  s.ti.number \in Nat /\ s.ti.number <= s.height /\ s.height \in Nat
<1>1. TypeInv(s) /\ TimeInv(s)
  BY Zenon DEF CoreInv
<1>2. s.ti.number \in Nat /\ s.height \in Nat
  BY Zenon, <1>1, CoreInvTypes DEF TimerOK, IsTimeout
<1> QED BY <1>1, <1>2 DEF TimeInv

\* startNewRound keeps the invariant, and the timer runs after it.
LEMMA StartNewRoundOK ==
  ASSUME NEW s, NEW M, CoreInv(s, M), NEW head \in Nat, s.height <= head + 1,
         s.ti.number < s.height,
         NEW t, t = startNewRound(s, head)
  PROVE  /\ CoreInv(t, M) /\ t.address = s.address /\ t.height = head + 1 /\ Timed(t)
         /\ t.out = s.out /\ t.committed = s.committed
         /\ s.height = head + 1 => Onward(s, t)
<1>1. /\ DOMAIN s = CoreFields /\ s.draining \in BOOLEAN /\ s.height \in Nat
      /\ s.address \in 0 .. N - 1
  BY Zenon, CoreInvTypes, LightSelf DEF CoreInv
<1> DEFINE s1 == IF s.height = head + 1 THEN s ELSE [Cleared(s, head + 1) EXCEPT !.savedMsg = <<>>]
<1>2. t = IF s1.step \in {2, 8} \/ ~ IsValidator(N, s1.address) THEN s1
          ELSE ScheduleTimeout(s1, s1.round, s1.step, 0)
  BY Zenon DEF startNewRound, Cleared, RoundStepNewRound, RoundStepCommit
<1>3. /\ CoreInv(s1, M) /\ s1.address = s.address /\ s1.height = head + 1 /\ s1.out = s.out
      /\ s1.committed = s.committed
      /\ s1.ti.number < s1.height /\ (s.height = head + 1 => s1 = s)
  <2>1. CASE s.height = head + 1
    BY Zenon, <2>1
  <2>2. CASE s.height # head + 1
    <3>1. s1 = [Cleared(s, head + 1) EXCEPT !.savedMsg = <<>>]
      BY Zenon, <2>2
    <3>2. DOMAIN s1 = CoreFields /\ Begins(s, s1, head + 1)
      BY Zenon, <1>1, <3>1, JumpBegins
    <3>3. head + 1 \in Nat /\ s.height < head + 1
      BY <1>1, <2>2
    <3> HIDE DEF s1
    <3>4. CoreInv(s1, M)
      BY Zenon, <3>2, <3>3, BeginsOK
    <3>5. /\ s1.address = s.address /\ s1.height = head + 1 /\ s1.ti = s.ti
          /\ s1.out = s.out /\ s1.committed = s.committed
      BY Zenon, <3>2 DEF Begins
    <3>6. s.ti.number < head + 1
      BY <3>3, TimerIsOld
    <3> QED BY Zenon, <2>2, <3>4, <3>5, <3>6
  <2> QED BY Zenon, <2>1, <2>2
<1> HIDE DEF s1
<1>4. TypeInv(s1)
  BY Zenon, <1>3 DEF CoreInv
<1>5. s1.step \in {1, 3, 4, 5, 6, 7, 8} /\ IsValidator(N, s1.address) /\ Placed(s1)
  BY Zenon, <1>1, <1>3, <1>4, CoreInvTypes DEF IsValidator
<1>6. CASE s1.step = 8
  <2>1. t = s1
    BY Zenon, <1>2, <1>6
  <2>2. Onward(s1, s1)
    BY <1>5 DEF Onward, VotesGo, Placed, StepNumber
  <2> QED BY Zenon, <1>3, <1>6, <2>1, <2>2 DEF Timed
<1>7. CASE s1.step # 8
  <2>1. t = ScheduleTimeout(s1, s1.round, s1.step, 0)
    BY <1>2, <1>5, <1>7
  <2>2. /\ CoreInv(t, M) /\ Onward(s1, t) /\ t.height = s1.height /\ t.round = s1.round
        /\ t.step = s1.step
        /\ t.out = s1.out /\ t.committed = s1.committed
        /\ TimerAt(t, s1.height, s1.round, s1.step)
    BY <1>3, <1>7, <2>1, ScheduleOK
  <2>3. t.address = s1.address
    BY Zenon, <2>2 DEF Onward
  <2> QED BY Zenon, <1>3, <2>2, <2>3 DEF Timed
<1> QED BY Zenon, <1>6, <1>7

\* The flag of processFutureMessages is outside the invariant.
LEMMA DrainingOK ==
  ASSUME NEW s, NEW M, CoreInv(s, M), NEW v \in BOOLEAN, NEW t, t = [s EXCEPT !.draining = v]
  PROVE  Works(s, t, M) /\ t.out = s.out /\ t.committed = s.committed
<1>1. /\ DOMAIN s = CoreFields /\ s.draining \in BOOLEAN /\ s.validRound \in Int /\ BlockInv(s)
      /\ \A x \in s.futureProposals : x \in M /\ IsStored(x) /\ x.type = "propose"
      /\ \A x \in s.futureMessages : x \in M /\ IsStored(x)
      /\ \A d \in s.committed : CommitIsSound(d, M)
  BY Zenon, LightSelf
<1>2. /\ DOMAIN t = CoreFields /\ Same(s, t, {"draining"}) /\ t.draining \in BOOLEAN
  BY Zenon, <1>1 DEF CoreFields, Same
<1>4. Same(s, t, LightFields)
  BY Zenon, <1>2 DEF Same, LightFields
<1>5. /\ t.futureMessages = s.futureMessages
      /\ t.committed = s.committed /\ t.futureProposals = s.futureProposals
      /\ t.validRound = s.validRound /\ t.validBlock = s.validBlock /\ t.block = s.block
      /\ t.proposalReceived = s.proposalReceived
      /\ t.lockedBlock = s.lockedBlock /\ t.out = s.out /\ t.height = s.height
      /\ t.round = s.round
  BY Zenon, <1>2 DEF Same, CoreFields
<1>6. BlockInv(t)
  BY Zenon, <1>1, <1>5 DEF BlockInv
<1> QED BY <1>1, <1>2, <1>4, <1>5, <1>6, LightKeeps, Zenon DEF Goes, Works

\* handleFinalCommitted keeps the invariant: the core stays, or begins the height
\* after the head of its chain.
LEMMA HandleFinalCommittedOK ==
  ASSUME NEW s, NEW M, CoreInv(s, M), NEW head \in Nat, NEW newHead \in Nat, newHead <= head,
         NEW t, t = handleFinalCommitted(s, newHead, head)
  PROVE  \/ t = s
         \/ /\ CoreInv(t, M) /\ t.address = s.address /\ t.height = head + 1 /\ s.height < t.height
            /\ t.out = s.out /\ t.committed = s.committed /\ Timed(t)
<1>1. CASE s.height > newHead
  BY Zenon, <1>1 DEF handleFinalCommitted
<1>2. CASE ~ (s.height > newHead)
  <2> DEFINE u == updateStateForNewblock([s EXCEPT !.savedMsg = <<>>])
             w == startNewRound(u, head)
  <2>1. t = [w EXCEPT !.draining = TRUE]
    BY Zenon, <1>2 DEF handleFinalCommitted
  <2>2. DOMAIN u = CoreFields /\ Begins(s, u, s.height + 1)
    BY Zenon, UpdateBegins
  <2> HIDE DEF u
  <2>3. /\ s.ti.number \in Nat /\ s.ti.number <= s.height /\ s.height \in Nat
        /\ s.height + 1 \in Nat /\ s.height < s.height + 1
    BY TimerIsOld
  <2>4. CoreInv(u, M)
    BY Zenon, <2>2, <2>3, BeginsOK
  <2>5. /\ u.height = s.height + 1 /\ u.address = s.address /\ u.ti = s.ti
        /\ u.out = s.out /\ u.committed = s.committed
    BY Zenon, <2>2 DEF Begins
  <2>6. u.height <= head + 1 /\ u.ti.number < u.height /\ s.height < head + 1
    BY <1>2, <2>3, <2>5
  <2>7. /\ CoreInv(w, M) /\ w.address = u.address /\ w.height = head + 1 /\ Timed(w)
        /\ w.out = u.out /\ w.committed = u.committed
    BY <2>4, <2>6, StartNewRoundOK
  <2> HIDE DEF w
  <2>8. Works(w, t, M) /\ t.out = w.out /\ t.committed = w.committed
    BY <2>1, <2>7, DrainingOK, Zenon
  <2>9. Runs(w, t, M)
    BY Zenon, <2>8, WorksRuns
  <2> QED BY Zenon, <2>5, <2>6, <2>7, <2>8, <2>9 DEF Runs, Onward
<1> QED BY Zenon, <1>1, <1>2

\* Start keeps the invariant, for a first start and for one after a Stop.
LEMMA StartOK ==
  ASSUME NEW s, NEW M, CoreInv(s, M), NEW head \in Nat, s.height <= head + 1,
         NEW t, t = Start(s, head)
  PROVE  /\ CoreInv(t, M) /\ t.address = s.address /\ t.height = head + 1 /\ Timed(t)
         /\ t.out = s.out /\ t.committed = s.committed
         /\ s.height = head + 1 => Onward(s, t)
<1>1. TypeInv(s) /\ TimeInv(s)
  BY Zenon DEF CoreInv
<1>2. DOMAIN s = CoreFields /\ TimerOK(s) /\ s.height \in Nat \ {0}
  BY Zenon, <1>1, CoreInvTypes
<1> DEFINE u == [s EXCEPT !.ti = NoTimeout]
<1>3. t = startNewRound(u, head)
  BY Zenon DEF Start
<1>4. DOMAIN u = CoreFields /\ Same(s, u, {"ti"}) /\ u.ti = NoTimeout
  BY Zenon, <1>2 DEF CoreFields, Same
<1> HIDE DEF u
<1>5. /\ NoTimeout.number = 0 /\ IsTimeout(NoTimeout)
  BY Zenon DEF NoTimeout, IsTimeout
<1>6. /\ u.height = s.height /\ u.round = s.round /\ u.step = s.step /\ u.address = s.address
      /\ u.out = s.out /\ u.committed = s.committed
      /\ u.precommitWaited = s.precommitWaited /\ u.armed = s.armed /\ u.late = s.late
  BY Zenon, <1>4 DEF Same, CoreFields
<1>7. TimerOK(u)
  BY Zenon, <1>2, <1>4, <1>5, <1>6 DEF TimerOK
<1>8. TimeInv(u)
  BY <1>1, <1>2, <1>4, <1>5, <1>6 DEF TimeInv, NotAfter
<1>9. Same(s, u, Timer)
  BY Zenon, <1>4 DEF Same, Timer
<1>10. CoreInv(u, M) /\ Onward(s, u)
  BY Zenon, <1>4, <1>7, <1>8, <1>9, TimerKeeps
<1>11. u.height <= head + 1 /\ u.ti.number < u.height
  BY <1>2, <1>4, <1>5, <1>6
<1>12. /\ CoreInv(t, M) /\ t.address = u.address /\ t.height = head + 1 /\ Timed(t)
       /\ t.out = u.out /\ t.committed = u.committed
       /\ u.height = head + 1 => Onward(u, t)
  BY Zenon, <1>3, <1>10, <1>11, StartNewRoundOK
<1>13. s.height = head + 1 => Onward(s, t)
  BY Zenon, <1>6, <1>10, <1>12, OnwardOver
<1> QED BY Zenon, <1>6, <1>12, <1>13

\* Stop keeps the invariant.
LEMMA StopOK ==
  ASSUME NEW s, NEW M, CoreInv(s, M), NEW t, t = Stop(s)
  PROVE  CoreInv(t, M) /\ Onward(s, t)
<1>1. TypeInv(s) /\ TimeInv(s)
  BY Zenon DEF CoreInv
<1>2. DOMAIN s = CoreFields /\ TimerOK(s)
  BY Zenon, <1>1, CoreInvTypes
<1>3. /\ DOMAIN t = CoreFields /\ Same(s, t, {"armed", "late"}) /\ t.armed \in BOOLEAN
      /\ t.late = {}
  BY <1>2, Zenon DEF Stop, CoreFields, Same
<1>4. /\ t.height = s.height /\ t.round = s.round /\ t.step = s.step
      /\ t.precommitWaited = s.precommitWaited /\ t.ti = s.ti
  BY Zenon, <1>3 DEF Same, CoreFields
<1>5. TimerOK(t)
  BY Zenon, <1>2, <1>3, <1>4 DEF TimerOK
<1>6. TimeInv(t)
  BY <1>1, <1>3, <1>4 DEF TimeInv, NotAfter
<1>7. Same(s, t, Timer)
  BY Zenon, <1>3 DEF Same, Timer
<1> QED BY Zenon, <1>3, <1>5, <1>6, <1>7, TimerKeeps

\* getInitializedState satisfies the invariant.
LEMMA InitialOK ==
  ASSUME NEW i \in 0 .. N - 1, NEW head \in Nat, NEW M, NEW s, s = getInitializedState(i, head)
  PROVE  CoreInv(s, M) /\ s.address = i /\ s.height = head + 1
<1> DEFINE h == head + 1
<1>1. h \in Nat \ {0}
  OBVIOUS
<1>2. /\ InitialProposer(N, h) \in Int
      /\ CalcProposer(N, InitialProposer(N, h), 0) = InitialProposer(N, h)
  BY Zenon, <1>1, InitialProposerIs
<1>3. /\ DOMAIN s = CoreFields /\ s.address = i /\ s.height = h /\ s.round = 0 /\ s.step = 1
      /\ s.block = EmptyHeaderBlock /\ s.lockedRound = -1 /\ s.lockedBlock = Nil
      /\ s.validRound = -1
      /\ s.proposalReceived = Nil /\ s.prevotes = {} /\ s.precommits = {}
      /\ s.commitRound = -1 /\ s.proposer = InitialProposer(N, h)
      /\ s.futureProposals = {} /\ s.futureMessages = {} /\ s.savedMsg = <<>>
      /\ s.ti = NoTimeout
      /\ s.late = {} /\ s.out = {} /\ s.committed = {} /\ s.panicked = FALSE
      /\ s.precommitWaited \in BOOLEAN /\ s.armed \in BOOLEAN /\ s.draining \in BOOLEAN
  BY Zenon DEF getInitializedState, CoreFields, RoundStepNewHeight
<1> HIDE DEF h
<1>4. /\ NoTimeout.number = 0 /\ IsTimeout(NoTimeout)
  BY Zenon DEF NoTimeout, IsTimeout
<1>5. EmptyHeaderBlock.number = 0
  BY Zenon DEF EmptyHeaderBlock
<1>6. TypeInv(s)
  BY <1>1, <1>2, <1>3, <1>4 DEF TypeInv, AreVotes
<1>7. ProposerInv(s)
  BY Zenon, <1>2, <1>3 DEF ProposerInv
<1>8. BlockInv(s)
  BY <1>3, <1>5 DEF BlockInv
<1>9. ReceivedInv(s, M) /\ OutInv(s)
  BY Zenon, <1>3 DEF ReceivedInv, OutInv
<1>10. StoreInv(s)
  <2>1. s.savedMsg = <<>> /\ Len(s.savedMsg) = 0 /\ s.savedMsg \in Seq(s.out) /\ s.out = {}
    BY <1>3
  <2> QED BY <2>1 DEF StoreInv
<1>11. TimeInv(s)
  BY <1>1, <1>3, <1>4 DEF TimeInv, RoundStepPrecommitWait
<1>12. LockInv(s)
  BY <1>3 DEF LockInv
<1>13. CommitInv(s, M)
  BY <1>3 DEF CommitInv, RoundStepCommit
<1> QED BY Zenon, <1>3, <1>6, <1>7, <1>8, <1>9, <1>10, <1>11, <1>12, <1>13 DEF CoreInv, h

\* The invariant of a core stays when others sign more.
LEMMA CoreInvGrows ==
  ASSUME NEW s, NEW M, NEW L, M \subseteq L, CoreInv(s, M)
  PROVE  CoreInv(s, L)
<1>1. \A type, j, h, r, b : Voted(M, type, j, h, r, b) => Voted(L, type, j, h, r, b)
  BY DEF Voted
<1>2. ReceivedInv(s, L)
  BY Zenon, <1>1 DEF CoreInv, ReceivedInv
<1>3. CommitInv(s, L)
  BY Zenon, <1>1 DEF CoreInv, CommitInv, CommitIsSound
<1> QED BY Zenon, <1>2, <1>3 DEF CoreInv
=============================================================================
