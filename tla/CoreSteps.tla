----------------------------- MODULE CoreSteps ------------------------------
(***************************************************************************)
(* The steps of a round: the enter functions of core/consensus.go and the  *)
(* handlers of proposals, votes and catch-up replies keep the invariant of *)
(* a core.  A step from s to t also goes on: it is not taken back, it      *)
(* signs votes only for places that s has not come to, and the timer runs  *)
(* where t is.                                                             *)
(***************************************************************************)
EXTENDS CoreLemmas

\* The vote of a type in round r.
TheVote(s, type, r, b) ==
  [type |-> type, from |-> s.address, number |-> s.height, round |-> r, block |-> b]

VoteStep(type) == IF type = "prevote" THEN 4 ELSE 6

\* SendVote signs a vote with the core's own address and height.
LEMMA TheVoteIs ==
  ASSUME NEW s, s.height \in Nat, NEW type \in {"prevote", "precommit"}, NEW r \in Nat, NEW b,
         NEW m, m = TheVote(s, type, r, b)
  PROVE  /\ IsStored(m) /\ IsMessage(m) /\ IsVote(m) /\ StepOf(m) = VoteStep(type)
         /\ m.type = type /\ m.from = s.address /\ m.number = s.height /\ m.round = r
         /\ m.block = b
<1>1. m.type = type /\ m.from = s.address /\ m.number = s.height /\ m.round = r /\ m.block = b
  BY Zenon DEF TheVote
<1>2. IsStored(m) /\ IsVote(m)
  BY <1>1 DEF IsStored, IsVote
<1>3. IsMessage(m)
  BY Zenon, <1>2 DEF IsMessage
<1> QED BY Zenon, <1>1, <1>2, <1>3, StepOfType DEF VoteStep

\* OutInv is kept by SendVote for a step that s has not reached: such a vote is
\* not a second one.
LEMMA OutVote ==
  ASSUME NEW s, NEW t, OutInv(s), Placed(s), Placed(t), Later(s, t), s.height \in Nat,
         t.height = s.height, t.address = s.address,
         NEW type \in {"prevote", "precommit"}, NEW r \in Nat, NEW b,
         ~ NotAfter(r, VoteStep(type), s), NotAfter(r, VoteStep(type), t),
         b = Nil \/ (b \in Accepted /\ b.number = s.height),
         t.out = s.out \cup {TheVote(s, type, r, b)}
  PROVE  OutInv(t)
<1> DEFINE v == TheVote(s, type, r, b)
<1>v. /\ IsMessage(v) /\ IsVote(v) /\ StepOf(v) = VoteStep(type)
      /\ v.type = type /\ v.from = s.address /\ v.number = s.height /\ v.round = r
      /\ v.block = b
  BY TheVoteIs
<1> HIDE DEF v
<1>o. t.out = s.out \cup {v}
  BY Zenon DEF v
<1>1. ASSUME NEW m \in t.out
      PROVE  IsMessage(m) /\ m.from = t.address /\ Repeats(m, t.out)
  <2>1. CASE m = v
    BY Zenon, <1>v, <2>1 DEF Repeats
  <2>2. CASE m \in s.out
    <3>1. IsMessage(m) /\ m.from = s.address /\ Repeats(m, s.out)
      BY Zenon, <2>2 DEF OutInv
    <3> QED BY Zenon, <1>o, <3>1, RepeatsGrows
  <2> QED BY Zenon, <1>o, <2>1, <2>2
<1>2. ASSUME NEW m \in t.out, IsVote(m)
      PROVE  /\ m.round \in Nat /\ ForBlock(m)
             /\ m.number < t.height \/ (m.number = t.height /\ NotAfter(m.round, StepOf(m), t))
  <2>0. CASE m = v
    BY Zenon, <2>0, <1>v DEF ForBlock
  <2>a. CASE m \in s.out
    <3>1. IsMessage(m)
      BY Zenon, <1>1
    <3>2. /\ m.round \in Nat /\ ForBlock(m)
          /\ m.number < s.height \/ (m.number = s.height /\ NotAfter(m.round, StepOf(m), s))
      BY Zenon, <2>a, <1>2 DEF OutInv
    <3>3. StepOf(m) \in {4, 6}
      BY Zenon, <3>1, <1>2, VoteIsStored
    <3>4. NotAfter(m.round, StepOf(m), s) => NotAfter(m.round, StepOf(m), t)
      BY <3>2, <3>3, NotAfterLater
    <3> QED BY Zenon, <3>2, <3>4
  <2> QED BY Zenon, <2>0, <2>a, <1>o
<1>3. ASSUME NEW m \in s.out, IsVote(m), m.type = type, m.number = s.height, m.round = r
      PROVE  FALSE
  <2>1. IsMessage(m)
    BY Zenon, <1>3 DEF OutInv
  <2>2. StepOf(m) = VoteStep(type)
    BY Zenon, <2>1, <1>3, VoteIsStored, StepOfType DEF VoteStep
  <2>3. m.number < s.height \/ (m.number = s.height /\ NotAfter(m.round, StepOf(m), s))
    BY Zenon, <1>3 DEF OutInv
  <2> QED BY <1>3, <2>2, <2>3
<1>4. ASSUME NEW m \in t.out, NEW k \in t.out, IsVote(m), m.type = k.type, m.number = k.number,
             m.round = k.round
      PROVE  m = k
  <2>0. IsVote(k)
    BY Zenon, <1>4 DEF IsVote
  <2>1. CASE m \in s.out /\ k \in s.out
    BY Zenon, <1>4, <2>1 DEF OutInv
  <2>2. CASE m = v /\ k = v
    BY Zenon, <2>2
  <2>3. CASE m = v /\ k \in s.out
    BY Zenon, <1>3, <1>4, <1>v, <2>0, <2>3
  <2>4. CASE k = v /\ m \in s.out
    BY Zenon, <1>3, <1>4, <1>v, <2>0, <2>4
  <2> QED BY Zenon, <2>1, <2>2, <2>3, <2>4, <1>o
<1> QED BY <1>1, <1>2, <1>4, Zenon DEF OutInv

\* LockInv is kept by the prevote of enterPrevote: of the current round, and for
\* the locked block when there is one.
LEMMA LockPrevote ==
  ASSUME NEW s, NEW t, LockInv(s), OutInv(s), Placed(s), s.height \in Nat,
         t.height = s.height, t.prevotes = s.prevotes, t.round = s.round,
         t.lockedRound = s.lockedRound, t.lockedBlock = s.lockedBlock,
         NEW v, v.type = "prevote", v.round = s.round, t.out = s.out \cup {v},
         s.lockedRound # -1 => v.block = s.lockedBlock
  PROVE  LockInv(t)
<1>1. LockIsSound(t)
  BY Zenon, LockInvMeans DEF LockIsSound
<1> SUFFICES ASSUME NEW x \in t.out, x.type = "precommit", x.number = t.height, x.block # Nil
             PROVE  PrecommitKept(t, x)
  BY Zenon, <1>1, LockInvMeans
<1>2. x \in s.out /\ IsVote(x)
  BY Zenon DEF IsVote
<1>3. PrecommitKept(s, x)
  BY Zenon, <1>2, LockInvMeans
<1>4. x.round \in Nat /\ s.round \in Nat
  BY Zenon, <1>2, VotesOut DEF Placed
<1>5. \A r : Released(t, x.block, x.round, r) <=> Released(s, x.block, x.round, r)
  BY Zenon DEF Released
<1>6. ASSUME NEW y \in t.out,
             y.type = "prevote", y.number = t.height, x.round < y.round, y.block # x.block
      PROVE  Released(t, x.block, x.round, y.round)
  <2>1. CASE y \in s.out
    BY Zenon, <2>1, <1>3, <1>5, <1>6 DEF PrecommitKept
  <2>2. CASE y = v
    <3>1. ~ (s.lockedBlock = x.block /\ s.lockedRound >= x.round)
      BY <2>2, <1>4, <1>6
    <3> QED BY Zenon, <2>2, <3>1, <1>3, <1>5 DEF PrecommitKept, LockHeld
  <2> QED BY Zenon, <2>1, <2>2
<1> QED BY Zenon, <1>3, <1>5, <1>6 DEF PrecommitKept, LockHeld

\* LockInv is kept by the precommit of enterPrecommit: for a block with a polka,
\* which is then locked, or for Nil.
LEMMA LockPrecommit ==
  ASSUME NEW s, NEW t, LockInv(s), OutInv(s), Placed(s), s.height \in Nat,
         t.height = s.height, t.prevotes = s.prevotes, t.round = s.round,
         NEW v, v.type = "precommit", v.round = s.round, t.out = s.out \cup {v},
         LockIsSound(t),
         \A b, r0 : (/\ s.lockedBlock = b /\ s.lockedRound >= r0
                     /\ b # Nil /\ r0 \in 0 .. s.round - 1) =>
           LockHeld(t, b, r0),
         \A m \in s.out :
           IsVote(m) /\ m.type = "precommit" /\ m.number = s.height => m.round < s.round,
         v.block # Nil => /\ v.block \in TwoThirdMajority(s.prevotes, s.round)
                          /\ t.lockedBlock = v.block /\ t.lockedRound = s.round
  PROVE  LockInv(t)
<1> SUFFICES ASSUME NEW x \in t.out, x.type = "precommit", x.number = t.height, x.block # Nil
             PROVE  PrecommitKept(t, x)
  BY Zenon, LockInvMeans
<1>0. s.round \in Nat
  BY Zenon DEF Placed
<1>r. \A b, r0, r : Released(t, b, r0, r) <=> Released(s, b, r0, r)
  BY Zenon DEF Released
<1>1. CASE x = v
  <2>1. ASSUME NEW y \in t.out, y.type = "prevote", y.number = t.height, x.round < y.round
        PROVE  FALSE
    <3>1. y \in s.out /\ IsVote(y)
      BY Zenon, <2>1 DEF IsVote
    <3>2. y.round \in Nat /\ y.round <= s.round
      BY Zenon, <2>1, <3>1, VotesOut
    <3> QED BY <1>0, <1>1, <2>1, <3>2
  <2> QED BY <1>0, <1>1, <2>1 DEF PrecommitKept, LockHeld
<1>2. CASE x \in s.out
  <2>1. IsVote(x) /\ PrecommitKept(s, x)
    BY Zenon, <1>2, LockInvMeans DEF IsVote
  <2>2. x.round \in 0 .. s.round - 1
    BY <1>2, <2>1, <1>0, VotesOut
  <2>3. LockHeld(t, x.block, x.round)
    <3>1. CASE Released(s, x.block, x.round, s.round)
      BY Zenon, <3>1, <1>r DEF LockHeld
    <3>2. CASE s.lockedBlock = x.block /\ s.lockedRound >= x.round
      BY Zenon, <3>2, <2>2
    <3> QED BY Zenon, <2>1, <3>1, <3>2 DEF PrecommitKept, LockHeld
  <2>4. ASSUME NEW y \in t.out,
               y.type = "prevote", y.number = t.height, x.round < y.round, y.block # x.block
        PROVE  Released(t, x.block, x.round, y.round)
    BY Zenon, <2>1, <2>4, <1>r DEF PrecommitKept
  <2> QED BY Zenon, <2>1, <2>3, <2>4 DEF PrecommitKept
<1> QED BY Zenon, <1>1, <1>2

(* Commits. *)

\* FinalizeBlock takes the first K seals, and there are K of them.
LEMMA FirstSeals ==
  ASSUME NEW V \in SUBSET (0 .. N - 1), NEW K \in Nat \ {0}, Cardinality(V) >= K
  PROVE  Cardinality({ i \in V : Cardinality({ j \in V : j < i }) < K }) = K
<1> DEFINE B(n) == { j \in V : j < n }
           T == { n \in Nat : Cardinality(B(n)) >= K }
<1>0. N \in Nat \ {0} /\ \A j \in V : j \in Nat /\ j < N
  BY NAssumption
<1>1. IsFiniteSet(V)
  <2>1. IsFiniteSet(0 .. N - 1)
    BY <1>0, FS_Interval
  <2> QED BY <2>1, FS_Subset, Zenon
<1>b. /\ \A n : B(n) \in SUBSET V
      /\ \A n, j : j \in B(n) <=> j \in V /\ j < n
  BY Zenon
<1>s. { i \in V : Cardinality({ j \in V : j < i }) < K } = { i \in V : Cardinality(B(i)) < K }
  BY Zenon
<1>t. \A n : n \in T <=> n \in Nat /\ Cardinality(B(n)) >= K
  BY Zenon
<1> HIDE DEF B, T
<1>2. \A n : IsFiniteSet(B(n)) /\ Cardinality(B(n)) \in Nat
  BY Zenon, <1>1, <1>b, FS_Subset, FS_CardinalityType
<1>3. ASSUME NEW m \in Nat, NEW n \in Nat, m <= n
      PROVE  Cardinality(B(m)) <= Cardinality(B(n))
  <2>1. ASSUME NEW j \in B(m)
        PROVE  j \in B(n)
    <3>1. j \in V /\ j \in Nat /\ j < m
      BY <1>0, <1>b, Zenon
    <3>2. j < n
      BY <3>1, <1>3
    <3> QED BY Zenon, <3>1, <3>2, <1>b
  <2>2. B(m) \in SUBSET B(n)
    BY Zenon, <2>1
  <2> QED BY Zenon, <1>2, <2>2, FS_Subset
<1>4. N \in T
  <2>1. \A j \in V : j \in B(N)
    BY Zenon, <1>0, <1>b
  <2>2. B(N) = V
    BY <2>1, <1>b, Zenon
  <2> QED BY Zenon, <1>0, <1>t, <2>2
<1>5. PICK n \in T : \A m \in T : n <= m
  <2>1. T \in SUBSET Nat /\ T # {}
    BY Zenon, <1>4, <1>t
  <2> QED BY Zenon, <2>1, MinNat
<1>6. n \in Nat /\ Cardinality(B(n)) >= K
  BY Zenon, <1>5, <1>t
<1>7. n # 0
  <2>0. \A j \in V : j \notin B(0)
    BY <1>0, <1>b
  <2>1. B(0) = {}
    BY <2>0, <1>b, Zenon
  <2>2. Cardinality(B(0)) = 0
    BY Zenon, <2>1, FS_EmptySet
  <2> QED BY <1>6, <2>2
<1>8. n - 1 \in Nat /\ Cardinality(B(n - 1)) < K
  <2>1. n - 1 \in Nat /\ ~ (n <= n - 1)
    BY <1>6, <1>7
  <2>2. n - 1 \notin T
    BY Zenon, <2>1, <1>5
  <2> QED BY <2>1, <2>2, <1>2, <1>t
<1>9. Cardinality(B(n)) <= Cardinality(B(n - 1)) + 1
  <2>0. ASSUME NEW j \in B(n)
        PROVE  j \in B(n - 1) \/ j = n - 1
    <3>1. j \in V /\ j < n /\ j \in Nat
      BY <1>0, <1>b, Zenon
    <3>2. j < n - 1 \/ j = n - 1
      BY <3>1, <1>6
    <3> QED BY Zenon, <3>1, <3>2, <1>b
  <2>1. B(n) \subseteq B(n - 1) \cup {n - 1}
    BY Zenon, <2>0
  <2>2. /\ IsFiniteSet(B(n - 1) \cup {n - 1})
        /\ Cardinality(B(n - 1) \cup {n - 1}) <= Cardinality(B(n - 1)) + 1
    <3> DEFINE C == B(n - 1)
               k == n - 1
    <3>1. IsFiniteSet(C) /\ Cardinality(C) \in Nat
      BY Zenon, <1>2, <1>8
    <3> HIDE DEF C
    <3>2. CASE k \in C
      <4>1. C \cup {k} = C
        BY Zenon, <3>2
      <4> QED BY <3>1, <4>1 DEF C
    <3>3. CASE k \notin C
      <4>1. IsFiniteSet(C \cup {k}) /\ Cardinality(C \cup {k}) = Cardinality(C) + 1
        <5> HIDE DEF k
        <5> QED BY Zenon, <3>1, <3>3, FS_AddElement
      <4> QED BY <3>1, <4>1 DEF C
    <3> QED BY Zenon, <3>2, <3>3
  <2>3. Cardinality(B(n)) <= Cardinality(B(n - 1) \cup {n - 1})
    BY Zenon, <2>1, <2>2, FS_Subset
  <2>4. Cardinality(B(n - 1) \cup {n - 1}) \in Nat
    BY Zenon, <2>2, FS_CardinalityType
  <2> QED BY <1>2, <2>2, <2>3, <2>4
<1>10. Cardinality(B(n)) = K
  <2>1. Cardinality(B(n)) \in Nat /\ Cardinality(B(n - 1)) \in Nat
    BY Zenon, <1>2
  <2> QED BY <2>1, <1>6, <1>8, <1>9
<1>11. ASSUME NEW i \in V
       PROVE  i < n <=> Cardinality(B(i)) < K
  <2>0. i \in Nat /\ n \in Nat /\ Cardinality(B(i)) \in Nat
    BY Zenon, <1>0, <1>6, <1>2
  <2>1. CASE i < n
    <3>1. i <= n - 1
      BY <2>0, <2>1
    <3>2. Cardinality(B(i)) <= Cardinality(B(n - 1)) /\ Cardinality(B(n - 1)) \in Nat
      BY Zenon, <2>0, <3>1, <1>2, <1>3, <1>8
    <3> QED BY <2>0, <2>1, <3>2, <1>8
  <2>2. CASE ~ (i < n)
    <3>1. n <= i
      BY <2>0, <2>2
    <3>2. Cardinality(B(n)) <= Cardinality(B(i))
      BY Zenon, <2>0, <3>1, <1>3
    <3> QED BY <2>0, <2>2, <3>2, <1>10
  <2> QED BY Zenon, <2>1, <2>2
<1>12. { i \in V : Cardinality(B(i)) < K } = B(n)
  BY <1>11, <1>b, Zenon
<1> QED BY <1>10, <1>12, <1>s, Zenon

\* FinalizeBlock: the block of the majority, with the seals of MinMajority
\* validators that signed a precommit for it in the commit round.
LEMMA FinalizeSound ==
  ASSUME NEW s, NEW M, NEW b, b # Nil, b \in Accepted, b.number = s.height,
         s.commitRound \in Int,
         \A x \in s.precommits : Voted(M, "precommit", x[1], s.height, x[2], x[3]),
         b \in TwoThirdMajority(s.precommits, s.commitRound)
  PROVE  CommitIsSound(FinalizeBlock(s, b), M)
<1> DEFINE V == VotersOf(s.precommits, s.commitRound, b)
           S == { i \in V : Cardinality({ j \in V : j < i }) < MinMajority(N) }
<1>1. FinalizeBlock(s, b).block = b /\ FinalizeBlock(s, b).seals = S
  BY Zenon DEF FinalizeBlock
<1>2. Cardinality(V) >= MinMajority(N)
  BY Zenon DEF TwoThirdMajority
<1>3. V \in SUBSET (0 .. N - 1) /\ MinMajority(N) \in Nat \ {0}
  BY MajorityNumber DEF VotersOf
<1>4. Cardinality(S) = MinMajority(N)
  <2> HIDE DEF V
  <2> QED BY Zenon, <1>2, <1>3, FirstSeals
<1>5. ASSUME NEW j \in S
      PROVE  Voted(M, "precommit", j, b.number, s.commitRound, b)
  <2>1. <<j, s.commitRound, b>> \in s.precommits
    BY Zenon DEF VotersOf
  <2> QED BY Zenon, <2>1
<1>6. S \subseteq 0 .. N - 1
  BY Zenon, <1>3
<1> HIDE DEF S
<1> QED BY <1>1, <1>4, <1>5, <1>6, Zenon DEF CommitIsSound

\* CommitInv is kept where the commit round and the commits stay.
LEMMA CommitKept ==
  ASSUME NEW s, NEW t, NEW M, CommitInv(s, M), s.round \in Int, t.round \in Int,
         s.commitRound \in Int,
         s.round <= t.round, s.precommits \subseteq t.precommits,
         t.committed = s.committed, t.commitRound = s.commitRound, t.step = 8 => s.step = 8
  PROVE  CommitInv(t, M)
<1>1. HasMajority(s.precommits, s.commitRound) => HasMajority(t.precommits, s.commitRound)
  BY Zenon, MajorityGrows DEF HasMajority
<1> QED BY <1>1, CommitInvMeans

VoteFields == Timer \cup {"savedMsg", "out", "step", "lockedRound", "lockedBlock"}

\* What a step to Prevote or Precommit does, but for the lock.
VoteEffect(s, t, type, b) ==
  /\ DOMAIN t = CoreFields /\ Same(s, t, VoteFields) /\ t.step = VoteStep(type)
  /\ TimerOK(t) /\ TimerSet(s, t, s.round, VoteStep(type))
  /\ Fresh(s, s.round, VoteStep(type)) => TimerAt(t, s.height, s.round, VoteStep(type))
  /\ t.out = s.out \cup {TheVote(s, type, s.round, b)}
  /\ t.savedMsg = storeSentMsg(s.savedMsg, TheVote(s, type, s.round, b))

\* The timer is never for a step that the core has not reached, so the timeout of
\* a new step is taken by ScheduleTimeout.
LEMMA IsFresh ==
  ASSUME NEW s, TypeInv(s), TimeInv(s), NEW r \in Nat, NEW step \in {3, 4, 5, 6, 7},
         s.round < r \/ (s.round = r /\ s.step < step)
  PROVE  Fresh(s, r, step)
<1>1. IsTimeout(s.ti) /\ s.round \in Nat /\ s.step \in {1, 3, 4, 5, 6, 7, 8} /\ s.height \in Nat
  BY Zenon DEF TypeInv
<1>2. s.ti.number < s.height \/ (s.ti.number = s.height /\ NotAfter(s.ti.round, s.ti.step, s))
  BY Zenon DEF TimeInv
<1>3. s.ti.round \in Nat /\ s.ti.step \in Nat /\ s.ti.number \in Nat
  BY <1>1 DEF IsTimeout
<1> QED BY <1>1, <1>2, <1>3 DEF Fresh, NotAfter

\* A step to Prevote or Precommit keeps all of the invariant but the lock's part.
LEMMA VoteKeeps ==
  ASSUME NEW s, NEW M, CoreInv(s, M), NEW type \in {"prevote", "precommit"}, NEW b,
         b = Nil \/ (b \in Accepted /\ b.number = s.height),
         s.step < VoteStep(type), NEW t, VoteEffect(s, t, type, b),
         t.lockedRound \in Int,
         t.lockedBlock # Nil => t.lockedBlock.number = s.height /\ t.lockedBlock \in Accepted
  PROVE  /\ TypeInv(t) /\ ProposerInv(t) /\ BlockInv(t) /\ ReceivedInv(t, M)
         /\ OutInv(t) /\ StoreInv(t) /\ TimeInv(t) /\ CommitInv(t, M)
         /\ Moves(s, t)
<1> DEFINE vs == VoteStep(type)
           v == TheVote(s, type, s.round, b)
<1>1. /\ TypeInv(s) /\ ProposerInv(s) /\ BlockInv(s) /\ ReceivedInv(s, M)
      /\ OutInv(s) /\ StoreInv(s) /\ TimeInv(s) /\ CommitInv(s, M)
  BY Zenon DEF CoreInv
<1>2. /\ Placed(s) /\ TimerOK(s) /\ s.height \in Nat \ {0} /\ s.round \in Nat
      /\ s.commitRound \in Int
      /\ s.step \in {1, 3, 4, 5, 6, 7, 8}
  BY Zenon, <1>1, CoreInvTypes
<1>3. vs \in {4, 6} /\ s.step < vs
  BY Zenon DEF VoteStep
<1>4. /\ t.address = s.address /\ t.height = s.height /\ t.round = s.round /\ t.block = s.block
      /\ t.validRound = s.validRound /\ t.validBlock = s.validBlock
      /\ t.proposalReceived = s.proposalReceived /\ t.prevotes = s.prevotes
      /\ t.precommits = s.precommits /\ t.precommitWaited = s.precommitWaited
      /\ t.commitRound = s.commitRound /\ t.proposer = s.proposer
      /\ t.futureProposals = s.futureProposals /\ t.futureMessages = s.futureMessages
      /\ t.draining = s.draining /\ t.committed = s.committed /\ t.panicked = s.panicked
  BY Zenon DEF VoteEffect, Same, VoteFields, CoreFields, Timer
<1>5. /\ DOMAIN t = CoreFields /\ t.step = vs /\ TimerOK(t) /\ TimerSet(s, t, s.round, vs)
      /\ Fresh(s, s.round, vs) => TimerAt(t, s.height, s.round, vs)
      /\ t.out = s.out \cup {v} /\ t.savedMsg = storeSentMsg(s.savedMsg, v)
  BY Zenon DEF VoteEffect
<1>6. /\ IsStored(v) /\ IsMessage(v) /\ IsVote(v) /\ StepOf(v) = vs
      /\ v.type = type /\ v.from = s.address /\ v.number = s.height /\ v.round = s.round
      /\ v.block = b
  BY <1>2, TheVoteIs
<1> HIDE DEF v, vs
<1>7. Placed(t) /\ Later(s, t) /\ NotAfter(s.round, vs, t) /\ ~ NotAfter(s.round, vs, s)
  <2>1. t.round = s.round /\ t.step = vs
    BY Zenon, <1>4, <1>5
  <2> QED BY <1>2, <1>3, <2>1 DEF Placed, Later, NotAfter, StepNumber
<1>8. TypeInv(t)
  BY <1>1, <1>3, <1>4, <1>5 DEF TypeInv, TimerOK, RoundStepNewHeight
<1>9. ProposerInv(t)
  BY Zenon, <1>1, <1>4 DEF ProposerInv
<1>10. BlockInv(t)
  BY Zenon, <1>1, <1>4 DEF BlockInv
<1>11. ReceivedInv(t, M)
  BY Zenon, <1>1, <1>4 DEF ReceivedInv
<1>12. OutInv(t)
  BY <1>1, <1>2, <1>4, <1>5, <1>7, OutVote DEF v, vs
<1>13. StoreInv(t)
  <2>1. ASSUME NEW k \in 1 .. Len(s.savedMsg)
        PROVE  Ordered(s.savedMsg[k], v)
    <3>1. IsStored(s.savedMsg[k]) /\ NotAfter(s.savedMsg[k].round, StepOf(s.savedMsg[k]), s)
      BY Zenon, <1>1, StoreInvMeans
    <3>2. s.savedMsg[k].round \in Int /\ StepOf(s.savedMsg[k]) \in {3, 4, 6}
      BY Zenon, <3>1, StepOfType DEF IsStored
    <3> DEFINE m == s.savedMsg[k]
    <3>3. s.round \in Nat /\ s.step \in Nat /\ vs \in Nat /\ s.step < vs
      BY <1>2, <1>3
    <3> HIDE DEF m
    <3>4. m.round < s.round \/ (m.round = s.round /\ StepOf(m) < vs)
      <4>1. m.round < s.round \/ (m.round = s.round /\ StepOf(m) <= s.step)
        BY Zenon, <3>1 DEF NotAfter, m
      <4>2. StepOf(m) \in Int
        BY <3>2 DEF m
      <4> QED BY <4>1, <4>2, <3>3
    <3> QED BY Zenon, <3>4, <1>6 DEF Ordered, m
  <2>2. NotAfter(v.round, StepOf(v), t)
    BY Zenon, <1>6, <1>7
  <2> QED BY Zenon, <2>1, <2>2, <1>1, <1>2, <1>4, <1>5, <1>6, <1>7, StoreAdded
<1>14. TimeInv(t)
  <2>1. t.step = vs /\ t.height = s.height /\ t.precommitWaited = s.precommitWaited
    BY Zenon, <1>4, <1>5
  <2>2. vs # 7 /\ t.step # 7
    BY <2>1, <1>3
  <2> QED BY Zenon, <1>1, <1>2, <1>5, <1>7, <2>1, <2>2, TimeKept
<1>15. CommitInv(t, M)
  <2>1. t.step = vs /\ t.round = s.round
    BY Zenon, <1>4, <1>5
  <2>2. s.round \in Int /\ t.round \in Int /\ s.round <= t.round /\ t.step # 8
    BY <2>1, <1>2, <1>3
  <2> QED BY Zenon, <1>1, <1>2, <1>4, <2>2, CommitKept
<1>16. Moves(s, t)
  <2>1. Fresh(s, s.round, vs)
    BY Zenon, <1>1, <1>2, <1>3, IsFresh
  <2>2. VotesGo(s, t)
    <3>1. Ahead(v, s)
      BY Zenon, <1>2, <1>3, <1>6 DEF Ahead
    <3> QED BY Zenon, <1>4, <1>5, <3>1 DEF VotesGo
  <2> QED BY <2>1, <2>2, <1>2, <1>3, <1>4, <1>5 DEF Moves, Onward, TimerGoes
<1> QED BY Zenon, <1>8, <1>9, <1>10, <1>11, <1>12, <1>13, <1>14, <1>15, <1>16
-----------------------------------------------------------------------------

\* Goes is transitive: the enter functions call one another.
LEMMA GoesTrans ==
  ASSUME NEW s, NEW t, NEW u, NEW M, TypeInv(s), Goes(s, t, M), Goes(t, u, M)
  PROVE  Goes(s, u, M)
<1>1. TypeInv(t) /\ TypeInv(u)
  BY Zenon DEF Goes, CoreInv
<1>2. Placed(s) /\ Placed(t) /\ Placed(u) /\ s.commitRound \in Int /\ t.commitRound \in Int
  BY Zenon, <1>1, CoreInvTypes
<1> QED BY Zenon, <1>2, MovesTrans DEF Goes

\* SendVote, then UpdateRoundStep, on s1, which is s with another timer or lock.
LEMMA VoteIsSent ==
  ASSUME NEW s, TypeInv(s), NEW type \in {"prevote", "precommit"}, NEW b, NEW s1,
         DOMAIN s1 = CoreFields, Same(s, s1, Timer \cup {"lockedRound", "lockedBlock"}),
         TimerOK(s1), TimerSet(s, s1, s.round, VoteStep(type)),
         Fresh(s, s.round, VoteStep(type)) => TimerAt(s1, s.height, s.round, VoteStep(type)),
         NEW t, t = UpdateRoundStep(SendVote(s1, type, b, s.round), s.round, VoteStep(type))
  PROVE  /\ VoteEffect(s, t, type, b) /\ t.lockedRound = s1.lockedRound
         /\ t.lockedBlock = s1.lockedBlock
<1> DEFINE v == TheVote(s, type, s.round, b)
           vs == VoteStep(type)
<1>1. s1.address = s.address /\ s1.height = s.height /\ s1.savedMsg = s.savedMsg /\ s1.out = s.out
  BY Zenon DEF Same, CoreFields, Timer
<1>2. SendVote(s1, type, b, s.round) = Send(s1, v)
  BY Zenon, <1>1 DEF SendVote, TheVote
<1> DEFINE q == storeSentMsg(s.savedMsg, v)
<1> HIDE DEF v, vs, q
<1>3. Send(s1, v) = [s1 EXCEPT !.savedMsg = q, !.out = s.out \cup {v}]
  BY Zenon, <1>1 DEF Send, q
<1>4. t = [[s1 EXCEPT !.savedMsg = q, !.out = s.out \cup {v}] EXCEPT !.round = s.round, !.step = vs]
  BY Zenon, <1>2, <1>3 DEF UpdateRoundStep, vs
<1>5. /\ DOMAIN t = CoreFields /\ t.step = vs /\ t.savedMsg = q /\ t.out = s.out \cup {v}
      /\ t.lockedRound = s1.lockedRound /\ t.lockedBlock = s1.lockedBlock
      /\ t.ti = s1.ti /\ t.armed = s1.armed /\ t.late = s1.late
  BY <1>4 DEF CoreFields
<1>6. Same(s, t, VoteFields)
  <2>1. s1.round = s.round
    BY Zenon DEF Same, CoreFields, Timer
  <2>2. \A f \in CoreFields \ VoteFields : s1[f] = s[f]
    BY Zenon DEF Same, VoteFields
  <2>3. \A f \in CoreFields \ VoteFields : t[f] = s1[f]
    BY <2>1, <1>4, Zenon DEF CoreFields, VoteFields, Timer
  <2> QED BY Zenon, <2>2, <2>3 DEF Same
<1>7. TimerOK(t) /\ TimerSet(s, t, s.round, vs)
      /\ (Fresh(s, s.round, vs) => TimerAt(t, s.height, s.round, vs))
  BY Zenon, <1>5 DEF TimerOK, TimerSet, TimerAt, vs
<1> QED BY Zenon, <1>5, <1>6, <1>7 DEF VoteEffect, v, vs, q

\* enterPrevote keeps the invariant: it votes once, and for the locked block when
\* there is one.
LEMMA EnterPrevoteOK ==
  ASSUME NEW s, NEW M, CoreInv(s, M), NEW r \in Int, r <= s.round, NEW t, t = enterPrevote(s, r)
  PROVE  /\ Goes(s, t, M) /\ t.round = s.round
         /\ r < s.round \/ s.step >= 4 => t = s
         /\ r = s.round /\ s.step < 4 => t.step = 4
<1>1. /\ TypeInv(s) /\ OutInv(s) /\ LockInv(s) /\ BlockInv(s)
  BY Zenon DEF CoreInv
<1>2. /\ Placed(s) /\ s.height \in Nat \ {0} /\ s.round \in Nat
      /\ s.step \in {1, 3, 4, 5, 6, 7, 8}
      /\ s.lockedRound \in Int
  BY Zenon, <1>1, CoreInvTypes
<1>3. CASE r < s.round \/ s.step >= 4
  <2>1. t = s
    BY <1>2, <1>3 DEF enterPrevote, RoundStepPrevote
  <2> QED BY <1>2, <1>3, <2>1, GoesSelf
<1>4. CASE r = s.round /\ s.step < 4
  <2> DEFINE s1 == ScheduleTimeout(s, s.round, 4, 0)
             b == IF s1.lockedRound # -1 THEN s1.lockedBlock
                  ELSE IF s1.proposalReceived = Nil THEN Nil
                  ELSE s1.proposalReceived.block
  <2>1. t = UpdateRoundStep(SendVote(s1, "prevote", b, s.round), s.round, 4)
    BY <1>2, <1>4 DEF enterPrevote, RoundStepPrevote, defaultDoPrevote
  <2>2. /\ DOMAIN s1 = CoreFields /\ Same(s, s1, Timer) /\ TimerOK(s1)
        /\ TimerSet(s, s1, s.round, 4)
        /\ Fresh(s, s.round, 4) => TimerAt(s1, s.height, s.round, 4)
    BY Zenon, <1>1, <1>2, CoreInvTypes, ScheduleEffect
  <2> HIDE DEF s1
  <2>3. Same(s, s1, Timer \cup {"lockedRound", "lockedBlock"})
    BY Zenon, <2>2 DEF Same
  <2>4. /\ s1.lockedRound = s.lockedRound /\ s1.lockedBlock = s.lockedBlock
        /\ s1.proposalReceived = s.proposalReceived
    BY Zenon, <2>2 DEF Same, CoreFields, Timer
  <2>5. VoteStep("prevote") = 4
    BY Zenon DEF VoteStep
  <2>6. s.lockedRound # -1 => b = s.lockedBlock
    BY Zenon, <2>4
  <2>b. b = Nil \/ (b \in Accepted /\ b.number = s.height)
    BY Zenon, <1>1, <2>4 DEF BlockInv
  <2> HIDE DEF b
  <2>7. /\ VoteEffect(s, t, "prevote", b) /\ t.lockedRound = s.lockedRound
        /\ t.lockedBlock = s.lockedBlock
    <3>1. /\ TypeInv(s) /\ TimerSet(s, s1, s.round, VoteStep("prevote"))
          /\ Fresh(s, s.round, VoteStep("prevote")) =>
               TimerAt(s1, s.height, s.round, VoteStep("prevote"))
      BY Zenon, <1>1, <2>2, <2>5
    <3>2. t = UpdateRoundStep(SendVote(s1, "prevote", b, s.round), s.round, VoteStep("prevote"))
      BY Zenon, <2>1, <2>5
    <3>3. DOMAIN s1 = CoreFields /\ TimerOK(s1)
      BY Zenon, <2>2
    <3>4. /\ VoteEffect(s, t, "prevote", b) /\ t.lockedRound = s1.lockedRound
          /\ t.lockedBlock = s1.lockedBlock
      BY <3>1, <3>2, <3>3, <2>3, VoteIsSent
    <3> QED BY Zenon, <3>4, <2>4
  <2>8. s.lockedBlock # Nil => s.lockedBlock.number = s.height /\ s.lockedBlock \in Accepted
    BY Zenon, <1>1 DEF BlockInv
  <2>9. /\ TypeInv(t) /\ ProposerInv(t) /\ BlockInv(t) /\ ReceivedInv(t, M)
        /\ OutInv(t) /\ StoreInv(t) /\ TimeInv(t) /\ CommitInv(t, M)
        /\ Moves(s, t)
    BY <1>2, <1>4, <2>5, <2>7, <2>8, <2>b, VoteKeeps
  <2>10. /\ t.height = s.height /\ t.prevotes = s.prevotes /\ t.round = s.round
         /\ t.precommits = s.precommits /\ t.step = 4
    BY Zenon, <2>5, <2>7 DEF VoteEffect, Same, VoteFields, CoreFields, Timer
  <2>11. LockInv(t)
    <3> DEFINE v == TheVote(s, "prevote", s.round, b)
    <3>1. v.type = "prevote" /\ v.round = s.round /\ v.block = b
      BY Zenon DEF TheVote
    <3>2. t.out = s.out \cup {v}
      BY Zenon, <2>7 DEF VoteEffect
    <3> HIDE DEF v
    <3> QED BY <1>1, <1>2, <2>6, <2>7, <2>10, <3>1, <3>2, LockPrevote
  <2> QED BY <1>2, <1>4, <2>9, <2>10, <2>11 DEF Goes, CoreInv
<1> QED BY <1>2, <1>3, <1>4
-----------------------------------------------------------------------------

\* The vote and the lock of a precommit.
PrecommitRule(s, b, lockedRound, lockedBlock) ==
  LET polka == TwoThirdMajority(s.prevotes, s.round)
  IN  \/ b = Nil /\ lockedRound = s.lockedRound /\ lockedBlock = s.lockedBlock /\ polka = {}
      \/ /\ b # Nil /\ b \in polka /\ lockedRound = s.round /\ lockedBlock = b
         /\ b.number = s.height /\ b \in Accepted
      \/ /\ b = Nil /\ lockedRound = -1 /\ lockedBlock = Nil
         /\ polka # {} /\ (s.lockedBlock = Nil \/ s.lockedBlock \notin polka)

\* enterPrecommit: the precommit, and the lock, for each case of its polka.
LEMMA PrecommitEffect ==
  ASSUME NEW s, TypeInv(s), BlockInv(s), s.step < 6, NEW t, t = enterPrecommit(s, s.round)
  PROVE  \E b : /\ VoteEffect(s, t, "precommit", b)
                /\ PrecommitRule(s, b, t.lockedRound, t.lockedBlock)
<1>1. s.round \in Nat /\ s.step \in {1, 3, 4, 5, 6, 7, 8}
  BY Zenon, CoreInvTypes
<1> DEFINE s1 == ScheduleTimeout(s, s.round, 6, 0)
           polka == TwoThirdMajority(s1.prevotes, s.round)
           proposed == IF s1.proposalReceived = Nil THEN Nil ELSE s1.proposalReceived.block
           r == s.round
           Ends(u, b) == t = UpdateRoundStep(SendVote(u, "precommit", b, r), r, 6)
<1>2. t = UpdateRoundStep(doPrecommit(s1, r), r, 6)
  BY <1>1 DEF enterPrecommit, RoundStepPrecommit
<1>3. /\ DOMAIN s1 = CoreFields /\ Same(s, s1, Timer) /\ TimerOK(s1) /\ TimerSet(s, s1, r, 6)
      /\ Fresh(s, r, 6) => TimerAt(s1, s.height, r, 6)
  BY <1>1, CoreInvTypes, ScheduleEffect
<1>4. polka # {} => POLRoundReaches(s1, r)
  <2>1. s1.round = s.round
    BY Zenon, <1>3 DEF Same, CoreFields, Timer
  <2> QED BY <1>1, <2>1 DEF POLRoundReaches, HasMajority
<1>5. \/ polka = {} /\ Ends(s1, Nil)
      \/ /\ polka # {} /\ s1.lockedBlock # Nil /\ s1.lockedBlock \in polka
         /\ Ends(SetLockedRoundAndBlock(s1, r, s1.lockedBlock), s1.lockedBlock)
      \/ /\ polka # {} /\ proposed # Nil /\ proposed \in polka
         /\ Ends(SetLockedRoundAndBlock(s1, r, proposed), proposed)
      \/ /\ polka # {} /\ (s1.lockedBlock = Nil \/ s1.lockedBlock \notin polka)
         /\ Ends(Unlock(s1), Nil)
  <2>1. t = UpdateRoundStep(
               IF polka = {} THEN SendVote(s1, "precommit", Nil, r)
               ELSE IF s1.lockedBlock # Nil /\ s1.lockedBlock \in polka
                 THEN SendVote(SetLockedRoundAndBlock(s1, r, s1.lockedBlock), "precommit",
                               s1.lockedBlock, r)
               ELSE IF proposed # Nil /\ proposed \in polka
                 THEN SendVote(SetLockedRoundAndBlock(s1, r, proposed), "precommit", proposed, r)
               ELSE SendVote(Unlock(s1), "precommit", Nil, r), r, 6)
    BY Zenon, <1>2, <1>4 DEF doPrecommit
  <2> HIDE DEF polka, proposed, s1
  <2> QED BY Zenon, <2>1
<1>6. /\ s1.lockedRound = s.lockedRound /\ s1.lockedBlock = s.lockedBlock
      /\ s1.prevotes = s.prevotes
      /\ s1.proposalReceived = s.proposalReceived
  BY Zenon, <1>3 DEF Same, CoreFields, Timer
<1> HIDE DEF s1
<1>7. ASSUME NEW u, NEW b, DOMAIN u = CoreFields, Same(s1, u, {"lockedRound", "lockedBlock"}),
             u.ti = s1.ti, u.armed = s1.armed, u.late = s1.late, Ends(u, b)
      PROVE  /\ VoteEffect(s, t, "precommit", b) /\ t.lockedRound = u.lockedRound
             /\ t.lockedBlock = u.lockedBlock
  <2>1. VoteStep("precommit") = 6
    BY Zenon DEF VoteStep
  <2>2. Same(s, u, Timer \cup {"lockedRound", "lockedBlock"})
    BY Zenon, <1>3, <1>7 DEF Same
  <2>3. TimerOK(u) /\ TimerSet(s, u, r, 6) /\ (Fresh(s, r, 6) => TimerAt(u, s.height, r, 6))
    BY Zenon, <1>3, <1>7 DEF TimerOK, TimerSet, TimerAt
  <2> QED BY <1>7, <2>1, <2>2, <2>3, VoteIsSent
<1> HIDE DEF Ends
<1>8. CASE polka = {} /\ Ends(s1, Nil)
  <2>1. Same(s1, s1, {"lockedRound", "lockedBlock"})
    BY Zenon DEF Same
  <2>2. /\ VoteEffect(s, t, "precommit", Nil) /\ t.lockedRound = s.lockedRound
        /\ t.lockedBlock = s.lockedBlock
    BY Zenon, <1>3, <1>6, <1>7, <1>8, <2>1
  <2> QED BY Zenon, <2>2, <1>6, <1>8 DEF PrecommitRule
<1>9. ASSUME NEW b, b # Nil, b \in polka, Ends(SetLockedRoundAndBlock(s1, r, b), b),
             b.number = s.height, b \in Accepted
      PROVE  VoteEffect(s, t, "precommit", b) /\ PrecommitRule(s, b, t.lockedRound, t.lockedBlock)
  <2> DEFINE u == SetLockedRoundAndBlock(s1, r, b)
  <2>1. /\ DOMAIN u = CoreFields /\ Same(s1, u, {"lockedRound", "lockedBlock"})
        /\ u.lockedRound = r /\ u.lockedBlock = b
        /\ u.ti = s1.ti /\ u.armed = s1.armed /\ u.late = s1.late
    BY <1>3, Zenon DEF SetLockedRoundAndBlock, CoreFields, Same
  <2>2. Ends(u, b)
    BY Zenon, <1>9
  <2> HIDE DEF u
  <2>3. VoteEffect(s, t, "precommit", b) /\ t.lockedRound = r /\ t.lockedBlock = b
    BY Zenon, <1>7, <2>1, <2>2
  <2> QED BY Zenon, <2>3, <1>6, <1>9 DEF PrecommitRule
<1>10. CASE /\ polka # {} /\ (s1.lockedBlock = Nil \/ s1.lockedBlock \notin polka)
            /\ Ends(Unlock(s1), Nil)
  <2> DEFINE u == Unlock(s1)
  <2>1. /\ DOMAIN u = CoreFields /\ Same(s1, u, {"lockedRound", "lockedBlock"})
        /\ u.lockedRound = -1 /\ u.lockedBlock = Nil
        /\ u.ti = s1.ti /\ u.armed = s1.armed /\ u.late = s1.late
    BY <1>3, Zenon DEF Unlock, CoreFields, Same
  <2>2. Ends(u, Nil)
    BY Zenon, <1>10
  <2> HIDE DEF u
  <2>3. VoteEffect(s, t, "precommit", Nil) /\ t.lockedRound = -1 /\ t.lockedBlock = Nil
    BY Zenon, <1>7, <2>1, <2>2
  <2> QED BY Zenon, <2>3, <1>6, <1>10 DEF PrecommitRule
<1>11. CASE /\ s1.lockedBlock # Nil /\ s1.lockedBlock \in polka
            /\ Ends(SetLockedRoundAndBlock(s1, r, s1.lockedBlock), s1.lockedBlock)
  <2>1. s1.lockedBlock.number = s.height /\ s1.lockedBlock \in Accepted
    BY Zenon, <1>6, <1>11 DEF BlockInv
  <2> QED BY Zenon, <1>9, <1>11, <2>1
<1>12. CASE /\ proposed # Nil /\ proposed \in polka
            /\ Ends(SetLockedRoundAndBlock(s1, r, proposed), proposed)
  <2>1. proposed.number = s.height /\ proposed \in Accepted
    BY Zenon, <1>6, <1>12 DEF BlockInv
  <2> QED BY Zenon, <1>9, <1>12, <2>1
<1> HIDE DEF polka, proposed
<1> QED BY Zenon, <1>5, <1>8, <1>10, <1>11, <1>12

\* enterPrecommit keeps the invariant.
LEMMA EnterPrecommitOK ==
  ASSUME NEW s, NEW M, CoreInv(s, M), NEW r \in Int, r <= s.round, NEW t,
         t = enterPrecommit(s, r)
  PROVE  /\ Goes(s, t, M) /\ t.round = s.round
         /\ r < s.round \/ s.step >= 6 => t = s
         /\ r = s.round /\ s.step < 6 => t.step = 6
<1>1. /\ TypeInv(s) /\ OutInv(s) /\ LockInv(s) /\ BlockInv(s)
  BY Zenon DEF CoreInv
<1>2. /\ Placed(s) /\ s.height \in Nat \ {0} /\ s.round \in Nat
      /\ s.step \in {1, 3, 4, 5, 6, 7, 8}
      /\ s.lockedRound \in Int
  BY Zenon, <1>1, CoreInvTypes
<1>3. CASE r < s.round \/ s.step >= 6
  <2>1. t = s
    BY <1>2, <1>3 DEF enterPrecommit, RoundStepPrecommit
  <2> QED BY <1>2, <1>3, <2>1, GoesSelf
<1>4. CASE r = s.round /\ s.step < 6
  <2>1. PICK b : /\ VoteEffect(s, t, "precommit", b)
                 /\ PrecommitRule(s, b, t.lockedRound, t.lockedBlock)
    BY Zenon, <1>1, <1>4, PrecommitEffect
  <2>2. VoteStep("precommit") = 6
    BY Zenon DEF VoteStep
  <2>3. /\ t.lockedRound \in Int
        /\ t.lockedBlock # Nil => t.lockedBlock.number = s.height /\ t.lockedBlock \in Accepted
        /\ b = Nil \/ (b \in Accepted /\ b.number = s.height)
    BY <1>1, <1>2, <2>1 DEF PrecommitRule, BlockInv
  <2>4. /\ TypeInv(t) /\ ProposerInv(t) /\ BlockInv(t) /\ ReceivedInv(t, M)
        /\ OutInv(t) /\ StoreInv(t) /\ TimeInv(t) /\ CommitInv(t, M)
        /\ Moves(s, t)
    BY Zenon, <1>2, <1>4, <2>1, <2>2, <2>3, VoteKeeps
  <2>5. /\ t.height = s.height /\ t.prevotes = s.prevotes /\ t.round = s.round
        /\ t.precommits = s.precommits /\ t.step = 6
    BY Zenon, <2>1, <2>2 DEF VoteEffect, Same, VoteFields, CoreFields, Timer
  <2>6. LockInv(t)
    <3> DEFINE v == TheVote(s, "precommit", s.round, b)
    <3>1. v.type = "precommit" /\ v.round = s.round /\ v.block = b
      BY Zenon DEF TheVote
    <3>2. t.out = s.out \cup {v}
      BY Zenon, <2>1 DEF VoteEffect
    <3> HIDE DEF v
    <3>3. LockIsSound(s)
      BY Zenon, <1>1, LockInvMeans
    <3>4. LockIsSound(t)
      BY <1>2, <2>1, <2>5, <3>3 DEF LockIsSound, PrecommitRule
    <3>5. ASSUME NEW r0 \in 0 .. s.round - 1, s.lockedRound >= r0, s.lockedBlock # Nil
          PROVE  LockHeld(t, s.lockedBlock, r0)
      <4> DEFINE polka == TwoThirdMajority(s.prevotes, s.round)
      <4>1. polka \ {s.lockedBlock} # {} => Released(t, s.lockedBlock, r0, t.round)
        <5>1. s.round \in r0 + 1 .. t.round
          BY <1>2, <2>5
        <5> QED BY Zenon, <5>1, <2>5 DEF Released
      <4>2. polka = TwoThirdMajority(s.prevotes, s.round)
        BY Zenon
      <4> HIDE DEF polka
      <4>3. CASE b = Nil /\ t.lockedRound = s.lockedRound /\ t.lockedBlock = s.lockedBlock
        BY Zenon, <3>5, <4>3 DEF LockHeld
      <4>4. CASE b \in polka /\ t.lockedRound = s.round /\ t.lockedBlock = b
        <5>1. CASE b = s.lockedBlock
          BY <1>2, <4>4, <5>1 DEF LockHeld
        <5>2. CASE b # s.lockedBlock
          BY Zenon, <4>1, <4>4, <5>2 DEF LockHeld
        <5> QED BY Zenon, <5>1, <5>2
      <4>5. CASE polka # {} /\ s.lockedBlock \notin polka
        BY Zenon, <4>1, <4>5 DEF LockHeld
      <4> QED BY Zenon, <2>1, <3>5, <4>2, <4>3, <4>4, <4>5 DEF PrecommitRule
    <3>6. ASSUME NEW m \in s.out, IsVote(m), m.type = "precommit", m.number = s.height
          PROVE  m.round < s.round
      <4>1. IsMessage(m)
        BY Zenon, <1>1 DEF OutInv
      <4>2. StepOf(m) = 6
        BY Zenon, <3>6, <4>1, VoteIsStored, StepOfType
      <4>3. /\ m.round \in Nat
            /\ m.number < s.height \/ (m.number = s.height /\ NotAfter(m.round, StepOf(m), s))
        BY Zenon, <1>1, <3>6 DEF OutInv
      <4> QED BY <1>2, <1>4, <3>6, <4>2, <4>3 DEF NotAfter
    <3>7. b # Nil => /\ b \in TwoThirdMajority(s.prevotes, s.round)
                     /\ t.lockedBlock = b /\ t.lockedRound = s.round
      BY Zenon, <2>1 DEF PrecommitRule
    <3> QED BY <1>1, <1>2, <2>5, <3>1, <3>2, <3>4, <3>5, <3>6, <3>7, LockPrecommit
  <2> QED BY <1>2, <1>4, <2>4, <2>5, <2>6 DEF Goes, CoreInv
<1> QED BY <1>2, <1>3, <1>4
-----------------------------------------------------------------------------

WaitFields == Timer \cup {"step", "precommitWaited"}

\* A step to PrevoteWait or PrecommitWait keeps the invariant, the return from
\* Commit included.
LEMMA WaitKeeps ==
  ASSUME NEW s, NEW M, CoreInv(s, M), NEW w \in {5, 7}, NEW t,
         DOMAIN t = CoreFields, Same(s, t, WaitFields), t.step = w,
         TimerOK(t), TimerSet(s, t, s.round, w), TimerAt(t, s.height, s.round, w),
         t.precommitWaited \in BOOLEAN, s.precommitWaited => t.precommitWaited,
         w = 7 => t.precommitWaited,
         s.step <= w \/ (w = 7 /\ s.step = 8 /\ s.commitRound < s.round)
  PROVE  Goes(s, t, M) /\ t.round = s.round
<1>1. /\ TypeInv(s) /\ ProposerInv(s) /\ BlockInv(s) /\ ReceivedInv(s, M)
      /\ OutInv(s) /\ StoreInv(s) /\ TimeInv(s) /\ LockInv(s) /\ CommitInv(s, M)
  BY Zenon DEF CoreInv
<1>2. /\ Placed(s) /\ TimerOK(s) /\ s.height \in Nat \ {0} /\ s.round \in Nat
      /\ s.commitRound \in Int
      /\ s.step \in {1, 3, 4, 5, 6, 7, 8} /\ s.lockedRound \in Int
  BY Zenon, <1>1, CoreInvTypes
<1>3. /\ t.address = s.address /\ t.height = s.height /\ t.round = s.round /\ t.block = s.block
      /\ t.validRound = s.validRound /\ t.validBlock = s.validBlock
      /\ t.lockedRound = s.lockedRound /\ t.lockedBlock = s.lockedBlock
      /\ t.proposalReceived = s.proposalReceived /\ t.prevotes = s.prevotes
      /\ t.precommits = s.precommits
      /\ t.commitRound = s.commitRound /\ t.proposer = s.proposer
      /\ t.futureProposals = s.futureProposals /\ t.futureMessages = s.futureMessages
      /\ t.draining = s.draining /\ t.committed = s.committed /\ t.panicked = s.panicked
      /\ t.savedMsg = s.savedMsg /\ t.out = s.out
  BY DEF Same, WaitFields, CoreFields, Timer
<1>4. Placed(t) /\ Later(s, t) /\ NotAfter(s.round, w, t)
  BY <1>2, <1>3 DEF Placed, Later, NotAfter, StepNumber
<1>5. TypeInv(t)
  BY <1>1, <1>3 DEF TypeInv, TimerOK, RoundStepNewHeight
<1>6. ProposerInv(t)
  BY Zenon, <1>1, <1>3 DEF ProposerInv
<1>7. BlockInv(t)
  BY <1>1, <1>3 DEF BlockInv
<1>8. ReceivedInv(t, M)
  BY Zenon, <1>1, <1>3 DEF ReceivedInv
<1>9. OutInv(t)
  BY Zenon, <1>1, <1>2, <1>3, <1>4, OutKept
<1>10. StoreInv(t)
  BY Zenon, <1>1, <1>2, <1>3, <1>4, StoreKept
<1>11. TimeInv(t)
  BY Zenon, <1>1, <1>2, <1>3, <1>4, TimeKept
<1>12. LockInv(t)
  <2>1. LockIsSound(t)
    BY Zenon, <1>1, <1>3, LockInvMeans DEF LockIsSound
  <2>2. \A b, r0 : s.lockedBlock = b /\ s.lockedRound >= r0 /\ b # Nil /\ r0 \in Nat =>
           LockHeld(t, b, r0)
    BY Zenon, <1>3 DEF LockHeld
  <2> QED BY <1>1, <1>2, <1>3, <1>4, <2>1, <2>2, LockKept
<1>13. CommitInv(t, M)
  BY <1>1, <1>2, <1>3, CommitKept
<1>14. Moves(s, t)
  BY <1>2, <1>3 DEF Moves, Onward, VotesGo, TimerGoes
<1> QED BY Zenon, <1>3, <1>5, <1>6, <1>7, <1>8, <1>9, <1>10, <1>11, <1>12, <1>13, <1>14 DEF Goes,
           CoreInv

\* The timeout of a wait is set: it is later than the one of the step before.
LEMMA WaitIsSet ==
  ASSUME NEW s, TypeInv(s), NEW w \in {5, 7}, Fresh(s, s.round, w), NEW t,
         DOMAIN t = CoreFields, t.step = w,
         Same(ScheduleTimeout(s, s.round, w, 0), t, {"step", "precommitWaited"})
  PROVE  /\ Same(s, t, WaitFields)
         /\ TimerOK(t) /\ TimerSet(s, t, s.round, w) /\ TimerAt(t, s.height, s.round, w)
<1> DEFINE s1 == ScheduleTimeout(s, s.round, w, 0)
<1>1. s.round \in Nat
  BY Zenon, CoreInvTypes
<1>2. /\ DOMAIN s1 = CoreFields /\ Same(s, s1, Timer) /\ TimerOK(s1)
      /\ TimerSet(s, s1, s.round, w)
      /\ TimerAt(s1, s.height, s.round, w)
  BY <1>1, CoreInvTypes, ScheduleEffect
<1>3. Same(s1, t, {"step", "precommitWaited"})
  BY Zenon
<1> HIDE DEF s1
<1>4. t.ti = s1.ti /\ t.armed = s1.armed /\ t.late = s1.late
  BY Zenon, <1>3 DEF Same, CoreFields
<1>5. Same(s, t, WaitFields)
  BY Zenon, <1>2, <1>3 DEF Same, WaitFields
<1>6. TimerOK(t) /\ TimerSet(s, t, s.round, w) /\ TimerAt(t, s.height, s.round, w)
  BY Zenon, <1>2, <1>4 DEF TimerOK, TimerSet, TimerAt
<1> QED BY Zenon, <1>5, <1>6

\* enterPrevoteWait keeps the invariant.
LEMMA EnterPrevoteWaitOK ==
  ASSUME NEW s, NEW M, CoreInv(s, M), NEW t, t = enterPrevoteWait(s, s.round)
  PROVE  Goes(s, t, M) /\ t.round = s.round
<1>1. TypeInv(s) /\ TimeInv(s)
  BY Zenon DEF CoreInv
<1>2. s.round \in Nat /\ s.step \in {1, 3, 4, 5, 6, 7, 8}
  BY Zenon, <1>1, CoreInvTypes
<1>3. CASE s.step >= 5
  <2>1. t = s
    BY Zenon, <1>2, <1>3 DEF enterPrevoteWait, RoundStepPrevoteWait
  <2> QED BY Zenon, <2>1, GoesSelf
<1>4. CASE s.step < 5
  <2>1. t = UpdateRoundStep(ScheduleTimeout(s, s.round, 5, 0), s.round, 5)
    BY <1>2, <1>4 DEF enterPrevoteWait, RoundStepPrevoteWait
  <2>2. Fresh(s, s.round, 5)
    BY Zenon, <1>1, <1>2, <1>4, IsFresh
  <2> DEFINE s1 == ScheduleTimeout(s, s.round, 5, 0)
  <2>3. DOMAIN s1 = CoreFields /\ Same(s, s1, Timer)
    BY <1>1, <1>2, CoreInvTypes, ScheduleEffect
  <2>4. t = UpdateRoundStep(s1, s.round, 5)
    BY Zenon, <2>1
  <2> HIDE DEF s1
  <2>5. s1.round = s.round /\ s1.precommitWaited = s.precommitWaited
    BY Zenon, <2>3 DEF Same, CoreFields, Timer
  <2>6. /\ DOMAIN t = CoreFields /\ t.step = 5 /\ t.precommitWaited = s.precommitWaited
        /\ Same(s1, t, {"step", "precommitWaited"})
    BY <2>3, <2>4, <2>5, Zenon DEF UpdateRoundStep, CoreFields, Same
  <2>7. /\ Same(s, t, WaitFields) /\ TimerOK(t) /\ TimerSet(s, t, s.round, 5)
        /\ TimerAt(t, s.height, s.round, 5)
    BY Zenon, <1>1, <2>2, <2>6, WaitIsSet DEF s1
  <2>8. s.precommitWaited \in BOOLEAN
    BY Zenon, <1>1 DEF TypeInv
  <2>9. t.precommitWaited \in BOOLEAN /\ (s.precommitWaited => t.precommitWaited)
    BY Zenon, <2>6, <2>8
  <2> QED BY <1>2, <1>4, <2>6, <2>7, <2>9, WaitKeeps
<1> QED BY <1>2, <1>3, <1>4

\* enterPrecommitWait keeps the invariant, called as handlePrecommit calls it:
\* with two thirds of any precommits and no majority for one.
LEMMA EnterPrecommitWaitOK ==
  ASSUME NEW s, NEW M, CoreInv(s, M), HasTwoThirdAny(s.precommits, s.round),
         ~ HasMajority(s.precommits, s.round), NEW t, t = enterPrecommitWait(s, s.round)
  PROVE  Goes(s, t, M) /\ t.round = s.round
<1>1. TypeInv(s) /\ TimeInv(s) /\ CommitInv(s, M)
  BY Zenon DEF CoreInv
<1>2. /\ s.round \in Nat /\ s.step \in {1, 3, 4, 5, 6, 7, 8} /\ s.commitRound \in Int
      /\ s.height \in Nat
  BY Zenon, <1>1, CoreInvTypes
<1>3. CASE s.precommitWaited
  <2>1. t = s
    BY Zenon, <1>2, <1>3 DEF enterPrecommitWait
  <2> QED BY Zenon, <2>1, GoesSelf
<1>4. CASE ~ s.precommitWaited
  <2>1. t = [UpdateRoundStep(ScheduleTimeout(s, s.round, 7, 0), s.round, 7)
               EXCEPT !.precommitWaited = TRUE]
    BY <1>2, <1>4 DEF enterPrecommitWait, RoundStepPrecommitWait
  <2>2. Fresh(s, s.round, 7)
    <3>1. IsTimeout(s.ti)
      BY Zenon, <1>1 DEF TypeInv
    <3>2. /\ \/ s.ti.number < s.height
             \/ s.ti.number = s.height /\ NotAfter(s.ti.round, s.ti.step, s)
          /\ s.ti.number = s.height /\ s.ti.round = s.round /\ s.ti.step = 7 => s.precommitWaited
      BY Zenon, <1>1 DEF TimeInv, RoundStepPrecommitWait
    <3>3. s.ti.round \in Nat /\ s.ti.step \in {0, 1, 3, 4, 5, 6, 7} /\ s.ti.number \in Nat
      BY Zenon, <3>1 DEF IsTimeout
    <3> QED BY <1>2, <1>4, <3>2, <3>3 DEF Fresh, NotAfter
  <2> DEFINE s1 == ScheduleTimeout(s, s.round, 7, 0)
  <2>3. DOMAIN s1 = CoreFields /\ Same(s, s1, Timer)
    BY <1>1, <1>2, CoreInvTypes, ScheduleEffect
  <2>4. t = [UpdateRoundStep(s1, s.round, 7) EXCEPT !.precommitWaited = TRUE]
    BY Zenon, <2>1
  <2> HIDE DEF s1
  <2>5. s1.round = s.round
    BY Zenon, <2>3 DEF Same, CoreFields, Timer
  <2>6. DOMAIN t = CoreFields /\ t.step = 7 /\ Same(s1, t, {"step", "precommitWaited"})
    BY <2>3, <2>4, <2>5, Zenon DEF UpdateRoundStep, CoreFields, Same
  <2>7. /\ Same(s, t, WaitFields) /\ TimerOK(t) /\ TimerSet(s, t, s.round, 7)
        /\ TimerAt(t, s.height, s.round, 7)
    BY Zenon, <1>1, <2>2, <2>6, WaitIsSet DEF s1
  <2>8. s.step = 8 => s.commitRound < s.round
    BY <1>1, <1>2, CommitInvMeans
  <2>9. t.precommitWaited \in BOOLEAN /\ t.precommitWaited
    BY Zenon, <2>3, <2>4 DEF UpdateRoundStep, CoreFields
  <2>10. s.step <= 7 \/ (s.step = 8 /\ s.commitRound < s.round)
    BY <1>2, <2>8
  <2> QED BY <2>6, <2>7, <2>9, <2>10, WaitKeeps, Zenon
<1> QED BY Zenon, <1>3, <1>4
-----------------------------------------------------------------------------

\* CalcProposer: the proposer moves on by the rounds passed, so it depends on the
\* round only, not on the rounds that the core went through.
LEMMA ProposerAdvances ==
  ASSUME NEW s, ProposerInv(s), s.height \in Nat, s.round \in Nat, NEW r \in Nat, s.round <= r
  PROVE  /\ CalcProposer(N, s.proposer, r - s.round)
              = CalcProposer(N, InitialProposer(N, s.height), r)
         /\ CalcProposer(N, s.proposer, r - s.round) \in Int
<1> DEFINE p == InitialProposer(N, s.height)
           d == r - s.round
           a == p + s.round
<1>1. N \in Nat \ {0}
  BY Zenon, NAssumption
<1>2. p \in Nat
  <2> DEFINE h == IF s.height > 0 THEN s.height - 1 ELSE s.height
  <2>1. h \in Nat
    OBVIOUS
  <2>2. p = h % N
    BY Zenon DEF InitialProposer
  <2> HIDE DEF h, p
  <2> QED BY <1>1, <2>1, <2>2
<1>3. d \in Nat /\ a \in Nat /\ a + d = p + r
  BY <1>2
<1>4. s.proposer = a % N
  BY Zenon DEF ProposerInv, CalcProposer
<1>5. CalcProposer(N, s.proposer, d) = ((a % N) + d) % N
  BY Zenon, <1>4 DEF CalcProposer
<1>6. CalcProposer(N, p, r) = (p + r) % N
  BY Zenon DEF CalcProposer
<1> HIDE DEF p, d, a
<1>7. ((a % N) + d) % N = (a + d) % N
  BY <1>1, <1>3, ModAdd, Zenon
<1>8. (p + r) % N \in Int
  BY <1>1, <1>2
<1> QED BY Zenon, <1>3, <1>5, <1>6, <1>7, <1>8 DEF p, d

\* The timer, the votes and the proposals of t were not touched but for the round.
NewRoundFields ==
  Timer \cup {"savedMsg", "out", "round", "step", "proposer", "proposalReceived", "precommitWaited"}

\* A step to a new round keeps the invariant.
LEMMA NewRoundKeeps ==
  ASSUME NEW s, NEW M, CoreInv(s, M), NEW r \in Nat, s.round < r \/ (s.round = r /\ s.step = 1),
         NEW t, DOMAIN t = CoreFields, Same(s, t, NewRoundFields), t.round = r, t.step = 3,
         t.precommitWaited \in BOOLEAN, t.proposer = CalcProposer(N, s.proposer, r - s.round),
         t.proposalReceived = IF r > 0 THEN Nil ELSE s.proposalReceived,
         TimerOK(t), TimerSet(s, t, r, 3), TimerAt(t, s.height, r, 3),
         \/ t.out = s.out /\ t.savedMsg = s.savedMsg
         \/ \E m : /\ IsStored(m) /\ m.type = "propose" /\ m.from = s.address /\ m.round = r
                   /\ t.out = s.out \cup {m} /\ t.savedMsg = storeSentMsg(s.savedMsg, m)
  PROVE  Goes(s, t, M)
<1>1. /\ TypeInv(s) /\ ProposerInv(s) /\ BlockInv(s) /\ ReceivedInv(s, M)
      /\ OutInv(s) /\ StoreInv(s) /\ TimeInv(s) /\ LockInv(s) /\ CommitInv(s, M)
  BY Zenon DEF CoreInv
<1>2. /\ Placed(s) /\ TimerOK(s) /\ s.height \in Nat \ {0} /\ s.round \in Nat
      /\ s.commitRound \in Int
      /\ s.step \in {1, 3, 4, 5, 6, 7, 8} /\ s.lockedRound \in Int
  BY Zenon, <1>1, CoreInvTypes
<1>3. /\ t.address = s.address /\ t.height = s.height /\ t.block = s.block
      /\ t.validRound = s.validRound /\ t.validBlock = s.validBlock
      /\ t.lockedRound = s.lockedRound /\ t.lockedBlock = s.lockedBlock
      /\ t.prevotes = s.prevotes /\ t.precommits = s.precommits
      /\ t.commitRound = s.commitRound
      /\ t.futureProposals = s.futureProposals /\ t.futureMessages = s.futureMessages
      /\ t.draining = s.draining /\ t.committed = s.committed /\ t.panicked = s.panicked
  BY DEF Same, NewRoundFields, CoreFields, Timer
<1>4. Placed(t) /\ Later(s, t) /\ NotAfter(r, 3, t) /\ s.round <= r
  BY <1>2 DEF Placed, Later, NotAfter, StepNumber
<1>5. t.proposer = CalcProposer(N, InitialProposer(N, s.height), r) /\ t.proposer \in Int
  <2>1. s.height \in Nat
    BY <1>2
  <2> QED BY <1>1, <1>2, <1>4, <2>1, ProposerAdvances
<1>6. TypeInv(t)
  BY <1>1, <1>3, <1>5 DEF TypeInv, TimerOK, RoundStepNewHeight
<1>7. ProposerInv(t)
  BY Zenon, <1>3, <1>5 DEF ProposerInv
<1>8. BlockInv(t)
  BY <1>1, <1>2, <1>3, <1>4 DEF BlockInv
<1>9. ReceivedInv(t, M)
  BY Zenon, <1>1, <1>3 DEF ReceivedInv
<1>10. OutInv(t) /\ StoreInv(t) /\ (\A x \in t.out : IsVote(x) => x \in s.out)
  <2>1. s.round < r \/ (s.round = r /\ s.step <= 3)
    BY <1>2
  <2> QED BY Zenon, <1>1, <1>3, <1>4, <2>1, ProposalKept
<1>11. TimeInv(t)
  <2>1. s.round = t.round => ~ s.step >= 7
    BY <1>2
  <2>2. t.step # 7
    OBVIOUS
  <2> QED BY Zenon, <1>1, <1>2, <1>3, <1>4, <2>1, <2>2, TimeKept
<1>12. LockInv(t)
  <2>0. LockIsSound(s)
    BY Zenon, <1>1, LockInvMeans
  <2>1. LockIsSound(t)
    BY <1>2, <1>3, <1>4, <2>0 DEF LockIsSound
  <2>2. \A b, r0 : s.lockedBlock = b /\ s.lockedRound >= r0 /\ b # Nil /\ r0 \in Nat =>
           LockHeld(t, b, r0)
    BY Zenon, <1>3 DEF LockHeld
  <2> QED BY Zenon, <1>1, <1>2, <1>3, <1>4, <1>10, <2>1, <2>2, LockKept
<1>13. CommitInv(t, M)
  BY <1>1, <1>2, <1>3, <1>4, CommitKept
<1>14. Moves(s, t)
  BY <1>2, <1>3, <1>4, <1>10 DEF Moves, Onward, VotesGo, TimerGoes
<1> QED BY Zenon, <1>3, <1>6, <1>7, <1>8, <1>9, <1>10, <1>11, <1>12, <1>13, <1>14 DEF Goes, CoreInv
-----------------------------------------------------------------------------

\* The state that enterNewRound makes before it calls enterPropose.
NewRoundState(s, r) ==
  [s EXCEPT !.proposer = CalcProposer(N, @, r - s.round),
            !.proposalReceived = IF r > 0 THEN Nil ELSE @,
            !.round = r, !.step = RoundStepNewRound,
            !.precommitWaited = FALSE]

\* enterPropose on the state that enterNewRound has made keeps the invariant.
LEMMA EnterRoundOK ==
  ASSUME NEW s, NEW M, CoreInv(s, M), NEW r \in Nat, s.round < r \/ (s.round = r /\ s.step = 1),
         NEW t, t = enterPropose(NewRoundState(s, r), r)
  PROVE  Goes(s, t, M) /\ t.round = r /\ t.step >= 3
<1>1. TypeInv(s) /\ TimeInv(s) /\ BlockInv(s)
  BY Zenon DEF CoreInv
<1>2. /\ DOMAIN s = CoreFields /\ TimerOK(s) /\ s.height \in Nat /\ s.validRound \in Int
      /\ s.round \in Nat /\ s.step \in {1, 3, 4, 5, 6, 7, 8}
  BY Zenon, <1>1, CoreInvTypes
<1> DEFINE F1 == {"proposer", "proposalReceived", "round", "step", "precommitWaited"}
           pr == IF r > 0 THEN Nil ELSE s.proposalReceived
           p == CalcProposer(N, s.proposer, r - s.round)
           s1 == NewRoundState(s, r)
<1>3. /\ DOMAIN s1 = CoreFields /\ Same(s, s1, F1)
      /\ s1.proposer = p /\ s1.proposalReceived = pr
      /\ s1.round = r /\ s1.step = 2 /\ s1.precommitWaited \in BOOLEAN
  <2> HIDE DEF p
  <2>1. s1 = [s EXCEPT !.proposer = p, !.proposalReceived = pr, !.round = r, !.step = 2,
                       !.precommitWaited = FALSE]
    BY Zenon DEF NewRoundState, RoundStepNewRound, p
  <2> HIDE DEF pr, s1
  <2>2. DOMAIN s1 = CoreFields /\ Same(s, s1, F1)
    BY <1>2, <2>1, Zenon DEF CoreFields, Same
  <2>3. s1.proposer = p /\ s1.proposalReceived = pr /\ s1.round = r /\ s1.step = 2
    BY Zenon, <1>2, <2>1 DEF CoreFields
  <2>4. s1.precommitWaited \in BOOLEAN
    BY Zenon, <1>2, <2>1 DEF CoreFields
  <2> QED BY Zenon, <2>2, <2>3, <2>4
<1>t. t = enterPropose(s1, r)
  BY Zenon
<1> HIDE DEF s1
<1> HIDE DEF p, pr
<1>4. /\ s1.ti = s.ti /\ s1.late = s.late /\ s1.armed = s.armed /\ s1.height = s.height
      /\ s1.validRound = s.validRound /\ s1.validBlock = s.validBlock /\ s1.block = s.block
      /\ s1.address = s.address /\ s1.out = s.out /\ s1.savedMsg = s.savedMsg
  BY Zenon, <1>3 DEF Same, CoreFields
<1>5. TimerOK(s1)
  BY Zenon, <1>2, <1>4 DEF TimerOK
<1> DEFINE s2 == ScheduleTimeout(s1, r, 3, 0)
           s3 == ProposeIfProposer(s2, r)
           s4 == UpdateRoundStep(s3, r, 3)
<1>6. /\ DOMAIN s2 = CoreFields /\ Same(s1, s2, Timer) /\ TimerOK(s2) /\ TimerSet(s1, s2, r, 3)
      /\ Fresh(s1, r, 3) => TimerAt(s2, s1.height, r, 3)
  <2>1. s1.height \in Nat /\ 3 \in {1, 3, 4, 5, 6, 7} /\ 0 \in Nat
    BY <1>2, <1>4
  <2> QED BY <1>3, <1>5, <2>1, ScheduleEffect
<1>7. t = IF IsProposalComplete(s4) THEN enterPrevote(s4, r) ELSE s4
  BY <1>t, <1>3 DEF enterPropose, RoundStepPropose
<1> HIDE DEF s2
<1>8. /\ s2.height = s.height /\ s2.address = s.address /\ s2.out = s.out
      /\ s2.savedMsg = s.savedMsg
      /\ s2.validRound = s.validRound /\ s2.validBlock = s.validBlock /\ s2.block = s.block
  BY <1>4, <1>6 DEF Same, CoreFields, Timer
<1>9. /\ DOMAIN s3 = CoreFields /\ Same(s2, s3, {"savedMsg", "out"})
      /\ \/ s3 = s2
         \/ \E m : /\ IsStored(m) /\ m.type = "propose" /\ m.from = s2.address /\ m.round = r
                   /\ s3.out = s2.out \cup {m} /\ s3.savedMsg = storeSentMsg(s2.savedMsg, m)
  <2>1. /\ s2.block # Nil => s2.block.number \in Nat
        /\ s2.validRound # -1 => s2.validBlock.number \in Nat
        /\ s2.validRound \in Int
    BY Zenon, <1>1, <1>2, <1>8 DEF BlockInv
  <2> QED BY <1>6, <2>1, ProposeEffect
<1> HIDE DEF s3
<1>10. /\ DOMAIN s4 = CoreFields /\ s4.round = r /\ s4.step = 3 /\ s4.out = s3.out
       /\ s4.savedMsg = s3.savedMsg
       /\ Same(s3, s4, {"round", "step"})
  BY <1>9, Zenon DEF UpdateRoundStep, CoreFields, Same
<1> HIDE DEF s4
<1>11. /\ s4.ti = s2.ti /\ s4.armed = s2.armed /\ s4.late = s2.late
       /\ s4.proposer = p /\ s4.proposalReceived = pr /\ s4.precommitWaited \in BOOLEAN
  <2>1. /\ s4.ti = s3.ti /\ s4.armed = s3.armed /\ s4.late = s3.late
        /\ s4.proposer = s3.proposer
        /\ s4.proposalReceived = s3.proposalReceived /\ s4.precommitWaited = s3.precommitWaited
    BY Zenon, <1>10 DEF Same, CoreFields
  <2>2. /\ s3.ti = s2.ti /\ s3.armed = s2.armed /\ s3.late = s2.late
        /\ s3.proposer = s2.proposer
        /\ s3.proposalReceived = s2.proposalReceived /\ s3.precommitWaited = s2.precommitWaited
    BY Zenon, <1>9 DEF Same, CoreFields
  <2>3. /\ s2.proposer = s1.proposer
        /\ s2.proposalReceived = s1.proposalReceived /\ s2.precommitWaited = s1.precommitWaited
    BY Zenon, <1>6 DEF Same, CoreFields, Timer
  <2> QED BY Zenon, <1>3, <2>1, <2>2, <2>3
<1>12. Same(s, s4, NewRoundFields)
  <2>1. \A f \in CoreFields \ NewRoundFields :
          s1[f] = s[f] /\ s2[f] = s1[f] /\ s3[f] = s2[f] /\ s4[f] = s3[f]
    BY Zenon, <1>3, <1>6, <1>9, <1>10 DEF Same, NewRoundFields
  <2> QED BY Zenon, <2>1 DEF Same
<1>13. TimerOK(s4) /\ TimerSet(s, s4, r, 3) /\ TimerAt(s4, s.height, r, 3)
  <2>1. Fresh(s, r, 3)
    BY <1>1, <1>2, IsFresh
  <2>2. Fresh(s1, r, 3)
    BY Zenon, <1>4, <2>1 DEF Fresh
  <2> QED BY <1>4, <1>6, <1>11, <2>2 DEF TimerOK, TimerSet, TimerAt
<1>14. \/ s4.out = s.out /\ s4.savedMsg = s.savedMsg
       \/ \E m : /\ IsStored(m) /\ m.type = "propose" /\ m.from = s.address /\ m.round = r
                 /\ s4.out = s.out \cup {m} /\ s4.savedMsg = storeSentMsg(s.savedMsg, m)
  BY Zenon, <1>8, <1>9, <1>10
<1>15. Goes(s, s4, M)
  BY Zenon, <1>10, <1>11, <1>12, <1>13, <1>14, NewRoundKeeps DEF p, pr
<1>16. CASE ~ IsProposalComplete(s4)
  BY <1>7, <1>10, <1>15, <1>16
<1>17. CASE IsProposalComplete(s4)
  <2>1. CoreInv(s4, M)
    BY Zenon, <1>15 DEF Goes
  <2>2. Goes(s4, t, M) /\ t.round = s4.round
    BY <1>7, <1>10, <1>17, <2>1, EnterPrevoteOK
  <2>3. t.step >= 3
    BY <1>10, <2>2 DEF Goes, Moves, Onward
  <2> QED BY Zenon, <1>1, <1>10, <1>15, <2>2, <2>3, GoesTrans
<1> QED BY Zenon, <1>16, <1>17

\* finalizeCommit keeps the invariant: it commits a block of the commit round's
\* majority with its seals.
LEMMA FinalizeCommitOK ==
  ASSUME NEW s, NEW M, CoreInv(s, M), NEW t, t = finalizeCommit(s)
  PROVE  Goes(s, t, M) /\ t.round = s.round /\ t.step = s.step
<1>1. CASE t = s
  BY Zenon, <1>1, GoesSelf
<1>2. CASE t # s
  <2> DEFINE b == s.proposalReceived.block
             c == FinalizeBlock(s, b)
  <2>1. /\ s.proposalReceived # Nil /\ b # Nil
        /\ b \in TwoThirdMajority(s.precommits, s.commitRound)
        /\ t = [s EXCEPT !.committed = @ \cup {c}]
    BY Zenon, <1>2 DEF finalizeCommit
  <2>2. TypeInv(s) /\ BlockInv(s) /\ ReceivedInv(s, M)
    BY Zenon DEF CoreInv
  <2>3. b \in Accepted /\ b.number = s.height
    BY Zenon, <2>1, <2>2 DEF BlockInv
  <2>4. \A x \in s.precommits : Voted(M, "precommit", x[1], s.height, x[2], x[3])
    BY Zenon, <2>2 DEF ReceivedInv
  <2>5. s.commitRound \in Int
    BY Zenon, <2>2, CoreInvTypes
  <2> HIDE DEF b
  <2>6. CommitIsSound(c, M)
    BY Zenon, <2>1, <2>3, <2>4, <2>5, FinalizeSound
  <2> HIDE DEF c
  <2>7. /\ DOMAIN s = CoreFields /\ s.draining \in BOOLEAN /\ s.validRound \in Int
        /\ BlockInv(s)
        /\ \A m \in s.futureProposals : m \in M /\ IsStored(m) /\ m.type = "propose"
        /\ \A m \in s.futureMessages : m \in M /\ IsStored(m)
        /\ \A d \in s.committed : CommitIsSound(d, M)
    BY Zenon, LightSelf
  <2>8. DOMAIN t = CoreFields /\ Same(s, t, {"committed"}) /\ t.committed = s.committed \cup {c}
    BY Zenon, <2>1, <2>7 DEF CoreFields, Same
  <2>9. Same(s, t, LightFields)
    BY Zenon, <2>8 DEF Same, LightFields
  <2>10. /\ t.draining = s.draining /\ t.validRound = s.validRound
         /\ t.futureProposals = s.futureProposals
         /\ t.futureMessages = s.futureMessages
    BY Zenon, <2>8 DEF Same, CoreFields
  <2>11. BlockInv(t)
    <3>1. /\ t.block = s.block /\ t.validBlock = s.validBlock
          /\ t.proposalReceived = s.proposalReceived
          /\ t.lockedBlock = s.lockedBlock /\ t.height = s.height /\ t.round = s.round
      BY Zenon, <2>8 DEF Same, CoreFields
    <3> QED BY Zenon, <3>1, <2>2, <2>10 DEF BlockInv
  <2> QED BY <2>6, <2>7, <2>8, <2>9, <2>10, <2>11, LightKeeps
<1> QED BY Zenon, <1>1, <1>2

\* A message of a later height is put aside.
LEMMA PutAsideOK ==
  ASSUME NEW s, NEW M, CoreInv(s, M), NEW m \in M, IsStored(m), NEW t, t = PutAside(s, m)
  PROVE  Goes(s, t, M) /\ t.round = s.round /\ t.step = s.step
<1>1. CASE t = s
  BY Zenon, <1>1, GoesSelf
<1>2. CASE t # s
  <2>1. t = [s EXCEPT !.futureMessages = @ \cup {m}]
    BY Zenon, <1>2 DEF PutAside
  <2>2. /\ DOMAIN s = CoreFields /\ s.draining \in BOOLEAN /\ s.validRound \in Int
        /\ BlockInv(s)
        /\ \A x \in s.futureProposals : x \in M /\ IsStored(x) /\ x.type = "propose"
        /\ \A x \in s.futureMessages : x \in M /\ IsStored(x)
        /\ \A d \in s.committed : CommitIsSound(d, M)
    BY Zenon, LightSelf
  <2>3. /\ DOMAIN t = CoreFields /\ Same(s, t, {"futureMessages"})
        /\ t.futureMessages = s.futureMessages \cup {m}
    BY Zenon, <2>1, <2>2 DEF CoreFields, Same
  <2>4. Same(s, t, LightFields)
    BY Zenon, <2>3 DEF Same, LightFields
  <2>5. /\ t.draining = s.draining /\ t.validRound = s.validRound
        /\ t.futureProposals = s.futureProposals
        /\ t.committed = s.committed
        /\ t.block = s.block /\ t.validBlock = s.validBlock
        /\ t.proposalReceived = s.proposalReceived
        /\ t.lockedBlock = s.lockedBlock /\ t.height = s.height /\ t.round = s.round
    BY Zenon, <2>3 DEF Same, CoreFields
  <2>6. BlockInv(t)
    BY Zenon, <2>2, <2>5 DEF BlockInv
  <2> QED BY <2>2, <2>3, <2>4, <2>5, <2>6, LightKeeps
<1> QED BY Zenon, <1>1, <1>2

\* A proposal of a later round is put aside.
LEMMA SetFutureProposalOK ==
  ASSUME NEW s, NEW M, CoreInv(s, M), NEW m \in M, IsStored(m), m.type = "propose",
         NEW t, t = SetFutureProposal(s, m)
  PROVE  Goes(s, t, M) /\ t.round = s.round /\ t.step = s.step
<1>1. CASE t = s
  BY Zenon, <1>1, GoesSelf
<1>2. CASE t # s
  <2> DEFINE fp == { p \in s.futureProposals : p.round # m.round } \cup {m}
  <2>1. t = [s EXCEPT !.futureProposals = fp]
    BY Zenon, <1>2 DEF SetFutureProposal
  <2>2. /\ DOMAIN s = CoreFields /\ s.draining \in BOOLEAN /\ s.validRound \in Int
        /\ BlockInv(s)
        /\ \A x \in s.futureProposals : x \in M /\ IsStored(x) /\ x.type = "propose"
        /\ \A x \in s.futureMessages : x \in M /\ IsStored(x)
        /\ \A d \in s.committed : CommitIsSound(d, M)
    BY Zenon, LightSelf
  <2>f. \A x \in fp : x \in M /\ IsStored(x) /\ x.type = "propose"
    BY Zenon, <2>2
  <2> HIDE DEF fp
  <2>3. DOMAIN t = CoreFields /\ Same(s, t, {"futureProposals"}) /\ t.futureProposals = fp
    BY Zenon, <2>1, <2>2 DEF CoreFields, Same
  <2>4. Same(s, t, LightFields)
    BY Zenon, <2>3 DEF Same, LightFields
  <2>5. /\ t.draining = s.draining /\ t.validRound = s.validRound
        /\ t.futureMessages = s.futureMessages
        /\ t.committed = s.committed
        /\ t.block = s.block /\ t.validBlock = s.validBlock
        /\ t.proposalReceived = s.proposalReceived
        /\ t.lockedBlock = s.lockedBlock /\ t.height = s.height /\ t.round = s.round
    BY Zenon, <2>3 DEF Same, CoreFields
  <2>6. BlockInv(t)
    BY Zenon, <2>2, <2>5 DEF BlockInv
  <2> QED BY Zenon, <2>2, <2>3, <2>f, <2>4, <2>5, <2>6, LightKeeps
<1> QED BY Zenon, <1>1, <1>2

\* A proposal is taken, or dropped.
LEMMA SetProposalOK ==
  ASSUME NEW s, NEW M, CoreInv(s, M), NEW p,
         p # Nil => /\ p.polRound \in Int /\ p.polRound <= s.round
                    /\ p.block.number = s.height /\ p.block \in Accepted,
         NEW t, DOMAIN t = CoreFields, Same(s, t, {"proposalReceived"}), t.proposalReceived = p
  PROVE  Goes(s, t, M) /\ t.round = s.round /\ t.step = s.step
<1>2. /\ DOMAIN s = CoreFields /\ s.draining \in BOOLEAN /\ s.validRound \in Int /\ BlockInv(s)
      /\ \A x \in s.futureProposals : x \in M /\ IsStored(x) /\ x.type = "propose"
      /\ \A x \in s.futureMessages : x \in M /\ IsStored(x)
      /\ \A d \in s.committed : CommitIsSound(d, M)
  BY Zenon, LightSelf
<1>4. Same(s, t, LightFields)
  BY Zenon DEF Same, LightFields
<1>5. /\ t.draining = s.draining /\ t.validRound = s.validRound
      /\ t.futureMessages = s.futureMessages
      /\ t.committed = s.committed /\ t.futureProposals = s.futureProposals
      /\ t.block = s.block /\ t.validBlock = s.validBlock
      /\ t.lockedBlock = s.lockedBlock /\ t.height = s.height /\ t.round = s.round
  BY Zenon DEF Same, CoreFields
<1>6. BlockInv(t)
  BY Zenon, <1>2, <1>5 DEF BlockInv
<1> QED BY <1>2, <1>4, <1>5, <1>6, LightKeeps

\* handlePropose keeps the invariant, every one of its refusals included.
LEMMA HandleProposeOK ==
  ASSUME NEW s, NEW M, CoreInv(s, M), NEW m \in M, IsStored(m), m.type = "propose",
         NEW t, t = handlePropose(s, m)
  PROVE  Goes(s, t, M) /\ t.round = s.round
<1> DEFINE p == [block |-> m.block, round |-> m.round, polRound |-> m.polRound]
           s1 == [s EXCEPT !.proposalReceived = p]
<1>1. t = IF s.proposalReceived # Nil THEN s
          ELSE IF m.number # s.height THEN PutAside(s, m)
          ELSE IF m.round # s.round THEN SetFutureProposal(s, m)
          ELSE IF ~ VerifyProposal(s, m) THEN s
          ELSE IF s.step <= RoundStepPropose /\ IsProposalComplete(s1)
               THEN enterPrevote(s1, s1.round)
          ELSE finalizeCommit(s1)
  BY Zenon DEF handlePropose
<1>2. TypeInv(s)
  BY Zenon DEF CoreInv
<1>3. DOMAIN s = CoreFields /\ s.round \in Nat
  BY Zenon, <1>2, CoreInvTypes
<1>4. p.polRound = m.polRound /\ p.block = m.block
  BY Zenon
<1> HIDE DEF p
<1>5. DOMAIN s1 = CoreFields /\ Same(s, s1, {"proposalReceived"}) /\ s1.proposalReceived = p
  BY Zenon, <1>3 DEF CoreFields, Same
<1> HIDE DEF s1
<1>6. CASE t = s
  BY Zenon, <1>6, GoesSelf
<1>7. CASE t = PutAside(s, m)
  BY <1>7, PutAsideOK
<1>8. CASE t = SetFutureProposal(s, m)
  BY <1>8, SetFutureProposalOK
<1>9. CASE /\ m.number = s.height /\ m.round = s.round /\ VerifyProposal(s, m)
           /\ t = enterPrevote(s1, s1.round) \/ t = finalizeCommit(s1)
  <2>1. /\ p.polRound \in Int /\ p.polRound <= s.round
        /\ p.block.number = s.height /\ p.block \in Accepted
    BY <1>3, <1>4, <1>9 DEF VerifyProposal, IsStored
  <2>2. Goes(s, s1, M) /\ s1.round = s.round
    BY Zenon, <1>5, <2>1, SetProposalOK
  <2>3. CoreInv(s1, M)
    BY Zenon, <2>2 DEF Goes
  <2>4. Goes(s1, t, M) /\ t.round = s1.round
    <3>1. CASE t = enterPrevote(s1, s1.round)
      BY <1>3, <2>2, <2>3, <3>1, EnterPrevoteOK
    <3>2. CASE t = finalizeCommit(s1)
      BY Zenon, <2>3, <3>2, FinalizeCommitOK
    <3> QED BY Zenon, <1>9, <3>1, <3>2
  <2> QED BY Zenon, <1>2, <2>2, <2>4, GoesTrans
<1> QED BY Zenon, <1>1, <1>6, <1>7, <1>8, <1>9

\* enterNewRound keeps the invariant, and the core ends in the later round.
LEMMA EnterNewRoundOK ==
  ASSUME NEW s, NEW M, CoreInv(s, M), NEW r \in Int, NEW t, t = enterNewRound(s, r)
  PROVE  /\ Goes(s, t, M)
         /\ t.round = IF r > s.round THEN r ELSE s.round
         /\ r = s.round /\ s.step = 1 => t.step # 1
<1>1. TypeInv(s) /\ s.round \in Nat /\ s.step \in {1, 3, 4, 5, 6, 7, 8}
  BY Zenon, CoreInvTypes DEF CoreInv
<1>2. CASE r < s.round \/ (r = s.round /\ s.step # 1)
  <2>1. t = s
    BY Zenon, <1>2 DEF enterNewRound, RoundStepNewHeight
  <2> QED BY <1>1, <1>2, <2>1, GoesSelf
<1>3. CASE r > s.round \/ (r = s.round /\ s.step = 1)
  <2> DEFINE s2 == enterPropose(NewRoundState(s, r), r)
             future == { p \in s2.futureProposals : p.round = r }
  <2>0. r \in Nat /\ ~ (r < s.round \/ (r = s.round /\ s.step # 1))
    BY <1>1, <1>3
  <2>1. t = IF future = {} THEN s2 ELSE handlePropose(s2, CHOOSE p \in future : TRUE)
    BY Zenon, <2>0 DEF enterNewRound, NewRoundState, RoundStepNewHeight
  <2>2. Goes(s, s2, M) /\ s2.round = r /\ s2.step >= 3
    BY Zenon, <1>3, <2>0, EnterRoundOK
  <2> HIDE DEF s2
  <2>3. CoreInv(s2, M)
    BY Zenon, <2>2 DEF Goes
  <2>4. Goes(s2, t, M) /\ t.round = r
    <3>1. CASE future = {}
      BY Zenon, <2>1, <2>2, <2>3, <3>1, GoesSelf
    <3>2. CASE future # {}
      <4> DEFINE p == CHOOSE q \in future : TRUE
      <4>1. p \in future
        BY Zenon, <3>2
      <4>2. t = handlePropose(s2, p)
        BY Zenon, <2>1, <3>2
      <4> HIDE DEF p
      <4>3. p \in M /\ IsStored(p) /\ p.type = "propose"
        BY Zenon, <2>3, <4>1, LightSelf
      <4> QED BY <2>2, <2>3, <4>2, <4>3, HandleProposeOK
    <3> QED BY Zenon, <3>1, <3>2
  <2>5. Goes(s, t, M)
    BY Zenon, <1>1, <2>2, <2>4, GoesTrans
  <2>6. t.step # 1
    <3>1. s2.step \in {1, 3, 4, 5, 6, 7, 8} /\ t.step \in {1, 3, 4, 5, 6, 7, 8}
      BY Zenon, <2>3, <2>4, CoreInvTypes DEF Goes, CoreInv
    <3> QED BY <2>2, <2>4, <3>1 DEF Goes, Moves, Onward
  <2> QED BY Zenon, <1>1, <1>3, <2>4, <2>5, <2>6
<1> QED BY <1>1, <1>2, <1>3
-----------------------------------------------------------------------------

\* A step to Commit keeps the invariant.
LEMMA CommitKeeps ==
  ASSUME NEW s, NEW M, CoreInv(s, M), NEW r \in Int, r <= s.round, HasMajority(s.precommits, r),
         s.step < 8, NEW t, DOMAIN t = CoreFields,
         Same(s, t, {"proposalReceived", "step", "commitRound"}), t.step = 8, t.commitRound = r,
         t.proposalReceived # Nil =>
           /\ t.proposalReceived.polRound \in Int /\ t.proposalReceived.polRound <= s.round
           /\ t.proposalReceived.block.number = s.height
           /\ t.proposalReceived.block \in Accepted
  PROVE  Goes(s, t, M) /\ t.round = s.round
<1>1. /\ TypeInv(s) /\ ProposerInv(s) /\ BlockInv(s) /\ ReceivedInv(s, M)
      /\ OutInv(s) /\ StoreInv(s) /\ TimeInv(s) /\ LockInv(s) /\ CommitInv(s, M)
  BY Zenon DEF CoreInv
<1>2. /\ Placed(s) /\ TimerOK(s) /\ s.height \in Nat \ {0} /\ s.round \in Nat
      /\ s.commitRound \in Int
      /\ s.step \in {1, 3, 4, 5, 6, 7, 8} /\ s.lockedRound \in Int
  BY Zenon, <1>1, CoreInvTypes
<1>3. /\ t.address = s.address /\ t.height = s.height /\ t.round = s.round /\ t.block = s.block
      /\ t.validRound = s.validRound /\ t.validBlock = s.validBlock
      /\ t.lockedRound = s.lockedRound /\ t.lockedBlock = s.lockedBlock
      /\ t.prevotes = s.prevotes /\ t.precommits = s.precommits
      /\ t.proposer = s.proposer /\ t.precommitWaited = s.precommitWaited
      /\ t.futureProposals = s.futureProposals /\ t.futureMessages = s.futureMessages
      /\ t.draining = s.draining /\ t.committed = s.committed /\ t.panicked = s.panicked
      /\ t.savedMsg = s.savedMsg /\ t.out = s.out
      /\ t.ti = s.ti /\ t.armed = s.armed /\ t.late = s.late
  BY Zenon DEF Same, CoreFields
<1>4. Placed(t) /\ Later(s, t) /\ NotAfter(s.round, 3, t) /\ TimerSet(s, t, s.round, 3)
  <2>1. TimerSet(s, t, s.round, 3)
    BY Zenon, <1>3 DEF TimerSet
  <2>2. t.round = s.round
    BY Zenon, <1>3
  <2>3. Placed(t) /\ Later(s, t) /\ NotAfter(s.round, 3, t)
    BY <1>2, <2>2 DEF Placed, Later, NotAfter, StepNumber
  <2> QED BY Zenon, <2>1, <2>3
<1>5. TypeInv(t)
  BY SMTT(30), <1>1, <1>3 DEF TypeInv, RoundStepNewHeight
<1>6. ProposerInv(t)
  BY Zenon, <1>1, <1>3 DEF ProposerInv
<1>7. BlockInv(t)
  BY Zenon, <1>1, <1>3 DEF BlockInv
<1>8. ReceivedInv(t, M)
  BY Zenon, <1>1, <1>3 DEF ReceivedInv
<1>9. OutInv(t)
  BY Zenon, <1>1, <1>2, <1>3, <1>4, OutKept
<1>10. StoreInv(t)
  BY Zenon, <1>1, <1>2, <1>3, <1>4, StoreKept
<1>11. TimeInv(t)
  <2>1. t.step # 7 /\ 3 # 7
    OBVIOUS
  <2> QED BY Zenon, <1>1, <1>2, <1>3, <1>4, <2>1, TimeKept
<1>12. LockInv(t)
  <2>1. /\ LockIsSound(t)
        /\ \A b, r0 : s.lockedBlock = b /\ s.lockedRound >= r0 /\ b # Nil /\ r0 \in Nat =>
             LockHeld(t, b, r0)
    BY Zenon, <1>1, <1>3, SameLock
  <2>2. s.height \in Nat /\ s.round <= t.round
    BY <1>2, <1>3
  <2> QED BY Zenon, <1>1, <1>2, <1>3, <1>4, <2>1, <2>2, LockKept
<1>13. CommitInv(t, M)
  BY Zenon, <1>1, <1>3, CommitInvMeans
<1>14. Moves(s, t)
  BY <1>2, <1>3 DEF Moves, Onward, VotesGo, TimerGoes
<1> QED BY Zenon, <1>3, <1>5, <1>6, <1>7, <1>8, <1>9, <1>10, <1>11, <1>12, <1>13, <1>14 DEF Goes,
           CoreInv

\* enterCommit keeps the invariant, finalizeCommit at its end included.
LEMMA EnterCommitOK ==
  ASSUME NEW s, NEW M, CoreInv(s, M), NEW r \in Int, r <= s.round, HasMajority(s.precommits, r),
         NEW t, t = enterCommit(s, r)
  PROVE  Goes(s, t, M) /\ t.round = s.round
<1>1. TypeInv(s) /\ BlockInv(s) /\ LockInv(s)
  BY Zenon DEF CoreInv
<1>2. DOMAIN s = CoreFields /\ s.step \in {1, 3, 4, 5, 6, 7, 8} /\ s.lockedRound \in Int
  BY Zenon, <1>1, CoreInvTypes
<1>3. CASE s.step >= 8
  <2>1. t = s
    BY Zenon, <1>3 DEF enterCommit, RoundStepCommit
  <2> QED BY Zenon, <2>1, GoesSelf
<1>4. CASE s.step < 8
  <2> DEFINE majority == TwoThirdMajority(s.precommits, r)
             p == IF s.lockedBlock # Nil /\ s.lockedBlock \in majority
                  THEN [block |-> s.lockedBlock, round |-> r, polRound |-> s.lockedRound]
                  ELSE s.proposalReceived
             q == IF p # Nil /\ p.block \notin majority THEN Nil ELSE p
             s1 == [s EXCEPT !.proposalReceived = q, !.step = 8, !.commitRound = r]
  <2>1. t = finalizeCommit(s1)
    <3>1. ~ (s.step >= 8) /\ majority # {}
      BY <1>2, <1>4 DEF HasMajority
    <3> QED BY Zenon, <3>1 DEF enterCommit, RoundStepCommit
  <2>2. q # Nil => /\ q.polRound \in Int /\ q.polRound <= s.round
                   /\ q.block.number = s.height /\ q.block \in Accepted
    <3>1. LockIsSound(s)
      BY Zenon, <1>1, LockInvMeans
    <3>2. CASE s.lockedBlock # Nil /\ s.lockedBlock \in majority
      <4>1. p = [block |-> s.lockedBlock, round |-> r, polRound |-> s.lockedRound]
        BY Zenon, <3>2
      <4>2. p.block = s.lockedBlock /\ p.polRound = s.lockedRound
        BY <4>1
      <4>3. s.lockedBlock.number = s.height /\ s.lockedBlock \in Accepted
        BY Zenon, <1>1, <3>2 DEF BlockInv
      <4> HIDE DEF p, majority
      <4> QED BY Zenon, <1>2, <3>1, <4>2, <4>3 DEF LockIsSound
    <3>3. CASE ~ (s.lockedBlock # Nil /\ s.lockedBlock \in majority)
      <4>1. p = s.proposalReceived
        BY Zenon, <3>3
      <4> HIDE DEF p, majority
      <4> QED BY Zenon, <1>1, <4>1 DEF BlockInv
    <3> QED BY Zenon, <3>2, <3>3
  <2> HIDE DEF q, majority, p
  <2>3. /\ DOMAIN s1 = CoreFields /\ Same(s, s1, {"proposalReceived", "step", "commitRound"})
        /\ s1.step = 8 /\ s1.commitRound = r /\ s1.proposalReceived = q
    BY <1>2, Zenon DEF CoreFields, Same
  <2> HIDE DEF s1
  <2>4. Goes(s, s1, M) /\ s1.round = s.round
    BY Zenon, <1>4, <2>2, <2>3, CommitKeeps
  <2>5. Goes(s1, t, M) /\ t.round = s1.round
    BY Zenon, <2>1, <2>4, FinalizeCommitOK DEF Goes
  <2> QED BY Zenon, <1>1, <2>4, <2>5, GoesTrans
<1> QED BY <1>2, <1>3, <1>4

\* Unlock keeps the invariant: the polka of a later round released the lock.
LEMMA UnlockOK ==
  ASSUME NEW s, NEW M, CoreInv(s, M), NEW r \in Int, s.lockedRound < r, r <= s.round,
         TwoThirdMajority(s.prevotes, r) # {},
         s.lockedBlock \notin TwoThirdMajority(s.prevotes, r),
         NEW t, t = Unlock(s)
  PROVE  Goes(s, t, M) /\ t.round = s.round /\ t.step = s.step
<1>1. TypeInv(s) /\ BlockInv(s) /\ ReceivedInv(s, M) /\ LockInv(s)
  BY Zenon DEF CoreInv
<1>2. /\ DOMAIN s = CoreFields /\ s.round \in Nat /\ s.lockedRound \in Int
      /\ s.validRound \in Int
      /\ s.draining \in BOOLEAN
      /\ \A d \in s.committed : CommitIsSound(d, M)
  BY Zenon, <1>1, CoreInvTypes, LightSelf
<1>3. /\ DOMAIN t = CoreFields /\ Same(s, t, {"lockedRound", "lockedBlock"})
      /\ t.lockedRound = -1 /\ t.lockedBlock = Nil
  BY <1>2, Zenon DEF Unlock, CoreFields, Same
<1>4. Still(s, t)
  BY Zenon, <1>3 DEF Still, Same, CoreFields
<1>5. /\ t.height = s.height /\ t.round = s.round /\ t.block = s.block /\ t.step = s.step
      /\ t.validRound = s.validRound /\ t.validBlock = s.validBlock
      /\ t.prevotes = s.prevotes /\ t.precommits = s.precommits
      /\ t.proposalReceived = s.proposalReceived
      /\ t.futureProposals = s.futureProposals /\ t.futureMessages = s.futureMessages
      /\ t.draining = s.draining /\ t.committed = s.committed
  BY Zenon, <1>3 DEF Same, CoreFields
<1>6. AreVotes(t.prevotes) /\ AreVotes(t.precommits)
  BY Zenon, <1>1, <1>5 DEF TypeInv
<1>7. BlockInv(t)
  BY Zenon, <1>1, <1>3, <1>5 DEF BlockInv
<1>8. ReceivedInv(t, M)
  BY Zenon, <1>1, <1>5 DEF ReceivedInv
<1>9. LockIsSound(t)
  BY <1>2, <1>3, <1>5 DEF LockIsSound
<1>10. ASSUME NEW r0 \in Nat, s.lockedRound >= r0
       PROVE  LockHeld(t, s.lockedBlock, r0)
  <2>1. r \in r0 + 1 .. t.round
    BY <1>2, <1>5, <1>10
  <2>2. TwoThirdMajority(t.prevotes, r) \ {s.lockedBlock} # {}
    BY Zenon, <1>5
  <2>3. Released(t, s.lockedBlock, r0, t.round)
    BY Zenon, <2>1, <2>2 DEF Released
  <2> QED BY Zenon, <2>3 DEF LockHeld
<1>11. \A b, r0 : s.lockedBlock = b /\ s.lockedRound >= r0 /\ b # Nil /\ r0 \in Nat =>
         LockHeld(t, b, r0)
  BY Zenon, <1>10
<1>12. t.lockedRound \in Int /\ t.validRound \in Int /\ t.draining \in BOOLEAN
  BY <1>2, <1>3, <1>5
<1>13. CoreInv(t, M) /\ Moves(s, t)
  BY Zenon, <1>2, <1>3, <1>4, <1>5, <1>6, <1>7, <1>8, <1>9, <1>11, <1>12, StillKeeps
<1> QED BY Zenon, <1>5, <1>13 DEF Goes

\* SetValidRoundAndBlock keeps the invariant.
LEMMA SetValidOK ==
  ASSUME NEW s, NEW M, CoreInv(s, M), NEW r \in Int, s.proposalReceived # Nil,
         NEW t, t = SetValidRoundAndBlock(s, r, s.proposalReceived.block)
  PROVE  Goes(s, t, M) /\ t.round = s.round /\ t.step = s.step
<1>1. TypeInv(s) /\ BlockInv(s)
  BY Zenon DEF CoreInv
<1>2. /\ DOMAIN s = CoreFields /\ s.draining \in BOOLEAN /\ s.validRound \in Int /\ BlockInv(s)
      /\ \A x \in s.futureProposals : x \in M /\ IsStored(x) /\ x.type = "propose"
      /\ \A x \in s.futureMessages : x \in M /\ IsStored(x)
      /\ \A d \in s.committed : CommitIsSound(d, M)
  BY Zenon, LightSelf
<1> DEFINE b == s.proposalReceived.block
<1>3. b.number = s.height /\ s.height \in Nat
  BY Zenon, <1>1, CoreInvTypes DEF BlockInv
<1> HIDE DEF b
<1>4. /\ DOMAIN t = CoreFields /\ Same(s, t, {"validRound", "validBlock"})
      /\ t.validRound = r /\ t.validBlock = b
  BY <1>2, Zenon DEF SetValidRoundAndBlock, CoreFields, Same, b
<1>5. Same(s, t, LightFields)
  BY Zenon, <1>4 DEF Same, LightFields
<1>6. /\ t.draining = s.draining /\ t.futureMessages = s.futureMessages
      /\ t.committed = s.committed /\ t.futureProposals = s.futureProposals
      /\ t.block = s.block /\ t.proposalReceived = s.proposalReceived
      /\ t.lockedBlock = s.lockedBlock /\ t.height = s.height /\ t.round = s.round
  BY Zenon, <1>4 DEF Same, CoreFields
<1>7. BlockInv(t)
  BY Zenon, <1>2, <1>3, <1>4, <1>6 DEF BlockInv
<1> QED BY <1>2, <1>4, <1>5, <1>6, <1>7, LightKeeps

\* What handlePrevote does with a polka keeps the invariant.
LEMMA ApplyPolkaOK ==
  ASSUME NEW s, NEW M, CoreInv(s, M), NEW r \in Int, NEW t, t = ApplyPolka(s, r)
  PROVE  Goes(s, t, M) /\ t.round = s.round /\ t.step = s.step
<1> DEFINE polka == TwoThirdMajority(s.prevotes, r)
           unlocks == /\ polka # {} /\ s.lockedRound # -1
                      /\ s.lockedRound < r /\ r <= s.round /\ s.lockedBlock \notin polka
           s1 == IF unlocks THEN Unlock(s) ELSE s
<1>1. t = IF polka \ {Nil} = {} \/ s1.validRound >= r \/ r # s1.round THEN s1
          ELSE IF s1.proposalReceived # Nil /\ s1.proposalReceived.block \in polka
            THEN SetValidRoundAndBlock(s1, r, s1.proposalReceived.block)
          ELSE [s1 EXCEPT !.proposalReceived = Nil]
  BY Zenon DEF ApplyPolka
<1>2. Goes(s, s1, M) /\ s1.round = s.round /\ s1.step = s.step
  <2>1. CASE unlocks
    BY Zenon, <2>1, UnlockOK
  <2>2. CASE ~ unlocks
    BY Zenon, <2>2, GoesSelf
  <2> QED BY Zenon, <2>1, <2>2
<1> HIDE DEF s1, polka, unlocks
<1>3. CoreInv(s1, M) /\ TypeInv(s)
  BY Zenon, <1>2 DEF Goes, CoreInv
<1>4. Goes(s1, t, M) /\ t.round = s1.round /\ t.step = s1.step
  <2>1. CASE t = s1
    BY Zenon, <1>3, <2>1, GoesSelf
  <2>2. CASE /\ s1.proposalReceived # Nil
             /\ t = SetValidRoundAndBlock(s1, r, s1.proposalReceived.block)
    BY <1>3, <2>2, SetValidOK
  <2>3. CASE t = [s1 EXCEPT !.proposalReceived = Nil]
    <3>1. DOMAIN s1 = CoreFields
      BY Zenon, <1>3, LightSelf
    <3>2. DOMAIN t = CoreFields /\ Same(s1, t, {"proposalReceived"}) /\ t.proposalReceived = Nil
      BY Zenon, <2>3, <3>1 DEF CoreFields, Same
    <3> QED BY Zenon, <1>3, <3>2, SetProposalOK
  <2> QED BY Zenon, <1>1, <2>1, <2>2, <2>3
<1> QED BY Zenon, <1>2, <1>3, <1>4, GoesTrans

\* addVote keeps the invariant: a vote that is counted was signed by its sender.
LEMMA VoteReceivedOK ==
  ASSUME NEW s, NEW M, CoreInv(s, M), NEW m \in M, IsStored(m), m.number = s.height,
         IsValidator(N, m.from), NEW t, DOMAIN t = CoreFields,
         \/ /\ m.type = "prevote" /\ Same(s, t, {"prevotes"})
            /\ t.prevotes = s.prevotes \cup {<<m.from, m.round, m.block>>}
         \/ /\ m.type = "precommit" /\ Same(s, t, {"precommits"})
            /\ t.precommits = s.precommits \cup {<<m.from, m.round, m.block>>}
  PROVE  Works(s, t, M)
<1>1. TypeInv(s) /\ BlockInv(s) /\ ReceivedInv(s, M) /\ LockInv(s)
  BY Zenon DEF CoreInv
<1>2. /\ s.lockedRound \in Int /\ s.validRound \in Int /\ s.draining \in BOOLEAN
      /\ \A d \in s.committed : CommitIsSound(d, M)
  BY Zenon, <1>1, CoreInvTypes, LightSelf
<1> DEFINE x == <<m.from, m.round, m.block>>
<1>3. Same(s, t, {"prevotes", "precommits"})
  BY Zenon DEF Same
<1>4. /\ Still(s, t)
      /\ t.height = s.height /\ t.round = s.round /\ t.block = s.block /\ t.step = s.step
      /\ t.validRound = s.validRound /\ t.validBlock = s.validBlock
      /\ t.lockedRound = s.lockedRound /\ t.lockedBlock = s.lockedBlock
      /\ t.proposalReceived = s.proposalReceived
      /\ t.futureProposals = s.futureProposals /\ t.futureMessages = s.futureMessages
      /\ t.draining = s.draining /\ t.committed = s.committed
  BY Zenon, <1>3 DEF Same, CoreFields, Still
<1>5. \/ /\ m.type = "prevote" /\ t.prevotes = s.prevotes \cup {x} /\ t.precommits = s.precommits
      \/ /\ m.type = "precommit" /\ t.precommits = s.precommits \cup {x} /\ t.prevotes = s.prevotes
  BY Zenon DEF Same, CoreFields
<1>6. /\ x = <<x[1], x[2], x[3]>> /\ x[1] \in 0 .. N - 1 /\ x[2] \in Int
      /\ x[1] = m.from /\ x[2] = m.round /\ x[3] = m.block
  BY Zenon DEF IsStored, IsValidator
<1>7. Voted(M, m.type, x[1], s.height, x[2], x[3])
  BY Zenon, <1>6 DEF Voted
<1> HIDE DEF x
<1>8. AreVotes(t.prevotes) /\ AreVotes(t.precommits)
  <2>1. AreVotes(s.prevotes) /\ AreVotes(s.precommits)
    BY Zenon, <1>1 DEF TypeInv
  <2> QED BY Zenon, <1>5, <1>6, <2>1 DEF AreVotes
<1>9. BlockInv(t)
  BY Zenon, <1>1, <1>4 DEF BlockInv
<1>10. ReceivedInv(t, M)
  BY Zenon, <1>1, <1>4, <1>5, <1>7 DEF ReceivedInv
<1>11. /\ LockIsSound(t)
       /\ \A b, r0 : s.lockedBlock = b /\ s.lockedRound >= r0 /\ b # Nil /\ r0 \in Nat =>
            LockHeld(t, b, r0)
  BY Zenon, <1>1, <1>4, SameLock
<1>12. s.prevotes \subseteq t.prevotes /\ s.precommits \subseteq t.precommits
  BY Zenon, <1>5
<1> QED BY Zenon, <1>2, <1>4, <1>8, <1>9, <1>10, <1>11, <1>12, StillKeeps DEF Works

\* What handlePrevote does after it has counted the vote keeps the invariant.
LEMMA AfterPrevoteOK ==
  ASSUME NEW s, NEW M, CoreInv(s, M), NEW r \in Int, NEW t, t = AfterPrevote(s, r)
  PROVE  Works(s, t, M)
<1>1. CASE t = s
  BY Zenon, <1>1, GoesSelf DEF Goes, Works
<1>2. CASE t = enterNewRound(s, r)
  BY Zenon, <1>2, EnterNewRoundOK DEF Goes, Works
<1>3. CASE s.round = r /\ t = enterPrecommit(s, r)
  <2>1. r <= s.round
    BY <1>3
  <2> QED BY Zenon, <1>3, <2>1, EnterPrecommitOK DEF Goes, Works
<1>4. CASE s.round = r /\ t = enterPrevoteWait(s, r)
  BY Zenon, <1>4, EnterPrevoteWaitOK DEF Goes, Works
<1>5. CASE s.proposalReceived # Nil /\ s.proposalReceived.polRound = r /\ t = enterPrevote(s, r)
  <2>1. r <= s.round
    BY Zenon, <1>5 DEF CoreInv, BlockInv
  <2> QED BY Zenon, <1>5, <2>1, EnterPrevoteOK DEF Goes, Works
<1> QED BY Zenon, <1>1, <1>2, <1>3, <1>4, <1>5 DEF AfterPrevote

\* What handlePrecommit does after it has counted the vote keeps the invariant.
LEMMA AfterPrecommitOK ==
  ASSUME NEW s, NEW M, CoreInv(s, M), NEW r \in Int, NEW t, t = AfterPrecommit(s, r)
  PROVE  Works(s, t, M)
<1>1. TypeInv(s) /\ s.round \in Nat
  BY Zenon, CoreInvTypes DEF CoreInv
<1> DEFINE majority == TwoThirdMajority(s.precommits, r)
           u == enterNewRound(s, r)
           s1 == enterPrecommit(u, r)
<1>2. t = IF majority \ {Nil} # {} THEN enterCommit(s1, r)
          ELSE IF majority # {} THEN enterNewRound(s1, r + 1)
          ELSE IF s.round <= r /\ HasTwoThirdAny(s.precommits, r) THEN enterPrecommitWait(u, r)
          ELSE s
  BY Zenon DEF AfterPrecommit
<1>3. Goes(s, u, M) /\ u.round = IF r > s.round THEN r ELSE s.round
  BY Zenon, EnterNewRoundOK
<1>4. CoreInv(u, M) /\ u.precommits = s.precommits /\ r <= u.round
  BY <1>1, <1>3 DEF Goes
<1> HIDE DEF u
<1>5. Goes(u, s1, M) /\ s1.round = u.round
  BY Zenon, <1>4, EnterPrecommitOK
<1> HIDE DEF s1
<1>6. CoreInv(s1, M) /\ s1.precommits = s.precommits /\ r <= s1.round /\ Goes(s, s1, M)
  BY Zenon, <1>1, <1>3, <1>4, <1>5, GoesTrans DEF Goes
<1>7. CASE majority # {} /\ t = enterCommit(s1, r)
  <2>1. HasMajority(s1.precommits, r)
    BY Zenon, <1>6, <1>7 DEF HasMajority
  <2>2. Goes(s1, t, M)
    BY Zenon, <1>6, <1>7, <2>1, EnterCommitOK
  <2> QED BY Zenon, <1>1, <1>6, <2>2, GoesTrans DEF Goes, Works
<1>8. CASE t = enterNewRound(s1, r + 1)
  <2>1. r + 1 \in Int
    OBVIOUS
  <2>2. Goes(s1, t, M)
    BY Zenon, <1>6, <1>8, <2>1, EnterNewRoundOK
  <2> QED BY Zenon, <1>1, <1>6, <2>2, GoesTrans DEF Goes, Works
<1>9. CASE /\ majority = {} /\ s.round <= r /\ HasTwoThirdAny(s.precommits, r)
           /\ t = enterPrecommitWait(u, r)
  <2>1. u.round = r
    BY <1>1, <1>3, <1>9
  <2>2. ~ HasMajority(u.precommits, u.round) /\ HasTwoThirdAny(u.precommits, u.round)
    BY Zenon, <1>4, <1>9, <2>1 DEF HasMajority
  <2>3. Goes(u, t, M)
    BY Zenon, <1>4, <1>9, <2>1, <2>2, EnterPrecommitWaitOK
  <2> QED BY Zenon, <1>1, <1>3, <2>3, GoesTrans DEF Goes, Works
<1>10. CASE t = s
  BY Zenon, <1>10, GoesSelf DEF Goes, Works
<1> QED BY Zenon, <1>2, <1>7, <1>8, <1>9, <1>10

\* A proposal or a vote, from the network, a reply or the queue of future
\* messages, is handled within the invariant.
LEMMA HandleStoredOK ==
  ASSUME NEW s, NEW M, CoreInv(s, M), NEW m \in M, IsStored(m), NEW t, t = handleStored(s, m)
  PROVE  Works(s, t, M)
<1>0. m.type \in {"propose", "prevote", "precommit"} /\ m.round \in Int
  BY Zenon DEF IsStored
<1>d. DOMAIN s = CoreFields
  BY Zenon, LightSelf
<1>1. CASE t = s
  BY Zenon, <1>1, GoesSelf DEF Goes, Works
<1>2. CASE t = PutAside(s, m)
  BY Zenon, <1>2, PutAsideOK DEF Goes, Works
<1>3. CASE m.type = "propose"
  <2>1. t = handlePropose(s, m)
    BY Zenon, <1>3 DEF handleStored
  <2> QED BY Zenon, <1>3, <2>1, HandleProposeOK DEF Goes, Works
<1>4. CASE m.type = "prevote"
  <2> DEFINE x == <<m.from, m.round, m.block>>
             s1 == [s EXCEPT !.prevotes = @ \cup {x}]
  <2>1. t = handlePrevote(s, m)
    BY Zenon, <1>4 DEF handleStored
  <2>2. SUFFICES ASSUME m.number = s.height, CanAddVote(s.prevotes, m),
                        t = AfterPrevote(ApplyPolka(s1, m.round), m.round)
                 PROVE  Works(s, t, M)
    BY Zenon, <1>1, <1>2, <2>1 DEF handlePrevote
  <2>3. IsValidator(N, m.from)
    BY Zenon, <2>2 DEF CanAddVote
  <2> HIDE DEF x
  <2>4. DOMAIN s1 = CoreFields /\ Same(s, s1, {"prevotes"}) /\ s1.prevotes = s.prevotes \cup {x}
    BY Zenon, <1>d DEF CoreFields, Same
  <2> HIDE DEF s1
  <2>5. Works(s, s1, M)
    BY Zenon, <1>4, <2>2, <2>3, <2>4, VoteReceivedOK DEF x
  <2> DEFINE s2 == ApplyPolka(s1, m.round)
  <2>6. CoreInv(s1, M)
    BY Zenon, <2>5 DEF Works
  <2>7. Works(s1, s2, M)
    BY Zenon, <1>0, <2>6, ApplyPolkaOK DEF Goes, Works
  <2>8. t = AfterPrevote(s2, m.round)
    BY Zenon, <2>2
  <2> HIDE DEF s2
  <2>9. Works(s2, t, M)
    BY Zenon, <1>0, <2>7, <2>8, AfterPrevoteOK DEF Works
  <2>10. Works(s, s2, M)
    BY Zenon, <2>5, <2>7, WorksTrans
  <2> QED BY Zenon, <2>9, <2>10, WorksTrans
<1>5. CASE m.type = "precommit"
  <2> DEFINE x == <<m.from, m.round, m.block>>
             s1 == [s EXCEPT !.precommits = @ \cup {x}]
  <2>1. t = handlePrecommit(s, m)
    BY Zenon, <1>5 DEF handleStored
  <2>2. SUFFICES ASSUME m.number = s.height, CanAddVote(s.precommits, m),
                        t = AfterPrecommit(s1, m.round)
                 PROVE  Works(s, t, M)
    BY Zenon, <1>1, <1>2, <2>1 DEF handlePrecommit
  <2>3. IsValidator(N, m.from)
    BY Zenon, <2>2 DEF CanAddVote
  <2> HIDE DEF x
  <2>4. /\ DOMAIN s1 = CoreFields /\ Same(s, s1, {"precommits"})
        /\ s1.precommits = s.precommits \cup {x}
    BY Zenon, <1>d DEF CoreFields, Same
  <2> HIDE DEF s1
  <2>5. Works(s, s1, M)
    BY Zenon, <1>5, <2>2, <2>3, <2>4, VoteReceivedOK DEF x
  <2>6. CoreInv(s1, M)
    BY Zenon, <2>5 DEF Works
  <2>9. Works(s1, t, M)
    BY Zenon, <1>0, <2>2, <2>6, AfterPrecommitOK
  <2> QED BY Zenon, <2>5, <2>9, WorksTrans
<1> QED BY Zenon, <1>0, <1>3, <1>4, <1>5
-----------------------------------------------------------------------------

\* The loop of handleCatchUpReply as a function of the payloads handled.
LEMMA ReplyLoop ==
  ASSUME NEW s, NEW m, Len(m.payloads) \in Nat
  PROVE \E g : /\ g = [k \in 0 .. Len(m.payloads) |-> IF k = 0 THEN [core |-> s, goesOn |-> TRUE]
                      ELSE HandlePayload(g[k - 1], m.payloads[k], m.from)]
               /\ handleCatchUpReply(s, m) =
                    IF m.number # s.height THEN s ELSE g[Len(m.payloads)].core
<1> DEFINE Rec(g, n) == g = [k \in 0 .. n |-> IF k = 0 THEN [core |-> s, goesOn |-> TRUE]
                      ELSE HandlePayload(g[k - 1], m.payloads[k], m.from)]
           Bad == { n \in Nat : ~ \E g : Rec(g, n) }
           after == CHOOSE g : Rec(g, Len(m.payloads))
<1>1. ASSUME Bad # {} PROVE FALSE
  <2>1. PICK n \in Bad : \A k \in Bad : n <= k
    BY <1>1, MinNat, Zenon
  <2>2. CASE n = 0
    <3> DEFINE g == [k \in 0 .. 0 |-> [core |-> s, goesOn |-> TRUE]]
    <3>1. Rec(g, 0)
      OBVIOUS
    <3> QED BY <2>1, <2>2, <3>1, Zenon
  <2>3. CASE n # 0
    <3>0. n \in Nat
      BY Zenon, <2>1
    <3>1. n - 1 \in Nat /\ n - 1 \notin Bad
      <4> HIDE DEF Bad
      <4> QED BY <2>1, <2>3, <3>0
    <3>2. PICK h : Rec(h, n - 1)
      BY Zenon, <3>1
    <3> DEFINE g == [k \in 0 .. n |->
                       IF k < n THEN h[k] ELSE HandlePayload(h[n - 1], m.payloads[n], m.from)]
    <3>3. \A k \in 0 .. n - 1 : g[k] = h[k]
      BY <2>1
    <3>4. \A k \in 0 .. n - 1 : h[k] = IF k = 0 THEN [core |-> s, goesOn |-> TRUE]
                      ELSE HandlePayload(h[k - 1], m.payloads[k], m.from)
      BY <3>2, Zenon
    <3>5. ASSUME NEW k \in 0 .. n PROVE g[k] = IF k = 0 THEN [core |-> s, goesOn |-> TRUE]
                      ELSE HandlePayload(g[k - 1], m.payloads[k], m.from)
      <4>1. CASE k = n
        BY <4>1, <2>1, <2>3, <3>3
      <4>2. CASE k < n
        <5>1. g[k] = h[k] /\ (k # 0 => g[k - 1] = h[k - 1])
          BY <4>2, <3>3, <2>1
        <5>2. k \in 0 .. n - 1
          BY <4>2, <2>1
        <5> HIDE DEF g
        <5> QED BY <5>1, <5>2, <3>4, Zenon
      <4> QED BY <4>1, <4>2, <2>1
    <3>6. Rec(g, n)
      BY <3>5, Zenon
    <3> QED BY <3>6, <2>1, Zenon
  <2> QED BY Zenon, <2>2, <2>3
<1>2. \E g : Rec(g, Len(m.payloads))
  BY Zenon, <1>1
<1>3. Rec(after, Len(m.payloads))
  BY <1>2, Zenon
<1>4. handleCatchUpReply(s, m) = IF m.number # s.height THEN s ELSE after[Len(m.payloads)].core
  BY Zenon DEF handleCatchUpReply
<1> HIDE DEF after
<1> QED BY <1>3, <1>4, Zenon

\* A payload is handled as a message, or not at all when its sender is not the
\* sender of the reply.
LEMMA PayloadHandled ==
  ASSUME NEW t, NEW p, NEW from, NEW u, u = HandlePayload(t, p, from)
  PROVE  u.core = t.core \/ (u.core = handleStored(t.core, p) /\ p.from = from)
<1> DEFINE c == handleStored(t.core, p)
<1>1. \/ u = [core |-> t.core, goesOn |-> FALSE]
      \/ u = [core |-> c, goesOn |-> ~ c.panicked] /\ p.from = from
  BY Zenon DEF HandlePayload
<1> HIDE DEF c
<1>2. u.core = t.core \/ (u.core = c /\ p.from = from)
  BY <1>1
<1> QED BY Zenon, <1>2 DEF c

\* handleCatchUpReply keeps the invariant, whichever payloads a reply holds.
LEMMA HandleCatchUpReplyOK ==
  ASSUME NEW s, NEW M, CoreInv(s, M), NEW m, Len(m.payloads) \in Nat,
         \A k \in 1 .. Len(m.payloads) :
           IsStored(m.payloads[k]) /\ (m.payloads[k].from = m.from => m.payloads[k] \in M),
         NEW t, t = handleCatchUpReply(s, m)
  PROVE  Works(s, t, M)
<1> DEFINE n == Len(m.payloads)
<1>1. PICK g : /\ g = [k \in 0 .. n |-> IF k = 0 THEN [core |-> s, goesOn |-> TRUE]
                                        ELSE HandlePayload(g[k - 1], m.payloads[k], m.from)]
               /\ t = IF m.number # s.height THEN s ELSE g[n].core
  BY ReplyLoop
<1>2. /\ g[0].core = s
      /\ \A k \in 1 .. n : g[k] = HandlePayload(g[k - 1], m.payloads[k], m.from)
  <2>1. g[0] = [core |-> s, goesOn |-> TRUE]
    BY <1>1
  <2> DEFINE Body(k) == IF k = 0 THEN [core |-> s, goesOn |-> TRUE]
                        ELSE HandlePayload(g[k - 1], m.payloads[k], m.from)
  <2>2. ASSUME NEW k \in 1 .. n
        PROVE  g[k] = HandlePayload(g[k - 1], m.payloads[k], m.from)
    <3>1. g = [j \in 0 .. n |-> Body(j)]
      BY <1>1, Zenon
    <3>2. Body(k) = HandlePayload(g[k - 1], m.payloads[k], m.from)
      OBVIOUS
    <3>3. k \in 0 .. n
      OBVIOUS
    <3> HIDE DEF Body, n
    <3>4. g[k] = Body(k)
      BY Zenon, <3>1, <3>3
    <3> QED BY Zenon, <3>2, <3>4
  <2> QED BY <2>1, <2>2
<1>3. Works(s, s, M)
  BY Zenon, GoesSelf DEF Goes, Works
<1>4. ASSUME NEW k \in 1 .. n, Works(s, g[k - 1].core, M)
      PROVE  Works(s, g[k].core, M)
  <2> DEFINE c == g[k - 1].core
             d == handleStored(c, m.payloads[k])
  <2>1. g[k].core = c \/ (g[k].core = d /\ m.payloads[k].from = m.from)
    <3>1. g[k] = HandlePayload(g[k - 1], m.payloads[k], m.from)
      BY Zenon, <1>2
    <3> QED BY <3>1, PayloadHandled
  <2>2. IsStored(m.payloads[k]) /\ CoreInv(c, M)
    BY Zenon, <1>4 DEF Works
  <2>3. m.payloads[k].from = m.from => Works(c, d, M)
    BY Zenon, <2>2, HandleStoredOK
  <2> HIDE DEF c, d
  <2>4. Works(s, c, M)
    BY Zenon, <1>4 DEF c
  <2> QED BY Zenon, <2>1, <2>3, <2>4, WorksTrans
<1> DEFINE Bad == { k \in 0 .. n : ~ Works(s, g[k].core, M) }
<1>5. ASSUME Bad # {} PROVE FALSE
  <2>1. Bad \in SUBSET Nat
    OBVIOUS
  <2>2. PICK k \in Bad : \A j \in Bad : k <= j
    BY <1>5, <2>1, MinNat, Zenon
  <2>3. k \in 0 .. n /\ ~ Works(s, g[k].core, M)
    BY Zenon, <2>2
  <2>4. k # 0
    BY Zenon, <1>2, <1>3, <2>3
  <2>5. k - 1 \in 0 .. n /\ k \in 1 .. n
    BY <2>3, <2>4
  <2>6. k - 1 \notin Bad
    <3> HIDE DEF Bad
    <3> QED BY <2>2, <2>3
  <2>7. Works(s, g[k - 1].core, M)
    BY Zenon, <2>5, <2>6
  <2> QED BY Zenon, <1>4, <2>3, <2>5, <2>7
<1>6. n \in 0 .. n
  OBVIOUS
<1>7. Works(s, g[n].core, M)
  BY Zenon, <1>5, <1>6
<1> QED BY Zenon, <1>1, <1>3, <1>7
=============================================================================
