----------------------------- MODULE NetProofs ------------------------------
(***************************************************************************)
(* The votes of several cores, from what a step does to each of them       *)
(* (Stepped). PolkaInv and LocksInv relate them; with these, two           *)
(* majorities for two blocks of one height have an honest validator in     *)
(* common, who cannot have signed both.  A step of a core is then a step   *)
(* of Voting at each height.                                               *)
(*                                                                         *)
(* The theorems about the whole network: the votes follow the locks, the   *)
(* cores agree, and the network implements Voting at every height.         *)
(***************************************************************************)
EXTENDS NetSteps, NetVoting, FiniteSetTheorems

\* The honest validators that signed such a vote.
Signers(type, h, r, b) ==
  { j \in Honest : \E m \in node[j].out :
      m.type = type /\ m.number = h /\ m.round = r /\ m.block = b }

\* MinMajority votes for one hash, the faulty validators helping.
IsQuorum(S) == Cardinality(S \cup Faulty) >= MinMajority(N)

\* Those who prevoted d in r1, and did not precommit b in r0.
Left(h, r1, d, r0, b) == Signers("prevote", h, r1, d) \ Signers("precommit", h, r0, b)

\* At every height, a precommit of a block rests on a polka.
PolkaInv ==
  \A j \in Honest : \A x \in node[j].out :
    x.type = "precommit" /\ x.block # Nil =>
      IsQuorum(Signers("prevote", x.number, x.round, x.block))

\* At every height, who leaves a block it precommitted follows a majority of others.
LeavesWith(x, y) ==
  \E r1 \in Nat : \E d :
    /\ x.round < r1 /\ r1 <= y.round /\ d # x.block
    /\ IsQuorum(Left(x.number, r1, d, x.round, x.block))

LocksInv ==
  \A j \in Honest : \A x, y \in node[j].out :
    /\ x.type = "precommit" /\ y.type = "prevote" /\ x.number = y.number
    /\ x.round < y.round /\ x.block # Nil /\ y.block # x.block
    => LeavesWith(x, y)

\* MinMajority of the validator set is at least one vote and at most all.
LEMMA QuorumNumber ==
  /\ F(N) \in Int /\ MinMajority(N) \in Int
  /\ MinMajority(N) >= 1 /\ MinMajority(N) <= N
<1>1. N \in Nat \ {0}
  BY Zenon, NAssumption
<1>2. (N + 2) \div 3 \in Int /\ 3 * ((N + 2) \div 3) <= N + 2 /\ 3 * ((N + 2) \div 3) > N - 1
  BY <1>1
<1> QED BY <1>1, <1>2 DEF F, MinMajority

\* The validators are the honest and the faulty ones.
LEMMA Validators ==
  /\ IsFiniteSet(Honest) /\ IsFiniteSet(Faulty) /\ Honest \cap Faulty = {}
  /\ Honest \cup Faulty = 0 .. N - 1 /\ Cardinality(Honest) + Cardinality(Faulty) = N
  /\ Cardinality(Honest) \in Nat /\ Cardinality(Faulty) \in Nat
<1>1. /\ IsFiniteSet(0 .. N - 1) /\ Cardinality(0 .. N - 1) = N
  BY NAssumption, FS_Interval
<1>2. Honest \in SUBSET (0 .. N - 1) /\ Faulty \in SUBSET (0 .. N - 1)
  BY Zenon, NetAssumption
<1>3. IsFiniteSet(Honest) /\ IsFiniteSet(Faulty)
  BY <1>1, <1>2, FS_Subset, Zenon
<1>4. Cardinality(Honest) \in Nat /\ Cardinality(Faulty) \in Nat
  BY Zenon, <1>3, FS_CardinalityType
<1>5. Cardinality(Honest \cap Faulty) = 0
  BY NetAssumption, FS_EmptySet, Zenon
<1>6. Cardinality(Honest \cup Faulty) =
        Cardinality(Honest) + Cardinality(Faulty) - Cardinality(Honest \cap Faulty)
  BY Zenon, <1>3, FS_Union
<1>7. Cardinality(Honest \cup Faulty) = N /\ N \in Nat
  BY <1>1, NetAssumption, NAssumption, Zenon
<1>8. Cardinality(Honest) + Cardinality(Faulty) = N
  BY <1>4, <1>5, <1>6, <1>7
<1> QED BY Zenon, <1>3, <1>4, <1>8, NetAssumption

\* More honest validators make more votes.
LEMMA QuorumGrows ==
  ASSUME NEW S, NEW T \in SUBSET Honest, S \subseteq T \cup Faulty, NEW K \in Int,
         Cardinality(S) >= K \/ Cardinality(S \cup Faulty) >= K
  PROVE  Cardinality(T \cup Faulty) >= K
<1>1. IsFiniteSet(T \cup Faulty)
  <2>1. IsFiniteSet(T) /\ IsFiniteSet(Faulty)
    BY Zenon, Validators, FS_Subset
  <2> QED BY <2>1, FS_Union, Zenon
<1>2. S \in SUBSET (T \cup Faulty) /\ S \cup Faulty \in SUBSET (T \cup Faulty)
  BY Zenon
<1>3. /\ Cardinality(S) <= Cardinality(T \cup Faulty)
      /\ Cardinality(S \cup Faulty) <= Cardinality(T \cup Faulty)
      /\ IsFiniteSet(S) /\ IsFiniteSet(S \cup Faulty)
  BY Zenon, <1>1, <1>2, FS_Subset
<1>4. /\ Cardinality(T \cup Faulty) \in Nat /\ Cardinality(S) \in Nat
      /\ Cardinality(S \cup Faulty) \in Nat
  BY Zenon, <1>1, <1>3, FS_CardinalityType
<1> QED BY <1>3, <1>4

\* A majority stays one when more validators have signed.
LEMMA MoreSigners ==
  ASSUME NEW S, NEW T \in SUBSET Honest, S \subseteq T \cup Faulty,
         Cardinality(S) >= MinMajority(N) \/ IsQuorum(S)
  PROVE  IsQuorum(T)
<1>1. MinMajority(N) \in Int
  BY Zenon, QuorumNumber
<1> DEFINE K == MinMajority(N)
<1>2. K \in Int /\ (Cardinality(S) >= K \/ Cardinality(S \cup Faulty) >= K)
  BY Zenon, <1>1 DEF IsQuorum
<1>3. SUFFICES Cardinality(T \cup Faulty) >= K
  BY Zenon DEF IsQuorum
<1> HIDE DEF K
<1> QED BY <1>2, QuorumGrows, Zenon

\* What an honest validator signed, it sent.
LEMMA HonestSigned ==
  ASSUME NetInv, NEW m \in Signed, m.from \in Honest
  PROVE  m \in node[m.from].out
<1>1. ASSUME NEW k \in Honest, NEW x \in node[k].out
      PROVE  x.from = k /\ Repeats(x, node[k].out)
  BY Zenon DEF NetInv, ValidatorInv, CoreInv, OutInv
<1>2. CASE m \in Sent
  BY <1>1, <1>2 DEF Sent
<1>3. CASE m \in FaultyMessages
  BY Zenon, <1>3, NetAssumption
<1>4. ASSUME NEW x \in Sent \cup FaultyMessages, x.type = "catchUpReply", m \in Repeated(x)
      PROVE  m \in node[m.from].out
  <2>1. PICK k \in DOMAIN x.payloads : m = x.payloads[k] /\ x.payloads[k].from = x.from
    BY Zenon, <1>4 DEF Repeated
  <2>2. CASE x \in FaultyMessages
    BY Zenon, <2>1, <2>2, NetAssumption
  <2>3. ASSUME NEW j \in Honest, x \in node[j].out
        PROVE  m \in node[m.from].out
    BY <1>1, <1>4, <2>1, <2>3 DEF Repeats
  <2> QED BY Zenon, <2>2, <2>3 DEF Sent
<1> QED BY Zenon, <1>2, <1>3, <1>4 DEF Signed

\* A majority among the votes that a core received is one of those that were signed.
LEMMA ReceivedMajority ==
  ASSUME NetInv, NEW type, NEW votes, NEW h, NEW r, NEW b,
         \A x \in votes : Voted(Signed, type, x[1], h, x[2], x[3]),
         b \in TwoThirdMajority(votes, r)
  PROVE  IsQuorum(Signers(type, h, r, b))
<1> DEFINE S == VotersOf(votes, r, b)
           T == Signers(type, h, r, b)
<1>1. Cardinality(S) >= MinMajority(N)
  BY Zenon DEF TwoThirdMajority
<1>2. ASSUME NEW j \in S PROVE j \in T \cup Faulty
  <2>1. j \in 0 .. N - 1 /\ <<j, r, b>> \in votes
    BY Zenon DEF VotersOf
  <2>2. Voted(Signed, type, j, h, r, b)
    BY Zenon, <2>1
  <2>3. PICK m \in Signed : /\ m.type = type /\ m.from = j /\ m.number = h
                            /\ m.round = r /\ m.block = b
    BY Zenon, <2>2 DEF Voted
  <2>4. CASE j \in Honest
    <3>1. m \in node[j].out
      BY Zenon, <2>3, <2>4, HonestSigned
    <3> QED BY Zenon, <2>3, <2>4, <3>1 DEF Signers
  <2> QED BY Zenon, <2>1, <2>4, NetAssumption
<1>3. T \in SUBSET Honest
  BY Zenon DEF Signers
<1> HIDE DEF S, T
<1>4. IsQuorum(T)
  BY Zenon, <1>1, <1>2, <1>3, MoreSigners
<1> QED BY Zenon, <1>4 DEF T

\* What a step of core i does to the votes that were signed.
LEMMA VotesStep ==
  ASSUME NetInv, NEW i \in Honest, NEW t, NodeStep(i, t)
  PROVE  /\ \A j \in Honest : node[j].out \subseteq node'[j].out
         /\ \A j \in Honest : \A m \in node'[j].out : IsVote(m) /\ m \notin node[j].out =>
              /\ j = i /\ m \in t.out /\ t.height = node[i].height
              /\ m.number = node[i].height /\ m.round \in Nat
              /\ \A k \in node[i].out :
                   IsVote(k) /\ k.number = m.number => k.round \in Nat /\ k.round <= m.round
<1>1. OutInv(node[i]) /\ Placed(node[i]) /\ node[i].height \in Nat
  BY Zenon DEF NetInv, ValidatorInv, CoreInv, TypeInv, Placed, StepNumber
<1>2. node[i].out \subseteq t.out
  BY Zenon DEF NodeStep, GoesOn, Onward, VotesGo
<1>3. ASSUME NEW m \in t.out, IsVote(m), m \notin node[i].out
      PROVE  /\ t.height = node[i].height /\ m.number = node[i].height /\ m.round \in Nat
             /\ \A k \in node[i].out :
                  IsVote(k) /\ k.number = m.number => k.round \in Nat /\ k.round <= m.round
  <2>1. Onward(node[i], t)
    BY Zenon, <1>3 DEF NodeStep, GoesOn
  <2>2. t.height = node[i].height /\ Ahead(m, node[i])
    BY Zenon, <1>3, <2>1 DEF Onward, VotesGo
  <2>3. m.number = node[i].height /\ m.round \in Nat /\ node[i].round <= m.round
    BY <1>1, <2>2 DEF Ahead, Placed
  <2>4. ASSUME NEW k \in node[i].out, IsVote(k), k.number = m.number
        PROVE  k.round \in Nat /\ k.round <= m.round
    <3>1. /\ k.round \in Nat
          /\ k.number < node[i].height \/ NotAfter(k.round, StepOf(k), node[i])
      BY Zenon, <1>1, <2>4 DEF OutInv
    <3>2. k.round <= node[i].round
      BY <1>1, <2>3, <2>4, <3>1 DEF NotAfter, Placed
    <3> QED BY <1>1, <2>3, <3>1, <3>2 DEF Placed
  <2> QED BY Zenon, <2>2, <2>3, <2>4
<1> QED BY Zenon, <1>2, <1>3 DEF NodeStep

\* Majorities stay, those that moved on from a block included.
LEMMA MajoritiesStay ==
  ASSUME NetInv, NEW i \in Honest, NEW t, NodeStep(i, t), NEW h, NEW r1 \in Nat, NEW d
  PROVE  /\ IsQuorum(Signers("prevote", h, r1, d)) => IsQuorum(Signers("prevote", h, r1, d)')
         /\ \A r0 \in Nat : \A b :
              r0 < r1 /\ IsQuorum(Left(h, r1, d, r0, b)) => IsQuorum(Left(h, r1, d, r0, b)')
<1>1. Signers("prevote", h, r1, d) \subseteq Signers("prevote", h, r1, d)'
  BY Zenon, VotesStep DEF Signers
<1>2. ASSUME NEW r0 \in Nat, NEW b, r0 < r1, NEW j \in Left(h, r1, d, r0, b)
      PROVE  j \in Left(h, r1, d, r0, b)'
  <2>1. j \in Signers("prevote", h, r1, d)' /\ j \in Honest
    BY Zenon, <1>1 DEF Left, Signers
  <2>2. ASSUME j \in Signers("precommit", h, r0, b)' PROVE FALSE
    <3>1. PICK x \in node'[j].out : /\ x.type = "precommit" /\ x.number = h
                                    /\ x.round = r0 /\ x.block = b
      BY Zenon, <2>2 DEF Signers
    <3>2. x \notin node[j].out
      BY Zenon, <2>1, <3>1 DEF Left, Signers
    <3>3. PICK y \in node[j].out : y.type = "prevote" /\ y.number = h /\ y.round = r1
      BY Zenon DEF Left, Signers
    <3>4. IsVote(x) /\ IsVote(y)
      BY Zenon, <3>1, <3>3 DEF IsVote
    <3>5. y.round <= x.round
      BY <2>1, <3>1, <3>2, <3>3, <3>4, VotesStep
    <3> QED BY <1>2, <3>1, <3>3, <3>5
  <2> QED BY Zenon, <2>1, <2>2 DEF Left
<1>3. /\ Signers("prevote", h, r1, d)' \in SUBSET Honest
      /\ \A r0, b : Left(h, r1, d, r0, b)' \in SUBSET Honest
  BY Zenon DEF Left, Signers
<1>4. ASSUME NEW r0 \in Nat, NEW b, r0 < r1, IsQuorum(Left(h, r1, d, r0, b))
      PROVE  IsQuorum(Left(h, r1, d, r0, b)')
  <2>1. Left(h, r1, d, r0, b) \subseteq Left(h, r1, d, r0, b)'
    BY Zenon, <1>2, <1>4
  <2> QED BY Zenon, <1>3, <1>4, <2>1, MoreSigners
<1>5. IsQuorum(Signers("prevote", h, r1, d)) => IsQuorum(Signers("prevote", h, r1, d)')
  BY Zenon, <1>1, <1>3, MoreSigners
<1> QED BY Zenon, <1>4, <1>5

\* A step keeps the rule that a precommit rests on a polka (enterPrecommit).
LEMMA PolkaStep ==
  ASSUME NetInv, PolkaInv, NEW i \in Honest, NEW t, NodeStep(i, t)
  PROVE  PolkaInv'
<1>1. ASSUME NEW j \in Honest, NEW x \in node'[j].out, x.type = "precommit", x.block # Nil
      PROVE  IsQuorum(Signers("prevote", x.number, x.round, x.block)')
  <2>1. IsVote(x)
    BY Zenon, <1>1 DEF IsVote
  <2>2. x.round \in Nat /\ IsQuorum(Signers("prevote", x.number, x.round, x.block))
    <3>1. CASE x \in node[j].out
      <4>1. OutInv(node[j])
        BY Zenon DEF NetInv, ValidatorInv, CoreInv
      <4> QED BY Zenon, <1>1, <2>1, <3>1, <4>1 DEF PolkaInv, OutInv
    <3>2. CASE x \notin node[j].out
      <4>1. x \in t.out /\ x.number = t.height /\ x.round \in Nat
        BY Zenon, <2>1, <3>2, VotesStep
      <4>2. LockInv(t) /\ ReceivedInv(t, Signed)
        BY Zenon DEF NodeStep, CoreInv
      <4>3. x.block \in TwoThirdMajority(t.prevotes, x.round)
        BY Zenon, <1>1, <4>1, <4>2 DEF LockInv
      <4>4. \A z \in t.prevotes : Voted(Signed, "prevote", z[1], x.number, z[2], z[3])
        BY Zenon, <4>1, <4>2 DEF ReceivedInv
      <4> QED BY Zenon, <4>1, <4>3, <4>4, ReceivedMajority
    <3> QED BY Zenon, <3>1, <3>2
  <2> QED BY Zenon, <2>2, MajoritiesStay
<1> QED BY Zenon, <1>1 DEF PolkaInv, IsQuorum

\* A step keeps the rule that who leaves a block follows a majority of others.  A
\* core that prevotes another block saw a polka; either none of its signers
\* precommitted the block, or one of them left it earlier.
LEMMA LocksStep ==
  ASSUME NetInv, LocksInv, NEW i \in Honest, NEW t, NodeStep(i, t)
  PROVE  LocksInv'
<1>1. ASSUME NEW j \in Honest, NEW x \in node'[j].out, NEW y \in node'[j].out,
             x.type = "precommit", y.type = "prevote", x.number = y.number,
             x.round < y.round, x.block # Nil, y.block # x.block
      PROVE  x.round \in Nat /\ LeavesWith(x, y)
  <2>1. IsVote(x) /\ IsVote(y)
    BY Zenon, <1>1 DEF IsVote
  <2>2. OutInv(node[j])
    BY Zenon DEF NetInv, ValidatorInv, CoreInv
  <2>3. x.round \in Nat /\ y.round \in Nat
    BY Zenon, <2>1, <2>2, VotesStep DEF OutInv
  <2>4. CASE y \in node[j].out
    <3>1. x \in node[j].out
      <4>1. ASSUME x \notin node[j].out PROVE FALSE
        <5>1. y.round <= x.round
          BY Zenon, <1>1, <2>1, <2>4, <4>1, VotesStep
        <5> QED BY <1>1, <2>3, <5>1
      <4> QED BY Zenon, <4>1
    <3> QED BY Zenon, <1>1, <2>3, <2>4, <3>1 DEF LocksInv
  <2>5. CASE y \notin node[j].out
    <3>1. j = i /\ y \in t.out /\ y.number = t.height /\ x \in t.out
      BY <2>1, <2>5, VotesStep DEF NodeStep
    <3>2. LockInv(t) /\ ReceivedInv(t, Signed)
      BY Zenon DEF NodeStep, CoreInv
    <3>3. Released(t, x.block, x.round, y.round)
      BY Zenon, <1>1, <3>1, <3>2 DEF LockInv
    <3>4. PICK r1 \in x.round + 1 .. y.round : TwoThirdMajority(t.prevotes, r1) \ {x.block} # {}
      BY Zenon, <3>3 DEF Released
    <3>5. PICK d : d \in TwoThirdMajority(t.prevotes, r1) /\ d # x.block
      BY Zenon, <3>4
    <3>6. r1 \in Nat /\ x.round < r1 /\ r1 <= y.round
      BY <2>3
    <3>7. \A z \in t.prevotes : Voted(Signed, "prevote", z[1], x.number, z[2], z[3])
      BY Zenon, <1>1, <3>1, <3>2 DEF ReceivedInv
    <3>8. IsQuorum(Signers("prevote", x.number, r1, d))
      BY Zenon, <3>5, <3>7, ReceivedMajority
    <3>9. CASE Signers("prevote", x.number, r1, d)
                 \cap Signers("precommit", x.number, x.round, x.block) = {}
      <4>1. Left(x.number, r1, d, x.round, x.block) = Signers("prevote", x.number, r1, d)
        BY Zenon, <3>9 DEF Left
      <4> QED BY Zenon, <2>3, <3>5, <3>6, <3>8, <4>1 DEF LeavesWith
    <3>10. ASSUME NEW k \in Signers("prevote", x.number, r1, d)
                              \cap Signers("precommit", x.number, x.round, x.block)
           PROVE  LeavesWith(x, y)
      <4>1. PICK u \in node[k].out : /\ u.type = "prevote" /\ u.number = x.number
                                     /\ u.round = r1 /\ u.block = d
        BY Zenon DEF Signers
      <4>2. PICK v \in node[k].out : /\ v.type = "precommit" /\ v.number = x.number
                                     /\ v.round = x.round /\ v.block = x.block
        BY Zenon DEF Signers
      <4>3. k \in Honest
        BY Zenon DEF Signers
      <4>4. LeavesWith(v, u)
        BY Zenon, <1>1, <3>5, <3>6, <4>1, <4>2, <4>3 DEF LocksInv
      <4>5. PICK r2 \in Nat : \E e : /\ x.round < r2 /\ r2 <= r1 /\ e # x.block
                                     /\ IsQuorum(Left(x.number, r2, e, x.round, x.block))
        BY Zenon, <4>1, <4>2, <4>4 DEF LeavesWith
      <4>6. r2 <= y.round
        BY <2>3, <3>6, <4>5
      <4> QED BY Zenon, <4>5, <4>6 DEF LeavesWith
    <3> QED BY Zenon, <2>3, <3>9, <3>10
  <2> QED BY Zenon, <2>4, <2>5
<1>2. ASSUME NEW x, NEW y, x.round \in Nat, LeavesWith(x, y)
      PROVE  LeavesWith(x, y)'
  <2>1. PICK r1 \in Nat : \E d : /\ x.round < r1 /\ r1 <= y.round /\ d # x.block
                                  /\ IsQuorum(Left(x.number, r1, d, x.round, x.block))
    BY Zenon, <1>2 DEF LeavesWith
  <2>2. PICK d : /\ x.round < r1 /\ r1 <= y.round /\ d # x.block
                 /\ IsQuorum(Left(x.number, r1, d, x.round, x.block))
    BY Zenon, <2>1
  <2>3. IsQuorum(Left(x.number, r1, d, x.round, x.block)')
    BY Zenon, <1>2, <2>2, MajoritiesStay
  <2> QED BY <2>2, <2>3, Zenon DEF LeavesWith, IsQuorum
<1> QED BY <1>1, <1>2 DEF LocksInv

\* Two majorities have an honest validator in common.
LEMMA QuorumsMeet ==
  ASSUME Cardinality(Faulty) <= F(N), NEW S \in SUBSET Honest, NEW T \in SUBSET Honest,
         IsQuorum(S), IsQuorum(T)
  PROVE  S \cap T # {}
<1> DEFINE f == Cardinality(Faulty)
           a == Cardinality(S)
           b == Cardinality(T)
           q == (N + 2) \div 3
<1>1. IsFiniteSet(S) /\ IsFiniteSet(T) /\ IsFiniteSet(S \cup T) /\ IsFiniteSet(Faulty)
  BY Zenon, Validators, FS_Subset, FS_Union
<1>2. a \in Nat /\ b \in Nat /\ Cardinality(S \cup T) \in Nat
  BY Zenon, <1>1, FS_CardinalityType
<1>3. f \in Nat /\ Cardinality(Honest) + f = N /\ Cardinality(Honest) \in Nat /\ N \in Nat
  BY Zenon, Validators, NAssumption
<1>4. Cardinality(S \cup Faulty) = a + f
  <2>1. S \cap Faulty = {}
    BY Zenon, Validators
  <2>2. Cardinality(S \cap Faulty) = 0
    BY Zenon, <2>1, FS_EmptySet
  <2>3. Cardinality(S \cup Faulty) = a + f - Cardinality(S \cap Faulty)
    BY Zenon, <1>1, FS_Union
  <2> QED BY <1>2, <1>3, <2>2, <2>3
<1>5. Cardinality(T \cup Faulty) = b + f
  <2>1. T \cap Faulty = {}
    BY Zenon, Validators
  <2>2. Cardinality(T \cap Faulty) = 0
    BY Zenon, <2>1, FS_EmptySet
  <2>3. Cardinality(T \cup Faulty) = b + f - Cardinality(T \cap Faulty)
    BY Zenon, <1>1, FS_Union
  <2> QED BY <1>2, <1>3, <2>2, <2>3
<1>6. Cardinality(S \cup T) <= Cardinality(Honest)
  BY Zenon, Validators, FS_Subset, S \cup T \subseteq Honest
<1>7. ASSUME S \cap T = {} PROVE FALSE
  <2>1. Cardinality(S \cap T) = 0
    BY Zenon, <1>7, FS_EmptySet
  <2>2. Cardinality(S \cup T) = a + b - Cardinality(S \cap T)
    BY Zenon, <1>1, FS_Union
  <2>3. Cardinality(S \cup T) = a + b
    BY <1>2, <2>1, <2>2
  <2>4. /\ q \in Nat /\ 3 * q <= N + 2
    BY <1>3
  <2>5. /\ f <= q - 1 /\ a + f >= N - (q - 1) /\ b + f >= N - (q - 1)
    BY Zenon, <1>4, <1>5 DEF IsQuorum, MinMajority, F
  <2>6. a + b <= Cardinality(Honest)
    BY Zenon, <1>6, <2>3
  <2> HIDE DEF f, a, b, q
  <2> QED BY <1>2, <1>3, <2>4, <2>5, <2>6
<1> QED BY Zenon, <1>7

\* A commit that carries its seals rests on a majority of precommits.
LEMMA CommitQuorum ==
  ASSUME NetInv, NEW c, CommitIsSound(c, Signed)
  PROVE  /\ c.block # Nil
         /\ \E r \in Int : IsQuorum(Signers("precommit", c.block.number, r, c.block))
<1>1. PICK r \in Int : \A j \in c.seals : Voted(Signed, "precommit", j, c.block.number, r, c.block)
  BY Zenon DEF CommitIsSound
<1> DEFINE T == Signers("precommit", c.block.number, r, c.block)
<1>2. ASSUME NEW j \in c.seals PROVE j \in T \cup Faulty
  <2>1. PICK m \in Signed : /\ m.type = "precommit" /\ m.from = j /\ m.number = c.block.number
                            /\ m.round = r /\ m.block = c.block
    BY Zenon, <1>1 DEF Voted
  <2>2. j \in Honest \cup Faulty
    BY Zenon, Validators DEF CommitIsSound
  <2>3. CASE j \in Honest
    BY Zenon, <2>1, <2>3, HonestSigned DEF Signers
  <2> QED BY Zenon, <2>2, <2>3
<1>3. Cardinality(c.seals) >= MinMajority(N)
  BY QuorumNumber DEF CommitIsSound
<1>4. T \in SUBSET Honest
  BY Zenon DEF Signers
<1>5. IsQuorum(T)
  <2> HIDE DEF T
  <2> QED BY Zenon, <1>2, <1>3, <1>4, MoreSigners
<1> QED BY Zenon, <1>5 DEF CommitIsSound

\* A block that a majority precommitted is left by no later majority.
LEMMA LaterCommit ==
  ASSUME Cardinality(Faulty) <= F(N), NetInv, PolkaInv, LocksInv,
         NEW h, NEW r0 \in Int, NEW r1 \in Int, r0 <= r1, NEW b, NEW c, b # Nil, c # Nil,
         IsQuorum(Signers("precommit", h, r0, b)), IsQuorum(Signers("precommit", h, r1, c))
  PROVE  b = c
<1> SUFFICES ASSUME b # c PROVE FALSE
  BY Zenon
<1> DEFINE S == Signers("precommit", h, r0, b)
           T == Signers("precommit", h, r1, c)
<1>1. S \in SUBSET Honest /\ T \in SUBSET Honest
  BY Zenon DEF Signers
<1>2. CASE r0 = r1
  <2>1. PICK k : k \in S /\ k \in T
    BY Zenon, <1>1, QuorumsMeet
  <2>2. OutInv(node[k])
    BY Zenon, <1>1, <2>1 DEF NetInv, ValidatorInv, CoreInv
  <2> QED BY Zenon, <1>2, <2>1, <2>2 DEF Signers, OutInv, IsVote
<1>3. CASE r0 < r1
  <2>1. PICK j : j \in T
    BY Zenon, <1>1, QuorumsMeet
  <2>2. IsQuorum(Signers("prevote", h, r1, c))
    BY <2>1 DEF Signers, PolkaInv
  <2>3. PICK k : k \in S /\ k \in Signers("prevote", h, r1, c)
    <3>1. Signers("prevote", h, r1, c) \in SUBSET Honest
      BY Zenon DEF Signers
    <3> HIDE DEF S
    <3>2. S \cap Signers("prevote", h, r1, c) # {}
      BY Zenon, <1>1, <2>2, <3>1, QuorumsMeet DEF S
    <3> QED BY Zenon, <3>2
  <2>4. PICK x \in node[k].out : x.type = "precommit" /\ x.number = h /\ x.round = r0 /\ x.block = b
    BY Zenon, <2>3 DEF Signers
  <2>5. PICK y \in node[k].out : y.type = "prevote" /\ y.number = h /\ y.round = r1 /\ y.block = c
    BY Zenon, <2>3 DEF Signers
  <2>6. LeavesWith(x, y)
    BY Zenon, <1>1, <1>3, <2>3, <2>4, <2>5 DEF LocksInv
  <2>7. PICK r2 \in Nat : \E d : IsQuorum(Left(h, r2, d, r0, b))
    BY Zenon, <2>4, <2>6 DEF LeavesWith
  <2> PICK d : IsQuorum(Left(h, r2, d, r0, b))
    BY Zenon, <2>7
  <2>8. Left(h, r2, d, r0, b) \in SUBSET Honest /\ Left(h, r2, d, r0, b) \cap S = {}
    BY Zenon DEF Left, Signers
  <2> QED BY Zenon, <1>1, <2>7, <2>8, QuorumsMeet
<1> QED BY <1>2, <1>3

\* The votes and the decisions at height h, as Voting sees them.
V(h) == INSTANCE Voting WITH
          Value <- { b \in Accepted : b.number = h }, Round <- 0 .. MaxRound,
          prevotes <- VotesOf("prevote", h), precommits <- VotesOf("precommit", h),
          decided <- Decisions(h)

\* The votes that Voting sees of an honest validator are those it signed.
LEMMA VotesAre ==
  ASSUME NetInv, NEW type, NEW h, NEW j \in Honest, NEW r, NEW b
  PROVE  <<j, r, b>> \in VotesOf(type, h) <=> j \in Signers(type, h, r, b)
<1>1. ASSUME NEW k \in Honest, NEW m \in node[k].out
      PROVE  m.from = k
  BY Zenon DEF NetInv, ValidatorInv, CoreInv, OutInv
<1>2. ASSUME <<j, r, b>> \in VotesOf(type, h) PROVE j \in Signers(type, h, r, b)
  <2>1. PICK m \in Sent : /\ m.type = type /\ m.number = h
                          /\ <<j, r, b>> = <<m.from, m.round, m.block>>
    BY Zenon, <1>2 DEF VotesOf
  <2>2. PICK k \in Honest : m \in node[k].out
    BY Zenon DEF Sent
  <2> QED BY Zenon, <1>1, <2>1, <2>2 DEF Signers
<1>3. ASSUME j \in Signers(type, h, r, b) PROVE <<j, r, b>> \in VotesOf(type, h)
  <2>1. PICK m \in node[j].out : m.type = type /\ m.number = h /\ m.round = r /\ m.block = b
    BY Zenon, <1>3 DEF Signers
  <2>2. m \in Sent /\ m.from = j
    BY Zenon, <1>1 DEF Sent
  <2> QED BY Zenon, <2>1, <2>2 DEF VotesOf
<1> QED BY Zenon, <1>2, <1>3

\* The same after a step.
LEMMA VoteAfter ==
  ASSUME NetInv', NEW type, NEW h, NEW x \in VotesOf(type, h)'
  PROVE  \E j \in Honest : \E m \in node'[j].out :
           m.type = type /\ m.number = h /\ x = <<j, m.round, m.block>>
<1>1. PICK m \in Sent' : m.type = type /\ m.number = h /\ x = <<m.from, m.round, m.block>>
  BY Zenon DEF VotesOf
<1>2. PICK j \in Honest : m \in node'[j].out
  BY Zenon DEF Sent
<1>3. m.from = j
  BY Zenon, <1>2 DEF NetInv, ValidatorInv, CoreInv, OutInv
<1> QED BY Zenon, <1>1, <1>2, <1>3

\* A majority of the network is one of Voting.
LEMMA AbstractQuorum ==
  ASSUME NetInv, NEW h, NEW r, NEW b
  PROVE  /\ IsQuorum(Signers("prevote", h, r, b)) => V(h)!Polka(r, b)
         /\ IsQuorum(Signers("precommit", h, r, b)) => V(h)!CommitMajority(r, b)
<1>1. Cardinality(Honest \cup Faulty) = N
  <2>1. Cardinality(0 .. N - 1) = N
    BY NAssumption, FS_Interval
  <2> QED BY <2>1, NetAssumption, Zenon
<1>2. V(h)!Prevoters(r, b) = Signers("prevote", h, r, b)
  <2>1. V(h)!Prevoters(r, b) = { n \in Honest : <<n, r, b>> \in VotesOf("prevote", h) }
    BY Zenon DEF V!Prevoters
  <2>2. Signers("prevote", h, r, b) \subseteq Honest
    BY Zenon DEF Signers
  <2> QED BY Zenon, <2>1, <2>2, VotesAre
<1>3. V(h)!Precommitters(r, b) = Signers("precommit", h, r, b)
  <2>1. V(h)!Precommitters(r, b) = { n \in Honest : <<n, r, b>> \in VotesOf("precommit", h) }
    BY Zenon DEF V!Precommitters
  <2>2. Signers("precommit", h, r, b) \subseteq Honest
    BY Zenon DEF Signers
  <2> QED BY Zenon, <2>1, <2>2, VotesAre
<1>4. V(h)!MinMajority(N) = MinMajority(N)
  BY Zenon DEF V!MinMajority, V!F, MinMajority, F
<1>5. \A S : V(h)!Cardinality(S) = Cardinality(S)
  BY Zenon DEF V!Cardinality, Cardinality
<1> QED BY Zenon, <1>1, <1>2, <1>3, <1>4, <1>5 DEF V!Polka, V!CommitMajority, V!IsQuorum, IsQuorum

\* The cores sign votes in the rounds considered only.
VoteRounds ==
  \A j \in Honest : \A m \in node[j].out : IsVote(m) => m.round \in 0 .. MaxRound

\* A new vote, in a round that the bounds allow.
LEMMA NewVote ==
  ASSUME NetInv, NEW i \in Honest, NEW t, NodeStep(i, t),
         NEW j \in Honest, NEW m \in node'[j].out, IsVote(m), m \notin node[j].out
  PROVE  /\ j = i /\ m \in t.out /\ m.number = t.height /\ t.height = node[i].height
         /\ m.round \in 0 .. MaxRound /\ ForBlock(m)
<1>1. /\ j = i /\ m \in t.out /\ t.height = node[i].height /\ m.number = node[i].height
      /\ m.round \in Nat
  BY Zenon, VotesStep
<1>2. t.round <= MaxRound
  BY Zenon, <1>1 DEF NodeStep
<1>3. CoreInv(t, Signed)
  BY Zenon DEF NodeStep
<1>4. OutInv(t) /\ Placed(t) /\ t.height \in Nat
  BY Zenon, <1>3 DEF CoreInv, TypeInv, Placed, StepNumber
<1>5. ForBlock(m) /\ NotAfter(m.round, StepOf(m), t)
  BY <1>1, <1>4 DEF OutInv
<1>6. m.round <= t.round
  BY <1>1, <1>4, <1>5 DEF NotAfter, Placed
<1>7. m.round <= MaxRound
  BY <1>1, <1>2, <1>4, <1>6, NetAssumption DEF Placed
<1> QED BY <1>1, <1>5, <1>7

\* A step keeps the votes within the rounds considered.
LEMMA RoundsStep ==
  ASSUME NetInv, VoteRounds, NEW i \in Honest, NEW t, NodeStep(i, t)
  PROVE  VoteRounds'
<1> SUFFICES ASSUME NEW j \in Honest, NEW m \in node'[j].out, IsVote(m)
             PROVE  m.round \in 0 .. MaxRound
  BY Zenon DEF VoteRounds
<1>1. CASE m \in node[j].out
  BY Zenon, <1>1 DEF VoteRounds
<1>2. CASE m \notin node[j].out
  BY Zenon, <1>2, NewVote
<1> QED BY Zenon, <1>1, <1>2

\* Votes are signed in the order of round and step.
LEMMA VotesInOrder ==
  ASSUME NetInv, NEW i \in Honest, NEW t, NodeStep(i, t),
         NEW m \in t.out, IsVote(m), m \notin node[i].out,
         NEW k \in node[i].out, IsVote(k), k.number = m.number
  PROVE  /\ k.round \in Nat /\ m.round \in Nat
         /\ k.round < m.round \/ (k.round = m.round /\ StepOf(k) < StepOf(m))
<1>1. OutInv(node[i]) /\ Placed(node[i]) /\ node[i].height \in Nat
  BY Zenon DEF NetInv, ValidatorInv, CoreInv, TypeInv, Placed, StepNumber
<1>2. Onward(node[i], t)
  BY Zenon DEF NodeStep, GoesOn
<1>3. Ahead(m, node[i])
  BY Zenon, <1>2 DEF Onward, VotesGo
<1>4. k.round \in Nat /\ NotAfter(k.round, StepOf(k), node[i])
  BY <1>1, <1>3 DEF OutInv, Ahead
<1>5. StepOf(k) \in {4, 6}
  BY Zenon DEF IsVote, StepOf, RoundStepPrevote, RoundStepPrecommit
<1> HIDE DEF StepOf
<1> QED BY <1>1, <1>3, <1>4, <1>5 DEF Ahead, NotAfter, Placed, StepNumber

\* What Voting sees of a new vote.
LEMMA NewVoteSeen ==
  ASSUME NetInv, NetInv', NEW i \in Honest, NEW t, NodeStep(i, t), NEW h,
         NEW type \in {"prevote", "precommit"},
         NEW x \in VotesOf(type, h)', x \notin VotesOf(type, h)
  PROVE  \E m \in t.out :
           /\ m \notin node[i].out /\ m.type = type /\ m.number = h /\ t.height = h
           /\ x = <<i, m.round, m.block>> /\ m.round \in 0 .. MaxRound /\ ForBlock(m)
<1>1. PICK j \in Honest : \E m \in node'[j].out :
        m.type = type /\ m.number = h /\ x = <<j, m.round, m.block>>
  BY VoteAfter
<1>2. PICK m \in node'[j].out : m.type = type /\ m.number = h /\ x = <<j, m.round, m.block>>
  BY Zenon, <1>1
<1>3. m \notin node[j].out
  <2>1. ASSUME m \in node[j].out PROVE FALSE
    <3>1. j \in Signers(type, h, m.round, m.block)
      BY Zenon, <1>2, <2>1 DEF Signers
    <3> QED BY Zenon, <1>2, <3>1, VotesAre
  <2> QED BY Zenon, <2>1
<1>4. IsVote(m)
  BY Zenon, <1>2 DEF IsVote
<1> QED BY <1>2, <1>3, <1>4, NewVote

\* The order in which Voting wants votes.
LEMMA VotesBefore ==
  ASSUME NetInv, NEW i \in Honest, NEW t, NodeStep(i, t),
         NEW m \in t.out, IsVote(m), m \notin node[i].out,
         NEW r, NEW b
  PROVE  /\ <<i, r, b>> \in VotesOf("prevote", m.number) =>
              r \in Nat /\ (r < m.round \/ (r = m.round /\ m.type = "precommit"))
         /\ <<i, r, b>> \in VotesOf("precommit", m.number) => r \in Nat /\ r < m.round
<1>1. ASSUME NEW type \in {"prevote", "precommit"}, <<i, r, b>> \in VotesOf(type, m.number)
      PROVE  /\ r \in Nat
             /\ r < m.round \/ (r = m.round /\ type = "prevote" /\ m.type = "precommit")
  <2>1. PICK k \in node[i].out : k.type = type /\ k.number = m.number /\ k.round = r
    BY <1>1, VotesAre DEF Signers
  <2>2. IsVote(k)
    BY Zenon, <2>1 DEF IsVote
  <2>3. k.round \in Nat /\ (k.round < m.round \/ (k.round = m.round /\ StepOf(k) < StepOf(m)))
    BY Zenon, <2>1, <2>2, VotesInOrder
  <2>4. StepOf(k) < StepOf(m) => type = "prevote" /\ m.type = "precommit"
    BY <2>1 DEF IsVote, StepOf, RoundStepPrevote, RoundStepPrecommit
  <2> QED BY Zenon, <2>1, <2>3, <2>4
<1> QED BY Zenon, <1>1

\* A majority that a core received is one that Voting sees.
LEMMA PolkaSeenBy ==
  ASSUME Cardinality(Faulty) <= F(N), NetInv, NEW i \in Honest, NEW t, NodeStep(i, t), NEW r,
         NEW b,
         b \in TwoThirdMajority(t.prevotes, r)
  PROVE  V(t.height)!Polka(r, b) /\ b \in { a \in Accepted : a.number = t.height } \cup {Nil}
<1>1. ReceivedInv(t, Signed)
  BY Zenon DEF NodeStep, CoreInv
<1>2. \A z \in t.prevotes : Voted(Signed, "prevote", z[1], t.height, z[2], z[3])
  BY Zenon, <1>1 DEF ReceivedInv
<1> DEFINE S == Signers("prevote", t.height, r, b)
<1>3. IsQuorum(S)
  BY Zenon, <1>2, ReceivedMajority
<1>4. S \in SUBSET Honest
  BY Zenon DEF Signers
<1>5. PICK j : j \in S
  <2> HIDE DEF S
  <2> QED BY Zenon, <1>3, <1>4, QuorumsMeet
<1>6. PICK m \in node[j].out : /\ m.type = "prevote" /\ m.number = t.height
                               /\ m.round = r /\ m.block = b
  BY Zenon, <1>5 DEF Signers
<1>7. OutInv(node[j])
  BY Zenon, <1>4, <1>5 DEF NetInv, ValidatorInv, CoreInv
<1>8. ForBlock(m)
  BY Zenon, <1>6, <1>7 DEF OutInv, IsVote
<1> QED BY Zenon, <1>3, <1>6, <1>8, AbstractQuorum DEF ForBlock

\* A new prevote is one that Voting allows: after the earlier votes of the core, and
\* not against its lock (enterPrevote, defaultDoPrevote).
LEMMA CastPrevotes ==
  ASSUME Cardinality(Faulty) <= F(N), NetInv, NetInv', NEW i \in Honest, NEW t, NodeStep(i, t),
         NEW h,
         NEW x \in VotesOf("prevote", h)', x \notin VotesOf("prevote", h)
  PROVE  V(h)!MayPrevote(i, x[2], x[3], VotesOf("precommit", h)')
<1>1. PICK m \in t.out :
        /\ m \notin node[i].out /\ m.type = "prevote" /\ m.number = h /\ t.height = h
        /\ x = <<i, m.round, m.block>> /\ m.round \in 0 .. MaxRound
  BY NewVoteSeen
<1>2. IsVote(m)
  BY Zenon, <1>1 DEF IsVote
<1>3. ASSUME NEW r, NEW b, <<i, r, b>> \in VotesOf("prevote", h) \cup VotesOf("precommit", h)
      PROVE  r < m.round
  BY Zenon, <1>1, <1>2, <1>3, VotesBefore
<1>4. ASSUME NEW r0 \in 0 .. MaxRound, NEW B \in { b \in Accepted : b.number = h } \ {m.block},
             r0 < m.round, <<i, r0, B>> \in VotesOf("precommit", h)'
      PROVE  \E r1 \in 0 .. MaxRound, D \in V(h)!Vote \ {B} :
               r0 < r1 /\ r1 <= m.round /\ V(h)!Polka(r1, D)
  <2>1. PICK k \in t.out : /\ k.type = "precommit" /\ k.number = h
                           /\ k.round = r0 /\ k.block = B
    <3>1. PICK j \in Honest : \E k \in node'[j].out :
            k.type = "precommit" /\ k.number = h /\ <<i, r0, B>> = <<j, k.round, k.block>>
      BY <1>4, VoteAfter
    <3> QED BY Zenon, <3>1 DEF NodeStep
  <2>2. B # Nil
    BY Zenon, AcceptedAssumption
  <2>3. LockInv(t)
    BY Zenon DEF NodeStep, CoreInv
  <2>4. Released(t, B, r0, m.round)
    BY Zenon, <1>1, <1>4, <2>1, <2>2, <2>3 DEF LockInv
  <2>5. PICK r1 \in r0 + 1 .. m.round : TwoThirdMajority(t.prevotes, r1) \ {B} # {}
    BY Zenon, <2>4 DEF Released
  <2>6. PICK D : D \in TwoThirdMajority(t.prevotes, r1) /\ D # B
    BY <2>5
  <2>7. V(h)!Polka(r1, D) /\ D \in V(h)!Vote
    BY <1>1, <2>6, PolkaSeenBy DEF V!Vote
  <2>8. r1 \in 0 .. MaxRound /\ r0 < r1 /\ r1 <= m.round
    BY <1>1, NetAssumption
  <2> QED BY Zenon, <2>6, <2>7, <2>8
<1>5. x[2] = m.round /\ x[3] = m.block
  BY Zenon, <1>1
<1> QED BY Zenon, <1>3, <1>4, <1>5 DEF V!MayPrevote, V!Unlocked

\* A new precommit is one that Voting allows: for Nil, or on a polka
\* (enterPrecommit).
LEMMA CastPrecommits ==
  ASSUME Cardinality(Faulty) <= F(N), NetInv, NetInv', NEW i \in Honest, NEW t, NodeStep(i, t),
         NEW h,
         NEW x \in VotesOf("precommit", h)', x \notin VotesOf("precommit", h)
  PROVE  V(h)!MayPrecommit(i, x[2], x[3])
<1>1. PICK m \in t.out :
        /\ m \notin node[i].out /\ m.type = "precommit" /\ m.number = h /\ t.height = h
        /\ x = <<i, m.round, m.block>> /\ m.round \in 0 .. MaxRound
  BY NewVoteSeen
<1>2. IsVote(m)
  BY Zenon, <1>1 DEF IsVote
<1>3. ASSUME NEW r, NEW b
      PROVE  /\ <<i, r, b>> \in VotesOf("prevote", h) => r <= m.round
             /\ <<i, r, b>> \in VotesOf("precommit", h) => r < m.round
  BY <1>1, <1>2, VotesBefore
<1>4. ASSUME m.block # Nil PROVE V(h)!Polka(m.round, m.block)
  <2>1. LockInv(t)
    BY Zenon DEF NodeStep, CoreInv
  <2>2. m.block \in TwoThirdMajority(t.prevotes, m.round)
    BY Zenon, <1>1, <1>4, <2>1 DEF LockInv
  <2> QED BY <1>1, <2>2, PolkaSeenBy
<1>5. x[2] = m.round /\ x[3] = m.block
  BY Zenon, <1>1
<1> QED BY Zenon, <1>3, <1>4, <1>5 DEF V!MayPrecommit

\* A new commit is one that Voting allows: on a majority of precommits of one round
\* (finalizeCommit).
LEMMA CastDecisions ==
  ASSUME Cardinality(Faulty) <= F(N), NetInv, VoteRounds, NEW i \in Honest, NEW t,
         NodeStep(i, t), NEW h,
         NEW x \in Decisions(h)', x \notin Decisions(h)
  PROVE  x \in {i} \X { b \in Accepted : b.number = h } /\ V(h)!MayDecide(x[2])
<1>1. PICK j \in Honest : \E c \in node'[j].committed : c.block.number = h /\ x = <<j, c.block>>
  BY DEF Decisions
<1>2. PICK c \in node'[j].committed : c.block.number = h /\ x = <<j, c.block>>
  BY Zenon, <1>1
<1>3. j = i /\ c \in t.committed
  <2>1. c \notin node[j].committed
    BY <1>2 DEF Decisions
  <2> QED BY Zenon, <2>1 DEF NodeStep
<1>4. CommitIsSound(c, Signed)
  BY Zenon, <1>3 DEF NodeStep, CoreInv, CommitInv
<1>5. PICK r \in Int : IsQuorum(Signers("precommit", h, r, c.block))
  BY Zenon, <1>2, <1>4, CommitQuorum
<1> DEFINE S == Signers("precommit", h, r, c.block)
<1>6. S \in SUBSET Honest
  BY Zenon DEF Signers
<1>7. PICK k : k \in S
  <2>1. IsQuorum(S)
    BY Zenon, <1>5
  <2> HIDE DEF S
  <2> QED BY Zenon, <1>6, <2>1, QuorumsMeet
<1>8. r \in 0 .. MaxRound
  BY Zenon, <1>7 DEF Signers, VoteRounds, IsVote
<1>9. V(h)!MayDecide(c.block)
  BY Zenon, <1>5, <1>8, AbstractQuorum DEF V!MayDecide
<1> QED BY Zenon, <1>2, <1>3, <1>4, <1>9 DEF CommitIsSound

\* A step of a core is a batch of votes at every height.
LEMMA CastStep ==
  ASSUME Cardinality(Faulty) <= F(N), NetInv, NetInv', VoteRounds,
         NEW i \in Honest, NEW t, NodeStep(i, t), NEW h
  PROVE  V(h)!Cast(i)
<1>1. ASSUME NEW type
      PROVE  VotesOf(type, h) \subseteq VotesOf(type, h)'
  <2>1. Sent \subseteq Sent'
    BY VotesStep DEF Sent
  <2> QED BY Zenon, <2>1 DEF VotesOf
<1>2. Decisions(h) \subseteq Decisions(h)'
  <2>1. node[i].committed \subseteq t.committed
    BY Zenon DEF NodeStep, GoesOn, Onward, VotesGo
  <2>2. \A j \in Honest : node[j].committed \subseteq node'[j].committed
    BY Zenon, <2>1 DEF NodeStep
  <2> QED BY <2>2 DEF Decisions
<1>3. ASSUME NEW type \in {"prevote", "precommit"}
      PROVE  /\ VotesOf(type, h)' \ VotesOf(type, h) \subseteq {i} \X (0 .. MaxRound) \X V(h)!Vote
             /\ V(h)!OncePerRound(VotesOf(type, h)' \ VotesOf(type, h))
  <2>1. ASSUME NEW x \in VotesOf(type, h)' \ VotesOf(type, h)
        PROVE  x \in {i} \X (0 .. MaxRound) \X V(h)!Vote
    BY NewVoteSeen DEF V!Vote, ForBlock
  <2>2. ASSUME NEW x \in VotesOf(type, h)' \ VotesOf(type, h),
               NEW y \in VotesOf(type, h)' \ VotesOf(type, h), x[2] = y[2]
        PROVE  x = y
    <3>1. PICK m \in t.out : m.type = type /\ m.number = h /\ x = <<i, m.round, m.block>>
      BY NewVoteSeen
    <3>2. PICK k \in t.out : k.type = type /\ k.number = h /\ y = <<i, k.round, k.block>>
      BY NewVoteSeen
    <3>3. OutInv(t)
      BY Zenon DEF NodeStep, CoreInv
    <3>4. m = k
      BY Zenon, <2>2, <3>1, <3>2, <3>3 DEF OutInv, IsVote
    <3> QED BY Zenon, <3>1, <3>2, <3>4
  <2> QED BY Zenon, <2>1, <2>2 DEF V!OncePerRound
<1>4. /\ \A x \in VotesOf("prevote", h)' \ VotesOf("prevote", h) :
           V(h)!MayPrevote(i, x[2], x[3], VotesOf("precommit", h)')
      /\ \A x \in VotesOf("precommit", h)' \ VotesOf("precommit", h) :
           V(h)!MayPrecommit(i, x[2], x[3])
  BY Zenon, CastPrevotes, CastPrecommits
<1>5. /\ Decisions(h)' \ Decisions(h) \subseteq {i} \X { b \in Accepted : b.number = h }
      /\ \A x \in Decisions(h)' \ Decisions(h) : V(h)!MayDecide(x[2])
  BY Zenon, CastDecisions
<1> QED BY Zenon, <1>1, <1>2, <1>3, <1>4, <1>5 DEF V!Cast
-----------------------------------------------------------------------------
\* The cores start without votes and commits.
LEMMA NothingSigned ==
  ASSUME Init, NEW j \in Honest
  PROVE  node[j].out = {} /\ node[j].committed = {}
<1> DEFINE s == getInitializedState(j, 0)
           t == Start(s, 0)
<1>1. CoreInv(s, Signed) /\ s.height = 0 + 1
  BY Zenon, NetAssumption, InitialOK
<1>2. s.out = {} /\ s.committed = {}
  BY Zenon DEF getInitializedState
<1> HIDE DEF s
<1>3. t.out = s.out /\ t.committed = s.committed
  BY <1>1, StartOK
<1>4. node[j] = t
  BY Zenon DEF Init, s
<1> QED BY Zenon, <1>2, <1>3, <1>4

\* At every height, a precommit of a block rests on a polka, and who prevotes
\* another block later than a precommit follows a majority whose members did not
\* sign that precommit (enterPrecommit, enterPrevote, handlePrevote).
THEOREM VotesFollowLocks == Spec => [](PolkaInv /\ LocksInv)
<1>1. Init => PolkaInv /\ LocksInv
  BY Zenon, NothingSigned DEF PolkaInv, LocksInv
<1>2. NetInv /\ PolkaInv /\ LocksInv /\ [Next]_vars => PolkaInv' /\ LocksInv'
  BY Zenon, NextOK, PolkaStep, LocksStep DEF Stepped
<1> QED BY <1>1, <1>2, NetInvariant, PTL DEF Spec

CoresAgree ==
  \A i, j \in Honest : \A c \in node[i].committed, d \in node[j].committed :
    c.block.number = d.block.number => c.block = d.block

\* With at most F(N) faulty validators, no two honest cores commit two blocks of
\* one number: whatever is lost, repeated, reordered or late, whatever the faulty
\* ones sign, over timeouts, catch-ups, chain downloads and restarts of the core
\* (finalizeCommit, and the lock rules before it).
THEOREM NetAgreement ==
  ASSUME Cardinality(Faulty) <= F(N)
  PROVE  Spec => []CoresAgree
<1>1. NetInv /\ PolkaInv /\ LocksInv => CoresAgree
  <2> SUFFICES ASSUME NetInv, PolkaInv, LocksInv, NEW i \in Honest, NEW j \in Honest,
                      NEW c \in node[i].committed, NEW d \in node[j].committed,
                      c.block.number = d.block.number
               PROVE  c.block = d.block
    BY Zenon DEF CoresAgree
  <2>1. CommitIsSound(c, Signed) /\ CommitIsSound(d, Signed)
    BY Zenon DEF NetInv, ValidatorInv, CoreInv, CommitInv
  <2>2. PICK r \in Int : IsQuorum(Signers("precommit", c.block.number, r, c.block))
    BY Zenon, <2>1, CommitQuorum
  <2>3. PICK q \in Int : IsQuorum(Signers("precommit", c.block.number, q, d.block))
    BY Zenon, <2>1, CommitQuorum
  <2>4. c.block # Nil /\ d.block # Nil
    BY Zenon, <2>1, CommitQuorum
  <2>5. CASE r <= q
    BY Zenon, <2>2, <2>3, <2>4, <2>5, LaterCommit
  <2>6. CASE q <= r
    BY Zenon, <2>2, <2>3, <2>4, <2>6, LaterCommit
  <2> QED BY <2>5, <2>6
<1> QED BY <1>1, NetInvariant, VotesFollowLocks, PTL
-----------------------------------------------------------------------------

\* At every height, with at most F(N) faulty validators, the cores implement Voting:
\* every handler is a batch of votes and commits that Voting allows, justified by
\* votes signed before it (enterPrevote, enterPrecommit, finalizeCommit).
THEOREM ImplementsVoting ==
  ASSUME Cardinality(Faulty) <= F(N), NEW CONSTANT h
  PROVE  Spec => V(h)!Spec
<1>1. Init => VoteRounds /\ V(h)!Init
  <2> SUFFICES ASSUME Init PROVE VoteRounds /\ V(h)!Init
    BY Zenon
  <2>1. Sent = {} /\ Decisions(h) = {}
    BY Zenon, NothingSigned DEF Sent, Decisions
  <2>2. VotesOf("prevote", h) = {} /\ VotesOf("precommit", h) = {}
    BY Zenon, <2>1 DEF VotesOf
  <2> QED BY Zenon, <2>1, <2>2, NothingSigned DEF VoteRounds, V!Init
<1>2. NetInv /\ VoteRounds /\ [Next]_vars => VoteRounds'
  BY NextOK, RoundsStep DEF Stepped
<1>3. NetInv /\ VoteRounds /\ [Next]_vars => V(h)!Next
  BY NextOK, CastStep DEF Stepped, V!Next
<1> QED BY <1>1, <1>2, <1>3, NetInvariant, PTL DEF Spec, V!Spec

\* The refinement as the runs check it, at the first height.
THEOREM NetRefines ==
  ASSUME Cardinality(Faulty) <= F(N)
  PROVE  Spec => Refines
<1>1. Spec => V(1)!Spec
  BY ImplementsVoting
<1>2. V(1)!Init <=> V1!Init
  BY DEF V!Init, V1!Init
<1>3. V(1)!Next <=> V1!Next
  BY DEF V!Next, V1!Next, V!vars, V1!vars, V!Cast, V1!Cast, V!OncePerRound, V1!OncePerRound,
         V!Vote, V1!Vote,
         V!MayPrevote, V1!MayPrevote, V!Unlocked, V1!Unlocked, V!MayPrecommit, V1!MayPrecommit,
         V!MayDecide, V1!MayDecide, V!Polka, V1!Polka, V!CommitMajority, V1!CommitMajority,
         V!IsQuorum, V1!IsQuorum, V!Prevoters, V1!Prevoters, V!Precommitters, V1!Precommitters,
         V!MinMajority, V1!MinMajority, V!F, V1!F, V!Cardinality, V1!Cardinality
<1>4. V(1)!vars = V1!vars /\ V(1)!vars' = V1!vars'
  BY DEF V!vars, V1!vars
<1>5. [V(1)!Next]_(V(1)!vars) => [V1!Next]_(V1!vars)
  BY <1>3, <1>4
<1> QED BY <1>1, <1>2, <1>5, PTL DEF Refines, V!Spec, V1!Spec
=============================================================================
