---------------------------- MODULE VotingProofs ----------------------------
(***************************************************************************)
(* Agreement, for every set of validators of which at most F are faulty,   *)
(* every set of blocks and every set of rounds.                            *)
(***************************************************************************)
EXTENDS Voting, FiniteSetTheorems, TLAPS

(***************************************************************************)
(* Two majorities of MinMajority(N) = N - F votes share an honest          *)
(* validator, because 3 F < N (validator/default.go, F and MinMajority).   *)
(***************************************************************************)
LEMMA QuorumIntersection ==
  ASSUME NEW S \in SUBSET Honest, NEW T \in SUBSET Honest,
         IsQuorum(S), IsQuorum(T)
  PROVE  \E m \in Honest : m \in S /\ m \in T
<1> DEFINE f == Cardinality(Faulty)
           N == Cardinality(Honest \cup Faulty)
<1>1. /\ IsFiniteSet(S) /\ IsFiniteSet(T) /\ IsFiniteSet(Honest) /\ IsFiniteSet(Faulty)
      /\ IsFiniteSet(S \cup T)
      /\ Cardinality(S \cup T) <= Cardinality(Honest)
  <2>1. IsFiniteSet(Honest) /\ IsFiniteSet(Faulty)
    BY VotingAssumption
  <2>2. IsFiniteSet(S) /\ IsFiniteSet(T) /\ IsFiniteSet(S \cup T)
    BY <2>1, FS_Subset
  <2>3. Cardinality(S \cup T) <= Cardinality(Honest)
    BY <2>1, FS_Subset, S \cup T \subseteq Honest
  <2> QED  BY <2>1, <2>2, <2>3
<1>2. /\ f \in Nat /\ N \in Nat
      /\ Cardinality(S) \in Nat /\ Cardinality(T) \in Nat
      /\ Cardinality(Honest) \in Nat /\ Cardinality(S \cup T) \in Nat
  BY <1>1, FS_CardinalityType, FS_Union
<1>3. /\ N = Cardinality(Honest) + f
      /\ Cardinality(S \cup Faulty) = Cardinality(S) + f
      /\ Cardinality(T \cup Faulty) = Cardinality(T) + f
  <2>1. Honest \cap Faulty = {} /\ S \cap Faulty = {} /\ T \cap Faulty = {}
    BY VotingAssumption
  <2>2. /\ Cardinality(Honest \cap Faulty) = 0
        /\ Cardinality(S \cap Faulty) = 0 /\ Cardinality(T \cap Faulty) = 0
    BY <2>1, FS_EmptySet
  <2>3. N = Cardinality(Honest) + f - Cardinality(Honest \cap Faulty)
    BY <1>1, FS_Union
  <2>4. Cardinality(S \cup Faulty) = Cardinality(S) + f - Cardinality(S \cap Faulty)
    BY <1>1, FS_Union
  <2>5. Cardinality(T \cup Faulty) = Cardinality(T) + f - Cardinality(T \cap Faulty)
    BY <1>1, FS_Union
  <2> QED  BY <1>2, <2>2, <2>3, <2>4, <2>5
<1>4. f <= (N + 2) \div 3 - 1
  BY VotingAssumption DEF F
<1>5. 3 * ((N + 2) \div 3) <= N + 2
  BY <1>2
<1>6. /\ Cardinality(S) + f >= N - ((N + 2) \div 3 - 1)
      /\ Cardinality(T) + f >= N - ((N + 2) \div 3 - 1)
  BY <1>3 DEF IsQuorum, MinMajority, F
<1>7. CASE S \cap T = {}
  <2>1. Cardinality(S \cup T) = Cardinality(S) + Cardinality(T)
    BY <1>1, <1>2, <1>7, FS_Union, FS_EmptySet
  <2>2. (N + 2) \div 3 \in Int
    BY <1>2
  <2> HIDE DEF f, N
  <2> QED  BY <1>1, <1>2, <1>3, <1>4, <1>5, <1>6, <2>1, <2>2
<1> QED  BY <1>7

(***************************************************************************)
(* Majorities only grow.                                                   *)
(***************************************************************************)
LEMMA QuorumMonotone ==
  ASSUME NEW S \in SUBSET Honest, NEW T \in SUBSET Honest,
         S \subseteq T, IsQuorum(S)
  PROVE  IsQuorum(T)
<1>1. IsFiniteSet(T \cup Faulty)
  BY VotingAssumption, FS_Subset, FS_Union
<1>2. /\ Cardinality(S \cup Faulty) <= Cardinality(T \cup Faulty)
      /\ Cardinality(S \cup Faulty) \in Nat /\ Cardinality(T \cup Faulty) \in Nat
  BY <1>1, FS_Subset, FS_CardinalityType, S \cup Faulty \subseteq T \cup Faulty
<1>3. Cardinality(Honest \cup Faulty) \in Nat
  BY VotingAssumption, FS_Union, FS_CardinalityType
<1> QED  BY <1>2, <1>3 DEF IsQuorum, MinMajority, F
-----------------------------------------------------------------------------
(***************************************************************************)
(* What justifies the votes already signed: a precommit of a block, the    *)
(* polka of its round; a committed block, a majority of precommits.        *)
(***************************************************************************)
Justified ==
  /\ \A n \in Honest, r \in Round, B \in Value :
       <<n, r, B>> \in precommits => Polka(r, B)
  /\ \A n \in Honest, B \in Value : <<n, B>> \in decided => MayDecide(B)

Inv == TypeOK /\ NoEquivocation /\ Justified /\ LocksHold

\* A core that has signed nothing satisfies the invariant.
THEOREM InitInv == Init => Inv
BY DEF Init, Inv, TypeOK, NoEquivocation, Justified, LocksHold

(***************************************************************************)
(* What a batch of votes does, vote by vote: nothing is taken back, a new  *)
(* vote is by n and is one the voting rules allow.                         *)
(***************************************************************************)
LEMMA CastMeans ==
  ASSUME NEW n \in Honest, Cast(n)
  PROVE  /\ prevotes \subseteq prevotes' /\ precommits \subseteq precommits'
         /\ decided \subseteq decided'
         /\ \A m \in Honest, r \in Round, v \in Vote :
              /\ <<m, r, v>> \in prevotes' \ prevotes =>
                   m = n /\ MayPrevote(n, r, v, precommits')
              /\ <<m, r, v>> \in precommits' \ precommits =>
                   m = n /\ MayPrecommit(n, r, v)
         /\ \A m \in Honest, v \in Value :
              <<m, v>> \in decided' \ decided => m = n /\ MayDecide(v)
         /\ \A m \in Honest, r \in Round, v, w \in Vote :
              /\ {<<m, r, v>>, <<m, r, w>>} \subseteq prevotes' \ prevotes => v = w
              /\ {<<m, r, v>>, <<m, r, w>>} \subseteq precommits' \ precommits => v = w
<1>1. ASSUME NEW m \in Honest, NEW r \in Round, NEW v \in Vote
      PROVE  /\ <<m, r, v>> \in prevotes' \ prevotes =>
                  m = n /\ MayPrevote(n, r, v, precommits')
             /\ <<m, r, v>> \in precommits' \ precommits =>
                  m = n /\ MayPrecommit(n, r, v)
  <2> DEFINE x == <<m, r, v>>
  <2>1. x[2] = r /\ x[3] = v
    OBVIOUS
  <2>2. x \in prevotes' \ prevotes => m = n /\ MayPrevote(n, x[2], x[3], precommits')
    BY DEF Cast
  <2>3. x \in precommits' \ precommits => m = n /\ MayPrecommit(n, x[2], x[3])
    BY DEF Cast
  <2> QED  BY <2>1, <2>2, <2>3
<1>2. ASSUME NEW m \in Honest, NEW v \in Value, <<m, v>> \in decided' \ decided
      PROVE  m = n /\ MayDecide(v)
  <2> DEFINE x == <<m, v>>
  <2>1. x[2] = v
    OBVIOUS
  <2>2. m = n /\ MayDecide(x[2])
    BY <1>2 DEF Cast
  <2> QED  BY <2>1, <2>2
<1>3. ASSUME NEW m \in Honest, NEW r \in Round, NEW v \in Vote, NEW w \in Vote
      PROVE  /\ {<<m, r, v>>, <<m, r, w>>} \subseteq prevotes' \ prevotes => v = w
             /\ {<<m, r, v>>, <<m, r, w>>} \subseteq precommits' \ precommits => v = w
  BY DEF Cast, OncePerRound
<1> QED  BY <1>1, <1>2, <1>3 DEF Cast

\* A batch of votes keeps the types.
LEMMA CastType ==
  ASSUME TypeOK, NEW n \in Honest, Cast(n)
  PROVE  TypeOK'
BY DEF Cast, TypeOK

\* A batch signs no second vote of a kind in a round.
LEMMA CastNoEquivocation ==
  ASSUME Inv, NEW n \in Honest, Cast(n)
  PROVE  NoEquivocation'
<1> SUFFICES ASSUME NEW m \in Honest, NEW r \in Round, NEW v \in Vote, NEW w \in Vote
             PROVE  /\ <<m, r, v>> \in prevotes' /\ <<m, r, w>> \in prevotes' => v = w
                    /\ <<m, r, v>> \in precommits' /\ <<m, r, w>> \in precommits' => v = w
  BY DEF NoEquivocation
<1>r. r \in Nat
  BY VotingAssumption
<1>1. ASSUME <<m, r, v>> \in prevotes', <<m, r, w>> \in prevotes'  PROVE v = w
  <2>1. CASE <<m, r, v>> \in prevotes /\ <<m, r, w>> \in prevotes
    BY <2>1 DEF Inv, NoEquivocation
  <2>2. CASE <<m, r, v>> \notin prevotes /\ <<m, r, w>> \notin prevotes
    BY <2>2, <1>1, CastMeans
  <2>3. CASE <<m, r, v>> \in prevotes /\ <<m, r, w>> \notin prevotes
    BY <2>3, <1>1, <1>r, CastMeans DEF MayPrevote
  <2>4. CASE <<m, r, v>> \notin prevotes /\ <<m, r, w>> \in prevotes
    BY <2>4, <1>1, <1>r, CastMeans DEF MayPrevote
  <2> QED  BY <2>1, <2>2, <2>3, <2>4
<1>2. ASSUME <<m, r, v>> \in precommits', <<m, r, w>> \in precommits'  PROVE v = w
  <2>1. CASE <<m, r, v>> \in precommits /\ <<m, r, w>> \in precommits
    BY <2>1 DEF Inv, NoEquivocation
  <2>2. CASE <<m, r, v>> \notin precommits /\ <<m, r, w>> \notin precommits
    BY <2>2, <1>2, CastMeans
  <2>3. CASE <<m, r, v>> \in precommits /\ <<m, r, w>> \notin precommits
    BY <2>3, <1>2, <1>r, CastMeans DEF MayPrecommit
  <2>4. CASE <<m, r, v>> \notin precommits /\ <<m, r, w>> \in precommits
    BY <2>4, <1>2, <1>r, CastMeans DEF MayPrecommit
  <2> QED  BY <2>1, <2>2, <2>3, <2>4
<1> QED  BY <1>1, <1>2

\* A majority stays a majority while votes are added.
LEMMA PolkaStable ==
  ASSUME NEW n \in Honest, Cast(n), NEW r \in Round, NEW v \in Vote
  PROVE  /\ Polka(r, v) => Polka(r, v)'
         /\ CommitMajority(r, v) => CommitMajority(r, v)'
<1>1. Prevoters(r, v) \subseteq Prevoters(r, v)' /\ Precommitters(r, v) \subseteq Precommitters(r, v)'
  BY CastMeans DEF Prevoters, Precommitters
<1>2. /\ Prevoters(r, v) \in SUBSET Honest /\ Prevoters(r, v)' \in SUBSET Honest
      /\ Precommitters(r, v) \in SUBSET Honest /\ Precommitters(r, v)' \in SUBSET Honest
  BY DEF Prevoters, Precommitters
<1>3. IsQuorum(Prevoters(r, v)) => IsQuorum(Prevoters(r, v)')
  BY <1>1, <1>2, QuorumMonotone
<1>4. IsQuorum(Precommitters(r, v)) => IsQuorum(Precommitters(r, v)')
  BY <1>1, <1>2, QuorumMonotone
<1> QED  BY <1>3, <1>4 DEF Polka, CommitMajority, IsQuorum

\* A batch justified by earlier votes stays justified after them.
LEMMA CastJustified ==
  ASSUME Inv, NEW n \in Honest, Cast(n)
  PROVE  Justified'
<1>1. ASSUME NEW m \in Honest, NEW r \in Round, NEW B \in Value, <<m, r, B>> \in precommits'
      PROVE  Polka(r, B)'
  <2>1. B \in Vote /\ B # Nil
    BY VotingAssumption DEF Vote
  <2>2. Polka(r, B)
    BY <1>1, <2>1, CastMeans DEF Inv, Justified, MayPrecommit
  <2> QED  BY <2>1, <2>2, PolkaStable
<1>2. ASSUME NEW m \in Honest, NEW B \in Value, <<m, B>> \in decided'
      PROVE  MayDecide(B)'
  <2>1. B \in Vote
    BY DEF Vote
  <2>2. MayDecide(B)
    BY <1>2, CastMeans DEF Inv, Justified
  <2>3. PICK r \in Round : CommitMajority(r, B)
    BY <2>2 DEF MayDecide
  <2>4. CommitMajority(r, B)'
    BY <2>1, <2>3, PolkaStable
  <2> QED  BY <2>4 DEF MayDecide
<1> QED  BY <1>1, <1>2 DEF Justified

(***************************************************************************)
(* The step that carries the argument.  A new prevote of v by a validator  *)
(* that precommitted B is justified by a polka for D after r0.  If an      *)
(* honest member of that polka had precommitted B in r0 itself, the older  *)
(* instance of LocksHold for that member gives the majority; otherwise the *)
(* polka is the majority.                                                  *)
(***************************************************************************)
LEMMA CastLocksHold ==
  ASSUME Inv, NEW n \in Honest, Cast(n)
  PROVE  LocksHold'
<1>0. Round \subseteq Nat
  BY VotingAssumption
<1>1. ASSUME NEW r0 \in Round, NEW r1 \in Round, NEW B \in Value, NEW D \in Vote,
             r0 < r1, IsQuorum(MovedOn(r1, D, r0, B))
      PROVE  IsQuorum(MovedOn(r1, D, r0, B)')
  <2>1. B \in Vote
    BY DEF Vote
  <2>2. MovedOn(r1, D, r0, B) \subseteq MovedOn(r1, D, r0, B)'
    <3> SUFFICES ASSUME NEW m \in Honest, <<m, r1, D>> \in prevotes, <<m, r0, B>> \notin precommits
                 PROVE  <<m, r1, D>> \in prevotes' /\ <<m, r0, B>> \notin precommits'
      BY DEF MovedOn, Prevoters
    <3>1. <<m, r1, D>> \in prevotes'
      BY CastMeans
    <3>2. ASSUME <<m, r0, B>> \in precommits'  PROVE FALSE
      <4>1. m = n /\ MayPrecommit(n, r0, B)
        BY <2>1, <3>2, CastMeans
      <4>2. r1 <= r0
        BY <4>1 DEF MayPrecommit
      <4> QED  BY <1>0, <1>1, <4>2
    <3> QED  BY <3>1, <3>2
  <2>3. MovedOn(r1, D, r0, B) \in SUBSET Honest /\ MovedOn(r1, D, r0, B)' \in SUBSET Honest
    BY DEF MovedOn, Prevoters
  <2> QED  BY <1>1, <2>2, <2>3, QuorumMonotone
<1> SUFFICES ASSUME NEW m \in Honest, NEW r0 \in Round, NEW r \in Round,
                    NEW B \in Value, NEW v \in Vote, v # B, r0 < r,
                    <<m, r0, B>> \in precommits', <<m, r, v>> \in prevotes'
             PROVE  \E r1 \in Round, D \in Vote \ {B} :
                      r0 < r1 /\ r1 <= r /\ IsQuorum(MovedOn(r1, D, r0, B))
  <2>1. ASSUME NEW m \in Honest, NEW r0 \in Round, NEW r \in Round,
               NEW B \in Value, NEW v \in Vote, v # B, r0 < r,
               <<m, r0, B>> \in precommits', <<m, r, v>> \in prevotes'
        PROVE  \E r1 \in Round, D \in Vote \ {B} :
                 r0 < r1 /\ r1 <= r /\ IsQuorum(MovedOn(r1, D, r0, B)')
    <3>1. PICK r1 \in Round, D \in Vote \ {B} :
                 r0 < r1 /\ r1 <= r /\ IsQuorum(MovedOn(r1, D, r0, B))
      BY <2>1
    <3>2. IsQuorum(MovedOn(r1, D, r0, B)')
      BY <3>1, <1>1
    <3> QED  BY <3>1, <3>2
  <2> QED  BY <2>1 DEF LocksHold, IsQuorum
<1>2. B \in Vote
  BY DEF Vote
<1>3. CASE <<m, r, v>> \in prevotes
  <2>1. <<m, r0, B>> \in precommits
    <3> SUFFICES ASSUME <<m, r0, B>> \notin precommits  PROVE FALSE
      OBVIOUS
    <3>1. m = n /\ MayPrecommit(n, r0, B)
      BY <1>2, CastMeans
    <3>2. r <= r0
      BY <1>3, <3>1 DEF MayPrecommit
    <3> QED  BY <1>0, <3>2
  <2> QED  BY <1>3, <2>1 DEF Inv, LocksHold
<1>4. CASE <<m, r, v>> \notin prevotes
  <2>1. m = n /\ Unlocked(n, r, v, precommits')
    BY <1>4, CastMeans DEF MayPrevote
  <2>2. PICK r1 \in Round, D \in Vote \ {B} : r0 < r1 /\ r1 <= r /\ Polka(r1, D)
    BY <2>1 DEF Unlocked
  <2>3. CASE \E k \in Prevoters(r1, D) : <<k, r0, B>> \in precommits
    <3>1. PICK k \in Honest : <<k, r1, D>> \in prevotes /\ <<k, r0, B>> \in precommits
      BY <2>3 DEF Prevoters
    <3>2. PICK r2 \in Round, E \in Vote \ {B} :
                 r0 < r2 /\ r2 <= r1 /\ IsQuorum(MovedOn(r2, E, r0, B))
      BY <2>2, <3>1 DEF Inv, LocksHold
    <3>3. r2 <= r
      BY <1>0, <2>2, <3>2
    <3> QED  BY <3>2, <3>3
  <2>4. CASE \A k \in Prevoters(r1, D) : <<k, r0, B>> \notin precommits
    <3>1. MovedOn(r1, D, r0, B) = Prevoters(r1, D)
      BY <2>4 DEF MovedOn
    <3>2. IsQuorum(MovedOn(r1, D, r0, B))
      BY <2>2, <3>1 DEF Polka
    <3> QED  BY <2>2, <3>2
  <2> QED  BY <2>3, <2>4
<1> QED  BY <1>3, <1>4

\* Every step of the voting rules preserves the invariant.
THEOREM NextInv == Inv /\ [Next]_vars => Inv'
<1> SUFFICES ASSUME Inv, [Next]_vars  PROVE Inv'
  OBVIOUS
<1>1. ASSUME UNCHANGED vars  PROVE \E n \in Honest : Cast(n)
  <2>1. PICK n \in Honest : TRUE
    BY VotingAssumption
  <2>2. Cast(n)
    BY <1>1 DEF vars, Cast, OncePerRound, Inv, TypeOK
  <2> QED  BY <2>2
<1>2. ASSUME NEW n \in Honest, Cast(n)  PROVE Inv'
  BY <1>2, CastType, CastNoEquivocation, CastJustified, CastLocksHold DEF Inv
<1> QED  BY <1>1, <1>2 DEF Next
-----------------------------------------------------------------------------
(***************************************************************************)
(* A majority of precommits for B in r0 and a polka for C in a later round *)
(* force B = C: the two share an honest validator, and LocksHold gives a   *)
(* majority that avoids every honest precommitter of B.                    *)
(***************************************************************************)
LEMMA LaterPolka ==
  ASSUME Inv, NEW r0 \in Round, NEW r \in Round, r0 < r,
         NEW B \in Value, NEW C \in Vote,
         CommitMajority(r0, B), Polka(r, C)
  PROVE  B = C
<1> SUFFICES ASSUME B # C  PROVE FALSE
  OBVIOUS
<1>1. PICK m \in Honest : <<m, r0, B>> \in precommits /\ <<m, r, C>> \in prevotes
  <2>1. Precommitters(r0, B) \in SUBSET Honest /\ Prevoters(r, C) \in SUBSET Honest
    BY DEF Precommitters, Prevoters
  <2>2. \E m \in Honest : m \in Precommitters(r0, B) /\ m \in Prevoters(r, C)
    BY <2>1, QuorumIntersection DEF CommitMajority, Polka
  <2> QED  BY <2>2 DEF Precommitters, Prevoters
<1>2. PICK r1 \in Round, D \in Vote \ {B} :
             IsQuorum(MovedOn(r1, D, r0, B))
  BY <1>1 DEF Inv, LocksHold
<1>3. \E k \in Honest : /\ k \in MovedOn(r1, D, r0, B)
                        /\ k \in Precommitters(r0, B)
  <2>1. /\ MovedOn(r1, D, r0, B) \in SUBSET Honest
        /\ Precommitters(r0, B) \in SUBSET Honest
    BY DEF MovedOn, Prevoters, Precommitters
  <2> QED  BY <1>2, <2>1, QuorumIntersection DEF CommitMajority
<1> QED  BY <1>3 DEF MovedOn, Precommitters

\* A majority of precommits for a block contains an honest one, so a polka.
LEMMA CommitHasPolka ==
  ASSUME Inv, NEW r \in Round, NEW B \in Value, CommitMajority(r, B)
  PROVE  Polka(r, B)
<1>1. Precommitters(r, B) \in SUBSET Honest
  BY DEF Precommitters
<1>2. PICK m \in Honest : m \in Precommitters(r, B)
  BY <1>1, QuorumIntersection DEF CommitMajority
<1> QED  BY <1>2 DEF Precommitters, Inv, Justified

\* The invariant leaves one block to commit (enterCommit, finalizeCommit).
LEMMA InvAgreement == Inv => Agreement
<1> SUFFICES ASSUME Inv, NEW d1 \in decided, NEW d2 \in decided  PROVE d1[2] = d2[2]
  BY DEF Agreement
<1> DEFINE B == d1[2]
           C == d2[2]
<1>1. B \in Value /\ C \in Value /\ MayDecide(B) /\ MayDecide(C)
  BY DEF Inv, TypeOK, Justified
<1>2. PICK r1 \in Round : CommitMajority(r1, B)
  BY <1>1 DEF MayDecide
<1>3. PICK r2 \in Round : CommitMajority(r2, C)
  BY <1>1 DEF MayDecide
<1>4. Polka(r1, B) /\ Polka(r2, C) /\ B \in Vote /\ C \in Vote
  BY <1>1, <1>2, <1>3, CommitHasPolka DEF Vote
<1> SUFFICES B = C
  OBVIOUS
<1> HIDE DEF B, C
<1>5. CASE r1 < r2
  BY <1>1, <1>2, <1>4, <1>5, LaterPolka
<1>6. CASE r2 < r1
  BY <1>1, <1>3, <1>4, <1>6, LaterPolka
<1>7. CASE r1 = r2
  <2>1. Precommitters(r1, B) \in SUBSET Honest /\ Precommitters(r1, C) \in SUBSET Honest
    BY DEF Precommitters
  <2>2. PICK m \in Honest : m \in Precommitters(r1, B) /\ m \in Precommitters(r1, C)
    BY <1>2, <1>3, <1>7, <2>1, QuorumIntersection DEF CommitMajority
  <2> QED  BY <1>4, <2>2 DEF Precommitters, Inv, NoEquivocation
<1>8. r1 \in Nat /\ r2 \in Nat
  BY VotingAssumption
<1> QED  BY <1>5, <1>6, <1>7, <1>8

(***************************************************************************)
(* Honest validators that keep the voting rules never commit different     *)
(* blocks at a height, for every set of validators with at most F faulty   *)
(* members, all blocks and all rounds (finalizeCommit).                    *)
(***************************************************************************)
THEOREM SpecAgreement == Spec => []Agreement
<1>1. Spec => []Inv
  BY InitInv, NextInv, PTL DEF Spec
<1> QED  BY <1>1, InvAgreement, PTL

(***************************************************************************)
(* The voting rules leave no room for two different votes of a kind in a   *)
(* round (enterPrevote, enterPrecommit).                                   *)
(***************************************************************************)
THEOREM SpecNoEquivocation == Spec => []NoEquivocation
<1>1. Spec => []Inv
  BY InitInv, NextInv, PTL DEF Spec
<1>2. Inv => NoEquivocation
  BY DEF Inv
<1> QED  BY <1>1, <1>2, PTL

(***************************************************************************)
(* A validator that precommitted a block prevotes another one later only   *)
(* after a majority moved on without its fellow precommitters              *)
(* (defaultDoPrevote and the unlocking in handlePrevote, enterPrecommit).  *)
(***************************************************************************)
THEOREM SpecLocksHold == Spec => []LocksHold
<1>1. Spec => []Inv
  BY InitInv, NextInv, PTL DEF Spec
<1>2. Inv => LocksHold
  BY DEF Inv
<1> QED  BY <1>1, <1>2, PTL

(***************************************************************************)
(* A step of a single vote is a step of the specification.                 *)
(***************************************************************************)
THEOREM SingleStep == TypeOK /\ SingleNext => Next
<1> SUFFICES ASSUME TypeOK, NEW n \in Honest,
                    \/ \E r \in Round, v \in Vote : Prevote(n, r, v)
                    \/ \E r \in Round, v \in Vote : Precommit(n, r, v)
                    \/ \E v \in Value : Decide(n, v)
             PROVE  Cast(n)
  BY DEF SingleNext, Next
<1>1. ASSUME NEW r \in Round, NEW v \in Vote, Prevote(n, r, v)  PROVE Cast(n)
  BY <1>1 DEF Prevote, Cast, OncePerRound, TypeOK
<1>2. ASSUME NEW r \in Round, NEW v \in Vote, Precommit(n, r, v)  PROVE Cast(n)
  BY <1>2 DEF Precommit, Cast, OncePerRound, TypeOK
<1>3. ASSUME NEW v \in Value, Decide(n, v)  PROVE Cast(n)
  BY <1>3 DEF Decide, Cast, OncePerRound, TypeOK
<1> QED  BY <1>1, <1>2, <1>3
=============================================================================
