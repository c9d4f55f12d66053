------------------------------- MODULE Voting -------------------------------
(***************************************************************************)
(* What the consensus core promises to the other validators at one block   *)
(* height, without messages, timeouts or round steps: which votes an       *)
(* honest validator may sign, and when it may commit a block.  A faulty    *)
(* validator may sign anything, so it counts towards every majority.       *)
(*                                                                         *)
(* One step of the core may sign several votes (a precommit that completes *)
(* a majority makes the core prevote, precommit and commit under a single  *)
(* lock), so a step here is a batch of votes of one validator.  Every vote *)
(* of a batch is justified by votes signed before the batch.               *)
(***************************************************************************)
EXTENDS ValidatorSet, FiniteSets

CONSTANTS Honest,   \* validators that run the code
          Faulty,   \* validators that may sign anything
          Value,    \* block hashes
          Nil,      \* the empty hash, what a nil vote carries
          Round     \* the rounds considered

ASSUME VotingAssumption ==
  /\ IsFiniteSet(Honest) /\ IsFiniteSet(Faulty)
  /\ Honest \cap Faulty = {}
  /\ Honest # {}
  /\ Cardinality(Faulty) <= F(Cardinality(Honest \cup Faulty))
  /\ Nil \notin Value
  /\ Round \subseteq Nat

VARIABLES prevotes,    \* <<n, r, v>>: n signed a prevote for v in round r
          precommits,  \* <<n, r, v>>: n signed a precommit for v in round r
          decided      \* <<n, v>>: n handed block v to its backend

vars == <<prevotes, precommits, decided>>

Vote == Value \cup {Nil}
-----------------------------------------------------------------------------
\* MinMajority votes for one hash, the faulty validators helping.
IsQuorum(S) ==
  Cardinality(S \cup Faulty) >= MinMajority(Cardinality(Honest \cup Faulty))

Prevoters(r, v) == { n \in Honest : <<n, r, v>> \in prevotes }
Precommitters(r, v) == { n \in Honest : <<n, r, v>> \in precommits }

Polka(r, v) == IsQuorum(Prevoters(r, v))
CommitMajority(r, v) == IsQuorum(Precommitters(r, v))

\* Mutant: a polka for the locked block itself is taken as a release.
UnlockedByAnyPolka(n, r, v, pc) ==
  \A r0 \in Round, B \in Value \ {v} :
    r0 < r /\ <<n, r0, B>> \in pc =>
      \E r1 \in Round, D \in Vote : r0 < r1 /\ r1 <= r /\ Polka(r1, D)

(***************************************************************************)
(* The locking rule.  A precommit of B in round r0 locks B: the validator  *)
(* may prevote something else in a later round r only after a polka for    *)
(* something else in a round after r0, and no later than r.  The precommits*)
(* that count include those of the same batch, hence pc.                   *)
(***************************************************************************)
Unlocked(n, r, v, pc) ==
  \A r0 \in Round, B \in Value \ {v} :
    r0 < r /\ <<n, r0, B>> \in pc =>
      \E r1 \in Round, D \in Vote \ {B} : r0 < r1 /\ r1 <= r /\ Polka(r1, D)

\* Mutant: the lock is not looked at.
MayPrevoteUnlocked(n, r, v, pc) ==
  \A r1 \in Round, w \in Vote : <<n, r1, w>> \in prevotes \cup precommits => r1 < r

\* Votes are signed in the order of the rounds, prevote before precommit.
MayPrevote(n, r, v, pc) ==
  /\ \A r1 \in Round, w \in Vote :
       <<n, r1, w>> \in prevotes \cup precommits => r1 < r
  /\ Unlocked(n, r, v, pc)

MayPrecommit(n, r, v) ==
  /\ \A r1 \in Round, w \in Vote :
       /\ <<n, r1, w>> \in prevotes => r1 <= r
       /\ <<n, r1, w>> \in precommits => r1 < r
  /\ v # Nil => Polka(r, v)

MayDecide(v) == \E r \in Round : CommitMajority(r, v)
-----------------------------------------------------------------------------
Init == prevotes = {} /\ precommits = {} /\ decided = {}

\* At most one vote of a validator in a round.
OncePerRound(votes) == \A x, y \in votes : x[1] = y[1] /\ x[2] = y[2] => x = y

Cast(n) ==
  LET newPrevotes == prevotes' \ prevotes
      newPrecommits == precommits' \ precommits
      newDecided == decided' \ decided
  IN  /\ prevotes \subseteq prevotes'
      /\ precommits \subseteq precommits'
      /\ decided \subseteq decided'
      /\ newPrevotes \subseteq {n} \X Round \X Vote /\ OncePerRound(newPrevotes)
      /\ newPrecommits \subseteq {n} \X Round \X Vote /\ OncePerRound(newPrecommits)
      /\ newDecided \subseteq {n} \X Value
      /\ \A x \in newPrevotes : MayPrevote(n, x[2], x[3], precommits')
      /\ \A x \in newPrecommits : MayPrecommit(n, x[2], x[3])
      /\ \A x \in newDecided : MayDecide(x[2])

\* Most handlers sign nothing.
Next == UNCHANGED vars \/ \E n \in Honest : Cast(n)

Spec == Init /\ [][Next]_vars
-----------------------------------------------------------------------------
(***************************************************************************)
(* The batches of a single vote.  Every batch is a sequence of these, in   *)
(* the order of the rounds: the justifications only grow.                  *)
(***************************************************************************)
Prevote(n, r, v) ==
  /\ MayPrevote(n, r, v, precommits)
  /\ prevotes' = prevotes \cup {<<n, r, v>>}
  /\ UNCHANGED <<precommits, decided>>

Precommit(n, r, v) ==
  /\ MayPrecommit(n, r, v)
  /\ precommits' = precommits \cup {<<n, r, v>>}
  /\ UNCHANGED <<prevotes, decided>>

Decide(n, v) ==
  /\ MayDecide(v)
  /\ decided' = decided \cup {<<n, v>>}
  /\ UNCHANGED <<prevotes, precommits>>

SingleNext ==
  \E n \in Honest :
    \/ \E r \in Round, v \in Vote : Prevote(n, r, v)
    \/ \E r \in Round, v \in Vote : Precommit(n, r, v)
    \/ \E v \in Value : Decide(n, v)

SingleSpec == Init /\ [][SingleNext]_vars
-----------------------------------------------------------------------------
TypeOK ==
  /\ prevotes \subseteq Honest \X Round \X Vote
  /\ precommits \subseteq Honest \X Round \X Vote
  /\ decided \subseteq Honest \X Value

(***************************************************************************)
(* No two honest validators ever commit different blocks at a height, in   *)
(* the same round or in different ones, whatever the faulty ones sign.     *)
(***************************************************************************)
Agreement ==
  \A d1, d2 \in decided : d1[2] = d2[2]

(***************************************************************************)
(* An honest validator never signs two different prevotes, or two          *)
(* different precommits, in the same round (enterPrevote, enterPrecommit). *)
(***************************************************************************)
NoEquivocation ==
  \A n \in Honest, r \in Round, v, w \in Vote :
    /\ <<n, r, v>> \in prevotes /\ <<n, r, w>> \in prevotes => v = w
    /\ <<n, r, v>> \in precommits /\ <<n, r, w>> \in precommits => v = w

\* The prevoters of D in r1 that had not precommitted B in r0.
MovedOn(r1, D, r0, B) ==
  { m \in Prevoters(r1, D) : <<m, r0, B>> \notin precommits }

(***************************************************************************)
(* Why agreement holds.  When an honest validator that precommitted B in   *)
(* r0 later prevotes something else, a majority without any honest         *)
(* precommitter of B in r0 had already prevoted something else after r0.   *)
(***************************************************************************)
LocksHold ==
  \A n \in Honest, r0, r \in Round, B \in Value, v \in Vote :
    r0 < r /\ v # B /\ <<n, r0, B>> \in precommits /\ <<n, r, v>> \in prevotes =>
      \E r1 \in Round, D \in Vote \ {B} :
        /\ r0 < r1 /\ r1 <= r
        /\ IsQuorum(MovedOn(r1, D, r0, B))
=============================================================================
