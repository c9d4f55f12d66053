------------------------------- MODULE Staking ------------------------------
(***************************************************************************)
(* The choice of the next validators from the state of the staking         *)
(* contract, by the two implementations of StakingCaller: the one that     *)
(* reads the storage (stateDBStakingCaller) and the one that calls the     *)
(* contract (evmStakingCaller).                                            *)
(*                                                                         *)
(* The contract itself is external: candidates register and accounts vote  *)
(* for them with stakes and take stakes back.  Addresses are numbers, in   *)
(* the order of their strings; a candidate is its own owner, as in the     *)
(* deployments of the repository's tests.  Resigning is left out.          *)
(***************************************************************************)
EXTENDS Integers, SequencesExt

CONSTANTS
  Candidates,         \* accounts that may be candidates
  Voters,             \* accounts that may vote
  InitialCandidates,  \* those the contract is deployed with
  MaxValidatorSize,
  MinValidatorStake,
  MaxStake            \* bounds the stake of a voter

VARIABLES
  candidates,  \* the list of the contract
  stakes       \* stakes[c][v]: what v has voted for c

contract == <<candidates, stakes>>

StakingInit ==
  /\ candidates = InitialCandidates
  /\ stakes = [c \in Candidates |-> [v \in Voters |->
       IF v = c /\ c \in Range(InitialCandidates) THEN MinValidatorStake ELSE 0]]

Owner(c) == c

TotalStake(st, c) == FoldFunction(+, 0, st[c])

register(c) ==
  /\ c \in Candidates \ Range(candidates)
  /\ candidates' = Append(candidates, c) /\ UNCHANGED stakes

vote(v, c) ==
  /\ c \in Range(candidates) /\ stakes[c][v] < MaxStake
  /\ stakes' = [stakes EXCEPT ![c][v] = @ + 1] /\ UNCHANGED candidates

\* The owner of a candidate keeps the minimum.
unvote(v, c) ==
  /\ stakes[c][v] > (IF v = Owner(c) THEN MinValidatorStake ELSE 0)
  /\ stakes' = [stakes EXCEPT ![c][v] = @ - 1] /\ UNCHANGED candidates

Transaction ==
  \E c \in Candidates : register(c) \/ \E v \in Voters : vote(v, c) \/ unvote(v, c)

StakingSpec == StakingInit /\ [][Transaction]_contract
-----------------------------------------------------------------------------
\* Mutant: the smaller stakes come first.
LessStakeFirst(st, c, d) == TotalStake(st, c) < TotalStake(st, d)

\* Both callers sort by stake, then by address, downwards.
Before(st, c, d) ==
  \/ TotalStake(st, c) > TotalStake(st, d)
  \/ TotalStake(st, c) = TotalStake(st, d) /\ c > d

\* stateDBStakingCaller.GetValidators: enough stake of all voters; the list
\* that is sorted is not the one that is cut.
StateDBValidators(cands, st) ==
  LET validators == SelectSeq(cands, LAMBDA c : TotalStake(st, c) >= MinValidatorStake)
  IN  IF Len(validators) <= MaxValidatorSize THEN validators
      ELSE SubSeq(cands, 1, MaxValidatorSize)

\* evmStakingCaller.GetValidators: enough stake of the owner; none is an error.
EVMValidators(cands, st) ==
  LET candidatesArr == SelectSeq(cands, LAMBDA c : st[c][Owner(c)] >= MinValidatorStake)
  IN  IF Len(candidatesArr) < MaxValidatorSize THEN candidatesArr
      ELSE SubSeq(SortSeq(candidatesArr, LAMBDA c, d : Before(st, c, d)), 1, MaxValidatorSize)

(***************************************************************************)
(* No list leaves out an eligible candidate that has more stake than one   *)
(* it takes.                                                               *)
(***************************************************************************)
TakesTop(validators, eligible) ==
  \A c \in eligible \ Range(validators), d \in Range(validators) :
    TotalStake(stakes, c) <= TotalStake(stakes, d)

(***************************************************************************)
(* The caller that runs the contract chooses the candidates with the most  *)
(* stake among those whose owner has enough, as many as are allowed        *)
(* (evmStakingCaller.GetValidators).                                       *)
(***************************************************************************)
EVMTakesTop ==
  LET eligible   == { c \in Range(candidates) : stakes[c][Owner(c)] >= MinValidatorStake }
      validators == EVMValidators(candidates, stakes)
  IN  /\ TakesTop(validators, eligible) /\ Range(validators) \subseteq eligible
      /\ Len(validators) = Min({Cardinality(eligible), MaxValidatorSize})

(***************************************************************************)
(* "sort and returns topN": the caller that reads the storage chooses the  *)
(* candidates with the most stake (stateDBStakingCaller.GetValidators).    *)
(***************************************************************************)
\* The code does not do this: TLC finds a counterexample.
StateDBTakesTop == TakesTop(StateDBValidators(candidates, stakes), Range(candidates))

(***************************************************************************)
(* "The flag allowance reading data from stateDB or EVM": while all        *)
(* candidates fit, nodes with and without the flag choose the same ones.   *)
(***************************************************************************)
\* The code does not do this: TLC finds a counterexample.
CallersAgree ==
  Len(candidates) <= MaxValidatorSize =>
    Range(StateDBValidators(candidates, stakes)) = Range(EVMValidators(candidates, stakes))
=============================================================================
