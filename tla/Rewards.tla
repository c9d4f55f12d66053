------------------------------- MODULE Rewards ------------------------------
(***************************************************************************)
(* Epochs of blocks over the staking contract: who may propose, and how    *)
(* the last block of an epoch pays the rewards of all its blocks           *)
(* (accumulateRewards).  The loops over Go maps take their entries in any  *)
(* order; every node has to reach the same balances.                       *)
(***************************************************************************)
EXTENDS Staking

CONSTANTS
  Epoch,
  BlockReward,
  Fees,       \* transaction fees that a block may bring
  MaxNumber   \* bounds the chain

VARIABLES
  blocks,       \* coinbase and fee of each block
  vals,         \* validators in the last header that ends an epoch
  nextVals,     \* those in the header of the block that pays the rewards
  dataAt,       \* the stakes as of the last block that ended an epoch
  balance,      \* what has been paid
  remaining,    \* what is left of a validator's reward while it is divided
  todo,         \* payments still to be made
  paying

vars == <<contract, blocks, vals, nextVals, dataAt, balance, remaining, todo, paying>>

Init ==
  /\ StakingInit
  /\ blocks = <<>> /\ dataAt = stakes /\ paying = FALSE
  /\ vals = Range(InitialCandidates) /\ nextVals = {}
  /\ balance = [v \in Voters |-> 0] /\ remaining = [c \in Candidates |-> 0] /\ todo = {}
-----------------------------------------------------------------------------
\* Mutant: one block too many.
EpochBlocksOffByOne(bs) == Len(bs) - Epoch .. Len(bs)

\* The blocks that the last block of an epoch pays for.
EpochBlocks(bs) == Len(bs) - Epoch + 1 .. Len(bs)

\* calculateTotalValidatorsRewards
TotalReward(bs, c) ==
  LET own == { i \in EpochBlocks(bs) \cap DOMAIN bs : bs[i].coinbase = c }
  IN  FoldSet(LAMBDA i, sum : sum + BlockReward + bs[i].fee, 0, own)

\* The validators that have a reward, and the payments due to their voters.
Rewarded(bs) == { c \in vals : \E i \in EpochBlocks(bs) \cap DOMAIN bs : bs[i].coinbase = c }

VotersOf(c) == { v \in Voters : dataAt[c][v] > 0 }

ToVoter(c, v) == [validator |-> c, voter |-> v]
ToOwner(c) == [validator |-> c, voter |-> 0]

\* The proposer is a validator of the epoch; its block may hold a transaction.
\* A header that ends an epoch carries the validators of its parent's state.
Block(c, fee) ==
  /\ ~ paying /\ Len(blocks) < MaxNumber /\ c \in vals
  /\ blocks' = Append(blocks, [coinbase |-> c, fee |-> fee])
  /\ Transaction \/ UNCHANGED contract
  /\ paying' = (Len(blocks') % Epoch = 0)
  /\ IF paying'
     THEN /\ remaining' = [d \in Candidates |-> TotalReward(blocks', d)]
          /\ todo' = UNION { { ToVoter(d, v) : v \in VotersOf(d) } \cup {ToOwner(d)} :
                             d \in Rewarded(blocks') }
          /\ nextVals' = Range(StateDBValidators(candidates, stakes))
     ELSE UNCHANGED <<nextVals, remaining, todo>>
  /\ UNCHANGED <<vals, dataAt, balance>>

VoterReward(c, v) ==
  (((TotalReward(blocks, c) * 50) \div 100) * dataAt[c][v]) \div TotalStake(dataAt, c)

PayVoter(c, v) ==
  /\ ToVoter(c, v) \in todo /\ todo' = todo \ {ToVoter(c, v)}
  /\ balance' = [balance EXCEPT ![v] = @ + VoterReward(c, v)]
  /\ remaining' = [remaining EXCEPT ![c] = @ - VoterReward(c, v)]
  /\ UNCHANGED <<contract, blocks, vals, nextVals, dataAt, paying>>

\* The owner gets the rest, after the voters.
PayOwner(c) ==
  /\ ToOwner(c) \in todo /\ todo' = todo \ {ToOwner(c)}
  /\ \A v \in Voters : ToVoter(c, v) \notin todo
  /\ balance' = [balance EXCEPT ![Owner(c)] = @ + remaining[c]]
  /\ UNCHANGED <<contract, blocks, vals, nextVals, dataAt, remaining, paying>>

\* The block is written: the next epoch has its validators and their stakes.
EpochEnds ==
  /\ paying /\ todo = {} /\ paying' = FALSE
  /\ vals' = nextVals /\ dataAt' = stakes
  /\ remaining' = [c \in Candidates |-> 0] /\ nextVals' = {}
  /\ UNCHANGED <<contract, blocks, balance, todo>>

Next ==
  \/ EpochEnds
  \/ \E c \in Candidates : \/ PayOwner(c) \/ \E v \in Voters : PayVoter(c, v)
                           \/ \E fee \in Fees : Block(c, fee)

Spec == Init /\ [][Next]_vars
-----------------------------------------------------------------------------
(***************************************************************************)
(* When an epoch is over, all that its blocks have earned has been paid,   *)
(* to the last wei, however the shares were rounded and whoever proposed:  *)
(* "to ensure the total reward for the voters and owner is equals to the   *)
(* wei validator earns" (calculateReward, calculateTotalValidatorsRewards).*)
(***************************************************************************)
AllIsPaid ==
  LET ended == (Len(blocks) \div Epoch) * Epoch
  IN  (~ paying) => FoldFunction(+, 0, balance)
                      = FoldSet(LAMBDA i, sum : sum + BlockReward + blocks[i].fee, 0, 1 .. ended)

(***************************************************************************)
(* "50% to owner and 50% among voters": whatever the order of the loop,    *)
(* the voters of a validator never take more than half of its reward, and  *)
(* a voter who has half the stake gets a quarter of it, rounded down       *)
(* (calculateReward).                                                      *)
(***************************************************************************)
VotersTakeHalf ==
  paying => \A c \in Rewarded(blocks) :
    LET half  == TotalReward(blocks, c) \div 2
        taken == { v \in VotersOf(c) : ToVoter(c, v) \notin todo }
    IN  remaining[c] = TotalReward(blocks, c)
          - FoldSet(LAMBDA v, sum : sum + (half * dataAt[c][v]) \div TotalStake(dataAt, c), 0, taken)
        /\ TotalReward(blocks, c) - remaining[c] <= half
=============================================================================
