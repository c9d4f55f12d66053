------------------------------ MODULE MCLedger ------------------------------
(***************************************************************************)
(* The parts that keep the chain, the stakes and the transactions, on      *)
(* small instances.  They do not share state here, so a behaviour runs one *)
(* of them: part says which.  The others stay as they are initially.       *)
(***************************************************************************)
EXTENDS Integers, Sequences, FiniteSets, TLC

CONSTANTS Parts,                \* the parts that a run looks at
          acc1, acc2,           \* senders of transactions
          prov, NoProvider      \* a provider of gas, or none

VARIABLES part,
  chain, batch, base, verified, results, importer, rejected,
  listed, votes,
  candidates, stakes, blocks, vals, nextVals, dataAt, balance, remaining, todo, paying,
  pool, state, head, journal, open, submitted,
  db, mem, jobs, imp, status

headersVars == <<chain, batch, base, verified, results, importer, rejected>>
stakingVars == <<listed, votes>>
rewardsVars == <<candidates, stakes, blocks, vals, nextVals, dataAt, balance, remaining, todo,
  paying>>
poolVars == <<pool, state, head>>
journalVars == <<journal, open, submitted>>
chainVars == <<db, mem, jobs, imp, status>>
-----------------------------------------------------------------------------
(***************************************************************************)
(* Two sets of four validators that share two of them, epochs of two       *)
(* blocks: a batch of three headers crosses the end of an epoch.  Headers  *)
(* have a quorum of the one set or of the other, a seal twice, too few     *)
(* seals, a sealer of the wrong set or no link to the header before.       *)
(***************************************************************************)
Vals == {1, 2, 3, 4}
OtherVals == {3, 4, 5, 6}

Header(sealer, seals, linked) == [sealer |-> sealer, seals |-> seals, linked |-> linked]

SomeHeaders ==
  { Header(1, <<1, 2, 3>>, TRUE), Header(5, <<4, 5, 6>>, TRUE), Header(4, <<3, 4, 3>>, TRUE),
    Header(3, <<3, 4>>, TRUE), Header(1, <<4, 5, 6>>, TRUE), Header(5, <<4, 5, 6>>, FALSE) }

Verify == INSTANCE Headers WITH
  Epoch <- 2, Genesis <- Vals, Headers <- SomeHeaders, ValSets <- {Vals, OtherVals},
  MaxNumber <- 5, MaxBatch <- 3

ASSUME Verify!HeadersAssumption

\* Three candidates for two places and one more voter.
Stakes == INSTANCE Staking WITH
  Candidates <- {1, 2, 3}, Voters <- {1, 2, 3, 4}, InitialCandidates <- <<2>>,
  MaxValidatorSize <- 2, MinValidatorStake <- 1, MaxStake <- 1,
  candidates <- listed, stakes <- votes

\* Three epochs of two blocks; odd rewards, so that shares are rounded.
Epochs == INSTANCE Rewards WITH
  Candidates <- {1, 2}, Voters <- {1, 2, 3}, InitialCandidates <- <<2>>,
  MaxValidatorSize <- 2, MinValidatorStake <- 1, MaxStake <- 2,
  Epoch <- 2, BlockReward <- 7, Fees <- {4}, MaxNumber <- 6
-----------------------------------------------------------------------------
tx(from, nonce, value, gas, provider) ==
  [from |-> from, nonce |-> nonce, value |-> value, gas |-> gas, provider |-> provider]

a0 == tx(acc1, 0, 0, 1, NoProvider)
a1 == tx(acc1, 1, 1, 1, NoProvider)
a2 == tx(acc1, 2, 0, 2, NoProvider)
b0 == tx(acc2, 0, 1, 1, prov)
b1 == tx(acc2, 1, 0, 1, NoProvider)
c0 == tx(acc1, 0, 1, 1, prov)

OnTop(bs, x, y, z, maxGas) ==
  [blocks |-> bs, balance |-> acc1 :> x @@ acc2 :> y @@ prov :> z, maxGas |-> maxGas]

\* Two senders, one provider of gas.
Pool == INSTANCE TxPool WITH
  Accounts <- {acc1, acc2}, Txs <- {a0, a1, a2, b0, b1, c0},
  Heads <- { OnTop(<<>>, 2, 2, 1, 2), OnTop(<< <<a0>> >>, 2, 1, 1, 2),
             OnTop(<< <<c0>>, <<b0>> >>, 1, 1, 0, 2), OnTop(<< <<a0>>, <<a1, b0>> >>, 2, 2, 1, 1),
             OnTop(<<>>, 2, 0, 0, 1) },
  AccountSlots <- 1, GlobalSlots <- 2, AccountQueue <- 2, GlobalQueue <- 2,
  ReorgDepth <- 1, Old <- 1

plain(from, nonce, value) == tx(from, nonce, value, 1, NoProvider)

\* Two senders, two transactions of one nonce.
Local == INSTANCE TxJournal WITH
  Accounts <- {acc1, acc2}, Txs <- {plain(acc1, 0, 0), plain(acc1, 0, 1), plain(acc1, 1, 0), plain(acc2, 0, 0)},
  Heads <- {OnTop(<<>>, 2, 1, 0, 1), OnTop(<<>>, 1, 1, 0, 1), OnTop(<< <<plain(acc1, 0, 0)>> >>, 2, 1, 0, 1)},
  AccountSlots <- 1, GlobalSlots <- 2, AccountQueue <- 1, GlobalQueue <- 1,
  ReorgDepth <- 1, Old <- 1, MaxJournal <- 4
-----------------------------------------------------------------------------
\* Two chains that fork above the first block, and transactions that sit on
\* both of them, at different heights.
Tree == {"g", "a1", "a2", "a3", "b2", "b3", "b4"}
TreeParent == [x \in Tree |->
  CASE x = "a2" -> "a1" [] x = "a3" -> "a2" [] x = "b2" -> "a1" [] x = "b3" -> "b2"
    [] x = "b4" -> "b3" [] OTHER -> "g"]
TreeTxs == [x \in Tree |->
  CASE x \in {"a2", "b3"} -> {"x"} [] x \in {"a3", "b4"} -> {"y"} [] OTHER -> {}]

Forks == INSTANCE BlockChain WITH
  Blocks <- Tree, Genesis <- "g", None <- "none", Parent <- TreeParent,
  Difficulty <- [x \in Tree |-> 1], Root <- [x \in Tree |-> x], Txs <- TreeTxs,
  TriesInMemory <- 2, Archive <- FALSE, Targets <- {}, MayCrash <- FALSE,
  Imports <- {<<"a1">>, <<"a1", "a2", "a3">>, <<"a2">>, <<"b2">>, <<"a3">>, <<"b3">>, <<"b4">>,
              <<"b2", "b3">>, <<"b2", "b3", "b4">>},
  todo <- jobs

\* A fork above the first block whose empty blocks a2 and b2 share a state.
Branch == {"g", "a1", "a2", "b2", "b3"}
BranchParent == [x \in Branch |->
  CASE x \in {"a2", "b2"} -> "a1" [] x = "b3" -> "b2" [] OTHER -> "g"]

Rewinds == INSTANCE BlockChain WITH
  Blocks <- Branch, Genesis <- "g", None <- "none", Parent <- BranchParent,
  Difficulty <- [x \in Branch |-> 1], Root <- [x \in Branch |-> IF x = "b2" THEN "a2" ELSE x],
  Txs <- [x \in Branch |-> IF x \in {"a1", "b3"} THEN {x} ELSE {}],
  TriesInMemory <- 1, Archive <- FALSE, Targets <- {0, 2}, MayCrash <- FALSE,
  Imports <- {<<x>> : x \in Branch \ {"g"}} \cup {<<"b2", "b3">>}, todo <- jobs

\* Two chains from the genesis, and crashes.
Fork == {"g", "a1", "a2", "b1"}

Crashes == INSTANCE BlockChain WITH
  Blocks <- Fork, Genesis <- "g", None <- "none",
  Parent <- [x \in Fork |-> IF x = "a2" THEN "a1" ELSE "g"],
  Difficulty <- [x \in Fork |-> 1], Root <- [x \in Fork |-> x],
  Txs <- [x \in Fork |-> IF x = "a1" THEN {"x"} ELSE {}],
  TriesInMemory <- 1, Archive <- FALSE, Targets <- {1}, MayCrash <- TRUE,
  Imports <- {<<"a1">>, <<"b1">>, <<"a2">>}, todo <- jobs
-----------------------------------------------------------------------------
vars == <<part, headersVars, stakingVars, rewardsVars, poolVars, journalVars, chainVars>>

\* A pool that a part other than pool and journal leaves alone.
Unused == state = OnTop(<<>>, 2, 2, 1, 2)

Init ==
  /\ part \in Parts
  /\ Verify!HeadersInit /\ Stakes!StakingInit /\ Epochs!Init
  /\ journal = <<>> /\ open = TRUE /\ submitted = {}
  /\ IF part = "journal" THEN Local!Init ELSE Pool!Init /\ (part # "pool" => Unused)
  /\ CASE part = "rewinds" -> Rewinds!Init [] part = "crashes" -> Crashes!Init [] OTHER -> Forks!Init

\* The variables of all parts but the one that steps.
BesideHeaders == <<stakingVars, rewardsVars, poolVars, journalVars, chainVars>>
BesideStaking == <<headersVars, rewardsVars, poolVars, journalVars, chainVars>>
BesideRewards == <<headersVars, stakingVars, poolVars, journalVars, chainVars>>
BesidePool == <<headersVars, stakingVars, rewardsVars, chainVars>>
BesideChain == <<headersVars, stakingVars, rewardsVars, poolVars, journalVars>>

Next ==
  /\ UNCHANGED part
  /\ \/ part = "headers" /\ Verify!HeadersNext /\ UNCHANGED BesideHeaders
     \/ part = "staking" /\ Stakes!Transaction /\ UNCHANGED BesideStaking
     \/ part = "rewards" /\ Epochs!Next /\ UNCHANGED BesideRewards
     \/ part = "pool" /\ Pool!Next /\ UNCHANGED <<BesidePool, journalVars>>
     \/ part = "journal" /\ Local!JournalNext /\ UNCHANGED BesidePool
     \/ part = "forks" /\ Forks!Next /\ UNCHANGED BesideChain
     \/ part = "rewinds" /\ Rewinds!Next /\ UNCHANGED BesideChain
     \/ part = "crashes" /\ Crashes!Next /\ UNCHANGED BesideChain

Spec == Init /\ [][Next]_vars
-----------------------------------------------------------------------------
(***************************************************************************)
(* Every header of the chain is sealed by a quorum of different validators *)
(* of its own epoch, and a header that is linked and so sealed never ends  *)
(* an import, though the validators come from the chain or from the batch  *)
(* depending on how far the importer is: a verdict that waits for the      *)
(* importer is right about the chain as it will be (HeadersInv;            *)
(* verifyCommittedSeals, getValSetFromChain).                              *)
(***************************************************************************)
HeadersJudged == Verify!ChainIsCertified /\ Verify!GoodIsNotRejected /\ Verify!HeadersInv

(***************************************************************************)
(* The caller that runs the contract chooses the candidates with the most  *)
(* stake among those whose owner has enough                                *)
(* (evmStakingCaller.GetValidators).                                       *)
(***************************************************************************)
EVMTakesTop == Stakes!EVMTakesTop

(***************************************************************************)
(* When an epoch is over, all that its blocks have earned has been paid,   *)
(* to the last wei, and whatever the order of the loop the voters of a     *)
(* validator do not take more than half of its reward (calculateReward,    *)
(* calculateTotalValidatorsRewards).                                       *)
(***************************************************************************)
RewardsAddUp == Epochs!AllIsPaid /\ Epochs!VotersTakeHalf

(***************************************************************************)
(* The index of all transactions and the lists agree, no nonce of an       *)
(* account is in both lists, and every transaction has a price point, so   *)
(* that a raised gas price finds it (add, promoteTx, removeTx,             *)
(* txPricedList).                                                          *)
(***************************************************************************)
IndexesAgree == part = "pool" => Pool!IndexesAgree /\ Pool!PricedCoversAll

(***************************************************************************)
(* Whenever the lock is free, what Pending hands to the miner can be       *)
(* executed in order and paid for, nothing is left in the queue that could *)
(* be promoted, and the limits of TxPoolConfig hold (promoteExecutables,   *)
(* demoteUnexecutables, reset).                                            *)
(***************************************************************************)
PoolSettled == part = "pool" => Pool!PendingExecutable /\ Pool!QueueBlocked /\ Pool!LimitsHold

(***************************************************************************)
(* Only the chain removes a transaction of a local account: no limit, gas  *)
(* price or eviction does (add, SetGasPrice, loop); and while the journal  *)
(* is open its file holds every pooled transaction that came as a local    *)
(* one (journalTx, rotate).                                                *)
(***************************************************************************)
LocalsAreKept ==
  /\ [](part = "journal" => Local!JournalHasLocals)
  /\ [][part = "pool" => Pool!KeepsLocals]_poolVars

(***************************************************************************)
(* When no job runs, GetBlockByNumber answers up to the head with the      *)
(* head's ancestors, the head header is not behind the head block, and     *)
(* every transaction and block of the head's chain has its lookup and its  *)
(* receipts there, whatever reorganisations moved it (reorg, insert,       *)
(* SetHead, writeBlockWithState).                                          *)
(***************************************************************************)
HeadIsIndexed ==
  /\ part = "forks" => /\ Forks!CanonicalToHead /\ Forks!HeaderFollows
                       /\ Forks!LookupsComplete /\ Forks!ReceiptsKept
  /\ part = "rewinds" => Rewinds!CanonicalToHead

(***************************************************************************)
(* The head has its state, whatever tries were collected, and wherever a   *)
(* crash fell and however far SetHead went back, the stored head is a      *)
(* stored block from which repair reaches one with state                   *)
(* (writeBlockWithState, loadLastState, repair).                           *)
(***************************************************************************)
HeadLoads ==
  /\ part = "forks" => Forks!HeadHasState
  /\ part = "rewinds" => Rewinds!AlwaysLoads
  /\ part = "crashes" => Crashes!HeadHasState /\ Crashes!AlwaysLoads

(***************************************************************************)
(* "sort and returns topN" (evm_caller.go:75): the caller that reads the   *)
(* storage, the other implementation of StakingCaller, chooses the         *)
(* candidates with the most stake too                                      *)
(* (stateDBStakingCaller.GetValidators).                                   *)
(***************************************************************************)
StateDBTakesTop == Stakes!StateDBTakesTop
=============================================================================
