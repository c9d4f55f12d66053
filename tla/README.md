# evrynet-node: TLA+ models and proofs

evrynet-node is a go-ethereum node whose blocks are agreed on by a Tendermint
engine (`consensus/tendermint`). This directory models the engine and the parts
of the node that stand between it and its chain: the votes and locks of the
consensus, the goroutines and channels around it, the miner, the validators and
their rewards, the transaction pool, the block chain's storage, and the way
blocks come in from peers. Paths below are relative to `src/`; those of the
engine to `src/consensus/tendermint/`.

## The system and its parts

A block height is decided in rounds. In a round the proposer sends a block; each
validator prevotes it or nil; two thirds of the prevotes for one hash (a *polka*)
let it lock and precommit the block; two thirds of the precommits commit it.
With `N` validators, `F = ceil(N/3) - 1` may be faulty and `N - F` votes are a
majority. The committed block goes through a commit channel back to the goroutine
of `Seal` that waits for it, from there to the worker and into the chain; without
a channel it goes to the block fetcher. The new head comes back to the core as a
`FinalCommittedEvent`, which a stopped core does not get. The last block of an
epoch names the next validators, chosen by stake, and pays the rewards of the
epoch.

| part | code | module |
|---|---|---|
| voting rules | `core/consensus.go`, `core/handler.go` | `Voting`, abstract; `VotingProofs` |
| round state machine, votes, catch-up | `core/consensus.go`, `core/handler.go`, `core/state_modification.go`, `core/messages.go`, `core/roundState.go`, `core/catch_up.go`, `core/sentMsgStorage.go` | `RoundState`, `Core` (operators on a core's record); `CoreInv`; `CoreLemmas`, `CoreSteps` (proofs) |
| cores, network, chain heads, stops | `core/core.go`, `backend/handler.go`, `event/event.go` | `TendermintNet`, `NetVoting`; `NetInv`; `NetSteps`, `NetProofs` (proofs) |
| validator arithmetic | `validator/default.go` | `ValidatorSet` |
| timeout ticker, start and stop of a core | `core/timeout.go`, `core/core.go` | `Ticker`; `EngineProofs` |
| start and stop of miner and engine | `miner/miner.go`, `evr/backend.go`, `backend/engine.go` | `Lifecycle` |
| commit channels | `backend/commit_channels.go` | `CommitChannels`, abstract; `BackendProofs` |
| sealing and commit | `backend/engine.go`, `backend/backend.go`, `miner/worker.go` | `Sealing`; `BackendProofs` |
| incoming messages | `backend/handler.go` | `MsgQueue`; `EngineProofs` |
| broadcast | `backend/backend.go` | `Gossip`; `EngineProofs` |
| readers of the store of sent messages | `core/catch_up.go` | `CatchUp`; `EngineProofs` |
| event mux, feed, subscriptions | `event/event.go`, `event/feed.go`, `event/subscription.go` | `TypeMux`, `Feed`, `Resubscribe`; `EventProofs` |
| header verification | `backend/engine.go`, `utils/utils.go` | `Headers`; `BackendProofs` |
| stakes, rewards | `core/state/staking/`, `backend/reward.go` | `Staking`, `Rewards` |
| transaction pool, journal | `core/tx_pool.go`, `core/tx_list.go`, `core/tx_journal.go` | `TxPool`, `TxJournal` |
| block chain storage | `core/blockchain.go`, `core/headerchain.go` | `BlockChain` |
| block fetcher | `evr/fetcher/fetcher.go` | `Fetcher` |
| downloader | `evr/downloader/queue.go`, `downloader.go`, `peer.go` | `DownloadQueue` |

`PROJECT.json` lists all components, those not modelled included, the lines each
definition models, and the hazards found in the code, each at its line.

## How the consensus is modelled

**A core is a record** with the field names of `roundState`, and a method that
changes it is an operator that returns the changed record, so that a handler
that calls others (a precommit that completes a majority runs `enterNewRound`,
`enterPrecommit`, `enterCommit` and `finalizeCommit`) is a composition of
operators and one step. `handleCatchUpReply` handles the messages of a reply one
after the other under the mutex; it is a recursive function over them. The
iterations of `processFutureMessages` are steps of their own; the field `draining`
keeps every other handler of that core out, as the mutex does.

**Data.** A validator is its index in the sorted list. A block is its hash:
`[number, id]`. A hash with a majority is an element of the set
`TwoThirdMajority(votes, r)`, which has at most one. `Nil` stands for a nil
pointer and for the empty hash of a nil vote. `EmptyHeaderBlock` is the block
made of an empty header that a core holds before its miner delivers one; its
number is 0 and its hash is not the empty hash. Signatures, encodings, gas and
transactions are left out; the blocks that pass the checks behind `VerifyProposal`
are the members of `Accepted`. Timeouts have no durations: a running timer may fire
at any time.

**The network** is the set of messages sent. Receiving does not remove a message,
so it may come late, never, twice and in any order. This subsumes gossip with its
retries and the rebroadcast by neighbours. A faulty validator's messages
(`FaultyMessages`) are always there; a core's own messages take the same way, as
in the code, where `Broadcast` posts them to its own event mux.

**Actions of `TendermintNet`.** `Receive` is a `MessageEvent`; `Timeout` a value
from the ticker; `NewBlock` the `NewBlockEvent` of `Seal`; `FinalCommitted` the
`FinalCommittedEvent`; `ProcessFutureMessage` is an iteration of the loop over
the messages put aside; `InsertBlock` and `HandleNewChainHead` are the chain and the worker;
`LoseEvent` is a post without subscription; `StopCore` and `StartCore` keep the core's
record, as the process does. A chain grows by blocks that an honest validator has
committed.

**The abstraction `Voting`.** A step is a batch of votes of one validator at one
height, because one handler may prevote, precommit and commit. A vote in a batch
must be justified by votes of before the batch. Faulty validators count towards
every majority. `NetVoting` maps height 1 of the network to it: prevotes and precommits
are the votes sent, decisions the blocks handed to `backend.Commit`.

## How the parts around it are modelled

Each module has the goroutines, channels and locks of its part; a step is what
the code does under a lock, one operation on a channel, or one access to a shared
flag. A send in a `select` with a `default` reaches a goroutine that is receiving
now, or nobody.

- **`Ticker`**: a timeout is a number in the order of `earlierOrEqual`. `Stop`
  ends the routine, waits for the goroutines that send, closes `tockChan` and waits
  for the handler, in the order of the code.
- **`Lifecycle`**: callers of `StartMining` and `StopMining`, the goroutine of
  `Miner.update`, and the loop of `Backend.Start` that waits for peers and may be told to
  stop through `controlChan`.
- **`CommitChannels`** is what the channels promise to any users, **`Sealing`** its
  actual users: worker, goroutines of `Seal`, core, chain head events, `Start`,
  fetcher. The core is its height and the blocks it commits.
- **`MsgQueue`**: `HandleMsg` measures, frees and stores in separate steps; a replay
  reads, posts and dequeues in separate steps, under the read lock that `Start` and `Stop`
  take for writing.
- **`Gossip`**: one goroutine sends, one listens for the two events that end the
  task; a post is delivered to one subscription after the other. **`CatchUp`** has the
  goroutine that looks an index up and reads it later without `core.mu`, and a
  network that loses requests and replies.
- **`TypeMux`, `Feed`, `Resubscribe`**: the three kinds of subscription, lock by lock
  and select by select; the case list of a `Send` with its swaps is modelled as it is.
- **`Headers`**: the verifying goroutine runs ahead of the importer; a header is its
  sealer, the signers of its commit and the validators it carries.
- **`Staking`, `Rewards`**: the staking contract is external, a small state machine of
  candidates and stakes. Rewards are integers with the code's rounding, and the loops over
  Go maps take any order.
- **`TxPool`**: every exported method holds `pool.mu`, so each is one action made of
  the passes of the code over a record of all lists. **`TxJournal`** adds the file,
  its rotation, failing writes and restarts.
- **`BlockChain`**: a job is the sequence of its puts to the store; the process may
  crash between any two, and starts again from what is stored.
- **`Fetcher`**: announcements, deliveries and propagated blocks come at any time, in
  any order, from anybody or never. **`DownloadQueue`**: one synchronisation with
  its two fetch loops, header and content processors, timeouts, peers that leave and
  every way it ends.

## Runs

A behaviour of a *sum run* (`engine`, `ledger`, `sync`, `sync_live`) runs one part,
chosen in the initial state by the variable `part`; the others keep their initial
values. The parts do not share state, so this checks each of them on an instance
of its own, given in `MCEngine`, `MCLedger` and `MCSync`. A property of such a run
collects what the parts promise about one thing; the clauses are stated and explained in
the modules of the parts.

TLC counts the next-state relation of a sum as a single action, so its action counts
do not tell whether each action of a part happens. TLC's coverage of expressions
(`tlc -coverage 1`) does: over these runs every action and disjunct of every part
is taken. The branches that are not are defences of the code whose
condition a property excludes: `loadLastState` that finds no block to repair to (`HeadLoads`),
and the errors of the downloader for an overrun cache, an invalid chain and a
peer with two requests (`DownloadAccounts`).

| run | instance | shows |
|---|---|---|
| `voting` | 3 honest, 1 faulty, 2 blocks, 2 rounds | the voting rules imply `Agreement` and `LocksHold` |
| `net_rounds` | 2 cores, 3 rounds | every handler is a step or a stutter of `Voting` (`Refines`), hence agreement |
| `net_faulty` | 1 core, 3 others with free messages, 3 rounds | what each core keeps by itself: `LockRule`, `OneVotePerRound`, `SameProposer`, `CommitSound`, `NeverBack`, and that no panic is reachable |
| `net_heights` | 2 cores, 2 heights, each stopped once | restarts, jumps and late events keep timers, the store of votes and the order of heights |
| `net_live` | 2 cores, 2 rounds, 2 heights, one stop, fair | `Progress`: no core is stuck in a round although proposals are lost; `NextHeight`: after a commit all cores reach the next height |
| `sealing` | 1 height, 2 own blocks, 1 other, 2 channels, fair | `ChannelsKept`; a committed block gets into the chain, the core follows the chain |
| `engine` | ticker, miner, message queue below and at its limit, gossip, catch-up, mux, feed, resubscribe | bounds, channels closed safely, nothing delivered twice, votes kept; calls return, starts succeed, what is stored, posted, scheduled or missing arrives |
| `ledger` | headers, stakes, rewards, pool, journal, chain with forks, with rewinds, with crashes | verification is right at epoch changes, rewards add up, the indexes of pool and chain agree, local transactions stay, the head always loads |
| `sync` | fetcher on a line and on a fork; full sync, peers that leave, fast sync | announcements, requests, slots and results are accounted for; a sync without error is complete |
| `sync_live` | fetcher with two blocks, sync with two peers, fair | announced blocks are requested, queued ones imported, a sync ends |
| `doc_legit_block` | as `net_rounds` | violated: see below |
| `doc_top_stakes` | three candidates for two places | violated: see below |

All runs switch the deadlock check off: the bounds, and the ends of services that may
stop, end behaviours. Waiting for ever is excluded by the liveness properties.

Each property of a passing run has a mutant, a definition of the code's model with a
plausible mistake (marked "Mutant" where it is defined), under which TLC finds the
property violated.

### Bounds

Two cores (`F = 0`) make every interleaving of two state machines with three
rounds checkable, and there a majority needs both. What two cores cannot
show, minorities and conflicting votes, is checked from the view of one core of four: the
properties of `net_faulty` are about one core's own record, and hold whatever the rest
sends, so the rest need not run code. The messages of the environment are
`AnyVotes`: two proposals of round 0 (one unsound), two of round 2 (one with a POL of
round 0), a catch-up reply nobody asked for, and votes that let a polka, votes for
different blocks, a nil majority, a commit of round 0 after the core has gone on, and a
skipped round happen. `InOrder` lets the other
validators' votes of a round arrive in the order of their indices, as handlers only
count them. Three rounds are needed to lock in one, relock or be released in the
next, and propose with a POL in the last. Two heights are needed for future messages,
late events and jumps. `MaxMined`, `MaxRetry` and `MaxStops` bound, per validator, the
blocks of the miner, the catch-up requests of a step and the stops.

`sealing` has one height, at which a second seal can replace the first channel
while another validator's block competes; several heights are covered for
safety by the proof, and for the core's progress by `net_live`. In `engine` the
channels have capacity 1, so that they are full; four messages, two calls at a
time, meet a queue of limit 1; the ticker is started twice; three channels are
subscribed to a feed, of which one moves in the list when another goes. In
`ledger` a batch of three headers crosses the end of an epoch of two; rewards are odd, so
that shares are rounded; the pool has limits of one or two slots; `TriesInMemory` is 1
or 2, so that states are collected while a fork still needs them. In `sync` a peer
may have announced two blocks and have one or two in the queue, a sync of three
blocks has a result cache of two, and a timeout makes a peer idle in one sync, so that
late and stale answers come, and drops it in the others.
`MCSync` permutes the fetcher's two peers, which no definition tells apart.

### Fairness

Nobody ever has to call, announce, mine, stop or send something new. What is assumed:

- goroutines that can go on do (`WF` of their steps): Go schedules them;
- a case of a `select` that is ready again and again is chosen some day (`SF`, in
  `Gossip`, `Fetcher`, `DownloadQueue`): Go picks among ready cases at random;
- timers fire and time passes; a sync ends, done or failed; enough peers are found some day
  (`Lifecycle`), and a stopped core is started again where the property is about what
  comes after;
- of catch-up requests and replies that are sent again and again some arrive
  (`SF` in `CatchUp`): `enterCatchup` repeats them with every timeout;
- in `TendermintNet`, messages other than proposals are received when they can change
  a state: gossip retries until enough peers have them (`backend/backend.go:269`).
  Proposals are exempt, so that `Progress` shows the worth of the propose timeout. This one
  is written with a state predicate (`Busy`), which is exactly when `Steps` can
  change the state, as TLC evaluates `ENABLED` of the nested operators very slowly.

## What is proved

`VotingProofs` proves, for every finite set of validators with at most `F` faulty,
every set of blocks and every set of rounds (`VotingAssumption`):

- `SpecAgreement`: `Spec => []Agreement`;
- `SpecNoEquivocation`, `SpecLocksHold`;
- `SingleStep`: the single votes that `MCVoting` checks are steps of `Spec`.

`Agreement` is not inductive. The inductive invariant is
`Inv == TypeOK /\ NoEquivocation /\ Justified /\ LocksHold`. `Justified` says that
a precommitted block has a polka in its round and a decided one a commit
majority. `LocksHold` is the heart: when a validator that precommitted `B` in `r0` prevotes
something else later, some majority *without any honest precommitter of `B` in
`r0`* had prevoted something else in between. It is stated with that
majority, rather than with the releasing polka, because then the argument needs
no induction over rounds: if `B` has a commit majority in `r0`, it
shares an honest validator with any later polka for another block
(`QuorumIntersection`), which by `LocksHold` yields a majority disjoint from the
commit majority, a contradiction (`LaterPolka`). A new prevote keeps `LocksHold`
(`CastLocksHold`): either the polka that released the lock is such a majority, or
one of its members had precommitted `B` too, and `LocksHold` for that member
gives the majority. The only facts about numbers used are `F` and `MinMajority` as computed
in `default.go`.

`BackendProofs` proves `ChannelsSafe`, `CCSpec => []ChannelsKept`, for any sets of
numbers, blocks and channels (`CommitChannelsAssumption`): no operation on the commit
channels closes one twice or sends to a closed one, and a waiting reader is at a
registered, closed or filled channel. The inductive invariant adds that a registered
channel is open (`RegisteredIsOpen`), which is what makes each close and send
safe, and that a reader that returns has a block (`ReaderHasBlock`).

It also proves `SealingImplementsChannels`, `Spec => CCSpec`: the miner, the
core and the chain use the channels only by the steps of `CommitChannels`; the invariant
needed is that the blocks under way are blocks and their numbers heights
(`BlocksOK`). `SealingSafe`, `Spec => []ChannelsKept`, follows from both theorems.

### Header verification

The second part of `BackendProofs` is about `Headers`, for any epoch length, any finite
sets of validators and any headers whose seals decode to a list (`HeadersAssumption`, which
`ledger` evaluates on its instance): `VerdictsAreRight`, `HeadersSpec => []HeadersInv`;
`HeadersAreCertified`, `HeadersSpec => []ChainIsCertified`; and `GoodHeadersPass`,
`HeadersSpec => []GoodIsNotRejected`. The last two are what `ledger` checks as
`HeadersJudged`, with the inductive invariant.

The two properties speak of the chain, the code of a batch whose verdicts are reached before
the chain has the headers they depend on. `HeadersInv` says what such a verdict is worth
(`VerdictIsRight`): a yes is right about the validators which the block will have, and a no
is right too, or else a header before it in the batch is not linked. The second
alternative is real, as `getValSetFromChain` gives up at a broken link, and it does no harm,
as the importer ends at that header and never takes the verdict (`NextInBatch`). A verdict
stays right because writing a block moves a header from the batch to the chain and does not
change the header of any number (`AcceptOK`). `VerdictOK` needs that the walk through the
batch and `GetCheckpointNumber` find the same number, which is arithmetic of multiples of the
epoch (`Checkpoint`), and `CertifiedMeans` that removing a validator for each seal counts
different ones (`SealsCount`).

### The cores and the network

`NetSteps` (down to `VotesAreStored`) and `NetProofs` prove, for every number of validators `N`, every split into honest and faulty
ones, every set of messages that the faulty ones send, every set of accepted blocks and all
bounds (`NetAssumption`, `NAssumption`, `AcceptedAssumption`):

| theorem | statement | |
|---|---|---|
| `NetInvariant` | `Spec => []NetInv` | the inductive invariant |
| `NeverPanics` | `Spec => []NoPanic` | also checked by `net_faulty` |
| `VotesOnce` | `Spec => []OneVotePerRound` | `net_faulty` |
| `LocksAreKept` | `Spec => []LockRule` | `net_faulty` |
| `ProposersAgree` | `Spec => []SameProposer` | `net_faulty` |
| `CommitsAreSound` | `Spec => []CommitSound` | `net_faulty` |
| `NeverGoesBack` | `Spec => NeverBack` | `net_faulty`, `net_heights` |
| `TimersRun` | `Spec => []TimerRuns` | `net_heights` |
| `VotesAreStored` | `Spec => []SentIsStored` | `net_heights` |
| `VotesFollowLocks` | `Spec => [](PolkaInv /\ LocksInv)` | the reason for agreement |
| `NetAgreement` | `Spec => []CoresAgree` | with at most `F(N)` faulty validators |
| `ImplementsVoting` | `Spec => V(h)!Spec`, for every height `h` | with at most `F(N)` faulty validators |
| `NetRefines` | `Spec => Refines`, the case `h = 1` | `net_rounds` |

The theorems down to `VotesAreStored` are about single cores and assume no bound on the
faulty validators: a core keeps its rules against any number of them. `NetAssumption` says
of the messages of faulty validators only that they have decoded (`IsMessage`) and that
nobody signs in the name of another.

*The invariant of a core.* `CoreInv` (in `CoreInv.tla`) has one part for each concern of the
code, and none of the properties is inductive without the others. `OneVotePerRound` needs
to know that no vote is for a place which the core has not come to (`OutInv`), because the
guards of `enterPrevote` and `enterPrecommit` compare only round and step. `NoPanic` needs
the votes behind a commit round (`CommitInv`) and that a timeout, also one that was already
in the channel when another was scheduled, is not for a later place (`TimeInv`).
`SentIsStored` needs the order in the store (`StoreInv`), as `storeSentMsg` drops a message
that comes before the last one. `LockRule` needs that a lock is a polka received, and
`CommitSound` that what was received was signed: `ReceivedInv` and `CommitInv` are relative
to the set of all signed messages, which only grows (`CoreInvGrows`).

*The handlers.* `CoreLemmas` has the facts about the parts: sending a vote, the store, the
timer, majorities, the lock; its second part shows that what goes on beside the steps of a
round keeps `CoreInv` (requests to catch up, the timer, the miner's block, the event of a final
commit, `Start` and `Stop`). `CoreSteps` shows it of each `enter` function and of each handler, the
messages of a catch-up reply one by one included. Next to the invariant every step is shown to go on (`Onward`): it does not go
back, signs only for places the core has not come to, keeps what it sent and committed, and
leaves the timer running where the core is. `NetSteps` takes the handlers as steps of the
network; `NetInv` adds to `CoreInv` how the core's height and timer fit to its chain and to
the events on their way.

*Agreement* (`NetProofs`). `PolkaInv` and `LocksInv` are `Justified` and `LocksHold` of `Voting`, now for
the cores at all heights at once. They need `Onward` for the order in which a core signs,
`LockInv` for the polka that a core has received, and `HonestSigned`: what an honest
validator signed, it sent, so that a majority received is a majority signed
(`ReceivedMajority`). Agreement then follows from `QuorumsMeet`.

*Refinement* (`NetProofs`). `CastStep` shows that a step of the network is a step `Cast` of `Voting` at
every height: the new votes of the core are in the rounds considered, after its earlier
ones, one per round, prevotes released by a polka that was signed before the step
(`CastPrevotes`), precommits on such a polka (`CastPrecommits`), commits on a majority of
precommits (`CastDecisions`). At most `F(N)` faulty validators are needed here because a
polka of faulty votes alone could be for a block that is no value of `Voting`.

Two inductions over data are inside these proofs, over the messages of a catch-up reply and
over the validators that seal a commit. As the library's induction theorems cannot be used,
they are done by the least counterexample (`MinNat`).

### The parts beside the consensus

`EngineProofs` (queue, ticker, store, broadcasts) and `EventProofs` (feed, mux) prove what `engine`
checks on small instances of these parts, each for all values of its constants. The parts of a
module share no state; they are side by side, and a name that two of them use is declared once. The inductive invariants are at
the end of the modules of the parts, and `engine` checks them too.

| theorem | statement | inductive invariant |
|---|---|---|
| `HandledInOrder` | `Spec => []InOrderOnce` of `MsgQueue` | `OrderInv` |
| `QueueIsBounded` | `Spec => []QueueNearLimit` of `MsgQueue` | `LimitInv` |
| `TickerNeverSendsOnClosed` | `Spec => []NoSendOnClosed` of `Ticker` | `ClosingInv` |
| `TimerFollowsLast` | `Spec => []TimerIsForLast` of `Ticker` | `LastInv` |
| `ReaderPostsItsVote` | `ReaderSpec => []PostsItsVote` of `CatchUp` | `ReaderInv` |
| `GossipSendsOnce` | `Spec => []SentOnce` of `Gossip` | `TargetsInv` |
| `MuxNeverSendsOnClosed`, `MuxStopClosesAll` | `Spec => []NoSendOnClosed`, `Spec => []AllClosedByStop` of `TypeMux` | `MuxInv` |
| `FeedDeliversOnce`, `FeedKeepsPlaces` | `Spec => []DeliversOnce`, `Spec => []InOnePlace` of `Feed` | `FeedInv` |

The assumptions are that `None` is no message, subscription or goroutine, that the messages of
the queue are finitely many and its limits numbers, and that places in the store are numbers
(`QueueAssumption`, `MuxAssumption`, `FeedAssumption`, `CatchUpAssumption`; `MCEngine` assumes
them of its instances).

- *Order of messages.* A replay reads the first message, posts it and dequeues later, and a
  call that frees a slot may take that message away in between. `OrderInv` says that what
  the core was given is among the messages gone from the queue, but for the one that the
  replay has in hand, which is next in the order of arrival or already gone (`Follows`).
- *Limit.* A call frees all that is above the limit before it stores, but several calls may
  have freed before any of them stores. `LimitInv` counts these together with the queue.
- *Ticker.* `ClosingInv` relates where `Stop` is to the routine and to the senders that are
  left; `LastInv` bounds every timeout in a channel by the last one scheduled, and says that the
  last tick, or the timer, or the timeout it produced, is that one.
- *Reader.* The store is in the order of places, and an index looked up stays the index
  of the vote as long as the height lasts (`ReaderInv`), since the store only grows at its end
  (`StoreGrows`).
- *Mux.* `MuxInv` says that a post which is sending has seen an open channel, that nobody
  knows a subscription before it is made, and that a `Stop` in progress keeps the registered ones
  and has closed those it need not close any more. Closing needs `postMu`, which a send holds.
- *Feed.* The channels to be served are exactly those in the active part of the case list
  (`ServedInv`), each in one place (`PlacesInv`). `SwapIs` and `DeleteMoves` say where an element
  is after `deactivate` and `delete`: the others of the active part stay in it. A removal
  shrinks the active part only if the channel was in it (`FeedRemove`).

### Only model-checked

All liveness (`Progress`, `NextHeight`, and the temporal properties of the other runs), which
is outside the prover's reach, as is what recursive definitions compute for every input (the
pool has them); the type invariants of `engine`; the safety invariants of `ledger` (but for the
headers) and of `sync`.

## Where the code departs from its comments

Two disagreements have a run in which TLC finds the behaviour against the comment:

- `doc_legit_block`: `core/consensus.go:99` "if we hasn't received a legit block from
  miner, don't propose"; the placeholder a core starts with is proposed.
- `doc_top_stakes`: `core/state/staking/evm_caller.go:75` "sort and returns topN"; the
  other implementation of the interface sorts and then returns the candidates
  registered first.

The others are stated in the modules, next to what does hold. TLC finds a
counterexample to each, for the two with `MayCrash` when that constant allows
crashes. They are not part of a run:

| definition | comment | what happens |
|---|---|---|
| `MCNet!ValidRoundIsLast` | `core/roundState.go:58` | relocking moves `lockedRound` and leaves `validRound` |
| `MCNet!StepByStep` | `core/sentMsgStorage.go:39` | from Commit, for an earlier round, back to PrecommitWait |
| `MCNet!FutureMessagesHandled` | `core/core.go:89` | not when the jump to the height is in `Start` |
| `MCNet!PrevoteWhenReady` | `core/consensus.go:219` | a POL completed by a late prevote waits for the timeout |
| `Ticker!ScheduleWontBlock` | `core/timeout.go:120` | it blocks when a handler schedules more than the channel holds after the routine has ended; `Stop` then waits for ever |
| `Ticker!HandlersDone` | `core/core.go:67` | the wait group is raised in the goroutine, so `Stop` may not wait for it |
| `Lifecycle!StopTerminates` | `evr/backend.go:474` | the stop signal is lost when the start loop is not at its select |
| `Lifecycle!WillStartAfterwards` | `miner/miner.go:125` | a start between two steps of `update` is forgotten |
| `Lifecycle!StartStartsMiner` | `evr/backend.go:428` | a racing stop clears the running flag after the engine was started again |
| `MsgQueue!QueueWithinLimit` | `backend/handler.go:103` | at its limit the queue frees none and grows by one |
| `MsgQueue!ReplayedOneByOne` | `backend/handler.go:79` | a slot freed during a replay makes it dequeue a message it has not sent |
| `CatchUp!PostsItsVoteOrNone` | `core/catch_up.go:96` | after a truncation the goroutine reads another message or past the end |
| `Gossip!StopEndsTasks` | `backend/backend.go:210` | a stop posted before the goroutine subscribes is missed |
| `TypeMux!StopWaitsForDeliveries` | `event/event.go:104` | not for a subscription that is being ended |
| `Resubscribe!UnsubscribeReturns` | `event/subscription.go:39` | it blocks once the loop has ended by itself |
| `Resubscribe!NothingLeft` | `event/subscription.go:38` | a try that succeeds after the loop gave up stays subscribed |
| `Staking!CallersAgree` | `cmd/utils/flags.go:710` | one caller compares the total stake with the minimum, the other the owner's |
| `TxPool!PricedCount` | `core/tx_pool_test.go:100` | a stale price point of a transaction added again counts as live |
| `TxJournal!SurvivesRestart` | `core/tx_journal.go:43` | a dropped transaction still in the file keeps a later one of its nonce out |
| `BlockChain!CanonicalStops` | `core/blockchain.go:1909` | numbers above a new head of one block stay when difficulties differ |
| `BlockChain!HeadIsHeaviest` | `core/blockchain.go:1295` | a known block in an import becomes the head whatever its difficulty |
| `BlockChain!NoPanic` | `core/blockchain.go:1700` | importing only canonical blocks with pruned states dereferences nil |
| `BlockChain!SetHeadRewinds` | `core/headerchain.go:473` | after a crash that left the header below the block the loop does not run |
| `BlockChain!CanonicalToHead` with `MayCrash` | `core/blockchain.go:128` | a crash inside a reorg leaves numbers of two branches |
| `BlockChain!ReceiptsKept` with `Archive`, `MayCrash` | `core/blockchain.go:1519` | after a crash between trie and batch a block becomes the head without receipts |
| `Fetcher!AnnouncesLimited` | `evr/fetcher/fetcher.go:38` | what is being fetched is no longer counted |
| `Fetcher!RequestsEnd` | `evr/fetcher/fetcher.go:35` | a block that waits for its body never expires |
| `Fetcher!StopCancels` | `evr/fetcher/fetcher.go:179` | an import goroutine blocks on `done` after the loop has gone |
| `DownloadQueue!StaleIdled` | `evr/downloader/downloader.go:1214` | a late answer takes the second request away and the peer stays busy |

None of them breaks the properties of the passing runs, which hold with these
behaviours in the models.

## Not modelled

- Durations and clocks: a running timer may fire at any time. Cryptography, RLP,
  gas and the EVM: a signature is its signer, an unsound block is a member of a set.
- `core/rebroadcast.go` and the choice of neighbours: subsumed by a network in which any
  core may get any message. A crash loses a core's memory; the code persists nothing of a
  round, and a validator that comes back with the initial state counts as faulty.
- `Headers`: times, batches that overlap the chain, the fixed validators of a test
  configuration. `Staking`: the contract's resigning. `Sealing`: how a block is filled
  with transactions; the miner's other loops.
- `TxPool`: the checks of a transaction by itself (signature, size, intrinsic gas,
  provider lists), the age at which an account is evicted beyond "old or not", metrics.
  `TxJournal`: writes that are torn.
- `BlockChain`: future blocks, fast sync, `Rollback` and the freezer. Blocks are valid.
- `Fetcher`: hooks and meters; ages are left to chance. `DownloadQueue`: the skeleton of
  headers, the ancestor search, the pivot, the measures of a peer's quality, wake-up hints and
  a peer that registers again.
- The fault injection for tests (`core/fake_block.go`), the other consensus engines and
  the stack of go-ethereum (EVM, tries and state, peer to peer network, light client,
  RPC, accounts): they are most of the repository's lines and not what this engine adds;
  the models meet them as states that exist or not and peers that answer or not.
