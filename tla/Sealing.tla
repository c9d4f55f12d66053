------------------------------- MODULE Sealing ------------------------------
(***************************************************************************)
(* How a block gets from the miner to the core and back into the chain:    *)
(* the worker's loops, Seal, the commit channels, Commit with the block    *)
(* fetcher as its fallback, and the chain head events that close the       *)
(* channels and move the core on.  The core is its height and the blocks   *)
(* it commits; at a height all validators commit the same block.           *)
(***************************************************************************)
EXTENDS CommitChannels, Sequences, FiniteSets

CONSTANTS
  Own,            \* the blocks this miner may make
  StaleThreshold, \* age at which clearPending drops a task
  MaxStops        \* bounds how often the core is stopped

ASSUME SealingAssumption ==
  /\ Own \subseteq Blocks /\ Numbers \subseteq Nat \ {0}
  /\ StaleThreshold \in Nat \ {0} /\ MaxStops \in Nat

VARIABLES
  head,          \* number of the chain's head
  decided,       \* the block the validators agree on for a number, or None
  pendingTasks,  \* blocks whose state the worker can write
  task,          \* the block that mainLoop hands to taskLoop, or None
  prev,          \* the last block taskLoop has sealed
  newBlocks,     \* NewBlockEvents under way to the core
  height,        \* the core's block number
  coreStarted,
  starting,      \* the loop of Start runs
  stops,
  resultCh,      \* blocks returned by the goroutines of Seal
  result,        \* the block resultLoop is about to write, or None
  fetcher,       \* blocks enqueued for the chain by the fetcher
  chainHeadCh,   \* numbers of the ChainHeadEvents newWorkLoop has not read
  finals         \* FinalCommittedEvents under way to the core

worker == <<pendingTasks, task, prev, resultCh, result>>
core == <<height, coreStarted, starting, stops>>
events == <<newBlocks, chainHeadCh, finals>>
vars == <<channels, head, decided, worker, core, events, fetcher>>

Later(m, n) == IF m < n THEN n ELSE m

Init ==
  /\ CCInit
  /\ head = 0 /\ decided = [n \in Numbers |-> None]
  /\ pendingTasks = {} /\ task = None /\ prev = None
  /\ newBlocks = {} /\ height = 1 /\ coreStarted = TRUE /\ starting = FALSE /\ stops = 0
  /\ resultCh = <<>> /\ result = None /\ fetcher = {}
  /\ chainHeadCh = <<>> /\ finals = {}
-----------------------------------------------------------------------------
(* The worker. *)

\* commitNewWork builds on the head of now.
commitNewWork ==
  /\ task = None
  /\ \E b \in Own : b.number = head + 1 /\ task' = b
  /\ UNCHANGED <<channels, head, decided, pendingTasks, prev, resultCh, result, core, events, fetcher>>

\* taskLoop and Seal: the task is registered before the core gets the block.
\* Seal may fail before, if this node is not a validator of the height.
Seal ==
  /\ task # None /\ task # prev
  /\ pendingTasks' = pendingTasks \cup {task} /\ prev' = task /\ task' = None
  /\ \/ /\ createCommitChannelAndCloseIfExist(task.number)
        /\ newBlocks' = newBlocks \cup {task}
     \/ UNCHANGED <<channels, newBlocks>>
  /\ UNCHANGED <<head, decided, resultCh, result, core, chainHeadCh, finals, fetcher>>

SkipTask ==
  /\ task # None /\ task = prev /\ task' = None
  /\ UNCHANGED <<channels, head, decided, pendingTasks, prev, resultCh, result, core, events, fetcher>>

\* The goroutine of Seal; the last step sends the block to resultCh.
SealWaiter ==
  \E c \in Channels :
    /\ \/ (ReadBlock(c) \/ CloseAfterRead(c) \/ EndWait(c)) /\ UNCHANGED resultCh
       \/ Returned(c) /\ resultCh' = Append(resultCh, buffer[c])
    /\ UNCHANGED <<head, decided, pendingTasks, task, prev, result, core, events, fetcher>>

\* resultLoop drops a block the chain has, and one without a task.
TakeResult ==
  /\ resultCh # <<>> /\ result = None
  /\ resultCh' = Tail(resultCh)
  /\ LET b == Head(resultCh)
     IN  result' = IF b.number > head /\ b \in pendingTasks THEN b ELSE None
  /\ UNCHANGED <<channels, head, decided, pendingTasks, task, prev, core, events, fetcher>>

\* Another goroutine may have inserted the block since: then it is written
\* again, and may become the head again.
WriteBlockWithState ==
  /\ result # None /\ result' = None
  /\ head' = Later(head, result.number)
  /\ \/ chainHeadCh' = Append(chainHeadCh, result.number)
     \/ head >= result.number /\ UNCHANGED chainHeadCh
  /\ UNCHANGED <<channels, decided, pendingTasks, task, prev, resultCh, core, newBlocks, finals, fetcher>>

Stale(n) == { b \in pendingTasks : b.number + StaleThreshold <= n }

\* newWorkLoop: HandleNewChainHead with the number of the head of now, and
\* clearPending with that of the event.
HandleNewChainHead ==
  /\ chainHeadCh # <<>> /\ chainHeadCh' = Tail(chainHeadCh)
  /\ pendingTasks' = pendingTasks \ Stale(Head(chainHeadCh))
  /\ LET n == Later(Head(chainHeadCh), head)
     IN  IF coreStarted
         THEN /\ closeAndRemoveCommitChannel(n) /\ UNCHANGED waiter
              /\ finals' = finals \cup {n}
         ELSE UNCHANGED <<channels, finals>>
  /\ UNCHANGED <<head, decided, task, prev, resultCh, result, core, newBlocks, fetcher>>
-----------------------------------------------------------------------------
(* The core, as far as the backend sees it. *)

\* VerifyProposalBlock: the proposal of another validator becomes a task.
VerifyAndSubmitPendingBlock(b) ==
  /\ coreStarted /\ height = head + 1 /\ b.number = height /\ b \notin Own
  /\ b \notin pendingTasks
  /\ pendingTasks' = pendingTasks \cup {b}
  /\ UNCHANGED <<channels, head, decided, task, prev, resultCh, result, core, events, fetcher>>

\* handleNewBlock cancels a block that comes too late; a core that is stopped
\* does not get it.
handleNewBlock(b) ==
  /\ b \in newBlocks /\ newBlocks' = newBlocks \ {b}
  /\ IF coreStarted /\ height > b.number
     THEN closeAndRemoveCommitChannel(b.number) /\ UNCHANGED waiter
     ELSE UNCHANGED channels
  /\ UNCHANGED <<head, decided, worker, core, chainHeadCh, finals, fetcher>>

\* Mutant: without a channel the block is forgotten.
CommitOrForget(b) ==
  /\ IF chs[b.number] # 0 THEN sendBlock(b) ELSE UNCHANGED channels
  /\ UNCHANGED fetcher

\* Without a channel the block is left to the fetcher.
Commit(b) ==
  IF chs[b.number] # 0 THEN sendBlock(b) /\ UNCHANGED fetcher
  ELSE fetcher' = fetcher \cup {b} /\ UNCHANGED channels

\* The core commits a block that it has proposed or verified; possibly again.
finalizeCommit(b) ==
  /\ coreStarted /\ height = b.number /\ b \in pendingTasks
  /\ decided[b.number] \in {None, b}
  /\ decided' = [decided EXCEPT ![b.number] = b]
  /\ Commit(b)
  /\ UNCHANGED <<head, worker, core, events>>

handleFinalCommitted(n) ==
  /\ n \in finals /\ finals' = finals \ {n}
  /\ height' = IF coreStarted /\ height <= n THEN head + 1 ELSE height
  /\ UNCHANGED <<channels, head, decided, worker, coreStarted, starting, stops, newBlocks, chainHeadCh, fetcher>>

StopCore ==
  /\ coreStarted /\ stops < MaxStops
  /\ coreStarted' = FALSE /\ stops' = stops + 1
  /\ UNCHANGED <<channels, head, decided, worker, height, starting, events, fetcher>>

\* Start closes the channels, and its loop starts the core later.
Start ==
  /\ ~ coreStarted /\ ~ starting /\ starting' = TRUE
  /\ closeAndRemoveAllChannels
  /\ UNCHANGED <<head, decided, worker, height, coreStarted, stops, events, fetcher>>

\* Mutant: the core goes on at the height where it was stopped.
tryStartCoreAgain ==
  /\ starting /\ starting' = FALSE /\ coreStarted' = TRUE
  /\ UNCHANGED <<channels, head, decided, worker, height, stops, events, fetcher>>

tryStartCore ==
  /\ starting /\ starting' = FALSE /\ coreStarted' = TRUE /\ height' = head + 1
  /\ UNCHANGED <<channels, head, decided, worker, stops, events, fetcher>>
-----------------------------------------------------------------------------
(* The chain grows by the fetcher and by what other validators have agreed on. *)

FetcherInserts(b) ==
  /\ b \in fetcher /\ fetcher' = fetcher \ {b}
  /\ IF b.number = head + 1
     THEN head' = b.number /\ chainHeadCh' = Append(chainHeadCh, b.number)
     ELSE UNCHANGED <<head, chainHeadCh>>
  /\ UNCHANGED <<channels, decided, worker, core, newBlocks, finals>>

BlockArrives(b) ==
  /\ b.number = head + 1 /\ decided[b.number] \in {None, b} /\ b \notin fetcher
  /\ decided' = [decided EXCEPT ![b.number] = b]
  /\ fetcher' = fetcher \cup {b}
  /\ UNCHANGED <<channels, head, worker, core, events>>

Steps ==
  \/ SealWaiter \/ TakeResult \/ WriteBlockWithState
  \/ HandleNewChainHead \/ Start \/ tryStartCore
  \/ \E b \in Blocks : handleNewBlock(b)
  \/ \E n \in Numbers : handleFinalCommitted(n)

Next ==
  \/ Steps \/ commitNewWork \/ Seal \/ SkipTask \/ StopCore
  \/ \E b \in Blocks : VerifyAndSubmitPendingBlock(b) \/ finalizeCommit(b)
                       \/ BlockArrives(b) \/ FetcherInserts(b)

Spec == Init /\ [][Next]_vars

(***************************************************************************)
(* The goroutines of Seal, the loops and the core go on, the fetcher       *)
(* inserts what it is given and a stopped core is started again.  No block *)
(* has to be made, sealed, verified or committed, and none has to come     *)
(* from elsewhere.                                                         *)
(***************************************************************************)
FairSpec == Spec /\ WF_vars(Steps) /\ \A b \in Blocks : WF_vars(FetcherInserts(b))
-----------------------------------------------------------------------------
TypeOK ==
  /\ CCTypeOK
  /\ head \in Numbers \cup {0} /\ decided \in [Numbers -> Blocks \cup {None}]
  /\ pendingTasks \subseteq Blocks /\ fetcher \subseteq Blocks /\ newBlocks \subseteq Blocks
  /\ {task, prev, result} \subseteq Blocks \cup {None} /\ resultCh \in Seq(Blocks)
  /\ height \in 1 .. Cardinality(Numbers) + 1 /\ {coreStarted, starting} \subseteq BOOLEAN
  /\ chainHeadCh \in Seq(Numbers) /\ finals \subseteq Numbers

(***************************************************************************)
(* A block that the core hands to Commit gets into the chain, although its *)
(* channel may be closed by a new seal, by Start, by the reader of an      *)
(* older channel, or never have existed (Commit, Seal, resultLoop).        *)
(***************************************************************************)
CommittedIsWritten == \A n \in Numbers : (decided[n] # None) ~> (head >= n)

(***************************************************************************)
(* The core gets past every height of the chain: an event of a new head    *)
(* that is lost because the core is stopped, or stopped and started, is    *)
(* made up for (HandleNewChainHead, handleFinalCommitted, Start).          *)
(***************************************************************************)
CoreFollowsChain == \A n \in Numbers : (head >= n) ~> (height > n)
=============================================================================
