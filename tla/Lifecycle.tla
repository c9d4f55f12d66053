------------------------------ MODULE Lifecycle -----------------------------
(***************************************************************************)
(* Starting and stopping the miner and its Tendermint engine: Miner.Start, *)
(* Miner.Stop and Miner.update around the downloader's events, the         *)
(* worker's start and stop, and Backend.Start, tryStartCore and Stop.      *)
(*                                                                         *)
(* A step is a section under Backend.mutex, an access to one of the flags, *)
(* or an operation on controlChan, which is unbuffered: a send in a select *)
(* with a default reaches a goroutine that waits in its own select now, or *)
(* nobody.                                                                 *)
(***************************************************************************)
EXTENDS Naturals, FiniteSets

CONSTANTS
  Callers,  \* goroutines of StartMining and StopMining, one call each
  Update    \* the goroutine of Miner.update

VARIABLES
  pc,           \* where each goroutine is
  canStart, shouldStart,
  running,      \* worker.running
  coreStarted,
  enoughPeers,  \* FindExistingPeers finds MinPeers of them
  sync,         \* the downloader: "no", "started", "over"
  lastCall,     \* the last of the calls of Start and Stop
  stopped       \* the goroutines that have called Stop

flags == <<canStart, shouldStart, running, coreStarted>>
env == <<enoughPeers, sync>>
history == <<lastCall, stopped>>
vars == <<pc, flags, env, history>>

Goroutines == Callers \cup {Update}

Goto(g, l) == pc' = [pc EXCEPT ![g] = l]

Init ==
  /\ pc = [g \in Goroutines |-> IF g = Update THEN "events" ELSE "idle"]
  /\ canStart = TRUE /\ shouldStart = FALSE /\ running = FALSE /\ coreStarted = FALSE
  /\ enoughPeers = FALSE /\ sync = "no"
  /\ lastCall = "none" /\ stopped = {}
-----------------------------------------------------------------------------
(* Miner.Start and what it calls. *)

\* StartMining: only when the miner does not run; then go miner.Start.
StartMining(g) ==
  /\ pc[g] = "idle" /\ ~ running
  /\ Goto(g, "start") /\ lastCall' = "start"
  /\ UNCHANGED <<flags, env, stopped>>

SetShouldStart(g) ==
  /\ pc[g] = "start" /\ shouldStart' = TRUE /\ Goto(g, "check")
  /\ UNCHANGED <<canStart, running, coreStarted, env, history>>

CheckCanStart(g) ==
  /\ pc[g] = "check"
  /\ Goto(g, IF canStart THEN "engine" ELSE "deferred")
  /\ UNCHANGED <<flags, env, history>>

\* Backend.Start up to the unlock: an engine that runs is an error, on which
\* worker.start returns.
EngineStart(g) ==
  /\ pc[g] = "engine"
  /\ Goto(g, IF coreStarted THEN "refused" ELSE "clear")
  /\ UNCHANGED <<flags, env, history>>

\* The goroutines that can receive from controlChan.
Selecting == { h \in Goroutines : pc[h] = "select" }

\* Mutant: the send waits for a receiver.
ClearPreviousWaits(g) ==
  /\ pc[g] = "clear"
  /\ \E h \in Selecting : pc' = [pc EXCEPT ![g] = "loop", ![h] = "interrupted"]
  /\ UNCHANGED <<flags, env, history>>

\* "clear Previous start loop"
ClearPrevious(g) ==
  /\ pc[g] = "clear"
  /\ IF Selecting = {} THEN Goto(g, "loop")
     ELSE \E h \in Selecting : pc' = [pc EXCEPT ![g] = "loop", ![h] = "interrupted"]
  /\ UNCHANGED <<flags, env, history>>

EnterSelect(g) ==
  /\ pc[g] = "loop" /\ Goto(g, "select")
  /\ UNCHANGED <<flags, env, history>>

TickerTick(g) ==
  /\ pc[g] = "select" /\ Goto(g, "try")
  /\ UNCHANGED <<flags, env, history>>

tryStartCore(g) ==
  /\ pc[g] = "try"
  /\ coreStarted' = (coreStarted \/ enoughPeers)
  /\ Goto(g, IF coreStarted' THEN "flag" ELSE "loop")
  /\ UNCHANGED <<canStart, shouldStart, running, env, history>>

\* The rest of worker.start.
SetRunning(g) ==
  /\ pc[g] = "flag" /\ running' = TRUE /\ Goto(g, "done")
  /\ UNCHANGED <<canStart, shouldStart, coreStarted, env, history>>

Start(g) ==
  \/ SetShouldStart(g) \/ CheckCanStart(g) \/ EngineStart(g) \/ ClearPrevious(g)
  \/ EnterSelect(g) \/ TickerTick(g) \/ tryStartCore(g) \/ SetRunning(g)
-----------------------------------------------------------------------------
(* Miner.Stop and what it calls. *)

StopMining(g) ==
  /\ pc[g] = "idle" /\ Goto(g, "stop")
  /\ lastCall' = "stop" /\ stopped' = stopped \cup {g}
  /\ UNCHANGED <<flags, env>>

\* Backend.Stop: a running core is stopped, a start loop is told to end.
EngineStop(g) ==
  /\ pc[g] = "stop"
  /\ coreStarted' = FALSE
  /\ IF coreStarted \/ Selecting = {} THEN Goto(g, "unflag")
     ELSE \E h \in Selecting : pc' = [pc EXCEPT ![g] = "unflag", ![h] = "interrupted"]
  /\ UNCHANGED <<canStart, shouldStart, running, env, history>>

ResetRunning(g) ==
  /\ pc[g] = "unflag" /\ running' = FALSE /\ Goto(g, "unshould")
  /\ UNCHANGED <<canStart, shouldStart, coreStarted, env, history>>

ResetShouldStart(g) ==
  /\ pc[g] = "unshould" /\ shouldStart' = FALSE
  /\ Goto(g, IF g = Update THEN "reshould" ELSE "done")
  /\ UNCHANGED <<canStart, running, coreStarted, env, history>>

Stop(g) == EngineStop(g) \/ ResetRunning(g) \/ ResetShouldStart(g)
-----------------------------------------------------------------------------
(* Miner.update, and the downloader whose events it reads. *)

\* Post waits until update has received the event.
SyncStarts ==
  /\ sync = "no" /\ pc[Update] = "events"
  /\ sync' = "started" /\ Goto(Update, "startEvent")
  /\ UNCHANGED <<flags, enoughPeers, history>>

SyncEnds ==
  /\ sync = "started" /\ pc[Update] = "events"
  /\ sync' = "over" /\ Goto(Update, "doneEvent")
  /\ UNCHANGED <<flags, enoughPeers, history>>

StartEvent ==
  /\ pc[Update] = "startEvent" /\ canStart' = FALSE /\ Goto(Update, "mining")
  /\ UNCHANGED <<shouldStart, running, coreStarted, env, history>>

\* if self.Mining() { self.Stop() ... }
StopForSync ==
  /\ pc[Update] = "mining"
  /\ IF running
     THEN Goto(Update, "stop") /\ lastCall' = "stop" /\ stopped' = stopped \cup {Update}
     ELSE Goto(Update, "events") /\ UNCHANGED history
  /\ UNCHANGED <<flags, env>>

ResumeLater ==
  /\ pc[Update] = "reshould" /\ shouldStart' = TRUE /\ Goto(Update, "events")
  /\ UNCHANGED <<canStart, running, coreStarted, env, history>>

\* DoneEvent or FailedEvent: shouldStart is read ...
DoneEvent ==
  /\ pc[Update] = "doneEvent"
  /\ Goto(Update, IF shouldStart THEN "resume" ELSE "leave")
  /\ UNCHANGED <<flags, env, history>>

\* ... then canStart is set ...
SetCanStart ==
  /\ pc[Update] \in {"resume", "leave"} /\ canStart' = TRUE
  /\ Goto(Update, IF pc[Update] = "resume" THEN "resumeNow" ELSE "leaveNow")
  /\ UNCHANGED <<shouldStart, running, coreStarted, env, history>>

\* ... and shouldStart reset, before Start is called or the loop ends.
EndUpdate ==
  /\ pc[Update] \in {"resumeNow", "leaveNow"} /\ shouldStart' = FALSE
  /\ IF pc[Update] = "resumeNow" THEN Goto(Update, "start") /\ lastCall' = "start"
                                 ELSE Goto(Update, "done") /\ UNCHANGED lastCall
  /\ UNCHANGED <<canStart, running, coreStarted, env, stopped>>

update == StartEvent \/ StopForSync \/ ResumeLater \/ DoneEvent \/ SetCanStart \/ EndUpdate

PeersCome ==
  /\ ~ enoughPeers /\ enoughPeers' = TRUE
  /\ UNCHANGED <<pc, flags, sync, history>>
-----------------------------------------------------------------------------
Next ==
  \/ \E g \in Callers : StartMining(g) \/ StopMining(g)
  \/ \E g \in Goroutines : Start(g) \/ Stop(g)
  \/ update \/ SyncStarts \/ SyncEnds \/ PeersCome

Spec == Init /\ [][Next]_vars

(***************************************************************************)
(* Goroutines run, a sync ends (done or failed) and enough validators are  *)
(* found some day, for which tryStartCore is tried again and again.        *)
(* Nobody has to call Start or Stop and no sync has to begin.              *)
(***************************************************************************)
Fairness ==
  /\ \A g \in Goroutines : WF_vars(Start(g) \/ Stop(g))
  /\ WF_vars(update) /\ WF_vars(SyncEnds) /\ WF_vars(PeersCome)

FairSpec == Spec /\ Fairness
-----------------------------------------------------------------------------
(***************************************************************************)
(* However many starts there are, interrupting each other, one of them     *)
(* starts the core once there are peers, unless somebody stops it          *)
(* (Backend.Start, tryStartCore, controlChan).                             *)
(***************************************************************************)
SomeStartSucceeds ==
  (\E g \in Goroutines : pc[g] = "clear") ~> (coreStarted \/ stopped # {})

(***************************************************************************)
(* The engine of a miner that was stopped for a sync runs again after it,  *)
(* unless a caller stops it (update, shouldStart).                         *)
(***************************************************************************)
ResumesAfterSync == pc[Update] = "reshould" ~> (coreStarted \/ stopped # {Update})

Quiet ==
  \A g \in Goroutines : pc[g] \in {"idle", "deferred", "refused", "interrupted", "done", "events"}
-----------------------------------------------------------------------------
(***************************************************************************)
(* backend.go:474 says that "StopMining terminates the miner, both at the  *)
(* consensus engine level as well as at the block creation level": when    *)
(* the last call was a stop, and all calls have returned, neither runs.    *)
(***************************************************************************)
\* The code does not do this: TLC finds a counterexample.
StopTerminates == Quiet /\ lastCall = "stop" => ~ coreStarted /\ ~ running

(***************************************************************************)
(* miner.go:125 tells a caller who starts the miner during a sync "Network *)
(* syncing, will start miner afterwards".                                  *)
(***************************************************************************)
\* The code does not do this: TLC finds a counterexample.
WillStartAfterwards ==
  \A g \in Callers : pc[g] = "deferred" ~> (coreStarted \/ stopped # {})


(***************************************************************************)
(* backend.go:428 says that "StartMining starts the miner": when the last  *)
(* call was a start, and all calls have returned with the engine running,  *)
(* so does the worker.                                                     *)
(***************************************************************************)
\* The code does not do this: TLC finds a counterexample.
StartStartsMiner == Quiet /\ lastCall = "start" /\ coreStarted => running
=============================================================================
