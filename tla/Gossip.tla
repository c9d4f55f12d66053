------------------------------- MODULE Gossip -------------------------------
(***************************************************************************)
(* The broadcast of a consensus message (Gossip): a task sends the payload *)
(* to the other validators, again and again until enough of them have it,  *)
(* the height is final or the core is stopped.  A goroutine of the task    *)
(* listens to FinalCommittedEvent and StopCoreEvent on the event mux, and  *)
(* a post is delivered to one subscription after the other.                *)
(***************************************************************************)
EXTENDS ValidatorSet, FiniteSets

CONSTANTS
  Tasks,     \* broadcasts
  Peers,     \* the other validators
  NumberOf,  \* block number of a task
  MaxNumber, \* bounds the final blocks
  MaxSends   \* bounds how often a task sends to a peer

VARIABLES
  task,       \* where the goroutine of a task is
  monitor,    \* where the goroutine is that listens for it
  abort,      \* tasks whose abort channel is closed
  finalSub,   \* the subscriptions of a task: none, open or closed
  stopSub,
  targets,    \* validators that a task has not reached
  inFlight,   \* peers to which it is sending
  successSent,
  got,        \* how often a peer has got the message of a task
  sends,
  finals,     \* last block whose FinalCommittedEvent was posted
  stopped,    \* StopCoreEvent was posted
  posts       \* deliveries of posts to subscriptions that are still due

subs == <<finalSub, stopSub>>
sending == <<targets, inFlight, successSent, got, sends>>
vars == <<task, monitor, abort, subs, sending, finals, stopped, posts>>

Init ==
  /\ task = [t \in Tasks |-> "spawned"] /\ monitor = [t \in Tasks |-> "none"] /\ abort = {}
  /\ finalSub = [t \in Tasks |-> "none"] /\ stopSub = [t \in Tasks |-> "none"]
  /\ targets = [t \in Tasks |-> Peers] /\ inFlight = [t \in Tasks |-> {}]
  /\ successSent = [t \in Tasks |-> 0] /\ got = [t \in Tasks |-> [p \in Peers |-> 0]]
  /\ sends = [t \in Tasks |-> [p \in Peers |-> 0]]
  /\ finals = 0 /\ stopped = FALSE /\ posts = {}
-----------------------------------------------------------------------------
(* The events, posted by HandleNewChainHead and by Stop. *)

Final(t, n) == [task |-> t, number |-> n]

StopEvent(t) == [task |-> t, number |-> 0]

PostFinal ==
  /\ finals < MaxNumber /\ finals' = finals + 1
  /\ posts' = posts \cup { Final(t, finals + 1) : t \in { u \in Tasks : finalSub[u] = "open" } }
  /\ UNCHANGED <<task, monitor, abort, subs, sending, stopped>>

PostStop ==
  /\ ~ stopped /\ stopped' = TRUE
  /\ posts' = posts \cup { StopEvent(t) : t \in { u \in Tasks : stopSub[u] = "open" } }
  /\ UNCHANGED <<task, monitor, abort, subs, sending, finals>>

SubOf(e) == IF e.number = 0 THEN stopSub[e.task] ELSE finalSub[e.task]

EndsTask(e) == e.number = 0 \/ e.number >= NumberOf[e.task]

\* A delivery ends when the listener takes the event, or with the subscription.
Deliver(e) ==
  /\ e \in posts /\ posts' = posts \ {e}
  /\ \/ SubOf(e) = "closed" /\ UNCHANGED <<monitor, abort>>
     \/ /\ SubOf(e) = "open" /\ monitor[e.task] = "listening"
        /\ IF EndsTask(e)
           THEN monitor' = [monitor EXCEPT ![e.task] = "gone"] /\ abort' = abort \cup {e.task}
           ELSE UNCHANGED <<monitor, abort>>
  /\ UNCHANGED <<task, subs, sending, finals, stopped>>

\* The listener ends with the subscriptions.
MonitorEnds(t) ==
  /\ monitor[t] = "listening" /\ "closed" \in {finalSub[t], stopSub[t]}
  /\ monitor' = [monitor EXCEPT ![t] = "gone"]
  /\ abort' = IF stopSub[t] = "closed" THEN abort \cup {t} ELSE abort
  /\ UNCHANGED <<task, subs, sending, finals, stopped, posts>>
-----------------------------------------------------------------------------
(* gossip *)

\* The subscriptions are made by the new goroutine.
Subscribe(t) ==
  /\ task[t] = "spawned" /\ task' = [task EXCEPT ![t] = "finding"]
  /\ finalSub' = [finalSub EXCEPT ![t] = "open"] /\ stopSub' = [stopSub EXCEPT ![t] = "open"]
  /\ monitor' = [monitor EXCEPT ![t] = "listening"]
  /\ UNCHANGED <<abort, sending, finals, stopped, posts>>

\* FindPeers returns the targets that are connected now.
FindPeers(t) ==
  /\ task[t] = "finding" /\ task' = [task EXCEPT ![t] = "sending"]
  /\ \E ps \in SUBSET { p \in targets[t] : sends[t][p] < MaxSends } :
       /\ inFlight' = [inFlight EXCEPT ![t] = ps]
       /\ sends' = [sends EXCEPT ![t] = [p \in Peers |-> IF p \in ps THEN @[p] + 1 ELSE @[p]]]
  /\ UNCHANGED <<monitor, abort, subs, targets, successSent, got, finals, stopped, posts>>

Sent(t, p) ==
  /\ got' = [got EXCEPT ![t][p] = @ + 1] /\ successSent' = [successSent EXCEPT ![t] = @ + 1]
  /\ targets' = [targets EXCEPT ![t] = @ \ {p}]

\* The send to a peer succeeds or fails; it may still run when the task is over.
Send(t, p) ==
  /\ p \in inFlight[t] /\ inFlight' = [inFlight EXCEPT ![t] = @ \ {p}]
  /\ Sent(t, p) \/ UNCHANGED <<got, successSent, targets>>
  /\ UNCHANGED <<task, monitor, abort, subs, sends, finals, stopped, posts>>

Enough(t) == successSent[t] >= MinPeers(Cardinality(Peers) + 1)

\* All sends of the round have ended.
RoundDone(t) ==
  /\ task[t] = "sending" /\ inFlight[t] = {}
  /\ task' = [task EXCEPT ![t] = IF Enough(t) THEN "returning" ELSE "sleeping"]
  /\ UNCHANGED <<monitor, abort, subs, sending, finals, stopped, posts>>

Sleep(t) ==
  /\ task[t] = "sleeping" /\ task' = [task EXCEPT ![t] = "finding"]
  /\ UNCHANGED <<monitor, abort, subs, sending, finals, stopped, posts>>

Abort(t) ==
  /\ task[t] \in {"sending", "sleeping"} /\ t \in abort
  /\ task' = [task EXCEPT ![t] = "returning"]
  /\ UNCHANGED <<monitor, abort, subs, sending, finals, stopped, posts>>

\* Mutant: only the first subscription is given up.
UnsubscribeFinalOnly(t) ==
  /\ task[t] = "returning" /\ finalSub[t] = "open"
  /\ finalSub' = [finalSub EXCEPT ![t] = "closed"] /\ task' = [task EXCEPT ![t] = "done"]
  /\ UNCHANGED <<stopSub, monitor, abort, sending, finals, stopped, posts>>

\* The deferred calls, one after the other.
Unsubscribe(t) ==
  /\ task[t] = "returning"
  /\ \/ /\ finalSub[t] = "open" /\ finalSub' = [finalSub EXCEPT ![t] = "closed"]
        /\ UNCHANGED <<stopSub, task>>
     \/ /\ finalSub[t] = "closed" /\ stopSub' = [stopSub EXCEPT ![t] = "closed"]
        /\ task' = [task EXCEPT ![t] = "done"] /\ UNCHANGED finalSub
  /\ UNCHANGED <<monitor, abort, sending, finals, stopped, posts>>

Step(t) ==
  \/ Subscribe(t) \/ FindPeers(t) \/ RoundDone(t) \/ Sleep(t) \/ Abort(t)
  \/ Unsubscribe(t) \/ MonitorEnds(t) \/ \E p \in Peers : Send(t, p)

Next ==
  \/ PostFinal \/ PostStop \/ \E e \in posts : Deliver(e)
  \/ \E t \in Tasks : Step(t)

Spec == Init /\ [][Next]_vars

(***************************************************************************)
(* The goroutines go on and each send ends, though it need not succeed; a  *)
(* goroutine that can always go on at one of its selects does so.          *)
(***************************************************************************)
FairSpec ==
  /\ Spec
  /\ \A t \in Tasks : WF_vars(Step(t)) /\ SF_vars(Abort(t))
                      /\ WF_vars(\E e \in posts : e.task = t /\ Deliver(e))
-----------------------------------------------------------------------------
(***************************************************************************)
(* A validator that has got the message of a task never gets it again,     *)
(* though the task goes on sending to the others and its sends may fail    *)
(* (gossip deletes a target only after its send).                          *)
(***************************************************************************)
SentOnce == \A t \in Tasks, p \in Peers : got[t][p] <= 1

(***************************************************************************)
(* A task that listens when its height, or a later one, becomes final is   *)
(* over soon, however many peers it has still to reach (gossip).           *)
(***************************************************************************)
FinalEndsTask ==
  \A t \in Tasks : (\E e \in posts : e.task = t /\ e.number >= NumberOf[t]) ~> (task[t] = "done")

(***************************************************************************)
(* No post is held up for good by a task: not by one that no longer        *)
(* listens, nor by one that is about to return (deliver, gossip).          *)
(***************************************************************************)
PostsAreDelivered == []<>(posts = {})

(***************************************************************************)
(* "close abort go routine if new block or core.abort()" (gossip): a task  *)
(* ends when the core is stopped.                                          *)
(***************************************************************************)
\* The code does not do this: TLC finds a counterexample.
StopEndsTasks == \A t \in Tasks : stopped ~> (task[t] = "done")
-----------------------------------------------------------------------------
(***************************************************************************)
(* Why a validator gets a message once: a target has not got it, and a     *)
(* task sends to its targets only.  Inductive.                             *)
(***************************************************************************)
TargetsInv ==
  /\ targets \in [Tasks -> SUBSET Peers] /\ inFlight \in [Tasks -> SUBSET Peers]
  /\ got \in [Tasks -> [Peers -> Nat]]
  /\ \A t \in Tasks : inFlight[t] \subseteq targets[t]
  /\ \A t \in Tasks, p \in Peers : got[t][p] <= 1 /\ (p \in targets[t] => got[t][p] = 0)
=============================================================================
