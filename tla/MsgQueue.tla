------------------------------ MODULE MsgQueue ------------------------------
(***************************************************************************)
(* The way of consensus messages from the peers to the core: HandleMsg     *)
(* stores them in a queue, and dequeueMsgLoop replays them to the core     *)
(* while it runs, posting each to the core's subscription.  A replay holds *)
(* the backend's mutex for reading, Start and Stop hold it for writing.    *)
(*                                                                         *)
(* Each message has its own call of HandleMsg.  The queue's operations are *)
(* atomic, those of HandleMsg and of a replay together are not.            *)
(***************************************************************************)
EXTENDS Naturals, Sequences, FiniteSets, Functions

CONSTANTS
  Msgs,               \* messages that peers send, numbered as their calls begin
  None,               \* no message
  maxNumberMessages,  \* limit of the queue
  maxTrigger,         \* capacity of dequeueMsgTriggering
  MaxCalls,           \* calls of HandleMsg that run at the same time
  MaxStarts           \* bounds the starts of the core

VARIABLES
  storingMsgs,
  caller,       \* where the call of HandleMsg for a message is
  toFree,       \* how many messages that call still has to free
  triggers,     \* goroutines that send to dequeueMsgTriggering
  dequeueMsgTriggering,  \* how many signals are in it
  loop,         \* where dequeueMsgLoop is
  stored,       \* the message it replays, or None
  coreStarted,
  stop,         \* a call of Stop waits for the core's handler
  starts,
  subscribed,   \* the core's subscription is open
  handling,     \* the message the core handles, or None
  handled,      \* the messages it has handled
  arrived,      \* the messages in the order in which they were stored
  lost          \* messages that a replay took off the queue unsent

queue == <<storingMsgs, caller, toFree, arrived>>
trigger == <<triggers, dequeueMsgTriggering>>
core == <<coreStarted, stop, starts, subscribed>>
vars == <<queue, trigger, loop, stored, core, handling, handled, lost>>

Init ==
  /\ storingMsgs = <<>> /\ caller = [m \in Msgs |-> "called"] /\ toFree = [m \in Msgs |-> 0]
  /\ arrived = <<>> /\ triggers = 0 /\ dequeueMsgTriggering = 0
  /\ loop = "waiting" /\ stored = None
  /\ coreStarted = FALSE /\ stop = FALSE /\ starts = 0 /\ subscribed = FALSE
  /\ handling = None /\ handled = <<>> /\ lost = {}

\* The loop holds the mutex for reading, a call of Stop for writing.
Reading == loop \in {"posting", "dequeuing"}

Writing == stop
-----------------------------------------------------------------------------
(* HandleMsg *)

\* Mutant: room is made only when the queue is well over its limit.
OverLimitTwice == IF Len(storingMsgs) > 2 * maxNumberMessages THEN Len(storingMsgs) - maxNumberMessages ELSE 0

\* How many messages are to be freed.
OverLimit == IF Len(storingMsgs) >= maxNumberMessages THEN Len(storingMsgs) - maxNumberMessages ELSE 0

Freeing == { m \in Msgs : caller[m] = "freeing" }

HandleMsg(m) ==
  /\ caller[m] = "called" /\ (\A n \in Msgs : n < m => caller[n] # "called")
  /\ Cardinality(Freeing) < MaxCalls
  /\ caller' = [caller EXCEPT ![m] = "freeing"]
  /\ toFree' = [toFree EXCEPT ![m] = OverLimit]
  /\ UNCHANGED <<storingMsgs, arrived, trigger, loop, stored, core, handling, handled, lost>>

\* An empty queue, drained since it was measured, is an error.
FreeSlot(m) ==
  /\ caller[m] = "freeing" /\ toFree[m] > 0
  /\ IF storingMsgs = <<>> THEN caller' = [caller EXCEPT ![m] = "failed"] /\ UNCHANGED <<storingMsgs, toFree>>
     ELSE /\ storingMsgs' = Tail(storingMsgs)
          /\ toFree' = [toFree EXCEPT ![m] = @ - 1] /\ UNCHANGED caller
  /\ UNCHANGED <<arrived, trigger, loop, stored, core, handling, handled, lost>>

Enqueue(m) ==
  /\ caller[m] = "freeing" /\ toFree[m] = 0
  /\ caller' = [caller EXCEPT ![m] = "done"]
  /\ storingMsgs' = Append(storingMsgs, m) /\ arrived' = Append(arrived, m)
  /\ triggers' = triggers + 1
  /\ UNCHANGED <<toFree, dequeueMsgTriggering, loop, stored, core, handling, handled, lost>>

SendTrigger ==
  /\ triggers > 0 /\ dequeueMsgTriggering < maxTrigger
  /\ triggers' = triggers - 1 /\ dequeueMsgTriggering' = dequeueMsgTriggering + 1
  /\ UNCHANGED <<queue, loop, stored, core, handling, handled, lost>>
-----------------------------------------------------------------------------
(* dequeueMsgLoop *)

ReceiveTrigger ==
  /\ loop = "waiting" /\ dequeueMsgTriggering > 0
  /\ dequeueMsgTriggering' = dequeueMsgTriggering - 1 /\ loop' = "replaying"
  /\ UNCHANGED <<queue, triggers, stored, core, handling, handled, lost>>

\* replayTendermintMsg up to the post.
GetFirst ==
  /\ loop = "replaying" /\ ~ Writing
  /\ IF coreStarted /\ storingMsgs # <<>>
     THEN loop' = "posting" /\ stored' = Head(storingMsgs)
     ELSE loop' = "waiting" /\ UNCHANGED stored
  /\ UNCHANGED <<queue, trigger, core, handling, handled, lost>>

\* Post returns when the core has the message.  A Stop that would close the
\* subscription under it waits for the read lock.
sendDataToCore ==
  /\ loop = "posting" /\ loop' = "dequeuing"
  /\ subscribed /\ handling = None /\ handling' = stored
  /\ UNCHANGED <<queue, trigger, stored, core, handled, lost>>

\* The first message is dequeued, whichever it is by now.
Dequeue ==
  /\ loop = "dequeuing" /\ loop' = "replaying" /\ stored' = None
  /\ IF storingMsgs = <<>> THEN UNCHANGED <<storingMsgs, lost>>
     ELSE /\ storingMsgs' = Tail(storingMsgs)
          /\ lost' = lost \cup ({Head(storingMsgs)} \ {stored})
  /\ UNCHANGED <<caller, toFree, arrived, trigger, core, handling, handled>>
-----------------------------------------------------------------------------
(* The core, with Start and Stop of the backend *)

Handle ==
  /\ handling # None /\ handling' = None /\ handled' = Append(handled, handling)
  /\ UNCHANGED <<queue, trigger, loop, stored, core, lost>>

\* Mutant: the loop is not triggered.
tryStartCoreOnly ==
  /\ ~ coreStarted /\ ~ Reading /\ starts < MaxStarts
  /\ coreStarted' = TRUE /\ subscribed' = TRUE /\ starts' = starts + 1
  /\ UNCHANGED <<queue, trigger, loop, stored, stop, handling, handled, lost>>

tryStartCore ==
  /\ ~ coreStarted /\ ~ Reading /\ starts < MaxStarts
  /\ coreStarted' = TRUE /\ subscribed' = TRUE /\ starts' = starts + 1
  /\ triggers' = triggers + 1
  /\ UNCHANGED <<queue, dequeueMsgTriggering, loop, stored, stop, handling, handled, lost>>

\* Stop takes the mutex and closes the core's subscription; the last core of
\* a run is not stopped.
Stop ==
  /\ coreStarted /\ ~ stop /\ ~ Reading /\ starts < MaxStarts
  /\ stop' = TRUE /\ subscribed' = FALSE
  /\ UNCHANGED <<queue, trigger, loop, stored, coreStarted, starts, handling, handled, lost>>

\* The handler has ended.
Stopped ==
  /\ stop /\ handling = None /\ stop' = FALSE /\ coreStarted' = FALSE
  /\ UNCHANGED <<queue, trigger, loop, stored, starts, subscribed, handling, handled, lost>>

Steps ==
  \/ \E m \in Msgs : FreeSlot(m) \/ Enqueue(m)
  \/ SendTrigger \/ ReceiveTrigger \/ GetFirst \/ sendDataToCore \/ Dequeue
  \/ Handle \/ tryStartCore \/ Stopped

Next == Steps \/ Stop \/ \E m \in Msgs : HandleMsg(m)

Spec == Init /\ [][Next]_vars

(***************************************************************************)
(* Calls and goroutines go on, and a core that is stopped is started       *)
(* again.  No message has to arrive.                                       *)
(***************************************************************************)
FairSpec == Spec /\ WF_vars(Steps)
-----------------------------------------------------------------------------
TypeOK ==
  /\ storingMsgs \in Seq(Msgs) /\ toFree \in [Msgs -> Nat]
  /\ caller \in [Msgs -> {"called", "freeing", "failed", "done"}]
  /\ triggers \in Nat /\ dequeueMsgTriggering \in 0 .. maxTrigger
  /\ loop \in {"waiting", "replaying", "posting", "dequeuing"}
  /\ {stored, handling} \subseteq Msgs \cup {None} /\ {coreStarted, stop, subscribed} \subseteq BOOLEAN
  /\ (Reading => ~ Writing)

(***************************************************************************)
(* The queue grows past its limit by at most one message for each call of  *)
(* HandleMsg that runs at the same time (HandleMsg measures, frees and     *)
(* stores in separate steps).                                              *)
(***************************************************************************)
QueueNearLimit == Len(storingMsgs) <= maxNumberMessages + MaxCalls

(***************************************************************************)
(* The core handles messages in the order in which HandleMsg stored them   *)
(* and none twice, over stops, restarts and freed slots                    *)
(* (replayTendermintMsg takes a message off only after it was sent).       *)
(***************************************************************************)
InOrderOnce ==
  \A i, j \in DOMAIN handled :
    i < j => \E k, l \in DOMAIN arrived :
               k < l /\ arrived[k] = handled[i] /\ arrived[l] = handled[j]

(***************************************************************************)
(* While the queue is below its limit, every message that is stored gets   *)
(* handled, although the core is stopped in between: a stop never loses    *)
(* the message that is being replayed, and a start replays what waits.     *)
(***************************************************************************)
StoredIsHandled == []<>(\A m \in Msgs : caller[m] = "done" => m \in Range(handled))

(***************************************************************************)
(* "Dequeue if storingMsg reached max ... Free a slot for new message"     *)
(* (HandleMsg): the queue stays within its limit.                          *)
(***************************************************************************)
\* The code does not do this: TLC finds a counterexample.
QueueWithinLimit == Len(storingMsgs) <= maxNumberMessages

(***************************************************************************)
(* "replay message one by one to core until there is no more message"      *)
(* (dequeueMsgLoop): a replay takes no message off the queue but the one   *)
(* that it has sent.                                                       *)
(***************************************************************************)
\* The code does not do this: TLC finds a counterexample.
ReplayedOneByOne == lost = {}
-----------------------------------------------------------------------------
(* Why messages are handled in order, and why the queue stays near its limit. *)

QueueAssumption ==
  /\ None \notin Msgs /\ IsFiniteSet(Msgs) /\ maxNumberMessages \in Nat /\ MaxCalls \in Nat

\* The messages handed to the core.
Given == IF handling = None THEN handled ELSE Append(handled, handling)

\* How many of the messages that were stored are off the queue.
Gone == Len(arrived) - Len(storingMsgs)

\* The queue q is what is left of the messages a that were stored.
IsRest(q, a) ==
  /\ q \in Seq(Msgs) /\ a \in Seq(Msgs) /\ Len(q) <= Len(a)
  /\ \A i \in 1 .. Len(q) : q[i] = a[(Len(a) - Len(q)) + i]

\* The messages g are among the first n of a.
Among(a, n, g) == \A i \in DOMAIN g : \E k \in 1 .. Len(a) : k <= n /\ a[k] = g[i]

InOrder(a, g) ==
  \A i, j \in DOMAIN g : i < j =>
    \E k, l \in 1 .. Len(a) : k < l /\ a[k] = g[i] /\ a[l] = g[j]

\* The message m of a replay was at the head of the queue, after all that were given
\* before, when n were gone.
Follows(a, n, g, m) ==
  \E k \in 1 .. Len(a) : k <= n + 1 /\ a[k] = m /\ Among(a, k - 1, g)

(***************************************************************************)
(* What the core was given comes in the order of arrival, and before all   *)
(* that waits but for the message of a replay, which is the first one in   *)
(* the queue or was freed meanwhile: inductive.                            *)
(***************************************************************************)
OrderInv ==
  /\ IsRest(storingMsgs, arrived) /\ InOrder(arrived, Given) /\ handled \in Seq(Msgs)
  /\ handling \in Msgs \cup {None} /\ loop \in {"waiting", "replaying", "posting", "dequeuing"}
  /\ loop = "posting" => stored \in Msgs /\ Follows(arrived, Gone, Given, stored)
  /\ loop = "dequeuing" => Among(arrived, Gone + 1, Given)
  /\ loop \in {"waiting", "replaying"} => Among(arrived, Gone, Given)

\* Calls that have freed what they had to and will store their message.
Storing == { m \in Msgs : caller[m] = "freeing" /\ toFree[m] = 0 }

(***************************************************************************)
(* The queue and the messages about to be stored are within the bound, as  *)
(* a call that finds the queue above its limit first frees all above it:   *)
(* inductive.                                                              *)
(***************************************************************************)
LimitInv ==
  /\ storingMsgs \in Seq(Msgs) /\ toFree \in [Msgs -> Nat]
  /\ caller \in [Msgs -> {"called", "freeing", "failed", "done"}]
  /\ Cardinality(Freeing) <= MaxCalls
  /\ Len(storingMsgs) + Cardinality(Storing) <= maxNumberMessages + MaxCalls
=============================================================================
