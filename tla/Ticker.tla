------------------------------- MODULE Ticker -------------------------------
(***************************************************************************)
(* The timeout ticker of a core with its channels, and how it ends with    *)
(* the core: timeoutRoutine, the goroutines that hand a timeout to         *)
(* handleEvents, handleEvents itself, core.Start and core.Stop.            *)
(*                                                                         *)
(* A timeout is a number, in the order of earlierOrEqual; 0 is the         *)
(* timeoutInfo a routine begins with.  A core schedules later and later    *)
(* timeouts, and the last one again when it is started.                    *)
(***************************************************************************)
EXTENDS Naturals, Sequences, Functions

CONSTANTS
  TickTockBufferSize,  \* of tickChan and tockChan
  MaxStarts,           \* bounds how often the core is started
  MaxEvents,           \* bounds the events posted to the core
  MaxSchedules,        \* bounds the timeouts scheduled for one event
  MaxTimeout           \* bounds the timeouts scheduled in all

VARIABLES
  ctl,       \* where the caller of core.Start and core.Stop is
  starts,    \* how often the core was started
  routine,   \* timeoutRoutine runs
  timer,     \* "off", "armed", or "fired": a value waits in timer.C
  ti,        \* the last timeout accepted by the routine
  tickChan,
  senders,   \* timeouts of the goroutines that send to tockChan
  tockChan,
  tockOpen,  \* tockChan is not closed
  handler,   \* where the handleEvents goroutine of each start is
  todo,      \* timeouts the running handler has still to schedule
  events,    \* events posted so far
  last,      \* the last timeout scheduled
  got        \* the latest timeout received by handleEvents since the start

ticker == <<routine, timer, ti, tickChan, senders, tockChan, tockOpen>>
vars == <<ctl, starts, ticker, handler, todo, events, last, got>>

Starts == 1 .. MaxStarts

Init ==
  /\ ctl = "stopped" /\ starts = 0
  /\ routine = FALSE /\ timer = "off" /\ ti = 0
  /\ tickChan = <<>> /\ senders = <<>> /\ tockChan = <<>> /\ tockOpen = FALSE
  /\ handler = [s \in Starts |-> "none"] /\ todo = 0
  /\ events = 0 /\ last = 0 /\ got = 0
-----------------------------------------------------------------------------
(* core.Start and core.Stop, called by the backend one at a time. *)

\* subscribeEvents and timeout.Start.
Start ==
  /\ ctl = "stopped" /\ starts < MaxStarts
  /\ ctl' = "starting" /\ starts' = starts + 1
  /\ tockChan' = <<>> /\ tockOpen' = TRUE
  /\ routine' = TRUE /\ ti' = 0 /\ got' = 0
  /\ UNCHANGED <<timer, tickChan, senders, handler, todo, events, last>>

\* ScheduleTimeout blocks while tickChan is full.
HasRoom(ch) == Len(ch) < TickTockBufferSize

\* startNewRound schedules the timeout of the step the core is at, or of a
\* new height; then go handleEvents().
startNewRound ==
  /\ ctl = "starting" /\ HasRoom(tickChan)
  /\ \E t \in {last, last + 1} \ {0} :
       /\ t <= MaxTimeout
       /\ tickChan' = Append(tickChan, t) /\ last' = t
  /\ handler' = [handler EXCEPT ![starts] = "spawned"]
  /\ ctl' = "started"
  /\ UNCHANGED <<starts, routine, timer, ti, senders, tockChan, tockOpen, todo, events, got>>

\* timeout.Stop: running = false and stopTimer, then it waits at Quit.
StopTimer ==
  /\ ctl = "started" /\ ctl' = "quitting" /\ timer' = "off"
  /\ UNCHANGED <<starts, routine, ti, tickChan, senders, tockChan, tockOpen, handler, todo, events, last, got>>

\* The routine takes Quit, closes abort and returns.
Quit ==
  /\ ctl = "quitting" /\ routine
  /\ ctl' = "waiting" /\ routine' = FALSE
  /\ UNCHANGED <<starts, timer, ti, tickChan, senders, tockChan, tockOpen, handler, todo, events, last, got>>

\* wg.Wait and close(tockChan).
CloseTock ==
  /\ ctl = "waiting" /\ senders = <<>>
  /\ ctl' = "closing" /\ tockOpen' = FALSE
  /\ UNCHANGED <<starts, routine, timer, ti, tickChan, senders, tockChan, handler, todo, events, last, got>>

unsubscribeEvents ==
  /\ ctl = "closing" /\ ctl' = "joining"
  /\ UNCHANGED <<starts, ticker, handler, todo, events, last, got>>

\* handlerWg counts the goroutines that have come to Add.
Join ==
  /\ ctl = "joining"
  /\ \A s \in Starts : handler[s] \notin {"select", "handling"}
  /\ ctl' = "stopped"
  /\ UNCHANGED <<starts, ticker, handler, todo, events, last, got>>
-----------------------------------------------------------------------------
(* timeoutRoutine and its senders. *)

\* ~ newti.earlierOrEqual(ti)
Accept(newti) == newti > ti

Tick ==
  /\ routine /\ tickChan # <<>>
  /\ tickChan' = Tail(tickChan)
  /\ IF Accept(Head(tickChan)) THEN ti' = Head(tickChan) /\ timer' = "armed"
                               ELSE UNCHANGED <<ti, timer>>
  /\ UNCHANGED <<ctl, starts, routine, senders, tockChan, tockOpen, handler, todo, events, last, got>>

\* The timer runs on its own, also when no routine reads timer.C.
Fire ==
  /\ timer = "armed" /\ timer' = "fired"
  /\ UNCHANGED <<ctl, starts, routine, ti, tickChan, senders, tockChan, tockOpen, handler, todo, events, last, got>>

\* Mutant: the routine sends to tockChan itself, and not when it is full.
TimedOutOrDropped ==
  /\ routine /\ timer = "fired"
  /\ timer' = "off"
  /\ tockChan' = IF HasRoom(tockChan) THEN Append(tockChan, ti) ELSE tockChan
  /\ UNCHANGED <<ctl, starts, routine, ti, tickChan, senders, tockOpen, handler, todo, events, last, got>>

TimedOut ==
  /\ routine /\ timer = "fired"
  /\ timer' = "off" /\ senders' = Append(senders, ti)
  /\ UNCHANGED <<ctl, starts, routine, ti, tickChan, tockChan, tockOpen, handler, todo, events, last, got>>

\* The sequence s without its k-th element.
Without(s, k) == SubSeq(s, 1, k - 1) \o SubSeq(s, k + 1, Len(s))

SendTock ==
  /\ tockOpen /\ HasRoom(tockChan)
  /\ \E k \in 1 .. Len(senders) :
       tockChan' = Append(tockChan, senders[k]) /\ senders' = Without(senders, k)
  /\ UNCHANGED <<ctl, starts, routine, timer, ti, tickChan, tockOpen, handler, todo, events, last, got>>

\* A sender that finds abort closed gives up.
Abort ==
  /\ ~ routine /\ senders # <<>>
  /\ senders' = Tail(senders)
  /\ UNCHANGED <<ctl, starts, routine, timer, ti, tickChan, tockChan, tockOpen, handler, todo, events, last, got>>
-----------------------------------------------------------------------------
(* handleEvents.  c.events and c.timeout are read anew in every iteration. *)

Subscribed == ctl \in {"starting", "started", "quitting", "waiting", "closing"}

\* handlerWg.Add(1)
Begin(s) ==
  /\ handler[s] = "spawned"
  /\ handler' = [handler EXCEPT ![s] = "select"]
  /\ UNCHANGED <<ctl, starts, ticker, todo, events, last, got>>

\* core.mu: one goroutine handles at a time.
Free == \A s \in Starts : handler[s] # "handling"

\* A message, a new block or a committed one is handled.
HandleEvent(s) ==
  /\ handler[s] = "select" /\ Free /\ Subscribed /\ events < MaxEvents
  /\ events' = events + 1
  /\ todo' \in 0 .. MaxSchedules
  /\ handler' = [handler EXCEPT ![s] = "handling"]
  /\ UNCHANGED <<ctl, starts, ticker, last, got>>

\* handleTimeout ignores a timeout of a step that is over.
HandleTock(s) ==
  /\ handler[s] = "select" /\ Free /\ tockChan # <<>>
  /\ tockChan' = Tail(tockChan) /\ got' = IF got < Head(tockChan) THEN Head(tockChan) ELSE got
  /\ todo' \in IF Head(tockChan) = last THEN 0 .. MaxSchedules ELSE {0}
  /\ handler' = [handler EXCEPT ![s] = "handling"]
  /\ UNCHANGED <<ctl, starts, routine, timer, ti, tickChan, senders, tockOpen, events, last>>

ScheduleTimeout(s) ==
  /\ handler[s] = "handling" /\ todo > 0
  /\ last < MaxTimeout /\ HasRoom(tickChan)
  /\ tickChan' = Append(tickChan, last + 1) /\ last' = last + 1 /\ todo' = todo - 1
  /\ UNCHANGED <<ctl, starts, routine, timer, ti, senders, tockChan, tockOpen, handler, events, got>>

\* The handler ends; also where the bound on timeouts ends it.
Handled(s) ==
  /\ handler[s] = "handling" /\ (todo = 0 \/ last = MaxTimeout)
  /\ todo' = 0
  /\ handler' = [handler EXCEPT ![s] = "select"]
  /\ UNCHANGED <<ctl, starts, ticker, events, last, got>>

\* The loop ends when a channel it reads is closed.
Return(s) ==
  /\ handler[s] = "select"
  /\ (~ tockOpen /\ tockChan = <<>>) \/ ~ Subscribed
  /\ handler' = [handler EXCEPT ![s] = "done"]
  /\ UNCHANGED <<ctl, starts, ticker, todo, events, last, got>>

handleEvents(s) ==
  Begin(s) \/ HandleEvent(s) \/ HandleTock(s) \/ ScheduleTimeout(s) \/ Handled(s) \/ Return(s)

Stop == StopTimer \/ Quit \/ CloseTock \/ unsubscribeEvents \/ Join

timeoutRoutine == Tick \/ Fire \/ TimedOut \/ SendTock \/ Abort

Next == Start \/ startNewRound \/ Stop \/ timeoutRoutine \/ \E s \in Starts : handleEvents(s)

Spec == Init /\ [][Next]_vars

\* What runs by itself: nobody has to start or stop a core, no event has to come.
Steps ==
  \/ startNewRound \/ Quit \/ CloseTock \/ unsubscribeEvents \/ Join \/ timeoutRoutine
  \/ \E s \in Starts :
       Begin(s) \/ HandleTock(s) \/ ScheduleTimeout(s) \/ Handled(s) \/ Return(s)

(***************************************************************************)
(* As long as a goroutine of these can take a step, one of them does: Go   *)
(* runs them, the timer fires, and select takes a case that is ready.      *)
(***************************************************************************)
Fairness == WF_vars(Steps)

FairSpec == Spec /\ Fairness
-----------------------------------------------------------------------------
Timeout == 0 .. MaxTimeout

TypeOK ==
  /\ ctl \in {"stopped", "starting", "started", "quitting", "waiting", "closing", "joining"}
  /\ starts \in 0 .. MaxStarts /\ {routine, tockOpen} \subseteq BOOLEAN
  /\ timer \in {"off", "armed", "fired"} /\ {ti, last, got} \subseteq Timeout
  /\ {tickChan, senders, tockChan} \subseteq Seq(Timeout)
  /\ Len(tickChan) <= TickTockBufferSize /\ Len(tockChan) <= TickTockBufferSize
  /\ handler \in [Starts -> {"none", "spawned", "select", "handling", "done"}]
  /\ todo \in 0 .. MaxSchedules /\ events \in 0 .. MaxEvents

(***************************************************************************)
(* No goroutine of the ticker is left that could send to a closed          *)
(* tockChan, which would panic: Stop closes it after the routine has ended *)
(* and the last sender has sent or given up (Stop, timeoutRoutine).        *)
(***************************************************************************)
NoSendOnClosed == ~ tockOpen => ~ routine /\ senders = <<>>

(***************************************************************************)
(* The timer of a running core is for the last timeout it scheduled, or    *)
(* will be once tickChan is read, unless that timeout is on its way or has *)
(* been received: neither what the last core left in tickChan nor a timer  *)
(* it left running takes its place (timeoutRoutine, ScheduleTimeout).      *)
(***************************************************************************)
TimerIsForLast ==
  ctl = "started" =>
    \/ tickChan # <<>> /\ tickChan[Len(tickChan)] = last
    \/ tickChan = <<>> /\ ti = last /\ timer # "off"
    \/ got = last \/ last \in Range(senders) \cup Range(tockChan)

\* The handler waits for room in tickChan that no routine will make.
Blocked ==
  /\ \E s \in Starts : handler[s] = "handling"
  /\ todo > 0 /\ ~ HasRoom(tickChan) /\ ~ routine

(***************************************************************************)
(* A Stop returns, with the handler that was running when it began having  *)
(* ended, unless that handler schedules more timeouts than tickChan holds  *)
(* after the routine has gone (Stop, ScheduleTimeout).                     *)
(***************************************************************************)
StopReturns == ctl = "quitting" ~> (ctl = "stopped" \/ Blocked)

(***************************************************************************)
(* Every timeout that a core schedules reaches its handler, unless a later *)
(* one replaces it or the core is stopped: none is lost between the        *)
(* channels, also after a restart, where the same timeout is scheduled     *)
(* again (Start, timeoutRoutine).                                          *)
(***************************************************************************)
LastIsDelivered ==
  \A t \in 1 .. MaxTimeout :
    (ctl = "started" /\ last = t) ~> (got = t \/ last > t \/ ctl # "started")
-----------------------------------------------------------------------------
(***************************************************************************)
(* timeout.go:120 says of ScheduleTimeout "The timeoutRoutine is always    *)
(* available to read from tickChan, so this won't block."                  *)
(***************************************************************************)
\* The code does not do this: TLC finds a counterexample.
ScheduleWontBlock == ~ Blocked

(***************************************************************************)
(* core.go:67 says that "core will wait till handlingEvents done before    *)
(* reutrning": after Stop no handleEvents goroutine is left.               *)
(***************************************************************************)
\* The code does not do this: TLC finds a counterexample.
HandlersDone ==
  ctl = "stopped" => \A s \in Starts : handler[s] \in {"none", "done"}
-----------------------------------------------------------------------------
(* Why no sender is left, and why the timer is for the last timeout. *)

\* How far core.Stop is says what of the ticker is left: inductive.
ClosingInv ==
  /\ ctl \in {"stopped", "starting", "started", "quitting", "waiting", "closing", "joining"}
  /\ routine <=> ctl \in {"starting", "started", "quitting"}
  /\ tockOpen <=> ctl \in {"starting", "started", "quitting", "waiting"}
  /\ ~ tockOpen => senders = <<>>

\* A timeout that is on its way to the handler, or has been received.
UnderWay(t) == got = t \/ t \in Range(senders) \cup Range(tockChan)

(***************************************************************************)
(* No timeout is later than the last one, which is the last in tickChan as *)
(* long as anything is there, and then the one that the routine holds; and *)
(* when the routine holds it the timer runs or it is on its way.           *)
(***************************************************************************)
LastInv ==
  /\ ClosingInv /\ {ti, last, got} \subseteq Nat /\ {tickChan, senders, tockChan} \subseteq Seq(Nat)
  /\ ti <= last /\ got <= last
  /\ \A t \in Range(tickChan) \cup Range(senders) \cup Range(tockChan) : t <= last
  /\ tickChan # <<>> => tickChan[Len(tickChan)] = last
  /\ ctl = "started" /\ tickChan = <<>> => ti = last
  /\ ctl \in {"starting", "started"} /\ ti = last => timer # "off" \/ UnderWay(last)
=============================================================================
