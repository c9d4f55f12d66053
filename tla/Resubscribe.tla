---------------------------- MODULE Resubscribe -----------------------------
(***************************************************************************)
(* A subscription that is kept established by calling fn again when it     *)
(* fails (event.Resubscribe), and its cancellation.                        *)
(*                                                                         *)
(* Each try of fn runs in a goroutine of its own that hands its result to  *)
(* the loop by an unbuffered channel; an established subscription fails    *)
(* with an error or ends well.                                             *)
(***************************************************************************)
EXTENDS Naturals, FiniteSets

CONSTANT MaxTries   \* bounds the calls of fn


Tries == 1 .. MaxTries

VARIABLES
  loop,   \* where the goroutine of loop is
  try,    \* the current try
  fn,     \* what a try of fn is doing
  sub,    \* what has become of the subscription of a try
  user    \* where the caller of Unsubscribe is

vars == <<loop, try, fn, sub, user>>

Init ==
  /\ loop = "trying" /\ try = 1
  /\ fn = [t \in Tries |-> IF t = 1 THEN "running" ELSE "none"]
  /\ sub = [t \in Tries |-> "none"]
  /\ user = "idle"

\* fn returns a subscription or an error; its goroutine then waits for the loop.
FnReturns(t) ==
  /\ fn[t] = "running"
  /\ \/ fn' = [fn EXCEPT ![t] = "subscribed"] /\ sub' = [sub EXCEPT ![t] = "live"]
     \/ fn' = [fn EXCEPT ![t] = "failed"] /\ UNCHANGED sub
  /\ UNCHANGED <<loop, try, user>>

\* subscribe receives the result of the try.
Subscribed ==
  /\ loop = "trying" /\ fn[try] \in {"subscribed", "failed"}
  /\ fn' = [fn EXCEPT ![try] = "done"]
  /\ loop' = IF fn[try] = "subscribed" THEN "established" ELSE "backoff"
  /\ UNCHANGED <<try, sub, user>>

\* backoffWait is over: the next try.
Retry ==
  /\ loop = "backoff" /\ try < MaxTries
  /\ try' = try + 1 /\ loop' = "trying"
  /\ fn' = [fn EXCEPT ![try + 1] = "running"] /\ UNCHANGED <<sub, user>>

\* The subscription ends, with an error or without.
SubEnds ==
  /\ sub[try] = "live" /\ fn[try] = "done"
  /\ \/ sub' = [sub EXCEPT ![try] = "ended"]
     \/ try < MaxTries /\ sub' = [sub EXCEPT ![try] = "error"]
  /\ UNCHANGED <<loop, try, fn, user>>

\* An error leads to a new try at once, an end to the end of the loop.
waitForError ==
  /\ loop = "established" /\ sub[try] \in {"error", "ended"}
  /\ IF sub[try] = "error"
     THEN try' = try + 1 /\ loop' = "trying" /\ fn' = [fn EXCEPT ![try + 1] = "running"]
     ELSE loop' = "closed" /\ UNCHANGED <<try, fn>>
  /\ sub' = [sub EXCEPT ![try] = "unsubscribed"] /\ UNCHANGED user

Unsubscribe ==
  /\ user = "idle" /\ user' = "unsubscribing" /\ UNCHANGED <<loop, try, fn, sub>>

\* The loop receives from unsub: while a try runs, an established subscription
\* is watched, or it waits for the next try.  It closes err.
LoopStops ==
  /\ user = "unsubscribing" /\ loop \in {"trying", "established", "backoff"}
  /\ user' = "waiting" /\ loop' = "closed"
  /\ sub' = IF loop = "established" THEN [sub EXCEPT ![try] = "unsubscribed"] ELSE sub
  /\ UNCHANGED <<try, fn>>

\* err is closed.
Return ==
  /\ user = "waiting" /\ loop = "closed" /\ user' = "done" /\ UNCHANGED <<loop, try, fn, sub>>

Steps == Subscribed \/ Retry \/ waitForError \/ LoopStops \/ Return \/ \E t \in Tries : FnReturns(t)

Next == Steps \/ SubEnds \/ Unsubscribe

(***************************************************************************)
(* The goroutines go on and fn returns; a subscription need not end, and   *)
(* nobody has to unsubscribe.                                              *)
(***************************************************************************)
FairSpec == Init /\ [][Next]_vars /\ WF_vars(Steps)
-----------------------------------------------------------------------------
(***************************************************************************)
(* Unsubscribe returns, whatever the loop is waiting for; unless the loop  *)
(* has ended by itself, after which nobody receives from unsub (loop,      *)
(* Unsubscribe).                                                           *)
(***************************************************************************)
ReturnsWhileLooping ==
  (user = "unsubscribing") ~> (user = "done" \/ (user = "unsubscribing" /\ loop = "closed"))

(***************************************************************************)
(* "You must call Unsubscribe in all cases ... It can be called any number *)
(* of times" (Subscription): it returns.                                   *)
(***************************************************************************)
\* The code does not do this: TLC finds a counterexample.
UnsubscribeReturns == (user = "unsubscribing") ~> (user = "done")

(***************************************************************************)
(* "The Unsubscribe method cancels the sending of events": after it has    *)
(* returned, no subscription that fn has made stays established.           *)
(***************************************************************************)
\* The code does not do this: TLC finds a counterexample.
NothingLeft == (user = "done") ~> (\A t \in Tries : sub[t] # "live")
=============================================================================
