------------------------------ MODULE TypeMux -------------------------------
(***************************************************************************)
(* The event mux by which the backend, the miner and the downloader post   *)
(* events (TypeMux), for one type of event: posts, subscriptions that come *)
(* and go, and the stop of the mux, with its four locks.                   *)
(*                                                                         *)
(* A subscription is used once.  Its owner reads its channel or not, and   *)
(* does not read while it unsubscribes.                                    *)
(***************************************************************************)
EXTENDS Naturals, FiniteSets

CONSTANTS
  Subs,      \* subscriptions
  Posters,   \* goroutines that post
  Stopper,   \* the goroutine that stops the mux
  None,
  MaxPosts   \* bounds the posts of a goroutine

VARIABLES
  subm,      \* registered subscriptions
  stopped,
  mutex,     \* who holds mux.mutex for writing, or None
  owner,     \* where the owner of a subscription is
  closeMu,   \* who holds closeMu of a subscription, or None
  closing,   \* subscriptions whose closing channel is closed
  closed,    \* subscriptions marked as closed
  postC,     \* whether the channel of a subscription can be sent to
  poster,    \* where a poster is
  todo,      \* subscriptions a post has still to deliver to
  now,       \* the one it delivers to, or None
  sending,   \* posters that select on a channel they have seen open
  posts,     \* how often a goroutine has posted
  stop,      \* where the stopper is
  toClose    \* subscriptions it has still to close

posting == <<poster, todo, now, sending, posts>>
closingVars == <<closeMu, closing, closed, postC>>
vars == <<subm, stopped, mutex, owner, closingVars, posting, stop, toClose>>

Init ==
  /\ subm = {} /\ stopped = FALSE /\ mutex = None
  /\ owner = [s \in Subs |-> "none"]
  /\ closeMu = [s \in Subs |-> None] /\ closing = {} /\ closed = {}
  /\ postC = [s \in Subs |-> "open"]
  /\ poster = [p \in Posters |-> "idle"] /\ todo = [p \in Posters |-> {}]
  /\ now = [p \in Posters |-> None] /\ sending = {} /\ posts = [p \in Posters |-> 0]
  /\ stop = "idle" /\ toClose = {}

\* Posters that hold postMu of a subscription for reading.
Readers(s) == { p \in Posters : now[p] = s }
-----------------------------------------------------------------------------
Subscribe(s) ==
  /\ owner[s] = "none" /\ mutex = None
  /\ owner' = [owner EXCEPT ![s] = "subscribed"]
  /\ IF stopped THEN closed' = closed \cup {s} /\ postC' = [postC EXCEPT ![s] = "nil"] /\ UNCHANGED subm
     ELSE subm' = subm \cup {s} /\ UNCHANGED <<closed, postC>>
  /\ UNCHANGED <<stopped, mutex, closeMu, closing, posting, stop, toClose>>

\* Post up to the first delivery.
Post(p) ==
  /\ poster[p] = "idle" /\ posts[p] < MaxPosts /\ mutex = None
  /\ posts' = [posts EXCEPT ![p] = @ + 1]
  /\ IF stopped THEN UNCHANGED <<poster, todo>>
     ELSE poster' = [poster EXCEPT ![p] = "posting"] /\ todo' = [todo EXCEPT ![p] = subm]
  /\ UNCHANGED <<subm, stopped, mutex, owner, closingVars, now, sending, stop, toClose>>

\* The closer that waits for postMu keeps new readers out.
WaitsForPostMu(s) == closeMu[s] # None /\ s \in closed /\ postC[s] = "open"

\* deliver takes postMu, and sees the channel or nil.
Deliver(p, s) ==
  /\ poster[p] = "posting" /\ now[p] = None /\ s \in todo[p]
  /\ ~ WaitsForPostMu(s)
  /\ now' = [now EXCEPT ![p] = s] /\ todo' = [todo EXCEPT ![p] = @ \ {s}]
  /\ sending' = IF postC[s] = "nil" THEN sending ELSE sending \cup {p}
  /\ UNCHANGED <<subm, stopped, mutex, owner, closingVars, poster, posts, stop, toClose>>

\* The owner reads the event, or the subscription is being closed.
Delivered(p) ==
  /\ now[p] # None
  /\ \/ p \in sending /\ owner[now[p]] = "subscribed"
     \/ now[p] \in closing
  /\ now' = [now EXCEPT ![p] = None] /\ sending' = sending \ {p}
  /\ UNCHANGED <<subm, stopped, mutex, owner, closingVars, poster, todo, posts, stop, toClose>>

PostReturns(p) ==
  /\ poster[p] = "posting" /\ now[p] = None /\ todo[p] = {}
  /\ poster' = [poster EXCEPT ![p] = "idle"]
  /\ UNCHANGED <<subm, stopped, mutex, owner, closingVars, todo, now, sending, posts, stop, toClose>>
-----------------------------------------------------------------------------
(* closewait, by the owner or by Stop *)

MarkClosed(s, a) ==
  /\ closeMu[s] = None /\ s \notin closed
  /\ closeMu' = [closeMu EXCEPT ![s] = a]
  /\ closing' = closing \cup {s} /\ closed' = closed \cup {s} /\ UNCHANGED postC

\* Mutant: the channel is closed without postMu.
ClosePostCAtOnce(s, a) ==
  /\ closeMu[s] = a /\ postC' = [postC EXCEPT ![s] = "nil"]
  /\ closeMu' = [closeMu EXCEPT ![s] = None] /\ UNCHANGED <<closing, closed>>

ClosePostC(s, a) ==
  /\ closeMu[s] = a /\ Readers(s) = {}
  /\ postC' = [postC EXCEPT ![s] = "nil"]
  /\ closeMu' = [closeMu EXCEPT ![s] = None] /\ UNCHANGED <<closing, closed>>

AlreadyClosed(s) == closeMu[s] = None /\ s \in closed /\ UNCHANGED closingVars

\* Unsubscribe: del, then closewait.
del(s) ==
  /\ owner[s] = "unsubscribing" /\ mutex = None
  /\ subm' = subm \ {s} /\ owner' = [owner EXCEPT ![s] = "closing"]
  /\ UNCHANGED <<stopped, mutex, closingVars, posting, stop, toClose>>

Unsubscribe(s) ==
  /\ owner[s] = "subscribed" /\ owner' = [owner EXCEPT ![s] = "unsubscribing"]
  /\ UNCHANGED <<subm, stopped, mutex, closingVars, posting, stop, toClose>>

OwnerCloses(s) ==
  /\ \/ owner[s] = "closing" /\ MarkClosed(s, s) /\ owner' = [owner EXCEPT ![s] = "waiting"]
     \/ owner[s] = "waiting" /\ ClosePostC(s, s) /\ owner' = [owner EXCEPT ![s] = "done"]
     \/ owner[s] = "closing" /\ AlreadyClosed(s) /\ owner' = [owner EXCEPT ![s] = "done"]
  /\ UNCHANGED <<subm, stopped, mutex, posting, stop, toClose>>

\* Stop keeps mux.mutex until every subscription is closed.
Stop ==
  /\ stop = "idle" /\ mutex = None
  /\ mutex' = Stopper /\ stop' = "closing" /\ toClose' = subm
  /\ UNCHANGED <<subm, stopped, owner, closingVars, posting>>

\* None of them is closed yet: Unsubscribe first takes it off the map.
StopCloses(s) ==
  /\ stop = "closing" /\ s \in toClose
  /\ \/ MarkClosed(s, Stopper) /\ UNCHANGED toClose
     \/ ClosePostC(s, Stopper) /\ toClose' = toClose \ {s}
  /\ UNCHANGED <<subm, stopped, mutex, owner, posting, stop>>

StopReturns ==
  /\ stop = "closing" /\ toClose = {}
  /\ stop' = "done" /\ subm' = {} /\ stopped' = TRUE /\ mutex' = None
  /\ UNCHANGED <<owner, closingVars, posting, toClose>>

(***************************************************************************)
(* The steps that the goroutines take by themselves.  To read an event is  *)
(* not among them, nor to post, subscribe, unsubscribe or stop.            *)
(***************************************************************************)
Closed(p) == now[p] \in closing /\ Delivered(p)

Steps ==
  \/ \E p \in Posters : PostReturns(p) \/ Closed(p) \/ \E s \in Subs : Deliver(p, s)
  \/ \E s \in Subs : del(s) \/ OwnerCloses(s) \/ StopCloses(s)
  \/ StopReturns

Next ==
  \/ Steps \/ Stop
  \/ \E p \in Posters : Post(p) \/ Delivered(p)
  \/ \E s \in Subs : Subscribe(s) \/ Unsubscribe(s)

Spec == Init /\ [][Next]_vars

FairSpec == Spec /\ WF_vars(Steps)
-----------------------------------------------------------------------------
(***************************************************************************)
(* No post sends on the channel of a subscription after it is closed: the  *)
(* sender holds postMu, and whoever closes waits for it (deliver,          *)
(* closewait).                                                             *)
(***************************************************************************)
NoSendOnClosed == \A p \in sending : postC[now[p]] = "open"

(***************************************************************************)
(* Once Stop has returned, a subscription whose owner has not begun to     *)
(* unsubscribe is closed and no post is about to send on its channel,      *)
(* whenever it was made (Stop, Subscribe).                                 *)
(***************************************************************************)
AllClosedByStop ==
  stop = "done" =>
    \A s \in Subs : owner[s] = "subscribed" => postC[s] = "nil" /\ \A p \in sending : now[p] # s

(***************************************************************************)
(* Unsubscribe and Stop return although nobody reads the events that are   *)
(* being posted, and whatever the others do (closewait closes closing      *)
(* before it waits for postMu).                                            *)
(***************************************************************************)
ClosersReturn == []<>(stop # "closing" /\ \A s \in Subs : owner[s] # "unsubscribing")

(***************************************************************************)
(* "Stop blocks until all current deliveries have finished."               *)
(***************************************************************************)
\* The code does not do this: TLC finds a counterexample.
StopWaitsForDeliveries == stop = "done" => sending = {}
-----------------------------------------------------------------------------
(* Why channels are closed safely. *)

MuxAssumption == None \notin Subs /\ Stopper # None

MuxTypes ==
  /\ subm \subseteq Subs /\ toClose \subseteq Subs /\ sending \subseteq Posters
  /\ todo \in [Posters -> SUBSET Subs] /\ now \in [Posters -> Subs \cup {None}]
  /\ postC \in [Subs -> {"open", "nil"}] /\ stopped \in BOOLEAN
  /\ owner \in [Subs -> {"none", "subscribed", "unsubscribing", "closing", "waiting", "done"}]

\* No post knows a subscription before it is made.
Unknown(s) == s \notin subm /\ \A p \in Posters : s \notin todo[p] /\ now[p] # s

\* A subscription that is not being ended is registered, or was made too late.
Registered(s) == s \in subm \/ (stopped /\ postC[s] = "nil")

(***************************************************************************)
(* Whoever sends has seen an open channel; a Stop in progress keeps the    *)
(* registered subscriptions as they are and has closed those that it need  *)
(* not close any more: inductive.                                          *)
(***************************************************************************)
MuxInv ==
  /\ MuxTypes
  /\ \A p \in sending : now[p] \in Subs /\ postC[now[p]] = "open"
  /\ \A s \in Subs : (owner[s] = "none" => Unknown(s)) /\ (owner[s] = "subscribed" => Registered(s))
  /\ (stopped <=> stop = "done") /\ (stopped => subm = {})
  /\ stop = "closing" => mutex = Stopper /\ \A s \in subm \ toClose : postC[s] = "nil"
=============================================================================
