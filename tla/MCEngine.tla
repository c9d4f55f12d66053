------------------------------ MODULE MCEngine ------------------------------
(***************************************************************************)
(* The parts that work beside the consensus, on small instances.  They do  *)
(* not share state, so a behaviour runs one of them: part says which.  The *)
(* others stay as they are initially.                                      *)
(***************************************************************************)
EXTENDS Naturals, Sequences, FiniteSets

CONSTANTS Parts,                       \* the parts that a run looks at
          Nil, c1, c2, updater,        \* goroutines of Lifecycle
          t1, p1, p2,                  \* a broadcast and its peers
          sub1, sub2, g1, g2, stopper      \* subscriptions and goroutines that post

VARIABLES part,
  ctl, starts, routine, timer, ti, tickChan, senders, tockChan, tockOpen, handler, todo,
  events, last, got,
  pc, canStart, shouldStart, running, coreStarted, enoughPeers, sync, lastCall, stopped,
  storingMsgs, caller, toFree, triggers, dequeueMsgTriggering, loop, stored, queueStarted,
  stop, queueStarts, subscribed, handling, handled, arrived, lost,
  task, monitor, abort, finalSub, stopSub, targets, inFlight, successSent, peerGot, sends,
  finals, gossipStopped, posts,
  height, place, saved, asker, askerGot, requests, replies, reader, wanted, index, posted,
  node, head, mined, news, finalPosted, up, stops,
  subm, muxStopped, mutex, owner, closeMu, closing, closed, postC, poster, muxTodo, now,
  sending, muxPosts, muxStop, toClose,
  inbox, sendCases, active, sendLock, next, sender, feedSends, sent, entitled, sub, buffer,
  subLoop, try, fn, trySub, user

ticksVars == <<ctl, starts, routine, timer, ti, tickChan, senders, tockChan, tockOpen,
  handler, todo, events, last, got>>
minerVars == <<pc, canStart, shouldStart, running, coreStarted, enoughPeers, sync, lastCall,
  stopped>>
queueVars == <<storingMsgs, caller, toFree, triggers, dequeueMsgTriggering, loop, stored,
  queueStarted, stop, queueStarts, subscribed, handling, handled, arrived, lost>>
gossipVars == <<task, monitor, abort, finalSub, stopSub, targets, inFlight, successSent,
  peerGot, sends, finals, gossipStopped, posts>>
storeVars == <<height, place, saved, asker, askerGot, requests, replies, reader, wanted,
  index, posted>>
coresVars == <<node, head, mined, news, finalPosted, up, stops>>
muxVars == <<subm, muxStopped, mutex, owner, closeMu, closing, closed, postC, poster,
  muxTodo, now, sending, muxPosts, muxStop, toClose>>
feedVars == <<inbox, sendCases, active, sendLock, next, sender, feedSends, sent, entitled,
  sub, buffer>>
triesVars == <<subLoop, try, fn, trySub, user>>

Ticks == INSTANCE Ticker WITH
  TickTockBufferSize <- 1, MaxStarts <- 2, MaxEvents <- 1, MaxSchedules <- 2, MaxTimeout <- 2

Miner == INSTANCE Lifecycle WITH Callers <- {c1, c2}, Update <- updater

\* The queue at its limit, and one whose limit is never reached.
FullQueue == INSTANCE MsgQueue WITH
  Msgs <- 1 .. 4, None <- Nil, maxNumberMessages <- 1, maxTrigger <- 1,
  MaxCalls <- 2, MaxStarts <- 1,
  coreStarted <- queueStarted, starts <- queueStarts

Queue == INSTANCE MsgQueue WITH
  Msgs <- 1 .. 3, None <- Nil, maxNumberMessages <- 3, maxTrigger <- 1,
  MaxCalls <- 2, MaxStarts <- 3,
  coreStarted <- queueStarted, starts <- queueStarts

Broadcast == INSTANCE Gossip WITH
  Tasks <- {t1}, Peers <- {p1, p2}, NumberOf <- [t \in {t1} |-> 2], MaxNumber <- 2,
  MaxSends <- 2, got <- peerGot, stopped <- gossipStopped

\* Places 1 and 4 are proposals of two rounds, 2 and 3 votes of the first.
Store == INSTANCE CatchUp WITH
  MaxHeight <- 2, MaxPlace <- 4, Votes <- {2, 3}, Refused <- {4}, BatchSize <- 2,
  got <- askerGot

\* Two cores at one height, of which the first mines and asks again.
Cores == INSTANCE TendermintNet WITH
  N <- 2, Accepted <- {[number |-> 1, id |-> <<0, 0>>]},
  Honest <- {0, 1}, Faulty <- {}, FaultyMessages <- {},
  MaxRound <- 0, MaxHeight <- 1, MaxMined <- [i \in {0, 1} |-> 1 - i],
  MaxRetry <- [i \in {0, 1} |-> 1 - i], MaxStops <- [i \in {0, 1} |-> 0], posted <- finalPosted

Mux == INSTANCE TypeMux WITH
  Subs <- {sub1, sub2}, Posters <- {g1, g2}, Stopper <- stopper, None <- Nil, MaxPosts <- 1,
  stopped <- muxStopped, todo <- muxTodo, posts <- muxPosts, stop <- muxStop

Sends == INSTANCE Feed WITH
  Subs <- 1 .. 3, Senders <- {g1}, None <- Nil, Cap <- 1, MaxSends <- 2,
  sends <- feedSends

Tries == INSTANCE Resubscribe WITH MaxTries <- 3, loop <- subLoop, sub <- trySub

\* What the proofs about the parts assume.
ASSUME
  /\ FullQueue!QueueAssumption /\ Queue!QueueAssumption /\ Store!CatchUpAssumption
  /\ Mux!MuxAssumption /\ Sends!FeedAssumption

vars == <<part, ticksVars, minerVars, queueVars, gossipVars, storeVars, coresVars, muxVars, feedVars, triesVars>>
-----------------------------------------------------------------------------
Init ==
  /\ part \in Parts
  /\ Ticks!Init /\ Miner!Init /\ Broadcast!Init /\ Cores!Init /\ Mux!Init /\ Sends!Init /\ Tries!Init
  /\ Store!Init /\ (part # "server" => asker = 2)
  /\ IF part = "fullQueue" THEN FullQueue!Init ELSE Queue!Init

\* The variables of all parts but the one that steps.
BesideTicks == <<minerVars, queueVars, gossipVars, storeVars, coresVars, muxVars, feedVars, triesVars>>
BesideMiner == <<ticksVars, queueVars, gossipVars, storeVars, coresVars, muxVars, feedVars, triesVars>>
BesideQueue == <<ticksVars, minerVars, gossipVars, storeVars, coresVars, muxVars, feedVars, triesVars>>
BesideGossip == <<ticksVars, minerVars, queueVars, storeVars, coresVars, muxVars, feedVars, triesVars>>
BesideStore == <<ticksVars, minerVars, queueVars, gossipVars, coresVars, muxVars, feedVars, triesVars>>
BesideCores == <<ticksVars, minerVars, queueVars, gossipVars, storeVars, muxVars, feedVars, triesVars>>
BesideMux == <<ticksVars, minerVars, queueVars, gossipVars, storeVars, coresVars, feedVars, triesVars>>
BesideFeed == <<ticksVars, minerVars, queueVars, gossipVars, storeVars, coresVars, muxVars, triesVars>>
BesideTries == <<ticksVars, minerVars, queueVars, gossipVars, storeVars, coresVars, muxVars, feedVars>>

Next ==
  /\ UNCHANGED part
  /\ \/ part = "ticker" /\ Ticks!Next /\ UNCHANGED BesideTicks
     \/ part = "lifecycle" /\ Miner!Next /\ UNCHANGED BesideMiner
     \/ part = "fullQueue" /\ FullQueue!Next /\ UNCHANGED BesideQueue
     \/ part = "queue" /\ Queue!Next /\ UNCHANGED BesideQueue
     \/ part = "gossip" /\ Broadcast!Next /\ UNCHANGED BesideGossip
     \/ part = "reader" /\ (Store!Core \/ Store!Reader) /\ UNCHANGED BesideStore
     \/ part = "server" /\ (Store!Core \/ Store!Serve) /\ UNCHANGED BesideStore
     \/ part = "retry" /\ Cores!Next /\ UNCHANGED BesideCores
     \/ part = "mux" /\ Mux!Next /\ UNCHANGED BesideMux
     \/ part = "feed" /\ Sends!Next /\ UNCHANGED BesideFeed
     \/ part = "resubscribe" /\ Tries!Next /\ UNCHANGED BesideTries

Spec == Init /\ [][Next]_vars
-----------------------------------------------------------------------------
(* Fairness, as each part states it, when that part runs. *)

TicksFair == WF_ticksVars(part = "ticker" /\ Ticks!Steps)

MinerFair ==
  /\ \A g \in {c1, c2, updater} : WF_minerVars(part = "lifecycle" /\ (Miner!Start(g) \/ Miner!Stop(g)))
  /\ WF_minerVars(part = "lifecycle" /\ Miner!update)
  /\ WF_minerVars(part = "lifecycle" /\ Miner!SyncEnds)
  /\ WF_minerVars(part = "lifecycle" /\ Miner!PeersCome)

QueueFair == WF_queueVars(part = "queue" /\ Queue!Steps)

GossipFair ==
  /\ WF_gossipVars(part = "gossip" /\ Broadcast!Step(t1))
  /\ SF_gossipVars(part = "gossip" /\ Broadcast!Abort(t1))
  /\ WF_gossipVars(part = "gossip" /\ \E e \in posts : e.task = t1 /\ Broadcast!Deliver(e))

StoreFair ==
  /\ WF_storeVars(part = "server" /\ Store!Ask)
  /\ \A p \in {2, 3} :
       /\ SF_storeVars(part = "server" /\ Store!handleCatchupRequest(p))
       /\ SF_storeVars(part = "server" /\ \E b \in replies : b[1].place = p /\ Store!handleCatchUpReply(b))

MuxFair == WF_muxVars(part = "mux" /\ Mux!Steps)

FeedFair == WF_feedVars(part = "feed" /\ Sends!Steps)

TriesFair == WF_triesVars(part = "resubscribe" /\ Tries!Steps)
-----------------------------------------------------------------------------
(* The clauses named ...Inv are the inductive invariants of EngineProofs and EventProofs. *)

(***************************************************************************)
(* The variables have their types; tickChan, tockChan and the signals of   *)
(* the queue keep their capacities, and the queue exceeds its limit by at  *)
(* most one message for each HandleMsg that runs at the same time          *)
(* (ScheduleTimeout, HandleMsg).                                           *)
(***************************************************************************)
WithinBounds ==
  /\ Ticks!TypeOK /\ Cores!TypeOK
  /\ part = "queue" => Queue!TypeOK
  /\ part = "fullQueue" => FullQueue!TypeOK /\ FullQueue!LimitInv /\ FullQueue!QueueNearLimit

(***************************************************************************)
(* No goroutine can send to tockChan when Stop of the ticker closes it,    *)
(* and no post to the channel of a subscription of the mux that is closed; *)
(* after Stop of the mux every subscription that nobody is ending is       *)
(* closed (timeoutTicker.Stop, deliver, closewait, TypeMux.Stop).          *)
(***************************************************************************)
ChannelsCloseSafely ==
  /\ Ticks!ClosingInv /\ Mux!MuxInv
  /\ Ticks!NoSendOnClosed /\ Mux!NoSendOnClosed /\ Mux!AllClosedByStop

(***************************************************************************)
(* Nothing is delivered twice, though it is retried, replayed or sent      *)
(* while receivers come and go: the core handles stored messages in the    *)
(* order of their arrival and each once (replayTendermintMsg), a validator *)
(* that has the message of a broadcast does not get it again (gossip), and *)
(* a Send delivers once to each channel subscribed when it began, which is *)
(* in one place meanwhile (Feed.Send, remove). The timer that runs, or a   *)
(* tick on its way, is for the last timeout scheduled, not for an earlier  *)
(* one (timeoutRoutine).                                                   *)
(***************************************************************************)
OnceInOrder ==
  /\ IF part = "fullQueue" THEN FullQueue!OrderInv ELSE Queue!OrderInv
  /\ Broadcast!TargetsInv /\ Sends!FeedInv /\ Ticks!LastInv
  /\ Queue!InOrderOnce /\ Broadcast!SentOnce /\ Sends!DeliversOnce /\ Sends!InOnePlace
  /\ Ticks!TimerIsForLast

(***************************************************************************)
(* A core that asks again votes once a round, keeps what it sent for       *)
(* others that ask and a timer that gets it out of its step (enterCatchup, *)
(* storeSentMsg); the goroutine that looks its own missing vote up outside *)
(* the lock posts that very vote while the height lasts (lookup, get).     *)
(***************************************************************************)
CatchUpKeepsVotes ==
  /\ Cores!OneVotePerRound /\ Cores!SentIsStored /\ Cores!TimerRuns
  /\ part = "reader" => Store!ReaderInv /\ Store!PostsItsVote

(***************************************************************************)
(* The last timeout that was scheduled reaches the handler, across a Stop  *)
(* and a Start, unless a later one replaces it or the core stops           *)
(* (timeoutRoutine, ScheduleTimeout).                                      *)
(***************************************************************************)
LastIsDelivered == TicksFair => Ticks!LastIsDelivered

(***************************************************************************)
(* Calls that wait for other goroutines return: Stop of the core, unless a *)
(* handler schedules more than tickChan holds after the routine has gone   *)
(* (Stop, ScheduleTimeout); Unsubscribe and Stop of the mux although       *)
(* nobody reads what is posted (closewait); Unsubscribe from a Feed while  *)
(* a Send is blocked (remove); and Unsubscribe of a Resubscribe whose loop *)
(* has not ended by itself.                                                *)
(***************************************************************************)
CallsReturn ==
  /\ TicksFair => Ticks!StopReturns
  /\ MuxFair => Mux!ClosersReturn
  /\ FeedFair => Sends!UnsubscribeReturns
  /\ TriesFair => Tries!ReturnsWhileLooping

(***************************************************************************)
(* However many starts interrupt each other, one of them starts the core   *)
(* unless somebody stops it, and a miner stopped for a sync runs again     *)
(* after it unless a caller stops it (Backend.Start, tryStartCore,         *)
(* Miner.update).                                                          *)
(***************************************************************************)
MinerStarts == MinerFair => Miner!SomeStartSucceeds /\ Miner!ResumesAfterSync

(***************************************************************************)
(* Below the limit every stored message is handled, although the core is   *)
(* stopped in between (dequeueMsgLoop, tryStartCore).                      *)
(***************************************************************************)
StoredIsHandled == QueueFair => (part = "queue" => Queue!StoredIsHandled)

(***************************************************************************)
(* A broadcast that listens when its height becomes final is over soon,    *)
(* and no post of an event is held up for good by a broadcast: not by one  *)
(* that no longer listens, nor by one about to return (gossip, deliver).   *)
(***************************************************************************)
BroadcastsEnd == GossipFair => Broadcast!FinalEndsTask /\ Broadcast!PostsAreDelivered

(***************************************************************************)
(* A core stuck at a vote that another has sent gets it, though requests   *)
(* and replies are lost, unless the other has left the height              *)
(* (enterCatchup, handleCatchupRequest, handleCatchUpReply).               *)
(***************************************************************************)
StuckIsServed == StoreFair => (part = "server" => Store!StuckIsServed)
=============================================================================
