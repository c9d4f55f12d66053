------------------------------- MODULE CatchUp ------------------------------
(***************************************************************************)
(* The store of sent messages (msgStorage) and its readers: the handler of *)
(* a catch-up request, which answers a validator that is stuck, and the    *)
(* goroutine that posts the core's own lost vote again.  The handlers and  *)
(* the truncation run under core.mu; that goroutine does not.              *)
(*                                                                         *)
(* Round and step are one number, the place of a message: lookup and       *)
(* storeSentMsg only compare them in this order.                           *)
(***************************************************************************)
EXTENDS Naturals, Sequences, FiniteSets

CONSTANTS
  MaxHeight,   \* bounds the heights
  MaxPlace,    \* bounds the places of a height
  Votes,       \* places that are votes, at which a core may be stuck
  Refused,     \* places whose message the asking core refuses
  BatchSize    \* catchUpReplyBatchSize

VARIABLES
  height,    \* of the core that answers
  place,     \* its round and step
  saved,     \* sentMsgStorage.savedMsg
  asker,     \* place at which the other core is stuck, at height 1
  got,       \* places of the messages it has handled
  requests,  \* requests and replies under way
  replies,
  reader,    \* where the goroutine is
  wanted,    \* height and place of the vote it looks for
  index,     \* what lookup has returned
  posted     \* what it has posted

other == <<asker, got, requests, replies>>
self == <<reader, wanted, index, posted>>
vars == <<height, place, saved, other, self>>

Msg(h, p) == [height |-> h, place |-> p]

Init ==
  /\ height = 1 /\ place = 0 /\ saved = <<>>
  /\ asker \in Votes /\ got = {} /\ requests = {} /\ replies = {}
  /\ reader = "none" /\ wanted = Msg(0, 0) /\ index = 0 /\ posted = {}
-----------------------------------------------------------------------------
(* The store. *)

storeSentMsg(m) ==
  IF saved # <<>> /\ saved[Len(saved)].place > m.place THEN saved ELSE Append(saved, m)

\* The first message at the place or after it; 0 stands for -1.
lookup(p) ==
  LET hits == { i \in DOMAIN saved : saved[i].place >= p }
  IN  IF hits = {} THEN 0 ELSE CHOOSE i \in hits : \A j \in hits : i <= j

\* The core goes on, and sends what its place asks for or nothing.
Send(p) ==
  /\ place < p /\ place' = p
  /\ saved' = storeSentMsg(Msg(height, p)) \/ (p \notin Votes /\ UNCHANGED saved)
  /\ UNCHANGED <<height, other, self>>

\* handleFinalCommitted: truncateMsgStored.
NewHeight ==
  /\ height < MaxHeight /\ height' = height + 1 /\ place' = 0 /\ saved' = <<>>
  /\ UNCHANGED <<other, self>>
-----------------------------------------------------------------------------
(* A request of another core, and the reply. *)

\* enterCatchup: the timer is set again each time.
Ask ==
  /\ asker \notin got /\ requests' = requests \cup {asker}
  /\ UNCHANGED <<height, place, saved, asker, got, replies, self>>

\* The stored messages from the one asked for on, in batches.
Batches(first) ==
  { SubSeq(saved, i, IF i + BatchSize - 1 < Len(saved) THEN i + BatchSize - 1 ELSE Len(saved)) :
      i \in { j \in first .. Len(saved) : (j - first) % BatchSize = 0 } }

handleCatchupRequest(p) ==
  /\ p \in requests /\ requests' = requests \ {p}
  /\ replies' = IF height # 1 \/ p > place \/ lookup(p) = 0 THEN replies
                ELSE replies \cup Batches(lookup(p))
  /\ UNCHANGED <<height, place, saved, asker, got, self>>

\* Mutant: nothing is handled when one message of the reply is refused.
AcceptedIfAll(batch) ==
  IF \E i \in DOMAIN batch : batch[i].place \in Refused THEN {}
  ELSE { batch[i].place : i \in DOMAIN batch }

\* The messages before the first that is refused.
Accepted(batch) ==
  { batch[i].place : i \in { j \in DOMAIN batch : \A k \in 1 .. j : batch[k].place \notin Refused } }

handleCatchUpReply(batch) ==
  /\ batch \in replies /\ replies' = replies \ {batch}
  /\ got' = got \cup Accepted(batch)
  /\ UNCHANGED <<height, place, saved, asker, requests, self>>

\* A peer is not connected, or a send fails.
Lose ==
  /\ \/ \E p \in requests : requests' = requests \ {p} /\ UNCHANGED replies
     \/ \E b \in replies : replies' = replies \ {b} /\ UNCHANGED requests
  /\ UNCHANGED <<height, place, saved, asker, got, self>>

\* The core that asks has its vote and is stuck at a later place.
Proceed(p) ==
  /\ asker \in got /\ p \in Votes /\ asker < p /\ asker' = p
  /\ UNCHANGED <<height, place, saved, got, requests, replies, self>>
-----------------------------------------------------------------------------
(* The goroutine of sendCatchUpRequest: its reads are outside core.mu. *)

\* The core misses its own vote at the place where it is.
SpawnReader ==
  /\ reader = "none" /\ place \in Votes /\ Msg(height, place) \in { saved[i] : i \in DOMAIN saved }
  /\ reader' = "lookup" /\ wanted' = Msg(height, place)
  /\ UNCHANGED <<height, place, saved, other, index, posted>>

ReaderLooksUp ==
  /\ reader = "lookup" /\ index' = lookup(wanted.place) /\ reader' = "check"
  /\ UNCHANGED <<height, place, saved, other, wanted, posted>>

\* get compares the index with the length, and reads the slice again.
ReaderChecks ==
  /\ reader = "check"
  /\ reader' = IF index > Len(saved) \/ index = 0 THEN "done" ELSE "read"
  /\ UNCHANGED <<height, place, saved, other, wanted, index, posted>>

ReaderReads ==
  /\ reader = "read"
  /\ IF index > Len(saved) THEN reader' = "panic" /\ UNCHANGED posted
     ELSE reader' = "done" /\ posted' = posted \cup {saved[index]}
  /\ UNCHANGED <<height, place, saved, other, wanted, index>>

Reader == SpawnReader \/ ReaderLooksUp \/ ReaderChecks \/ ReaderReads

Core == NewHeight \/ \E p \in 1 .. MaxPlace : Send(p)

Serve ==
  \/ Ask \/ Lose
  \/ \E p \in 1 .. MaxPlace : handleCatchupRequest(p) \/ Proceed(p)
  \/ \E b \in replies : handleCatchUpReply(b)

\* The two readers do not touch each other's state: one at a time is checked.
ReaderSpec == Init /\ [][Core \/ Reader]_vars

ServeSpec == Init /\ [][Core \/ Serve]_vars

(***************************************************************************)
(* The timer goes on asking, and of requests and replies that are sent     *)
(* again and again some arrive.                                            *)
(***************************************************************************)
FairServeSpec ==
  /\ ServeSpec /\ WF_vars(Ask)
  /\ \A p \in Votes : SF_vars(handleCatchupRequest(p))
                      /\ SF_vars(\E b \in replies : b[1].place = p /\ handleCatchUpReply(b))
-----------------------------------------------------------------------------
Answering(p) == height = 1 /\ Msg(1, p) \in { saved[i] : i \in DOMAIN saved }

(***************************************************************************)
(* A core stuck at a vote that another has sent gets it, though requests   *)
(* and replies are lost and the other has sent messages since that the     *)
(* first one refuses; unless the other one has left the height             *)
(* (enterCatchup, handleCatchupRequest, handleCatchUpReply, lookup).       *)
(***************************************************************************)
StuckIsServed == Answering(asker) ~> (asker \in got \/ height # 1)

(***************************************************************************)
(* While the height lasts, the goroutine posts the very vote the core      *)
(* misses, whatever was stored since (lookup, get).                        *)
(***************************************************************************)
PostsItsVote ==
  height = wanted.height => posted \subseteq {wanted} /\ reader # "panic"

(***************************************************************************)
(* "if missing votes from itself ... then take from core 's storage": the  *)
(* goroutine posts the missing vote or none (sendCatchUpRequest).          *)
(***************************************************************************)
\* The code does not do this: TLC finds a counterexample.
PostsItsVoteOrNone == posted \subseteq {wanted} /\ reader # "panic"
-----------------------------------------------------------------------------
(* Why the goroutine posts its own vote. *)

CatchUpAssumption == MaxPlace \in Nat

\* The stored messages are of this height and in the order of their places.
InPlaces ==
  /\ saved \in Seq([height : Nat, place : Nat]) /\ height \in Nat /\ place \in Nat
  /\ \A i \in DOMAIN saved : saved[i].height = height /\ saved[i].place <= place
  /\ \A i, j \in DOMAIN saved : i < j => saved[i].place < saved[j].place

(***************************************************************************)
(* While the height lasts, the vote is stored and the index is that of the *)
(* vote, as messages are only added at the end: inductive.                 *)
(***************************************************************************)
ReaderInv ==
  /\ InPlaces /\ wanted \in [height : Nat, place : Nat] /\ wanted.height <= height
  /\ reader \in {"none", "lookup", "check", "read", "done", "panic"}
  /\ reader \notin {"done", "panic"} => posted = {}
  /\ reader = "none" => wanted.height < height
  /\ height = wanted.height =>
       /\ posted \subseteq {wanted} /\ reader # "panic"
       /\ \E k \in DOMAIN saved : saved[k] = wanted
       /\ reader \in {"check", "read"} => index \in DOMAIN saved /\ saved[index] = wanted
=============================================================================
