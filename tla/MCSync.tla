------------------------------- MODULE MCSync -------------------------------
(***************************************************************************)
(* The two ways in which blocks come from other nodes, the fetcher and the *)
(* downloader, on small instances.  They do not share state here, so a     *)
(* behaviour runs one of them: part says which.  The other stays as it is  *)
(* initially.                                                              *)
(***************************************************************************)
EXTENDS Integers, Sequences, FiniteSets, TLC

CONSTANTS Parts,            \* the parts that a run looks at
          f1, f2,           \* peers of the fetcher
          a1, a2, b1, g,    \* its blocks
          txs, none,        \* their bodies
          p1, p2            \* peers of the downloader

VARIABLES part,
  f, fetchTimer, completeTimer, loop, height, imports, chain, quit,
  q, registered, active, lacking, wire, fetch, scheduled, wake, ended, cancelled

fetcherVars == <<f, fetchTimer, completeTimer, loop, height, imports, chain, quit>>
queueVars == <<q, registered, active, lacking, wire, fetch, scheduled, wake, ended, cancelled>>
vars == <<part, fetcherVars, queueVars>>
-----------------------------------------------------------------------------
\* A chain of two blocks, of which the second comes too early.
LineNumber == a1 :> 1 @@ a2 :> 2
LineParent == a1 :> g @@ a2 :> a1
LineBody == a1 :> none @@ a2 :> txs
LineClaims == a1 :> {1} @@ a2 :> {0, 2}
LineVerdict == a1 :> "ok" @@ a2 :> "future"

\* Two peers that share a block queue of one place each.
Line == INSTANCE Fetcher WITH
  Peers <- {f1, f2}, Blocks <- {a1, a2}, Genesis <- g, NoBody <- none, Number <- LineNumber,
  Parent <- LineParent, Body <- LineBody, Claims <- LineClaims, Verdict <- LineVerdict,
  OtherMeans <- {a1}, HashLimit <- 2, BlockLimit <- 1, MaxUncleDist <- 0, MaxQueueDist <- 2,
  MayStop <- FALSE, MaxEntries <- 1, MaxDrift <- 1

\* The same with one peer, for what must eventually happen.
Short == INSTANCE Fetcher WITH
  Peers <- {f1}, Blocks <- {a1, a2}, Genesis <- g, NoBody <- none, Number <- LineNumber,
  Parent <- LineParent, Body <- LineBody, Claims <- LineClaims, Verdict <- LineVerdict,
  OtherMeans <- {}, HashLimit <- 2, BlockLimit <- 1, MaxUncleDist <- 0, MaxQueueDist <- 2,
  MayStop <- FALSE, MaxEntries <- 1, MaxDrift <- 1

\* Two blocks of one number with the same body, one of them bad, and a stop.
Fork == INSTANCE Fetcher WITH
  Peers <- {f1}, Blocks <- {a1, b1}, Genesis <- g, NoBody <- none, Number <- a1 :> 1 @@ b1 :> 1,
  Parent <- a1 :> g @@ b1 :> g, Body <- a1 :> txs @@ b1 :> txs,
  Claims <- a1 :> {1} @@ b1 :> {1}, Verdict <- a1 :> "ok" @@ b1 :> "bad",
  OtherMeans <- {b1}, HashLimit <- 2, BlockLimit <- 2, MaxUncleDist <- 0, MaxQueueDist <- 2,
  MayStop <- TRUE, MaxEntries <- 2, MaxDrift <- 1
-----------------------------------------------------------------------------
\* Block 2 has no transactions.
EmptyTwo == [k \in {"body", "receipt"} |-> {2}]

\* A full sync of more blocks than the cache holds, with answers that are lost
\* or come after their timeout, which here makes a peer idle.
FullSync == INSTANCE DownloadQueue WITH
  Peers <- {p1, p2}, Master <- p1, N <- 3, Batch <- 2, CacheItems <- 2, Limits <- {1, 2},
  Capacities <- {2}, MaxResults <- 1, DropFails <- 0, Fast <- FALSE, Empty <- EmptyTwo,
  MayLose <- TRUE, MayLeave <- FALSE

\* A shorter one, with peers that leave.
Leaving == INSTANCE DownloadQueue WITH
  Peers <- {p1, p2}, Master <- p1, N <- 2, Batch <- 2, CacheItems <- 2, Limits <- {1, 2},
  Capacities <- {2}, MaxResults <- 1, DropFails <- 1, Fast <- FALSE, Empty <- EmptyTwo,
  MayLose <- TRUE, MayLeave <- TRUE

\* A fast sync from one peer, with receipts.
FastSync == INSTANCE DownloadQueue WITH
  Peers <- {p1}, Master <- p1, N <- 2, Batch <- 1, CacheItems <- 2, Limits <- {2},
  Capacities <- {2}, MaxResults <- 1, DropFails <- 1, Fast <- TRUE, Empty <- EmptyTwo,
  MayLose <- FALSE, MayLeave <- FALSE

\* A full sync with peers that answer, for its end.
Ending == INSTANCE DownloadQueue WITH
  Peers <- {p1, p2}, Master <- p1, N <- 2, Batch <- 2, CacheItems <- 2, Limits <- {1, 2},
  Capacities <- {2}, MaxResults <- 1, DropFails <- 2, Fast <- FALSE, Empty <- EmptyTwo,
  MayLose <- FALSE, MayLeave <- FALSE
-----------------------------------------------------------------------------
Init ==
  /\ part \in Parts
  /\ CASE part = "short" -> Short!Init [] part = "fork" -> Fork!Init [] OTHER -> Line!Init
  /\ CASE part = "full" -> FullSync!Init [] part = "leaving" -> Leaving!Init
       [] part = "fast" -> FastSync!Init [] OTHER -> Ending!Init

Next ==
  /\ UNCHANGED part
  /\ \/ part = "line" /\ Line!Next /\ UNCHANGED queueVars
     \/ part = "short" /\ Short!Next /\ UNCHANGED queueVars
     \/ part = "fork" /\ Fork!Next /\ UNCHANGED queueVars
     \/ part = "full" /\ FullSync!Next /\ UNCHANGED fetcherVars
     \/ part = "leaving" /\ Leaving!Next /\ UNCHANGED fetcherVars
     \/ part = "fast" /\ FastSync!Next /\ UNCHANGED fetcherVars
     \/ part = "ending" /\ Ending!Next /\ UNCHANGED fetcherVars

Spec == Init /\ [][Next]_vars

Symmetry == Permutations({f1, f2})
-----------------------------------------------------------------------------
(***************************************************************************)
(* While an announcement or a header waits, the timer that requests it is  *)
(* armed; a block that is being fetched is not scheduled again; the count  *)
(* of a peer's announcements never exceeds the entries kept for it, so     *)
(* that no peer is refused for announcements that are gone; and queues     *)
(* counts each peer's queued blocks, each of which waits or is being       *)
(* imported, once (loop, forgetHash, enqueue, insert, forgetBlock).        *)
(***************************************************************************)
FetcherAccounts ==
  /\ part = "line" => /\ Line!TimersArmed /\ Line!FetchedOnce
                      /\ Line!CountsBacked /\ Line!QueueAccounted
  /\ part = "fork" => /\ Fork!TimersArmed /\ Fork!FetchedOnce
                      /\ Fork!CountsBacked /\ Fork!QueueAccounted

(***************************************************************************)
(* Every scheduled part of a block not yet handed out is in exactly one    *)
(* place: waiting, in one request, or done; no peer is asked twice at a    *)
(* time, a request in flight has its result slot, and the Pending count of *)
(* a result is the number of its parts that are not done, so that a block  *)
(* is handed out complete (reserveHeaders, deliver, expire, Revoke,        *)
(* Results).                                                               *)
(***************************************************************************)
DownloadAccounts ==
  /\ part = "full" => FullSync!EachOnce /\ FullSync!NeverDoubled /\ FullSync!SlotsSuffice
  /\ part = "leaving" => Leaving!EachOnce /\ Leaving!NeverDoubled
  /\ part = "fast" => FastSync!EachOnce /\ FastSync!NeverDoubled /\ FastSync!PendingExact

(***************************************************************************)
(* A sync that ends without an error has handed out every scheduled block  *)
(* (fetchParts, processFullSyncContent, spawnSync).                        *)
(***************************************************************************)
SyncComplete ==
  /\ part = "full" => FullSync!SyncComplete
  /\ part = "leaving" => Leaving!SyncComplete
  /\ part = "fast" => FastSync!SyncComplete

(***************************************************************************)
(* An announced block does not stay announced: it is requested, or         *)
(* forgotten because it came some other way; and a queued block that fits  *)
(* on the chain is taken off the queue and its import is reported done     *)
(* (loop, rescheduleFetch, insert).                                        *)
(***************************************************************************)
FetcherMovesOn ==
  Short!Fairness => (part = "short" => Short!AnnouncedRequested /\ Short!QueuedImported)

(***************************************************************************)
(* Every sync comes to its end: no goroutine waits for the others for ever *)
(* (spawnSync, fetchParts, processHeaders).                                *)
(***************************************************************************)
SyncEnds == Ending!Fairness => (part = "ending" => Ending!SyncEnds)
=============================================================================
