--------------------------- MODULE DownloadQueue ---------------------------
(***************************************************************************)
(* One synchronisation of the downloader: the queue that hands out body    *)
(* and receipt downloads and collects the results (evr/downloader/queue.go),*)
(* the two fetchParts loops that serve it, processHeaders, the content     *)
(* processor and spawnSync (evr/downloader/downloader.go), and the idle    *)
(* marks of the peers (evr/downloader/peer.go).                            *)
(*                                                                         *)
(* Headers form one valid chain, so a header is its number.  A request     *)
(* puts a message on the wire; its answer comes at any time, whole, cut    *)
(* short or empty, or never.  The memory limit of the result cache is any  *)
(* value of Limits.  Skeleton headers, the pivot of fast sync, the quality *)
(* of service measures and the wake-up hints (the ticker wakes the loops   *)
(* anyway) are left out.                                                   *)
(***************************************************************************)
EXTENDS Integers, FiniteSetsExt, SequencesExt

CONSTANTS Peers,        \* the registered peers
          Master,       \* cancelPeer, the peer the sync was started with
          N,            \* headers 1..N are scheduled
          Batch,        \* maxHeadersProcess, headers scheduled at a time
          CacheItems,   \* blockCacheItems, length of the result cache
          Limits,       \* slots the memory limit may leave
          Capacities,   \* items a peer may be asked for at a time
          MaxResults,   \* maxResultsProcess
          DropFails,    \* a timeout of at most so many items drops the peer
          Fast,         \* FastSync, receipts are wanted too
          Empty,        \* [Kinds -> SUBSET 1..N], parts that need no download
          MayLose,      \* whether answers get lost
          MayLeave      \* whether peers disconnect by themselves

Kinds == {"body", "receipt"}

VARIABLES q,            \* the queue
          registered,   \* the peers in the peer set
          active,       \* [Kinds -> SUBSET Peers], peers that are not idle
          lacking,      \* [Peers -> SUBSET 1..N]
          wire,         \* requests not answered yet
          fetch,        \* [Kinds -> the locals of fetchParts]
          scheduled,    \* headers given to Schedule
          wake,         \* [Kinds -> Seq({FALSE})], the stop signal in wakeCh
          ended,        \* [goroutine -> "no" | "nil" | "error"]
          cancelled     \* cancelCh is closed

vars == <<q, registered, active, lacking, wire, fetch, scheduled, wake, ended, cancelled>>

Goroutines == Kinds \cup {"headers", "content"}

Numbers    == 1..N
Nil        == -1
Components == IF Fast THEN 2 ELSE 1
Wanted     == IF Fast THEN Kinds ELSE {"body"}

Sorted(s)  == SortSeq(s, <)
InFlight(s, k) == {p \in Peers : s.pend[k][p] # <<>>}

-----------------------------------------------------------------------------
(* The queue.  Its methods hold the lock, so each is one step.             *)

ResultSlots(k, limit) ==
    LET window   == q.offset..(q.offset + limit - 1) \cap Numbers
        finished == {n \in window : n \in q.done[k] /\ \A m \in q.offset..n : q.cache[m] # Nil}
        pending(p) == Cardinality({i \in DOMAIN q.pend[k][p] : q.pend[k][p][i] \in window})
    IN limit - Cardinality(finished) - MapThenSumSet(pending, Peers)

Schedule(s, from, to) ==
    LET batch == [i \in 1..(to - from + 1) |-> from + i - 1]
    IN [s EXCEPT !.tasks = [k \in Kinds |-> IF k \in Wanted THEN Sorted(@[k] \o batch) ELSE @[k]]]

Slot(n) == n - q.offset

\* The tasks a reservation pops: not more than the free slots, and none after
\* the request is full.
Popped(k, p, count, limit) ==
    LET tasks == q.tasks[k]
        sends(j) == Cardinality({i \in 1..j : tasks[i] \notin Empty[k] \cup lacking[p]})
        len == Max({j \in 0..Len(tasks) : j = 0 \/ (j <= ResultSlots(k, limit) /\ sends(j - 1) < count)})
    IN SubSeq(tasks, 1, len)

Overflows(popped) == \E n \in Range(popped) : Slot(n) >= CacheItems \/ Slot(n) < 0

\* Mutant: what the peer lacks is not given back.
ReserveDropsSkipped(k, p, popped) ==
    LET noop == Range(popped) \cap Empty[k]
    IN [q EXCEPT !.cache = [n \in Numbers |->
                     IF n \notin Range(popped) THEN @[n]
                     ELSE (IF @[n] = Nil THEN Components ELSE @[n]) - (IF n \in noop THEN 1 ELSE 0)],
                 !.done[k] = @ \cup noop,
                 !.tasks[k] = SubSeq(@, Len(popped) + 1, Len(@)),
                 !.pend[k][p] = SelectSeq(popped, LAMBDA n : n \notin lacking[p] \cup noop)]

Reserve(k, p, popped) ==
    LET noop == Range(popped) \cap Empty[k]
    IN [q EXCEPT !.cache = [n \in Numbers |->
                     IF n \notin Range(popped) THEN @[n]
                     ELSE (IF @[n] = Nil THEN Components ELSE @[n]) - (IF n \in noop THEN 1 ELSE 0)],
                 !.done[k] = @ \cup noop,
                 !.tasks[k] = Sorted(SelectSeq(popped, LAMBDA n : n \in lacking[p] \ noop)
                                  \o SubSeq(@, Len(popped) + 1, Len(@))),
                 !.pend[k][p] = SelectSeq(popped, LAMBDA n : n \notin lacking[p] \cup noop)]

\* A request goes back to the tasks, on a timeout or because its peer left.
GiveBack(s, k, p) ==
    [s EXCEPT !.tasks[k] = Sorted(@ \o s.pend[k][p]), !.pend[k][p] = <<>>]

Revoke(s, p) == GiveBack(GiveBack(s, "body", p), "receipt", p)

\* How much of the answer fits the request: the leading items that match it
\* and whose result is still waiting.
Accepted(k, request, items) ==
    Max({j \in 0..Min({Len(request), Len(items)}) :
            \A i \in 1..j : /\ request[i] = items[i]
                            /\ Slot(request[i]) \in 0..(CacheItems - 1)
                            /\ q.cache[request[i]] # Nil})

InvalidChain(request, items, accepted) ==
    /\ accepted < Len(request) /\ accepted < Len(items)
    /\ LET n == request[accepted + 1]
       IN Slot(n) \notin 0..(CacheItems - 1) \/ q.cache[n] = Nil

Deliver(k, p, accepted) ==
    LET request == q.pend[k][p]
        good    == Range(SubSeq(request, 1, accepted))
    IN [q EXCEPT !.pend[k][p] = <<>>,
                 !.done[k] = @ \cup good,
                 !.cache = [n \in Numbers |-> IF n \in good THEN @[n] - 1 ELSE @[n]],
                 !.tasks[k] = Sorted(@ \o SubSeq(request, accepted + 1, Len(request)))]

Processable ==
    Cardinality({n \in Numbers : n >= q.offset /\ \A m \in q.offset..n : q.cache[m] = 0})

Results(nproc) ==
    LET out == q.offset..(q.offset + nproc - 1)
    IN [q EXCEPT !.done = [k \in Kinds |-> @[k] \ out],
                 !.cache = [n \in Numbers |-> IF n \in out THEN Nil ELSE @[n]],
                 !.offset = @ + nproc]

-----------------------------------------------------------------------------
(* The fetchParts loop of a kind: select, then an update that expires      *)
(* requests and hands out new ones to the idle peers one by one.           *)

AtSelect(k) == fetch[k].at = "select" /\ ended[k] = "no"

Ends(g, how) == ended' = [ended EXCEPT ![g] = how]

Cancelled(k) ==
    /\ AtSelect(k) /\ cancelled
    /\ Ends(k, "nil")
    /\ UNCHANGED <<q, registered, active, lacking, wire, fetch, scheduled, wake, cancelled>>

\* An answer of some leading items.  A stale one does not make its peer idle.
Stale(m, items) ==
    LET request == q.pend[m.kind][m.peer]
    IN /\ request # <<>> /\ items # <<>>
       /\ request[1] # items[1]
       /\ ~InvalidChain(request, items, 0)

Delivery(m, size) ==
    LET k == m.kind
        p == m.peer
        request  == q.pend[k][p]
        items    == SubSeq(m.items, 1, size)
        accepted == Accepted(k, request, items)
    IN /\ AtSelect(k) /\ m \in wire
       /\ wire' = wire \ {m}
       /\ IF p \notin registered THEN UNCHANGED <<q, lacking, active, ended>>
          ELSE IF request = <<>>
               THEN active' = [active EXCEPT ![k] = @ \ {p}] /\ UNCHANGED <<q, lacking, ended>>
          ELSE /\ q' = Deliver(k, p, accepted)
               /\ lacking' = IF items = <<>> THEN [lacking EXCEPT ![p] = @ \cup Range(request)] ELSE lacking
               /\ IF InvalidChain(request, items, accepted)
                  THEN Ends(k, "error") /\ UNCHANGED active
                  ELSE /\ active' = IF Stale(m, items) THEN active ELSE [active EXCEPT ![k] = @ \ {p}]
                       /\ UNCHANGED ended
       /\ UNCHANGED <<registered, fetch, scheduled, wake, cancelled>>

WakeUp(k) ==
    /\ AtSelect(k) /\ wake[k] # <<>>
    /\ wake' = [wake EXCEPT ![k] = <<>>]
    /\ fetch' = [fetch EXCEPT ![k].finished = TRUE]
    /\ UNCHANGED <<q, registered, active, lacking, wire, scheduled, ended, cancelled>>

Idles(peers, busy) == peers \ busy

\* Mutant: the loop ends with requests still in flight.
AllFetchedNot(s, k) == s.tasks[k] = <<>> /\ fetch[k].finished

AllFetched(s, k) == s.tasks[k] = <<>> /\ InFlight(s, k) = {} /\ fetch[k].finished

\* The update: overdue requests go back; a peer that timed out on much becomes
\* idle, on little is dropped, and with the master the sync is given up.
Update(k, overdue) ==
    LET expired == FoldSet(LAMBDA p, s : GiveBack(s, k, p), q, overdue)
        mild    == {p \in overdue \cap registered : Len(q.pend[k][p]) > DropFails}
        dropped == (overdue \cap registered) \ mild
        q2      == FoldSet(LAMBDA p, s : Revoke(s, p), expired, dropped)
        peers   == registered \ dropped
        idles   == Idles(peers, active[k] \ mild)
    IN /\ AtSelect(k) /\ registered # {}
       /\ overdue \subseteq InFlight(q, k)
       /\ q' = q2 /\ registered' = peers
       /\ active' = [active EXCEPT ![k] = @ \ mild]
       /\ cancelled' = (cancelled \/ Master \in dropped)
       /\ IF Master \in dropped THEN Ends(k, "error") /\ UNCHANGED fetch
          ELSE IF q2.tasks[k] = <<>>
          THEN IF AllFetched(q2, k)
               THEN Ends(k, "nil") /\ UNCHANGED fetch
               ELSE UNCHANGED <<ended, fetch>>
          ELSE /\ fetch' = [fetch EXCEPT ![k] =
                     [@ EXCEPT !.at = "assign", !.idles = idles,
                               !.all = (idles = peers), !.busy = (InFlight(q2, k) # {})]]
               /\ UNCHANGED ended
       /\ UNCHANGED <<lacking, wire, scheduled, wake>>

NoPeers(k) ==
    /\ AtSelect(k) /\ registered = {}
    /\ Ends(k, "error")
    /\ UNCHANGED <<q, registered, active, lacking, wire, fetch, scheduled, wake, cancelled>>

\* One idle peer gets a request.  `busy` stands for progressed, throttled or
\* running: there is no reason to give up.
Assign(k, p, count, limit) ==
    LET popped == Popped(k, p, count, limit)
        items  == Reserve(k, p, popped).pend[k][p]
    IN /\ fetch[k].at = "assign" /\ ended[k] = "no" /\ p \in fetch[k].idles
       /\ IF q.tasks[k] = <<>> \/ ResultSlots(k, limit) <= 0
          THEN /\ fetch' = [fetch EXCEPT ![k].idles = {}, ![k].busy = @ \/ ResultSlots(k, limit) <= 0]
               /\ UNCHANGED <<q, active, wire, ended>>
          ELSE IF q.pend[k][p] # <<>>
          THEN fetch' = [fetch EXCEPT ![k].idles = @ \ {p}] /\ UNCHANGED <<q, active, wire, ended>>
          ELSE IF Overflows(popped)
          THEN Ends(k, "error") /\ UNCHANGED <<q, active, wire, fetch>>
          ELSE /\ q' = Reserve(k, p, popped)
               /\ fetch' = [fetch EXCEPT ![k].idles = @ \ {p},
                                         ![k].busy = @ \/ items # <<>> \/ Range(popped) \cap Empty[k] # {}]
               /\ IF items = <<>> THEN UNCHANGED <<active, wire>>
                  ELSE /\ active' = [active EXCEPT ![k] = @ \cup {p}]
                       /\ wire' = wire \cup {[kind |-> k, peer |-> p, items |-> items]}
               /\ UNCHANGED ended
       /\ UNCHANGED <<registered, lacking, scheduled, wake, cancelled>>

\* All peers tried: back to select, or give up because nobody can help.
Assigned(k) ==
    /\ fetch[k].at = "assign" /\ ended[k] = "no" /\ fetch[k].idles = {}
    /\ fetch' = [fetch EXCEPT ![k].at = "select"]
    /\ IF ~fetch[k].busy /\ fetch[k].all /\ q.tasks[k] # <<>>
       THEN Ends(k, "error") ELSE UNCHANGED ended
    /\ UNCHANGED <<q, registered, active, lacking, wire, scheduled, wake, cancelled>>

-----------------------------------------------------------------------------
(* processHeaders, the content processor, spawnSync and the peers.         *)

ProcessHeaders ==
    /\ ended["headers"] = "no" /\ ~cancelled /\ scheduled < N
    /\ LET to == Min({scheduled + Batch, N})
       IN q' = Schedule(q, scheduled + 1, to) /\ scheduled' = to
    /\ UNCHANGED <<registered, active, lacking, wire, fetch, wake, ended, cancelled>>

\* The end of the headers is told to both loops, then processHeaders returns.
SignalDone(k) ==
    /\ ended["headers"] = "no" /\ scheduled = N
    /\ wake[k] = <<>> /\ ~fetch[k].finished
    /\ wake' = [wake EXCEPT ![k] = <<FALSE>>]
    /\ UNCHANGED <<q, registered, active, lacking, wire, fetch, scheduled, ended, cancelled>>

HeadersEnd ==
    /\ ended["headers"] = "no"
    /\ cancelled \/ (scheduled = N /\ \A k \in Kinds : wake[k] # <<>> \/ fetch[k].finished)
    /\ Ends("headers", "nil")
    /\ UNCHANGED <<q, registered, active, lacking, wire, fetch, scheduled, wake, cancelled>>

ProcessContent ==
    /\ ended["content"] = "no" /\ Processable > 0
    /\ q' = Results(Min({Processable, MaxResults}))
    /\ UNCHANGED <<registered, active, lacking, wire, fetch, scheduled, wake, ended, cancelled>>

ImportFails ==
    /\ ended["content"] = "no" /\ Processable > 0
    /\ q' = Results(Min({Processable, MaxResults}))
    /\ Ends("content", "error")
    /\ UNCHANGED <<registered, active, lacking, wire, fetch, scheduled, wake, cancelled>>

ContentEnds ==
    /\ ended["content"] = "no" /\ Processable = 0 /\ q.closed
    /\ Ends("content", "nil")
    /\ UNCHANGED <<q, registered, active, lacking, wire, fetch, scheduled, wake, cancelled>>

Failed == \E g \in Goroutines : ended[g] = "error"

\* Mutant: the queue is closed only when the content processor has ended too.
NoneLeft == \A g \in Goroutines : ended[g] # "no"

OneLeft == Cardinality({g \in Goroutines : ended[g] = "no"}) <= 1

\* spawnSync closes the queue on the first error, or when one goroutine is left.
SpawnSync ==
    /\ ~q.closed
    /\ Failed \/ OneLeft
    /\ q' = [q EXCEPT !.closed = TRUE]
    /\ cancelled' = (cancelled \/ Failed)
    /\ UNCHANGED <<registered, active, lacking, wire, fetch, scheduled, wake, ended>>

\* A peer disconnects: UnregisterPeer.
PeerLeaves(p) ==
    /\ MayLeave /\ p \in registered
    /\ registered' = registered \ {p}
    /\ q' = Revoke(q, p)
    /\ UNCHANGED <<active, lacking, wire, fetch, scheduled, wake, ended, cancelled>>

Lose(m) ==
    /\ MayLose /\ m \in wire
    /\ wire' = wire \ {m}
    /\ UNCHANGED <<q, registered, active, lacking, fetch, scheduled, wake, ended, cancelled>>

Over == \A g \in Goroutines : ended[g] # "no"

Finished == Over /\ UNCHANGED vars

Init ==
    /\ q = [tasks |-> [k \in Kinds |-> <<>>], pend |-> [k \in Kinds |-> [p \in Peers |-> <<>>]],
            done |-> [k \in Kinds |-> {}], cache |-> [n \in Numbers |-> Nil],
            offset |-> 1, closed |-> FALSE]
    /\ registered = Peers /\ active = [k \in Kinds |-> {}]
    /\ lacking = [p \in Peers |-> {}] /\ wire = {}
    /\ fetch = [k \in Kinds |-> [at |-> "select", idles |-> {}, all |-> FALSE, busy |-> FALSE, finished |-> FALSE]]
    /\ scheduled = 0 /\ wake = [k \in Kinds |-> <<>>]
    /\ ended = [g \in Goroutines |-> "no"] /\ cancelled = FALSE

Fetches(k) ==
    \/ Cancelled(k) \/ WakeUp(k) \/ NoPeers(k) \/ Assigned(k)
    \/ \E overdue \in SUBSET InFlight(q, k) : Update(k, overdue)
    \/ \E p \in Peers, count \in Capacities, limit \in Limits : Assign(k, p, count, limit)

Next ==
    \/ \E k \in Kinds : Fetches(k) \/ SignalDone(k)
    \/ \E m \in wire : Lose(m) \/ \E size \in 0..Len(m.items) : Delivery(m, size)
    \/ ProcessHeaders \/ HeadersEnd
    \/ ProcessContent \/ ImportFails \/ ContentEnds
    \/ SpawnSync
    \/ \E p \in Peers : PeerLeaves(p)
    \/ Finished

Spec == Init /\ [][Next]_vars

(* Fairness.  Every goroutine runs on; an answer that can be read again    *)
(* and again is read, since select picks at random; the ticker keeps the   *)
(* update coming, for every choice of idle peer.                           *)
Fairness ==
    /\ \A k \in Kinds :
          /\ WF_vars(Cancelled(k) \/ NoPeers(k))
          /\ SF_vars(Cancelled(k))
          /\ SF_vars(WakeUp(k))
          /\ SF_vars(Update(k, {}))
          /\ WF_vars(Assigned(k) \/ \E p \in Peers, count \in Capacities, limit \in Limits : Assign(k, p, count, limit))
          /\ WF_vars(SignalDone(k))
          /\ \A p \in Peers :
                SF_vars(\E m \in wire : m.kind = k /\ m.peer = p /\ \E size \in 0..Len(m.items) : Delivery(m, size))
    /\ WF_vars(ProcessHeaders) /\ WF_vars(HeadersEnd)
    /\ WF_vars(ProcessContent \/ ImportFails) /\ WF_vars(ContentEnds)
    /\ WF_vars(SpawnSync)

FairSpec == Spec /\ Fairness

-----------------------------------------------------------------------------
(* Properties.                                                             *)

Times(s, n) == Cardinality({i \in DOMAIN s : s[i] = n})

\* Every scheduled part of a block not yet handed out is in exactly one place:
\* waiting, in one request, or done.  Timeouts, revocations, stale and partial
\* answers neither lose nor double a download.
EachOnce ==
    \A k \in Wanted, n \in q.offset..scheduled :
        Times(q.tasks[k], n) + MapThenSumSet(LAMBDA p : Times(q.pend[k][p], n), Peers)
            + (IF n \in q.done[k] THEN 1 ELSE 0) = 1

\* The Pending count of a result is the number of its parts not done, so
\* Results hands out a block only with its body and, in fast sync, receipts.
PendingExact ==
    \A n \in Numbers : q.cache[n] # Nil =>
        q.cache[n] = Cardinality({k \in Wanted : n \notin q.done[k]})

\* A reservation never runs past the result cache ("index allocation went
\* beyond available resultCache space"), and a request in flight always has
\* its result slot, so no honest answer is taken for an invalid chain.
SlotsSuffice ==
    \A k \in Kinds, p \in Peers :
        /\ \A n \in Range(q.pend[k][p]) : Slot(n) \in 0..(CacheItems - 1) /\ q.cache[n] # Nil
        /\ (fetch[k].at = "assign" /\ p \in fetch[k].idles) =>
               \A count \in Capacities, limit \in Limits : ~Overflows(Popped(k, p, count, limit))

\* No peer is asked twice at a time: the fetch call of the loop never finds
\* the peer busy, which would panic.
NeverDoubled ==
    \A k \in Kinds :
        /\ fetch[k].at = "assign" => fetch[k].idles \cap active[k] = {}
        /\ InFlight(q, k) \cap registered \subseteq active[k]

\* A sync that ends without an error has handed out every scheduled block.
SyncComplete == (Over /\ ~Failed /\ ~cancelled) => q.offset = N + 1

\* Every sync comes to its end: no goroutine waits for the others for ever.
SyncEnds == <>Over

\* "If the delivery's stale, the peer should have already been idled": a stale
\* answer comes only from a peer that is marked idle.
\* The code does not do this: TLC finds a counterexample.
StaleIdled ==
    [][\A m \in wire : \A size \in 0..Len(m.items) :
          (m.peer \in registered /\ Stale(m, SubSeq(m.items, 1, size)) /\ Delivery(m, size))
              => m.peer \notin active[m.kind]]_vars
=============================================================================
