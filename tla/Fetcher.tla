------------------------------ MODULE Fetcher ------------------------------
(***************************************************************************)
(* The block fetcher of the wire protocol (evr/fetcher/fetcher.go): one    *)
(* loop that turns the announcements of the peers into header requests,    *)
(* body requests and imports, and a goroutine for every import.            *)
(*                                                                         *)
(* A block is its hash.  Peers may announce, deliver and propagate         *)
(* anything at any time, so requests are not messages of the model and a   *)
(* reply may be late, repeated, unasked for or never come.  Ages are left  *)
(* to chance: any announcement may be found old enough, any fetch overdue. *)
(* The downloader inserts blocks behind the fetcher's back (OtherMeans).   *)
(* A body batch is a set; the fetcher's hooks and meters are left out.     *)
(***************************************************************************)
EXTENDS Integers, FiniteSetsExt, SequencesExt

CONSTANTS Peers,          \* the origins of announcements and blocks
          Blocks,         \* the blocks that exist, the genesis block apart
          Genesis,        \* number 0, always in the chain
          Number,         \* [Blocks -> 1..]
          Parent,         \* [Blocks -> Blocks \cup {Genesis}]
          Body,           \* [Blocks -> body], several blocks may share one
          NoBody,         \* the body of a block without transactions and uncles
          Claims,         \* [Blocks -> SUBSET Nat], numbers a peer may announce
          Verdict,        \* [Blocks -> {"ok", "future", "bad"}], verifyHeader
          OtherMeans,     \* blocks the downloader may insert
          HashLimit,      \* hashLimit
          BlockLimit,     \* blockLimit
          MaxUncleDist,   \* maxUncleDist
          MaxQueueDist,   \* maxQueueDist
          MayStop,        \* whether Stop is called
          MaxEntries,     \* bound: announcements of one block kept at a time
          MaxDrift        \* bound: how far an announce count may go below 0

VARIABLES f,              \* the maps of the Fetcher struct
          fetchTimer,     \* TRUE: armed, or its tick not yet received
          completeTimer,
          loop,           \* where the loop stands
          height,         \* the loop's local height
          imports,        \* the goroutines of insert
          chain,          \* the blocks the local chain holds
          quit            \* the quit channel is closed

vars == <<f, fetchTimer, completeTimer, loop, height, imports, chain, quit>>

Some(x) == <<x>>
Nil     == <<>>

Height == Max({Number[b] : b \in chain} \cup {0})

HasBlock(b) == b = Genesis \/ b \in chain

-----------------------------------------------------------------------------
(* Book-keeping.                                                           *)

Entries(h) == f.announced[h] \o f.fetching[h] \o f.fetched[h] \o f.completing[h]

\* Mutant: the announcements that wait for the timer are not uncounted.
ForgetHashKeepsCount(s, h) ==
    LET gone == s.fetching[h] \o s.fetched[h] \o s.completing[h]
    IN [s EXCEPT !.announces  = [p \in Peers |->
                     @[p] - Cardinality({i \in DOMAIN gone : gone[i].origin = p})],
                 !.announced[h] = Nil, !.fetching[h] = Nil,
                 !.fetched[h]   = Nil, !.completing[h] = Nil]

ForgetHash(s, h) ==
    LET gone == s.announced[h] \o s.fetching[h] \o s.fetched[h] \o s.completing[h]
    IN [s EXCEPT !.announces  = [p \in Peers |->
                     @[p] - Cardinality({i \in DOMAIN gone : gone[i].origin = p})],
                 !.announced[h] = Nil, !.fetching[h] = Nil,
                 !.fetched[h]   = Nil, !.completing[h] = Nil]

ForgetBlock(s, h) ==
    IF s.queued[h] = Nil THEN s
    ELSE [s EXCEPT !.queues[Head(s.queued[h])] = @ - 1, !.queued[h] = Nil]

TooFar(n) == n - Height < -MaxUncleDist \/ n - Height > MaxQueueDist

Enqueue(s, p, h) ==
    IF s.queues[p] + 1 > BlockLimit \/ TooFar(Number[h])
    THEN ForgetHash(s, h)
    ELSE IF s.queued[h] # Nil THEN s
    ELSE [s EXCEPT !.queues[p] = @ + 1,
                   !.queued[h] = Some(p),
                   !.queue = @ \cup {[origin |-> p, block |-> h]}]

-----------------------------------------------------------------------------
(* The loop.  Every turn first cleans up and imports what fits, then waits *)
(* for one event.                                                          *)

Expire(overdue) ==
    /\ loop = "expire"
    /\ f' = FoldSet(LAMBDA h, s : ForgetHash(s, h), f, overdue)
    /\ height' = Height
    /\ loop' = "import"
    /\ UNCHANGED <<fetchTimer, completeTimer, imports, chain, quit>>

AtFront(op) == \A other \in f.queue : Number[op.block] <= Number[other.block]

ImportQueued(op) ==
    /\ loop = "import" /\ op \in f.queue /\ AtFront(op)
    /\ Number[op.block] <= height + 1
    /\ LET popped == [f EXCEPT !.queue = @ \ {op}]
       IN IF Number[op.block] + MaxUncleDist < height \/ HasBlock(op.block)
          THEN f' = ForgetBlock(popped, op.block) /\ UNCHANGED imports
          ELSE /\ f' = popped
               /\ imports' = imports \cup {[origin |-> op.origin, block |-> op.block, at |-> "verify"]}
    /\ UNCHANGED <<fetchTimer, completeTimer, loop, height, chain, quit>>

Wait ==
    /\ loop = "import"
    /\ \A op \in f.queue : Number[op.block] > height + 1
    /\ loop' = "wait"
    /\ UNCHANGED <<f, fetchTimer, completeTimer, height, imports, chain, quit>>

Turn == loop = "wait" /\ loop' = "expire"

Announced(s) == {h \in Blocks : s.announced[h] # Nil}
Fetching(s)  == {h \in Blocks : s.fetching[h] # Nil}
Fetched(s)   == {h \in Blocks : s.fetched[h] # Nil}

Busy(h) == f.fetching[h] # Nil \/ f.completing[h] # Nil

Arms(s) == Cardinality(Announced(s)) = 1

Notify(p, h, n) ==
    /\ Turn
    /\ Len(f.announced[h]) < MaxEntries /\ f.announces[p] > -MaxDrift
    /\ LET ok == /\ f.announces[p] + 1 <= HashLimit
                 /\ n > 0 => ~TooFar(n)
                 /\ ~Busy(h)
           s  == [f EXCEPT !.announces[p] = @ + 1,
                           !.announced[h] = Append(@, [origin |-> p, number |-> n, header |-> FALSE])]
       IN IF ok THEN f' = s /\ fetchTimer' = (fetchTimer \/ Arms(s))
                ELSE UNCHANGED <<f, fetchTimer>>
    /\ UNCHANGED <<completeTimer, height, imports, chain, quit>>

Inject(p, h) ==
    /\ Turn
    /\ f' = Enqueue(f, p, h)
    /\ UNCHANGED <<fetchTimer, completeTimer, height, imports, chain, quit>>

\* Mutant: a finished import forgets the announcement, not the queued block.
FinishedHash(s, h) == ForgetHash(s, h)

Finished(s, h) == ForgetBlock(ForgetHash(s, h), h)

Done(i) ==
    /\ Turn
    /\ i \in imports /\ i.at = "done"
    /\ f' = Finished(f, i.block)
    /\ imports' = imports \ {i}
    /\ UNCHANGED <<fetchTimer, completeTimer, height, chain, quit>>

\* The chosen announcement of each ripe block goes to `to`, the others go.
Promote(from, to, ripe, pick) ==
    FoldSet(LAMBDA h, s :
                LET gone == ForgetHash(s, h)
                IN IF HasBlock(h) THEN gone
                   ELSE [gone EXCEPT ![to][h] = Some(from[h][pick[h]])],
            f, ripe)

Picks(from, ripe) ==
    {pick \in [ripe -> 1..MaxEntries] : \A h \in ripe : pick[h] <= Len(from[h])}

Rearms(s) == Announced(s) # {}

FetchTimer(ripe) ==
    /\ Turn /\ fetchTimer
    /\ ripe \subseteq Announced(f)
    /\ \E pick \in Picks(f.announced, ripe) :
           f' = Promote(f.announced, "fetching", ripe, pick)
    /\ fetchTimer' = Rearms(f')
    /\ UNCHANGED <<completeTimer, height, imports, chain, quit>>

CompleteTimer ==
    /\ Turn /\ completeTimer
    /\ \E pick \in Picks(f.fetched, Fetched(f)) :
           f' = Promote(f.fetched, "completing", Fetched(f), pick)
    /\ completeTimer' = (Fetched(f') # {})
    /\ UNCHANGED <<fetchTimer, height, imports, chain, quit>>

Requested(p, h) ==
    /\ f.fetching[h] # Nil /\ Head(f.fetching[h]).origin = p
    /\ f.fetched[h] = Nil /\ f.completing[h] = Nil /\ f.queued[h] = Nil

WithHeader(announce) == [announce EXCEPT !.header = TRUE]

\* A header nobody asked for goes back to the downloader and changes nothing.
HeaderFilter(p, h) ==
    /\ Turn /\ Requested(p, h)
    /\ LET announce == WithHeader(Head(f.fetching[h]))
           s == [f EXCEPT !.fetching[h] = Some(announce)]
       IN f' = IF announce.number # Number[h] \/ HasBlock(h) THEN ForgetHash(f, h)
               ELSE IF Body[h] = NoBody
               THEN Enqueue([s EXCEPT !.completing[h] = Some(announce)], p, h)
               ELSE [s EXCEPT !.fetched[h] = Append(@, announce)]
    /\ completeTimer' = (completeTimer \/ (f'.fetched # f.fetched /\ Cardinality(Fetched(f')) = 1))
    /\ UNCHANGED <<fetchTimer, height, imports, chain, quit>>

BodyFilter(p, bodies) ==
    LET matched == {h \in Blocks : /\ f.completing[h] # Nil /\ f.queued[h] = Nil
                                   /\ Head(f.completing[h]).origin = p
                                   /\ Body[h] \in bodies}
        known   == {h \in matched : HasBlock(h)}
    IN /\ Turn /\ matched # {}
       /\ \E blocks \in SetToSeqs(matched \ known) :
              f' = FoldLeft(LAMBDA s, h : Enqueue(s, p, h),
                            FoldSet(LAMBDA h, s : ForgetHash(s, h), f, known), blocks)
       /\ UNCHANGED <<fetchTimer, completeTimer, height, imports, chain, quit>>

Quits ==
    /\ quit /\ loop = "wait" /\ loop' = "done"
    /\ UNCHANGED <<f, fetchTimer, completeTimer, height, imports, chain, quit>>

-----------------------------------------------------------------------------
(* The goroutines of insert, the downloader and Stop.                      *)

Moves(i, at) == imports' = (imports \ {i}) \cup {[i EXCEPT !.at = at]}

Verify(i) ==
    /\ i \in imports /\ i.at = "verify"
    /\ Moves(i, IF HasBlock(Parent[i.block]) /\ Verdict[i.block] # "bad" THEN "insert" ELSE "done")
    /\ UNCHANGED <<f, fetchTimer, completeTimer, loop, height, chain, quit>>

\* The import may fail, and is discarded while a fast sync runs.
Insert(i) ==
    /\ i \in imports /\ i.at = "insert"
    /\ chain' \in {chain, chain \cup {i.block}}
    /\ Moves(i, "done")
    /\ UNCHANGED <<f, fetchTimer, completeTimer, loop, height, quit>>

Downloads(b) ==
    /\ b \in OtherMeans \ chain /\ HasBlock(Parent[b])
    /\ chain' = chain \cup {b}
    /\ UNCHANGED <<f, fetchTimer, completeTimer, loop, height, imports, quit>>

Stop ==
    /\ MayStop /\ ~quit
    /\ quit' = TRUE
    /\ UNCHANGED <<f, fetchTimer, completeTimer, loop, height, imports, chain>>

Init ==
    /\ f = [announces  |-> [p \in Peers |-> 0],
            announced  |-> [h \in Blocks |-> Nil], fetching   |-> [h \in Blocks |-> Nil],
            fetched    |-> [h \in Blocks |-> Nil], completing |-> [h \in Blocks |-> Nil],
            queue |-> {}, queues |-> [p \in Peers |-> 0], queued |-> [h \in Blocks |-> Nil]]
    /\ fetchTimer = TRUE /\ completeTimer = TRUE
    /\ loop = "expire" /\ height = 0 /\ imports = {} /\ chain = {} /\ quit = FALSE

Next ==
    \/ \E overdue \in SUBSET Fetching(f) : Expire(overdue)
    \/ \E op \in f.queue : ImportQueued(op)
    \/ Wait
    \/ \E p \in Peers, h \in Blocks : \E n \in Claims[h] : Notify(p, h, n)
    \/ \E p \in Peers, h \in Blocks : Inject(p, h) \/ HeaderFilter(p, h)
    \/ \E p \in Peers : \E bodies \in SUBSET {Body[h] : h \in Blocks} : BodyFilter(p, bodies)
    \/ \E ripe \in SUBSET Announced(f) : FetchTimer(ripe)
    \/ CompleteTimer
    \/ \E i \in imports : Done(i) \/ Verify(i) \/ Insert(i)
    \/ \E b \in OtherMeans : Downloads(b)
    \/ Stop \/ Quits

Spec == Init /\ [][Next]_vars

-----------------------------------------------------------------------------
(* Fairness.  A select picks among its ready cases at random, so a case    *)
(* that is ready again and again is chosen (SF).  The loop and the import  *)
(* goroutines run on (WF).  Time passes: what stays announced or fetching  *)
(* is old enough some day, in a turn that looks at it.                     *)
Fairness ==
    /\ WF_vars(\E overdue \in SUBSET Fetching(f) : Expire(overdue))
    /\ WF_vars(Wait \/ \E op \in f.queue : ImportQueued(op))
    /\ \A h \in Blocks :
          /\ SF_vars(\E overdue \in SUBSET Fetching(f) : h \in overdue /\ Expire(overdue))
          /\ SF_vars(\E ripe \in SUBSET Announced(f) : h \in ripe /\ FetchTimer(ripe))
          /\ SF_vars(\E i \in imports : i.block = h /\ Done(i))
          /\ WF_vars(\E i \in imports : i.block = h /\ (Verify(i) \/ Insert(i)))
    /\ SF_vars(CompleteTimer)
    /\ SF_vars(Quits)

FairSpec == Spec /\ Fairness

-----------------------------------------------------------------------------
(* Properties.                                                             *)

Outstanding(p) ==
    MapThenSumSet(LAMBDA h : Cardinality({i \in DOMAIN Entries(h) : Entries(h)[i].origin = p}), Blocks)

\* While an announcement waits for its time the fetch timer is armed, and
\* while a header waits for its body request the completion timer is: the
\* loop arms them for the first entry only and when they fire.
TimersArmed ==
    /\ Announced(f) # {} => fetchTimer
    /\ Fetched(f) # {} => completeTimer

\* The count of a peer's announcements never exceeds the entries the fetcher
\* keeps for it, so no peer is refused by hashLimit for announcements that
\* are gone (announces is decremented in forgetHash only).
CountsBacked == \A p \in Peers : f.announces[p] <= Outstanding(p)

\* queues counts exactly the queued blocks of each peer, and a queued block is
\* either in the priority queue or in exactly one running import: forgetBlock
\* never runs for a block that still waits, and no block is imported twice at
\* a time.
QueueAccounted ==
    /\ \A p \in Peers :
          f.queues[p] = Cardinality({h \in Blocks : f.queued[h] = Some(p)})
    /\ \A h \in Blocks :
          Cardinality({op \in f.queue : op.block = h}) + Cardinality({i \in imports : i.block = h})
              = Len(f.queued[h])

\* A block that is being fetched is not scheduled for fetching again, and
\* whatever waits for a body has the header its body is compared with
\* (bodyFilter dereferences announce.header).
FetchedOnce ==
    \A h \in Blocks :
        /\ f.announced[h] # Nil => ~(f.fetching[h] # Nil \/ f.completing[h] # Nil)
        /\ f.fetched[h] # Nil => f.fetching[h] # Nil /\ f.completing[h] = Nil
        /\ \A a \in Range(f.fetched[h] \o f.completing[h]) : a.header

\* "hashLimit: Maximum number of unique blocks a peer may have announced":
\* the blocks of a peer the fetcher works on are within the limit.
\* The code does not do this: TLC finds a counterexample.
AnnouncesLimited ==
    \A p \in Peers :
        Cardinality({h \in Blocks : \E i \in DOMAIN Entries(h) : Entries(h)[i].origin = p}) <= HashLimit

\* An announced block does not stay announced: it is requested, or forgotten
\* because it arrived some other way.
AnnouncedRequested == \A h \in Blocks : (f.announced[h] # Nil) ~> (f.announced[h] = Nil)

\* A queued block that fits on the chain is taken off the queue and its import
\* reported done: the loop turns again after every import.
QueuedImported ==
    \A h \in Blocks : (f.queued[h] # Nil /\ Number[h] <= Height + 1) ~> (f.queued[h] = Nil)

\* "fetchTimeout: Maximum allotted time to return an explicitly requested
\* block": a requested block that is never delivered is forgotten.
\* The code does not do this: TLC finds a counterexample.
RequestsEnd ==
    \A h \in Blocks : (f.fetching[h] # Nil \/ f.completing[h] # Nil)
                          ~> (f.fetching[h] = Nil /\ f.completing[h] = Nil)

\* "Stop terminates the announcement based synchroniser, canceling all pending
\* operations": no import goroutine stays behind.
\* The code does not do this: TLC finds a counterexample.
StopCancels == quit ~> (imports = {})
=============================================================================
