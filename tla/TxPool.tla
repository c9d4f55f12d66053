------------------------------- MODULE TxPool -------------------------------
(***************************************************************************)
(* The transaction pool: core/tx_pool.go with the lists of core/tx_list.go *)
(* and the nonces of core/state/managed_state.go.  Every exported method   *)
(* holds pool.mu from its first to its last line, so each is one action;   *)
(* what makes the pool hard is that every action runs several passes over  *)
(* the same lists, which must leave six indexes of the same transactions   *)
(* in agreement.  The pool is a record and a pass is an operator on it.    *)
(*                                                                         *)
(* ValidateTx admits one gas price, the network's, so no transaction ever  *)
(* replaces another of its nonce: txList.Add refuses the second.           *)
(***************************************************************************)
EXTENDS Integers, SequencesExt

CONSTANTS
  Accounts,      \* senders
  NoProvider,    \* a transaction whose sender pays its gas
  Txs,           \* transactions: [from, nonce, value, gas, provider]
  Heads,         \* head blocks: [blocks, balance, maxGas]
  AccountSlots, GlobalSlots, AccountQueue, GlobalQueue,   \* TxPoolConfig
  ReorgDepth,    \* reset reinjects no deeper reorganisation (64)
  Old            \* the age past Lifetime, and of an account with no heartbeat

VARIABLES
  pool,          \* TxPool's lists, see Empty
  state,         \* the head currentState belongs to
  head           \* loop's last head

vars == <<pool, state, head>>

List(txs, a) == {t \in txs : t.from = a}

Nonces(txs) == {t.nonce : t \in txs}

Overlaps(txs, t) == t.nonce \in Nonces(List(txs, t.from))

ByNonce(txs) == SetToSortSeq(txs, LAMBDA t, u : t.nonce < u.nonce)

\* What Cap removes: the highest nonces, until only k transactions are left.
Over(txs, k) == {t \in txs : Cardinality({u \in txs : u.nonce <= t.nonce}) > k}

\* Ready: the run of consecutive nonces from the lowest, if that is due.
Ready(txs, start) ==
  {t \in txs : /\ Min(Nonces(txs)) <= start
               /\ Min(Nonces(txs)) .. t.nonce \subseteq Nonces(txs)}

GetNonce(h, a) ==
  Cardinality({i \in 1 .. Len(FlattenSeq(h.blocks)) :
                 FlattenSeq(h.blocks)[i].from = a})

\* The sender pays the value; the gas is paid by the provider, if one signed.
Payable(h, t) ==
  /\ t.gas <= h.maxGas
  /\ IF t.provider = NoProvider
     THEN t.value + t.gas <= h.balance[t.from]
     ELSE t.value <= h.balance[t.from] /\ t.gas <= h.balance[t.provider]

-----------------------------------------------------------------------------
(* The priced list: a heap of transactions, some of them stale.            *)

Count(items) == FoldFunction(+, 0, items)

Removed(p, k) ==
  IF p.stales + k <= Count(p.items) \div 4
  THEN [p EXCEPT !.stales = @ + k]
  ELSE [p EXCEPT !.stales = 0,
                 !.items = [t \in Txs |-> IF t \in p.all THEN 1 ELSE 0]]

(***************************************************************************)
(* Cap above the network's price pops every item: the live ones of local   *)
(* accounts are pushed back.  A threshold no higher pops stale items until *)
(* the first live one, which goes back; of equal nonces any comes first.   *)
(***************************************************************************)
Popped(p, above, ties) ==
  LET live == {t \in p.all : p.items[t] > 0}
      top  == Max(Nonces(live) \cup {-1})
      early(t) == t \notin p.all /\ (t.nonce > top \/ (t.nonce = top /\ t \in ties))
  IN  {t \in Txs : p.items[t] > 0 /\ (above \/ early(t))}

Cap(p, above, ties) ==
  LET popped == Popped(p, above, ties)
      stale  == FoldFunctionOnSet(+, 0, p.items, popped \ p.all)
  IN  [p EXCEPT !.stales = @ - stale,
                !.items = [t \in Txs |->
                             IF t \in popped /\ ~(t \in p.all /\ t.from \in p.locals)
                             THEN 0 ELSE @[t]]]

-----------------------------------------------------------------------------
(* The passes.                                                             *)

enqueueTx(p, t) ==
  IF Overlaps(p.queue, t)
  THEN p
  ELSE [p EXCEPT !.queue = @ \cup {t},
                 !.all = @ \cup {t},
                 !.items[t] = IF t \in p.all THEN @ ELSE @ + 1]

promoteTx(p, t) ==
  IF Overlaps(p.pending, t)
  THEN Removed([p EXCEPT !.all = @ \ {t}], 1)
  ELSE [p EXCEPT !.pending = @ \cup {t},
                 !.nonces[t.from] = t.nonce + 1,
                 !.beats[t.from] = 0]

removeTx(p, t, outofbound) ==
  LET p1 == [p EXCEPT !.all = @ \ {t}]
      p2 == IF outofbound THEN Removed(p1, 1) ELSE p1
      a  == t.from
      invalids == {u \in List(p.pending, a) : u.nonce > t.nonce}
      rest == {u \in List(p.pending, a) : u.nonce < t.nonce}
      p3 == [p2 EXCEPT !.pending = (@ \ List(@, a)) \cup rest,
                       !.beats[a] = IF rest = {} THEN Old ELSE @,
                       !.nonces[a] = Min({@, t.nonce})]
  IN  CASE t \notin p.all -> p
        [] t \in p.all /\ Overlaps(p.pending, t) -> FoldSet(LAMBDA u, q : enqueueTx(q, u), p3, invalids)
        [] OTHER -> [p2 EXCEPT !.queue = {u \in @ : u.from # a \/ u.nonce # t.nonce}]

removeAll(p, txs) == FoldLeft(LAMBDA q, t : removeTx(q, t, TRUE), p, txs)

\* promoteExecutables, the pass over one account's queue.
promoteAccount(p, h, a) ==
  LET list     == List(p.queue, a)
      forwards == {t \in list : t.nonce < GetNonce(h, a)}
      drops    == {t \in list \ forwards : ~Payable(h, t)}
      readies  == Ready(list \ (forwards \cup drops), p.nonces[a])
      left     == list \ (forwards \cup drops \cup readies)
      caps     == IF a \in p.locals THEN {} ELSE Over(left, AccountQueue)
      p1 == [p EXCEPT !.queue = @ \ (forwards \cup drops \cup readies),
                      !.all = @ \ (forwards \cup drops)]
      p2 == FoldLeft(promoteTx, p1, ByNonce(readies))
      p3 == [p2 EXCEPT !.queue = @ \ caps, !.all = @ \ caps]
  IN  IF list = {} THEN p ELSE Removed(p3, Cardinality(forwards \cup drops \cup caps))

\* Mutant: the dropped transaction stays in pool.all.
dropLastLeaks(p, a) ==
  LET t == CHOOSE u \in List(p.pending, a) : u.nonce = Max(Nonces(List(p.pending, a)))
  IN  Removed([p EXCEPT !.pending = @ \ {t}, !.nonces[a] = Min({@, t.nonce})], 1)

\* Mutant: pendingState keeps the nonce of the dropped transaction.
dropLastKeepsNonce(p, a) ==
  LET t == CHOOSE u \in List(p.pending, a) : u.nonce = Max(Nonces(List(p.pending, a)))
  IN  Removed([p EXCEPT !.pending = @ \ {t}, !.all = @ \ {t}], 1)

\* One step of the equalisation: the account loses its highest nonce.
dropLast(p, a) ==
  LET t == CHOOSE u \in List(p.pending, a) : u.nonce = Max(Nonces(List(p.pending, a)))
  IN  Removed([p EXCEPT !.pending = @ \ {t}, !.all = @ \ {t},
                        !.nonces[a] = Min({@, t.nonce})], 1)

RECURSIVE reduce(_, _, _)
reduce(p, offenders, limit) ==
  IF Cardinality(p.pending) > GlobalSlots /\ Cardinality(List(p.pending, Last(offenders))) > limit
  THEN reduce(FoldLeft(dropLast, p, offenders), offenders, limit)
  ELSE p

\* Accounts sorted by key, largest first; equals in the order of the map.
Sorted(accounts, key, order) ==
  SetToSortSeq(accounts, LAMBDA a, b :
    key[a] > key[b] \/ (key[a] = key[b] /\ order[a] < order[b]))

capPending(p, order) ==
  LET len      == [a \in Accounts |-> Cardinality(List(p.pending, a))]
      spammers == Sorted({a \in Accounts \ p.locals : len[a] > AccountSlots}, len, order)
      equalize(q, k) == IF k = 1 THEN q
                        ELSE reduce(q, SubSeq(spammers, 1, k - 1), len[spammers[k]])
      equal    == FoldLeft(equalize, p, [k \in DOMAIN spammers |-> k])
  IN  IF Cardinality(p.pending) > GlobalSlots /\ spammers # <<>>
      THEN reduce(equal, spammers, AccountSlots)
      ELSE p

capQueue(p, order) ==
  LET recent    == [a \in Accounts |-> Old - p.beats[a]]
      addresses == Sorted({a \in Accounts \ p.locals : List(p.queue, a) # {}}, recent, order)
      shrink(q, a) ==
        LET list == List(q.queue, a)
            drop == Max({0, Cardinality(q.queue) - GlobalQueue})
            size == Cardinality(list)
        IN  IF size <= drop THEN removeAll(q, ByNonce(list))
            ELSE removeAll(q, Reverse(ByNonce(Over(list, size - drop))))
  IN  FoldLeft(shrink, p, addresses)

promoteExecutables(p, h, accounts, order) ==
  capQueue(capPending(FoldSet(LAMBDA a, q : promoteAccount(q, h, a), p, accounts), order), order)

demoteAccount(p, h, a) ==
  LET list     == List(p.pending, a)
      olds     == {t \in list : t.nonce < GetNonce(h, a)}
      drops    == {t \in list \ olds : ~Payable(h, t)}
      invalids == {t \in list \ (olds \cup drops) : \E u \in drops : u.nonce < t.nonce}
      left     == list \ (olds \cup drops \cup invalids)
      gapped   == IF GetNonce(h, a) \in Nonces(left) THEN {} ELSE left
      p1 == Removed([p EXCEPT !.pending = @ \ (list \ left),
                              !.all = @ \ (olds \cup drops)], Cardinality(olds \cup drops))
      p2 == FoldSet(LAMBDA t, q : enqueueTx(q, t), p1, invalids)
      p3 == FoldSet(LAMBDA t, q : enqueueTx(q, t), [p2 EXCEPT !.pending = @ \ gapped], gapped)
  IN  CASE list = {} -> p
        [] list # {} /\ left = gapped -> [p3 EXCEPT !.beats[a] = Old]
        [] OTHER -> p3

demoteUnexecutables(p, h) == FoldSet(LAMBDA a, q : demoteAccount(q, h, a), p, Accounts)

-----------------------------------------------------------------------------
(* The operations.                                                         *)

Empty == [pending |-> {}, queue |-> {}, all |-> {},
          items |-> [t \in Txs |-> 0], stales |-> 0,
          nonces |-> [a \in Accounts |-> 0],     \* pendingState
          beats |-> [a \in Accounts |-> Old],    \* ages, Old if there is none
          locals |-> {}, above |-> FALSE]        \* gasPrice > the network's

ValidateTx(p, h, t, local) ==
  /\ local \/ t.from \in p.locals \/ ~p.above
  /\ GetNonce(h, t.from) <= t.nonce
  /\ Payable(h, t)

add(p, h, t, local) ==
  IF /\ t \notin p.all
     /\ ValidateTx(p, h, t, local)
     /\ Cardinality(p.all) < GlobalSlots + GlobalQueue
     /\ ~Overlaps(p.pending, t) /\ ~Overlaps(p.queue, t)
  THEN [enqueueTx(p, t) EXCEPT !.locals = IF local THEN @ \cup {t.from} ELSE @]
  ELSE p

addTxsLocked(p, h, txs, local, order) ==
  LET added == FoldLeft(LAMBDA q, t : add(q, h, t, local), p, txs)
      dirty == {t.from : t \in added.all \ p.all}
  IN  IF dirty = {} THEN p ELSE promoteExecutables(added, h, dirty, order)

\* The transactions of the old chain that are not in the new one.
Reinject(old, new) ==
  LET fork == Max({i \in 0 .. Min({Len(old.blocks), Len(new.blocks)}) :
                     SubSeq(old.blocks, 1, i) = SubSeq(new.blocks, 1, i)})
      discarded == FlattenSeq(Reverse(SubSeq(old.blocks, fork + 1, Len(old.blocks))))
      included  == FlattenSeq(SubSeq(new.blocks, fork + 1, Len(new.blocks)))
      depth     == Len(old.blocks) - Len(new.blocks)
  IN  IF depth > ReorgDepth \/ -depth > ReorgDepth THEN <<>>
      ELSE SelectSeq(discarded, LAMBDA t : t \notin ToSet(included))

reset(p, old, new, order) ==
  LET p1 == [p EXCEPT !.nonces = [a \in Accounts |-> GetNonce(new, a)]]
      p2 == demoteUnexecutables(addTxsLocked(p1, new, Reinject(old, new), FALSE, order), new)
      p3 == [p2 EXCEPT !.nonces = [a \in Accounts |->
               IF List(p2.pending, a) = {} THEN @[a] ELSE Max(Nonces(List(p2.pending, a))) + 1]]
  IN  promoteExecutables(p3, new, Accounts, order)

-----------------------------------------------------------------------------
Orders == {f \in [Accounts -> 1 .. Cardinality(Accounts)] : IsInjective(f)}

\* NewTxPool.
Init ==
  /\ state \in Heads /\ head = state
  /\ pool = [Empty EXCEPT !.nonces = [a \in Accounts |-> GetNonce(state, a)]]

\* AddLocal, AddRemote, AddLocals and AddRemotes.
AddTxs(txs, local, order) ==
  /\ pool' = addTxsLocked(pool, state, txs, local, order)
  /\ UNCHANGED <<state, head>>

\* A ChainHeadEvent.
ChainHead(h, order) ==
  /\ pool' = reset(pool, head, h, order)
  /\ state' = h /\ head' = h

\* A ChainHeadEvent whose old head is no longer stored: reset gives up.
ChainHeadUnrooted(h) ==
  /\ Len(h.blocks) = 0 \/ Front(h.blocks) # head.blocks
  /\ Len(head.blocks) - Len(h.blocks) \in -ReorgDepth .. ReorgDepth
  /\ head' = h /\ UNCHANGED <<pool, state>>

\* Mutant: eviction does not spare the local accounts.
EvictEveryone ==
  LET idle == {a \in Accounts : pool.beats[a] = Old}
  IN  /\ pool' = FoldSet(LAMBDA a, q : removeAll(q, ByNonce(List(q.queue, a))), pool, idle)
      /\ UNCHANGED <<state, head>>

\* The eviction tick.
Evict ==
  LET idle == {a \in Accounts \ pool.locals : pool.beats[a] = Old}
  IN  /\ pool' = FoldSet(LAMBDA a, q : removeAll(q, ByNonce(List(q.queue, a))), pool, idle)
      /\ UNCHANGED <<state, head>>

\* Time passes for every heartbeat.
Age ==
  /\ pool' = [pool EXCEPT !.beats = [a \in Accounts |-> Min({@[a] + 1, Old})]]
  /\ UNCHANGED <<state, head>>

SetGasPrice(above, ties) ==
  LET p1   == Cap([pool EXCEPT !.above = above], above, ties)
      drop == IF above THEN {t \in pool.all : t.from \notin pool.locals} ELSE {}
  IN  /\ pool' = FoldLeft(LAMBDA q, t : removeTx(q, t, FALSE), p1, Reverse(ByNonce(drop)))
      /\ UNCHANGED <<state, head>>

Next ==
  \/ \E t, u \in Txs, local \in BOOLEAN, order \in Orders :
       AddTxs(IF t = u THEN <<t>> ELSE <<t, u>>, local, order)
  \/ \E h \in Heads, order \in Orders : ChainHead(h, order)
  \/ \E h \in Heads : ChainHeadUnrooted(h)
  \/ Evict
  \/ Age
  \/ \E above \in BOOLEAN, ties \in SUBSET {t \in Txs \ pool.all : pool.items[t] > 0} :
       SetGasPrice(above, ties)

Spec == Init /\ [][Next]_vars

-----------------------------------------------------------------------------
(* Properties.                                                             *)

\* pool.all, which answers Get and counts against the limits, and the two lists
\* hold the same transactions, and no nonce of an account is in both lists:
\* removeTx looks for a transaction by its nonce alone, in pending first.
IndexesAgree ==
  /\ pool.all = pool.pending \cup pool.queue
  /\ \A t, u \in pool.all : t.from = u.from /\ t.nonce = u.nonce => t = u

\* What Pending hands to the miner can be executed in order: for every account
\* the nonces run without a gap from currentState's to the one pendingState
\* gives out next, and currentState can pay for each of them.
PendingExecutable ==
  /\ \A a \in Accounts :
       Nonces(List(pool.pending, a)) = GetNonce(state, a) .. pool.nonces[a] - 1
  /\ \A t \in pool.pending : Payable(state, t)

\* No transaction is left in the queue that could be promoted: the lowest
\* queued nonce of an account is past the one pendingState gives out next.
QueueBlocked == \A t \in pool.queue : t.nonce > pool.nonces[t.from]

\* The limits of TxPoolConfig hold whenever the lock is free: more pending
\* transactions than GlobalSlots are the guaranteed ones and those of local
\* accounts, more queued ones than GlobalQueue are those of local accounts.
LimitsHold ==
  /\ Cardinality(pool.all) <= GlobalSlots + GlobalQueue
  /\ Cardinality(pool.pending) > GlobalSlots =>
       \A a \in Accounts \ pool.locals : Cardinality(List(pool.pending, a)) <= AccountSlots
  /\ Cardinality(pool.queue) > GlobalQueue => \A t \in pool.queue : t.from \in pool.locals
  /\ \A a \in Accounts \ pool.locals : Cardinality(List(pool.queue, a)) <= AccountQueue

\* Every pooled transaction has a price point in the heap, so that a raised gas
\* price finds it.
PricedCoversAll == \A t \in pool.all : pool.items[t] > 0

\* Only the chain removes a transaction of a local account: neither a limit of
\* the pool, nor the gas price, nor eviction does.
KeepsLocals ==
  state' = state /\ head' = head => {t \in pool.all : t.from \in pool.locals} \subseteq pool'.all

LocalsAreKept == [][KeepsLocals]_vars

\* validateTxPoolInternals of tx_pool_test.go: the live price points are as many
\* as the pending and queued transactions.
\* The code does not do this: TLC finds a counterexample.
PricedCount ==
  Count(pool.items) - pool.stales = Cardinality(pool.pending) + Cardinality(pool.queue)

=============================================================================
