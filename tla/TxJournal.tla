------------------------------ MODULE TxJournal ------------------------------
(***************************************************************************)
(* The journal of local transactions, core/tx_journal.go, and the pool     *)
(* that writes it and is filled from it when the node starts again.        *)
(***************************************************************************)
EXTENDS TxPool

CONSTANT MaxJournal   \* bound: nothing is added to a longer file

VARIABLES
  journal,            \* the file, a sequence of transactions
  open,               \* whether journal.writer is set
  submitted           \* history: pooled transactions that came as local ones

jvars == <<vars, journal, open, submitted>>

\* The transactions of a batch that add accepts from a local account: add
\* journals them in their order.
Journaled(p, h, txs, local) ==
  LET added == FoldLeft(LAMBDA q, t : add(q, h, t, local), p, txs)
  IN  SelectSeq(txs, LAMBDA t : t \in added.all \ p.all /\ t.from \in added.locals)

\* local(): by account, in the order of the map, pending before queued.
Dump(p, order) ==
  LET dump(a) == IF a \in p.locals THEN ByNonce(List(p.pending, a)) \o ByNonce(List(p.queue, a))
                 ELSE <<>>
      accounts == SetToSortSeq(Accounts, LAMBDA a, b : order[a] < order[b])
  IN  FlattenSeq([i \in DOMAIN accounts |-> dump(accounts[i])])

insert(txs) == journal' = IF open THEN journal \o txs ELSE journal

JournalInit == Init /\ journal = <<>> /\ open = TRUE /\ submitted = {}

JournalAdd(txs, local, order) ==
  /\ Len(journal) + Len(txs) <= MaxJournal
  /\ AddTxs(txs, local, order)
  /\ insert(Journaled(pool, state, txs, local))
  /\ submitted' = (submitted \cup ToSet(Journaled(pool, state, txs, local))) \cap pool'.all
  /\ UNCHANGED open

JournalHead(h, order) ==
  LET p   == [pool EXCEPT !.nonces = [a \in Accounts |-> GetNonce(h, a)]]
      txs == Journaled(p, h, Reinject(head, h), FALSE)
  IN  /\ Len(journal) + Len(txs) <= MaxJournal
      /\ ChainHead(h, order)
      /\ insert(txs)
      /\ submitted' = (submitted \cup ToSet(txs)) \cap pool'.all
      /\ UNCHANGED open

JournalEvict == Evict /\ submitted' = submitted \cap pool'.all /\ UNCHANGED <<journal, open>>

\* rotate closes the file, writes another, renames it and opens it: each may
\* fail, the last with the new file in place.
Rotated(p, before, order) ==
  \/ journal' = Dump(p, order) /\ open' \in BOOLEAN
  \/ journal' = before /\ open' = FALSE

Rotate(order) ==
  /\ Rotated(pool, journal, order)
  /\ UNCHANGED <<vars, submitted>>

\* The process ends, at any time, and NewTxPool loads the journal and rotates.
Restart(h, order) ==
  LET p == [Empty EXCEPT !.nonces = [a \in Accounts |-> GetNonce(h, a)]]
  IN  /\ state' = h /\ head' = h
      /\ pool' = addTxsLocked(p, h, journal, TRUE, order)
      /\ Rotated(pool', journal, order)
      /\ submitted' = pool'.all

JournalNext ==
  \E order \in Orders :
    \/ \E t \in Txs, local \in BOOLEAN : JournalAdd(<<t>>, local, order)
    \/ \E h \in Heads : JournalHead(h, order)
    \/ JournalEvict
    \/ Rotate(order)
    \/ \E h \in Heads : Restart(h, order)

JournalSpec == JournalInit /\ [][JournalNext]_jvars

-----------------------------------------------------------------------------
\* While the journal is open, whatever failed before, the file holds every
\* pooled transaction that came as a local one.
JournalHasLocals == open => submitted \subseteq ToSet(journal)

\* tx_journal.go: "storing locally created transactions to allow non-executed
\* ones to survive node restarts".  A transaction that came as a local one is
\* pooled again after a restart, if the journal was open and the state allows it.
\* The code does not do this: TLC finds a counterexample.
SurvivesRestart ==
  [][\A h \in Heads : (\E order \in Orders : Restart(h, order)) /\ open =>
       \A t \in submitted : GetNonce(h, t.from) <= t.nonce /\ Payable(h, t) =>
                              t \in pool'.all]_jvars

=============================================================================
