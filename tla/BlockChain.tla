------------------------------ MODULE BlockChain ------------------------------
(***************************************************************************)
(* core/blockchain.go: how a node writes its chain to the key-value store,  *)
(* one put at a time, and what it makes of the store after a crash.         *)
(*                                                                          *)
(* db is what the store holds, mem what the process holds besides it.  All  *)
(* writers hold chainmu, so one job runs at a time; its remaining puts are  *)
(* the sequence todo, and the process may crash between any two of them.    *)
(* Batches are one put.  Blocks are valid; ties of total difficulty, and    *)
(* whether it is time to flush a trie, are free choices.  Times (future     *)
(* blocks), fast sync and the freezer are left out.                         *)
(***************************************************************************)
EXTENDS Integers, FiniteSets, SequencesExt

CONSTANTS Blocks, Genesis, None,
          Parent, Difficulty, Root, Txs,    \* the header fields, as functions on Blocks
          TriesInMemory, Archive,           \* cacheConfig
          Imports,                          \* the chains peers hand to InsertChain
          Targets,                          \* the numbers SetHead is called with
          MayCrash

VARIABLES db, mem, todo, imp, status
vars == <<db, mem, todo, imp, status>>

(* The sequence of blocks from the genesis to b. *)
Chain[b \in Blocks] == IF b = Genesis THEN <<b>> ELSE Append(Chain[Parent[b]], b)
Number(b) == Len(Chain[b]) - 1
(* The total difficulty WriteTd stores for b. *)
Td[b \in Blocks] == IF b = Genesis THEN Difficulty[b] ELSE Td[Parent[b]] + Difficulty[b]
Line(b) == ToSet(Chain[b])

Numbers == 0 .. Max({Number(b) : b \in Blocks})
AllTxs == UNION {Txs[b] : b \in Blocks}

Idle == [left |-> <<>>, phase |-> "idle", extern |-> -1, prev |-> None]

Init ==
  /\ db = [td |-> {Genesis}, body |-> {Genesis}, header |-> {Genesis},
           receipts |-> {Genesis}, lookup |-> [t \in AllTxs |-> -1],
           canon |-> [n \in Numbers |-> IF n = 0 THEN Genesis ELSE None],
           headBlock |-> Genesis, headHeader |-> Genesis, headFast |-> Genesis,
           states |-> {Root[Genesis]}]
  /\ mem = [block |-> Genesis, header |-> Genesis, fast |-> Genesis, gc |-> {}]
  /\ todo = <<>> /\ imp = Idle /\ status = "up"

-----------------------------------------------------------------------------
(* Reading the store. *)
HasBlock(b) == b \in db.body
GetBlock(b) == b \in db.body /\ b \in db.header
HasState(b) == Root[b] \in db.states \/ \E g \in mem.gc : Root[g] = Root[b]
HasBlockAndState(b) == GetBlock(b) /\ HasState(b)

(* What the header verifier and ValidateBody answer for a valid block. *)
ValidateBody(b) ==
  CASE HasBlockAndState(b)                                    -> "known"
    [] ~HasBlockAndState(b) /\ HasBlockAndState(Parent[b])    -> "ok"
    [] ~HasBlockAndState(b) /\ ~HasBlockAndState(Parent[b])
         /\ HasBlock(Parent[b])                               -> "pruned"
    [] OTHER                                                  -> "unknown ancestor"

-----------------------------------------------------------------------------
(* One put of the running job. *)
Op(name, b) == [op |-> name, b |-> b]
Doing(name) == status = "up" /\ todo # <<>> /\ todo[1].op = name
Arg == todo[1].b
(* The job goes on with these puts before the ones that were left. *)
Push(ops) == todo' = ops \o Tail(todo)
Put(field, value) ==
  /\ db' = [db EXCEPT ![field] = value]
  /\ Push(<<>>)

WriteTd == Doing("td") /\ Put("td", db.td \cup {Arg}) /\ UNCHANGED <<mem, imp, status>>
WriteBody == Doing("body") /\ Put("body", db.body \cup {Arg}) /\ UNCHANGED <<mem, imp, status>>
WriteHeader == Doing("header") /\ Put("header", db.header \cup {Arg}) /\ UNCHANGED <<mem, imp, status>>

(* A lookup is the number of the block; -1 stands for none. *)
WriteTxLookupEntries ==
  /\ Doing("lookups")
  /\ Put("lookup", [t \in AllTxs |-> IF t \in Txs[Arg] THEN Number(Arg) ELSE db.lookup[t]])
  /\ UNCHANGED <<mem, imp, status>>

(* state.Commit and the trie garbage collection that follows it. *)
CommitState ==
  /\ Doing("state")
  /\ \E flush \in BOOLEAN :
       LET chosen == Number(Arg) - TriesInMemory
           gc     == mem.gc \cup {Arg}
           target == IF chosen > 0 THEN db.canon[chosen] ELSE None
           live   == target # None /\ (HasState(target) \/ Root[target] = Root[Arg])
       IN /\ flush => ~Archive /\ live
          /\ mem' = [mem EXCEPT !.gc = IF Archive THEN {}
                                       ELSE {g \in gc : chosen > 0 => Number(g) > chosen}]
          /\ db' = [db EXCEPT !.states = @ \cup (IF Archive THEN {Root[Arg]}
                                                 ELSE IF flush THEN {Root[target]} ELSE {})]
  /\ Push(<<>>) /\ UNCHANGED <<imp, status>>

(* insert: whether the other heads follow is decided before the first put. *)
InsertHead ==
  /\ Doing("insert")
  /\ db' = [db EXCEPT !.canon[Number(Arg)] = Arg]
  /\ Push(<<Op("headBlock", Arg)>> \o
          IF db.canon[Number(Arg)] # Arg
            THEN <<Op("headHeader", Arg), Op("headFast", Arg)>> ELSE <<>>)
  /\ UNCHANGED <<mem, imp, status>>

WriteHeadBlockHash ==
  /\ Doing("headBlock") /\ Put("headBlock", Arg)
  /\ mem' = [mem EXCEPT !.block = Arg] /\ UNCHANGED <<imp, status>>
SetCurrentHeader ==
  /\ Doing("headHeader") /\ Put("headHeader", Arg)
  /\ mem' = [mem EXCEPT !.header = Arg] /\ UNCHANGED <<imp, status>>
WriteHeadFastBlockHash ==
  /\ Doing("headFast") /\ Put("headFast", Arg)
  /\ mem' = [mem EXCEPT !.fast = Arg] /\ UNCHANGED <<imp, status>>

-----------------------------------------------------------------------------
(* reorg(old, new): its puts, with the blocks between the fork and the new  *)
(* head in increasing order, the new head excepted.                         *)
NewChain(old, new) == SelectSeq(Chain[new], LAMBDA x : x \notin Line(old))
OldChain(old, new) == Line(old) \ Line(new)
CommonBlock(old, new) == Chain[new][Len(Chain[new]) - Len(NewChain(old, new))]

\* Mutant: reorg drops the lookups of transactions the new chain also holds.
ReorgOpsDropsLookups(old, new) ==
  FlattenSeq([i \in 1 .. Len(NewChain(old, new)) - 1 |->
    <<Op("insert", NewChain(old, new)[i]), Op("lookups", NewChain(old, new)[i])>>])
  \o <<[op |-> "cut", b |-> None, txs |-> UNION {Txs[x] : x \in OldChain(old, new)}]>>
ReorgOps(old, new) ==
  LET rewritten == IF NewChain(old, new) = <<>> THEN <<>> ELSE Front(NewChain(old, new))
      added == UNION {Txs[x] : x \in ToSet(rewritten)}
      deleted == UNION {Txs[x] : x \in OldChain(old, new)}
  IN FlattenSeq([i \in DOMAIN rewritten |->
       <<Op("insert", rewritten[i]), Op("lookups", rewritten[i])>>])
     \o <<[op |-> "cut", b |-> None, txs |-> deleted \ added]>>
(* GetBlock finds every block reorg walks over. *)
ReorgFinds(old, new) ==
  \A x \in OldChain(old, new) \cup ToSet(NewChain(old, new)) \cup {CommonBlock(old, new)} : GetBlock(x)

(* The first number after n, upwards, that has no canonical hash. *)
CanonRun(n) == {i \in Numbers : i > n /\ \A j \in n + 1 .. i : db.canon[j] # None}

(* The batch that ends a reorg. *)
CutCanonical ==
  /\ Doing("cut")
  /\ db' = [db EXCEPT !.lookup = [t \in AllTxs |-> IF t \in todo[1].txs THEN -1 ELSE @[t]],
                      !.canon = [n \in Numbers |-> IF n \in CanonRun(Number(mem.block))
                                                     THEN None ELSE @[n]]]
  /\ Push(<<>>) /\ UNCHANGED <<mem, imp, status>>

(* The process ends: only db is left. *)
Dies(how) ==
  /\ todo' = <<>> /\ imp' = Idle /\ status' = how /\ UNCHANGED db
  /\ mem' = [block |-> Genesis, header |-> Genesis, fast |-> Genesis, gc |-> {}]

(* An error returned by a job: the import it belongs to ends there. *)
Abort == todo' = <<>> /\ imp' = Idle /\ UNCHANGED <<db, mem, status>>

(* The choice of writeBlockWithState, once the block and its state are      *)
(* written, and what it makes of it.                                        *)
WriteStatus(b) ==
  {r \in BOOLEAN :
     r = \/ Td[b] > Td[mem.block]
         \/ /\ Td[b] = Td[mem.block]
            /\ \/ Number(b) < Number(mem.block)
               \/ Number(b) = Number(mem.block) /\ r}
Decide ==
  /\ Doing("decide")
  /\ \E canonical \in WriteStatus(Arg) :
       LET moves == canonical /\ Parent[Arg] # mem.block
       IN \/ moves /\ ~ReorgFinds(mem.block, Arg) /\ Abort
          \/ /\ moves => ReorgFinds(mem.block, Arg)
             /\ Push((IF moves THEN ReorgOps(mem.block, Arg) ELSE <<>>)
                     \o <<[op |-> "batch", b |-> Arg, canonical |-> canonical]>>
                     \o (IF canonical THEN <<Op("insert", Arg)>> ELSE <<>>))
             /\ UNCHANGED <<db, mem, imp, status>>

(* The batch of receipts, with the transaction lookups of a new head. *)
WriteBatch ==
  /\ Doing("batch")
  /\ db' = [db EXCEPT !.receipts = @ \cup {Arg},
                      !.lookup = [t \in AllTxs |-> IF todo[1].canonical /\ t \in Txs[Arg]
                                                     THEN Number(Arg) ELSE @[t]]]
  /\ Push(<<>>) /\ UNCHANGED <<mem, imp, status>>

WriteBlockOps(b) == <<Op("td", b), Op("body", b), Op("header", b)>>
WriteBlockWithState(b) == WriteBlockOps(b) \o <<Op("state", b), Op("decide", b)>>

(* writeKnownBlock: the head moves to a block whose state is at hand. *)
KnownMoves(b) == Parent[b] # mem.block
WriteKnownBlock(b) ==
  (IF KnownMoves(b) THEN ReorgOps(mem.block, b) ELSE <<>>) \o <<Op("lookups", b), Op("insert", b)>>

-----------------------------------------------------------------------------
(* insertChain, a block at a time: imp.phase says which of its loops runs.  *)
InsertChain ==
  /\ status = "up" /\ todo = <<>> /\ imp = Idle
  /\ \E chain \in Imports : imp' = [Idle EXCEPT !.left = chain, !.phase = "skip"]
  /\ UNCHANGED <<db, mem, todo, status>>

(* it.next() *)
Importing(phases) == status = "up" /\ todo = <<>> /\ imp.phase \in phases /\ imp.left # <<>>
Block == imp.left[1]
Next1(phase) == [imp EXCEPT !.left = Tail(@), !.phase = phase, !.prev = Block]

SkipKnown ==
  /\ Importing({"skip"}) /\ ValidateBody(Block) = "known"
  /\ Td[mem.block] >= Td[Block]
  /\ imp' = Next1("skip") /\ UNCHANGED <<db, mem, todo, status>>

ImportKnown ==
  /\ Importing({"skip", "known", "import"}) /\ ValidateBody(Block) = "known"
  /\ imp.phase = "skip" => Td[mem.block] < Td[Block]
  /\ \/ KnownMoves(Block) /\ ~ReorgFinds(mem.block, Block) /\ Abort
     \/ /\ KnownMoves(Block) => ReorgFinds(mem.block, Block)
        /\ todo' = WriteKnownBlock(Block)
        /\ imp' = Next1(IF imp.phase = "skip" THEN "known" ELSE imp.phase)
        /\ UNCHANGED <<db, mem, status>>

ImportNew ==
  /\ Importing({"skip", "known", "import"}) /\ ValidateBody(Block) = "ok"
  /\ todo' = WriteBlockWithState(Block)
  /\ imp' = Next1("import") /\ UNCHANGED <<db, mem, status>>

(* After an import the parent's state is at hand, never pruned.             *)
ImportFails ==
  /\ Importing({"skip", "known", "import"}) /\ ValidateBody(Block) = "unknown ancestor"
  /\ Abort

ImportEnds ==
  /\ status = "up" /\ todo = <<>> /\ imp.phase \in {"skip", "known", "import"} /\ imp.left = <<>>
  /\ Abort

(* insertSideChain: a block whose parent's state is pruned is written       *)
(* without state, unless it is canonical already or claims the state root   *)
(* of the canonical block with its number.                                  *)
ImportSide ==
  /\ Importing({"skip", "known", "side"}) /\ ValidateBody(Block) = "pruned"
  /\ LET behind == Number(mem.block) >= Number(Block)
         canonical == db.canon[Number(Block)]
         seen == behind /\ canonical # None /\ GetBlock(canonical)
         extern == (IF imp.extern = -1 THEN Td[Parent[Block]] ELSE imp.extern) + Difficulty[Block]
     IN CASE seen /\ canonical = Block ->
               imp' = Next1("side") /\ UNCHANGED <<db, mem, todo, status>>
          [] seen /\ canonical # Block /\ Root[canonical] = Root[Block] -> Abort
          [] OTHER ->
               /\ imp' = [Next1("side") EXCEPT !.extern = extern]
               /\ todo' = IF HasBlock(Block) THEN <<>> ELSE WriteBlockOps(Block)
               /\ UNCHANGED <<db, mem, status>>

(* The blocks that must be executed to have the state of b. *)
Pruned(b) ==
  LET last == Max({i \in DOMAIN Chain[b] : HasState(Chain[b][i])})
  IN SubSeq(Chain[b], last + 1, Len(Chain[b]))

(* The side chain is written.  Comparing with a nil total difficulty, when  *)
(* every block was canonical, is a nil dereference.                         *)
SwitchToSide ==
  /\ status = "up" /\ todo = <<>> /\ imp.phase = "side"
  /\ imp.left # <<>> => ValidateBody(Block) # "pruned"
  /\ CASE imp.extern = -1 -> Dies("panic")
       [] imp.extern # -1 /\ Td[mem.block] > imp.extern -> Abort
       [] OTHER ->
            /\ imp' = IF ToSet(Pruned(imp.prev)) \subseteq db.header /\ Pruned(imp.prev) # <<>>
                        THEN [Idle EXCEPT !.left = Pruned(imp.prev), !.phase = "skip"]
                        ELSE Idle
            /\ UNCHANGED <<db, mem, todo, status>>

-----------------------------------------------------------------------------
(* loadLastState over a store d: the head block is the nearest ancestor of  *)
(* the stored head that has its state on disk; the other heads stay.        *)
Stored(d, b) == b \in d.body /\ b \in d.header
Opens(d, b) == Root[b] \in d.states \/ \E g \in mem.gc : Root[g] = Root[b]
Repaired(d) ==
  {b \in Line(d.headBlock) :
     /\ Opens(d, b)
     /\ \A x \in Line(d.headBlock) : Number(x) > Number(b) => Stored(d, x) /\ ~Opens(d, x)
     /\ Stored(d, b)}

LoadLastState(d, gc) ==
  IF Repaired(d) = {}
    THEN status' = "broken" /\ db' = d /\ mem' = [mem EXCEPT !.gc = gc]
    ELSE LET block  == CHOOSE b \in Repaired(d) : TRUE
             header == IF d.headHeader \in d.header THEN d.headHeader ELSE block
             fast   == IF Stored(d, d.headFast) THEN d.headFast ELSE block
         IN /\ status' = "up"
            /\ db' = [d EXCEPT !.headBlock = block, !.headHeader = header]
            /\ mem' = [block |-> block, header |-> header, fast |-> fast, gc |-> gc]

(* SetHead(n) *)
SetHead ==
  /\ status = "up" /\ todo = <<>> /\ imp = Idle
  /\ \E n \in Targets : todo' = <<[op |-> "rewind", b |-> None, n |-> n, dropped |-> {}]>>
  /\ UNCHANGED <<db, mem, imp, status>>

\* Mutant: SetHead passes no updateFn.
RewindHeaderOnly ==
  /\ Doing("rewind") /\ Number(mem.header) > todo[1].n
  /\ Push(<<Op("headHeader", Parent[mem.header]), [todo[1] EXCEPT !.dropped = @ \cup {mem.header}]>>)
  /\ UNCHANGED <<db, mem, imp, status>>
RewindHeader ==
  /\ Doing("rewind") /\ Number(mem.header) > todo[1].n
  /\ LET hdr    == mem.header
         parent == Parent[hdr]
         block  == IF HasBlockAndState(parent) THEN parent ELSE Genesis
         fast   == IF GetBlock(parent) THEN parent ELSE Genesis
     IN Push((IF Number(parent) < Number(mem.block) THEN <<Op("headBlock", block)>> ELSE <<>>)
             \o (IF Number(parent) < Number(mem.fast) THEN <<Op("headFast", fast)>> ELSE <<>>)
             \o <<Op("headHeader", parent), [todo[1] EXCEPT !.dropped = @ \cup {hdr}]>>)
  /\ UNCHANGED <<db, mem, imp, status>>

RewindEnds ==
  /\ Doing("rewind") /\ Number(mem.header) <= todo[1].n
  /\ LET dropped == todo[1].dropped
     IN db' = [db EXCEPT !.body = @ \ dropped, !.header = @ \ dropped, !.td = @ \ dropped,
                         !.receipts = @ \ dropped,
                         !.canon = [i \in Numbers |-> IF \E b \in dropped : Number(b) = i
                                                        THEN None ELSE @[i]]]
  /\ todo' = <<[op |-> "load", b |-> None, n |-> todo[1].n]>>
  /\ UNCHANGED <<mem, imp, status>>

RewindLoads ==
  /\ Doing("load")
  /\ LoadLastState(db, mem.gc)
  /\ Push(<<>>) /\ UNCHANGED imp

(* Stop: the states of three recent canonical blocks go to disk.  A running *)
(* import is cut at a block.                                                *)
Stop ==
  /\ status = "up" /\ todo = <<>> /\ imp.phase \in {"idle", "import"}
  /\ LET n == Number(mem.block)
         offsets == SelectSeq(<<0, 1, TriesInMemory - 1>>, LAMBDA o : n > o)
     IN todo' = (IF Archive THEN <<>>
                 ELSE [i \in DOMAIN offsets |-> Op("flush", db.canon[n - offsets[i]])])
                \o <<Op("exit", mem.block)>>
  /\ imp' = Idle /\ UNCHANGED <<db, mem, status>>
Flush ==
  /\ Doing("flush")
  /\ IF Arg = None
     THEN Dies("panic")
     ELSE /\ Put("states", IF HasState(Arg) THEN db.states \cup {Root[Arg]} ELSE db.states)
          /\ UNCHANGED <<mem, imp, status>>

Exit == Doing("exit") /\ Dies("down")
Crash == MayCrash /\ status = "up" /\ Dies("down")
(* NewBlockChain *)
Restart == status \in {"down", "panic"} /\ LoadLastState(db, {}) /\ UNCHANGED <<todo, imp>>

Writes ==
  \/ WriteTd \/ WriteBody \/ WriteHeader \/ WriteTxLookupEntries \/ CommitState \/ InsertHead
  \/ WriteHeadBlockHash \/ SetCurrentHeader \/ WriteHeadFastBlockHash \/ CutCanonical
  \/ Decide \/ WriteBatch \/ RewindHeader \/ RewindEnds \/ RewindLoads \/ Flush \/ Exit
ImportSteps ==
  \/ SkipKnown \/ ImportKnown \/ ImportNew \/ ImportFails \/ ImportEnds \/ ImportSide
  \/ SwitchToSide
Next == Writes \/ ImportSteps \/ InsertChain \/ SetHead \/ Stop \/ Crash \/ Restart

Spec == Init /\ [][Next]_vars

-----------------------------------------------------------------------------
Resting == status = "up" /\ todo = <<>> /\ imp = Idle

(* Property: when no job runs, GetBlockByNumber answers, for every number   *)
(* up to the head, the head's ancestor: reorg and insert leave no number of *)
(* another branch below the head.                                           *)
CanonicalToHead ==
  Resting => \A n \in 0 .. Number(mem.block) : db.canon[n] = Chain[mem.block][n + 1]

(* Property: no number above the head is assigned once reorg has moved the  *)
(* head and its header ("Delete any canonical number assignments above the  *)
(* new head").                                                              *)
\* The code does not do this: TLC finds a counterexample.
CanonicalStops ==
  Resting /\ mem.header = mem.block =>
    \A n \in Numbers : n > Number(mem.block) => db.canon[n] = None

(* Property: insert never leaves the head header behind the head block (it  *)
(* resets the other heads "if they are older").                             *)
HeaderFollows == Resting => Number(mem.header) >= Number(mem.block)

(* Property: the lookup of every transaction of the head's chain has the     *)
(* number of the block of that chain that holds it, whatever reorgs moved it *)
(* from block to block.                                                      *)
LookupsComplete ==
  Resting => \A b \in Line(mem.block) : \A t \in Txs[b] : db.lookup[t] = Number(b)

(* Property: no block that was executed, and whose state is at hand, has a  *)
(* higher total difficulty than the head writeBlockWithState chose.         *)
\* The code does not do this: TLC finds a counterexample.
HeadIsHeaviest ==
  Resting => \A b \in db.receipts : HasBlockAndState(b) => Td[b] <= Td[mem.block]

(* Property: the garbage collection of tries and the repair after a restart *)
(* always leave the head with its state.                                    *)
HeadHasState == Resting => HasBlockAndState(mem.block)

(* Property: the receipts of every block of the head's chain are stored,    *)
(* side blocks a reorg made canonical included.                             *)
ReceiptsKept == Resting => Line(mem.block) \subseteq db.receipts

(* Property: wherever a crash fell, the stored head is a stored block from  *)
(* which repair reaches one with state.                                     *)
AlwaysLoads == status # "broken"

(* Property: importing blocks the chain already holds, with their states    *)
(* pruned, does not bring the process down.                                 *)
\* The code does not do this: TLC finds a counterexample.
NoPanic == status # "panic"

(* Property: once SetHead(n) returns neither the head block nor the head    *)
(* header is above n.                                                       *)
\* The code does not do this: TLC finds a counterexample.
SetHeadRewinds ==
  [][RewindLoads => Number(mem'.block) <= todo[1].n /\ Number(mem'.header) <= todo[1].n]_vars
=============================================================================
