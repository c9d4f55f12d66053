---------------------------- MODULE BackendProofs ---------------------------
(***************************************************************************)
(* The commit channels never panic and never leave a reader behind, for    *)
(* any block numbers, blocks and any number of channels.  The miner, the   *)
(* core and the chain use them only by the steps of CommitChannels, so     *)
(* what is proved of these holds of Sealing.                               *)
(*                                                                         *)
(* The headers that the backend verifies in batches, ahead of the          *)
(* importer, are certified by the validators of their own epoch, for any   *)
(* length of an epoch, any validators, headers and batches.                *)
(***************************************************************************)
EXTENDS Sealing, Headers, FiniteSetTheorems, SequenceTheorems, TLAPS

(***************************************************************************)
(* Why no operation meets a closed channel: a registered channel is open,  *)
(* is one that was made, and is registered for one number only.            *)
(***************************************************************************)
RegisteredIsOpen ==
  /\ \A n \in Numbers : chs[n] # 0 => chs[n] \in open /\ chs[n] <= made
  /\ \A n, m \in Numbers : chs[n] = chs[m] /\ chs[n] # 0 => n = m
  /\ \A c \in Channels : c > made => waiter[c] = "none"

\* A reader is past its channel only with the block that it has read.
ReaderHasBlock ==
  \A c \in Channels : waiter[c] \in {"closing", "returning"} => buffer[c] # None

CCInv == CCTypeOK /\ RegisteredIsOpen /\ ReaderHasBlock /\ NoPanic /\ NoOrphanWaiter

\* Channels are numbers.
LEMMA TypeNat == CCTypeOK => made \in Nat /\ \A m \in Numbers : chs[m] \in Nat
<1> SUFFICES ASSUME CCTypeOK PROVE made \in Nat /\ \A m \in Numbers : chs[m] \in Nat
  OBVIOUS
<1>1. Channels \cup {0} \subseteq Nat
  BY CommitChannelsAssumption
<1> QED  BY <1>1 DEF CCTypeOK

\* No block is registered at first.
LEMMA CCInitInv == CCInit => CCInv
<1> SUFFICES ASSUME CCInit PROVE CCInv
  OBVIOUS
<1>1. CCTypeOK
  BY DEF CCInit, CCTypeOK
<1>2. RegisteredIsOpen /\ ReaderHasBlock /\ NoPanic /\ NoOrphanWaiter
  BY DEF CCInit, RegisteredIsOpen, ReaderHasBlock, NoPanic, NoOrphanWaiter
<1> QED  BY <1>1, <1>2 DEF CCInv

(***************************************************************************)
(* Closing the channel of a number takes it off the map, so the others,    *)
(* which are different channels, stay open.                                *)
(***************************************************************************)
LEMMA CloseInv ==
  ASSUME CCInv, NEW n \in Numbers, closeAndRemoveCommitChannel(n),
         waiter' \in [Channels -> {"none", "waiting", "closing", "returning", "done"}],
         \A c \in Channels : waiter'[c] = waiter[c]
                             \/ (waiter[c] = "closing" /\ waiter'[c] = "returning")
  PROVE  CCInv'
<1> USE DEF CCInv, closeAndRemoveCommitChannel
<1>1. CCTypeOK'
  BY CommitChannelsAssumption DEF CCTypeOK
<1>2. RegisteredIsOpen'
  BY CommitChannelsAssumption DEF CCTypeOK, RegisteredIsOpen
<1>3. ReaderHasBlock' /\ NoPanic'
  BY DEF CCTypeOK, RegisteredIsOpen, ReaderHasBlock, NoPanic
<1>4. NoOrphanWaiter'
  BY CommitChannelsAssumption DEF CCTypeOK, NoOrphanWaiter, Registered
<1> QED  BY <1>1, <1>2, <1>3, <1>4

\* Every step of the channels.
LEMMA CCNextInv == CCInv /\ [CCNext]_channels => CCInv'
<1> SUFFICES ASSUME CCInv, [CCNext]_channels PROVE CCInv'
  OBVIOUS
<1> USE CommitChannelsAssumption
<1>1. CASE UNCHANGED channels
  BY <1>1 DEF CCInv, CCTypeOK, RegisteredIsOpen, ReaderHasBlock, NoPanic, NoOrphanWaiter,
              Registered, channels
<1>2. ASSUME NEW b \in Blocks, sendBlock(b) PROVE CCInv'
  <2> USE <1>2 DEF CCInv, sendBlock
  <2>1. CCTypeOK'
    BY DEF CCTypeOK
  <2>2. RegisteredIsOpen' /\ NoPanic'
    BY DEF CCTypeOK, RegisteredIsOpen, NoPanic
  <2>3. ReaderHasBlock' /\ NoOrphanWaiter'
    BY DEF CCTypeOK, ReaderHasBlock, NoOrphanWaiter, Registered
  <2> QED  BY <2>1, <2>2, <2>3
<1>3. ASSUME NEW n \in Numbers, createCommitChannelAndCloseIfExist(n) PROVE CCInv'
  <2> USE <1>3 DEF CCInv, createCommitChannelAndCloseIfExist
  <2>1. CCTypeOK'
    BY DEF CCTypeOK
  <2>2. RegisteredIsOpen'
    <3>1. made \in Nat /\ \A m \in Numbers : chs[m] \in Nat
      BY TypeNat
    <3>2. \A m \in Numbers : chs'[m] = IF m = n THEN made + 1 ELSE chs[m]
      BY DEF CCTypeOK
    <3>3. \A m \in Numbers : chs[m] <= made
      BY <3>1 DEF RegisteredIsOpen
    <3>4. \A m \in Numbers : chs'[m] # 0 => chs'[m] \in open' /\ chs'[m] <= made'
      BY <3>1, <3>2 DEF RegisteredIsOpen
    <3>5. \A m, k \in Numbers : chs'[m] = chs'[k] /\ chs'[m] # 0 => m = k
      BY <3>1, <3>2, <3>3 DEF RegisteredIsOpen
    <3>6. \A c \in Channels : c > made' => waiter'[c] = "none"
      BY <3>1 DEF CCTypeOK, RegisteredIsOpen
    <3> QED  BY <3>4, <3>5, <3>6 DEF RegisteredIsOpen
  <2>3. ReaderHasBlock' /\ NoPanic'
    BY DEF CCTypeOK, RegisteredIsOpen, ReaderHasBlock, NoPanic
  <2>4. NoOrphanWaiter'
    BY DEF CCTypeOK, RegisteredIsOpen, NoOrphanWaiter, Registered
  <2> QED  BY <2>1, <2>2, <2>3, <2>4
<1>4. ASSUME NEW n \in Numbers, closeAndRemoveCommitChannel(n), UNCHANGED waiter PROVE CCInv'
  BY <1>4, CloseInv DEF CCInv, CCTypeOK
<1>5. CASE closeAndRemoveAllChannels
  <2> USE <1>5 DEF CCInv, closeAndRemoveAllChannels
  <2>1. CCTypeOK'
    BY DEF CCTypeOK
  <2>2. RegisteredIsOpen' /\ ReaderHasBlock' /\ NoPanic'
    BY DEF CCTypeOK, RegisteredIsOpen, ReaderHasBlock, NoPanic, Registered
  <2>3. NoOrphanWaiter'
    BY DEF CCTypeOK, NoOrphanWaiter, Registered
  <2> QED  BY <2>1, <2>2, <2>3
<1>6. ASSUME NEW c \in Channels, CloseAfterRead(c) PROVE CCInv'
  <2>1. buffer[c].number \in Numbers
    BY <1>6 DEF CCInv, CCTypeOK, ReaderHasBlock, CloseAfterRead
  <2>2. /\ waiter' \in [Channels -> {"none", "waiting", "closing", "returning", "done"}]
        /\ \A d \in Channels : waiter'[d] = waiter[d]
                               \/ (waiter[d] = "closing" /\ waiter'[d] = "returning")
    BY <1>6 DEF CCInv, CCTypeOK, CloseAfterRead
  <2> QED  BY <1>6, <2>1, <2>2, CloseInv DEF CloseAfterRead
<1>7. ASSUME NEW c \in Channels, ReadBlock(c) \/ Returned(c) \/ EndWait(c) PROVE CCInv'
  <2> USE <1>7 DEF CCInv, ReadBlock, Returned, EndWait
  <2>1. CCTypeOK'
    BY DEF CCTypeOK
  <2>2. RegisteredIsOpen' /\ ReaderHasBlock' /\ NoPanic'
    BY DEF CCTypeOK, RegisteredIsOpen, ReaderHasBlock, NoPanic
  <2>3. NoOrphanWaiter'
    BY DEF CCTypeOK, NoOrphanWaiter, Registered
  <2> QED  BY <2>1, <2>2, <2>3
<1> QED  BY <1>1, <1>2, <1>3, <1>4, <1>5, <1>6, <1>7 DEF CCNext

(***************************************************************************)
(* Whatever order Seal, Commit, Cancel, HandleNewChainHead and Start use   *)
(* the commit channels in, none of them panics and no goroutine of Seal is *)
(* left waiting at a channel that nobody can close or send to.             *)
(***************************************************************************)
THEOREM ChannelsSafe == CCSpec => []ChannelsKept
<1>1. CCInv => ChannelsKept
  BY DEF CCInv, ChannelsKept
<1> QED  BY CCInitInv, CCNextInv, <1>1, PTL DEF CCSpec
-----------------------------------------------------------------------------
\* The part of TypeOK that says which channels the steps are about.
BlocksOK ==
  /\ task \in Blocks \cup {None} /\ result \in Blocks \cup {None}
  /\ newBlocks \subseteq Blocks /\ pendingTasks \subseteq Blocks /\ fetcher \subseteq Blocks
  /\ resultCh \in Seq(Blocks)
  /\ head \in Numbers \cup {0} /\ chainHeadCh \in Seq(Numbers)

SInv == CCInv /\ BlocksOK

\* Nothing is sealed at first.
LEMMA SInitInv == Init => SInv
BY CCInitInv DEF Init, SInv, BlocksOK

\* The later of two numbers is a number.
LEMMA LaterType ==
  ASSUME NEW m \in Numbers, NEW n \in Numbers \cup {0}
  PROVE  Later(m, n) \in Numbers /\ Later(n, m) \in Numbers
<1>1. m \in Nat /\ m > 0 /\ n \in Nat
  BY SealingAssumption
<1> QED  BY <1>1 DEF Later

\* A channel is read only with a block in it.
LEMMA ReadIsBlock ==
  ASSUME SInv, NEW c \in Channels, Returned(c)
  PROVE  buffer[c] \in Blocks
BY DEF SInv, CCInv, CCTypeOK, ReaderHasBlock, Returned

(***************************************************************************)
(* Every step of Sealing is a step of the channels or leaves them alone.   *)
(***************************************************************************)
LEMMA StepUsesChannels == SInv /\ [Next]_vars => [CCNext]_channels
<1> SUFFICES ASSUME SInv, [Next]_vars PROVE [CCNext]_channels
  OBVIOUS
<1>1. CASE UNCHANGED vars
  BY <1>1 DEF vars, channels
<1>2. CASE Seal
  <2>1. task.number \in Numbers
    BY <1>2, CommitChannelsAssumption DEF Seal, SInv, BlocksOK
  <2> QED  BY <1>2, <2>1 DEF Seal, CCNext
<1>3. CASE SealWaiter
  BY <1>3 DEF SealWaiter, CCNext
<1>4. CASE HandleNewChainHead
  <2> DEFINE n == Later(Head(chainHeadCh), head)
  <2>1. n \in Numbers
    BY <1>4, LaterType DEF HandleNewChainHead, SInv, BlocksOK
  <2>2. (closeAndRemoveCommitChannel(n) /\ UNCHANGED waiter) \/ UNCHANGED channels
    BY <1>4 DEF HandleNewChainHead
  <2> HIDE DEF n
  <2> QED  BY <2>1, <2>2 DEF CCNext
<1>5. ASSUME NEW b \in Blocks, handleNewBlock(b) PROVE [CCNext]_channels
  BY <1>5, CommitChannelsAssumption DEF handleNewBlock, CCNext
<1>6. ASSUME NEW b \in Blocks, finalizeCommit(b) PROVE [CCNext]_channels
  BY <1>6 DEF finalizeCommit, Commit, CCNext
<1>7. CASE Start
  BY <1>7 DEF Start, CCNext
<1>8. ASSUME NEW b \in Blocks, VerifyAndSubmitPendingBlock(b) \/ BlockArrives(b) \/ FetcherInserts(b)
      PROVE  UNCHANGED channels
  BY <1>8 DEF VerifyAndSubmitPendingBlock, BlockArrives, FetcherInserts
<1>9. CASE commitNewWork \/ SkipTask \/ TakeResult \/ WriteBlockWithState \/ StopCore \/ tryStartCore
  BY <1>9 DEF commitNewWork, SkipTask, TakeResult, WriteBlockWithState, StopCore, tryStartCore
<1>10. ASSUME NEW n \in Numbers, handleFinalCommitted(n) PROVE UNCHANGED channels
  BY <1>10 DEF handleFinalCommitted
<1> QED  BY <1>1, <1>2, <1>3, <1>4, <1>5, <1>6, <1>7, <1>8, <1>9, <1>10 DEF Next, Steps

\* Every step of the sealing.
LEMMA SNextInv == SInv /\ [Next]_vars => SInv'
<1> SUFFICES ASSUME SInv, [Next]_vars PROVE SInv'
  OBVIOUS
<1>0. CCInv'
  BY StepUsesChannels, CCNextInv DEF SInv
<1> SUFFICES BlocksOK'
  BY <1>0 DEF SInv
<1> USE DEF SInv, BlocksOK
<1>1. CASE UNCHANGED vars
  BY <1>1 DEF vars, worker, events
<1>2. CASE commitNewWork
  BY <1>2, SealingAssumption DEF commitNewWork, events
<1>3. CASE Seal \/ SkipTask
  BY <1>3 DEF Seal, SkipTask, events
<1>4. CASE SealWaiter
  <2>1. PICK c \in Channels : UNCHANGED resultCh \/ (Returned(c) /\ resultCh' = Append(resultCh, buffer[c]))
    BY <1>4 DEF SealWaiter
  <2>2. resultCh' \in Seq(Blocks)
    BY <2>1, ReadIsBlock
  <2> QED  BY <1>4, <2>2 DEF SealWaiter, events
<1>5. CASE TakeResult
  BY <1>5 DEF TakeResult, events
<1>6. CASE WriteBlockWithState
  <2>1. result.number \in Numbers
    BY <1>6, CommitChannelsAssumption DEF WriteBlockWithState
  <2>2. head' \in Numbers
    BY <1>6, <2>1, LaterType DEF WriteBlockWithState
  <2> QED  BY <1>6, <2>1, <2>2 DEF WriteBlockWithState
<1>7. CASE HandleNewChainHead
  BY <1>7 DEF HandleNewChainHead
<1>8. ASSUME NEW b \in Blocks, VerifyAndSubmitPendingBlock(b) \/ handleNewBlock(b) \/ BlockArrives(b)
      PROVE  BlocksOK'
  BY <1>8 DEF VerifyAndSubmitPendingBlock, handleNewBlock, BlockArrives, worker, events
<1>9. ASSUME NEW b \in Blocks, finalizeCommit(b) PROVE BlocksOK'
  BY <1>9 DEF finalizeCommit, Commit, worker, events
<1>10. ASSUME NEW b \in Blocks, FetcherInserts(b) PROVE BlocksOK'
  <2>1. b.number \in Numbers
    BY CommitChannelsAssumption
  <2>2. head' \in Numbers \cup {0} /\ chainHeadCh' \in Seq(Numbers)
    BY <1>10, <2>1 DEF FetcherInserts
  <2> QED  BY <1>10, <2>2 DEF FetcherInserts, worker
<1>11. CASE StopCore \/ Start \/ tryStartCore
  BY <1>11 DEF StopCore, Start, tryStartCore, worker, events
<1>12. ASSUME NEW n \in Numbers, handleFinalCommitted(n) PROVE BlocksOK'
  BY <1>12 DEF handleFinalCommitted, worker
<1> QED  BY <1>1, <1>2, <1>3, <1>4, <1>5, <1>6, <1>7, <1>8, <1>9, <1>10, <1>11, <1>12 DEF Next, Steps

(***************************************************************************)
(* Sealing implements CommitChannels: Seal, Commit, Cancel, the chain head *)
(* events and Start make no other use of the channels.                     *)
(***************************************************************************)
THEOREM SealingImplementsChannels == Spec => CCSpec
<1>1. Init => CCInit
  BY DEF Init
<1> QED  BY <1>1, SInitInv, SNextInv, StepUsesChannels, PTL DEF Spec, CCSpec

(***************************************************************************)
(* No block of the miner, of a proposal or of the network makes a channel  *)
(* panic or leaves a goroutine of Seal behind, for any number of heights   *)
(* and blocks and any number of seals and stops of the core.               *)
(***************************************************************************)
THEOREM SealingSafe == Spec => []ChannelsKept
BY SealingImplementsChannels, ChannelsSafe, PTL
-----------------------------------------------------------------------------
\* What remains after a multiple of e is less than e.
LEMMA MultipleBelow ==
  ASSUME NEW e \in Nat \ {0}, NEW q \in Nat, NEW j \in 0 .. e - 1
  PROVE  (e * q + j) % e = j
<1> DEFINE a == e * q + j
<1>1. a \in Nat
  OBVIOUS
<1>2. a \div e \in Int /\ a % e \in 0 .. e - 1 /\ a = e * (a \div e) + (a % e)
  BY <1>1
<1> DEFINE p == a \div e
           r == a % e
<1>3. p \in Int /\ r \in 0 .. e - 1 /\ e * q + j = e * p + r
  BY <1>2
<1> HIDE DEF p, r, a
<1>4. e * (q - p) = r - j
  BY <1>3
<1>5. q - p = 0
  <2> DEFINE d == q - p
  <2>1. d \in Int /\ e * d = r - j
    BY <1>3, <1>4
  <2> HIDE DEF d
  <2>2. ASSUME d >= 1 PROVE FALSE
    <3>1. e * d >= e
      BY <2>1, <2>2
    <3> QED BY <3>1, <2>1, <1>3
  <2>3. ASSUME d <= -1 PROVE FALSE
    <3>1. e * d <= -e
      BY <2>1, <2>3
    <3> QED BY <3>1, <2>1, <1>3
  <2> QED BY <2>1, <2>2, <2>3 DEF d
<1>6. r = j
  BY <1>3, <1>5
<1> QED BY <1>6 DEF r, a

\* GetCheckpointNumber is the last end of an epoch before the block, or 0.
LEMMA Checkpoint ==
  ASSUME Epoch \in Nat \ {0}, NEW n \in Nat \ {0}
  PROVE  LET c == GetCheckpointNumber(Epoch, n)
         IN  /\ c \in 0 .. n - 1 /\ c % Epoch = 0
             /\ \A k \in c + 1 .. n - 1 : k % Epoch # 0
<1> DEFINE c == GetCheckpointNumber(Epoch, n)
           q == (n - 1) \div Epoch
           m == Epoch * q
           r == (n - 1) % Epoch
<1>1. q \in Nat /\ r \in 0 .. Epoch - 1 /\ n - 1 = m + r /\ m \in Nat
  OBVIOUS
<1>2. c = IF n < Epoch THEN 0 ELSE m
  BY DEF GetCheckpointNumber
<1> HIDE DEF q, r, c, m
<1>3. ASSUME NEW k \in m + 1 .. n - 1 PROVE k % Epoch # 0
  <2>1. k - m \in 1 .. Epoch - 1 /\ k = m + (k - m)
    BY <1>1
  <2> DEFINE j == k - m
  <2>2. (Epoch * q + j) % Epoch = j
    BY <1>1, <2>1, MultipleBelow
  <2> QED BY <2>1, <2>2 DEF m
<1>4. m % Epoch = 0
  <2>1. (Epoch * q + 0) % Epoch = 0
    BY <1>1, MultipleBelow
  <2> QED BY <1>1, <2>1 DEF m
<1>5. CASE n < Epoch
  <2>1. c = 0
    BY <1>2, <1>5
  <2>2. 0 % Epoch = 0
    OBVIOUS
  <2>3. ASSUME NEW k \in 1 .. n - 1 PROVE k % Epoch # 0
    <3>1. (Epoch * 0 + k) % Epoch = k
      BY <1>5, MultipleBelow
    <3> QED BY <3>1
  <2> QED BY <2>1, <2>2, <2>3 DEF c
<1>6. CASE ~ (n < Epoch)
  <2>1. c = m
    BY <1>2, <1>6
  <2>2. m \in 0 .. n - 1
    BY <1>1
  <2> QED BY <1>3, <1>4, <2>1, <2>2 DEF c
<1> QED BY <1>5, <1>6

\* As many different seals of validators as seals: RemoveValidator never fails.
LEMMA SealsCount ==
  ASSUME NEW seals, seals \in Seq(Range(seals)), NEW vals
  PROVE  Cardinality(Range(seals) \cap vals) = Len(seals) <=>
           IsInjective(seals) /\ Range(seals) \subseteq vals
<1> DEFINE D == 1 .. Len(seals)
           R == Range(seals)
<1>1. Len(seals) \in Nat /\ DOMAIN seals = D /\ seals \in [D -> R]
  BY LenProperties
<1>2. IsFiniteSet(D) /\ Cardinality(D) = Len(seals)
  BY <1>1, FS_Interval
<1>3. seals \in Surjection(D, R)
  BY Zenon, <1>1 DEF Surjection, Range
<1>4. seals \in Injection(D, R) <=> IsInjective(seals)
  BY Zenon, <1>1 DEF Injection
<1> HIDE DEF D, R
<1>5. /\ IsFiniteSet(R) /\ Cardinality(R) <= Len(seals)
      /\ Cardinality(R) = Len(seals) <=> IsInjective(seals)
  <2>1. /\ IsFiniteSet(R) /\ Cardinality(R) <= Cardinality(D)
        /\ Cardinality(R) = Cardinality(D) <=> seals \in Injection(D, R)
    BY <1>2, <1>3, FS_Surjection
  <2> QED BY Zenon, <2>1, <1>2, <1>4
<1>6. /\ IsFiniteSet(R \cap vals) /\ Cardinality(R \cap vals) <= Cardinality(R)
      /\ Cardinality(R) = Cardinality(R \cap vals) => R = R \cap vals
  <2>1. R \cap vals \in SUBSET R
    BY Zenon
  <2> QED BY Zenon, <1>5, <2>1, FS_Subset
<1>7. Cardinality(R) \in Nat /\ Cardinality(R \cap vals) \in Nat
  BY Zenon, <1>5, <1>6, FS_CardinalityType
<1>8. ASSUME Cardinality(R \cap vals) = Len(seals)
      PROVE  IsInjective(seals) /\ R \subseteq vals
  <2>1. Cardinality(R) = Len(seals)
    BY <1>1, <1>5, <1>6, <1>7, <1>8
  <2> QED BY Zenon, <2>1, <1>5, <1>6, <1>8
<1>9. ASSUME IsInjective(seals), R \subseteq vals
      PROVE  Cardinality(R \cap vals) = Len(seals)
  <2>1. R \cap vals = R
    BY Zenon, <1>9
  <2> QED BY Zenon, <2>1, <1>5, <1>9
<1> QED BY Zenon, <1>8, <1>9 DEF R

\* What is known of a header that a batch carries.
LEMMA DecodedIs ==
  ASSUME HeadersAssumption, NEW h \in Decoded
  PROVE  h.linked \in BOOLEAN /\ h.seals \in Seq(Range(h.seals)) /\ IsFiniteSet(h.vals)
<1>1. PICK g \in Headers, v \in ValSets \cup {{}} : h = Carries(g, v)
  BY DEF Decoded
<1>2. h.linked = g.linked /\ h.seals = g.seals /\ h.vals = v
  BY <1>1 DEF Carries
<1>3. IsFiniteSet(v)
  BY Zenon, FS_EmptySet DEF HeadersAssumption
<1> QED BY Zenon, <1>2, <1>3 DEF HeadersAssumption

\* The validators whom the code asks are those of the specification, once the
\* chain has come to the block.
LEMMA ValidatorsAre ==
  ASSUME HeadersAssumption, HeadersInv, NEW n \in 1 .. Len(chain) + 1
  PROVE  ValidatorsOf(n) = Certifiers(n) /\ IsFiniteSet(Certifiers(n))
<1> DEFINE c == GetCheckpointNumber(Epoch, n)
           ends == { m \in 1 .. n - 1 : m % Epoch = 0 }
<1>0. chain \in Seq(Decoded) /\ Len(chain) \in Nat
  BY DEF HeadersInv
<1>1. n \in Nat \ {0} /\ n - 1 <= Len(chain)
  BY <1>0
<1>2. c \in 0 .. n - 1 /\ c % Epoch = 0 /\ \A k \in c + 1 .. n - 1 : k % Epoch # 0
  BY <1>1, Checkpoint DEF HeadersAssumption
<1> HIDE DEF c
<1>3. CASE c = 0
  <2>1. ends = {}
    BY <1>1, <1>2, <1>3
  <2>2. ValidatorsOf(n) = Genesis
    BY Zenon, <2>1 DEF ValidatorsOf
  <2>3. Certifiers(n) = Genesis
    BY Zenon, <1>3 DEF Certifiers, c
  <2> QED BY Zenon, <2>2, <2>3 DEF HeadersAssumption
<1>4. CASE c # 0
  <2>1. c \in ends /\ \A k \in ends : k <= c
    BY <1>1, <1>2, <1>4
  <2>2. ASSUME NEW m \in ends, \A k \in ends : k <= m PROVE m = c
    BY <1>1, <1>2, <2>1, <2>2
  <2>3. (CHOOSE m \in ends : \A k \in ends : k <= m) = c
    <3> DEFINE P(m) == m \in ends /\ \A k \in ends : k <= m
    <3>1. P(c) /\ \A m : P(m) => m = c
      BY Zenon, <2>1, <2>2
    <3> HIDE DEF ends
    <3> QED BY Zenon, <3>1
  <2>4. ValidatorsOf(n) = chain[c].vals
    BY Zenon, <2>1, <2>3 DEF ValidatorsOf
  <2>5. c \in 1 .. Len(chain) /\ c <= Len(chain)
    BY <1>0, <1>1, <1>2, <1>4
  <2>6. Certifiers(n) = chain[c].vals
    BY Zenon, <1>4, <2>5 DEF Certifiers, HeaderAt, c
  <2>7. chain[c] \in Decoded
    BY <1>0, <2>5, ElementOfSeq
  <2> QED BY Zenon, <2>4, <2>6, <2>7, DecodedIs
<1> QED BY Zenon, <1>3, <1>4

\* verifyHeader, run when the chain has come as far as it may have: the verdict is
\* about the validators of the block, whether they are in the chain or in the batch.
LEMMA VerdictOK ==
  ASSUME HeadersAssumption, HeadersInv, Importing, verified < Len(batch),
         NEW n, n = base + verified + 1
  PROVE  VerdictIsRight(n, verifyHeader(n)) /\ verifyHeader(n) \in BOOLEAN
<1> DEFINE c == GetCheckpointNumber(Epoch, n)
           h == batch[n - base]
<1>0. chain \in Seq(Decoded) /\ Len(chain) \in Nat /\ base \in Nat /\ verified \in Nat
  BY DEF HeadersInv
<1>1. n \in Nat \ {0} /\ base <= Len(chain) /\ base + 1 <= n
  BY <1>0 DEF Importing
<1>2. c \in 0 .. n - 1 /\ c % Epoch = 0 /\ \A k \in c + 1 .. n - 1 : k % Epoch # 0
  BY <1>1, Checkpoint DEF HeadersAssumption
<1>3. /\ Certifiers(n) = IF c = 0 THEN Genesis ELSE HeaderAt(c).vals
      /\ GetValSet(n) = IF c = 0 THEN Genesis ELSE chain[c].vals
      /\ getValSetFromChain(n) = IF Len(chain) >= c THEN GetValSet(n)
                                 ELSE IF WalkIsLinked(n) THEN batch[TransitionInBatch(n) - base].vals
                                 ELSE {}
  BY Zenon DEF Certifiers, GetValSet, getValSetFromChain
<1> HIDE DEF c
<1>4. verifyHeader(n) <=> Certified(h, getValSetFromChain(n))
  BY Zenon DEF verifyHeader, Certified
<1>b. verifyHeader(n) \in BOOLEAN
  BY Zenon DEF verifyHeader
<1>5. CASE getValSetFromChain(n) = Certifiers(n)
  BY Zenon, <1>4, <1>5, <1>b DEF VerdictIsRight
<1>6. CASE Len(chain) >= c
  <2>1. c <= Len(chain)
    BY <1>0, <1>2, <1>6
  <2> QED BY Zenon, <1>3, <1>5, <1>6, <2>1 DEF HeaderAt
<1>7. CASE ~ (Len(chain) >= c)
  <2>1. c \in base + 1 .. n - 1 /\ c # 0 /\ ~ (c <= Len(chain))
    BY <1>0, <1>1, <1>2, <1>7
  <2>2. TransitionInBatch(n) = c
    <3> DEFINE P(m) == /\ m \in base + 1 .. n - 1 /\ m % Epoch = 0
                       /\ \A k \in m + 1 .. n - 1 : k % Epoch # 0
    <3>1. P(c)
      BY Zenon, <1>2, <2>1
    <3>2. ASSUME NEW m, P(m) PROVE m = c
      BY <1>0, <1>1, <1>2, <2>1, <3>2
    <3>3. TransitionInBatch(n) = CHOOSE m : P(m)
      BY Zenon DEF TransitionInBatch
    <3> HIDE DEF P
    <3> QED BY Zenon, <3>1, <3>2, <3>3
  <2>3. CASE WalkIsLinked(n)
    BY Zenon, <1>3, <1>5, <1>7, <2>1, <2>2, <2>3 DEF HeaderAt
  <2>4. CASE ~ WalkIsLinked(n)
    <3>1. getValSetFromChain(n) = {}
      BY Zenon, <1>3, <1>7, <2>4
    <3>2. ~ verifyHeader(n)
      BY Zenon, <1>4, <3>1 DEF Certified, verifyProposalSeal
    <3>3. PICK k \in c + 1 .. n : ~ batch[k - base].linked
      BY Zenon, <2>2, <2>4 DEF WalkIsLinked
    <3>4. k = n \/ k \in base + 1 .. n - 1
      BY <1>0, <1>1, <2>1
    <3>5. CASE k = n
      BY Zenon, <1>b, <3>2, <3>3, <3>5 DEF VerdictIsRight, Certified
    <3>6. CASE k \in base + 1 .. n - 1
      BY Zenon, <1>b, <3>2, <3>3, <3>6 DEF VerdictIsRight
    <3> QED BY Zenon, <3>4, <3>5, <3>6
  <2> QED BY Zenon, <2>3, <2>4
<1> QED BY Zenon, <1>6, <1>7

\* The validators of the blocks up to the next one are in the chain, so they do not
\* depend on a batch.
LEMMA CertifiersStay ==
  ASSUME HeadersAssumption, HeadersInv, chain' = chain, NEW n \in 1 .. Len(chain) + 1
  PROVE  Certifiers(n)' = Certifiers(n)
<1> DEFINE c == GetCheckpointNumber(Epoch, n)
<1>0. Len(chain) \in Nat
  BY DEF HeadersInv
<1>1. n \in Nat \ {0}
  BY <1>0
<1>2. c \in 0 .. n - 1
  BY <1>1, Checkpoint DEF HeadersAssumption
<1>3. c <= Len(chain)
  BY <1>0, <1>1, <1>2
<1>4. HeaderAt(c)' = chain[c] /\ HeaderAt(c) = chain[c]
  BY Zenon, <1>3 DEF HeaderAt
<1> QED BY Zenon, <1>4 DEF Certifiers

\* While there is no import, the invariant is about the chain and the last refusal.
LEMMA IdleKeeps ==
  ASSUME HeadersAssumption, HeadersInv, Idle, chain' = chain,
         \/ rejected' = <<>>
         \/ \E h \in Decoded : rejected' = <<h>> /\ ~ Certified(h, Certifiers(Len(chain) + 1))
  PROVE  HeadersInv'
<1>0. chain \in Seq(Decoded) /\ Len(chain) \in Nat
  BY DEF HeadersInv
<1>1. \A n \in 1 .. Len(chain) + 1 : Certifiers(n)' = Certifiers(n)
  BY Zenon, CertifiersStay
<1>2. Len(chain) + 1 \in 1 .. Len(chain) + 1
      /\ \A n \in 1 .. Len(chain) : n \in 1 .. Len(chain) + 1
  BY <1>0
<1>3. Len(chain') = Len(chain) /\ chain' \in Seq(Decoded)
  BY Zenon, <1>0
<1>4. \A n \in 1 .. Len(chain') : Certified(chain'[n], Certifiers(n)')
  BY Zenon, <1>1, <1>2 DEF HeadersInv
<1>5. \/ rejected' = <<>>
      \/ \E h \in Decoded : rejected' = <<h>> /\ ~ Certified(h, Certifiers(Len(chain) + 1)')
  <2>1. Certifiers(Len(chain) + 1)' = Certifiers(Len(chain) + 1)
    <3>1. PICK m \in 1 .. Len(chain) + 1 : m = Len(chain) + 1
      BY Zenon, <1>2
    <3>2. Len(chain)' + 1 = m
      BY Zenon, <1>3, <3>1
    <3>3. Certifiers(Len(chain) + 1)' = Certifiers(m)'
      BY Zenon, <3>2 DEF Certifiers, HeaderAt
    <3> QED BY Zenon, <1>1, <3>1, <3>3
  <2> QED BY Zenon, <2>1
<1>6. batch' \in Seq(Decoded') /\ results' \in Seq(BOOLEAN) /\ base' \in Nat /\ verified' \in Nat
  BY DEF Idle
<1>7. importer' = "idle"
  BY Zenon DEF Idle
<1>8. importer' \in {"idle", "importing"} /\ importer' # "importing"
  BY <1>7
<1> QED BY Zenon, <1>3, <1>4, <1>5, <1>6, <1>8 DEF HeadersInv

\* A new batch: nothing is verified yet.
LEMMA InsertChainOK ==
  ASSUME HeadersAssumption, HeadersInv, NEW k \in 1 .. MaxBatch, InsertChain(k)
  PROVE  HeadersInv'
<1>0. chain \in Seq(Decoded) /\ Len(chain) \in Nat /\ chain' = chain /\ Len(chain') = Len(chain)
  BY DEF HeadersInv, InsertChain
<1>1. PICK headers \in [1 .. k -> Headers], vals \in [EpochEnds(k) -> ValSets] :
        batch' = [i \in 1 .. k |-> Carries(headers[i], IF i \in EpochEnds(k) THEN vals[i] ELSE {})]
  BY Zenon DEF InsertChain
<1>2. batch' \in Seq(Decoded)
  <2>1. ASSUME NEW i \in 1 .. k
        PROVE  Carries(headers[i], IF i \in EpochEnds(k) THEN vals[i] ELSE {}) \in Decoded
    <3>1. headers[i] \in Headers
      BY Zenon, <1>1
    <3>2. (IF i \in EpochEnds(k) THEN vals[i] ELSE {}) \in ValSets \cup {{}}
      BY Zenon, <1>1
    <3> QED BY <3>1, <3>2 DEF Decoded
  <2>2. batch' \in [1 .. k -> Decoded]
    BY Zenon, <1>1, <2>1
  <2>3. k \in Nat
    BY DEF HeadersAssumption
  <2> QED BY <2>2, <2>3, SeqDef
<1>3. \A n \in 1 .. Len(chain) : Certified(chain[n], Certifiers(n)')
  <2>1. \A n \in 1 .. Len(chain) : n \in 1 .. Len(chain) + 1
    BY <1>0
  <2>2. \A n \in 1 .. Len(chain) + 1 : Certifiers(n)' = Certifiers(n)
    BY Zenon, <1>0, CertifiersStay
  <2> QED BY Zenon, <2>1, <2>2 DEF HeadersInv
<1>4. /\ base' = Len(chain) /\ verified' = 0 /\ results' = <<>> /\ rejected' = <<>>
      /\ importer' = "importing"
  BY Zenon DEF InsertChain
<1>5. Importing'
  <2>1. /\ base' <= Len(chain') /\ Len(chain') + Len(results') = base' + verified'
        /\ verified' <= Len(batch') /\ rejected' = <<>>
    BY <1>0, <1>2, <1>4
  <2>2. \A n \in base' + 1 .. Len(chain') : FALSE
    BY <1>0, <1>4
  <2>3. \A i \in 1 .. Len(results') : FALSE
    BY <1>4
  <2> QED BY Zenon, <2>1, <2>2, <2>3 DEF Importing
<1>6. results' \in Seq(BOOLEAN) /\ base' \in Nat /\ verified' \in Nat /\ importer' \in {"idle", "importing"}
  BY <1>0, <1>4
<1> QED BY Zenon, <1>0, <1>2, <1>3, <1>4, <1>5, <1>6 DEF HeadersInv

\* The goroutine adds a verdict that is right, and the others stay right.
LEMMA VerifyHeadersOK ==
  ASSUME HeadersAssumption, HeadersInv, VerifyHeaders
  PROVE  HeadersInv'
<1> DEFINE m == base + verified + 1
           v == verifyHeader(base + verified + 1)
<1>0. /\ chain \in Seq(Decoded) /\ Len(chain) \in Nat /\ results \in Seq(BOOLEAN)
      /\ Len(results) \in Nat /\ base \in Nat /\ verified \in Nat /\ Len(batch) \in Nat
  BY DEF HeadersInv
<1>1. Importing /\ importer = "importing" /\ verified < Len(batch)
  BY Zenon DEF HeadersInv, VerifyHeaders
<1>2. /\ verified' = verified + 1 /\ results' = Append(results, v)
      /\ UNCHANGED <<chain, batch, base, importer, rejected>>
  BY Zenon DEF VerifyHeaders
<1>3. chain' = chain /\ batch' = batch /\ base' = base /\ importer' = importer /\ rejected' = rejected
  BY <1>2
<1>4. VerdictIsRight(m, v) /\ v \in BOOLEAN
  BY Zenon, <1>1, VerdictOK
<1>5. \A n : Certifiers(n)' = Certifiers(n)
  BY Zenon, <1>3 DEF Certifiers, HeaderAt
<1>6. \A n, r : VerdictIsRight(n, r)' <=> VerdictIsRight(n, r)
  BY Zenon, <1>3, <1>5 DEF VerdictIsRight
<1> HIDE DEF v
<1>7. /\ results' \in Seq(BOOLEAN) /\ Len(results') = Len(results) + 1
      /\ \A i \in 1 .. Len(results) : results'[i] = results[i]
      /\ results'[Len(results) + 1] = v
  BY <1>0, <1>2, <1>4, AppendProperties
<1>8. /\ base <= Len(chain) /\ Len(chain) + Len(results) = base + verified
      /\ verified <= Len(batch) /\ rejected = <<>>
      /\ \A n \in base + 1 .. Len(chain) : batch[n - base] = chain[n]
      /\ \A i \in 1 .. Len(results) : VerdictIsRight(Len(chain) + i, results[i])
  BY Zenon, <1>1 DEF Importing
<1>9. /\ Len(chain) + Len(results') = base + verified' /\ verified' <= Len(batch)
      /\ m = Len(chain) + (Len(results) + 1) /\ verified' \in Nat
  <2>1. Len(results') = Len(results) + 1 /\ verified' = verified + 1 /\ verified < Len(batch)
        /\ Len(chain) + Len(results) = base + verified
    BY Zenon, <1>1, <1>2, <1>7, <1>8
  <2> QED BY <1>0, <2>1
<1> HIDE DEF m
<1>10. ASSUME NEW i \in 1 .. Len(results') PROVE VerdictIsRight(Len(chain) + i, results'[i])
  <2>1. i \in 1 .. Len(results) \/ i = Len(results) + 1
    BY <1>0, <1>7
  <2>2. CASE i \in 1 .. Len(results)
    BY Zenon, <1>7, <1>8, <2>2
  <2>3. CASE i = Len(results) + 1
    BY Zenon, <1>4, <1>7, <1>9, <2>3
  <2> QED BY Zenon, <2>1, <2>2, <2>3
<1>11. \A i \in 1 .. Len(results') : VerdictIsRight(Len(chain) + i, results[i])'
  BY Zenon, <1>3, <1>5, <1>10 DEF VerdictIsRight
<1>12. Importing'
  BY Zenon, <1>3, <1>8, <1>9, <1>11 DEF Importing
<1>13. Certifiers(Len(chain) + 1)' = Certifiers(Len(chain) + 1)
  BY Zenon, <1>3 DEF Certifiers, HeaderAt
<1> QED BY Zenon, <1>0, <1>3, <1>5, <1>7, <1>9, <1>12, <1>13 DEF HeadersInv

(***************************************************************************)
(* A verdict that the importer takes is about the next block of the chain. *)
(* The headers of the batch before it are in the chain, so they are        *)
(* linked, and a refusal is about the header itself.                       *)
(***************************************************************************)
LEMMA NextInBatch ==
  ASSUME HeadersInv, Importing, results # <<>>
  PROVE  /\ Following = (Len(chain) + 1) - base /\ batch[Following] \in Decoded
         /\ Head(results) <=> Certified(batch[Following], Certifiers(Len(chain) + 1))
         /\ base <= Len(chain) + 1 /\ (Len(chain) + 1) + (Len(results) - 1) = base + verified
<1>0. /\ chain \in Seq(Decoded) /\ Len(chain) \in Nat /\ results \in Seq(BOOLEAN)
      /\ Len(results) \in Nat /\ base \in Nat /\ verified \in Nat /\ Len(batch) \in Nat
      /\ batch \in Seq(Decoded)
  BY DEF HeadersInv
<1>1. Len(results) >= 1
  BY <1>0
<1>2. 1 \in 1 .. Len(results)
  BY <1>0, <1>1
<1>3. VerdictIsRight(Len(chain) + 1, results[1])
  BY Zenon, <1>2 DEF Importing
<1>4. base <= Len(chain) /\ Len(chain) + Len(results) = base + verified /\ verified <= Len(batch)
  BY Zenon DEF Importing
<1>5. Following \in 1 .. Len(batch) /\ Following = (Len(chain) + 1) - base
  BY <1>0, <1>1, <1>4 DEF Following
<1>6. batch[Following] \in Decoded
  BY <1>0, <1>5, ElementOfSeq
<1>7. \A k \in base + 1 .. (Len(chain) + 1) - 1 : batch[k - base].linked
  <2>1. ASSUME NEW k \in base + 1 .. (Len(chain) + 1) - 1
        PROVE  k \in base + 1 .. Len(chain) /\ k \in 1 .. Len(chain)
    BY <1>0
  <2>2. \A k \in base + 1 .. Len(chain) : batch[k - base] = chain[k]
    BY Zenon DEF Importing
  <2>3. \A k \in 1 .. Len(chain) : chain[k].linked
    BY Zenon DEF HeadersInv, Certified
  <2> QED BY Zenon, <2>1, <2>2, <2>3
<1>8. Head(results) = results[1] /\ results[1] \in BOOLEAN
  BY <1>0, <1>1
<1>9. PICK n, h, cs : n = Len(chain) + 1 /\ h = batch[Following] /\ cs = Certifiers(n)
  BY Zenon
<1>10. Following = n - base
  BY Zenon, <1>5, <1>9
<1>11. batch[n - base] = h
  BY Zenon, <1>9, <1>10
<1>12. VerdictIsRight(n, results[1]) /\ \A k \in base + 1 .. n - 1 : batch[k - base].linked
  BY Zenon, <1>3, <1>7, <1>9
<1>13. results[1] <=> Certified(h, cs)
  BY Zenon, <1>9, <1>11, <1>12 DEF VerdictIsRight
<1>14. results[1] <=> Certified(batch[Following], Certifiers(Len(chain) + 1))
  BY Zenon, <1>9, <1>13
<1>15. base <= Len(chain) + 1 /\ (Len(chain) + 1) + (Len(results) - 1) = base + verified
  BY <1>0, <1>4
<1>16. CASE results[1] = TRUE
  BY Zenon, <1>5, <1>6, <1>8, <1>14, <1>15, <1>16
<1>17. CASE results[1] = FALSE
  BY Zenon, <1>5, <1>6, <1>8, <1>14, <1>15, <1>17
<1> QED BY Zenon, <1>8, <1>16, <1>17

\* The importer writes a block: the headers known do not change, only where they are.
LEMMA AcceptOK ==
  ASSUME HeadersAssumption, HeadersInv, importer = "importing", results # <<>>,
         Certified(batch[Following], Certifiers(Len(chain) + 1)), results' = Tail(results), chain' = Append(chain, batch[Following]),
         UNCHANGED <<batch, base, verified, importer, rejected>>
  PROVE  HeadersInv'
<1>0. /\ chain \in Seq(Decoded) /\ results \in Seq(BOOLEAN)
      /\ Len(results) \in Nat /\ verified \in Nat /\ Len(batch) \in Nat
      /\ Len(chain) \in Nat /\ base \in Nat
      /\ batch \in Seq(Decoded)
  BY DEF HeadersInv
<1>1. Importing
  BY Zenon DEF HeadersInv
<1>2. /\ Len(chain) \in Nat /\ base \in Nat
      /\ Following = (Len(chain) + 1) - base /\ batch[Following] \in Decoded
  BY Zenon, <1>0, <1>1, NextInBatch
<1>3. batch' = batch /\ base' = base /\ verified' = verified /\ importer' = importer /\ rejected' = rejected
  OBVIOUS
<1>4. /\ chain' \in Seq(Decoded) /\ Len(chain') = Len(chain) + 1
      /\ \A i \in 1 .. Len(chain) : chain'[i] = chain[i]
      /\ chain'[Len(chain) + 1] = batch[Following]
  BY <1>0, <1>2, AppendProperties
<1>5. /\ results' \in Seq(BOOLEAN) /\ Len(results') = Len(results) - 1
      /\ \A i \in 1 .. Len(results') : results'[i] = results[i + 1]
  BY <1>0, HeadTailProperties
<1>6. ASSUME NEW c \in Nat \ {0} PROVE HeaderAt(c)' = HeaderAt(c)
  <2>1. \/ c \in 1 .. Len(chain) /\ c <= Len(chain) /\ c <= Len(chain')
        \/ c = Len(chain) + 1 /\ ~ (c <= Len(chain)) /\ c <= Len(chain') /\ c - base = Following
        \/ ~ (c <= Len(chain)) /\ ~ (c <= Len(chain'))
    BY <1>2, <1>4
  <2> QED BY Zenon, <1>3, <1>4, <2>1 DEF HeaderAt
<1>7. ASSUME NEW n \in Nat \ {0} PROVE Certifiers(n)' = Certifiers(n)
  <2> DEFINE c == GetCheckpointNumber(Epoch, n)
  <2>1. c \in 0 .. n - 1
    BY Checkpoint DEF HeadersAssumption
  <2>2. c = 0 \/ c \in Nat \ {0}
    BY <2>1
  <2> QED BY Zenon, <1>6, <2>2 DEF Certifiers
<1>9. ASSUME NEW n \in 1 .. Len(chain') PROVE Certified(chain'[n], Certifiers(n)')
  <2>1. (n \in 1 .. Len(chain) \/ n = Len(chain) + 1) /\ n \in Nat \ {0}
    BY <1>2, <1>4
  <2> QED BY Zenon, <1>4, <1>7, <2>1 DEF HeadersInv
<1>10. /\ base <= Len(chain) /\ Len(chain) + Len(results) = base + verified
       /\ verified <= Len(batch) /\ rejected = <<>>
       /\ \A n \in base + 1 .. Len(chain) : batch[n - base] = chain[n]
       /\ \A i \in 1 .. Len(results) : VerdictIsRight(Len(chain) + i, results[i])
  BY Zenon, <1>1 DEF Importing
<1>11. Importing'
  <2>1. base <= Len(chain') /\ Len(chain') + Len(results') = base + verified
    <3>1. /\ Len(chain') = Len(chain) + 1 /\ Len(results') = Len(results) - 1
          /\ base <= Len(chain) /\ Len(chain) + Len(results) = base + verified
      BY Zenon, <1>4, <1>5, <1>10
    <3>2. base <= Len(chain) + 1 /\ (Len(chain) + 1) + (Len(results) - 1) = base + verified
      BY Zenon, <1>1, NextInBatch
    <3> QED BY Zenon, <3>1, <3>2
  <2>2. ASSUME NEW n \in base + 1 .. Len(chain') PROVE batch[n - base] = chain'[n]
    <3>1. \/ n \in base + 1 .. Len(chain) /\ n \in 1 .. Len(chain)
          \/ n = Len(chain) + 1 /\ n - base = Following
      BY <1>2, <1>4
    <3> QED BY Zenon, <1>4, <1>10, <3>1
  <2>3. ASSUME NEW i \in 1 .. Len(results') PROVE VerdictIsRight(Len(chain) + i, results[i])'
    <3>1. /\ i + 1 \in 1 .. Len(results) /\ Len(chain') + i = Len(chain) + (i + 1)
          /\ Len(chain') + i \in Nat \ {0}
      BY <1>0, <1>2, <1>4, <1>5
    <3>2. VerdictIsRight(Len(chain') + i, results'[i])
      BY Zenon, <1>5, <1>10, <3>1
    <3>3. PICK n \in Nat \ {0} : n = Len(chain') + i
      BY Zenon, <3>1
    <3>4. VerdictIsRight(n, results'[i]) /\ Certifiers(n)' = Certifiers(n)
      BY Zenon, <1>7, <3>2, <3>3
    <3>5. VerdictIsRight(n, results[i])'
      BY Zenon, <1>3, <3>4 DEF VerdictIsRight
    <3> QED BY Zenon, <3>3, <3>5 DEF VerdictIsRight, Certifiers, HeaderAt
  <2> QED BY Zenon, <1>3, <1>10, <2>1, <2>2, <2>3 DEF Importing
<1>12. rejected' = <<>> /\ importer' \in {"idle", "importing"} /\ base' \in Nat /\ verified' \in Nat
       /\ batch' \in Seq(Decoded)
  BY <1>0, <1>2, <1>3, <1>10
<1> QED BY Zenon, <1>4, <1>5, <1>9, <1>11, <1>12 DEF HeadersInv

\* No header is verified at first.
LEMMA HeadersInitOK == HeadersInit => HeadersInv
<1> SUFFICES ASSUME HeadersInit PROVE HeadersInv
  OBVIOUS
<1>1. chain = <<>> /\ batch = <<>> /\ base = 0 /\ verified = 0 /\ results = <<>>
      /\ importer = "idle" /\ rejected = <<>>
  BY Zenon DEF HeadersInit
<1>2. chain \in Seq(Decoded) /\ batch \in Seq(Decoded) /\ results \in Seq(BOOLEAN)
      /\ base \in Nat /\ verified \in Nat /\ importer \in {"idle", "importing"}
      /\ importer # "importing"
  BY <1>1
<1>3. \A n \in 1 .. Len(chain) : FALSE
  BY <1>1
<1> QED BY Zenon, <1>1, <1>2, <1>3 DEF HeadersInv

\* Every step of the verification.
LEMMA HeadersStepOK ==
  ASSUME HeadersAssumption, HeadersInv, [HeadersNext]_headersVars
  PROVE  HeadersInv'
<1>1. CASE UNCHANGED headersVars
  <2>1. chain' = chain /\ batch' = batch /\ base' = base /\ verified' = verified
        /\ results' = results /\ importer' = importer /\ rejected' = rejected
    BY <1>1 DEF headersVars
  <2> QED BY Zenon, <2>1 DEF HeadersInv, Importing, VerdictIsRight, Certifiers, HeaderAt
<1>2. ASSUME TakeVerdict PROVE HeadersInv'
  <2>1. Importing /\ importer = "importing" /\ results # <<>>
    BY Zenon, <1>2 DEF TakeVerdict, HeadersInv
  <2>2. /\ batch[Following] \in Decoded
        /\ Head(results) <=> Certified(batch[Following], Certifiers(Len(chain) + 1))
    BY Zenon, <2>1, NextInBatch
  <2>3. CASE Head(results) /\ results' = Tail(results) /\ chain' = Append(chain, batch[Following])
             /\ UNCHANGED <<batch, base, verified, importer, rejected>>
    BY Zenon, <2>1, <2>2, <2>3, AcceptOK
  <2>4. CASE ~ Head(results) /\ Idle /\ rejected' = <<batch[Following]>> /\ UNCHANGED chain
    BY Zenon, <2>2, <2>4, IdleKeeps
  <2> QED BY Zenon, <1>2, <2>3, <2>4 DEF TakeVerdict
<1>3. ASSUME ImportEnds PROVE HeadersInv'
  <2>1. Idle /\ chain' = chain /\ rejected' = rejected /\ importer = "importing"
    BY <1>3 DEF ImportEnds
  <2>2. rejected' = <<>>
    BY Zenon, <2>1 DEF HeadersInv, Importing
  <2> QED BY Zenon, <2>1, <2>2, IdleKeeps
<1>4. ASSUME NEW k \in 1 .. MaxBatch, InsertChain(k) PROVE HeadersInv'
  BY Zenon, <1>4, InsertChainOK
<1>5. ASSUME VerifyHeaders PROVE HeadersInv'
  BY Zenon, <1>5, VerifyHeadersOK
<1> QED BY Zenon, <1>1, <1>2, <1>3, <1>4, <1>5 DEF HeadersNext

(***************************************************************************)
(* However far the verifying goroutine is ahead, its verdicts are right    *)
(* about the chain as it will be when the importer takes them              *)
(* (VerifyHeaders, getValSetFromChain).                                    *)
(***************************************************************************)
THEOREM VerdictsAreRight ==
  ASSUME HeadersAssumption
  PROVE  HeadersSpec => []HeadersInv
<1>1. HeadersInit => HeadersInv
  BY HeadersInitOK
<1>2. HeadersInv /\ [HeadersNext]_headersVars => HeadersInv'
  BY Zenon, HeadersStepOK
<1> QED BY <1>1, <1>2, PTL DEF HeadersSpec

\* A quorum of some validators is not empty.
LEMMA MajorityIsSome == ASSUME NEW m \in Nat \ {0} PROVE MinMajority(m) \in Nat \ {0}
BY DEF MinMajority, F

\* What a certified header has, in the words of the specification.
LEMMA CertifiedMeans ==
  ASSUME HeadersAssumption, HeadersInv, NEW h \in Decoded, NEW n \in 1 .. Len(chain) + 1
  PROVE  Certified(h, Certifiers(n)) <=>
           /\ h.linked /\ h.sealer \in ValidatorsOf(n)
           /\ Cardinality(Sealers(h, n)) = Len(h.seals)
           /\ Len(h.seals) >= MinMajority(Cardinality(ValidatorsOf(n)))
<1> DEFINE vals == ValidatorsOf(n)
<1>1. vals = Certifiers(n) /\ IsFiniteSet(vals)
  BY Zenon, ValidatorsAre
<1>2. h.seals \in Seq(Range(h.seals))
  BY Zenon, DecodedIs
<1>3. Cardinality(Sealers(h, n)) = Len(h.seals) <=>
        IsInjective(h.seals) /\ Range(h.seals) \subseteq vals
  BY Zenon, <1>2, SealsCount DEF Sealers
<1>4. ASSUME h.sealer \in vals, Len(h.seals) >= MinMajority(Cardinality(vals))
      PROVE  h.seals # <<>>
  <2>1. Cardinality(vals) \in Nat /\ Cardinality(vals) # 0
    <3>1. vals # {}
      BY Zenon, <1>4
    <3> QED BY Zenon, <1>1, <3>1, FS_CardinalityType, FS_EmptySet
  <2>2. MinMajority(Cardinality(vals)) \in Nat \ {0}
    BY <2>1, MajorityIsSome
  <2>3. Len(<<>>) = 0 /\ ~ (0 >= MinMajority(Cardinality(vals)))
    BY <2>2
  <2> QED BY Zenon, <1>4, <2>3
<1> HIDE DEF vals
<1>5. Certified(h, vals) <=>
        /\ h.linked /\ h.sealer \in vals /\ h.seals # <<>>
        /\ IsInjective(h.seals) /\ Range(h.seals) \subseteq vals
        /\ Len(h.seals) >= MinMajority(Cardinality(vals))
  BY Zenon DEF Certified, verifyProposalSeal, verifyCommittedSeals
<1>6. Certified(h, vals) <=> Certified(h, Certifiers(n))
  BY Zenon, <1>1
<1> QED BY Zenon, <1>3, <1>4, <1>5, <1>6 DEF vals

(***************************************************************************)
(* Every header in the chain has the seals of a quorum of the validators   *)
(* of its own epoch, for any epoch, validators and batches                 *)
(* (verifyCommittedSeals, getValSetFromChain).                             *)
(***************************************************************************)
THEOREM HeadersAreCertified ==
  ASSUME HeadersAssumption
  PROVE  HeadersSpec => []ChainIsCertified
<1>1. HeadersInv => ChainIsCertified
  <2> SUFFICES ASSUME HeadersInv, NEW n \in DOMAIN chain
      PROVE  Cardinality(Sealers(chain[n], n)) >= MinMajority(Cardinality(ValidatorsOf(n)))
    BY Zenon DEF ChainIsCertified
  <2>1. n \in 1 .. Len(chain) /\ n \in 1 .. Len(chain) + 1 /\ chain[n] \in Decoded
    BY DEF HeadersInv
  <2>2. Certified(chain[n], Certifiers(n))
    BY Zenon, <2>1 DEF HeadersInv
  <2> QED BY Zenon, <2>1, <2>2, CertifiedMeans
<1> QED BY <1>1, VerdictsAreRight, PTL

(***************************************************************************)
(* A header that ends an import was not certified: no good header is       *)
(* refused, also when the epoch changes inside the batch.                  *)
(***************************************************************************)
THEOREM GoodHeadersPass ==
  ASSUME HeadersAssumption
  PROVE  HeadersSpec => []GoodIsNotRejected
<1>1. HeadersInv => GoodIsNotRejected
  <2> SUFFICES ASSUME HeadersInv, NEW header \in Range(rejected)
      PROVE  ~ Certified(header, Certifiers(Len(chain) + 1)) /\ header \in Decoded
    <3>1. Len(chain) + 1 \in 1 .. Len(chain) + 1
      BY DEF HeadersInv
    <3> QED BY Zenon, <3>1, CertifiedMeans DEF GoodIsNotRejected
  <2>1. rejected # <<>>
    BY DEF Range
  <2>2. PICK h \in Decoded : rejected = <<h>> /\ ~ Certified(h, Certifiers(Len(chain) + 1))
    BY Zenon, <2>1 DEF HeadersInv
  <2>3. header = h
    BY <2>2 DEF Range
  <2> QED BY Zenon, <2>2, <2>3
<1> QED BY <1>1, VerdictsAreRight, PTL
=============================================================================
