--------------------------- MODULE CommitChannels ---------------------------
(***************************************************************************)
(* The channels by which the backend returns agreed blocks to the miner,   *)
(* one for a block number (commitChannels), and the goroutines of Seal     *)
(* that wait at them.  An operation runs under commitChannels.mutex.       *)
(*                                                                         *)
(* Channels are numbered as they are made, and Seal makes one for each of  *)
(* its goroutines, so a channel and its reader have the same number.       *)
(* Sending to a closed channel and closing it again would panic.           *)
(***************************************************************************)
EXTENDS Naturals

CONSTANTS
  Numbers,   \* block numbers
  Blocks,    \* blocks, with their number
  Channels,  \* bounds the channels made
  None       \* no block

ASSUME CommitChannelsAssumption ==
  /\ \A b \in Blocks : b.number \in Numbers
  /\ None \notin Blocks
  /\ Channels \subseteq Nat \ {0}

VARIABLES
  chs,       \* the channel registered for a number, or 0
  made,      \* the last channel made
  open,      \* channels that are made and not closed
  buffer,    \* the block in a channel, or None
  waiter,    \* where the reader of a channel is
  panicked   \* some operation hit a closed channel

channels == <<chs, made, open, buffer, waiter, panicked>>

CCInit ==
  /\ chs = [n \in Numbers |-> 0] /\ made = 0
  /\ open = {} /\ buffer = [c \in Channels |-> None]
  /\ waiter = [c \in Channels |-> "none"]
  /\ panicked = FALSE

\* The part of sendBlock that finds a channel; only one block fits in.
sendBlock(b) ==
  /\ chs[b.number] # 0
  /\ buffer' = [buffer EXCEPT ![chs[b.number]] = IF @ = None THEN b ELSE @]
  /\ panicked' = (panicked \/ chs[b.number] \notin open)
  /\ UNCHANGED <<chs, made, open, waiter>>

\* Mutant: the channel that is replaced stays open.
createWithoutClose(n) ==
  /\ made + 1 \in Channels
  /\ made' = made + 1 /\ open' = open \cup {made + 1}
  /\ chs' = [chs EXCEPT ![n] = made + 1]
  /\ waiter' = [waiter EXCEPT ![made + 1] = "waiting"]
  /\ UNCHANGED <<buffer, panicked>>

\* With the goroutine of Seal that reads the new channel.
createCommitChannelAndCloseIfExist(n) ==
  /\ made + 1 \in Channels
  /\ made' = made + 1 /\ open' = (open \ {chs[n]}) \cup {made + 1}
  /\ panicked' = (panicked \/ (chs[n] # 0 /\ chs[n] \notin open))
  /\ chs' = [chs EXCEPT ![n] = made + 1]
  /\ waiter' = [waiter EXCEPT ![made + 1] = "waiting"]
  /\ UNCHANGED buffer

closeAndRemoveCommitChannel(n) ==
  /\ open' = open \ {chs[n]}
  /\ panicked' = (panicked \/ (chs[n] # 0 /\ chs[n] \notin open))
  /\ chs' = [chs EXCEPT ![n] = 0]
  /\ UNCHANGED <<made, buffer>>

Registered == { chs[n] : n \in Numbers } \ {0}

closeAndRemoveAllChannels ==
  /\ open' = open \ Registered
  /\ panicked' = (panicked \/ ~ (Registered \subseteq open))
  /\ chs' = [n \in Numbers |-> 0]
  /\ UNCHANGED <<made, buffer, waiter>>

\* A closed channel still delivers the block in it.
ReadBlock(c) ==
  /\ waiter[c] = "waiting" /\ buffer[c] # None
  /\ waiter' = [waiter EXCEPT ![c] = "closing"]
  /\ UNCHANGED <<chs, made, open, buffer, panicked>>

\* The reader closes the channel of the block's number, whichever it is.
CloseAfterRead(c) ==
  /\ waiter[c] = "closing"
  /\ closeAndRemoveCommitChannel(buffer[c].number)
  /\ waiter' = [waiter EXCEPT ![c] = "returning"]

\* results <- bl
Returned(c) ==
  /\ waiter[c] = "returning"
  /\ waiter' = [waiter EXCEPT ![c] = "done"]
  /\ UNCHANGED <<chs, made, open, buffer, panicked>>

\* The channel is closed and empty.
EndWait(c) ==
  /\ waiter[c] = "waiting" /\ c \notin open /\ buffer[c] = None
  /\ waiter' = [waiter EXCEPT ![c] = "done"]
  /\ UNCHANGED <<chs, made, open, buffer, panicked>>

CCNext ==
  \/ \E b \in Blocks : sendBlock(b)
  \/ \E n \in Numbers : \/ createCommitChannelAndCloseIfExist(n)
                        \/ closeAndRemoveCommitChannel(n) /\ UNCHANGED waiter
  \/ closeAndRemoveAllChannels
  \/ \E c \in Channels : ReadBlock(c) \/ CloseAfterRead(c) \/ Returned(c) \/ EndWait(c)

CCSpec == CCInit /\ [][CCNext]_channels
-----------------------------------------------------------------------------
CCTypeOK ==
  /\ chs \in [Numbers -> Channels \cup {0}] /\ made \in Channels \cup {0}
  /\ open \subseteq Channels
  /\ buffer \in [Channels -> Blocks \cup {None}]
  /\ waiter \in [Channels -> {"none", "waiting", "closing", "returning", "done"}]
  /\ panicked \in BOOLEAN

(***************************************************************************)
(* No goroutine sends a block to a closed channel or closes one twice,     *)
(* whatever Seal, Commit, Cancel, HandleNewChainHead and Start do at the   *)
(* same time (sendBlock, closeAndRemoveCommitChannel).                     *)
(***************************************************************************)
NoPanic == ~ panicked

(***************************************************************************)
(* A goroutine of Seal that waits is at the channel registered for its     *)
(* number, or its channel is closed or holds a block, so that it will go   *)
(* on: replacing a channel never leaves its reader behind                  *)
(* (createCommitChannelAndCloseIfExist).                                   *)
(***************************************************************************)
NoOrphanWaiter ==
  \A c \in Channels :
    waiter[c] = "waiting" => c \in Registered \/ c \notin open \/ buffer[c] # None

(***************************************************************************)
(* Whatever order the users of the channels come in, no operation panics   *)
(* and no goroutine of Seal is left waiting for a channel nobody will use  *)
(* (commitChannels).                                                       *)
(***************************************************************************)
ChannelsKept == NoPanic /\ NoOrphanWaiter
=============================================================================
