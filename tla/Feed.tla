-------------------------------- MODULE Feed --------------------------------
(***************************************************************************)
(* The one-to-many channel by which the chain, the pool and the accounts   *)
(* publish events (event.Feed): new channels wait in an inbox until the    *)
(* next Send, a Send goes through its list of select cases, and a channel  *)
(* is removed from the inbox, by the Send in progress, or directly.        *)
(*                                                                         *)
(* sendCases is the list without its first case, which receives from       *)
(* removeSub; its first "active" cases are those a Send has still to       *)
(* serve.  A channel is subscribed once.                                   *)
(***************************************************************************)
EXTENDS Naturals, Sequences, Functions

CONSTANTS
  Subs,     \* subscribed channels, numbered as they subscribe
  Senders,  \* goroutines that call Send
  None,
  Cap,      \* capacity of a channel
  MaxSends  \* bounds the calls of Send of a goroutine

VARIABLES
  inbox,
  sendCases,
  active,    \* length of cases, the active part of sendCases
  sendLock,  \* the goroutine of the Send in progress, or None
  next,      \* the case that the fast path tries next, or 0 in the select
  sender,    \* where a sender is
  sends,
  sent,      \* the channels the Send in progress has sent to, in order
  entitled,  \* those that were subscribed when it began
  sub,       \* where a subscription is
  buffer     \* how many values are in a channel

casesVars == <<inbox, sendCases, active>>
sendVars == <<sendLock, next, sender, sends, sent, entitled>>
vars == <<casesVars, sendVars, sub, buffer>>

Init ==
  /\ inbox = <<>> /\ sendCases = <<>> /\ active = 0
  /\ sendLock = None /\ next = 0 /\ sender = [p \in Senders |-> "idle"]
  /\ sends = [p \in Senders |-> 0] /\ sent = <<>> /\ entitled = {}
  /\ sub = [s \in Subs |-> "none"] /\ buffer = [s \in Subs |-> 0]

find(cs, s) == CHOOSE i \in DOMAIN cs : cs[i] = s

delete(cs, i) == SubSeq(cs, 1, i - 1) \o SubSeq(cs, i + 1, Len(cs))

\* Swaps a case with the last active one, which is then out of reach.
deactivate(i) ==
  /\ sendCases' = [sendCases EXCEPT ![i] = sendCases[active], ![active] = sendCases[i]]
  /\ active' = active - 1
-----------------------------------------------------------------------------
Subscribe(s) ==
  /\ sub[s] = "none" /\ (\A t \in Subs : t < s => sub[t] # "none")
  /\ sub' = [sub EXCEPT ![s] = "subscribed"]
  /\ inbox' = Append(inbox, s)
  /\ UNCHANGED <<sendCases, active, sendVars, buffer>>

\* remove, first part: the inbox.
Unsubscribe(s) ==
  /\ sub[s] = "subscribed"
  /\ IF s \in Range(inbox)
     THEN inbox' = delete(inbox, find(inbox, s)) /\ sub' = [sub EXCEPT ![s] = "gone"]
     ELSE sub' = [sub EXCEPT ![s] = "removing"] /\ UNCHANGED inbox
  /\ UNCHANGED <<sendCases, active, sendVars, buffer>>

\* remove, when no Send is in progress.
RemoveNow(s) ==
  /\ sub[s] = "removing" /\ sendLock = None
  /\ sendCases' = delete(sendCases, find(sendCases, s))
  /\ sub' = [sub EXCEPT ![s] = "gone"]
  /\ UNCHANGED <<inbox, active, sendVars, buffer>>

Call(p) ==
  /\ sender[p] = "idle" /\ sends[p] < MaxSends
  /\ sender' = [sender EXCEPT ![p] = "locking"] /\ sends' = [sends EXCEPT ![p] = @ + 1]
  /\ UNCHANGED <<casesVars, sendLock, next, sent, entitled, sub, buffer>>

Lock(p) ==
  /\ sender[p] = "locking" /\ sendLock = None
  /\ sendLock' = p /\ sender' = [sender EXCEPT ![p] = "locked"]
  /\ entitled' = { s \in Subs : sub[s] = "subscribed" } /\ sent' = <<>>
  /\ UNCHANGED <<casesVars, next, sends, sub, buffer>>

\* Under mu.
AddInbox(p) ==
  /\ sender[p] = "locked" /\ sender' = [sender EXCEPT ![p] = "sending"]
  /\ sendCases' = sendCases \o inbox /\ inbox' = <<>>
  /\ active' = Len(sendCases) + Len(inbox) /\ next' = 1
  /\ UNCHANGED <<sendLock, sends, sent, entitled, sub, buffer>>

SendTo(i) ==
  /\ buffer[sendCases[i]] < Cap
  /\ buffer' = [buffer EXCEPT ![sendCases[i]] = @ + 1]
  /\ sent' = Append(sent, sendCases[i])
  /\ deactivate(i)

TrySend(p) ==
  /\ sender[p] = "sending" /\ next \in 1 .. active
  /\ \/ SendTo(next) /\ UNCHANGED next
     \/ /\ buffer[sendCases[next]] = Cap /\ next' = next + 1
        /\ UNCHANGED <<buffer, sent, sendCases, active>>
  /\ UNCHANGED <<inbox, sendLock, sender, sends, entitled, sub>>

\* Every active case has been tried.
FastPathEnds(p) ==
  /\ sender[p] = "sending" /\ next > active
  /\ IF active = 0
     THEN sender' = [sender EXCEPT ![p] = "idle"] /\ sendLock' = None /\ next' = 0
     ELSE sender' = [sender EXCEPT ![p] = "selecting"] /\ next' = 0 /\ UNCHANGED sendLock
  /\ UNCHANGED <<casesVars, sends, sent, entitled, sub, buffer>>

SelectSend(p) ==
  /\ sender[p] = "selecting" /\ sender' = [sender EXCEPT ![p] = "sending"] /\ next' = 1
  /\ \E i \in 1 .. active : SendTo(i)
  /\ UNCHANGED <<inbox, sendLock, sends, entitled, sub>>

\* Mutant: cases shrinks although the channel had been served.
ActiveAfterAlways(i) == active - 1

\* cases shrinks if the removed case was still active.
ActiveAfter(i) == IF i <= active THEN active - 1 ELSE active

\* Mutant: the Send in progress does not listen to removeSub.
SelectRemoveNever(p, s) == FALSE /\ UNCHANGED vars

SelectRemove(p, s) ==
  /\ sender[p] = "selecting" /\ sender' = [sender EXCEPT ![p] = "sending"] /\ next' = 1
  /\ sub[s] = "removing" /\ sub' = [sub EXCEPT ![s] = "gone"]
  /\ LET i == find(sendCases, s)
     IN  sendCases' = delete(sendCases, i) /\ active' = ActiveAfter(i)
  /\ UNCHANGED <<inbox, sendLock, sends, sent, entitled, buffer>>

\* The owner of a channel takes a value.
Receive(s) ==
  /\ buffer[s] > 0 /\ buffer' = [buffer EXCEPT ![s] = @ - 1]
  /\ UNCHANGED <<casesVars, sendVars, sub>>

Steps ==
  \/ \E s \in Subs : RemoveNow(s) \/ \E p \in Senders : SelectRemove(p, s)
  \/ \E p \in Senders : Lock(p) \/ AddInbox(p) \/ TrySend(p) \/ FastPathEnds(p) \/ SelectSend(p)

Next ==
  \/ Steps
  \/ \E s \in Subs : Subscribe(s) \/ Unsubscribe(s) \/ Receive(s)
  \/ \E p \in Senders : Call(p)

Spec == Init /\ [][Next]_vars

(***************************************************************************)
(* Calls that have begun go on.  Nobody has to receive, send or subscribe. *)
(***************************************************************************)
FairSpec == Spec /\ WF_vars(Steps)
-----------------------------------------------------------------------------
(***************************************************************************)
(* A Send delivers once to each channel that was subscribed when it began  *)
(* and still is, and never twice to one, whatever is removed meanwhile:    *)
(* the swaps and the shrinking of the case list lose and repeat none       *)
(* (Send, deactivate, delete).                                             *)
(***************************************************************************)
DeliversOnce ==
  /\ \A i, j \in DOMAIN sent : sent[i] = sent[j] => i = j
  /\ sendLock = None =>
       \A s \in entitled : sub[s] = "subscribed" => s \in Range(sent)

(***************************************************************************)
(* A channel is in the inbox or in the case list, once, as long as it is   *)
(* subscribed or waits to be removed, so that a removal finds it (remove   *)
(* looks into the two at different times; delete(-1) would panic).         *)
(***************************************************************************)
InOnePlace ==
  \A s \in Subs :
    LET places == { i \in DOMAIN (inbox \o sendCases) : (inbox \o sendCases)[i] = s }
    IN  IF sub[s] \in {"subscribed", "removing"} THEN \E i \in places : places = {i} ELSE places = {}

(***************************************************************************)
(* Unsubscribe returns while a Send is blocked by a channel that nobody    *)
(* reads, also if it is the channel itself (remove, Send).                 *)
(***************************************************************************)
UnsubscribeReturns == []<>(\A s \in Subs : sub[s] # "removing")
-----------------------------------------------------------------------------
(* Why a Send delivers once, and why a channel is in one place. *)

FeedAssumption == None \notin Senders

Distinct(q) == \A i, j \in DOMAIN q : q[i] = q[j] => i = j

\* How many of the first n elements stay when the k-th is deleted.
OneLess(k, n) == IF k <= n THEN n - 1 ELSE n

\* What deactivate makes of the list.
Swapped(q, i, n) == [q EXCEPT ![i] = q[n], ![n] = q[i]]

Has(q, s) == \E i \in DOMAIN q : q[i] = s

\* Where the Send in progress is.
Phase == IF sendLock = None THEN "idle" ELSE sender[sendLock]

FeedTypes ==
  /\ inbox \in Seq(Subs) /\ sendCases \in Seq(Subs) /\ sent \in Seq(Subs)
  /\ active \in Nat /\ active <= Len(sendCases) /\ entitled \subseteq Subs
  /\ sub \in [Subs -> {"none", "subscribed", "removing", "gone"}]
  /\ sender \in [Senders -> {"idle", "locking", "locked", "sending", "selecting"}]
  /\ sendLock \in Senders \cup {None}
  /\ \A p \in Senders : sendLock = p <=> sender[p] \in {"locked", "sending", "selecting"}

\* Subscribed channels are in the inbox or in the list; those to be removed in the list.
PlacesInv ==
  /\ Distinct(inbox) /\ Distinct(sendCases)
  /\ \A s \in Subs :
       /\ Has(inbox, s) => sub[s] = "subscribed" /\ ~ Has(sendCases, s)
       /\ Has(sendCases, s) => sub[s] \in {"subscribed", "removing"}
       /\ sub[s] \in {"subscribed", "removing"} => Has(inbox, s) \/ Has(sendCases, s)

\* What is to be served is in the active part of the list, and nothing else is there.
ServedInv ==
  /\ Distinct(sent) /\ (Phase = "locked" => sent = <<>>) /\ (Phase \in {"idle", "locked"} => active = 0)
  /\ \A i \in 1 .. active : ~ Has(sent, sendCases[i])
  /\ \A s \in entitled :
       /\ sub[s] # "none"
       /\ Phase # "locked" /\ sub[s] = "subscribed" =>
            Has(sent, s) \/ \E i \in 1 .. active : sendCases[i] = s

\* Inductive.
FeedInv == FeedTypes /\ PlacesInv /\ ServedInv
=============================================================================
