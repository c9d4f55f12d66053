------------------------------- MODULE NetInv -------------------------------
(***************************************************************************)
(* The inductive invariant of the network: each honest core satisfies its  *)
(* invariant relative to what has been signed, and its chain, the events   *)
(* on their way and its timer fit to it.                                   *)
(***************************************************************************)
EXTENDS TendermintNet, CoreInv

\* What holds of each validator: its core, its chain, the events on their way.
ValidatorInv(i) ==
  /\ CoreInv(node[i], Signed) /\ node[i].address = i
  /\ node[i].height <= head[i] + 1
  /\ \A h \in posted[i] : h \in Nat /\ h <= head[i]
  /\ up[i] => Timed(node[i])

NetInv ==
  /\ DOMAIN node = Honest
  /\ head \in [Honest -> Nat] /\ up \in [Honest -> BOOLEAN] /\ DOMAIN posted = Honest
  /\ \A i \in Honest : ValidatorInv(i)

\* Core i goes on from s to t, at its height or to a later one.
GoesOn(s, t) ==
  \/ Onward(s, t)
  \/ /\ s.height < t.height /\ t.address = s.address
     /\ t.out = s.out /\ t.committed = s.committed

\* The step of one core that a step of the network is.
NodeStep(i, t) ==
  /\ node'[i] = t /\ \A j \in Honest : j # i => node'[j] = node[j]
  /\ CoreInv(t, Signed) /\ GoesOn(node[i], t)
  /\ t.round <= MaxRound \/ t = node[i]

Stepped == NetInv' /\ \E i \in Honest : \E t : NodeStep(i, t)
=============================================================================
