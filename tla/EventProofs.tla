---------------------------- MODULE EventProofs -----------------------------
(***************************************************************************)
(* The two ways in which events are given to subscribers, a Feed and the   *)
(* event mux.                                                              *)
(*                                                                         *)
(* A Send of a Feed serves every channel once, whatever is subscribed and  *)
(* removed meanwhile.  First what delete, deactivate and the joining of    *)
(* the inbox do to a list without repetitions; then every step keeps       *)
(* FeedInv: the active part of the list holds exactly the channels that    *)
(* are still to be served.                                                 *)
(*                                                                         *)
(* The mux closes no channel that a post sends on: every step keeps        *)
(* MuxInv.  It shares no state with a Feed; Subs and None are declared     *)
(* once and stand for the constants of each.                               *)
(***************************************************************************)
EXTENDS Feed, SequenceTheorems, TLAPS

\* What delete leaves.
LEMMA DeleteIs ==
  ASSUME NEW q \in Seq(Subs), NEW k \in 1 .. Len(q)
  PROVE  /\ delete(q, k) \in Seq(Subs) /\ Len(delete(q, k)) = Len(q) - 1
         /\ DOMAIN delete(q, k) = 1 .. Len(q) - 1
         /\ \A i \in 1 .. Len(q) - 1 : delete(q, k)[i] = IF i < k THEN q[i] ELSE q[i + 1]
<1> DEFINE v == SubSeq(q, 1, k - 1)
           w == SubSeq(q, k + 1, Len(q))
<1>1. Len(q) \in Nat /\ k \in Nat /\ k <= Len(q) /\ k >= 1
  OBVIOUS
<1>2. v \in Seq(Subs) /\ Len(v) = k - 1 /\ \A i \in 1 .. k - 1 : v[i] = q[i]
  OBVIOUS
<1>3. w \in Seq(Subs) /\ Len(w) = Len(q) - k /\ \A i \in 1 .. Len(q) - k : w[i] = q[k + i]
  OBVIOUS
<1>4. delete(q, k) = v \o w
  BY Zenon DEF delete
<1> HIDE DEF v, w
<1>5. /\ v \o w \in Seq(Subs) /\ Len(v \o w) = Len(v) + Len(w)
      /\ \A i \in 1 .. Len(v) + Len(w) : (v \o w)[i] = IF i <= Len(v) THEN v[i] ELSE w[i - Len(v)]
  BY <1>2, <1>3, ConcatProperties
<1> DEFINE u == v \o w
<1>6. u \in Seq(Subs) /\ Len(u) = Len(q) - 1
  BY <1>1, <1>2, <1>3, <1>5
<1>7. DOMAIN u = 1 .. Len(q) - 1
  BY <1>6
<1>8. ASSUME NEW i \in 1 .. Len(q) - 1 PROVE u[i] = IF i < k THEN q[i] ELSE q[i + 1]
  <2>1. i \in 1 .. Len(v) + Len(w)
    BY <1>1, <1>2, <1>3
  <2>2. u[i] = IF i <= Len(v) THEN v[i] ELSE w[i - Len(v)]
    BY Zenon, <1>5, <2>1
  <2>3. CASE i < k
    BY <1>1, <1>2, <2>2, <2>3
  <2>4. CASE ~ (i < k)
    <3>1. i - (k - 1) \in 1 .. Len(q) - k /\ k + (i - (k - 1)) = i + 1 /\ ~ (i <= Len(v))
      BY <1>1, <1>2, <2>4
    <3>2. u[i] = w[i - (k - 1)]
      BY Zenon, <1>2, <2>2, <3>1
    <3> QED BY Zenon, <1>3, <2>4, <3>1, <3>2
  <2> QED BY Zenon, <2>3, <2>4
<1> QED BY Zenon, <1>4, <1>6, <1>7, <1>8

\* Where the elements that stay come from, and where they are.
LEMMA DeleteMoves ==
  ASSUME NEW q \in Seq(Subs), NEW k \in 1 .. Len(q), NEW n \in Nat, n <= Len(q)
  PROVE  /\ OneLess(k, n) \in Nat /\ OneLess(k, n) <= Len(q) - 1
         /\ \A i \in 1 .. OneLess(k, n) : \E j \in 1 .. n : j # k /\ delete(q, k)[i] = q[j]
         /\ \A j \in 1 .. n : j # k => \E i \in 1 .. OneLess(k, n) : delete(q, k)[i] = q[j]
<1> DEFINE m == OneLess(k, n)
<1>0. m = IF k <= n THEN n - 1 ELSE n
  BY Zenon DEF OneLess
<1> HIDE DEF m
<1>1. Len(q) \in Nat /\ k \in Nat /\ k <= Len(q) /\ k >= 1 /\ m \in Nat /\ m <= Len(q) - 1
  BY <1>0
<1>2. \A i \in 1 .. Len(q) - 1 : delete(q, k)[i] = IF i < k THEN q[i] ELSE q[i + 1]
  BY Zenon, DeleteIs
<1>3. ASSUME NEW i \in 1 .. m PROVE \E j \in 1 .. n : j # k /\ delete(q, k)[i] = q[j]
  <2>1. /\ i \in 1 .. Len(q) - 1 /\ (i < k => i \in 1 .. n /\ i # k)
        /\ ~ (i < k) => i + 1 \in 1 .. n /\ i + 1 # k
    BY <1>0, <1>1
  <2> QED BY Zenon, <1>2, <2>1
<1>4. ASSUME NEW j \in 1 .. n, j # k PROVE \E i \in 1 .. m : delete(q, k)[i] = q[j]
  <2>1. CASE j < k
    <3>1. j \in 1 .. m /\ j \in 1 .. Len(q) - 1
      BY <1>0, <1>1, <2>1
    <3> QED BY Zenon, <1>2, <2>1, <3>1
  <2>2. CASE ~ (j < k)
    <3>1. j - 1 \in 1 .. m /\ j - 1 \in 1 .. Len(q) - 1 /\ ~ (j - 1 < k) /\ (j - 1) + 1 = j
      BY <1>0, <1>1, <1>4, <2>2
    <3> QED BY Zenon, <1>2, <3>1
  <2> QED BY Zenon, <2>1, <2>2
<1> QED BY Zenon, <1>1, <1>3, <1>4 DEF m

\* The deleted channel is gone, every other one stays, and none comes twice.
LEMMA DeleteKeeps ==
  ASSUME NEW q \in Seq(Subs), NEW k \in 1 .. Len(q), Distinct(q)
  PROVE  /\ Distinct(delete(q, k))
         /\ \A s : Has(delete(q, k), s) <=> Has(q, s) /\ s # q[k]
<1> DEFINE d == delete(q, k)
<1>1. /\ Len(q) \in Nat /\ k \in Nat /\ DOMAIN q = 1 .. Len(q) /\ DOMAIN d = 1 .. Len(q) - 1
      /\ \A i \in 1 .. Len(q) - 1 : d[i] = IF i < k THEN q[i] ELSE q[i + 1]
  BY DeleteIs
<1> HIDE DEF d
<1>2. ASSUME NEW i \in DOMAIN d, NEW j \in DOMAIN d, d[i] = d[j] PROVE i = j
  <2>1. \A x, y \in 1 .. Len(q) : q[x] = q[y] => x = y
    BY Zenon, <1>1 DEF Distinct
  <2>2. /\ i \in 1 .. Len(q) /\ i + 1 \in 1 .. Len(q) /\ j \in 1 .. Len(q) /\ j + 1 \in 1 .. Len(q)
        /\ i \in 1 .. Len(q) - 1 /\ j \in 1 .. Len(q) - 1
    BY <1>1
  <2>3. /\ d[i] = (IF i < k THEN q[i] ELSE q[i + 1]) /\ d[j] = (IF j < k THEN q[j] ELSE q[j + 1])
    BY Zenon, <1>1, <2>2
  <2>4. \/ i < k /\ j < k /\ q[i] = q[j]
        \/ i < k /\ ~ (j < k) /\ q[i] = q[j + 1]
        \/ ~ (i < k) /\ j < k /\ q[i + 1] = q[j]
        \/ ~ (i < k) /\ ~ (j < k) /\ q[i + 1] = q[j + 1]
    BY Zenon, <1>2, <2>3
  <2>5. \/ i < k /\ j < k /\ i = j
        \/ i < k /\ ~ (j < k) /\ i = j + 1
        \/ ~ (i < k) /\ j < k /\ i + 1 = j
        \/ ~ (i < k) /\ ~ (j < k) /\ i + 1 = j + 1
    BY Zenon, <2>1, <2>2, <2>4
  <2> QED BY <1>1, <2>2, <2>5
<1>3. /\ \A i \in 1 .. Len(q) - 1 : \E j \in 1 .. Len(q) : j # k /\ d[i] = q[j]
      /\ \A j \in 1 .. Len(q) : j # k => \E i \in 1 .. Len(q) - 1 : d[i] = q[j]
  <2>1. Len(q) \in Nat /\ Len(q) <= Len(q)
    BY <1>1
  <2>2. OneLess(k, Len(q)) = Len(q) - 1
    BY <1>1 DEF OneLess
  <2>3. /\ \A i \in 1 .. OneLess(k, Len(q)) : \E j \in 1 .. Len(q) : j # k /\ d[i] = q[j]
        /\ \A j \in 1 .. Len(q) : j # k => \E i \in 1 .. OneLess(k, Len(q)) : d[i] = q[j]
    BY Zenon, <2>1, DeleteMoves DEF d
  <2> QED BY Zenon, <2>2, <2>3
<1>4. ASSUME NEW s, Has(d, s) PROVE Has(q, s) /\ s # q[k]
  <2>1. PICK i \in 1 .. Len(q) - 1 : d[i] = s
    BY Zenon, <1>1, <1>4 DEF Has
  <2>2. PICK j \in 1 .. Len(q) : j # k /\ d[i] = q[j]
    BY Zenon, <1>3
  <2> QED BY Zenon, <1>1, <2>1, <2>2 DEF Has, Distinct
<1>5. ASSUME NEW s, Has(q, s), s # q[k] PROVE Has(d, s)
  <2>1. PICK j \in 1 .. Len(q) : q[j] = s
    BY Zenon, <1>1, <1>5 DEF Has
  <2>2. PICK i \in 1 .. Len(q) - 1 : d[i] = q[j]
    BY Zenon, <1>3, <1>5, <2>1
  <2> QED BY Zenon, <1>1, <2>1, <2>2 DEF Has
<1> QED BY Zenon, <1>2, <1>4, <1>5 DEF Distinct, d

\* find finds a channel that is there.
LEMMA FindIs ==
  ASSUME NEW q \in Seq(Subs), NEW s, Has(q, s)
  PROVE  find(q, s) \in 1 .. Len(q) /\ q[find(q, s)] = s
<1>1. DOMAIN q = 1 .. Len(q)
  OBVIOUS
<1> QED BY Zenon, <1>1 DEF find, Has

\* A new channel at the end.
LEMMA AppendIs ==
  ASSUME NEW q \in Seq(Subs), NEW s \in Subs, Distinct(q), ~ Has(q, s)
  PROVE  /\ Append(q, s) \in Seq(Subs) /\ Distinct(Append(q, s))
         /\ \A t : Has(Append(q, s), t) <=> Has(q, t) \/ t = s
<1> DEFINE u == Append(q, s)
<1>1. /\ Len(q) \in Nat /\ u \in Seq(Subs) /\ Len(u) = Len(q) + 1 /\ u[Len(q) + 1] = s
      /\ DOMAIN q = 1 .. Len(q) /\ DOMAIN u = 1 .. Len(u)
      /\ \A i \in 1 .. Len(q) : u[i] = q[i]
  BY AppendProperties
<1> HIDE DEF u
<1>2. DOMAIN u = DOMAIN q \cup {Len(q) + 1} /\ Len(q) + 1 \notin DOMAIN q
  BY <1>1
<1>3. \A i \in DOMAIN q : u[i] = q[i]
  BY Zenon, <1>1
<1>4. ASSUME NEW t, Has(u, t) PROVE Has(q, t) \/ t = s
  <2>1. PICK i \in DOMAIN u : u[i] = t
    BY Zenon, <1>4 DEF Has
  <2>2. i \in DOMAIN q \/ i = Len(q) + 1
    BY Zenon, <1>2
  <2> QED BY Zenon, <1>1, <1>3, <2>1, <2>2 DEF Has
<1>5. ASSUME NEW t, Has(q, t) \/ t = s PROVE Has(u, t)
  <2>1. CASE Has(q, t)
    <3>1. PICK i \in DOMAIN q : q[i] = t
      BY Zenon, <2>1 DEF Has
    <3> QED BY Zenon, <1>2, <1>3, <3>1 DEF Has
  <2>2. CASE t = s
    <3>1. Len(q) + 1 \in DOMAIN u
      BY Zenon, <1>2
    <3> QED BY Zenon, <1>1, <2>2, <3>1 DEF Has
  <2> QED BY Zenon, <1>5, <2>1, <2>2
<1>6. ASSUME NEW i \in DOMAIN u, NEW j \in DOMAIN u, u[i] = u[j] PROVE i = j
  <2>1. CASE i \in DOMAIN q /\ j \in DOMAIN q
    BY Zenon, <1>3, <1>6, <2>1 DEF Distinct
  <2>2. CASE i \in DOMAIN q /\ j = Len(q) + 1
    BY Zenon, <1>1, <1>3, <1>6, <2>2 DEF Has
  <2>3. CASE i = Len(q) + 1 /\ j \in DOMAIN q
    BY Zenon, <1>1, <1>3, <1>6, <2>3 DEF Has
  <2> QED BY Zenon, <1>2, <2>1, <2>2, <2>3
<1> QED BY Zenon, <1>1, <1>4, <1>5, <1>6 DEF Distinct, u

\* Two lists that share nothing, one after the other.
LEMMA ConcatIs ==
  ASSUME NEW q \in Seq(Subs), NEW r \in Seq(Subs), Distinct(q), Distinct(r),
         \A s : ~ (Has(q, s) /\ Has(r, s))
  PROVE  /\ q \o r \in Seq(Subs) /\ Len(q \o r) = Len(q) + Len(r) /\ Distinct(q \o r)
         /\ \A s : Has(q \o r, s) <=> Has(q, s) \/ Has(r, s)
<1> DEFINE u == q \o r
<1>1. /\ Len(q) \in Nat /\ Len(r) \in Nat /\ u \in Seq(Subs) /\ Len(u) = Len(q) + Len(r)
      /\ DOMAIN q = 1 .. Len(q) /\ DOMAIN r = 1 .. Len(r) /\ DOMAIN u = 1 .. Len(q) + Len(r)
      /\ \A i \in 1 .. Len(q) + Len(r) : u[i] = IF i <= Len(q) THEN q[i] ELSE r[i - Len(q)]
  BY ConcatProperties
<1> HIDE DEF u
<1>2. ASSUME NEW i \in DOMAIN u
      PROVE  \/ i \in DOMAIN q /\ u[i] = q[i]
             \/ i - Len(q) \in DOMAIN r /\ u[i] = r[i - Len(q)] /\ i \in Nat
  <2>1. i \in 1 .. Len(q) + Len(r)
    BY Zenon, <1>1
  <2>2. (i <= Len(q) => i \in 1 .. Len(q)) /\ (~ (i <= Len(q)) => i - Len(q) \in 1 .. Len(r) /\ i \in Nat)
    BY <1>1, <2>1
  <2> QED BY Zenon, <1>1, <2>1, <2>2
<1>3. \A i \in DOMAIN q : i \in DOMAIN u /\ u[i] = q[i]
  <2>1. \A i \in 1 .. Len(q) : i \in 1 .. Len(q) + Len(r) /\ i <= Len(q)
    BY <1>1
  <2> QED BY Zenon, <1>1, <2>1
<1>4. \A i \in DOMAIN r : Len(q) + i \in DOMAIN u /\ u[Len(q) + i] = r[i]
  <2>1. \A i \in 1 .. Len(r) : Len(q) + i \in 1 .. Len(q) + Len(r) /\ ~ (Len(q) + i <= Len(q)) /\ (Len(q) + i) - Len(q) = i
    BY <1>1
  <2>2. ASSUME NEW i \in 1 .. Len(r) PROVE u[Len(q) + i] = r[i]
    <3>1. u[Len(q) + i] = r[(Len(q) + i) - Len(q)]
      BY Zenon, <1>1, <2>1
    <3> QED BY Zenon, <2>1, <3>1
  <2> QED BY Zenon, <1>1, <2>1, <2>2
<1>5. \A s : Has(u, s) => Has(q, s) \/ Has(r, s)
  BY Zenon, <1>2 DEF Has
<1>6. \A s : Has(q, s) => Has(u, s)
  BY Zenon, <1>3 DEF Has
<1>7. \A s : Has(r, s) => Has(u, s)
  BY Zenon, <1>4 DEF Has
<1>8. ASSUME NEW i \in DOMAIN u, NEW j \in DOMAIN u, u[i] = u[j] PROVE i = j
  <2>1. CASE i \in DOMAIN q /\ u[i] = q[i] /\ j \in DOMAIN q /\ u[j] = q[j]
    BY Zenon, <1>8, <2>1 DEF Distinct
  <2>2. CASE /\ i - Len(q) \in DOMAIN r /\ u[i] = r[i - Len(q)] /\ i \in Nat
             /\ j - Len(q) \in DOMAIN r /\ u[j] = r[j - Len(q)] /\ j \in Nat
    <3>1. i - Len(q) = j - Len(q)
      BY Zenon, <1>8, <2>2 DEF Distinct
    <3> QED BY <1>1, <2>2, <3>1
  <2>3. CASE i \in DOMAIN q /\ u[i] = q[i] /\ j - Len(q) \in DOMAIN r /\ u[j] = r[j - Len(q)]
    BY Zenon, <1>8, <2>3 DEF Has
  <2>4. CASE j \in DOMAIN q /\ u[j] = q[j] /\ i - Len(q) \in DOMAIN r /\ u[i] = r[i - Len(q)]
    BY Zenon, <1>8, <2>4 DEF Has
  <2> QED BY Zenon, <1>2, <2>1, <2>2, <2>3, <2>4
<1> QED BY Zenon, <1>1, <1>5, <1>6, <1>7, <1>8 DEF Distinct, u

\* What deactivate leaves: the case served is out of the active part.
LEMMA SwapIs ==
  ASSUME NEW q \in Seq(Subs), NEW n \in Nat, n <= Len(q), NEW i \in 1 .. n, Distinct(q)
  PROVE  /\ Swapped(q, i, n) \in Seq(Subs) /\ Len(Swapped(q, i, n)) = Len(q) /\ Distinct(Swapped(q, i, n))
         /\ \A s : Has(Swapped(q, i, n), s) <=> Has(q, s)
         /\ \A j \in 1 .. n - 1 : \E l \in 1 .. n : l # i /\ Swapped(q, i, n)[j] = q[l]
         /\ \A l \in 1 .. n : l # i => \E j \in 1 .. n - 1 : Swapped(q, i, n)[j] = q[l]
<1> DEFINE u == Swapped(q, i, n)
<1>0. u = [q EXCEPT ![i] = q[n], ![n] = q[i]]
  BY Zenon DEF Swapped
<1> HIDE DEF u
<1>1. /\ Len(q) \in Nat /\ DOMAIN q = 1 .. Len(q) /\ i \in 1 .. Len(q) /\ n \in 1 .. Len(q)
  OBVIOUS
<1>2. \A j \in 1 .. Len(q) : q[j] \in Subs
  BY ElementOfSeq
<1>3. /\ DOMAIN u = 1 .. Len(q) /\ u[n] = q[i] /\ (i # n => u[i] = q[n])
      /\ \A j \in 1 .. Len(q) : j # i /\ j # n => u[j] = q[j]
  BY <1>0, <1>1
<1>4. u \in [1 .. Len(q) -> Subs]
  BY <1>0, <1>1, <1>2
<1>5. u \in Seq(Subs) /\ Len(u) = Len(q)
  BY <1>1, <1>4, SeqDef
<1>6. ASSUME NEW j \in 1 .. Len(q)
      PROVE  \E l \in 1 .. Len(q) : u[j] = q[l] /\ (j = n <=> l = i) /\ (j = i /\ i # n => l = n)
                                    /\ (j # i /\ j # n => l = j)
  BY Zenon, <1>1, <1>3
<1>7. ASSUME NEW l \in 1 .. Len(q)
      PROVE  \E j \in 1 .. Len(q) : u[j] = q[l] /\ (l = i => j = n) /\ (l = n /\ l # i => j = i)
                                    /\ (l # i /\ l # n => j = l)
  BY Zenon, <1>1, <1>3
<1>8. ASSUME NEW j \in 1 .. Len(q), NEW k \in 1 .. Len(q), u[j] = u[k] PROVE j = k
  <2>1. \A x, y \in 1 .. Len(q) : q[x] = q[y] => x = y
    BY Zenon, <1>1 DEF Distinct
  <2>2. PICK x \in 1 .. Len(q) : u[j] = q[x] /\ (j = n <=> x = i) /\ (j = i /\ i # n => x = n)
                                 /\ (j # i /\ j # n => x = j)
    BY Zenon, <1>6
  <2>3. PICK y \in 1 .. Len(q) : u[k] = q[y] /\ (k = n <=> y = i) /\ (k = i /\ i # n => y = n)
                                 /\ (k # i /\ k # n => y = k)
    BY Zenon, <1>6
  <2>4. x = y
    BY Zenon, <1>8, <2>1, <2>2, <2>3
  <2> QED BY <2>2, <2>3, <2>4
<1>9. Distinct(u)
  <2>1. \A j, k \in 1 .. Len(q) : u[j] = u[k] => j = k
    BY Zenon, <1>8
  <2>2. DOMAIN u = 1 .. Len(q)
    BY Zenon, <1>3
  <2> QED BY <2>1, <2>2 DEF Distinct
<1>10. \A s : Has(u, s) <=> Has(q, s)
  <2>1. \A j \in 1 .. Len(q) : \E l \in 1 .. Len(q) : u[j] = q[l]
    BY Zenon, <1>6
  <2>2. \A l \in 1 .. Len(q) : \E j \in 1 .. Len(q) : u[j] = q[l]
    BY Zenon, <1>7
  <2>3. ASSUME NEW s, Has(u, s) PROVE Has(q, s)
    BY Zenon, <1>1, <1>3, <2>1, <2>3 DEF Has
  <2>4. ASSUME NEW s, Has(q, s) PROVE Has(u, s)
    BY Zenon, <1>1, <1>3, <2>2, <2>4 DEF Has
  <2> QED BY Zenon, <2>3, <2>4
<1>11. ASSUME NEW j \in 1 .. n - 1 PROVE \E l \in 1 .. n : l # i /\ u[j] = q[l]
  <2>1. j \in 1 .. Len(q) /\ j # n /\ j \in 1 .. n /\ n \in 1 .. n
    BY <1>1
  <2>2. CASE j = i
    BY Zenon, <1>3, <2>1, <2>2
  <2>3. CASE j # i
    BY Zenon, <1>3, <2>1, <2>3
  <2> QED BY Zenon, <2>2, <2>3
<1>12. ASSUME NEW l \in 1 .. n, l # i PROVE \E j \in 1 .. n - 1 : u[j] = q[l]
  <2>1. CASE l = n
    <3>1. i \in 1 .. n - 1 /\ i # n
      BY <1>12, <2>1
    <3> QED BY Zenon, <1>3, <2>1, <3>1
  <2>2. CASE l # n
    <3>1. l \in 1 .. n - 1 /\ l \in 1 .. Len(q)
      BY <1>1, <2>2
    <3> QED BY Zenon, <1>3, <1>12, <2>2, <3>1
  <2> QED BY Zenon, <2>1, <2>2
<1> QED BY Zenon, <1>5, <1>9, <1>10, <1>11, <1>12 DEF u
-----------------------------------------------------------------------------
\* A new Feed.
LEMMA FeedInitOK == ASSUME FeedAssumption, Init PROVE FeedInv
<1>1. /\ inbox = <<>> /\ sendCases = <<>> /\ sent = <<>> /\ active = 0 /\ sendLock = None /\ entitled = {}
      /\ sender = [p \in Senders |-> "idle"] /\ sub = [s \in Subs |-> "none"]
  BY DEF Init
<1>2. FeedTypes
  BY <1>1 DEF FeedTypes, FeedAssumption
<1>3. Distinct(<<>>) /\ \A s : ~ Has(<<>>, s)
  BY DEF Distinct, Has
<1>4. PlacesInv
  BY <1>1, <1>3 DEF PlacesInv
<1>5. ServedInv
  BY <1>1, <1>3 DEF ServedInv, Phase
<1> QED BY Zenon, <1>2, <1>4, <1>5 DEF FeedInv

\* The inbox and the list share nothing.
LEMMA Disjoint ==
  ASSUME FeedInv
  PROVE  \A s : ~ (Has(inbox, s) /\ Has(sendCases, s))
<1>1. ASSUME NEW s, Has(inbox, s) PROVE s \in Subs
  BY <1>1, ElementOfSeq DEF Has, FeedInv, FeedTypes
<1> QED BY Zenon, <1>1 DEF FeedInv, PlacesInv

\* A channel goes to the inbox.
LEMMA FeedSubscribe ==
  ASSUME FeedAssumption, FeedInv, NEW s \in Subs, Subscribe(s)
  PROVE  FeedInv'
<1>1. /\ sub[s] = "none" /\ sub' = [sub EXCEPT ![s] = "subscribed"] /\ inbox' = Append(inbox, s)
      /\ UNCHANGED <<sendCases, active, sendLock, sender, sent, entitled>>
  BY DEF Subscribe, sendVars
<1>2. FeedTypes /\ PlacesInv /\ ServedInv
  BY Zenon DEF FeedInv
<1>3. ~ Has(inbox, s) /\ ~ Has(sendCases, s)
  BY <1>1, <1>2 DEF PlacesInv
<1>4. /\ inbox' \in Seq(Subs) /\ Distinct(inbox')
      /\ \A t : Has(inbox', t) <=> Has(inbox, t) \/ t = s
  BY Zenon, <1>1, <1>2, <1>3, AppendIs DEF FeedTypes, PlacesInv
<1>5. sub \in [Subs -> {"none", "subscribed", "removing", "gone"}]
  BY Zenon, <1>2 DEF FeedTypes
<1>6. /\ sub' \in [Subs -> {"none", "subscribed", "removing", "gone"}]
      /\ \A t \in Subs : sub'[t] = IF t = s THEN "subscribed" ELSE sub[t]
  BY <1>1, <1>5
<1>7. FeedTypes'
  BY Zenon, <1>1, <1>2, <1>4, <1>6 DEF FeedTypes
<1>8. PlacesInv'
  BY <1>1, <1>2, <1>3, <1>4, <1>6 DEF PlacesInv
<1>9. ServedInv'
  <2>1. Phase' = Phase /\ \A t \in entitled : t \in Subs
    BY <1>1, <1>2 DEF Phase, FeedTypes
  <2>2. \A t \in entitled : t # s /\ sub'[t] = sub[t]
    BY Zenon, <1>1, <1>2, <1>6, <2>1 DEF ServedInv
  <2> QED BY Zenon, <1>1, <1>2, <2>1, <2>2 DEF ServedInv
<1> QED BY Zenon, <1>7, <1>8, <1>9 DEF FeedInv

\* A subscription ends while the list of cases stays.
LEMMA FeedUnsubscribe ==
  ASSUME FeedAssumption, FeedInv, NEW s \in Subs, Unsubscribe(s)
  PROVE  FeedInv'
<1>1. /\ sub[s] = "subscribed" /\ UNCHANGED <<sendCases, active, sendLock, sender, sent, entitled>>
      /\ \/ s \in Range(inbox) /\ inbox' = delete(inbox, find(inbox, s)) /\ sub' = [sub EXCEPT ![s] = "gone"]
         \/ s \notin Range(inbox) /\ inbox' = inbox /\ sub' = [sub EXCEPT ![s] = "removing"]
  BY DEF Unsubscribe, sendVars
<1>2. FeedTypes /\ PlacesInv /\ ServedInv
  BY Zenon DEF FeedInv
<1>3. s \in Range(inbox) <=> Has(inbox, s)
  BY Zenon DEF Range, Has
<1>4. /\ sub \in [Subs -> {"none", "subscribed", "removing", "gone"}] /\ inbox \in Seq(Subs) /\ Distinct(inbox)
  BY Zenon, <1>2 DEF FeedTypes, PlacesInv
<1>5. /\ inbox' \in Seq(Subs) /\ Distinct(inbox')
      /\ \A t : Has(inbox', t) <=> Has(inbox, t) /\ t # s
  <2>1. CASE s \in Range(inbox) /\ inbox' = delete(inbox, find(inbox, s))
    <3>1. find(inbox, s) \in 1 .. Len(inbox) /\ inbox[find(inbox, s)] = s
      BY Zenon, <1>3, <1>4, <2>1, FindIs
    <3>2. delete(inbox, find(inbox, s)) \in Seq(Subs)
      BY Zenon, <1>4, <3>1, DeleteIs
    <3>3. /\ Distinct(delete(inbox, find(inbox, s)))
          /\ \A t : Has(delete(inbox, find(inbox, s)), t) <=> Has(inbox, t) /\ t # inbox[find(inbox, s)]
      BY Zenon, <1>4, <3>1, DeleteKeeps
    <3> QED BY Zenon, <2>1, <3>1, <3>2, <3>3
  <2>2. CASE s \notin Range(inbox) /\ inbox' = inbox
    BY Zenon, <1>3, <1>4, <2>2
  <2> QED BY Zenon, <1>1, <2>1, <2>2
<1>6. /\ sub' \in [Subs -> {"none", "subscribed", "removing", "gone"}]
      /\ \/ sub'[s] = "gone" /\ Has(inbox, s)
         \/ sub'[s] = "removing" /\ ~ Has(inbox, s)
      /\ \A t \in Subs : t # s => sub'[t] = sub[t]
  BY <1>1, <1>3, <1>4
<1>7. FeedTypes'
  BY Zenon, <1>1, <1>2, <1>5, <1>6 DEF FeedTypes
<1>8. PlacesInv'
  BY <1>1, <1>2, <1>5, <1>6 DEF PlacesInv
<1>9. ServedInv'
  <2>1. Phase' = Phase /\ \A t \in entitled : t \in Subs
    BY <1>1, <1>2 DEF Phase, FeedTypes
  <2>2. sub'[s] # "none" /\ sub'[s] # "subscribed"
    BY <1>6
  <2>3. /\ Distinct(sent') /\ (Phase' = "locked" => sent' = <<>>) /\ (Phase' \in {"idle", "locked"} => active' = 0)
        /\ \A i \in 1 .. active' : ~ Has(sent', sendCases'[i])
    BY Zenon, <1>1, <1>2, <2>1 DEF ServedInv
  <2>4. ASSUME NEW t \in entitled
        PROVE  /\ sub'[t] # "none"
               /\ Phase' # "locked" /\ sub'[t] = "subscribed" =>
                    Has(sent', t) \/ \E i \in 1 .. active' : sendCases'[i] = t
    <3>1. CASE t = s
      BY Zenon, <2>2, <3>1
    <3>2. CASE t # s
      <4>1. sub'[t] = sub[t]
        BY Zenon, <1>6, <2>1, <3>2
      <4> QED BY Zenon, <1>1, <1>2, <2>1, <4>1 DEF ServedInv
    <3> QED BY Zenon, <3>1, <3>2
  <2>5. entitled' = entitled
    BY Zenon, <1>1
  <2> QED BY Zenon, <2>3, <2>4, <2>5 DEF ServedInv
<1> QED BY Zenon, <1>7, <1>8, <1>9 DEF FeedInv

\* A channel leaves the list, whether or not a Send is in progress.
LEMMA FeedRemove ==
  ASSUME FeedAssumption, FeedInv, NEW s \in Subs, sub[s] = "removing",
         sub' = [sub EXCEPT ![s] = "gone"], sendCases' = delete(sendCases, find(sendCases, s)),
         active' = ActiveAfter(find(sendCases, s)), UNCHANGED <<inbox, sendLock, sent, entitled>>,
         sender' \in [Senders -> {"idle", "locking", "locked", "sending", "selecting"}],
         Phase' = Phase \/ (Phase = "selecting" /\ Phase' = "sending"),
         \A p \in Senders : sendLock = p <=> sender'[p] \in {"locked", "sending", "selecting"}
  PROVE  FeedInv'
<1>1. FeedTypes /\ PlacesInv /\ ServedInv
  BY Zenon DEF FeedInv
<1>2. Has(sendCases, s) /\ ~ Has(inbox, s)
  BY <1>1 DEF PlacesInv
<1> DEFINE k == find(sendCases, s)
<1>3. sendCases \in Seq(Subs) /\ Distinct(sendCases) /\ active \in Nat /\ active <= Len(sendCases)
  BY Zenon, <1>1 DEF FeedTypes, PlacesInv
<1>4. k \in 1 .. Len(sendCases) /\ sendCases[k] = s
  BY Zenon, <1>2, <1>3, FindIs
<1>5. active' = OneLess(k, active)
  BY Zenon DEF ActiveAfter, OneLess
<1> HIDE DEF k
<1>d. sendCases' = delete(sendCases, k)
  BY Zenon DEF k
<1>6. sendCases' \in Seq(Subs) /\ Len(sendCases') = Len(sendCases) - 1
  BY Zenon, <1>3, <1>4, <1>d, DeleteIs
<1>7. Distinct(sendCases') /\ \A t : Has(sendCases', t) <=> Has(sendCases, t) /\ t # s
  <2>1. /\ Distinct(delete(sendCases, k))
        /\ \A t : Has(delete(sendCases, k), t) <=> Has(sendCases, t) /\ t # sendCases[k]
    BY Zenon, <1>3, <1>4, DeleteKeeps
  <2> QED BY Zenon, <1>4, <1>d, <2>1
<1>8. /\ active' \in Nat /\ active' <= Len(sendCases) - 1
      /\ \A i \in 1 .. active' : \E j \in 1 .. active : j # k /\ sendCases'[i] = sendCases[j]
      /\ \A j \in 1 .. active : j # k => \E i \in 1 .. active' : sendCases'[i] = sendCases[j]
  <2>1. /\ OneLess(k, active) \in Nat /\ OneLess(k, active) <= Len(sendCases) - 1
        /\ \A i \in 1 .. OneLess(k, active) : \E j \in 1 .. active : j # k /\ delete(sendCases, k)[i] = sendCases[j]
        /\ \A j \in 1 .. active : j # k => \E i \in 1 .. OneLess(k, active) : delete(sendCases, k)[i] = sendCases[j]
    <3>1. /\ sendCases \in Seq(Subs) /\ k \in 1 .. Len(sendCases)
          /\ active \in Nat /\ active <= Len(sendCases)
      BY Zenon, <1>3, <1>4
    <3> QED BY <3>1, DeleteMoves
  <2> QED BY <1>5, <1>d, <2>1
<1>9. /\ sub' \in [Subs -> {"none", "subscribed", "removing", "gone"}]
      /\ sub'[s] = "gone" /\ \A t \in Subs : t # s => sub'[t] = sub[t]
  BY <1>1 DEF FeedTypes
<1>10. FeedTypes'
  BY Zenon, <1>1, <1>6, <1>8, <1>9 DEF FeedTypes
<1>11. PlacesInv'
  BY <1>1, <1>2, <1>7, <1>9 DEF PlacesInv
<1>12. ServedInv'
  <2>1. /\ (Phase' = "locked" => Phase = "locked") /\ (Phase' # "locked" => Phase # "locked")
        /\ (Phase' \in {"idle", "locked"} => Phase \in {"idle", "locked"})
    OBVIOUS
  <2>2. Phase' \in {"idle", "locked"} => active' = 0
    <3>1. SUFFICES ASSUME active = 0 PROVE active' = 0
      BY Zenon, <1>1, <2>1 DEF ServedInv
    <3> QED BY <1>3, <1>4, <1>5, <3>1 DEF OneLess
  <2>3. \A i \in 1 .. active' : ~ Has(sent, sendCases'[i])
    BY Zenon, <1>1, <1>8 DEF ServedInv
  <2>4. sub'[s] # "none" /\ sub'[s] # "subscribed"
    BY <1>9
  <2>5. ASSUME NEW t \in entitled
        PROVE  /\ sub'[t] # "none"
               /\ Phase' # "locked" /\ sub'[t] = "subscribed" =>
                    Has(sent, t) \/ \E i \in 1 .. active' : sendCases'[i] = t
    <3>1. t \in Subs
      BY Zenon, <1>1 DEF FeedTypes
    <3>2. CASE t = s
      BY Zenon, <2>4, <3>2
    <3>3. CASE t # s
      <4>1. sub'[t] = sub[t] /\ sub[t] # "none"
        BY Zenon, <1>1, <1>9, <3>1, <3>3 DEF ServedInv
      <4>2. ASSUME Phase' # "locked", sub[t] = "subscribed", ~ Has(sent, t)
            PROVE  \E i \in 1 .. active' : sendCases'[i] = t
        <5>1. PICK j \in 1 .. active : sendCases[j] = t
          BY Zenon, <1>1, <2>1, <4>2 DEF ServedInv
        <5>2. j # k
          BY Zenon, <1>4, <3>3, <5>1
        <5> QED BY Zenon, <1>8, <5>1, <5>2
      <4> QED BY Zenon, <4>1, <4>2
    <3> QED BY Zenon, <3>2, <3>3
  <2> QED BY Zenon, <1>1, <2>1, <2>2, <2>3, <2>5 DEF ServedInv
<1> QED BY Zenon, <1>10, <1>11, <1>12 DEF FeedInv

\* Between two Sends.
LEMMA FeedRemoveNow ==
  ASSUME FeedAssumption, FeedInv, NEW s \in Subs, RemoveNow(s)
  PROVE  FeedInv'
<1>1. /\ sub[s] = "removing" /\ sub' = [sub EXCEPT ![s] = "gone"] /\ sendLock = None
      /\ sendCases' = delete(sendCases, find(sendCases, s))
      /\ UNCHANGED <<inbox, active, sendLock, sender, sent, entitled>>
  BY DEF RemoveNow, sendVars
<1>2. FeedTypes /\ PlacesInv /\ ServedInv
  BY Zenon DEF FeedInv
<1>3. Phase' = Phase /\ Phase = "idle"
  BY <1>1 DEF Phase
<1>4. active = 0
  BY <1>2, <1>3 DEF ServedInv
<1>5. find(sendCases, s) \in 1 .. Len(sendCases)
  <2>1. Has(sendCases, s) /\ sendCases \in Seq(Subs)
    BY <1>1, <1>2 DEF PlacesInv, FeedTypes
  <2> QED BY Zenon, <2>1, FindIs
<1>6. active' = ActiveAfter(find(sendCases, s))
  BY <1>1, <1>4, <1>5 DEF ActiveAfter
<1>7. /\ sender' \in [Senders -> {"idle", "locking", "locked", "sending", "selecting"}]
      /\ \A p \in Senders : sendLock = p <=> sender'[p] \in {"locked", "sending", "selecting"}
  BY Zenon, <1>1, <1>2 DEF FeedTypes
<1> QED BY Zenon, <1>1, <1>3, <1>6, <1>7, FeedRemove

\* By the Send in progress.
LEMMA FeedSelectRemove ==
  ASSUME FeedAssumption, FeedInv, NEW p \in Senders, NEW s \in Subs, SelectRemove(p, s)
  PROVE  FeedInv'
<1>1. /\ sub[s] = "removing" /\ sub' = [sub EXCEPT ![s] = "gone"]
      /\ sender[p] = "selecting" /\ sender' = [sender EXCEPT ![p] = "sending"]
      /\ sendCases' = delete(sendCases, find(sendCases, s)) /\ active' = ActiveAfter(find(sendCases, s))
      /\ UNCHANGED <<inbox, sendLock, sent, entitled>>
  BY DEF SelectRemove
<1>2. FeedTypes
  BY Zenon DEF FeedInv
<1>3. sendLock = p /\ sendLock # None
  BY <1>1, <1>2 DEF FeedTypes, FeedAssumption
<1>4. /\ sender' \in [Senders -> {"idle", "locking", "locked", "sending", "selecting"}]
      /\ \A r \in Senders : sendLock = r <=> sender'[r] \in {"locked", "sending", "selecting"}
  BY <1>1, <1>2, <1>3 DEF FeedTypes
<1>5. Phase = "selecting" /\ Phase' = "sending"
  BY <1>1, <1>2, <1>3 DEF Phase, FeedTypes
<1> QED BY Zenon, <1>1, <1>4, <1>5, FeedRemove

\* A step of a sender that leaves the lists and what has been sent.
LEMMA FeedMoves ==
  ASSUME FeedInv, FeedTypes', UNCHANGED <<inbox, sendCases, active, sent, entitled, sub>>,
         Phase' = "locked" => Phase = "locked", Phase = "locked" => Phase' = "locked",
         Phase' = "idle" => active = 0
  PROVE  FeedInv'
<1>1. PlacesInv /\ ServedInv
  BY Zenon DEF FeedInv
<1>2. PlacesInv'
  BY Zenon, <1>1 DEF PlacesInv
<1>3. Phase' \in {"idle", "locked"} => active = 0
  <2>1. Phase = "locked" => active = 0
    BY <1>1 DEF ServedInv
  <2> QED BY <2>1
<1>4. ServedInv'
  BY Zenon, <1>1, <1>3 DEF ServedInv
<1> QED BY Zenon, <1>2, <1>4 DEF FeedInv

\* A Send waits for the lock.
LEMMA FeedCall ==
  ASSUME FeedAssumption, FeedInv, NEW p \in Senders, Call(p)
  PROVE  FeedInv'
<1>1. /\ sender[p] = "idle" /\ sender' = [sender EXCEPT ![p] = "locking"]
      /\ UNCHANGED <<inbox, sendCases, active, sendLock, sent, entitled, sub>>
  BY DEF Call, casesVars
<1>2. FeedTypes /\ ServedInv
  BY Zenon DEF FeedInv
<1>3. sendLock # p
  BY <1>1, <1>2 DEF FeedTypes
<1>4. Phase' = Phase
  BY <1>1, <1>2, <1>3 DEF Phase, FeedTypes
<1>5. FeedTypes'
  BY <1>1, <1>2, <1>3 DEF FeedTypes
<1>6. Phase = "idle" => active = 0
  BY <1>2 DEF ServedInv
<1> QED BY Zenon, <1>1, <1>4, <1>5, <1>6, FeedMoves

\* The Send returns if nobody is left, and selects otherwise.
LEMMA FeedFastPathEnds ==
  ASSUME FeedAssumption, FeedInv, NEW p \in Senders, FastPathEnds(p)
  PROVE  FeedInv'
<1>1. /\ sender[p] = "sending"
      /\ \/ active = 0 /\ sender' = [sender EXCEPT ![p] = "idle"] /\ sendLock' = None
         \/ sender' = [sender EXCEPT ![p] = "selecting"] /\ sendLock' = sendLock
      /\ UNCHANGED <<inbox, sendCases, active, sent, entitled, sub>>
  BY DEF FastPathEnds, casesVars
<1>2. FeedTypes
  BY Zenon DEF FeedInv
<1>3. sendLock = p /\ sendLock # None
  BY <1>1, <1>2 DEF FeedTypes, FeedAssumption
<1>4. Phase = "sending" /\ (Phase' = "selecting" \/ (Phase' = "idle" /\ active = 0))
  BY <1>1, <1>2, <1>3 DEF Phase, FeedTypes
<1>5. FeedTypes'
  BY <1>1, <1>2, <1>3 DEF FeedTypes, FeedAssumption
<1>6. Phase # "locked" /\ Phase' # "locked" /\ (Phase' = "idle" => active = 0)
  BY <1>4
<1> QED BY Zenon, <1>1, <1>5, <1>6, FeedMoves

\* A Send begins; whoever is subscribed now is entitled.
LEMMA FeedLock ==
  ASSUME FeedAssumption, FeedInv, NEW p \in Senders, Lock(p)
  PROVE  FeedInv'
<1>1. /\ sender[p] = "locking" /\ sendLock = None /\ sendLock' = p /\ sender' = [sender EXCEPT ![p] = "locked"]
      /\ entitled' = { s \in Subs : sub[s] = "subscribed" } /\ sent' = <<>>
      /\ UNCHANGED <<inbox, sendCases, active, sub>>
  BY DEF Lock, casesVars
<1>2. FeedTypes /\ PlacesInv /\ ServedInv
  BY Zenon DEF FeedInv
<1>3. \A r \in Senders : sender[r] \notin {"locked", "sending", "selecting"}
  BY <1>1, <1>2 DEF FeedTypes, FeedAssumption
<1>4. Phase = "idle" /\ Phase' = "locked"
  BY <1>1, <1>2 DEF Phase, FeedTypes, FeedAssumption
<1>5. FeedTypes'
  BY <1>1, <1>2, <1>3 DEF FeedTypes
<1>6. PlacesInv'
  BY Zenon, <1>1, <1>2 DEF PlacesInv
<1>7. active = 0
  BY <1>2, <1>4 DEF ServedInv
<1>8. ServedInv'
  <2>1. Distinct(<<>>) /\ \A t : ~ Has(<<>>, t)
    BY DEF Distinct, Has
  <2>2. \A t \in entitled' : sub'[t] # "none"
    BY <1>1
  <2> QED BY Zenon, <1>1, <1>4, <1>7, <2>1, <2>2 DEF ServedInv
<1> QED BY Zenon, <1>5, <1>6, <1>8 DEF FeedInv

\* The list takes the inbox over, and all of it is active.
LEMMA FeedAddInbox ==
  ASSUME FeedAssumption, FeedInv, NEW p \in Senders, AddInbox(p)
  PROVE  FeedInv'
<1>1. /\ sender[p] = "locked" /\ sender' = [sender EXCEPT ![p] = "sending"]
      /\ sendCases' = sendCases \o inbox /\ inbox' = <<>> /\ active' = Len(sendCases) + Len(inbox)
      /\ UNCHANGED <<sendLock, sent, entitled, sub>>
  BY DEF AddInbox
<1>2. FeedTypes /\ PlacesInv /\ ServedInv
  BY Zenon DEF FeedInv
<1>3. sendLock = p /\ sendLock # None
  BY <1>1, <1>2 DEF FeedTypes, FeedAssumption
<1>4. Phase = "locked" /\ Phase' = "sending"
  BY <1>1, <1>2, <1>3 DEF Phase, FeedTypes
<1>5. sendCases \in Seq(Subs) /\ inbox \in Seq(Subs) /\ Distinct(sendCases) /\ Distinct(inbox)
  BY Zenon, <1>2 DEF FeedTypes, PlacesInv
<1>6. \A t : ~ (Has(sendCases, t) /\ Has(inbox, t))
  BY Zenon, Disjoint
<1>7. /\ sendCases' \in Seq(Subs) /\ Len(sendCases') = active' /\ Distinct(sendCases')
      /\ \A t : Has(sendCases', t) <=> Has(sendCases, t) \/ Has(inbox, t)
  <2>1. /\ sendCases \o inbox \in Seq(Subs) /\ Len(sendCases \o inbox) = Len(sendCases) + Len(inbox)
        /\ Distinct(sendCases \o inbox)
        /\ \A t : Has(sendCases \o inbox, t) <=> Has(sendCases, t) \/ Has(inbox, t)
    BY Zenon, <1>5, <1>6, ConcatIs
  <2> QED BY Zenon, <1>1, <2>1
<1>8. active' \in Nat /\ active' <= Len(sendCases') /\ DOMAIN sendCases' = 1 .. active'
  BY <1>5, <1>7
<1>9. Distinct(<<>>) /\ (\A t : ~ Has(<<>>, t)) /\ <<>> \in Seq(Subs)
  BY DEF Distinct, Has
<1>10. /\ sender' \in [Senders -> {"idle", "locking", "locked", "sending", "selecting"}]
       /\ \A r \in Senders : sendLock = r <=> sender'[r] \in {"locked", "sending", "selecting"}
  BY <1>1, <1>2, <1>3 DEF FeedTypes
<1>11. FeedTypes'
  BY Zenon, <1>1, <1>2, <1>7, <1>8, <1>9, <1>10 DEF FeedTypes
<1>12. PlacesInv'
  BY <1>1, <1>2, <1>7, <1>9 DEF PlacesInv
<1>13. sent = <<>>
  BY Zenon, <1>2, <1>4 DEF ServedInv
<1>14. ASSUME NEW t \in entitled, sub[t] = "subscribed"
       PROVE  \E i \in 1 .. active' : sendCases'[i] = t
  <2>1. t \in Subs
    BY Zenon, <1>2 DEF FeedTypes
  <2>2. Has(sendCases, t) \/ Has(inbox, t)
    BY <1>2, <1>14, <2>1 DEF PlacesInv
  <2>3. Has(sendCases', t)
    BY Zenon, <1>7, <2>2
  <2> QED BY Zenon, <1>8, <2>3 DEF Has
<1>15. Phase' # "locked" /\ Phase' \notin {"idle", "locked"}
  BY <1>4
<1>16. ServedInv'
  BY Zenon, <1>1, <1>2, <1>9, <1>13, <1>14, <1>15 DEF ServedInv
<1> QED BY Zenon, <1>11, <1>12, <1>16 DEF FeedInv

\* A value is sent to an active channel, which is then out of the active part.
LEMMA FeedSendTo ==
  ASSUME FeedAssumption, FeedInv, NEW i \in 1 .. active, SendTo(i),
         UNCHANGED <<inbox, sendLock, entitled, sub>>,
         sender' \in [Senders -> {"idle", "locking", "locked", "sending", "selecting"}],
         \A p \in Senders : sendLock = p <=> sender'[p] \in {"locked", "sending", "selecting"},
         Phase \in {"sending", "selecting"}, Phase' \in {"sending", "selecting"}
  PROVE  FeedInv'
<1>1. /\ sendCases' = [sendCases EXCEPT ![i] = sendCases[active], ![active] = sendCases[i]]
      /\ active' = active - 1 /\ sent' = Append(sent, sendCases[i])
  BY Zenon DEF SendTo, deactivate
<1>2. FeedTypes /\ PlacesInv /\ ServedInv
  BY Zenon DEF FeedInv
<1>3. /\ sendCases \in Seq(Subs) /\ sent \in Seq(Subs) /\ Distinct(sendCases) /\ Distinct(sent)
      /\ active \in Nat /\ active <= Len(sendCases)
  BY Zenon, <1>2 DEF FeedTypes, PlacesInv, ServedInv
<1> DEFINE u == Swapped(sendCases, i, active)
<1>5. /\ u \in Seq(Subs) /\ Len(u) = Len(sendCases) /\ Distinct(u)
      /\ \A s : Has(u, s) <=> Has(sendCases, s)
      /\ \A j \in 1 .. active - 1 : \E l \in 1 .. active : l # i /\ u[j] = sendCases[l]
      /\ \A l \in 1 .. active : l # i => \E j \in 1 .. active - 1 : u[j] = sendCases[l]
  <2>1. sendCases \in Seq(Subs) /\ active \in Nat /\ active <= Len(sendCases) /\ Distinct(sendCases)
    BY Zenon, <1>3
  <2> QED BY <2>1, SwapIs
<1>6. sendCases' = u
  BY Zenon, <1>1 DEF Swapped
<1> HIDE DEF u
<1>7. /\ active' \in Nat /\ active' <= Len(sendCases)
      /\ DOMAIN sendCases = 1 .. Len(sendCases) /\ \A l \in 1 .. active : l \in 1 .. Len(sendCases)
  BY <1>1, <1>3
<1>8. sendCases[i] \in Subs /\ ~ Has(sent, sendCases[i])
  <2>1. \A l \in 1 .. Len(sendCases) : sendCases[l] \in Subs
    BY <1>3, ElementOfSeq
  <2> QED BY Zenon, <1>2, <1>7, <2>1 DEF ServedInv
<1>9. /\ sent' \in Seq(Subs) /\ Distinct(sent')
      /\ \A t : Has(sent', t) <=> Has(sent, t) \/ t = sendCases[i]
  <2>1. /\ Append(sent, sendCases[i]) \in Seq(Subs) /\ Distinct(Append(sent, sendCases[i]))
        /\ \A t : Has(Append(sent, sendCases[i]), t) <=> Has(sent, t) \/ t = sendCases[i]
    BY Zenon, <1>3, <1>8, AppendIs
  <2> QED BY Zenon, <1>1, <2>1
<1>10. FeedTypes'
  BY Zenon, <1>2, <1>5, <1>6, <1>7, <1>9 DEF FeedTypes
<1>11. PlacesInv'
  BY Zenon, <1>2, <1>5, <1>6 DEF PlacesInv
<1>12. ASSUME NEW j \in 1 .. active' PROVE ~ Has(sent', sendCases'[j])
  <2>1. PICK l \in 1 .. active : l # i /\ sendCases'[j] = sendCases[l]
    BY Zenon, <1>1, <1>5, <1>6
  <2>2. sendCases[l] # sendCases[i]
    BY Zenon, <1>3, <1>7, <2>1 DEF Distinct
  <2>3. ~ Has(sent, sendCases[l])
    BY Zenon, <1>2 DEF ServedInv
  <2> QED BY Zenon, <1>9, <2>1, <2>2, <2>3
<1>13. Phase # "locked" /\ Phase' # "locked" /\ Phase' \notin {"idle", "locked"}
  OBVIOUS
<1>14. ASSUME NEW t \in entitled, sub[t] = "subscribed"
       PROVE  Has(sent', t) \/ \E j \in 1 .. active' : sendCases'[j] = t
  <2>1. CASE Has(sent, t)
    BY Zenon, <1>9, <2>1
  <2>2. CASE ~ Has(sent, t)
    <3>1. PICK l \in 1 .. active : sendCases[l] = t
      BY Zenon, <1>2, <1>13, <1>14, <2>2 DEF ServedInv
    <3>2. CASE l = i
      BY Zenon, <1>9, <3>1, <3>2
    <3>3. CASE l # i
      BY Zenon, <1>1, <1>5, <1>6, <3>1, <3>3
    <3> QED BY Zenon, <3>2, <3>3
  <2> QED BY Zenon, <2>1, <2>2
<1>15. ServedInv'
  BY Zenon, <1>2, <1>9, <1>12, <1>13, <1>14 DEF ServedInv
<1> QED BY Zenon, <1>10, <1>11, <1>15 DEF FeedInv

\* The fast path serves a channel or skips a full one.
LEMMA FeedTrySend ==
  ASSUME FeedAssumption, FeedInv, NEW p \in Senders, TrySend(p)
  PROVE  FeedInv'
<1>1. /\ sender[p] = "sending" /\ next \in 1 .. active
      /\ SendTo(next) \/ UNCHANGED <<sent, sendCases, active>>
      /\ UNCHANGED <<inbox, sendLock, sender, entitled, sub>>
  BY DEF TrySend
<1>2. FeedTypes
  BY Zenon DEF FeedInv
<1>3. sendLock = p /\ sendLock # None
  BY <1>1, <1>2 DEF FeedTypes, FeedAssumption
<1>4. Phase = "sending" /\ Phase' = "sending"
  BY <1>1, <1>3 DEF Phase
<1>5. CASE SendTo(next)
  <2>1. Phase \in {"sending", "selecting"} /\ Phase' \in {"sending", "selecting"}
    BY <1>4
  <2>2. /\ sender' \in [Senders -> {"idle", "locking", "locked", "sending", "selecting"}]
        /\ \A r \in Senders : sendLock = r <=> sender'[r] \in {"locked", "sending", "selecting"}
    BY Zenon, <1>1, <1>2 DEF FeedTypes
  <2> QED BY Zenon, <1>1, <1>5, <2>1, <2>2, FeedSendTo
<1>6. CASE UNCHANGED <<sent, sendCases, active>>
  <2>1. FeedTypes'
    BY Zenon, <1>1, <1>2, <1>6 DEF FeedTypes
  <2>2. Phase # "locked" /\ Phase' # "locked" /\ Phase' # "idle"
    BY <1>4
  <2> QED BY Zenon, <1>1, <1>6, <2>1, <2>2, FeedMoves
<1> QED BY Zenon, <1>1, <1>5, <1>6

\* The select serves a channel.
LEMMA FeedSelectSend ==
  ASSUME FeedAssumption, FeedInv, NEW p \in Senders, SelectSend(p)
  PROVE  FeedInv'
<1>1. /\ sender[p] = "selecting" /\ sender' = [sender EXCEPT ![p] = "sending"]
      /\ UNCHANGED <<inbox, sendLock, entitled, sub>>
  BY DEF SelectSend
<1>2. PICK i \in 1 .. active : SendTo(i)
  BY Zenon DEF SelectSend
<1>3. FeedTypes
  BY Zenon DEF FeedInv
<1>4. sendLock = p /\ sendLock # None
  BY <1>1, <1>3 DEF FeedTypes, FeedAssumption
<1>5. Phase \in {"sending", "selecting"} /\ Phase' \in {"sending", "selecting"}
  BY <1>1, <1>3, <1>4 DEF Phase, FeedTypes
<1>6. /\ sender' \in [Senders -> {"idle", "locking", "locked", "sending", "selecting"}]
      /\ \A r \in Senders : sendLock = r <=> sender'[r] \in {"locked", "sending", "selecting"}
  BY <1>1, <1>3, <1>4 DEF FeedTypes
<1> QED BY Zenon, <1>1, <1>2, <1>5, <1>6, FeedSendTo

\* Steps that the invariant does not see.
LEMMA FeedOther ==
  ASSUME FeedInv, UNCHANGED <<inbox, sendCases, active, sendLock, sender, sent, entitled, sub>>
  PROVE  FeedInv'
<1>1. FeedTypes' /\ Phase' = Phase
  BY Zenon DEF FeedInv, FeedTypes, Phase
<1>2. Phase = "idle" => active = 0
  BY DEF FeedInv, ServedInv
<1> QED BY Zenon, <1>1, <1>2, FeedMoves

\* Every step of a Feed.
LEMMA FeedStep ==
  ASSUME FeedAssumption, FeedInv, [Next]_vars
  PROVE  FeedInv'
<1>1. CASE UNCHANGED vars
  <2>1. UNCHANGED <<inbox, sendCases, active, sendLock, sender, sent, entitled, sub>>
    BY <1>1 DEF vars, casesVars, sendVars
  <2> QED BY Zenon, <2>1, FeedOther
<1>2. ASSUME NEW s \in Subs, Receive(s) PROVE FeedInv'
  <2>1. UNCHANGED <<inbox, sendCases, active, sendLock, sender, sent, entitled, sub>>
    BY <1>2 DEF Receive, casesVars, sendVars
  <2> QED BY Zenon, <2>1, FeedOther
<1> QED
  BY Zenon, <1>1, <1>2, FeedSubscribe, FeedUnsubscribe, FeedRemoveNow, FeedSelectRemove, FeedCall, FeedLock,
     FeedAddInbox, FeedTrySend, FeedFastPathEnds, FeedSelectSend DEF Next, Steps

\* What the invariant says of deliveries and of places.
LEMMA FeedMeans ==
  ASSUME FeedAssumption, FeedInv
  PROVE  DeliversOnce /\ InOnePlace
<1>1. FeedTypes /\ PlacesInv /\ ServedInv
  BY Zenon DEF FeedInv
<1>2. DeliversOnce
  <2>1. ASSUME sendLock = None, NEW s \in entitled, sub[s] = "subscribed" PROVE s \in Range(sent)
    <3>1. Phase # "locked" /\ active = 0
      BY <1>1, <2>1 DEF Phase, ServedInv
    <3>2. ~ \E i \in 1 .. active : sendCases[i] = s
      BY <3>1
    <3>3. Has(sent, s)
      BY Zenon, <1>1, <2>1, <3>1, <3>2 DEF ServedInv
    <3> QED BY Zenon, <3>3 DEF Has, Range
  <2> QED BY Zenon, <1>1, <2>1 DEF DeliversOnce, ServedInv, Distinct
<1>3. ASSUME NEW s \in Subs
      PROVE  LET places == { i \in DOMAIN (inbox \o sendCases) : (inbox \o sendCases)[i] = s }
             IN  IF sub[s] \in {"subscribed", "removing"} THEN \E i \in places : places = {i} ELSE places = {}
  <2> DEFINE u == inbox \o sendCases
             S == { i \in DOMAIN u : u[i] = s }
  <2>1. inbox \in Seq(Subs) /\ sendCases \in Seq(Subs) /\ Distinct(inbox) /\ Distinct(sendCases)
    BY Zenon, <1>1 DEF FeedTypes, PlacesInv
  <2>2. \A t : ~ (Has(inbox, t) /\ Has(sendCases, t))
    BY Zenon, Disjoint
  <2>3. Distinct(u) /\ \A t : Has(u, t) <=> Has(inbox, t) \/ Has(sendCases, t)
    BY Zenon, <2>1, <2>2, ConcatIs
  <2> HIDE DEF u
  <2>4. ASSUME sub[s] \in {"subscribed", "removing"} PROVE \E i \in S : S = {i}
    <3>1. Has(u, s)
      BY Zenon, <1>1, <2>3, <2>4 DEF PlacesInv
    <3>2. PICK i \in DOMAIN u : u[i] = s
      BY Zenon, <3>1 DEF Has
    <3> QED BY Zenon, <2>3, <3>2 DEF Distinct
  <2>5. ASSUME sub[s] \notin {"subscribed", "removing"} PROVE S = {}
    <3>1. ~ Has(u, s)
      <4>1. sub[s] # "subscribed"
        BY <2>5
      <4> QED BY Zenon, <1>1, <2>3, <2>5, <4>1 DEF PlacesInv
    <3> QED BY Zenon, <3>1 DEF Has
  <2> QED BY Zenon, <2>4, <2>5 DEF u
<1> QED BY Zenon, <1>2, <1>3 DEF InOnePlace

(***************************************************************************)
(* A Send of a Feed delivers once to every channel that was subscribed     *)
(* when it began and still is, and never twice to one, for any number of   *)
(* channels and senders and however removals interleave with it.           *)
(***************************************************************************)
THEOREM FeedDeliversOnce == ASSUME FeedAssumption PROVE Spec => []DeliversOnce
<1>1. Init => FeedInv
  BY Zenon, FeedInitOK
<1>2. FeedInv /\ [Next]_vars => FeedInv'
  BY Zenon, FeedStep
<1>3. FeedInv => DeliversOnce
  BY Zenon, FeedMeans
<1> QED BY <1>1, <1>2, <1>3, PTL DEF Spec

(***************************************************************************)
(* A channel is in the inbox or in the list of cases of a Feed, once, as   *)
(* long as it is subscribed or waits for its removal: remove finds it.     *)
(***************************************************************************)
THEOREM FeedKeepsPlaces == ASSUME FeedAssumption PROVE Spec => []InOnePlace
<1>1. Init => FeedInv
  BY Zenon, FeedInitOK
<1>2. FeedInv /\ [Next]_vars => FeedInv'
  BY Zenon, FeedStep
<1>3. FeedInv => InOnePlace
  BY Zenon, FeedMeans
<1> QED BY <1>1, <1>2, <1>3, PTL DEF Spec

-----------------------------------------------------------------------------
(* The event mux. *)

CONSTANTS Posters, Stopper, MaxPosts
VARIABLES subm, stopped, mutex, owner, closeMu, closing, closed, postC, poster, todo, now,
  sending, posts, stop, toClose

Mux == INSTANCE TypeMux

\* A new mux.
LEMMA MuxInitOK == ASSUME Mux!MuxAssumption, Mux!Init PROVE Mux!MuxInv
BY DEF Mux!MuxAssumption, Mux!Init, Mux!MuxInv, Mux!MuxTypes, Mux!Unknown, Mux!Registered

\* Subscriptions come: unknown to every post, and closed at once after Stop.
LEMMA MuxSubscribe ==
  ASSUME Mux!MuxAssumption, Mux!MuxInv, NEW s \in Subs, Mux!Subscribe(s)
  PROVE  Mux!MuxInv'
BY DEF Mux!MuxAssumption, Mux!MuxInv, Mux!MuxTypes, Mux!Unknown, Mux!Registered, Mux!Subscribe, Mux!posting

\* A step that leaves the channels and the stopper alone keeps the invariant
\* when senders stay with open channels and unknown subscriptions unknown.
LEMMA MuxPosting ==
  ASSUME Mux!MuxInv, UNCHANGED <<subm, stopped, mutex, owner, postC, stop, toClose>>, Mux!MuxTypes',
         \A q \in sending' : now'[q] \in Subs /\ postC[now'[q]] = "open",
         \A s \in Subs : Mux!Unknown(s) => Mux!Unknown(s)'
  PROVE  Mux!MuxInv'
<1>1. \A q \in sending' : now'[q] \in Subs /\ postC'[now'[q]] = "open"
  OBVIOUS
<1>2. \A s \in Subs : Mux!Registered(s) => Mux!Registered(s)'
  BY DEF Mux!Registered
<1>3. \A s \in Subs : (owner'[s] = "none" => Mux!Unknown(s)') /\ (owner'[s] = "subscribed" => Mux!Registered(s)')
  BY <1>2 DEF Mux!MuxInv
<1>4. /\ stopped' <=> stop' = "done"
      /\ stopped' => subm' = {}
      /\ stop' = "closing" => mutex' = Stopper /\ \A s \in subm' \ toClose' : postC'[s] = "nil"
  BY DEF Mux!MuxInv
<1> QED BY <1>1, <1>3, <1>4 DEF Mux!MuxInv

\* A post copies the registered subscriptions, which are known.
LEMMA MuxPostBegins ==
  ASSUME Mux!MuxInv, NEW p \in Posters, Mux!Post(p)
  PROVE  Mux!MuxInv'
<1>1. UNCHANGED <<subm, stopped, mutex, owner, postC, now, sending, stop, toClose>>
  BY DEF Mux!Post, Mux!closingVars
<1>2. todo' = todo \/ todo' = [todo EXCEPT ![p] = subm]
  BY DEF Mux!Post
<1>3. Mux!MuxTypes
  BY DEF Mux!MuxInv
<1>4. todo' \in [Posters -> SUBSET Subs] /\ \A q \in Posters : todo'[q] \in {todo[q], subm}
  BY <1>2, <1>3 DEF Mux!MuxTypes
<1>5. Mux!MuxTypes'
  BY <1>1, <1>3, <1>4 DEF Mux!MuxTypes
<1>6. \A q \in sending' : now'[q] \in Subs /\ postC[now'[q]] = "open"
  BY <1>1 DEF Mux!MuxInv
<1>7. ASSUME NEW s \in Subs, Mux!Unknown(s) PROVE Mux!Unknown(s)'
  <2>1. s \notin subm' /\ \A q \in Posters : now'[q] # s
    BY <1>1, <1>7 DEF Mux!Unknown
  <2>2. \A q \in Posters : s \notin todo'[q]
    BY <1>4, <1>7 DEF Mux!Unknown
  <2> QED BY <2>1, <2>2 DEF Mux!Unknown
<1> QED BY <1>1, <1>5, <1>6, <1>7, MuxPosting

\* deliver sends only on a channel it has seen open.
LEMMA MuxDeliver ==
  ASSUME Mux!MuxAssumption, Mux!MuxInv, NEW p \in Posters, NEW s \in Subs, Mux!Deliver(p, s)
  PROVE  Mux!MuxInv'
<1>1. UNCHANGED <<subm, stopped, mutex, owner, postC, stop, toClose>> /\ s \in todo[p]
  BY DEF Mux!Deliver, Mux!closingVars
<1>2. /\ now' = [now EXCEPT ![p] = s]
      /\ todo' = [todo EXCEPT ![p] = todo[p] \ {s}]
      /\ sending' = IF postC[s] = "nil" THEN sending ELSE sending \cup {p}
  BY DEF Mux!Deliver
<1>3. Mux!MuxTypes
  BY DEF Mux!MuxInv
<1>4. now' \in [Posters -> Subs \cup {None}] /\ \A q \in Posters : now'[q] = IF q = p THEN s ELSE now[q]
  BY <1>2, <1>3 DEF Mux!MuxTypes
<1>5. todo' \in [Posters -> SUBSET Subs] /\ \A q \in Posters : todo'[q] \subseteq todo[q]
  BY <1>2, <1>3 DEF Mux!MuxTypes
<1>6. sending' \subseteq Posters
  BY <1>2, <1>3 DEF Mux!MuxTypes
<1>7. Mux!MuxTypes'
  BY <1>1, <1>3, <1>4, <1>5, <1>6 DEF Mux!MuxTypes
<1>8. ASSUME NEW q \in sending' PROVE now'[q] \in Subs /\ postC[now'[q]] = "open"
  <2>1. CASE q # p
    <3>1. q \in sending /\ q \in Posters
      BY <1>2, <1>6, <1>8, <2>1
    <3>2. now'[q] = now[q]
      BY <1>4, <2>1, <3>1
    <3> QED BY <3>1, <3>2 DEF Mux!MuxInv
  <2>2. CASE q = p
    <3>1. now'[q] = s
      BY <1>4, <2>2
    <3>2. p \notin sending
      BY DEF Mux!MuxInv, Mux!Deliver, Mux!MuxAssumption
    <3>3. postC[s] # "nil"
      BY <1>2, <1>8, <2>2, <3>2
    <3>4. postC[s] = "open"
      BY <1>3, <3>3 DEF Mux!MuxTypes
    <3> QED BY <3>1, <3>4
  <2> QED BY <2>1, <2>2
<1>9. ASSUME NEW u \in Subs, Mux!Unknown(u) PROVE Mux!Unknown(u)'
  <2>1. u \notin subm' /\ u # s
    BY <1>1, <1>9 DEF Mux!Unknown
  <2>2. \A q \in Posters : u \notin todo'[q] /\ now'[q] # u
    BY <1>4, <1>5, <1>9, <2>1 DEF Mux!Unknown
  <2> QED BY <2>1, <2>2 DEF Mux!Unknown
<1> QED BY <1>1, <1>7, <1>8, <1>9, MuxPosting

\* A delivery ends: one sender less.
LEMMA MuxDelivered ==
  ASSUME Mux!MuxAssumption, Mux!MuxInv, NEW p \in Posters, Mux!Delivered(p)
  PROVE  Mux!MuxInv'
<1>1. UNCHANGED <<subm, stopped, mutex, owner, postC, todo, stop, toClose>>
  BY DEF Mux!Delivered, Mux!closingVars
<1>2. now' = [now EXCEPT ![p] = None] /\ sending' = sending \ {p}
  BY DEF Mux!Delivered
<1>3. Mux!MuxTypes
  BY DEF Mux!MuxInv
<1>4. now' \in [Posters -> Subs \cup {None}] /\ \A q \in Posters : now'[q] = IF q = p THEN None ELSE now[q]
  BY <1>2, <1>3 DEF Mux!MuxTypes
<1>5. Mux!MuxTypes'
  BY <1>1, <1>2, <1>3, <1>4 DEF Mux!MuxTypes
<1>6. ASSUME NEW q \in sending' PROVE now'[q] \in Subs /\ postC[now'[q]] = "open"
  <2>1. q \in sending /\ q # p /\ q \in Posters
    BY <1>2, <1>3, <1>6 DEF Mux!MuxTypes
  <2>2. now'[q] = now[q]
    BY <1>4, <2>1
  <2> QED BY <2>1, <2>2 DEF Mux!MuxInv
<1>7. ASSUME NEW s \in Subs, Mux!Unknown(s) PROVE Mux!Unknown(s)'
  <2>1. s \notin subm' /\ \A q \in Posters : s \notin todo'[q]
    BY <1>1, <1>7 DEF Mux!Unknown
  <2>2. \A q \in Posters : now'[q] # s
    BY <1>4, <1>7 DEF Mux!Unknown, Mux!MuxAssumption
  <2> QED BY <2>1, <2>2 DEF Mux!Unknown
<1> QED BY <1>1, <1>5, <1>6, <1>7, MuxPosting

\* A post returns: nothing that the invariant speaks of changes.
LEMMA MuxPostReturns ==
  ASSUME Mux!MuxInv, NEW p \in Posters, Mux!PostReturns(p)
  PROVE  Mux!MuxInv'
<1>1. UNCHANGED <<subm, stopped, mutex, owner, postC, todo, now, sending, stop, toClose>>
  BY DEF Mux!PostReturns, Mux!closingVars
<1>2. Mux!MuxTypes'
  BY <1>1 DEF Mux!MuxInv, Mux!MuxTypes
<1>3. \A q \in sending' : now'[q] \in Subs /\ postC[now'[q]] = "open"
  BY <1>1 DEF Mux!MuxInv
<1>4. \A s \in Subs : Mux!Unknown(s) => Mux!Unknown(s)'
  BY <1>1 DEF Mux!Unknown
<1> QED BY <1>1, <1>2, <1>3, <1>4, MuxPosting

\* The steps of a post.
LEMMA MuxPost ==
  ASSUME Mux!MuxAssumption, Mux!MuxInv, NEW p \in Posters,
         Mux!Post(p) \/ Mux!PostReturns(p) \/ Mux!Delivered(p) \/ \E s \in Subs : Mux!Deliver(p, s)
  PROVE  Mux!MuxInv'
BY MuxPostBegins, MuxPostReturns, MuxDelivered, MuxDeliver

\* Unsubscribe: its owner is no longer subscribed, and del waits for a Stop.
LEMMA MuxUnsubscribe ==
  ASSUME Mux!MuxAssumption, Mux!MuxInv, NEW s \in Subs, Mux!Unsubscribe(s) \/ Mux!del(s)
  PROVE  Mux!MuxInv'
<1>1. CASE Mux!Unsubscribe(s)
  BY <1>1 DEF Mux!MuxAssumption, Mux!MuxInv, Mux!MuxTypes, Mux!Unknown, Mux!Registered, Mux!Unsubscribe, Mux!closingVars, Mux!posting
<1>2. CASE Mux!del(s)
  BY <1>2 DEF Mux!MuxAssumption, Mux!MuxInv, Mux!MuxTypes, Mux!Unknown, Mux!Registered, Mux!del, Mux!closingVars, Mux!posting
<1> QED BY <1>1, <1>2

\* A channel that nobody sends to is closed, or none is; a Stop may be done
\* with it then.
LEMMA MuxChannel ==
  ASSUME Mux!MuxInv, NEW s \in Subs, UNCHANGED <<subm, stopped, mutex, todo, now, sending, stop>>,
         Mux!MuxTypes', \A u \in Subs : owner'[u] \in {owner[u], "waiting", "done"},
         \/ postC' = postC /\ toClose' = toClose
         \/ /\ postC' = [postC EXCEPT ![s] = "nil"] /\ \A p \in Posters : now[p] # s
            /\ toClose' \in {toClose, toClose \ {s}}
  PROVE  Mux!MuxInv'
<1>1. Mux!MuxTypes
  BY DEF Mux!MuxInv
<1>2. \A u \in Subs : postC'[u] \in {postC[u], "nil"} /\ (u \in toClose \ toClose' => postC'[u] = "nil")
  BY <1>1 DEF Mux!MuxTypes
<1>3. ASSUME NEW q \in sending' PROVE now'[q] \in Subs /\ postC'[now'[q]] = "open"
  <2>1. q \in Posters /\ now'[q] = now[q] /\ now[q] \in Subs /\ postC[now[q]] = "open"
    BY <1>1, <1>3 DEF Mux!MuxInv, Mux!MuxTypes
  <2>2. postC' = postC \/ (postC' = [postC EXCEPT ![s] = "nil"] /\ now[q] # s)
    BY <2>1
  <2>3. postC'[now[q]] = postC[now[q]]
    BY <1>1, <2>1, <2>2 DEF Mux!MuxTypes
  <2> QED BY <2>1, <2>3
<1>4. ASSUME NEW u \in Subs
      PROVE  (owner'[u] = "none" => Mux!Unknown(u)') /\ (owner'[u] = "subscribed" => Mux!Registered(u)')
  <2>1. (owner'[u] = "none" => owner[u] = "none") /\ (owner'[u] = "subscribed" => owner[u] = "subscribed")
    OBVIOUS
  <2>2. Mux!Unknown(u) => Mux!Unknown(u)'
    BY DEF Mux!Unknown
  <2>3. Mux!Registered(u) => Mux!Registered(u)'
    BY <1>2 DEF Mux!Registered
  <2> QED BY <2>1, <2>2, <2>3 DEF Mux!MuxInv
<1>5. (stopped' <=> stop' = "done") /\ (stopped' => subm' = {})
  BY DEF Mux!MuxInv
<1>6. ASSUME stop' = "closing" PROVE mutex' = Stopper /\ \A u \in subm' \ toClose' : postC'[u] = "nil"
  <2>1. mutex' = Stopper /\ \A u \in subm \ toClose : postC[u] = "nil"
    BY <1>6 DEF Mux!MuxInv
  <2>2. ASSUME NEW u \in subm' \ toClose' PROVE postC'[u] = "nil"
    <3>1. u \in Subs /\ u \in subm
      BY <1>1 DEF Mux!MuxTypes
    <3>2. CASE u \in toClose
      BY <1>2, <3>1, <3>2
    <3>3. CASE u \notin toClose
      BY <1>2, <2>1, <3>1, <3>3
    <3> QED BY <3>2, <3>3
  <2> QED BY <2>1, <2>2
<1> QED BY <1>3, <1>4, <1>5, <1>6 DEF Mux!MuxInv

\* Closing a channel needs postMu: nobody sends to it.
LEMMA MuxClose ==
  ASSUME Mux!MuxAssumption, Mux!MuxInv, NEW s \in Subs, Mux!OwnerCloses(s) \/ Mux!StopCloses(s)
  PROVE  Mux!MuxInv'
<1>1. ASSUME NEW a, Mux!ClosePostC(s, a)
      PROVE  /\ postC' = [postC EXCEPT ![s] = "nil"]
             /\ \A p \in Posters : now[p] # s
  BY <1>1 DEF Mux!ClosePostC, Mux!Readers
<1>2. Mux!MuxTypes
  BY DEF Mux!MuxInv
<1>3. CASE Mux!OwnerCloses(s)
  <2>1. postC' = postC \/ (postC' = [postC EXCEPT ![s] = "nil"] /\ \A p \in Posters : now[p] # s)
    BY <1>1, <1>3 DEF Mux!OwnerCloses, Mux!MarkClosed, Mux!AlreadyClosed, Mux!closingVars
  <2>2. /\ owner' \in {[owner EXCEPT ![s] = "waiting"], [owner EXCEPT ![s] = "done"]}
        /\ UNCHANGED <<subm, stopped, mutex, todo, now, sending, stop, toClose>>
    BY <1>3 DEF Mux!OwnerCloses, Mux!posting
  <2>3. /\ owner' \in [Subs -> {"none", "subscribed", "unsubscribing", "closing", "waiting", "done"}]
        /\ \A u \in Subs : owner'[u] \in {owner[u], "waiting", "done"}
    BY <1>2, <2>2 DEF Mux!MuxTypes
  <2>4. postC' \in [Subs -> {"open", "nil"}]
    BY <1>2, <2>1 DEF Mux!MuxTypes
  <2>5. Mux!MuxTypes'
    BY <1>2, <2>2, <2>3, <2>4 DEF Mux!MuxTypes
  <2> QED BY <2>1, <2>2, <2>3, <2>5, MuxChannel
<1>4. CASE Mux!StopCloses(s)
  <2>1. \/ postC' = postC /\ toClose' = toClose
        \/ postC' = [postC EXCEPT ![s] = "nil"] /\ toClose' = toClose \ {s} /\ \A p \in Posters : now[p] # s
    BY <1>1, <1>4 DEF Mux!StopCloses, Mux!MarkClosed
  <2>2. UNCHANGED <<subm, stopped, mutex, owner, todo, now, sending, stop>>
    BY <1>4 DEF Mux!StopCloses, Mux!posting
  <2>3. postC' \in [Subs -> {"open", "nil"}] /\ toClose' \subseteq Subs
    BY <1>2, <2>1 DEF Mux!MuxTypes
  <2>4. Mux!MuxTypes'
    BY <1>2, <2>2, <2>3 DEF Mux!MuxTypes
  <2> QED BY <2>1, <2>2, <2>4, MuxChannel
<1> QED BY <1>3, <1>4

\* Stop of the mux: when it returns, every registered channel is closed.
LEMMA MuxStop ==
  ASSUME Mux!MuxAssumption, Mux!MuxInv, Mux!Stop \/ Mux!StopReturns
  PROVE  Mux!MuxInv'
<1>1. CASE Mux!Stop
  BY <1>1 DEF Mux!MuxAssumption, Mux!MuxInv, Mux!MuxTypes, Mux!Unknown, Mux!Registered, Mux!Stop, Mux!closingVars, Mux!posting
<1>2. CASE Mux!StopReturns
  BY <1>2 DEF Mux!MuxAssumption, Mux!MuxInv, Mux!MuxTypes, Mux!Unknown, Mux!Registered, Mux!StopReturns, Mux!closingVars, Mux!posting
<1> QED BY <1>1, <1>2

\* Every step of a mux.
LEMMA MuxStep == ASSUME Mux!MuxAssumption, Mux!MuxInv, [Mux!Next]_Mux!vars PROVE Mux!MuxInv'
<1>1. CASE UNCHANGED Mux!vars
  BY <1>1 DEF Mux!MuxInv, Mux!MuxTypes, Mux!Unknown, Mux!Registered, Mux!vars, Mux!closingVars, Mux!posting
<1>2. CASE Mux!Next
  BY Zenon, <1>2, MuxSubscribe, MuxPost, MuxUnsubscribe, MuxClose, MuxStop DEF Mux!Next, Mux!Steps, Mux!Closed
<1> QED BY <1>1, <1>2

(***************************************************************************)
(* No post sends on a closed channel (deliver, closewait), for any number  *)
(* of subscriptions and goroutines.                                        *)
(***************************************************************************)
THEOREM MuxNeverSendsOnClosed ==
  ASSUME Mux!MuxAssumption
  PROVE  Mux!Spec => []Mux!NoSendOnClosed
<1>1. Mux!Init => Mux!MuxInv
  BY MuxInitOK
<1>2. Mux!MuxInv /\ [Mux!Next]_Mux!vars => Mux!MuxInv'
  BY MuxStep
<1>3. Mux!MuxInv => Mux!NoSendOnClosed
  BY DEF Mux!MuxInv, Mux!NoSendOnClosed
<1> QED BY <1>1, <1>2, <1>3, PTL DEF Mux!Spec

(***************************************************************************)
(* After Stop every subscription that its owner has not ended is closed,   *)
(* and no post is about to send on it (Stop, Subscribe).                   *)
(***************************************************************************)
THEOREM MuxStopClosesAll ==
  ASSUME Mux!MuxAssumption
  PROVE  Mux!Spec => []Mux!AllClosedByStop
<1>1. Mux!Init => Mux!MuxInv
  BY MuxInitOK
<1>2. Mux!MuxInv /\ [Mux!Next]_Mux!vars => Mux!MuxInv'
  BY MuxStep
<1>3. Mux!MuxInv => Mux!AllClosedByStop
  BY DEF Mux!MuxInv, Mux!MuxTypes, Mux!AllClosedByStop, Mux!Registered
<1> QED BY <1>1, <1>2, <1>3, PTL DEF Mux!Spec
=============================================================================
