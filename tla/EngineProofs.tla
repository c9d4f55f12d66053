---------------------------- MODULE EngineProofs ----------------------------
(***************************************************************************)
(* The parts that work beside the consensus: the queue of messages for a   *)
(* core that is stopped, the ticker, the store of sent messages with its   *)
(* reader, and the broadcasts.  Each has an inductive invariant of its     *)
(* own, which its module states.                                           *)
(*                                                                         *)
(* The parts share no state, and every theorem is about one of them; a     *)
(* name that two of them use (got, starts, MaxStarts) is declared once     *)
(* here and stands for the variable or the constant of each.               *)
(***************************************************************************)
EXTENDS MsgQueue, FiniteSetTheorems, SequenceTheorems, TLAPS

(* The queue of messages. *)

\* The first message leaves the queue.
LEMMA RestTail ==
  ASSUME NEW q, NEW a, IsRest(q, a), q # <<>>
  PROVE  IsRest(Tail(q), a) /\ Len(Tail(q)) = Len(q) - 1 /\ Len(q) \in Nat \ {0}
<1>1. /\ q \in Seq(Msgs) /\ a \in Seq(Msgs) /\ Len(q) <= Len(a) /\ Len(q) \in Nat /\ Len(a) \in Nat
      /\ \A i \in 1 .. Len(q) : q[i] = a[(Len(a) - Len(q)) + i]
  BY DEF IsRest
<1> DEFINE t == Tail(q)
<1>2. /\ t \in Seq(Msgs) /\ Len(t) = Len(q) - 1 /\ Len(q) >= 1
      /\ \A i \in 1 .. Len(t) : t[i] = q[i + 1]
  BY <1>1, HeadTailProperties, EmptySeq
<1> HIDE DEF t
<1>3. ASSUME NEW i \in 1 .. Len(t) PROVE t[i] = a[(Len(a) - Len(t)) + i]
  <2>1. i + 1 \in 1 .. Len(q) /\ (Len(a) - Len(t)) + i = (Len(a) - Len(q)) + (i + 1)
    BY <1>1, <1>2
  <2> QED BY Zenon, <1>1, <1>2, <2>1
<1>4. Len(t) <= Len(a)
  BY <1>1, <1>2
<1>5. Len(q) \in Nat \ {0}
  BY <1>1, <1>2
<1> QED BY Zenon, <1>1, <1>2, <1>3, <1>4, <1>5 DEF IsRest, t

\* A message is stored.
LEMMA RestAppend ==
  ASSUME NEW q, NEW a, IsRest(q, a), NEW m \in Msgs
  PROVE  /\ IsRest(Append(q, m), Append(a, m))
         /\ Len(Append(a, m)) - Len(Append(q, m)) = Len(a) - Len(q)
<1>1. /\ q \in Seq(Msgs) /\ a \in Seq(Msgs) /\ Len(q) <= Len(a) /\ Len(q) \in Nat /\ Len(a) \in Nat
      /\ \A i \in 1 .. Len(q) : q[i] = a[(Len(a) - Len(q)) + i]
  BY DEF IsRest
<1> DEFINE u == Append(q, m)
           b == Append(a, m)
<1>2. /\ u \in Seq(Msgs) /\ Len(u) = Len(q) + 1 /\ u[Len(q) + 1] = m
      /\ \A i \in 1 .. Len(q) : u[i] = q[i]
  BY <1>1, AppendProperties
<1>3. /\ b \in Seq(Msgs) /\ Len(b) = Len(a) + 1 /\ b[Len(a) + 1] = m
      /\ \A i \in 1 .. Len(a) : b[i] = a[i]
  BY <1>1, AppendProperties
<1> HIDE DEF u, b
<1>4. Len(u) <= Len(b) /\ Len(b) - Len(u) = Len(a) - Len(q)
  BY <1>1, <1>2, <1>3
<1>5. ASSUME NEW i \in 1 .. Len(u) PROVE u[i] = b[(Len(b) - Len(u)) + i]
  <2>1. \/ i \in 1 .. Len(q) /\ (Len(a) - Len(q)) + i \in 1 .. Len(a)
        \/ i = Len(q) + 1 /\ (Len(a) - Len(q)) + i = Len(a) + 1
    BY <1>1, <1>2
  <2> QED BY Zenon, <1>1, <1>2, <1>3, <1>4, <2>1
<1> QED BY Zenon, <1>2, <1>3, <1>4, <1>5 DEF IsRest, u, b

\* Among more of the messages.
LEMMA AmongMore ==
  ASSUME NEW a, Len(a) \in Nat, NEW n \in Int, NEW m \in Int, n <= m, NEW g, Among(a, n, g)
  PROVE  Among(a, m, g)
<1>1. ASSUME NEW k \in 1 .. Len(a), k <= n PROVE k <= m
  BY <1>1
<1> QED BY Zenon, <1>1 DEF Among

\* Places do not change when a message is stored.
LEMMA StoredKeeps ==
  ASSUME NEW a \in Seq(Msgs), NEW m \in Msgs, NEW g
  PROVE  /\ \A n : Among(a, n, g) => Among(Append(a, m), n, g)
         /\ InOrder(a, g) => InOrder(Append(a, m), g)
         /\ \A n, x : Follows(a, n, g, x) => Follows(Append(a, m), n, g, x)
<1> DEFINE b == Append(a, m)
<1>1. Len(a) \in Nat /\ Len(b) = Len(a) + 1 /\ \A i \in 1 .. Len(a) : b[i] = a[i]
  BY AppendProperties
<1> HIDE DEF b
<1>2. \A k \in 1 .. Len(a) : k \in 1 .. Len(b) /\ b[k] = a[k]
  BY <1>1
<1>3. \A n : Among(a, n, g) => Among(b, n, g)
  BY Zenon, <1>2 DEF Among
<1>4. ASSUME InOrder(a, g) PROVE InOrder(b, g)
  <2>1. ASSUME NEW i \in DOMAIN g, NEW j \in DOMAIN g, i < j
        PROVE  \E k, l \in 1 .. Len(b) : k < l /\ b[k] = g[i] /\ b[l] = g[j]
    <3>1. PICK k \in 1 .. Len(a), l \in 1 .. Len(a) : k < l /\ a[k] = g[i] /\ a[l] = g[j]
      BY Zenon, <1>4, <2>1 DEF InOrder
    <3>2. k \in 1 .. Len(b) /\ l \in 1 .. Len(b) /\ b[k] = g[i] /\ b[l] = g[j]
      BY Zenon, <1>2, <3>1
    <3> QED BY Zenon, <3>1, <3>2
  <2> QED BY Zenon, <2>1 DEF InOrder
<1>5. \A n, x : Follows(a, n, g, x) => Follows(b, n, g, x)
  BY Zenon, <1>2, <1>3 DEF Follows
<1> QED BY Zenon, <1>3, <1>4, <1>5 DEF b

\* The message of a replay is given to the core.
LEMMA GivenNext ==
  ASSUME NEW a \in Seq(Msgs), NEW g \in Seq(Msgs), NEW n \in Int, NEW m \in Msgs,
         InOrder(a, g), Follows(a, n, g, m)
  PROVE  InOrder(a, Append(g, m)) /\ Among(a, n + 1, Append(g, m))
<1>1. PICK k \in 1 .. Len(a) : k <= n + 1 /\ a[k] = m /\ Among(a, k - 1, g)
  BY Zenon DEF Follows
<1> DEFINE h == Append(g, m)
<1>2. /\ Len(g) \in Nat /\ Len(h) = Len(g) + 1 /\ DOMAIN h = 1 .. Len(h) /\ DOMAIN g = 1 .. Len(g)
      /\ h[Len(g) + 1] = m /\ \A i \in 1 .. Len(g) : h[i] = g[i]
  BY AppendProperties
<1>0. Len(a) \in Nat
  OBVIOUS
<1> HIDE DEF h
<1>3. ASSUME NEW i \in DOMAIN h PROVE i \in DOMAIN g \/ i = Len(g) + 1
  BY <1>2
<1>4. ASSUME NEW l \in 1 .. Len(a), l <= k - 1 PROVE l <= n + 1 /\ l < k
  BY <1>0, <1>1, <1>4
<1>5. Among(a, n + 1, h)
  BY Zenon, <1>1, <1>2, <1>3, <1>4 DEF Among
<1>6. ASSUME NEW i \in DOMAIN h, NEW j \in DOMAIN h, i < j
      PROVE  \E x, y \in 1 .. Len(a) : x < y /\ a[x] = h[i] /\ a[y] = h[j]
  <2>1. i \in DOMAIN g /\ (j \in DOMAIN g \/ j = Len(g) + 1)
    BY <1>2, <1>6
  <2>2. CASE j \in DOMAIN g
    <3>1. PICK x \in 1 .. Len(a), y \in 1 .. Len(a) : x < y /\ a[x] = g[i] /\ a[y] = g[j]
      BY Zenon, <1>6, <2>1, <2>2 DEF InOrder
    <3>2. h[i] = g[i] /\ h[j] = g[j]
      BY Zenon, <1>2, <2>1, <2>2
    <3> QED BY Zenon, <3>1, <3>2
  <2>3. CASE j = Len(g) + 1
    <3>1. PICK x \in 1 .. Len(a) : x <= k - 1 /\ a[x] = g[i]
      BY Zenon, <1>1, <2>1 DEF Among
    <3>2. x < k /\ h[i] = g[i] /\ h[j] = m
      BY Zenon, <1>2, <1>4, <2>1, <2>3, <3>1
    <3> QED BY Zenon, <1>1, <3>1, <3>2
  <2> QED BY Zenon, <2>1, <2>2, <2>3
<1>7. InOrder(a, h)
  BY Zenon, <1>6 DEF InOrder
<1> QED BY Zenon, <1>5, <1>7 DEF h

\* An empty queue.
LEMMA OrderInitOK == ASSUME QueueAssumption, Init PROVE OrderInv
<1>1. /\ storingMsgs = <<>> /\ arrived = <<>> /\ handling = None /\ handled = <<>> /\ loop = "waiting"
  BY DEF Init
<1>2. Given = <<>> /\ DOMAIN Given = {} /\ Len(<<>>) = 0 /\ <<>> \in Seq(Msgs)
  BY <1>1 DEF Given
<1>3. IsRest(storingMsgs, arrived)
  BY <1>1 DEF IsRest
<1>4. InOrder(arrived, Given) /\ Among(arrived, Gone, Given)
  BY Zenon, <1>2 DEF InOrder, Among
<1> QED BY <1>1, <1>2, <1>3, <1>4 DEF OrderInv

\* Steps of other parts.
LEMMA OrderStays ==
  ASSUME OrderInv, UNCHANGED <<storingMsgs, arrived, loop, stored, handling, handled>>
  PROVE  OrderInv'
BY DEF OrderInv, Given, Gone

\* What the invariant says of the loop's places, with the sequences of a step.
LEMMA OrderFacts ==
  ASSUME OrderInv, QueueAssumption
  PROVE  /\ arrived \in Seq(Msgs) /\ storingMsgs \in Seq(Msgs) /\ Given \in Seq(Msgs)
         /\ Len(arrived) \in Nat /\ Len(storingMsgs) \in Nat /\ Gone \in Nat
<1>1. /\ storingMsgs \in Seq(Msgs) /\ arrived \in Seq(Msgs) /\ Len(storingMsgs) <= Len(arrived)
      /\ handled \in Seq(Msgs) /\ handling \in Msgs \cup {None}
  BY DEF OrderInv, IsRest
<1>2. Given \in Seq(Msgs)
  BY <1>1, AppendProperties DEF Given
<1> QED BY <1>1, <1>2 DEF Gone

\* A slot is freed, whatever the loop does.
LEMMA OrderFree ==
  ASSUME OrderInv, QueueAssumption, storingMsgs # <<>>, storingMsgs' = Tail(storingMsgs),
         UNCHANGED <<arrived, loop, stored, handling, handled>>
  PROVE  OrderInv'
<1>1. IsRest(storingMsgs', arrived) /\ Len(storingMsgs') = Len(storingMsgs) - 1
  BY Zenon, RestTail DEF OrderInv
<1>2. /\ arrived \in Seq(Msgs) /\ Len(arrived) \in Nat /\ Len(storingMsgs) \in Nat /\ Gone \in Nat
      /\ arrived' = arrived /\ Given' = Given /\ loop' = loop /\ stored' = stored
  BY Zenon, OrderFacts DEF Given
<1>3. Gone' = Gone + 1
  BY <1>1, <1>2 DEF Gone
<1>4. \A n, m \in Int : n <= m /\ Among(arrived, n, Given) => Among(arrived, m, Given)
  BY Zenon, <1>2, AmongMore
<1>5. Among(arrived, Gone, Given) => Among(arrived, Gone', Given)
  BY <1>2, <1>3, <1>4
<1>6. Among(arrived, Gone + 1, Given) => Among(arrived, Gone' + 1, Given)
  BY <1>2, <1>3, <1>4
<1>7. Follows(arrived, Gone, Given, stored) => Follows(arrived, Gone', Given, stored)
  <2>1. ASSUME NEW k \in 1 .. Len(arrived), k <= Gone + 1 PROVE k <= Gone' + 1
    BY <1>2, <1>3, <2>1
  <2> QED BY Zenon, <2>1 DEF Follows
<1> QED BY Zenon, <1>1, <1>2, <1>5, <1>6, <1>7 DEF OrderInv

\* A message is stored behind all others.
LEMMA OrderEnqueue ==
  ASSUME OrderInv, QueueAssumption, NEW m \in Msgs, Enqueue(m)
  PROVE  OrderInv'
<1>1. /\ storingMsgs' = Append(storingMsgs, m) /\ arrived' = Append(arrived, m) /\ loop' = loop
      /\ stored' = stored /\ handling' = handling /\ handled' = handled
  BY DEF Enqueue
<1>2. arrived \in Seq(Msgs) /\ Given' = Given
  BY Zenon, <1>1, OrderFacts DEF Given
<1>3. IsRest(storingMsgs', arrived') /\ Gone' = Gone
  BY Zenon, <1>1, RestAppend DEF OrderInv, Gone
<1>4. /\ \A n : Among(arrived, n, Given) => Among(arrived', n, Given)
      /\ InOrder(arrived, Given) => InOrder(arrived', Given)
      /\ \A n, x : Follows(arrived, n, Given, x) => Follows(arrived', n, Given, x)
  BY Zenon, <1>1, <1>2, StoredKeeps
<1> QED BY Zenon, <1>1, <1>2, <1>3, <1>4 DEF OrderInv

\* The replay looks at the first message, which it leaves in the queue.
LEMMA OrderGetFirst ==
  ASSUME OrderInv, QueueAssumption, GetFirst
  PROVE  OrderInv'
<1>1. /\ loop = "replaying" /\ storingMsgs' = storingMsgs /\ arrived' = arrived
      /\ handling' = handling /\ handled' = handled
      /\ \/ loop' = "waiting" /\ stored' = stored
         \/ storingMsgs # <<>> /\ loop' = "posting" /\ stored' = Head(storingMsgs)
  BY DEF GetFirst, queue
<1>2. Given' = Given /\ Gone' = Gone
  BY Zenon, <1>1 DEF Given, Gone
<1>3. Among(arrived, Gone, Given)
  BY Zenon, <1>1 DEF OrderInv
<1>4. CASE loop' = "waiting"
  <2>1. loop' # "posting" /\ loop' # "dequeuing"
    BY <1>4
  <2> QED BY Zenon, <1>1, <1>2, <1>3, <1>4, <2>1 DEF OrderInv
<1>5. CASE storingMsgs # <<>> /\ loop' = "posting" /\ stored' = Head(storingMsgs)
  <2>1. /\ storingMsgs \in Seq(Msgs) /\ Len(storingMsgs) \in Nat /\ Len(arrived) \in Nat
        /\ Len(storingMsgs) <= Len(arrived)
        /\ \A i \in 1 .. Len(storingMsgs) : storingMsgs[i] = arrived[(Len(arrived) - Len(storingMsgs)) + i]
    BY OrderFacts DEF OrderInv, IsRest
  <2>2. 1 \in 1 .. Len(storingMsgs) /\ Head(storingMsgs) = storingMsgs[1] /\ storingMsgs[1] \in Msgs
    BY <1>5, <2>1
  <2>3. stored' \in Msgs /\ arrived[Gone + 1] = stored'
    BY Zenon, <1>5, <2>1, <2>2 DEF Gone
  <2>4. Gone + 1 \in 1 .. Len(arrived) /\ Gone + 1 <= Gone + 1 /\ (Gone + 1) - 1 = Gone
    BY <2>1, <2>2 DEF Gone
  <2>5. Follows(arrived, Gone, Given, stored')
    BY Zenon, <1>3, <2>3, <2>4 DEF Follows
  <2>6. loop' # "waiting" /\ loop' # "dequeuing" /\ loop' # "replaying"
    BY <1>5
  <2> QED BY Zenon, <1>1, <1>2, <1>5, <2>3, <2>5, <2>6 DEF OrderInv
<1> QED BY Zenon, <1>1, <1>4, <1>5

\* The replay hands its message to the core.
LEMMA OrderSend ==
  ASSUME OrderInv, QueueAssumption, sendDataToCore
  PROVE  OrderInv'
<1>1. /\ loop = "posting" /\ loop' = "dequeuing" /\ storingMsgs' = storingMsgs /\ arrived' = arrived
      /\ handling = None /\ handling' = stored /\ handled' = handled
  BY DEF sendDataToCore, queue
<1>2. /\ stored \in Msgs /\ stored # None /\ Follows(arrived, Gone, Given, stored)
      /\ InOrder(arrived, Given)
  BY Zenon, <1>1 DEF OrderInv, QueueAssumption
<1>3. Given' = Append(Given, stored) /\ Gone' = Gone
  BY Zenon, <1>1, <1>2 DEF Given, Gone
<1>4. arrived \in Seq(Msgs) /\ Given \in Seq(Msgs) /\ Gone \in Nat /\ Gone \in Int
  BY OrderFacts
<1>5. InOrder(arrived, Given') /\ Among(arrived, Gone + 1, Given')
  BY Zenon, <1>2, <1>3, <1>4, GivenNext
<1>6. loop' # "waiting" /\ loop' # "replaying" /\ loop' # "posting"
  BY <1>1
<1> QED BY Zenon, <1>1, <1>2, <1>3, <1>5, <1>6 DEF OrderInv

\* The replay takes a message off the queue.
LEMMA OrderDequeue ==
  ASSUME OrderInv, QueueAssumption, Dequeue
  PROVE  OrderInv'
<1>1. /\ loop = "dequeuing" /\ loop' = "replaying" /\ arrived' = arrived
      /\ handling' = handling /\ handled' = handled
      /\ \/ storingMsgs = <<>> /\ storingMsgs' = storingMsgs
         \/ storingMsgs # <<>> /\ storingMsgs' = Tail(storingMsgs)
  BY DEF Dequeue
<1>2. Given' = Given /\ Among(arrived, Gone + 1, Given)
  BY Zenon, <1>1 DEF OrderInv, Given
<1>3. /\ arrived \in Seq(Msgs) /\ Len(arrived) \in Nat /\ Len(storingMsgs) \in Nat /\ Gone \in Nat
  BY OrderFacts
<1>4. IsRest(storingMsgs', arrived') /\ Among(arrived, Gone', Given)
  <2>1. CASE storingMsgs = <<>> /\ storingMsgs' = storingMsgs
    <3>1. Gone' = Len(arrived)
      BY <1>1, <1>3, <2>1 DEF Gone
    <3>2. ASSUME NEW k \in 1 .. Len(arrived) PROVE k <= Len(arrived)
      OBVIOUS
    <3>3. Among(arrived, Len(arrived), Given)
      BY Zenon, <1>2, <3>2 DEF Among
    <3> QED BY Zenon, <1>1, <2>1, <3>1, <3>3 DEF OrderInv
  <2>2. CASE storingMsgs # <<>> /\ storingMsgs' = Tail(storingMsgs)
    <3>1. IsRest(storingMsgs', arrived) /\ Len(storingMsgs') = Len(storingMsgs) - 1
      BY Zenon, <2>2, RestTail DEF OrderInv
    <3>2. Gone' = Gone + 1
      BY <1>1, <1>3, <3>1 DEF Gone
    <3> QED BY Zenon, <1>1, <1>2, <3>1, <3>2
  <2> QED BY Zenon, <1>1, <2>1, <2>2
<1>5. loop' # "posting" /\ loop' # "dequeuing"
  BY <1>1
<1> QED BY Zenon, <1>1, <1>2, <1>4, <1>5 DEF OrderInv

\* The core has handled what it was given.
LEMMA OrderHandle ==
  ASSUME OrderInv, QueueAssumption, Handle
  PROVE  OrderInv'
<1>1. /\ loop' = loop /\ storingMsgs' = storingMsgs /\ arrived' = arrived /\ stored' = stored
      /\ handling # None /\ handling' = None /\ handled' = Append(handled, handling)
  BY DEF Handle, queue
<1>2. Given' = Given /\ Gone' = Gone
  BY Zenon, <1>1 DEF Given, Gone
<1>3. handled' \in Seq(Msgs)
  BY <1>1, AppendProperties DEF OrderInv
<1> QED BY Zenon, <1>1, <1>2, <1>3 DEF OrderInv

\* Every step of the queue.
LEMMA OrderStep ==
  ASSUME OrderInv, QueueAssumption, [Next]_vars
  PROVE  OrderInv'
<1>1. CASE \/ \E m \in Msgs : HandleMsg(m)
           \/ SendTrigger \/ tryStartCore \/ Stop \/ Stopped \/ vars' = vars
  <2>1. UNCHANGED <<storingMsgs, arrived, loop, stored, handling, handled>>
    BY <1>1 DEF HandleMsg, SendTrigger, tryStartCore, Stop, Stopped, vars, queue
  <2> QED BY Zenon, <2>1, OrderStays
<1>2. ASSUME NEW m \in Msgs, FreeSlot(m) PROVE OrderInv'
  <2>1. /\ UNCHANGED <<arrived, loop, stored, handling, handled>>
        /\ \/ storingMsgs' = storingMsgs
           \/ storingMsgs # <<>> /\ storingMsgs' = Tail(storingMsgs)
    BY <1>2 DEF FreeSlot
  <2> QED BY Zenon, <2>1, OrderStays, OrderFree
<1>3. ASSUME NEW m \in Msgs, Enqueue(m) PROVE OrderInv'
  BY Zenon, <1>3, OrderEnqueue
<1>4. CASE ReceiveTrigger
  <2>1. /\ loop = "waiting" /\ loop' = "replaying" 
        /\ UNCHANGED <<storingMsgs, arrived, stored, handling, handled>>
    BY <1>4 DEF ReceiveTrigger, queue
  <2>2. loop' # "posting" /\ loop' # "dequeuing"
    BY <2>1
  <2>3. Given' = Given /\ Gone' = Gone /\ Among(arrived, Gone, Given)
    BY Zenon, <2>1 DEF OrderInv, Given, Gone
  <2> QED BY Zenon, <2>1, <2>2, <2>3 DEF OrderInv
<1>5. CASE GetFirst \/ sendDataToCore \/ Dequeue \/ Handle
  BY Zenon, <1>5, OrderGetFirst, OrderSend, OrderDequeue, OrderHandle
<1> QED BY Zenon, <1>1, <1>2, <1>3, <1>4, <1>5 DEF Next, Steps

\* What the core handled, by the order in which it was given.
LEMMA OrderMeans ==
  ASSUME QueueAssumption, OrderInv PROVE InOrderOnce
<1>1. handled \in Seq(Msgs) /\ Len(handled) \in Nat /\ DOMAIN arrived = 1 .. Len(arrived)
  BY OrderFacts DEF OrderInv
<1>2. \A i \in DOMAIN handled : i \in DOMAIN Given /\ Given[i] = handled[i]
  BY <1>1, AppendProperties DEF Given, OrderInv
<1>3. ASSUME NEW i \in DOMAIN handled, NEW j \in DOMAIN handled, i < j
      PROVE  \E k, l \in DOMAIN arrived : k < l /\ arrived[k] = handled[i] /\ arrived[l] = handled[j]
  <2>1. PICK k \in 1 .. Len(arrived), l \in 1 .. Len(arrived) :
          k < l /\ arrived[k] = Given[i] /\ arrived[l] = Given[j]
    BY Zenon, <1>2, <1>3 DEF OrderInv, InOrder
  <2>2. Given[i] = handled[i] /\ Given[j] = handled[j]
    BY Zenon, <1>2
  <2> QED BY Zenon, <1>1, <2>1, <2>2
<1> QED BY Zenon, <1>3 DEF InOrderOnce

\* The core handles messages in the order in which HandleMsg stored them and
\* none twice, for any number of messages, calls and restarts.
THEOREM HandledInOrder == ASSUME QueueAssumption PROVE Spec => []InOrderOnce
<1>1. Init => OrderInv
  BY OrderInitOK
<1>2. OrderInv /\ [Next]_vars => OrderInv'
  BY OrderStep
<1>3. OrderInv => InOrderOnce
  BY OrderMeans
<1> QED BY <1>1, <1>2, <1>3, PTL DEF Spec
\* An empty queue, and no call.
LEMMA LimitInitOK == ASSUME QueueAssumption, Init PROVE LimitInv
<1>1. /\ storingMsgs = <<>> /\ caller = [m \in Msgs |-> "called"] /\ toFree = [m \in Msgs |-> 0]
  BY DEF Init
<1>2. Freeing = {} /\ Storing = {}
  BY <1>1 DEF Freeing, Storing
<1>3. Cardinality(Freeing) = 0 /\ Cardinality(Storing) = 0
  BY <1>2, FS_EmptySet
<1> QED BY <1>1, <1>3 DEF LimitInv, QueueAssumption

\* The calls are finitely many.
LEMMA LimitFacts ==
  ASSUME QueueAssumption, LimitInv
  PROVE  /\ IsFiniteSet(Freeing) /\ IsFiniteSet(Storing) /\ Storing \subseteq Freeing
         /\ Cardinality(Freeing) \in Nat /\ Cardinality(Storing) \in Nat
         /\ Cardinality(Storing) <= Cardinality(Freeing) /\ Len(storingMsgs) \in Nat
         /\ maxNumberMessages \in Nat /\ MaxCalls \in Nat
<1>1. Storing \subseteq Freeing /\ Freeing \subseteq Msgs
  BY DEF Storing, Freeing
<1>2. IsFiniteSet(Freeing)
  BY <1>1, FS_Subset DEF QueueAssumption
<1> QED BY <1>1, <1>2, FS_Subset, FS_CardinalityType DEF LimitInv, QueueAssumption

\* A call begins and counts what is above the limit.
LEMMA LimitHandleMsg ==
  ASSUME QueueAssumption, LimitInv, NEW m \in Msgs, HandleMsg(m)
  PROVE  LimitInv'
<1>1. /\ caller[m] = "called" /\ Cardinality(Freeing) < MaxCalls /\ storingMsgs' = storingMsgs
      /\ caller' = [caller EXCEPT ![m] = "freeing"] /\ toFree' = [toFree EXCEPT ![m] = OverLimit]
  BY DEF HandleMsg
<1>2. /\ storingMsgs \in Seq(Msgs) /\ toFree \in [Msgs -> Nat]
      /\ caller \in [Msgs -> {"called", "freeing", "failed", "done"}]
      /\ Len(storingMsgs) + Cardinality(Storing) <= maxNumberMessages + MaxCalls
  BY DEF LimitInv
<1>3. OverLimit \in Nat /\ (OverLimit = 0 => Len(storingMsgs) <= maxNumberMessages)
  BY LimitFacts DEF OverLimit
<1>4. toFree' \in [Msgs -> Nat] /\ caller' \in [Msgs -> {"called", "freeing", "failed", "done"}]
  BY <1>1, <1>2, <1>3
<1>5. m \notin Freeing /\ Freeing' = Freeing \cup {m}
  BY <1>1, <1>2 DEF Freeing
<1>6. Cardinality(Freeing') = Cardinality(Freeing) + 1
  BY <1>5, LimitFacts, FS_AddElement
<1>7. IsFiniteSet(Freeing') /\ Storing' \subseteq Freeing'
  <2>1. IsFiniteSet(Freeing')
    BY <1>5, LimitFacts, FS_AddElement
  <2>2. Storing' \subseteq Freeing'
    BY DEF Storing, Freeing
  <2> QED BY <2>1, <2>2
<1>8. Cardinality(Storing') \in Nat /\ Cardinality(Storing') <= Cardinality(Freeing')
  BY <1>7, FS_Subset, FS_CardinalityType
<1>9. CASE OverLimit = 0
  <2>1. Len(storingMsgs) + Cardinality(Storing') <= maxNumberMessages + MaxCalls
    BY <1>1, <1>3, <1>6, <1>8, <1>9, LimitFacts
  <2>2. Cardinality(Freeing') <= MaxCalls
    BY <1>1, <1>6, LimitFacts
  <2> QED BY <1>1, <1>2, <1>4, <2>1, <2>2 DEF LimitInv
<1>10. CASE OverLimit # 0
  <2>1. Storing' = Storing
    BY <1>1, <1>2, <1>3, <1>10 DEF Storing
  <2>2. Cardinality(Freeing') <= MaxCalls
    BY <1>1, <1>6, LimitFacts
  <2> QED BY <1>1, <1>2, <1>4, <2>1, <2>2 DEF LimitInv
<1> QED BY Zenon, <1>9, <1>10

\* A call frees a message.
LEMMA LimitFree ==
  ASSUME QueueAssumption, LimitInv, NEW m \in Msgs, FreeSlot(m)
  PROVE  LimitInv'
<1>1. /\ caller[m] = "freeing" /\ toFree[m] > 0
      /\ \/ /\ caller' = [caller EXCEPT ![m] = "failed"] /\ storingMsgs' = storingMsgs /\ toFree' = toFree
         \/ /\ storingMsgs # <<>> /\ storingMsgs' = Tail(storingMsgs) /\ caller' = caller
            /\ toFree' = [toFree EXCEPT ![m] = @ - 1]
  BY DEF FreeSlot
<1>2. /\ storingMsgs \in Seq(Msgs) /\ toFree \in [Msgs -> Nat]
      /\ caller \in [Msgs -> {"called", "freeing", "failed", "done"}]
      /\ Cardinality(Freeing) <= MaxCalls
      /\ Len(storingMsgs) + Cardinality(Storing) <= maxNumberMessages + MaxCalls
  BY DEF LimitInv
<1>3. CASE caller' = [caller EXCEPT ![m] = "failed"] /\ storingMsgs' = storingMsgs /\ toFree' = toFree
  <2>1. Storing' = Storing /\ Freeing' \subseteq Freeing
    BY <1>1, <1>2, <1>3 DEF Storing, Freeing
  <2>2. Cardinality(Freeing') <= Cardinality(Freeing) /\ Cardinality(Freeing') \in Nat
    BY <2>1, LimitFacts, FS_Subset, FS_CardinalityType
  <2>3. Cardinality(Freeing') <= MaxCalls
    BY <1>2, <2>2, LimitFacts
  <2>4. caller' \in [Msgs -> {"called", "freeing", "failed", "done"}]
    BY <1>2, <1>3
  <2> QED BY <1>2, <1>3, <2>1, <2>3, <2>4 DEF LimitInv
<1>4. CASE /\ storingMsgs # <<>> /\ storingMsgs' = Tail(storingMsgs) /\ caller' = caller
           /\ toFree' = [toFree EXCEPT ![m] = @ - 1]
  <2>1. Freeing' = Freeing /\ Storing' \subseteq Storing \cup {m}
    BY <1>1, <1>2, <1>4 DEF Storing, Freeing
  <2>2. /\ IsFiniteSet(Storing \cup {m}) /\ Cardinality(Storing \cup {m}) <= Cardinality(Storing) + 1
        /\ Cardinality(Storing \cup {m}) \in Nat
    <3>1. m \in Storing => Storing \cup {m} = Storing
      OBVIOUS
    <3>2. /\ IsFiniteSet(Storing \cup {m})
          /\ \/ Cardinality(Storing \cup {m}) = Cardinality(Storing)
             \/ Cardinality(Storing \cup {m}) = Cardinality(Storing) + 1
      BY Zenon, <3>1, LimitFacts, FS_AddElement
    <3>3. Cardinality(Storing) \in Nat
      BY LimitFacts
    <3> QED BY <3>2, <3>3
  <2>3. Cardinality(Storing') <= Cardinality(Storing) + 1 /\ Cardinality(Storing') \in Nat
    BY <2>1, <2>2, LimitFacts, FS_Subset, FS_CardinalityType
  <2>4. /\ Tail(storingMsgs) \in Seq(Msgs) /\ Len(Tail(storingMsgs)) = Len(storingMsgs) - 1
    BY <1>2, <1>4, HeadTailProperties, EmptySeq
  <2>5. Len(storingMsgs') + Cardinality(Storing') <= maxNumberMessages + MaxCalls
    BY <1>2, <1>4, <2>3, <2>4, LimitFacts
  <2>6. toFree' \in [Msgs -> Nat]
    BY <1>1, <1>2, <1>4
  <2> QED BY <1>2, <1>4, <2>1, <2>4, <2>5, <2>6 DEF LimitInv
<1> QED BY Zenon, <1>1, <1>3, <1>4

\* A call stores its message.
LEMMA LimitEnqueue ==
  ASSUME QueueAssumption, LimitInv, NEW m \in Msgs, Enqueue(m)
  PROVE  LimitInv'
<1>1. /\ caller[m] = "freeing" /\ toFree[m] = 0 /\ caller' = [caller EXCEPT ![m] = "done"]
      /\ storingMsgs' = Append(storingMsgs, m) /\ toFree' = toFree
  BY DEF Enqueue
<1>2. /\ storingMsgs \in Seq(Msgs) /\ toFree \in [Msgs -> Nat]
      /\ caller \in [Msgs -> {"called", "freeing", "failed", "done"}]
      /\ Cardinality(Freeing) <= MaxCalls
      /\ Len(storingMsgs) + Cardinality(Storing) <= maxNumberMessages + MaxCalls
  BY DEF LimitInv
<1>3. m \in Storing /\ Storing' = Storing \ {m} /\ Freeing' \subseteq Freeing
  BY <1>1, <1>2 DEF Storing, Freeing
<1>4. Cardinality(Storing') = Cardinality(Storing) - 1
  BY <1>3, LimitFacts, FS_RemoveElement
<1>5. Cardinality(Freeing') <= Cardinality(Freeing) /\ Cardinality(Freeing') \in Nat
  BY <1>3, LimitFacts, FS_Subset, FS_CardinalityType
<1>6. storingMsgs' \in Seq(Msgs) /\ Len(storingMsgs') = Len(storingMsgs) + 1
  BY <1>1, <1>2, AppendProperties
<1>7. /\ Len(storingMsgs') + Cardinality(Storing') <= maxNumberMessages + MaxCalls
      /\ Cardinality(Freeing') <= MaxCalls
  <2>1. /\ Len(storingMsgs) \in Nat /\ Cardinality(Storing) \in Nat /\ Cardinality(Freeing) \in Nat
        /\ maxNumberMessages \in Nat /\ MaxCalls \in Nat
    BY <1>2, LimitFacts DEF QueueAssumption
  <2>2. /\ Len(storingMsgs) + Cardinality(Storing) <= maxNumberMessages + MaxCalls
        /\ Len(storingMsgs') = Len(storingMsgs) + 1
        /\ Cardinality(Freeing) <= MaxCalls
    BY Zenon, <1>2, <1>6
  <2> QED BY SMTT(30), <1>4, <1>5, <2>1, <2>2
<1>8. caller' \in [Msgs -> {"called", "freeing", "failed", "done"}]
  BY <1>1, <1>2
<1> QED BY <1>1, <1>2, <1>6, <1>7, <1>8 DEF LimitInv

\* A step that takes no more than the first message off.
LEMMA LimitRest ==
  ASSUME QueueAssumption, LimitInv, caller' = caller, toFree' = toFree,
         storingMsgs' = storingMsgs \/ (storingMsgs # <<>> /\ storingMsgs' = Tail(storingMsgs))
  PROVE  LimitInv'
<1>1. /\ storingMsgs \in Seq(Msgs) /\ Len(storingMsgs) + Cardinality(Storing) <= maxNumberMessages + MaxCalls
  BY DEF LimitInv
<1>2. Storing' = Storing /\ Freeing' = Freeing
  BY DEF Storing, Freeing
<1>3. storingMsgs' \in Seq(Msgs) /\ Len(storingMsgs') <= Len(storingMsgs) /\ Len(storingMsgs') \in Nat
  BY <1>1, HeadTailProperties, EmptySeq
<1>4. Len(storingMsgs') + Cardinality(Storing) <= maxNumberMessages + MaxCalls
  BY <1>1, <1>3, LimitFacts
<1> QED BY <1>2, <1>3, <1>4 DEF LimitInv

\* Every step of the queue.
LEMMA LimitStep ==
  ASSUME QueueAssumption, LimitInv, [Next]_vars
  PROVE  LimitInv'
<1>1. CASE \/ SendTrigger \/ ReceiveTrigger \/ GetFirst \/ sendDataToCore \/ Dequeue
           \/ Handle \/ tryStartCore \/ Stopped \/ Stop \/ vars' = vars
  <2>1. /\ caller' = caller /\ toFree' = toFree
        /\ storingMsgs' = storingMsgs \/ (storingMsgs # <<>> /\ storingMsgs' = Tail(storingMsgs))
    BY <1>1 DEF SendTrigger, ReceiveTrigger, GetFirst, sendDataToCore, Dequeue, Handle, tryStartCore,
                Stopped, Stop, vars, queue
  <2> QED BY Zenon, <2>1, LimitRest
<1>2. ASSUME NEW m \in Msgs, HandleMsg(m) \/ FreeSlot(m) \/ Enqueue(m) PROVE LimitInv'
  BY Zenon, <1>2, LimitHandleMsg, LimitFree, LimitEnqueue
<1> QED BY Zenon, <1>1, <1>2 DEF Next, Steps

\* What the invariant says of the length.
LEMMA LimitMeans ==
  ASSUME QueueAssumption, LimitInv PROVE QueueNearLimit
BY LimitFacts DEF LimitInv, QueueNearLimit

\* The queue grows past its limit by at most one message for each call of
\* HandleMsg that runs at the same time, for any limit and any number of calls.
THEOREM QueueIsBounded == ASSUME QueueAssumption PROVE Spec => []QueueNearLimit
<1>1. Init => LimitInv
  BY LimitInitOK
<1>2. LimitInv /\ [Next]_vars => LimitInv'
  BY LimitStep
<1>3. LimitInv => QueueNearLimit
  BY LimitMeans
<1> QED BY <1>1, <1>2, <1>3, PTL DEF Spec
-----------------------------------------------------------------------------
(* The ticker. *)

CONSTANTS TickTockBufferSize, MaxEvents, MaxSchedules, MaxTimeout
VARIABLES ctl, routine, timer, ti, tickChan, senders, tockChan, tockOpen, handler, todo, events,
  last, got

Ticks == INSTANCE Ticker

\* Every step of the ticker.
LEMMA ClosingStep == ASSUME Ticks!ClosingInv, [Ticks!Next]_Ticks!vars PROVE Ticks!ClosingInv'
<1>1. CASE \/ Ticks!Fire \/ Ticks!Tick \/ (\E s \in Ticks!Starts : Ticks!handleEvents(s)) \/ Ticks!vars' = Ticks!vars
  <2>1. UNCHANGED <<ctl, routine, tockOpen, senders>>
    BY <1>1 DEF Ticks!Fire, Ticks!Tick, Ticks!handleEvents, Ticks!Begin, Ticks!HandleEvent, Ticks!HandleTock, Ticks!ScheduleTimeout,
                Ticks!Handled, Ticks!Return, Ticks!vars, Ticks!ticker
  <2> QED BY <2>1 DEF Ticks!ClosingInv
<1>2. CASE Ticks!Start \/ Ticks!startNewRound \/ Ticks!Stop
  <2>1. CASE Ticks!Start
    BY <2>1 DEF Ticks!ClosingInv, Ticks!Start
  <2>2. CASE Ticks!startNewRound
    BY <2>2 DEF Ticks!ClosingInv, Ticks!startNewRound
  <2>3. CASE Ticks!StopTimer \/ Ticks!Quit
    BY <2>3 DEF Ticks!ClosingInv, Ticks!StopTimer, Ticks!Quit
  <2>4. CASE Ticks!CloseTock
    BY <2>4 DEF Ticks!ClosingInv, Ticks!CloseTock
  <2>5. CASE Ticks!unsubscribeEvents \/ Ticks!Join
    BY <2>5 DEF Ticks!ClosingInv, Ticks!unsubscribeEvents, Ticks!Join, Ticks!ticker
  <2> QED BY Zenon, <1>2, <2>1, <2>2, <2>3, <2>4, <2>5 DEF Ticks!Stop
<1>3. CASE Ticks!TimedOut
  BY <1>3 DEF Ticks!ClosingInv, Ticks!TimedOut
<1>4. CASE Ticks!SendTock
  BY <1>4 DEF Ticks!ClosingInv, Ticks!SendTock
<1>5. CASE Ticks!Abort
  BY <1>5 DEF Ticks!ClosingInv, Ticks!Abort
<1> QED BY Zenon, <1>1, <1>2, <1>3, <1>4, <1>5 DEF Ticks!Next, Ticks!timeoutRoutine

(***************************************************************************)
(* Stop closes tockChan only when no goroutine of the ticker can send to   *)
(* it (timeoutTicker.Stop), for any capacities and any number of starts.   *)
(***************************************************************************)
THEOREM TickerNeverSendsOnClosed == Ticks!Spec => []Ticks!NoSendOnClosed
<1>1. Ticks!Init => Ticks!ClosingInv
  BY DEF Ticks!Init, Ticks!ClosingInv
<1>2. Ticks!ClosingInv /\ [Ticks!Next]_Ticks!vars => Ticks!ClosingInv'
  BY ClosingStep
<1>3. Ticks!ClosingInv => Ticks!NoSendOnClosed
  BY DEF Ticks!ClosingInv, Ticks!NoSendOnClosed
<1> QED BY <1>1, <1>2, <1>3, PTL DEF Ticks!Spec
\* What the channel operations do to the set of what is in a channel.
LEMMA RangeAppend ==
  ASSUME NEW s \in Seq(Nat), NEW t \in Nat
  PROVE  /\ Append(s, t) \in Seq(Nat) /\ Append(s, t) # <<>> /\ Append(s, t)[Len(Append(s, t))] = t
         /\ Ticks!Range(Append(s, t)) = Ticks!Range(s) \cup {t}
<1> DEFINE u == Append(s, t)
<1>1. /\ Len(s) \in Nat /\ u \in Seq(Nat) /\ Len(u) = Len(s) + 1 /\ u[Len(s) + 1] = t
      /\ DOMAIN s = 1 .. Len(s) /\ DOMAIN u = 1 .. Len(u)
      /\ \A i \in 1 .. Len(s) : u[i] = s[i]
  BY AppendProperties
<1> HIDE DEF u
<1>2. u # <<>> /\ u[Len(u)] = t
  BY <1>1
<1>3. DOMAIN u = DOMAIN s \cup {Len(s) + 1} /\ \A i \in DOMAIN s : u[i] = s[i]
  BY <1>1
<1>4. Ticks!Range(u) = Ticks!Range(s) \cup {t}
  <2>1. ASSUME NEW x \in Ticks!Range(u) PROVE x \in Ticks!Range(s) \cup {t}
    <3>1. PICK i \in DOMAIN u : x = u[i]
      BY Zenon, <2>1 DEF Ticks!Range
    <3>2. i \in DOMAIN s \/ i = Len(s) + 1
      BY Zenon, <1>3
    <3> QED BY Zenon, <1>1, <1>3, <3>1, <3>2 DEF Ticks!Range
  <2>2. ASSUME NEW x \in Ticks!Range(s) PROVE x \in Ticks!Range(u)
    <3>1. PICK i \in DOMAIN s : x = s[i]
      BY Zenon, <2>2 DEF Ticks!Range
    <3>2. i \in DOMAIN u /\ u[i] = s[i]
      BY Zenon, <1>3
    <3> QED BY Zenon, <3>1, <3>2 DEF Ticks!Range
  <2>3. t \in Ticks!Range(u)
    <3>1. Len(s) + 1 \in DOMAIN u
      BY Zenon, <1>3
    <3> QED BY Zenon, <1>1, <3>1 DEF Ticks!Range
  <2> QED BY Zenon, <2>1, <2>2, <2>3
<1> QED BY Zenon, <1>1, <1>2, <1>4 DEF u

\* What a sequence of numbers holds.
LEMMA RangeOfNat == ASSUME NEW s \in Seq(Nat) PROVE \A x \in Ticks!Range(s) : x \in Nat
<1>1. DOMAIN s = 1 .. Len(s)
  OBVIOUS
<1> QED BY Zenon, <1>1, ElementOfSeq DEF Ticks!Range

\* What is left when the head is taken.
LEMMA RangeTail ==
  ASSUME NEW s \in Seq(Nat), s # <<>>
  PROVE  /\ Tail(s) \in Seq(Nat) /\ Head(s) \in Nat
         /\ Ticks!Range(s) = Ticks!Range(Tail(s)) \cup {Head(s)}
         /\ Tail(s) # <<>> => Tail(s)[Len(Tail(s))] = s[Len(s)]
         /\ Tail(s) = <<>> => Head(s) = s[Len(s)]
<1> DEFINE u == Tail(s)
<1>1. /\ Len(s) \in Nat /\ Len(s) >= 1 /\ u \in Seq(Nat) /\ Len(u) = Len(s) - 1 /\ Head(s) = s[1]
      /\ DOMAIN s = 1 .. Len(s) /\ DOMAIN u = 1 .. Len(u)
      /\ \A i \in 1 .. Len(u) : u[i] = s[i + 1]
  BY HeadTailProperties, EmptySeq
<1>2. Head(s) \in Nat
  BY HeadTailProperties
<1> HIDE DEF u
<1>3. u # <<>> => u[Len(u)] = s[Len(s)]
  <2>1. SUFFICES ASSUME u # <<>> PROVE u[Len(u)] = s[Len(s)]
    OBVIOUS
  <2>2. Len(u) \in 1 .. Len(u) /\ Len(u) + 1 = Len(s)
    BY <1>1, <2>1, EmptySeq
  <2> QED BY <1>1, <2>2
<1>4. u = <<>> => Head(s) = s[Len(s)]
  BY <1>1
<1>5. ASSUME NEW x PROVE x \in Ticks!Range(s) <=> x \in Ticks!Range(u) \cup {Head(s)}
  <2>1. ASSUME x \in Ticks!Range(s) PROVE x \in Ticks!Range(u) \cup {Head(s)}
    <3>1. PICK i \in DOMAIN s : x = s[i]
      BY Zenon, <2>1 DEF Ticks!Range
    <3>2. i = 1 \/ (i - 1 \in DOMAIN u /\ u[i - 1] = s[i])
      <4>1. i = 1 \/ (i - 1 \in 1 .. Len(u) /\ (i - 1) + 1 = i)
        BY SMTT(30), <1>1
      <4> QED BY Zenon, <1>1, <4>1
    <3> QED BY Zenon, <1>1, <3>1, <3>2 DEF Ticks!Range
  <2>2. ASSUME x \in Ticks!Range(u) PROVE x \in Ticks!Range(s)
    <3>1. PICK i \in DOMAIN u : x = u[i]
      BY Zenon, <2>2 DEF Ticks!Range
    <3>2. i + 1 \in DOMAIN s
      BY SMTT(30), <1>1
    <3>3. x = s[i + 1]
      BY Zenon, <1>1, <3>1
    <3> QED BY Zenon, <3>2, <3>3 DEF Ticks!Range
  <2>3. Head(s) \in Ticks!Range(s)
    <3>1. 1 \in DOMAIN s
      BY <1>1
    <3> QED BY Zenon, <1>1, <3>1 DEF Ticks!Range
  <2> QED BY Zenon, <2>1, <2>2, <2>3
<1>6. Ticks!Range(s) = Ticks!Range(u) \cup {Head(s)}
  BY Zenon, <1>5
<1> QED BY Zenon, <1>1, <1>2, <1>3, <1>4, <1>6 DEF u

\* What is left when a sender is served.
LEMMA RangeWithout ==
  ASSUME NEW s \in Seq(Nat), NEW k \in 1 .. Len(s)
  PROVE  /\ Ticks!Without(s, k) \in Seq(Nat) /\ s[k] \in Nat
         /\ Ticks!Range(s) = Ticks!Range(Ticks!Without(s, k)) \cup {s[k]}
<1> DEFINE u == Ticks!Without(s, k)
<1>1. Len(s) \in Nat /\ k \in Nat /\ k <= Len(s) /\ k >= 1 /\ s[k] \in Nat /\ DOMAIN s = 1 .. Len(s)
  BY ElementOfSeq
<1>2. /\ SubSeq(s, 1, k - 1) \in Seq(Nat) /\ Len(SubSeq(s, 1, k - 1)) = k - 1
      /\ \A i \in 1 .. k - 1 : SubSeq(s, 1, k - 1)[i] = s[i]
  BY <1>1, SubSeqProperties
<1>3. /\ SubSeq(s, k + 1, Len(s)) \in Seq(Nat) /\ Len(SubSeq(s, k + 1, Len(s))) = Len(s) - k
      /\ \A i \in 1 .. Len(s) - k : SubSeq(s, k + 1, Len(s))[i] = s[k + i]
  OBVIOUS
<1> DEFINE v == SubSeq(s, 1, k - 1)
           w == SubSeq(s, k + 1, Len(s))
<1> HIDE DEF v, w
<1>4. /\ v \in Seq(Nat) /\ Len(v) = k - 1 /\ (\A i \in 1 .. k - 1 : v[i] = s[i])
      /\ w \in Seq(Nat) /\ Len(w) = Len(s) - k /\ (\A i \in 1 .. Len(s) - k : w[i] = s[k + i])
      /\ u = v \o w
  BY Zenon, <1>2, <1>3 DEF v, w, Ticks!Without
<1>5. /\ u \in Seq(Nat) /\ Len(u) = Len(s) - 1 /\ DOMAIN u = 1 .. Len(s) - 1
      /\ \A i \in 1 .. Len(s) - 1 : u[i] = IF i < k THEN s[i] ELSE s[i + 1]
  <2>1. /\ v \o w \in Seq(Nat) /\ Len(v \o w) = Len(v) + Len(w)
        /\ \A i \in 1 .. Len(v) + Len(w) : (v \o w)[i] = IF i <= Len(v) THEN v[i] ELSE w[i - Len(v)]
    BY <1>4, ConcatProperties
  <2>2. u \in Seq(Nat) /\ Len(u) = Len(s) - 1
    BY <1>1, <1>4, <2>1
  <2>3. ASSUME NEW i \in 1 .. Len(s) - 1 PROVE u[i] = IF i < k THEN s[i] ELSE s[i + 1]
    <3>0. i \in 1 .. Len(v) + Len(w)
      BY <1>1, <1>4
    <3>1. u[i] = IF i <= Len(v) THEN v[i] ELSE w[i - Len(v)]
      BY Zenon, <1>4, <2>1, <3>0
    <3>2. CASE i < k
      BY <1>1, <1>4, <3>1, <3>2
    <3>3. CASE ~ (i < k)
      <4>1. i - (k - 1) \in 1 .. Len(s) - k /\ k + (i - (k - 1)) = i + 1 /\ ~ (i <= Len(v))
        BY <1>1, <1>4, <3>3
      <4>2. u[i] = w[i - (k - 1)]
        BY Zenon, <1>4, <3>1, <4>1
      <4> QED BY Zenon, <1>4, <3>3, <4>1, <4>2
    <3> QED BY Zenon, <3>2, <3>3
  <2>4. DOMAIN u = 1 .. Len(s) - 1
    BY <2>2
  <2> QED BY Zenon, <2>2, <2>3, <2>4
<1> HIDE DEF u
<1>6. ASSUME NEW x PROVE x \in Ticks!Range(s) <=> x \in Ticks!Range(u) \cup {s[k]}
  <2>1. ASSUME x \in Ticks!Range(s) PROVE x \in Ticks!Range(u) \cup {s[k]}
    <3>1. PICK i \in DOMAIN s : x = s[i]
      BY Zenon, <2>1 DEF Ticks!Range
    <3>2. \/ i = k
          \/ i \in DOMAIN u /\ u[i] = s[i]
          \/ i - 1 \in DOMAIN u /\ u[i - 1] = s[i]
      <4>1. i < k => i \in 1 .. Len(s) - 1
        BY <1>1
      <4>2. i < k => i \in DOMAIN u /\ u[i] = s[i]
        BY Zenon, <1>5, <4>1
      <4>3. i > k => i - 1 \in 1 .. Len(s) - 1 /\ ~ (i - 1 < k) /\ (i - 1) + 1 = i
        BY <1>1
      <4>4. i > k => i - 1 \in DOMAIN u /\ u[i - 1] = s[i]
        BY Zenon, <1>5, <4>3
      <4>5. i < k \/ i > k \/ i = k
        BY <1>1
      <4> QED BY Zenon, <4>2, <4>4, <4>5
    <3> QED BY Zenon, <3>1, <3>2 DEF Ticks!Range
  <2>2. ASSUME x \in Ticks!Range(u) PROVE x \in Ticks!Range(s)
    <3>1. PICK i \in DOMAIN u : x = u[i]
      BY Zenon, <2>2 DEF Ticks!Range
    <3>2. i \in DOMAIN s /\ i + 1 \in DOMAIN s
      BY SMTT(30), <1>1, <1>5
    <3>3. x = s[i] \/ x = s[i + 1]
      BY Zenon, <1>5, <3>1
    <3> QED BY Zenon, <3>2, <3>3 DEF Ticks!Range
  <2>3. s[k] \in Ticks!Range(s)
    BY Zenon, <1>1 DEF Ticks!Range
  <2> QED BY Zenon, <2>1, <2>2, <2>3
<1>7. Ticks!Range(s) = Ticks!Range(u) \cup {s[k]}
  BY Zenon, <1>6
<1> QED BY Zenon, <1>1, <1>5, <1>7 DEF u
\* The invariant in parts.
LEMMA LastFacts ==
  ASSUME Ticks!LastInv
  PROVE  /\ ti \in Nat /\ last \in Nat /\ got \in Nat
         /\ tickChan \in Seq(Nat) /\ senders \in Seq(Nat) /\ tockChan \in Seq(Nat)
         /\ ti <= last /\ got <= last
         /\ \A t \in Ticks!Range(tickChan) : t <= last
         /\ \A t \in Ticks!Range(senders) : t <= last
         /\ \A t \in Ticks!Range(tockChan) : t <= last
         /\ tickChan # <<>> => tickChan[Len(tickChan)] = last
         /\ ctl = "started" /\ tickChan = <<>> => ti = last
         /\ ctl \in {"starting", "started"} /\ ti = last => timer # "off" \/ Ticks!UnderWay(last)
BY Zenon DEF Ticks!LastInv

\* The parts of the invariant after a step.
LEMMA LastFrom ==
  ASSUME /\ Ticks!ClosingInv'
         /\ ti' \in Nat /\ last' \in Nat /\ got' \in Nat
         /\ tickChan' \in Seq(Nat) /\ senders' \in Seq(Nat) /\ tockChan' \in Seq(Nat)
         /\ ti' <= last' /\ got' <= last'
         /\ \A t \in Ticks!Range(tickChan') : t <= last'
         /\ \A t \in Ticks!Range(senders') : t <= last'
         /\ \A t \in Ticks!Range(tockChan') : t <= last'
         /\ tickChan' # <<>> => tickChan'[Len(tickChan')] = last'
         /\ ctl' = "started" /\ tickChan' = <<>> => ti' = last'
         /\ ctl' \in {"starting", "started"} /\ ti' = last' => timer' # "off" \/ Ticks!UnderWay(last)'
  PROVE  Ticks!LastInv'
BY Zenon DEF Ticks!LastInv

\* A timeout is scheduled, by the start of a round or by a handler.
LEMMA LastScheduled ==
  ASSUME Ticks!LastInv, Ticks!ClosingInv', NEW t \in Nat, t = last \/ t = last + 1,
         tickChan' = Append(tickChan, t), last' = t,
         ctl' = ctl \/ (ctl = "starting" /\ ctl' = "started"),
         UNCHANGED <<ti, got, senders, tockChan, timer>>
  PROVE  Ticks!LastInv'
<1>1. /\ tickChan' \in Seq(Nat) /\ tickChan' # <<>> /\ tickChan'[Len(tickChan')] = last'
      /\ Ticks!Range(tickChan') = Ticks!Range(tickChan) \cup {t}
  BY Zenon, LastFacts, RangeAppend
<1>2. last <= t /\ \A x : x \in Nat /\ x <= last => x <= t
  BY LastFacts
<1>3. /\ \A x \in Ticks!Range(tickChan) : x \in Nat
      /\ \A x \in Ticks!Range(senders) : x \in Nat
      /\ \A x \in Ticks!Range(tockChan) : x \in Nat
  BY Zenon, LastFacts, RangeOfNat
<1>4. ti <= t /\ got <= t /\ t <= t
  BY LastFacts, <1>2
<1>5. ctl' \in {"starting", "started"} /\ ti' = last' => timer' # "off" \/ Ticks!UnderWay(last)'
  <2>1. SUFFICES ASSUME ctl' \in {"starting", "started"}, ti = t PROVE timer # "off" \/ Ticks!UnderWay(last)'
    BY Zenon
  <2>2. t = last
    BY <2>1, LastFacts
  <2>3. ctl \in {"starting", "started"}
    BY <2>1
  <2> QED BY Zenon, <2>1, <2>2, <2>3, LastFacts DEF Ticks!UnderWay
<1> QED BY Zenon, <1>1, <1>2, <1>3, <1>4, <1>5, LastFacts, LastFrom

\* Start makes a new tockChan.
LEMMA LastStart ==
  ASSUME Ticks!LastInv, Ticks!ClosingInv', Ticks!Start
  PROVE  Ticks!LastInv'
<1>1. /\ ctl = "stopped" /\ ctl' = "starting" /\ tockChan' = <<>> /\ ti' = 0 /\ got' = 0
      /\ UNCHANGED <<timer, tickChan, senders, last>>
  BY DEF Ticks!Start
<1>2. Ticks!Range(tockChan') = {} /\ tockChan' \in Seq(Nat)
  BY <1>1 DEF Ticks!Range
<1>3. 0 <= last /\ 0 \in Nat
  BY LastFacts
<1>4. ti' = last' => Ticks!UnderWay(last)'
  BY Zenon, <1>1 DEF Ticks!UnderWay
<1>5. ctl' # "started"
  BY <1>1
<1> QED BY Zenon, <1>1, <1>2, <1>3, <1>4, <1>5, LastFacts, LastFrom

\* The routine takes a tick.
LEMMA LastTick ==
  ASSUME Ticks!LastInv, Ticks!ClosingInv', Ticks!Tick
  PROVE  Ticks!LastInv'
<1>1. /\ tickChan # <<>> /\ tickChan' = Tail(tickChan)
      /\ UNCHANGED <<ctl, last, got, senders, tockChan>>
      /\ \/ Head(tickChan) > ti /\ ti' = Head(tickChan) /\ timer' = "armed"
         \/ ~ (Head(tickChan) > ti) /\ ti' = ti /\ timer' = timer
  BY DEF Ticks!Tick, Ticks!Accept
<1>2. /\ tickChan' \in Seq(Nat) /\ Head(tickChan) \in Nat
      /\ Ticks!Range(tickChan) = Ticks!Range(tickChan') \cup {Head(tickChan)}
      /\ tickChan' # <<>> => tickChan'[Len(tickChan')] = tickChan[Len(tickChan)]
      /\ tickChan' = <<>> => Head(tickChan) = tickChan[Len(tickChan)]
  BY Zenon, <1>1, LastFacts, RangeTail
<1>3. tickChan[Len(tickChan)] = last /\ Head(tickChan) <= last /\ ti' \in Nat /\ ti' <= last
  BY Zenon, <1>1, <1>2, LastFacts
<1>4. tickChan' = <<>> => ti' = last
  <2>1. SUFFICES ASSUME tickChan' = <<>> PROVE ti' = last
    OBVIOUS
  <2>2. Head(tickChan) = last
    BY Zenon, <1>2, <1>3, <2>1
  <2> QED BY <1>1, <1>2, <2>2, LastFacts
<1>5. ctl' \in {"starting", "started"} /\ ti' = last' => timer' # "off" \/ Ticks!UnderWay(last)'
  <2>1. "armed" # "off"
    OBVIOUS
  <2> QED BY Zenon, <1>1, <2>1, LastFacts DEF Ticks!UnderWay
<1> QED BY Zenon, <1>1, <1>2, <1>3, <1>4, <1>5, LastFacts, LastFrom

\* The timer runs out.
LEMMA LastTimedOut ==
  ASSUME Ticks!LastInv, Ticks!ClosingInv', Ticks!TimedOut
  PROVE  Ticks!LastInv'
<1>1. senders' = Append(senders, ti) /\ UNCHANGED <<ctl, ti, tickChan, tockChan, last, got>>
  BY DEF Ticks!TimedOut
<1>2. senders' \in Seq(Nat) /\ Ticks!Range(senders') = Ticks!Range(senders) \cup {ti}
  BY Zenon, <1>1, LastFacts, RangeAppend
<1>3. ti' = last' => Ticks!UnderWay(last)'
  BY Zenon, <1>1, <1>2 DEF Ticks!UnderWay
<1> QED BY Zenon, <1>1, <1>2, <1>3, LastFacts, LastFrom

\* A timeout goes to tockChan.
LEMMA LastSendTock ==
  ASSUME Ticks!LastInv, Ticks!ClosingInv', Ticks!SendTock
  PROVE  Ticks!LastInv'
<1>1. PICK k \in 1 .. Len(senders) :
        tockChan' = Append(tockChan, senders[k]) /\ senders' = Ticks!Without(senders, k)
  BY DEF Ticks!SendTock
<1>2. UNCHANGED <<ctl, ti, timer, tickChan, last, got>>
  BY DEF Ticks!SendTock
<1>3. /\ senders' \in Seq(Nat) /\ senders[k] \in Nat
      /\ Ticks!Range(senders) = Ticks!Range(senders') \cup {senders[k]}
  BY Zenon, <1>1, LastFacts, RangeWithout
<1>4. tockChan' \in Seq(Nat) /\ Ticks!Range(tockChan') = Ticks!Range(tockChan) \cup {senders[k]}
  BY Zenon, <1>1, <1>3, LastFacts, RangeAppend
<1>5. Ticks!UnderWay(last) => Ticks!UnderWay(last)'
  BY Zenon, <1>2, <1>3, <1>4 DEF Ticks!UnderWay
<1> QED BY Zenon, <1>2, <1>3, <1>4, <1>5, LastFacts, LastFrom

\* A sender gives up.
LEMMA LastAbort ==
  ASSUME Ticks!LastInv, Ticks!ClosingInv', Ticks!Abort
  PROVE  Ticks!LastInv'
<1>1. /\ senders # <<>> /\ senders' = Tail(senders)
      /\ UNCHANGED <<ctl, ti, timer, tickChan, tockChan, last, got>>
  BY DEF Ticks!Abort
<1>2. ctl # "starting" /\ ctl # "started"
  BY DEF Ticks!Abort, Ticks!LastInv, Ticks!ClosingInv
<1>3. senders' \in Seq(Nat) /\ Ticks!Range(senders') \subseteq Ticks!Range(senders)
  BY Zenon, <1>1, LastFacts, RangeTail
<1> QED BY Zenon, <1>1, <1>2, <1>3, LastFacts, LastFrom

\* The handler takes a timeout.
LEMMA LastHandleTock ==
  ASSUME Ticks!LastInv, Ticks!ClosingInv', NEW s \in Ticks!Starts, Ticks!HandleTock(s)
  PROVE  Ticks!LastInv'
<1>1. /\ tockChan # <<>> /\ tockChan' = Tail(tockChan) /\ got' = IF got < Head(tockChan) THEN Head(tockChan) ELSE got
      /\ UNCHANGED <<ctl, ti, timer, tickChan, senders, last>>
  BY DEF Ticks!HandleTock
<1>2. /\ tockChan' \in Seq(Nat) /\ Head(tockChan) \in Nat
      /\ Ticks!Range(tockChan) = Ticks!Range(tockChan') \cup {Head(tockChan)}
  BY Zenon, <1>1, LastFacts, RangeTail
<1>4. got' \in {got, Head(tockChan)} /\ got <= got' /\ Head(tockChan) <= got'
  <2>1. got \in Nat /\ Head(tockChan) \in Nat
    BY Zenon, <1>2, LastFacts
  <2>2. got' = IF got < Head(tockChan) THEN Head(tockChan) ELSE got
    BY Zenon, <1>1
  <2> QED BY <2>1, <2>2
<1>5. got' \in Nat /\ got' <= last
  BY Zenon, <1>2, <1>4, LastFacts
<1>6. got = last \/ Head(tockChan) = last => got' = last
  BY <1>2, <1>4, <1>5, LastFacts
<1>7. Ticks!UnderWay(last) => Ticks!UnderWay(last)'
  BY Zenon, <1>1, <1>2, <1>6 DEF Ticks!UnderWay
<1> QED BY Zenon, <1>1, <1>2, <1>5, <1>7, LastFacts, LastFrom

\* Every step of the ticker.
LEMMA LastStep == ASSUME Ticks!LastInv, [Ticks!Next]_Ticks!vars PROVE Ticks!LastInv'
<1>0. Ticks!ClosingInv'
  BY Zenon, ClosingStep DEF Ticks!LastInv
<1>1. CASE \/ Ticks!StopTimer \/ Ticks!Quit \/ Ticks!CloseTock \/ Ticks!unsubscribeEvents \/ Ticks!Join \/ Ticks!Fire \/ Ticks!vars' = Ticks!vars
           \/ \E s \in Ticks!Starts : Ticks!Begin(s) \/ Ticks!HandleEvent(s) \/ Ticks!Handled(s) \/ Ticks!Return(s)
  <2>1. /\ UNCHANGED <<ti, tickChan, senders, tockChan, last, got>>
        /\ \/ ctl' = ctl /\ timer' = timer
           \/ ctl' = ctl /\ timer' = "fired"
           \/ ctl' # "starting" /\ ctl' # "started"
    BY <1>1 DEF Ticks!StopTimer, Ticks!Quit, Ticks!CloseTock, Ticks!unsubscribeEvents, Ticks!Join, Ticks!Fire, Ticks!Begin, Ticks!HandleEvent,
                Ticks!Handled, Ticks!Return, Ticks!vars, Ticks!ticker
  <2>2. "fired" # "off"
    OBVIOUS
  <2>3. Ticks!UnderWay(last) => Ticks!UnderWay(last)'
    BY Zenon, <2>1 DEF Ticks!UnderWay
  <2> QED BY Zenon, <1>0, <2>1, <2>2, <2>3, LastFacts, LastFrom
<1>2. CASE Ticks!startNewRound
  <2>1. PICK t \in {last, last + 1} : tickChan' = Append(tickChan, t) /\ last' = t
    BY <1>2 DEF Ticks!startNewRound
  <2>2. t \in Nat /\ (t = last \/ t = last + 1)
    BY LastFacts
  <2>3. ctl = "starting" /\ ctl' = "started" /\ UNCHANGED <<ti, got, senders, tockChan, timer>>
    BY <1>2 DEF Ticks!startNewRound
  <2> QED BY Zenon, <1>0, <2>1, <2>2, <2>3, LastScheduled
<1>3. ASSUME NEW s \in Ticks!Starts, Ticks!ScheduleTimeout(s) PROVE Ticks!LastInv'
  <2>1. /\ tickChan' = Append(tickChan, last + 1) /\ last' = last + 1 /\ ctl' = ctl
        /\ UNCHANGED <<ti, got, senders, tockChan, timer>>
    BY <1>3 DEF Ticks!ScheduleTimeout
  <2>2. last + 1 \in Nat
    BY LastFacts
  <2> QED BY Zenon, <1>0, <2>1, <2>2, LastScheduled
<1> QED BY Zenon, <1>0, <1>1, <1>2, <1>3, LastStart, LastTick, LastTimedOut, LastSendTock, LastAbort,
           LastHandleTock DEF Ticks!Next, Ticks!Stop, Ticks!timeoutRoutine, Ticks!handleEvents

\* A new ticker.
LEMMA LastInitOK == ASSUME Ticks!Init PROVE Ticks!LastInv
<1>1. Ticks!ClosingInv
  BY DEF Ticks!Init, Ticks!ClosingInv
<1>2. Ticks!Range(<<>>) = {}
  BY DEF Ticks!Range
<1> QED BY <1>1, <1>2 DEF Ticks!Init, Ticks!LastInv, Ticks!UnderWay

\* What the invariant says of the timer.
LEMMA LastMeans == ASSUME Ticks!LastInv PROVE Ticks!TimerIsForLast
BY Zenon, LastFacts DEF Ticks!TimerIsForLast, Ticks!UnderWay

(***************************************************************************)
(* The timer of a running core is for the last timeout that it scheduled,  *)
(* across stops and restarts (timeoutRoutine, ScheduleTimeout), for any    *)
(* capacity of the channels and any number of timeouts.                    *)
(***************************************************************************)
THEOREM TimerFollowsLast == Ticks!Spec => []Ticks!TimerIsForLast
<1>1. Ticks!Init => Ticks!LastInv
  BY LastInitOK
<1>2. Ticks!LastInv /\ [Ticks!Next]_Ticks!vars => Ticks!LastInv'
  BY LastStep
<1>3. Ticks!LastInv => Ticks!TimerIsForLast
  BY LastMeans
<1> QED BY <1>1, <1>2, <1>3, PTL DEF Ticks!Spec
-----------------------------------------------------------------------------
(* The store of sent messages. *)

CONSTANTS MaxHeight, MaxPlace, Votes, Refused, BatchSize
VARIABLES height, place, saved, asker, requests, replies, reader, wanted, index, posted

Store == INSTANCE CatchUp

\* The types of the store, element by element.
LEMMA PlacesAreNumbers ==
  ASSUME Store!InPlaces, NEW i \in DOMAIN saved
  PROVE  saved[i].place \in Nat /\ i \in Nat /\ i \in 1 .. Len(saved)
<1>1. saved \in Seq([height : Nat, place : Nat])
  BY DEF Store!InPlaces
<1>2. i \in 1 .. Len(saved) /\ i \in Nat
  BY <1>1
<1>3. saved[i] \in [height : Nat, place : Nat]
  BY <1>1, <1>2, ElementOfSeq
<1> QED BY <1>2, <1>3

\* lookup finds a message that is stored.
LEMMA LookupFinds ==
  ASSUME Store!InPlaces, NEW k \in DOMAIN saved
  PROVE  Store!lookup(saved[k].place) = k
<1> DEFINE p == saved[k].place
           hits == { i \in DOMAIN saved : saved[i].place >= p }
<1>1. /\ \A i \in DOMAIN saved : saved[i].place \in Nat /\ i \in Nat
      /\ \A i, j \in DOMAIN saved : i < j => saved[i].place < saved[j].place
  BY Zenon, PlacesAreNumbers DEF Store!InPlaces
<1>2. k \in hits /\ \A j \in hits : k <= j
  BY <1>1
<1>3. Store!lookup(p) = CHOOSE i \in hits : \A j \in hits : i <= j
  BY <1>2 DEF Store!lookup
<1>4. \A i \in hits : i \in Nat
  BY <1>1
<1> HIDE DEF hits, p
<1>5. Store!lookup(p) \in hits /\ \A j \in hits : Store!lookup(p) <= j
  BY Zenon, <1>2, <1>3
<1>6. Store!lookup(p) <= k /\ k <= Store!lookup(p)
  BY Zenon, <1>2, <1>5
<1>7. Store!lookup(p) \in Nat /\ k \in Nat
  BY Zenon, <1>2, <1>4, <1>5
<1> QED BY <1>6, <1>7 DEF p

\* A message is added at the end, or none is.
LEMMA StoreGrows ==
  ASSUME Store!InPlaces, NEW p \in Nat, Store!Send(p)
  PROVE  /\ Store!InPlaces' /\ DOMAIN saved \subseteq DOMAIN saved'
         /\ \A i \in DOMAIN saved : saved'[i] = saved[i]
<1>1. /\ saved \in Seq([height : Nat, place : Nat]) /\ height \in Nat /\ place \in Nat
      /\ \A i \in DOMAIN saved : saved[i].height = height /\ saved[i].place <= place
      /\ \A i, j \in DOMAIN saved : i < j => saved[i].place < saved[j].place
  BY DEF Store!InPlaces
<1>2. place < p /\ place' = p /\ height' = height
  BY DEF Store!Send
<1>5. \A i \in DOMAIN saved : saved[i].place \in Nat
  BY Zenon, PlacesAreNumbers
<1>3. CASE saved' = saved
  <2>1. \A i \in DOMAIN saved : saved[i].place <= p
    BY <1>1, <1>2, <1>5
  <2> QED BY <1>1, <1>2, <1>3, <2>1 DEF Store!InPlaces
<1>4. CASE saved' = Append(saved, Store!Msg(height, p))
  <2>1. Store!Msg(height, p) \in [height : Nat, place : Nat] /\ Store!Msg(height, p).height = height
        /\ Store!Msg(height, p).place = p
    BY <1>1 DEF Store!Msg
  <2> DEFINE m == Store!Msg(height, p)
  <2> HIDE DEF m
  <2>2. /\ saved' \in Seq([height : Nat, place : Nat]) /\ Len(saved) \in Nat
        /\ DOMAIN saved = 1 .. Len(saved) /\ DOMAIN saved' = 1 .. (Len(saved) + 1)
        /\ saved'[Len(saved) + 1] = m /\ \A i \in 1 .. Len(saved) : saved'[i] = saved[i]
    BY <1>1, <1>4, <2>1, AppendProperties DEF m
  <2>3. m.height = height /\ m.place = p
    BY <2>1 DEF m
  <2>4. \A i \in DOMAIN saved' : i \in DOMAIN saved \/ i = Len(saved) + 1
    BY <2>2
  <2>5. \A i \in DOMAIN saved' : saved'[i].height = height' /\ saved'[i].place <= place'
    <3> TAKE i \in DOMAIN saved'
    <3>1. CASE i \in DOMAIN saved
      <4>1. saved'[i] = saved[i] /\ saved[i].place <= place /\ saved[i].height = height /\ saved[i].place \in Nat
        BY Zenon, <1>1, <1>5, <2>2, <3>1
      <4> QED BY <1>1, <1>2, <4>1
    <3>2. CASE i = Len(saved) + 1
      BY <1>2, <2>2, <2>3, <3>2
    <3> QED BY <2>4, <3>1, <3>2
  <2>6. ASSUME NEW i \in DOMAIN saved', NEW j \in DOMAIN saved', i < j
        PROVE  saved'[i].place < saved'[j].place
    <3>0. i \in DOMAIN saved
      BY <2>2, <2>6
    <3>1. saved'[i] = saved[i] /\ saved[i].place <= place /\ saved[i].place \in Nat
      BY Zenon, <1>1, <1>5, <2>2, <3>0
    <3>2. CASE j \in DOMAIN saved
      BY Zenon, <1>1, <2>2, <2>6, <3>0, <3>1, <3>2
    <3>3. CASE j = Len(saved) + 1
      <4>1. saved'[j].place = p
        BY Zenon, <2>2, <2>3, <3>3
      <4>2. saved[i].place < p
        BY <1>1, <1>2, <3>1
      <4> QED BY Zenon, <3>1, <4>1, <4>2
    <3> QED BY <2>4, <3>2, <3>3
  <2>7. p \in Nat
    OBVIOUS
  <2>8. Store!InPlaces'
    BY <1>1, <1>2, <2>2, <2>5, <2>6, <2>7 DEF Store!InPlaces
  <2> QED BY <2>2, <2>8
<1> QED BY <1>3, <1>4 DEF Store!Send, Store!storeSentMsg

\* An empty store, and no reader.
LEMMA ReaderInitOK == ASSUME Store!Init PROVE Store!ReaderInv
BY DEF Store!Init, Store!ReaderInv, Store!InPlaces, Store!Msg

\* What the core stores does not disturb the reader.
LEMMA ReaderSend ==
  ASSUME Store!ReaderInv, NEW p \in Nat, Store!Send(p)
  PROVE  Store!ReaderInv'
<1>1. /\ Store!InPlaces' /\ DOMAIN saved \subseteq DOMAIN saved'
      /\ \A i \in DOMAIN saved : saved'[i] = saved[i]
  BY StoreGrows DEF Store!ReaderInv
<1>2. height' = height /\ UNCHANGED <<reader, wanted, index, posted>>
  BY DEF Store!Send, Store!self
<1> QED BY <1>1, <1>2 DEF Store!ReaderInv

\* The store is emptied, and what the reader wanted is void.
LEMMA ReaderNewHeight ==
  ASSUME Store!ReaderInv, Store!NewHeight
  PROVE  Store!ReaderInv'
<1>1. height' = height + 1 /\ place' = 0 /\ saved' = <<>> /\ UNCHANGED <<reader, wanted, index, posted>>
  BY DEF Store!NewHeight, Store!self
<1>2. Store!InPlaces'
  <2>1. height' \in Nat /\ place' \in Nat
    BY <1>1 DEF Store!ReaderInv, Store!InPlaces
  <2>2. saved' \in Seq([height : Nat, place : Nat]) /\ DOMAIN saved' = {}
    BY <1>1
  <2> QED BY Zenon, <2>1, <2>2 DEF Store!InPlaces
<1>3. wanted' \in [height : Nat, place : Nat] /\ wanted'.height < height'
  BY <1>1 DEF Store!ReaderInv, Store!InPlaces
<1>4. wanted'.height <= height' /\ height' # wanted'.height
  BY <1>1, <1>3 DEF Store!ReaderInv, Store!InPlaces
<1> QED BY <1>1, <1>2, <1>3, <1>4 DEF Store!ReaderInv

\* The steps of the reader.
LEMMA ReaderSteps ==
  ASSUME Store!ReaderInv, Store!Reader
  PROVE  Store!ReaderInv'
<1>1. UNCHANGED <<height, place, saved>>
  BY DEF Store!Reader, Store!SpawnReader, Store!ReaderLooksUp, Store!ReaderChecks, Store!ReaderReads
<1>2. Store!InPlaces' /\ height \in Nat /\ place \in Nat
  BY <1>1 DEF Store!ReaderInv, Store!InPlaces
<1>3. CASE Store!SpawnReader
  <2>1. /\ reader = "none" /\ reader' = "lookup" /\ wanted' = Store!Msg(height, place) /\ posted' = posted
        /\ \E k \in DOMAIN saved : saved[k] = Store!Msg(height, place)
    BY <1>3 DEF Store!SpawnReader
  <2>2. wanted' \in [height : Nat, place : Nat] /\ wanted'.height = height /\ height <= height
    BY <1>2, <2>1 DEF Store!Msg
  <2>3. posted' = {}
    BY <2>1 DEF Store!ReaderInv
  <2> QED BY <1>1, <1>2, <2>1, <2>2, <2>3 DEF Store!ReaderInv
<1>4. CASE Store!ReaderLooksUp
  <2>1. /\ reader = "lookup" /\ index' = Store!lookup(wanted.place) /\ reader' = "check"
        /\ wanted' = wanted /\ posted' = posted
    BY <1>4 DEF Store!ReaderLooksUp
  <2>2. ASSUME height = wanted.height
        PROVE  index' \in DOMAIN saved /\ saved[index'] = wanted
    <3>1. PICK k \in DOMAIN saved : saved[k] = wanted
      BY <2>2 DEF Store!ReaderInv
    <3>2. Store!lookup(saved[k].place) = k
      BY LookupFinds DEF Store!ReaderInv
    <3> QED BY <2>1, <3>1, <3>2
  <2> QED BY <1>1, <1>2, <2>1, <2>2 DEF Store!ReaderInv
<1>5. CASE Store!ReaderChecks
  BY <1>1, <1>2, <1>5 DEF Store!ReaderInv, Store!ReaderChecks
<1>6. CASE Store!ReaderReads
  <2>1. /\ reader = "read" /\ wanted' = wanted /\ index' = index
        /\ \/ index > Len(saved) /\ reader' = "panic" /\ posted' = posted
           \/ reader' = "done" /\ posted' = posted \cup {saved[index]}
    BY <1>6 DEF Store!ReaderReads
  <2>2. posted = {}
    BY <2>1 DEF Store!ReaderInv
  <2>3. ASSUME height = wanted.height
        PROVE  posted' \subseteq {wanted} /\ reader' # "panic"
    <3>1. index \in DOMAIN saved /\ saved[index] = wanted /\ DOMAIN saved = 1 .. Len(saved) /\ Len(saved) \in Nat
      BY <2>1, <2>3 DEF Store!ReaderInv, Store!InPlaces
    <3> QED BY <2>1, <2>2, <3>1
  <2> QED BY <1>1, <1>2, <2>1, <2>3 DEF Store!ReaderInv
<1> QED BY <1>3, <1>4, <1>5, <1>6 DEF Store!Reader

\* Every step of the core and of the reader.
LEMMA ReaderStep ==
  ASSUME Store!CatchUpAssumption, Store!ReaderInv, [Store!Core \/ Store!Reader]_Store!vars
  PROVE  Store!ReaderInv'
<1>1. CASE Store!vars' = Store!vars
  BY <1>1 DEF Store!ReaderInv, Store!InPlaces, Store!vars, Store!self
<1>2. \A p \in 1 .. MaxPlace : p \in Nat
  BY DEF Store!CatchUpAssumption
<1> QED BY Zenon, <1>1, <1>2, ReaderSend, ReaderNewHeight, ReaderSteps DEF Store!Core

(***************************************************************************)
(* While the height lasts, the goroutine that reads the store outside the  *)
(* lock posts the very vote the core misses and does not panic (lookup,    *)
(* get, sendCatchUpRequest), for any number of heights and places.         *)
(***************************************************************************)
THEOREM ReaderPostsItsVote == ASSUME Store!CatchUpAssumption PROVE Store!ReaderSpec => []Store!PostsItsVote
<1>1. Store!Init => Store!ReaderInv
  BY ReaderInitOK
<1>2. Store!ReaderInv /\ [Store!Core \/ Store!Reader]_Store!vars => Store!ReaderInv'
  BY ReaderStep
<1>3. Store!ReaderInv => Store!PostsItsVote
  BY DEF Store!ReaderInv, Store!PostsItsVote
<1> QED BY <1>1, <1>2, <1>3, PTL DEF Store!ReaderSpec
-----------------------------------------------------------------------------
(* Broadcasts. *)

CONSTANTS Tasks, Peers, NumberOf, MaxNumber, MaxSends
VARIABLES task, monitor, abort, finalSub, stopSub, targets, inFlight, successSent, sends,
  finals, stopped, posts

Broadcast == INSTANCE Gossip

\* A peer gets the message and is no target any more.
LEMMA TargetsSend ==
  ASSUME Broadcast!TargetsInv, NEW t \in Tasks, NEW p \in Peers, Broadcast!Send(t, p)
  PROVE  Broadcast!TargetsInv'
<1>1. /\ targets \in [Tasks -> SUBSET Peers] /\ inFlight \in [Tasks -> SUBSET Peers]
      /\ got \in [Tasks -> [Peers -> Nat]]
      /\ \A u \in Tasks : inFlight[u] \subseteq targets[u]
      /\ \A u \in Tasks, q \in Peers : got[u][q] <= 1 /\ (q \in targets[u] => got[u][q] = 0)
  BY DEF Broadcast!TargetsInv
<1>2. p \in inFlight[t] /\ inFlight' = [inFlight EXCEPT ![t] = @ \ {p}] /\ got[t][p] = 0
  BY <1>1 DEF Broadcast!Send
<1>3. CASE UNCHANGED <<got, targets>>
  BY <1>1, <1>2, <1>3 DEF Broadcast!TargetsInv
<1>4. CASE Broadcast!Sent(t, p)
  <2>1. /\ got' = [got EXCEPT ![t][p] = @ + 1] /\ targets' = [targets EXCEPT ![t] = @ \ {p}]
    BY <1>4 DEF Broadcast!Sent
  <2>2. got' \in [Tasks -> [Peers -> Nat]] /\ \A u \in Tasks, q \in Peers :
          got'[u][q] = IF u = t /\ q = p THEN 1 ELSE got[u][q]
    BY <1>1, <1>2, <2>1
  <2>3. /\ targets' \in [Tasks -> SUBSET Peers] /\ inFlight' \in [Tasks -> SUBSET Peers]
        /\ \A u \in Tasks : targets'[u] = IF u = t THEN targets[u] \ {p} ELSE targets[u]
        /\ \A u \in Tasks : inFlight'[u] = IF u = t THEN inFlight[u] \ {p} ELSE inFlight[u]
    BY <1>1, <1>2, <2>1
  <2>4. \A u \in Tasks : inFlight'[u] \subseteq targets'[u]
    BY <1>1, <2>3
  <2>5. \A u \in Tasks, q \in Peers : got'[u][q] <= 1 /\ (q \in targets'[u] => got'[u][q] = 0)
    BY <1>1, <2>2, <2>3
  <2> QED BY <2>2, <2>3, <2>4, <2>5 DEF Broadcast!TargetsInv
<1> QED BY <1>3, <1>4 DEF Broadcast!Send

\* A round begins with targets that are connected.
LEMMA TargetsFind ==
  ASSUME Broadcast!TargetsInv, NEW t \in Tasks, Broadcast!FindPeers(t)
  PROVE  Broadcast!TargetsInv'
<1>1. PICK ps \in SUBSET targets[t] : inFlight' = [inFlight EXCEPT ![t] = ps]
  BY DEF Broadcast!FindPeers
<1>2. targets' = targets /\ got' = got
  BY DEF Broadcast!FindPeers
<1> QED BY <1>1, <1>2 DEF Broadcast!TargetsInv

\* Every step of a broadcast.
LEMMA TargetsStep == ASSUME Broadcast!TargetsInv, [Broadcast!Next]_Broadcast!vars PROVE Broadcast!TargetsInv'
<1>1. CASE \/ Broadcast!PostFinal \/ Broadcast!PostStop \/ (\E e \in posts : Broadcast!Deliver(e)) \/ Broadcast!vars' = Broadcast!vars
           \/ \E t \in Tasks : \/ Broadcast!Subscribe(t) \/ Broadcast!RoundDone(t) \/ Broadcast!Sleep(t) \/ Broadcast!Abort(t)
                               \/ Broadcast!Unsubscribe(t) \/ Broadcast!MonitorEnds(t)
  <2>1. targets' = targets /\ inFlight' = inFlight /\ got' = got
    BY <1>1 DEF Broadcast!PostFinal, Broadcast!PostStop, Broadcast!Deliver, Broadcast!Subscribe, Broadcast!RoundDone, Broadcast!Sleep, Broadcast!Abort, Broadcast!Unsubscribe,
                Broadcast!MonitorEnds, Broadcast!sending, Broadcast!vars
  <2> QED BY <2>1 DEF Broadcast!TargetsInv
<1> QED BY Zenon, <1>1, TargetsSend, TargetsFind DEF Broadcast!Next, Broadcast!Step

(***************************************************************************)
(* A validator that has the message of a broadcast never gets it again     *)
(* (gossip), for any number of broadcasts, validators and attempts.        *)
(***************************************************************************)
THEOREM GossipSendsOnce == Broadcast!Spec => []Broadcast!SentOnce
<1>1. Broadcast!Init => Broadcast!TargetsInv
  BY DEF Broadcast!Init, Broadcast!TargetsInv
<1>2. Broadcast!TargetsInv /\ [Broadcast!Next]_Broadcast!vars => Broadcast!TargetsInv'
  BY TargetsStep
<1>3. Broadcast!TargetsInv => Broadcast!SentOnce
  BY DEF Broadcast!TargetsInv, Broadcast!SentOnce
<1> QED BY <1>1, <1>2, <1>3, PTL DEF Broadcast!Spec
=============================================================================
