----------------------- MODULE ConnectionPingsProofs -----------------------
(***************************************************************************)
(* Where the pings of DriverConnection are: each in one place, and in the  *)
(* order recorded, whatever breaks and whatever the sizes of queue and     *)
(* batch.                                                                  *)
(*                                                                         *)
(* PInv is inductive, together with the types.  It sees queues and         *)
(* channels as sets of pings (Queued, Way) and keeps their order apart     *)
(* (QueuesSorted, ChansOrdered).  A ping moves in five steps only; there   *)
(* is a lemma for what each moves, and one for what that does to PInv.     *)
(***************************************************************************)
EXTENDS DriverConnectionProofs

\* The pings in a sequence of messages, and their order from message to message.
Carried(c) == UNION {PingsOf(c[i]) : i \in DOMAIN c}
Ordered(c) ==
  \A i, j \in DOMAIN c : i < j =>
    \A m \in PingsOf(c[i]) : \A n \in PingsOf(c[j]) : m < n
Sorted(q)  == \A i, j \in DOMAIN q : i < j => q[i] < q[j]

Queued == [p \in Phones |-> ToSet(queue[p])]
Way    == [s \in Sockets |-> Carried(chan[s])]

\* A socket that has never been open has carried nothing.
Fresh ==
  /\ \A s \in Sockets : ready[s] \in {"new", "connecting"} => chan[s] = <<>> /\ got[s] = {}
  /\ \A s \in Sockets : s[2] > made[s[1]] => ready[s] = "new"

\* An open socket leaves nothing in the queue.
QueueIdle == \A p \in Phones : Connected(p) => queue[p] = <<>>

ChansOrdered == \A s \in Sockets : Ordered(chan[s])
QueuesSorted == \A p \in Phones : Sorted(queue[p]) /\ Len(queue[p]) <= MaxBuffer

\* Nothing but recorded pings is anywhere.
Within ==
  /\ \A p \in Phones : Queued[p] \cup lost[p] \cup discarded[p] \subseteq 1 .. recorded[p]
  /\ \A s \in Sockets : Way[s] \cup got[s] \subseteq 1 .. recorded[s[1]]

\* Every recorded ping is somewhere.
Covered ==
  \A p \in Phones : \A n \in 1 .. recorded[p] :
    \/ n \in Queued[p] \cup lost[p] \cup discarded[p]
    \/ \E s \in Sockets : s[1] = p /\ n \in Way[s] \cup got[s]

\* What is gone is nowhere else.
Gone ==
  /\ \A p \in Phones : \A n \in lost[p] : n \notin discarded[p] \cup Queued[p]
  /\ \A p \in Phones : \A n \in discarded[p] : n \notin Queued[p]
  /\ \A s \in Sockets : \A n \in Way[s] \cup got[s] :
       n \notin lost[s[1]] \cup discarded[s[1]]

\* The order from socket to socket, to the queue, and along a socket.
Aligned ==
  /\ \A s, t \in Sockets : s[1] = t[1] /\ s[2] < t[2] =>
       \A m \in Way[s] \cup got[s] : \A n \in Way[t] \cup got[t] : m < n
  /\ \A s \in Sockets :
       /\ \A m \in Way[s] \cup got[s] : \A n \in Queued[s[1]] : m < n
       /\ \A m \in got[s] : \A n \in Way[s] : m < n

PInv ==
  /\ Fresh /\ QueueIdle
  /\ ChansOrdered /\ QueuesSorted
  /\ Within /\ Covered /\ Gone /\ Aligned
-----------------------------------------------------------------------------
(* Sequences of messages. *)

\* A ping appended is carried after the others.
LEMMA AppendCarries ==
  ASSUME NEW c \in Seq(Message), NEW n \in Nat
  PROVE  LET d == Append(c, Batch(<<n>>)) IN
           /\ Carried(d) = Carried(c) \cup {n}
           /\ Ordered(c) /\ (\A m \in Carried(c) : m < n) => Ordered(d)
<1> DEFINE d == Append(c, Batch(<<n>>))
<1>1. Batch(<<n>>) \in Message /\ PingsOf(Batch(<<n>>)) = {n}
  BY DEF Batch, Message, PingsOf, ToSet
<1>2. /\ DOMAIN c = 1 .. Len(c) /\ DOMAIN d = 1 .. Len(c) + 1 /\ Len(c) \in Nat
      /\ \A i \in 1 .. Len(c) : d[i] = c[i]
      /\ d[Len(c) + 1] = Batch(<<n>>)
  BY <1>1
<1> HIDE DEF d
<1>3. Carried(d) = Carried(c) \cup {n}
  BY <1>1, <1>2 DEF Carried
<1>4. ASSUME Ordered(c), \A m \in Carried(c) : m < n
      PROVE  Ordered(d)
  <2> SUFFICES ASSUME NEW i \in 1 .. Len(c) + 1, NEW j \in 1 .. Len(c) + 1, i < j,
                      NEW k \in PingsOf(d[i]), NEW l \in PingsOf(d[j])
               PROVE  k < l
    BY <1>2 DEF Ordered
  <2>1. i \in 1 .. Len(c) /\ d[i] = c[i]
    BY <1>2
  <2>2. CASE j = Len(c) + 1
    BY <1>1, <1>2, <1>4, <2>1, <2>2 DEF Carried
  <2>3. CASE j # Len(c) + 1
    <3>1. j \in 1 .. Len(c) /\ d[j] = c[j]
      BY <1>2, <2>3
    <3> QED
      BY <1>2, <1>4, <2>1, <3>1 DEF Ordered
  <2> QED
    BY <2>2, <2>3
<1> QED
  BY <1>3, <1>4 DEF d

\* What a channel loses at its end came after what it keeps.
LEMMA PrefixCarries ==
  ASSUME NEW c \in Seq(Message), NEW k \in 0 .. Len(c), Ordered(c)
  PROVE  LET d == SubSeq(c, 1, k)
             L == UNION {PingsOf(c[i]) : i \in k + 1 .. Len(c)}
         IN  /\ Ordered(d) /\ Carried(c) = Carried(d) \cup L
             /\ \A m \in Carried(d) : \A n \in L : m < n
<1> DEFINE d == SubSeq(c, 1, k)
           L == UNION {PingsOf(c[i]) : i \in k + 1 .. Len(c)}
<1>1. /\ DOMAIN c = 1 .. Len(c) /\ DOMAIN d = 1 .. k /\ Len(c) \in Nat /\ k \in Nat
      /\ \A i \in 1 .. k : d[i] = c[i] /\ i \in 1 .. Len(c)
  OBVIOUS
<1> HIDE DEF d
<1>2. Ordered(d)
  BY <1>1 DEF Ordered
<1>3. Carried(c) = Carried(d) \cup L
  BY <1>1 DEF Carried
<1>4. \A m \in Carried(d) : \A n \in L : m < n
  <2> SUFFICES ASSUME NEW i \in 1 .. k, NEW m \in PingsOf(c[i]),
                      NEW j \in k + 1 .. Len(c), NEW n \in PingsOf(c[j])
               PROVE  m < n
    BY <1>1 DEF Carried
  <2>1. i \in 1 .. Len(c) /\ j \in 1 .. Len(c) /\ i < j
    BY <1>1
  <2> QED
    BY <1>1, <2>1 DEF Ordered
<1> QED
  BY <1>2, <1>3, <1>4 DEF d

\* The message handled came before what is left.
LEMMA TailCarries ==
  ASSUME NEW c \in Seq(Message), c # <<>>, Ordered(c)
  PROVE  /\ Ordered(Tail(c)) /\ Carried(c) = PingsOf(Head(c)) \cup Carried(Tail(c))
         /\ \A m \in PingsOf(Head(c)) : \A n \in Carried(Tail(c)) : m < n
<1> DEFINE d == Tail(c)
<1>1. /\ DOMAIN c = 1 .. Len(c) /\ DOMAIN d = 1 .. Len(c) - 1 /\ Len(c) \in Nat \ {0}
      /\ \A i \in 1 .. Len(c) - 1 : d[i] = c[i + 1]
      /\ Head(c) = c[1]
  OBVIOUS
<1> HIDE DEF d
<1>2. Ordered(d)
  <2> SUFFICES ASSUME NEW i \in 1 .. Len(c) - 1, NEW j \in 1 .. Len(c) - 1, i < j
               PROVE  \A m \in PingsOf(d[i]) : \A n \in PingsOf(d[j]) : m < n
    BY <1>1 DEF Ordered
  <2>1. i + 1 \in 1 .. Len(c) /\ j + 1 \in 1 .. Len(c) /\ i + 1 < j + 1
    BY <1>1
  <2> QED
    BY <1>1, <2>1 DEF Ordered
<1>3. Carried(c) = PingsOf(c[1]) \cup Carried(d)
  <2>1. ASSUME NEW x \in Carried(c)
        PROVE  x \in PingsOf(c[1]) \cup Carried(d)
    <3>1. PICK i \in 1 .. Len(c) : x \in PingsOf(c[i])
      BY <1>1 DEF Carried
    <3>2. CASE i # 1
      <4>1. i - 1 \in 1 .. Len(c) - 1 /\ d[i - 1] = c[i]
        BY <1>1, <3>2
      <4> QED
        BY <1>1, <3>1, <4>1 DEF Carried
    <3> QED
      BY <3>1, <3>2
  <2>2. ASSUME NEW x \in PingsOf(c[1]) \cup Carried(d)
        PROVE  x \in Carried(c)
    <3>1. CASE x \in PingsOf(c[1])
      BY <1>1, <3>1 DEF Carried
    <3>2. CASE x \in Carried(d)
      <4>1. PICK i \in 1 .. Len(c) - 1 : x \in PingsOf(d[i])
        BY <1>1, <3>2 DEF Carried
      <4>2. i + 1 \in 1 .. Len(c)
        BY <1>1
      <4> QED
        BY <1>1, <4>1, <4>2 DEF Carried
    <3> QED
      BY <2>2, <3>1, <3>2
  <2> QED
    BY <2>1, <2>2
<1>4. \A m \in PingsOf(c[1]) : \A n \in Carried(d) : m < n
  <2> SUFFICES ASSUME NEW m \in PingsOf(c[1]), NEW i \in 1 .. Len(c) - 1, NEW n \in PingsOf(d[i])
               PROVE  m < n
    BY <1>1 DEF Carried
  <2>1. 1 \in 1 .. Len(c) /\ i + 1 \in 1 .. Len(c) /\ 1 < i + 1
    BY <1>1
  <2> QED
    BY <1>1, <2>1 DEF Ordered
<1> QED
  BY <1>1, <1>2, <1>3, <1>4 DEF d

\* Quotients: k numbers in batches of m.
LEMMA Batches ==
  ASSUME NEW m \in Nat \ {0}, NEW k \in Nat
  PROVE  /\ k \div m \in Nat
         /\ m * (k \div m) <= k /\ k < m * (k \div m) + m
OBVIOUS

\* Consecutive multiples are a batch apart.
LEMMA Products ==
  ASSUME NEW m \in Nat \ {0}, NEW i \in Nat, NEW j \in Nat, i < j
  PROVE  i * m + m <= j * m
<1>1. (i + 1) * m <= j * m
  OBVIOUS
<1> QED
  BY <1>1

\* What a batch of a slice of the queue carries.
LEMMA SliceCarries ==
  ASSUME NEW q \in Seq(Nat), NEW b \in Nat, NEW e \in Nat, b <= e, e <= Len(q)
  PROVE  \A x : x \in PingsOf(Batch(SubSeq(q, b + 1, e))) <=>
               \E k \in b + 1 .. e : x = q[k]
<1> DEFINE u == SubSeq(q, b + 1, e)
<1>1. /\ DOMAIN u = 1 .. e - b
      /\ \A k \in 1 .. e - b : u[k] = q[b + k]
  <2>1. \A k \in b + 1 .. e : q[k] \in Nat
    OBVIOUS
  <2>2. u \in Seq(Nat) /\ Len(u) = (IF b + 1 <= e THEN e - (b + 1) + 1 ELSE 0)
        /\ \A k \in 1 .. e - (b + 1) + 1 : u[k] = q[b + 1 + k - 1]
    BY <2>1, SubSeqProperties
  <2> HIDE DEF u
  <2>3. Len(u) = e - b /\ \A k \in 1 .. e - b : u[k] = q[b + k]
    BY <2>2
  <2>4. DOMAIN u = 1 .. Len(u)
    BY <2>2
  <2>5. DOMAIN u = 1 .. e - b
    BY <2>3, <2>4
  <2> QED
    BY <2>3, <2>5
<1>2. PingsOf(Batch(u)) = {u[k] : k \in DOMAIN u}
  BY DEF Batch, PingsOf, ToSet
<1> HIDE DEF u
<1> SUFFICES ASSUME NEW x
             PROVE  x \in PingsOf(Batch(u)) <=> \E k \in b + 1 .. e : x = q[k]
  BY DEF u
<1>3. ASSUME NEW k \in 1 .. e - b, x = u[k]
      PROVE  b + k \in b + 1 .. e /\ x = q[b + k]
  BY <1>1, <1>3
<1>4. ASSUME NEW k \in b + 1 .. e, x = q[k]
      PROVE  k - b \in 1 .. e - b /\ x = u[k - b]
  <2>1. k - b \in 1 .. e - b /\ b + (k - b) = k
    OBVIOUS
  <2> QED
    BY <1>1, <1>4, <2>1
<1> QED
  BY <1>1, <1>2, <1>3, <1>4

\* The queue stays sorted when a newer ping joins it.
LEMMA AppendSorted ==
  ASSUME NEW q \in Seq(Nat), NEW r \in Nat, Sorted(q), \A m \in ToSet(q) : m \in 1 .. r
  PROVE  LET a == Append(q, r + 1) IN
           /\ a \in Seq(Nat) /\ Len(a) = Len(q) + 1
           /\ ToSet(a) = ToSet(q) \cup {r + 1} /\ Sorted(a)
<1> DEFINE a == Append(q, r + 1)
<1>1. /\ a \in Seq(Nat) /\ Len(a) = Len(q) + 1 /\ Len(q) \in Nat
      /\ DOMAIN q = 1 .. Len(q) /\ DOMAIN a = 1 .. Len(q) + 1
      /\ \A i \in 1 .. Len(q) : a[i] = q[i]
      /\ a[Len(q) + 1] = r + 1
  OBVIOUS
<1> HIDE DEF a
<1>2. ToSet(a) = ToSet(q) \cup {r + 1}
  BY <1>1 DEF ToSet
<1>3. ASSUME NEW i \in 1 .. Len(q)
      PROVE  q[i] \in Nat /\ q[i] < r + 1
  <2>1. q[i] \in ToSet(q)
    BY <1>1 DEF ToSet
  <2>2. q[i] \in 1 .. r
    BY <2>1
  <2> QED
    BY <2>2
<1>4. Sorted(a)
  <2> SUFFICES ASSUME NEW i \in 1 .. Len(q) + 1, NEW j \in 1 .. Len(q) + 1, i < j
               PROVE  a[i] < a[j]
    BY <1>1 DEF Sorted
  <2>1. i \in 1 .. Len(q)
    BY <1>1
  <2>2. CASE j = Len(q) + 1
    BY <1>1, <1>3, <2>1, <2>2
  <2>3. CASE j # Len(q) + 1
    <3>1. j \in 1 .. Len(q)
      BY <1>1, <2>3
    <3> QED
      BY <1>1, <2>1, <3>1 DEF Sorted
  <2> QED
    BY <2>2, <2>3
<1> QED
  BY <1>1, <1>2, <1>4 DEF a

\* When it makes room, its first ping goes.
LEMMA ShiftSorted ==
  ASSUME NEW q \in Seq(Nat), NEW r \in Nat, Sorted(q), \A m \in ToSet(q) : m \in 1 .. r,
         q # <<>>
  PROVE  LET a == Append(Tail(q), r + 1) IN
           /\ a \in Seq(Nat) /\ Len(a) = Len(q) /\ Head(q) \in ToSet(q)
           /\ ToSet(a) = (ToSet(q) \ {Head(q)}) \cup {r + 1} /\ Sorted(a)
<1> DEFINE t == Tail(q)
<1>1. /\ t \in Seq(Nat) /\ Len(t) = Len(q) - 1 /\ Len(q) \in Nat \ {0}
      /\ DOMAIN q = 1 .. Len(q) /\ DOMAIN t = 1 .. Len(q) - 1
      /\ \A i \in 1 .. Len(q) - 1 : t[i] = q[i + 1]
      /\ Head(q) = q[1]
      /\ \A i \in 1 .. Len(q) : q[i] \in Nat
  OBVIOUS
<1> HIDE DEF t
<1>2. ASSUME NEW i \in 1 .. Len(q), i # 1
      PROVE  q[1] < q[i] /\ i - 1 \in 1 .. Len(q) - 1 /\ t[i - 1] = q[i]
  <2>1. i - 1 \in 1 .. Len(q) - 1 /\ (i - 1) + 1 = i /\ 1 \in 1 .. Len(q) /\ 1 < i
    BY <1>1, <1>2
  <2> QED
    BY <1>1, <2>1 DEF Sorted
<1>3. Sorted(t)
  <2> SUFFICES ASSUME NEW i \in 1 .. Len(q) - 1, NEW j \in 1 .. Len(q) - 1, i < j
               PROVE  t[i] < t[j]
    BY <1>1 DEF Sorted
  <2>1. i + 1 \in 1 .. Len(q) /\ j + 1 \in 1 .. Len(q) /\ i + 1 < j + 1
    BY <1>1
  <2> QED
    BY <1>1, <2>1 DEF Sorted
<1>4. ToSet(t) = ToSet(q) \ {q[1]}
  <2>1. ASSUME NEW x \in ToSet(t)
        PROVE  x \in ToSet(q) \ {q[1]}
    <3>1. PICK i \in 1 .. Len(q) - 1 : x = t[i]
      BY <1>1 DEF ToSet
    <3>2. i + 1 \in 1 .. Len(q) /\ i + 1 # 1 /\ x = q[i + 1]
      BY <1>1, <3>1
    <3>3. q[1] < x /\ q[1] \in Nat /\ x \in Nat
      BY <1>1, <1>2, <3>2
    <3>4. x \in ToSet(q)
      BY <1>1, <3>2 DEF ToSet
    <3>5. x # q[1]
      BY <3>3
    <3> QED
      BY <3>4, <3>5
  <2>2. ASSUME NEW x \in ToSet(q) \ {q[1]}
        PROVE  x \in ToSet(t)
    <3>1. PICK i \in 1 .. Len(q) : x = q[i]
      BY <1>1 DEF ToSet
    <3> QED
      BY <1>1, <1>2, <2>2, <3>1 DEF ToSet
  <2> QED
    BY <2>1, <2>2
<1>5. \A m \in ToSet(t) : m \in 1 .. r
  BY <1>4
<1>6. q[1] \in ToSet(q)
  BY <1>1 DEF ToSet
<1> DEFINE a == Append(t, r + 1)
<1>7. /\ a \in Seq(Nat) /\ Len(a) = Len(t) + 1
      /\ ToSet(a) = ToSet(t) \cup {r + 1} /\ Sorted(a)
  BY <1>1, <1>3, <1>5, AppendSorted
<1> HIDE DEF a
<1>8. Len(a) = Len(q)
  BY <1>1, <1>7
<1> QED
  BY <1>1, <1>4, <1>6, <1>7, <1>8 DEF a, t

\* Members of slices that follow one another.
LEMMA Between ==
  ASSUME NEW b \in Nat, NEW e \in Nat, NEW c \in Nat, NEW f \in Nat, NEW m \in Nat,
         NEW k \in b + 1 .. e, NEW l \in c + 1 .. f, e <= m, f <= m, e <= c
  PROVE  k \in 1 .. m /\ l \in 1 .. m /\ k < l
OBVIOUS

\* A flush cuts the queue into slices that follow one another.
LEMMA FlushSlices ==
  ASSUME NEW q \in Seq(Nat)
  PROVE  \E N \in Nat : \E B, E :
           /\ Len(Flushed(q)) = N
           /\ \A i \in 1 .. N : Flushed(q)[i] = Batch(SubSeq(q, B[i] + 1, E[i]))
           /\ \A i \in 1 .. N : B[i] \in Nat /\ E[i] \in Nat /\ B[i] <= E[i] /\ E[i] <= Len(q)
           /\ \A i, j \in 1 .. N : i < j => E[i] <= B[j]
           /\ \A k \in 1 .. Len(q) : \E i \in 1 .. N : k \in B[i] + 1 .. E[i]
<1> DEFINE N == (Len(q) + MaxBatch - 1) \div MaxBatch
           B == [i \in 1 .. N |-> (i - 1) * MaxBatch]
           E == [i \in 1 .. N |-> IF i * MaxBatch < Len(q) THEN i * MaxBatch ELSE Len(q)]
<1>0. MaxBatch \in Nat \ {0} /\ Len(q) \in Nat
  BY SizeAssumption
<1>1. /\ N \in Nat
      /\ MaxBatch * N <= Len(q) + MaxBatch - 1 /\ Len(q) + MaxBatch - 1 < MaxBatch * N + MaxBatch
  <2>1. Len(q) + MaxBatch - 1 \in Nat
    BY <1>0
  <2> QED
    BY <1>0, <2>1, Batches
<1>2. /\ Len(Flushed(q)) = N
      /\ \A i \in 1 .. N : Flushed(q)[i] = Batch(SubSeq(q, B[i] + 1, E[i]))
  BY <1>1 DEF Flushed, Drained
<1> HIDE DEF N
<1>3. ASSUME NEW i \in 1 .. N
      PROVE  /\ B[i] = (i - 1) * MaxBatch /\ B[i] \in Nat
             /\ i * MaxBatch = B[i] + MaxBatch
             /\ E[i] = IF i * MaxBatch < Len(q) THEN i * MaxBatch ELSE Len(q)
             /\ B[i] < Len(q) /\ E[i] \in Nat /\ B[i] <= E[i] /\ E[i] <= Len(q)
             /\ E[i] <= i * MaxBatch
  <2>1. i - 1 \in Nat /\ i \in Nat /\ i - 1 < N
    BY <1>1
  <2>2. (i - 1) * MaxBatch \in Nat /\ i * MaxBatch = (i - 1) * MaxBatch + MaxBatch
    BY <1>0, <2>1
  <2>3. (i - 1) * MaxBatch + MaxBatch <= N * MaxBatch
    BY <1>0, <1>1, <2>1, Products
  <2>4. (i - 1) * MaxBatch < Len(q)
    BY <1>0, <1>1, <2>2, <2>3
  <2> QED
    BY <1>0, <2>2, <2>4
<1>4. ASSUME NEW i \in 1 .. N, NEW j \in 1 .. N, i < j
      PROVE  E[i] <= B[j]
  <2>1. i - 1 \in Nat /\ j - 1 \in Nat /\ i - 1 < j - 1
    BY <1>1, <1>4
  <2>2. (i - 1) * MaxBatch + MaxBatch <= (j - 1) * MaxBatch
    BY <1>0, <2>1, Products
  <2>3. B[i] = (i - 1) * MaxBatch /\ B[j] = (j - 1) * MaxBatch
    BY <1>3
  <2>4. B[i] + MaxBatch <= B[j]
    BY <2>2, <2>3
  <2>5. B[i] \in Nat /\ B[j] \in Nat /\ E[i] \in Nat /\ E[i] <= B[i] + MaxBatch
    BY <1>3
  <2> HIDE DEF B, E
  <2> QED
    BY <1>0, <2>4, <2>5
<1>5. ASSUME NEW k \in 1 .. Len(q)
      PROVE  \E i \in 1 .. N : k \in B[i] + 1 .. E[i]
  <2> DEFINE i == (k - 1) \div MaxBatch
  <2>1. i \in Nat /\ MaxBatch * i <= k - 1 /\ k - 1 < MaxBatch * i + MaxBatch
    <3>1. k - 1 \in Nat
      BY <1>0
    <3> QED
      BY <1>0, <3>1, Batches
  <2> HIDE DEF i
  <2>2. i < N
    <3>1. SUFFICES ASSUME N <= i PROVE FALSE
      BY <1>1, <2>1
    <3>2. MaxBatch * N <= MaxBatch * i
      <4>1. CASE N = i
        BY <1>0, <1>1, <4>1
      <4>2. CASE N < i
        BY <1>0, <1>1, <2>1, <4>2, Products
      <4> QED
        BY <1>1, <2>1, <3>1, <4>1, <4>2
    <3> QED
      BY <1>0, <1>1, <2>1, <3>2
  <2>3. /\ i + 1 \in 1 .. N /\ (i + 1) - 1 = i
        /\ (i + 1) * MaxBatch = i * MaxBatch + MaxBatch
        /\ i * MaxBatch \in Nat /\ i * MaxBatch = MaxBatch * i
    BY <1>0, <1>1, <2>1, <2>2
  <2>4. /\ B[i + 1] = i * MaxBatch
        /\ E[i + 1] = IF i * MaxBatch + MaxBatch < Len(q) THEN i * MaxBatch + MaxBatch ELSE Len(q)
    BY <2>3
  <2> HIDE DEF B, E
  <2>5. k \in B[i + 1] + 1 .. E[i + 1]
    BY <1>0, <2>1, <2>3, <2>4
  <2> QED
    BY <2>3, <2>5
<1> HIDE DEF B, E
<1> QED
  BY <1>1, <1>2, <1>3, <1>4, <1>5

\* It carries all of the queue, in its order, after the identification.
LEMMA FlushCarries ==
  ASSUME NEW q \in Seq(Nat), Sorted(q)
  PROVE  LET d == <<Identify>> \o Flushed(q) IN
           d \in Seq(Message) /\ Ordered(d) /\ Carried(d) = ToSet(q)
<1> DEFINE f == Flushed(q)
           d == <<Identify>> \o f
<1>0. Len(q) \in Nat /\ DOMAIN q = 1 .. Len(q) /\ f \in Seq(Message)
  BY FlushedType
<1>1. PICK N \in Nat : \E B, E :
           /\ Len(f) = N
           /\ \A i \in 1 .. N : f[i] = Batch(SubSeq(q, B[i] + 1, E[i]))
           /\ \A i \in 1 .. N : B[i] \in Nat /\ E[i] \in Nat /\ B[i] <= E[i] /\ E[i] <= Len(q)
           /\ \A i, j \in 1 .. N : i < j => E[i] <= B[j]
           /\ \A k \in 1 .. Len(q) : \E i \in 1 .. N : k \in B[i] + 1 .. E[i]
  BY FlushSlices
<1>2. PICK B, E :
           /\ Len(f) = N
           /\ \A i \in 1 .. N : f[i] = Batch(SubSeq(q, B[i] + 1, E[i]))
           /\ \A i \in 1 .. N : B[i] \in Nat /\ E[i] \in Nat /\ B[i] <= E[i] /\ E[i] <= Len(q)
           /\ \A i, j \in 1 .. N : i < j => E[i] <= B[j]
           /\ \A k \in 1 .. Len(q) : \E i \in 1 .. N : k \in B[i] + 1 .. E[i]
  BY <1>1
<1> HIDE DEF f
<1>3. ASSUME NEW i \in 1 .. N
      PROVE  /\ B[i] \in Nat /\ E[i] \in Nat /\ B[i] <= E[i] /\ E[i] <= Len(q)
             /\ \A x : x \in PingsOf(f[i]) <=> \E k \in B[i] + 1 .. E[i] : x = q[k]
  <2>1. f[i] = Batch(SubSeq(q, B[i] + 1, E[i]))
    BY <1>2
  <2>2. B[i] \in Nat /\ E[i] \in Nat /\ B[i] <= E[i] /\ E[i] <= Len(q)
    BY <1>2
  <2>3. \A x : x \in PingsOf(Batch(SubSeq(q, B[i] + 1, E[i]))) <=>
                  \E k \in B[i] + 1 .. E[i] : x = q[k]
    BY <2>2, SliceCarries
  <2> QED
    BY <2>1, <2>2, <2>3
<1>4. /\ DOMAIN d = 1 .. N + 1 /\ d[1] = Identify /\ d \in Seq(Message)
      /\ \A i \in 2 .. N + 1 : d[i] = f[i - 1]
  <2>1. Identify \in Message
    BY DEF Message
  <2> QED
    BY <1>0, <1>2, <2>1
<1> HIDE DEF d
<1>5. PingsOf(Identify) = {}
  BY DEF Identify, PingsOf
<1>6. ASSUME NEW i \in 1 .. N + 1, NEW m \in PingsOf(d[i])
      PROVE  i # 1 /\ i - 1 \in 1 .. N /\ m \in PingsOf(f[i - 1])
  <2>1. i # 1
    BY <1>4, <1>5, <1>6
  <2>2. i \in 2 .. N + 1 /\ i - 1 \in 1 .. N
    BY <2>1
  <2> QED
    BY <1>4, <1>6, <2>1, <2>2
<1>7. Ordered(d)
  <2> SUFFICES ASSUME NEW i \in 1 .. N + 1, NEW j \in 1 .. N + 1, i < j,
                      NEW m \in PingsOf(d[i]), NEW n \in PingsOf(d[j])
               PROVE  m < n
    BY <1>4 DEF Ordered
  <2>1. /\ i - 1 \in 1 .. N /\ j - 1 \in 1 .. N /\ i - 1 < j - 1
        /\ m \in PingsOf(f[i - 1]) /\ n \in PingsOf(f[j - 1])
    <3>1. i - 1 \in 1 .. N /\ m \in PingsOf(f[i - 1])
      BY <1>6
    <3>2. j - 1 \in 1 .. N /\ n \in PingsOf(f[j - 1])
      BY <1>6
    <3> QED
      BY <3>1, <3>2
  <2>2. PICK g \in 1 .. N, h \in 1 .. N : g < h /\ m \in PingsOf(f[g]) /\ n \in PingsOf(f[h])
    BY <2>1
  <2>3. PICK k \in B[g] + 1 .. E[g] : m = q[k]
    BY <1>3, <2>2
  <2>4. PICK l \in B[h] + 1 .. E[h] : n = q[l]
    BY <1>3, <2>2
  <2>5. /\ B[g] \in Nat /\ E[g] \in Nat /\ E[g] <= Len(q)
        /\ B[h] \in Nat /\ E[h] \in Nat /\ E[h] <= Len(q)
        /\ E[g] <= B[h]
    BY <1>2, <1>3, <2>2
  <2>6. k \in 1 .. Len(q) /\ l \in 1 .. Len(q) /\ k < l
    BY <1>0, <2>5, Between, Zenon
  <2> QED
    BY <1>0, <2>3, <2>4, <2>6 DEF Sorted
<1>8. ASSUME NEW x \in Carried(d)
      PROVE  x \in ToSet(q)
  <2>1. PICK i \in 1 .. N + 1 : x \in PingsOf(d[i])
    BY <1>4 DEF Carried
  <2>2. PICK g \in 1 .. N : x \in PingsOf(f[g])
    BY <1>6, <2>1
  <2>3. PICK k \in B[g] + 1 .. E[g] : x = q[k]
    BY <1>3, <2>2
  <2>4. k \in 1 .. Len(q)
    BY <1>0, <1>3
  <2> QED
    BY <1>0, <2>3, <2>4 DEF ToSet
<1>9. ASSUME NEW x \in ToSet(q)
      PROVE  x \in Carried(d)
  <2>1. PICK k \in 1 .. Len(q) : x = q[k]
    BY <1>0 DEF ToSet
  <2>2. PICK i \in 1 .. N : k \in B[i] + 1 .. E[i]
    BY <1>2
  <2>3. x \in PingsOf(f[i])
    BY <1>3, <2>1, <2>2
  <2>4. i + 1 \in 2 .. N + 1 /\ i + 1 \in 1 .. N + 1 /\ (i + 1) - 1 = i
    OBVIOUS
  <2>5. d[i + 1] = f[i]
    BY <1>4, <2>4
  <2> QED
    BY <1>4, <2>3, <2>4, <2>5 DEF Carried
<1> QED
  BY <1>4, <1>7, <1>8, <1>9 DEF d, f
-----------------------------------------------------------------------------
(* What a move of pings does to the four parts of PInv about their places. *)

Places == Within /\ Covered /\ Gone /\ Aligned

\* Sockets are pairs of a phone and a number.
LEMMA SocketType ==
  ASSUME NEW s \in Sockets
  PROVE  s[1] \in Phones /\ s[2] \in Nat /\ s[2] \in 1 .. MaxSockets
BY BoundAssumption DEF Sockets

\* Two sockets of a phone were made one after the other.
LEMMA SocketOrder ==
  ASSUME NEW s \in Sockets, NEW t \in Sockets, s[1] = t[1], s # t
  PROVE  s[2] < t[2] \/ t[2] < s[2]
<1>1. PICK p \in Phones, i \in 1 .. MaxSockets, j \in 1 .. MaxSockets : s = <<p, i>> /\ t = <<p, j>>
  BY DEF Sockets
<1>2. i < j \/ j < i
  BY <1>1
<1> QED
  BY <1>1, <1>2

\* A new ping is lost with the connection.
LEMMA NewPingLost ==
  ASSUME TypePings, Places, NEW p \in Phones,
         recorded' = [recorded EXCEPT ![p] = @ + 1],
         lost' = [lost EXCEPT ![p] = @ \cup {recorded[p] + 1}],
         Queued' = Queued, Way' = Way, UNCHANGED <<got, discarded>>
  PROVE  Places'
<1> USE DEF TypePings, Places
<1>1. Within'
  BY DEF Within
<1>2. Covered'
  BY DEF Covered
<1>3. Gone'
  BY DEF Gone, Within
<1>4. Aligned'
  BY DEF Aligned
<1> QED
  BY <1>1, <1>2, <1>3, <1>4

\* Or it goes out over the newest socket, with nothing queued.
LEMMA NewPingSent ==
  ASSUME TypePings, Places, NEW w \in Sockets,
         recorded' = [recorded EXCEPT ![w[1]] = @ + 1],
         Way' = [s \in Sockets |-> IF s = w THEN Way[s] \cup {recorded[w[1]] + 1} ELSE Way[s]],
         Queued' = Queued, Queued[w[1]] = {}, UNCHANGED <<got, lost, discarded>>,
         \A s \in Sockets : s[1] = w[1] /\ w[2] < s[2] => Way[s] \cup got[s] = {}
  PROVE  Places'
<1> USE DEF TypePings, Places
<1>0. w[1] \in Phones
  BY DEF Sockets
<1>1. Within'
  BY <1>0 DEF Within
<1>2. Covered'
  BY <1>0 DEF Covered
<1>3. Gone'
  BY <1>0 DEF Gone, Within
<1>4. Aligned'
  <2> DEFINE n == recorded[w[1]] + 1
  <2>1. \A s \in Sockets : s[1] = w[1] => \A m \in Way[s] \cup got[s] : m \in Nat /\ m < n
    BY <1>0 DEF Within
  <2>2. /\ \A s \in Sockets : Way'[s] = IF s = w THEN Way[s] \cup {n} ELSE Way[s]
        /\ got' = got /\ Queued' = Queued
    OBVIOUS
  <2> HIDE DEF n
  <2>3. ASSUME NEW s \in Sockets, NEW t \in Sockets, s[1] = t[1], s[2] < t[2],
               NEW k \in Way'[s] \cup got'[s], NEW l \in Way'[t] \cup got'[t]
        PROVE  k < l
    <3>0. s # t /\ s[2] \in Nat /\ t[2] \in Nat
      BY <2>3, SocketType
    <3>1. s # w
      BY <2>2, <2>3, <3>0
    <3>2. k \in Way[s] \cup got[s]
      BY <2>2, <3>1
    <3>3. CASE l \in Way[t] \cup got[t]
      BY <2>3, <3>2, <3>3 DEF Aligned
    <3>4. CASE l \notin Way[t] \cup got[t]
      <4>1. t = w
        BY <2>2, <3>4
      <4>2. Way'[t] = Way[t] \cup {n}
        BY <2>2, <4>1
      <4>3. l = n
        BY <2>2, <3>4, <4>2
      <4> QED
        BY <2>1, <2>3, <3>2, <4>1, <4>3
    <3> QED
      BY <3>3, <3>4
  <2>4. ASSUME NEW s \in Sockets
        PROVE  /\ \A k \in Way'[s] \cup got'[s] : \A l \in Queued'[s[1]] : k < l
               /\ \A k \in got'[s] : \A l \in Way'[s] : k < l
    <3>1. CASE s = w
      <4>1. Way'[s] = Way[s] \cup {n} /\ Queued'[s[1]] = {}
        BY <2>2, <3>1
      <4>2. \A k \in got[s] : \A l \in Way[s] : k < l
        BY DEF Aligned
      <4>3. \A k \in got[s] : k < n
        BY <2>1, <3>1
      <4> QED
        BY <2>2, <4>1, <4>2, <4>3
    <3>2. CASE s # w
      BY <2>2, <3>2 DEF Aligned
    <3> QED
      BY <3>1, <3>2
  <2> QED
    BY <2>3, <2>4 DEF Aligned
<1> QED
  BY <1>1, <1>2, <1>3, <1>4

\* Or it joins the queue, out of which it may push others.
LEMMA NewPingQueued ==
  ASSUME TypePings, Places, NEW p \in Phones,
         recorded' = [recorded EXCEPT ![p] = @ + 1],
         NEW O, O \subseteq Queued[p],
         Queued' = [r \in Phones |-> IF r = p THEN (Queued[p] \ O) \cup {recorded[p] + 1}
                                              ELSE Queued[r]],
         discarded' = [discarded EXCEPT ![p] = @ \cup O],
         Way' = Way, UNCHANGED <<got, lost>>
  PROVE  Places'
<1> USE DEF TypePings, Places
<1>1. Within'
  BY DEF Within
<1>2. Covered'
  BY DEF Covered
<1> DEFINE n == recorded[p] + 1
<1>3. /\ \A s \in Sockets : s[1] = p => \A m \in Way[s] \cup got[s] : m \in Nat /\ m < n
      /\ \A m \in Queued[p] \cup lost[p] \cup discarded[p] : m \in Nat /\ m < n
      /\ n \in Nat
  BY DEF Within
<1>4. /\ \A r \in Phones : Queued'[r] = IF r = p THEN (Queued[p] \ O) \cup {n} ELSE Queued[r]
      /\ \A r \in Phones : discarded'[r] = IF r = p THEN discarded[p] \cup O ELSE discarded[r]
      /\ Way' = Way /\ got' = got /\ lost' = lost
  OBVIOUS
<1> HIDE DEF n
<1>5. ASSUME NEW s \in Sockets, NEW k \in Way[s] \cup got[s], NEW l \in Queued'[s[1]]
      PROVE  k < l
  <2>0. s[1] \in Phones
    BY DEF Sockets
  <2>1. CASE l \in Queued[s[1]]
    BY <2>1 DEF Aligned
  <2>2. CASE l \notin Queued[s[1]]
    <3>1. s[1] = p
      BY <1>4, <2>0, <2>2
    <3>2. Queued'[p] = (Queued[p] \ O) \cup {n}
      BY <1>4
    <3>3. l = n
      BY <2>2, <3>1, <3>2
    <3> QED
      BY <1>3, <3>1, <3>3
  <2> QED
    BY <2>1, <2>2
<1>6. Aligned'
  BY <1>4, <1>5 DEF Aligned
<1>7. ASSUME NEW s \in Sockets, NEW k \in Way[s] \cup got[s]
      PROVE  k \notin lost'[s[1]] \cup discarded'[s[1]]
  <2>0. s[1] \in Phones
    BY DEF Sockets
  <2>1. k \notin lost[s[1]] \cup discarded[s[1]]
    BY DEF Gone
  <2>2. k \notin Queued[s[1]]
    <3>1. k \in Nat /\ (k \in Queued[s[1]] => k < k)
      BY <2>0 DEF Aligned, Within
    <3> QED
      BY <3>1
  <2> QED
    BY <1>4, <2>0, <2>1, <2>2
<1>8. ASSUME NEW r \in Phones
      PROVE  /\ \A k \in lost'[r] : k \notin discarded'[r] \cup Queued'[r]
             /\ \A k \in discarded'[r] : k \notin Queued'[r]
  <2>1. CASE r # p
    BY <1>4, <2>1 DEF Gone
  <2>2. CASE r = p
    <3>1. n \notin lost[p] \cup discarded[p] \cup Queued[p]
      BY <1>3
    <3>2. /\ lost'[p] = lost[p] /\ discarded'[p] = discarded[p] \cup O
          /\ Queued'[p] = (Queued[p] \ O) \cup {n}
      BY <1>4
    <3>3. /\ \A k \in lost[p] : k \notin discarded[p] \cup Queued[p]
          /\ \A k \in discarded[p] : k \notin Queued[p]
      BY DEF Gone
    <3> QED
      BY <2>2, <3>1, <3>2, <3>3, Zenon
  <2> QED
    BY <2>1, <2>2
<1>9. Gone'
  BY <1>4, <1>7, <1>8 DEF Gone
<1> QED
  BY <1>1, <1>2, <1>6, <1>9

\* The queue moves onto the newest socket, which has carried nothing.
LEMMA QueueSent ==
  ASSUME TypePings, Places, NEW w \in Sockets,
         Way[w] = {}, got[w] = {},
         Way' = [s \in Sockets |-> IF s = w THEN Queued[w[1]] ELSE Way[s]],
         Queued' = [r \in Phones |-> IF r = w[1] THEN {} ELSE Queued[r]],
         UNCHANGED <<recorded, got, lost, discarded>>,
         \A s \in Sockets : s[1] = w[1] /\ w[2] < s[2] => Way[s] \cup got[s] = {}
  PROVE  Places'
<1> USE DEF TypePings, Places
<1>0. w[1] \in Phones
  BY DEF Sockets
<1>1. Within'
  BY <1>0 DEF Within
<1>2. Covered'
  <2> SUFFICES ASSUME NEW r \in Phones, NEW n \in 1 .. recorded[r]
               PROVE  \/ n \in Queued'[r] \cup lost[r] \cup discarded[r]
                      \/ \E s \in Sockets : s[1] = r /\ n \in Way'[s] \cup got[s]
    BY DEF Covered
  <2>1. CASE n \in lost[r] \cup discarded[r]
    BY <2>1
  <2>2. CASE n \in Queued[r]
    BY <2>2
  <2>3. ASSUME NEW s \in Sockets, s[1] = r, n \in Way[s] \cup got[s]
        PROVE  n \in Way'[s] \cup got[s]
    BY <2>3
  <2> QED
    BY <2>1, <2>2, <2>3 DEF Covered
<1>3. Gone'
  BY <1>0 DEF Gone
<1>4. Aligned'
  <2>1. /\ \A s \in Sockets : Way'[s] = IF s = w THEN Queued[w[1]] ELSE Way[s]
        /\ \A r \in Phones : Queued'[r] = IF r = w[1] THEN {} ELSE Queued[r]
        /\ got' = got
    OBVIOUS
  <2>2. ASSUME NEW s \in Sockets, NEW t \in Sockets, s[1] = t[1], s[2] < t[2],
               NEW k \in Way'[s] \cup got'[s], NEW l \in Way'[t] \cup got'[t]
        PROVE  k < l
    <3>0. s # t /\ s[2] \in Nat /\ t[2] \in Nat
      BY <2>2, SocketType
    <3>1. s # w
      BY <2>1, <2>2, <3>0
    <3>2. k \in Way[s] \cup got[s]
      BY <2>1, <3>1
    <3>3. CASE t = w
      <4>1. l \in Queued[s[1]]
        BY <2>1, <2>2, <3>3
      <4> QED
        BY <3>2, <4>1 DEF Aligned
    <3>4. CASE t # w
      <4>1. l \in Way[t] \cup got[t]
        BY <2>1, <3>4
      <4> QED
        BY <2>2, <3>2, <4>1 DEF Aligned
    <3> QED
      BY <3>3, <3>4
  <2>3. ASSUME NEW s \in Sockets
        PROVE  /\ \A k \in Way'[s] \cup got'[s] : \A l \in Queued'[s[1]] : k < l
               /\ \A k \in got'[s] : \A l \in Way'[s] : k < l
    <3>0. s[1] \in Phones
      BY DEF Sockets
    <3>1. CASE s = w
      BY <1>0, <2>1, <3>1
    <3>2. CASE s # w
      BY <2>1, <3>0, <3>2 DEF Aligned
    <3> QED
      BY <3>1, <3>2
  <2> QED
    BY <2>2, <2>3 DEF Aligned
<1> QED
  BY <1>1, <1>2, <1>3, <1>4

\* What was on its way over a socket is lost, from some ping on.
LEMMA WayLost ==
  ASSUME TypePings, Places, NEW w \in Sockets, NEW L, L \subseteq Way[w],
         Way' = [s \in Sockets |-> IF s = w THEN Way[s] \ L ELSE Way[s]],
         lost' = [lost EXCEPT ![w[1]] = @ \cup L],
         Queued' = Queued, UNCHANGED <<recorded, got, discarded>>
  PROVE  Places'
<1> USE DEF TypePings, Places
<1>0. w[1] \in Phones
  BY DEF Sockets
<1>1. Within'
  BY <1>0 DEF Within
<1>2. Covered'
  BY <1>0 DEF Covered
<1>3. Gone'
  <2>1. /\ \A s \in Sockets : Way'[s] \subseteq Way[s] /\ (s = w => Way'[s] = Way[s] \ L)
        /\ \A r \in Phones : lost'[r] = IF r = w[1] THEN lost[r] \cup L ELSE lost[r]
        /\ Queued' = Queued /\ got' = got /\ discarded' = discarded
    OBVIOUS
  <2>2. ASSUME NEW k \in L
        PROVE  /\ k \notin Queued[w[1]] \cup discarded[w[1]] \cup got[w]
               /\ \A s \in Sockets : s[1] = w[1] /\ s # w => k \notin Way[s] \cup got[s]
    <3>1. k \in Way[w] /\ k \in Nat /\ k \notin discarded[w[1]]
      BY <1>0 DEF Within, Gone
    <3>2. k \notin Queued[w[1]] \cup got[w]
      <4>1. k \in Queued[w[1]] \cup got[w] => k < k
        BY <3>1 DEF Aligned
      <4> QED
        BY <3>1, <4>1
    <3>3. ASSUME NEW s \in Sockets, s[1] = w[1], s # w, k \in Way[s] \cup got[s]
          PROVE  FALSE
      <4>1. s[2] < w[2] \/ w[2] < s[2]
        BY <3>3, SocketOrder
      <4>2. k < k
        BY <3>1, <3>3, <4>1 DEF Aligned
      <4> QED
        BY <3>1, <4>2
    <3> QED
      BY <3>1, <3>2, <3>3
  <2>3. ASSUME NEW s \in Sockets, NEW k \in Way'[s] \cup got'[s]
        PROVE  k \notin lost'[s[1]] \cup discarded'[s[1]]
    <3>0. s[1] \in Phones
      BY DEF Sockets
    <3>1. k \notin lost[s[1]] \cup discarded[s[1]]
      BY <2>1 DEF Gone
    <3>2. s[1] = w[1] => k \notin L
      BY <2>1, <2>2
    <3> QED
      BY <2>1, <3>0, <3>1, <3>2
  <2>4. ASSUME NEW r \in Phones
        PROVE  /\ \A k \in lost'[r] : k \notin discarded'[r] \cup Queued'[r]
               /\ \A k \in discarded'[r] : k \notin Queued'[r]
    BY <2>1, <2>2 DEF Gone
  <2> QED
    BY <2>3, <2>4 DEF Gone
<1>4. Aligned'
  BY <1>0 DEF Aligned
<1> QED
  BY <1>1, <1>2, <1>3, <1>4

\* The first pings on their way over a socket are ingested.
LEMMA WayIngested ==
  ASSUME TypePings, Places, NEW w \in Sockets, NEW H, H \subseteq Way[w],
         \A m \in H : \A n \in Way[w] \ H : m < n,
         Way' = [s \in Sockets |-> IF s = w THEN Way[s] \ H ELSE Way[s]],
         got' = [got EXCEPT ![w] = @ \cup H],
         Queued' = Queued, UNCHANGED <<recorded, lost, discarded>>
  PROVE  Places'
<1> USE DEF TypePings, Places
<1>0. w[1] \in Phones
  BY DEF Sockets
<1>1. Within'
  BY <1>0 DEF Within
<1>2. Covered'
  <2> SUFFICES ASSUME NEW r \in Phones, NEW n \in 1 .. recorded[r]
               PROVE  \/ n \in Queued[r] \cup lost[r] \cup discarded[r]
                      \/ \E s \in Sockets : s[1] = r /\ n \in Way'[s] \cup got'[s]
    BY DEF Covered
  <2>1. \A s \in Sockets : Way[s] \cup got[s] \subseteq Way'[s] \cup got'[s]
    OBVIOUS
  <2> QED
    BY <2>1 DEF Covered
<1>3. Gone'
  BY <1>0 DEF Gone
<1>4. Aligned'
  BY <1>0 DEF Aligned, Within
<1> QED
  BY <1>1, <1>2, <1>3, <1>4

\* All that was on its way is lost.
LEMMA AllWaysLost ==
  ASSUME TypePings, Places,
         Way' = [s \in Sockets |-> {}],
         lost' = [r \in Phones |-> lost[r] \cup UNION {Way[s] : s \in SocketsOf(r)}],
         Queued' = Queued, UNCHANGED <<recorded, got, discarded>>
  PROVE  Places'
<1> USE DEF TypePings, Places
<1>0. \A r \in Phones : \A s : s \in SocketsOf(r) <=> s \in Sockets /\ s[1] = r
  BY DEF Sockets, SocketsOf
<1>1. Within'
  <2>1. \A r \in Phones : lost'[r] \subseteq 1 .. recorded[r]
    <3>1. \A r \in Phones : \A s \in SocketsOf(r) : Way[s] \subseteq 1 .. recorded[r]
      BY <1>0 DEF Within
    <3>2. \A r \in Phones : lost'[r] = lost[r] \cup UNION {Way[s] : s \in SocketsOf(r)}
      OBVIOUS
    <3> QED
      BY <3>1, <3>2 DEF Within
  <2>2. \A s \in Sockets : Way'[s] = {}
    OBVIOUS
  <2> QED
    BY <2>1, <2>2 DEF Within
<1>2. Covered'
  BY <1>0 DEF Covered
<1>3. Gone'
  <2>1. ASSUME NEW r \in Phones, NEW k \in lost'[r]
        PROVE  k \notin discarded[r] \cup Queued[r] /\ \A t \in SocketsOf(r) : k \notin got[t]
    <3>1. CASE k \in lost[r]
      BY <1>0, <3>1 DEF Gone
    <3>2. CASE k \notin lost[r]
      <4>1. lost'[r] = lost[r] \cup UNION {Way[s] : s \in SocketsOf(r)}
        OBVIOUS
      <4>2. PICK s \in SocketsOf(r) : k \in Way[s]
        BY <3>2, <4>1
      <4>3. s \in Sockets /\ s[1] = r /\ k \in Nat
        BY <1>0, <4>2 DEF Within
      <4>4. k \notin discarded[r]
        BY <4>2, <4>3 DEF Gone
      <4>5. k \notin Queued[r]
        <5>1. k \in Queued[r] => k < k
          BY <4>2, <4>3 DEF Aligned
        <5> QED
          BY <4>3, <5>1
      <4>6. ASSUME NEW t \in SocketsOf(r), k \in got[t]
            PROVE  FALSE
        <5>1. t \in Sockets /\ t[1] = r
          BY <1>0
        <5>2. s = t \/ s[2] < t[2] \/ t[2] < s[2]
          BY <4>3, <5>1, SocketOrder
        <5>3. k < k
          BY <4>2, <4>3, <4>6, <5>1, <5>2 DEF Aligned
        <5> QED
          BY <4>3, <5>3
      <4> QED
        BY <4>4, <4>5, <4>6
    <3> QED
      BY <3>1, <3>2
  <2>2. \A s \in Sockets : Way'[s] = {} /\ s[1] \in Phones /\ s \in SocketsOf(s[1])
    BY DEF Sockets, SocketsOf
  <2> QED
    BY <2>1, <2>2 DEF Gone
<1>4. Aligned'
  BY <1>0 DEF Aligned
<1> QED
  BY <1>1, <1>2, <1>3, <1>4
-----------------------------------------------------------------------------
(* The steps. *)

\* connect takes a socket that has carried nothing.
LEMMA ConnectFresh ==
  ASSUME TypeClient, Fresh, QueueIdle, NEW p \in Phones, Connect(p),
         UNCHANGED <<queue, chan, got>>
  PROVE  (Fresh /\ QueueIdle)'
<1>1. QueueIdle'
  BY ConnectOpensNone DEF QueueIdle
<1>2. CASE Connected(p) \/ Connecting(p)
  BY <1>1, <1>2 DEF Connect, Fresh, socketVars
<1>3. CASE ~ (Connected(p) \/ Connecting(p))
  <2> DEFINE w == <<p, made[p] + 1>>
  <2>1. /\ made[p] < MaxSockets /\ made[p] \in 0 .. MaxSockets /\ MaxSockets \in Nat
        /\ made' = [made EXCEPT ![p] = @ + 1]
        /\ ready' = [ready EXCEPT ![w] = "connecting"]
    BY <1>3, BoundAssumption DEF Connect, TypeClient
  <2>2. w \in Sockets /\ w[1] = p /\ w[2] = made[p] + 1
    BY <2>1 DEF Sockets
  <2>3. ready[w] = "new"
    BY <2>1, <2>2 DEF Fresh
  <2>4. \A s \in Sockets : ready'[s] = IF s = w THEN "connecting" ELSE ready[s]
    BY <2>1 DEF TypeClient
  <2>5. ASSUME NEW s \in Sockets, s[2] > made'[s[1]]
        PROVE  ready'[s] = "new"
    <3>1. s[1] \in Phones /\ s[2] \in Nat
      BY SocketType
    <3>2. made'[s[1]] \in Nat /\ made[s[1]] \in Nat /\ made[s[1]] <= made'[s[1]]
      BY <2>1, <3>1 DEF TypeClient
    <3>3. s # w
      <4>1. made'[p] = made[p] + 1
        BY <2>1 DEF TypeClient
      <4> QED
        BY <2>1, <2>2, <2>5, <4>1
    <3>4. s[2] > made[s[1]]
      BY <2>5, <3>1, <3>2
    <3> QED
      BY <2>4, <3>3, <3>4 DEF Fresh
  <2> HIDE DEF w
  <2>6. ASSUME NEW s \in Sockets, ready'[s] \in {"new", "connecting"}
        PROVE  chan[s] = <<>> /\ got[s] = {}
    BY <2>3, <2>4, <2>6 DEF Fresh
  <2> QED
    BY <1>1, <2>5, <2>6 DEF Fresh
<1> QED
  BY <1>2, <1>3

\* A socket is made before it is used, and the queue is flushed when it opens.
LEMMA FreshStep ==
  ASSUME TypeClient, TypePings, Fresh, QueueIdle, [Next]_vars
  PROVE  (Fresh /\ QueueIdle)'
<1> USE DEF TypeClient, TypePings
<1>1. ASSUME NEW p \in Phones, Mount(p)
      PROVE  (Fresh /\ QueueIdle)'
  BY <1>1, ConnectFresh DEF Mount, pingVars, netVars, backendVars
<1>2. ASSUME NEW p \in Phones, GoOnline(p)
      PROVE  (Fresh /\ QueueIdle)'
  BY <1>2, ConnectFresh DEF GoOnline, pingVars, netVars, backendVars
<1>3. ASSUME NEW p \in Phones, Unmount(p)
      PROVE  (Fresh /\ QueueIdle)'
  <2>1. /\ ws' = [ws EXCEPT ![p] = 0] /\ UNCHANGED <<made, queue, chan, got>>
        /\ \/ ready' = ready
           \/ ws[p] # 0 /\ ready[Ws(p)] # "new" /\ ready' = [ready EXCEPT ![Ws(p)] = "closing"]
    BY <1>3 DEF Unmount, Connected, Connecting, pingVars, netVars, backendVars
  <2>2. ASSUME NEW s \in Sockets
        PROVE  \/ ready'[s] = ready[s]
               \/ ready[s] # "new" /\ ready'[s] = "closing"
    <3>1. CASE ready' = ready
      BY <3>1
    <3>2. CASE ready' # ready /\ s = Ws(p)
      BY <2>1, <3>2
    <3>3. CASE ready' # ready /\ s # Ws(p)
      BY <2>1, <3>3
    <3> QED
      BY <3>1, <3>2, <3>3
  <2>3. Fresh'
    BY <2>1, <2>2 DEF Fresh
  <2>4. ASSUME NEW q \in Phones, Connected(q)'
        PROVE  queue'[q] = <<>>
    <3>1. q # p /\ ws'[q] = ws[q] /\ ws[q] # 0
      BY <2>1, <2>4 DEF Connected
    <3>2. ready[Ws(q)] = "open"
      BY <2>2, <2>4, <3>1, WsSocket DEF Connected, Ws
    <3> QED
      BY <2>1, <3>1, <3>2 DEF QueueIdle, Connected
  <2> QED
    BY <2>3, <2>4 DEF QueueIdle
<1>4. ASSUME NEW p \in Phones, Locate(p)
      PROVE  (Fresh /\ QueueIdle)'
  <2>1. UNCHANGED <<ws, made, ready, got>>
    BY <1>4 DEF Locate, screenVars, phoneVars, socketVars, backendVars
  <2>2. \/ /\ Connected(p) /\ queue' = queue
           /\ \/ chan' = chan
              \/ chan' = [chan EXCEPT ![Ws(p)] = Append(@, Batch(<<recorded[p] + 1>>))]
        \/ /\ ~ Connected(p) /\ chan' = chan
           /\ \A q \in Phones \ {p} : queue'[q] = queue[q]
    BY <1>4 DEF Locate, Enqueue
  <2> QED
    BY <2>1, <2>2 DEF Fresh, QueueIdle, Connected, Ws
<1>5. ASSUME NEW p \in Phones, Opened(p)
      PROVE  (Fresh /\ QueueIdle)'
  <2>1. /\ Connecting(p) /\ UNCHANGED <<ws, made, got>>
        /\ ready' = [ready EXCEPT ![Ws(p)] = "open"]
        /\ chan' = [chan EXCEPT ![Ws(p)] = <<Identify>> \o Flushed(queue[p])]
        /\ queue' = [queue EXCEPT ![p] = <<>>]
    BY <1>5 DEF Opened
  <2>2. Ws(p) \in Sockets /\ ready[Ws(p)] = "connecting"
    BY <2>1, WsSocket DEF Connecting
  <2>3. \A s \in Sockets \ {Ws(p)} : ready'[s] = ready[s] /\ chan'[s] = chan[s]
    BY <2>1
  <2>4. ready'[Ws(p)] = "open"
    BY <2>1, <2>2
  <2>5. Fresh'
    BY <2>1, <2>2, <2>3, <2>4 DEF Fresh
  <2>6. ASSUME NEW q \in Phones, Connected(q)'
        PROVE  queue'[q] = <<>>
    <3>1. CASE q = p
      BY <2>1, <3>1
    <3>2. CASE q # p
      <4>1. ws[q] # 0 /\ ws'[q] = ws[q] /\ Ws(q) \in Sockets /\ Ws(q) # Ws(p)
        BY <2>1, <2>6, <3>2, WsSocket DEF Connected, Ws
      <4>2. Connected(q)
        BY <2>1, <2>3, <2>6, <4>1 DEF Connected, Ws
      <4> QED
        BY <2>1, <3>2, <4>2 DEF QueueIdle
    <3> QED
      BY <3>1, <3>2
  <2> QED
    BY <2>5, <2>6 DEF QueueIdle
<1>6. ASSUME NEW s \in Sockets, OnClose(s), ready[s] # "new",
             UNCHANGED <<ws, made, queue, chan, got>>
      PROVE  (Fresh /\ QueueIdle)'
  BY <1>6 DEF OnClose, Fresh, QueueIdle, Connected, Ws
<1>7. ASSUME NEW p \in Phones, ConnectFails(p)
      PROVE  (Fresh /\ QueueIdle)'
  <2>1. ws[p] # 0 /\ ready[Ws(p)] = "connecting" /\ Ws(p) \in Sockets
    BY <1>7, WsSocket DEF ConnectFails, Connecting
  <2> QED
    BY <1>6, <1>7, <2>1 DEF ConnectFails, pingVars, netVars, backendVars
<1>8. ASSUME NEW p \in Phones, Reconnect(p)
      PROVE  (Fresh /\ QueueIdle)'
  <2>1. CASE p \in mounted
    BY <1>8, <2>1, ConnectFresh DEF Reconnect, pingVars, netVars, backendVars
  <2>2. CASE p \notin mounted
    BY <1>8, <2>2 DEF Reconnect, socketVars, pingVars, netVars, backendVars, Fresh,
        QueueIdle, Connected, Ws
  <2> QED
    BY <2>1, <2>2
<1>9. ASSUME NEW s \in Sockets, Closed(s)
      PROVE  (Fresh /\ QueueIdle)'
  BY <1>6, <1>9 DEF Closed, pingVars, netVars, backendVars
<1>10. ASSUME NEW s \in Sockets, Break(s)
       PROVE  (Fresh /\ QueueIdle)'
  <2>1. /\ ready[s] \in {"open", "closing"} /\ UNCHANGED <<ws, made, ready, queue, got>>
        /\ \A t \in Sockets \ {s} : chan'[t] = chan[t]
    BY <1>10 DEF Break, clientVars, phoneVars, pingVars, socketVars, backendVars
  <2> QED
    BY <2>1 DEF Fresh, QueueIdle, Connected, Ws
<1>11. ASSUME NEW s \in Sockets, Handle(s)
       PROVE  (Fresh /\ QueueIdle)'
  <2>1. /\ chan[s] # <<>> /\ UNCHANGED <<ws, made, ready, queue>>
        /\ \A t \in Sockets \ {s} : chan'[t] = chan[t] /\ got'[t] = got[t]
    BY <1>11 DEF Handle, clientVars, phoneVars, pingVars, socketVars
  <2> QED
    BY <2>1 DEF Fresh, QueueIdle, Connected, Ws
<1>12. ASSUME Down, UNCHANGED <<clientVars, got>>
       PROVE  (Fresh /\ QueueIdle)'
  BY <1>12 DEF Down, clientVars, phoneVars, pingVars, socketVars, Fresh, QueueIdle,
      Connected, Ws
<1>13. CASE UNCHANGED <<ws, made, ready, queue, chan, got>>
  BY <1>13 DEF Fresh, QueueIdle, Connected, Ws
<1> QED
  BY <1>1, <1>2, <1>3, <1>4, <1>5, <1>7, <1>8, <1>9, <1>10, <1>11, <1>12, <1>13
      DEF Next, Screen, GoOffline, GatewayClose, Query, QueryFails, Crash, vars,
      phoneVars, pingVars, socketVars, netVars, backendVars, clientVars

\* The phone's socket is the last: no later one has carried anything.
LEMMA NewestSocket ==
  ASSUME TypeClient, TypePings, Fresh, NEW p \in Phones, ws[p] # 0
  PROVE  /\ Ws(p) \in Sockets /\ Ws(p)[1] = p
         /\ \A s \in Sockets : s[1] = p /\ Ws(p)[2] < s[2] => Way[s] \cup got[s] = {}
<1>1. Ws(p) \in Sockets /\ Ws(p)[1] = p /\ Ws(p)[2] = ws[p] /\ ws[p] = made[p]
  BY WsSocket DEF TypeClient, Ws
<1>2. ASSUME NEW s \in Sockets, s[1] = p, ws[p] < s[2]
      PROVE  Way[s] \cup got[s] = {}
  <2>1. s[2] > made[s[1]] /\ ready[s] = "new"
    BY <1>1, <1>2, SocketType DEF Fresh, TypeClient
  <2>2. chan[s] = <<>> /\ got[s] = {}
    BY <2>1 DEF Fresh
  <2> QED
    BY <2>2 DEF Way, Carried
<1> QED
  BY <1>1, <1>2

\* streamTelemetryPing sends on a connection with nothing queued, or enqueues.
LEMMA LocateMoves ==
  ASSUME TypeClient, TypePings, PInv, NEW p \in Phones, Locate(p)
  PROVE  (ChansOrdered /\ QueuesSorted /\ Places)'
<1> DEFINE n == recorded[p] + 1
<1> USE DEF PInv, TypePings, Places
<1>0. /\ n \in Nat /\ recorded' = [recorded EXCEPT ![p] = @ + 1] /\ UNCHANGED got
      /\ recorded[p] \in Nat /\ queue[p] \in Seq(Nat)
  BY DEF Locate, backendVars
<1>1. CASE Connected(p) /\ Ws(p) \in cut
  <2>1. UNCHANGED <<queue, discarded, chan>> /\ lost' = [lost EXCEPT ![p] = @ \cup {n}]
    BY <1>1 DEF Locate
  <2>2. Queued' = Queued /\ Way' = Way
    BY <2>1 DEF Queued, Way
  <2>3. Places'
    BY <1>0, <2>1, <2>2, NewPingLost
  <2> QED
    BY <2>1, <2>3 DEF ChansOrdered, QueuesSorted
<1>2. CASE Connected(p) /\ Ws(p) \notin cut
  <2> DEFINE w == Ws(p)
  <2>1. /\ UNCHANGED <<queue, discarded, lost>>
        /\ chan' = [chan EXCEPT ![w] = Append(chan[w], Batch(<<n>>))]
    BY <1>2 DEF Locate
  <2>2. /\ w \in Sockets /\ w[1] = p
        /\ \A s \in Sockets : s[1] = p /\ w[2] < s[2] => Way[s] \cup got[s] = {}
    BY <1>2, NewestSocket DEF Connected
  <2>3. queue[p] = <<>>
    BY <1>2 DEF QueueIdle
  <2> HIDE DEF w, n
  <2>4. chan[w] \in Seq(Message) /\ Ordered(chan[w]) /\ Way[w] = Carried(chan[w])
    BY <2>2 DEF ChansOrdered, Way
  <2>5. \A m \in Carried(chan[w]) : m < n
    <3>1. \A m \in Way[w] : m \in 1 .. recorded[p]
      BY <2>2 DEF Within
    <3> QED
      BY <1>0, <2>4, <3>1 DEF n
  <2>6. /\ Carried(Append(chan[w], Batch(<<n>>))) = Way[w] \cup {n}
        /\ Ordered(Append(chan[w], Batch(<<n>>)))
    BY <1>0, <2>4, <2>5, AppendCarries
  <2>7. /\ Way' = [s \in Sockets |-> IF s = w THEN Way[s] \cup {n} ELSE Way[s]]
        /\ ChansOrdered'
    BY <2>1, <2>2, <2>6 DEF Way, ChansOrdered
  <2>8. Queued' = Queued /\ Queued[p] = {}
    BY <2>1, <2>3 DEF Queued, ToSet
  <2>9. Places'
    BY <1>0, <2>1, <2>2, <2>7, <2>8, NewPingSent DEF n
  <2> QED
    BY <2>1, <2>7, <2>9 DEF QueuesSorted
<1>3. CASE ~ Connected(p)
  <2>1. Enqueue(p, n) /\ UNCHANGED <<chan, lost>>
    BY <1>3 DEF Locate
  <2>2. Way' = Way /\ ChansOrdered'
    BY <2>1 DEF Way, ChansOrdered
  <2>3. /\ Sorted(queue[p]) /\ Len(queue[p]) <= MaxBuffer
        /\ \A m \in ToSet(queue[p]) : m \in 1 .. recorded[p]
    BY DEF QueuesSorted, Within, Queued
  <2>4. MaxBuffer \in Nat \ {0}
    BY SizeAssumption
  <2>5. PICK q \in Seq(Nat), O \in SUBSET ToSet(queue[p]) :
          /\ queue' = [queue EXCEPT ![p] = q]
          /\ discarded' = [discarded EXCEPT ![p] = @ \cup O]
          /\ ToSet(q) = (ToSet(queue[p]) \ O) \cup {n}
          /\ Sorted(q) /\ Len(q) <= MaxBuffer
    <3>1. CASE Len(queue[p]) >= MaxBuffer
      <4>1. queue[p] # <<>> /\ Len(queue[p]) = MaxBuffer
        BY <1>0, <2>3, <2>4, <3>1
      <4>2. /\ queue' = [queue EXCEPT ![p] = Append(Tail(queue[p]), n)]
            /\ discarded' = [discarded EXCEPT ![p] = @ \cup {Head(queue[p])}]
        BY <2>1, <3>1 DEF Enqueue
      <4>3. /\ Append(Tail(queue[p]), n) \in Seq(Nat)
            /\ Len(Append(Tail(queue[p]), n)) = Len(queue[p])
            /\ Head(queue[p]) \in ToSet(queue[p])
            /\ ToSet(Append(Tail(queue[p]), n)) = (ToSet(queue[p]) \ {Head(queue[p])}) \cup {n}
            /\ Sorted(Append(Tail(queue[p]), n))
        BY <1>0, <2>3, <4>1, ShiftSorted
      <4>4. Len(Append(Tail(queue[p]), n)) <= MaxBuffer /\ {Head(queue[p])} \in SUBSET ToSet(queue[p])
        BY <2>4, <4>1, <4>3
      <4> HIDE DEF n
      <4> QED
        BY <4>2, <4>3, <4>4, Zenon
    <3>2. CASE ~ (Len(queue[p]) >= MaxBuffer)
      <4>1. queue' = [queue EXCEPT ![p] = Append(queue[p], n)] /\ discarded' = discarded
        BY <2>1, <3>2 DEF Enqueue
      <4>2. /\ Append(queue[p], n) \in Seq(Nat) /\ Len(Append(queue[p], n)) = Len(queue[p]) + 1
            /\ ToSet(Append(queue[p], n)) = ToSet(queue[p]) \cup {n}
            /\ Sorted(Append(queue[p], n))
        BY <1>0, <2>3, AppendSorted
      <4>3. Len(Append(queue[p], n)) <= MaxBuffer
        BY <1>0, <2>3, <2>4, <3>2, <4>2
      <4>4. /\ discarded' = [discarded EXCEPT ![p] = @ \cup {}]
            /\ {} \in SUBSET ToSet(queue[p])
            /\ ToSet(queue[p]) \ {} = ToSet(queue[p])
        BY <4>1
      <4>5. ToSet(Append(queue[p], n)) = (ToSet(queue[p]) \ {}) \cup {n}
        BY <4>2, <4>4
      <4> HIDE DEF n
      <4> QED
        BY <4>1, <4>2, <4>3, <4>4, <4>5, Zenon
    <3> QED
      BY <3>1, <3>2
  <2> HIDE DEF n
  <2>6. /\ Queued' = [r \in Phones |-> IF r = p THEN (Queued[p] \ O) \cup {n} ELSE Queued[r]]
        /\ O \subseteq Queued[p]
    BY <2>5 DEF Queued
  <2>7. Places'
    BY <1>0, <2>1, <2>2, <2>5, <2>6, NewPingQueued DEF n
  <2>8. QueuesSorted'
    BY <2>5 DEF QueuesSorted
  <2> QED
    BY <2>2, <2>7, <2>8
<1> QED
  BY <1>1, <1>2, <1>3

\* onopen sends the queue over a socket newer than any that carried a ping.
LEMMA OpenedMoves ==
  ASSUME TypeClient, TypePings, PInv, NEW p \in Phones, Opened(p)
  PROVE  (ChansOrdered /\ QueuesSorted /\ Places)'
<1> DEFINE w == Ws(p)
           c == <<Identify>> \o Flushed(queue[p])
<1> USE DEF PInv, TypePings, Places
<1>1. /\ ws[p] # 0 /\ ready[w] = "connecting"
      /\ UNCHANGED <<recorded, discarded, lost, got>>
      /\ chan' = [chan EXCEPT ![w] = c]
      /\ queue' = [queue EXCEPT ![p] = <<>>]
  BY DEF Opened, Connecting
<1>2. /\ w \in Sockets /\ w[1] = p
      /\ \A s \in Sockets : s[1] = p /\ w[2] < s[2] => Way[s] \cup got[s] = {}
  BY <1>1, NewestSocket
<1>3. queue[p] \in Seq(Nat) /\ Sorted(queue[p])
  BY DEF QueuesSorted
<1>4. Ordered(c) /\ Carried(c) = ToSet(queue[p])
  BY <1>3, FlushCarries
<1> HIDE DEF w, c
<1>5. chan[w] = <<>> /\ got[w] = {}
  BY <1>1, <1>2 DEF Fresh
<1>6. Way[w] = {}
  BY <1>2, <1>5 DEF Way, Carried
<1>7. /\ Way' = [s \in Sockets |-> IF s = w THEN Queued[p] ELSE Way[s]]
      /\ ChansOrdered'
  BY <1>1, <1>2, <1>4 DEF Way, Queued, ChansOrdered
<1>8. ToSet(<<>>) = {} /\ Sorted(<<>>) /\ Len(<<>>) <= MaxBuffer
  BY SizeAssumption DEF ToSet, Sorted
<1>9. /\ Queued' = [r \in Phones |-> IF r = p THEN {} ELSE Queued[r]]
      /\ QueuesSorted'
  BY <1>1, <1>8 DEF Queued, QueuesSorted
<1>10. Places'
  BY <1>1, <1>2, <1>5, <1>6, <1>7, <1>9, QueueSent
<1> QED
  BY <1>7, <1>9, <1>10

\* A break loses the end of what is on its way.
LEMMA BreakMoves ==
  ASSUME TypePings, PInv, NEW w \in Sockets, Break(w)
  PROVE  (ChansOrdered /\ QueuesSorted /\ Places)'
<1> USE DEF PInv, TypePings, Places
<1>1. PICK k \in 0 .. Len(chan[w]) :
        /\ chan' = [chan EXCEPT ![w] = SubSeq(@, 1, k)]
        /\ lost' = [lost EXCEPT ![w[1]] =
                      @ \cup UNION {PingsOf(chan[w][i]) : i \in k + 1 .. Len(chan[w])}]
  BY DEF Break
<1> DEFINE c == chan[w]
           d == SubSeq(c, 1, k)
           L == UNION {PingsOf(c[i]) : i \in k + 1 .. Len(c)}
<1>2. UNCHANGED <<queue, recorded, discarded, got>>
  BY DEF Break, clientVars, pingVars, backendVars
<1>3. c \in Seq(Message) /\ Ordered(c) /\ Way[w] = Carried(c)
  BY DEF ChansOrdered, Way
<1>4. chan' = [chan EXCEPT ![w] = d] /\ lost' = [lost EXCEPT ![w[1]] = @ \cup L]
  BY <1>1
<1>5. /\ Ordered(d) /\ Carried(c) = Carried(d) \cup L
      /\ \A m \in Carried(d) : \A n \in L : m < n
  BY <1>3, PrefixCarries
<1> HIDE DEF c, d, L
<1>6. Way[w] \subseteq Nat
  BY SocketType DEF Within
<1>7. Carried(d) = Way[w] \ L /\ L \subseteq Way[w]
  <2>1. ASSUME NEW x \in Carried(d), x \in L
        PROVE  FALSE
    <3>1. x \in Nat /\ x < x
      BY <1>3, <1>5, <1>6, <2>1
    <3> QED
      BY <3>1
  <2> QED
    BY <1>3, <1>5, <2>1
<1>8. /\ Way' = [s \in Sockets |-> IF s = w THEN Way[s] \ L ELSE Way[s]]
      /\ ChansOrdered'
  BY <1>4, <1>5, <1>7 DEF Way, ChansOrdered
<1>9. Queued' = Queued /\ QueuesSorted'
  BY <1>2 DEF Queued, QueuesSorted
<1>10. Places'
  BY <1>2, <1>4, <1>7, <1>8, <1>9, WayLost
<1> QED
  BY <1>8, <1>9, <1>10

\* The gateway ingests what arrived first.
LEMMA HandleMoves ==
  ASSUME TypePings, PInv, NEW w \in Sockets, Handle(w)
  PROVE  (ChansOrdered /\ QueuesSorted /\ Places)'
<1> USE DEF PInv, TypePings, Places
<1> DEFINE c == chan[w]
           H == PingsOf(Head(c))
           d == Tail(c)
<1>1. /\ c # <<>> /\ chan' = [chan EXCEPT ![w] = d]
      /\ UNCHANGED <<queue, recorded, discarded, lost>>
  BY DEF Handle, clientVars, pingVars
<1>2. got' = [got EXCEPT ![w] = @ \cup H]
  <2>1. CASE Head(c).op = "pings"
    BY <2>1 DEF Handle
  <2>2. CASE Head(c).op # "pings"
    <3>1. H = {} /\ got' = got
      BY <2>2 DEF Handle, PingsOf
    <3> QED
      BY <3>1
  <2> QED
    BY <2>1, <2>2
<1>3. c \in Seq(Message) /\ Ordered(c) /\ Way[w] = Carried(c)
  BY DEF ChansOrdered, Way
<1>4. /\ Ordered(d) /\ Carried(c) = H \cup Carried(d)
      /\ \A m \in H : \A n \in Carried(d) : m < n
  BY <1>1, <1>3, TailCarries
<1> HIDE DEF c, d, H
<1>5. Way[w] \subseteq Nat
  BY SocketType DEF Within
<1>6. Carried(d) = Way[w] \ H /\ H \subseteq Way[w]
  <2>1. ASSUME NEW x \in Carried(d), x \in H
        PROVE  FALSE
    <3>1. x \in Nat /\ x < x
      BY <1>3, <1>4, <1>5, <2>1
    <3> QED
      BY <3>1
  <2> QED
    BY <1>3, <1>4, <2>1
<1>7. /\ Way' = [s \in Sockets |-> IF s = w THEN Way[s] \ H ELSE Way[s]]
      /\ ChansOrdered'
  BY <1>1, <1>4, <1>6 DEF Way, ChansOrdered
<1>8. Queued' = Queued /\ QueuesSorted'
  BY <1>1 DEF Queued, QueuesSorted
<1>9. \A m \in H : \A n \in Way[w] \ H : m < n
  BY <1>4, <1>6
<1>10. Places'
  BY <1>1, <1>2, <1>6, <1>7, <1>8, <1>9, WayIngested
<1> QED
  BY <1>7, <1>8, <1>10

\* The end of the process loses all that is on its way.
LEMMA DownMoves ==
  ASSUME TypePings, PInv, Down, UNCHANGED <<clientVars, got>>
  PROVE  (ChansOrdered /\ QueuesSorted /\ Places)'
<1> USE DEF PInv, TypePings, Places
<1>1. /\ chan' = [s \in Sockets |-> <<>>]
      /\ lost' = [p \in Phones |-> lost[p] \cup UNION {OnTheWay(s) : s \in SocketsOf(p)}]
      /\ UNCHANGED <<queue, recorded, discarded, got>>
  BY DEF Down, clientVars, pingVars
<1>2. \A s \in Sockets : OnTheWay(s) = Way[s]
  BY DEF OnTheWay, Way, Carried
<1>3. \A p \in Phones : SocketsOf(p) \subseteq Sockets
  BY DEF Sockets, SocketsOf
<1>4. lost' = [p \in Phones |-> lost[p] \cup UNION {Way[s] : s \in SocketsOf(p)}]
  BY <1>1, <1>2, <1>3
<1>5. Way' = [s \in Sockets |-> {}] /\ ChansOrdered'
  BY <1>1 DEF Way, Carried, ChansOrdered, Ordered
<1>6. Queued' = Queued /\ QueuesSorted'
  BY <1>1 DEF Queued, QueuesSorted
<1>7. Places'
  BY <1>1, <1>4, <1>5, <1>6, AllWaysLost
<1> QED
  BY <1>5, <1>6, <1>7

\* No other step moves a ping.
LEMMA MovesStep ==
  ASSUME TypeClient, TypePings, PInv, [Next]_vars
  PROVE  (ChansOrdered /\ QueuesSorted /\ Places)'
<1>1. CASE UNCHANGED <<queue, recorded, chan, got, lost, discarded>>
  <2>1. Queued' = Queued /\ Way' = Way
    BY <1>1 DEF Queued, Way
  <2> QED
    BY <1>1, <2>1 DEF PInv, ChansOrdered, QueuesSorted, Places, Within, Covered, Gone, Aligned
<1>2. ASSUME NEW u \in updates, QueryFails(u)
      PROVE  (ChansOrdered /\ QueuesSorted /\ Places)'
  <2>1. CASE Down
    BY <1>2, <2>1, DownMoves DEF QueryFails
  <2>2. CASE ~ Down
    BY <1>1, <1>2, <2>2 DEF QueryFails, netVars, clientVars, pingVars
  <2> QED
    BY <2>1, <2>2
<1>3. CASE Crash
  BY <1>3, DownMoves DEF Crash
<1> QED
  BY <1>1, <1>2, <1>3, LocateMoves, OpenedMoves, BreakMoves, HandleMoves
      DEF Next, Screen, Mount, GoOnline, GoOffline, Unmount, ConnectFails, Reconnect,
      Closed, GatewayClose, Query, vars, clientVars, pingVars, netVars, backendVars
-----------------------------------------------------------------------------
(* The theorems. *)

\* Nothing is anywhere at the start.
LEMMA PInvInit == Init => PInv
<1> SUFFICES ASSUME Init PROVE PInv
  OBVIOUS
<1> USE DEF Init
<1>1. Queued = [p \in Phones |-> {}] /\ Way = [s \in Sockets |-> {}]
  BY DEF Queued, Way, Carried, ToSet
<1>2. Fresh /\ QueueIdle
  BY DEF Fresh, QueueIdle
<1>3. MaxBuffer \in Nat
  BY SizeAssumption
<1>4. ChansOrdered /\ QueuesSorted
  BY <1>3 DEF ChansOrdered, Ordered, QueuesSorted, Sorted
<1>5. Within /\ Covered /\ Gone /\ Aligned
  BY <1>1, SocketType DEF Within, Covered, Gone, Aligned
<1> QED
  BY <1>2, <1>4, <1>5 DEF PInv

\* Every step preserves the invariant, given the types.
LEMMA PInvStep == IInv /\ PInv /\ [Next]_vars => PInv'
<1> SUFFICES ASSUME IInv, PInv, [Next]_vars PROVE PInv'
  OBVIOUS
<1>1. TypeClient /\ TypePings
  BY DEF IInv
<1>2. (Fresh /\ QueueIdle)'
  BY <1>1, FreshStep DEF PInv
<1>3. (ChansOrdered /\ QueuesSorted /\ Places)'
  BY <1>1, MovesStep
<1> QED
  BY <1>2, <1>3 DEF PInv, Places

\* So it holds throughout.
LEMMA PingInvariance == Spec => []PInv
  BY PInvInit, PInvStep, Invariance, PTL DEF Spec

\* A ping is in one place, and the queue never exceeds MaxBuffer.
LEMMA AccountedFollows == IInv /\ PInv => PingsAccounted
<1> SUFFICES ASSUME TypePings, PInv, NEW p \in Phones
             PROVE  LET P == PingPlaces(p) IN
                      /\ 1 .. recorded[p] = UNION ToSet(P)
                      /\ \A i, j \in DOMAIN P : i # j => P[i] \cap P[j] = {}
                      /\ Len(queue[p]) <= MaxBuffer
  BY DEF PingsAccounted, IInv
<1> USE DEF PInv, TypePings
<1> DEFINE Q == ToSet(queue[p])
           W == UNION {OnTheWay(s) : s \in SocketsOf(p)}
           G == UNION {got[s] : s \in SocketsOf(p)}
           P == PingPlaces(p)
<1>1. Q = Queued[p]
  BY DEF Queued
<1>2. \A s : s \in SocketsOf(p) <=> s \in Sockets /\ s[1] = p
  BY DEF Sockets, SocketsOf
<1>3. \A s \in Sockets : OnTheWay(s) = Way[s]
  BY DEF OnTheWay, Way, Carried
<1>4. P = <<Q, W, G, lost[p], discarded[p]>>
  BY DEF PingPlaces
<1>5. \A n : n \in W <=> \E s \in Sockets : s[1] = p /\ n \in Way[s]
  <2>1. \A s \in SocketsOf(p) : OnTheWay(s) = Way[s]
    BY <1>2, <1>3
  <2>2. W = UNION {Way[s] : s \in SocketsOf(p)}
    BY <2>1, Zenon
  <2>3. \A n : n \in W <=> \E s \in SocketsOf(p) : n \in Way[s]
    BY <2>2
  <2> QED
    BY <1>2, <2>3
<1>6. \A n : n \in G <=> \E s \in Sockets : s[1] = p /\ n \in got[s]
  BY <1>2
<1> HIDE DEF Q, W, G, P
<1>7. Q \cup W \cup G \cup lost[p] \cup discarded[p] = 1 .. recorded[p]
  <2>1. Q \cup W \cup G \cup lost[p] \cup discarded[p] \subseteq 1 .. recorded[p]
    BY <1>1, <1>5, <1>6 DEF Within
  <2>2. 1 .. recorded[p] \subseteq Q \cup W \cup G \cup lost[p] \cup discarded[p]
    BY <1>1, <1>5, <1>6 DEF Covered
  <2> QED
    BY <2>1, <2>2
<1>8. Q \cap lost[p] = {} /\ Q \cap discarded[p] = {} /\ lost[p] \cap discarded[p] = {}
  BY <1>1 DEF Gone
<1>9. (W \cup G) \cap (lost[p] \cup discarded[p]) = {}
  BY <1>5, <1>6 DEF Gone
<1>10. ASSUME NEW n \in W \cup G
       PROVE  n \notin Q
  <2>1. n \in Nat
    BY <1>7
  <2>2. n \in Q => n < n
    BY <1>1, <1>5, <1>6 DEF Aligned
  <2> QED
    BY <2>1, <2>2
<1>11. ASSUME NEW n \in W, n \in G
       PROVE  FALSE
  <2>1. n \in Nat
    BY <1>7
  <2>2. PICK s \in Sockets : s[1] = p /\ n \in Way[s]
    BY <1>5
  <2>3. PICK t \in Sockets : t[1] = p /\ n \in got[t]
    BY <1>6, <1>11
  <2>4. s = t \/ s[2] < t[2] \/ t[2] < s[2]
    BY <2>2, <2>3, SocketOrder
  <2>5. n < n
    BY <2>2, <2>3, <2>4 DEF Aligned
  <2> QED
    BY <2>1, <2>5
<1>12. ToSet(P) = {Q, W, G, lost[p], discarded[p]}
  BY <1>4 DEF ToSet
<1>13. 1 .. recorded[p] = UNION ToSet(P)
  BY <1>7, <1>12
<1>14. \A i, j \in DOMAIN P : i # j => P[i] \cap P[j] = {}
  <2>1. /\ Q \cap W = {} /\ Q \cap G = {} /\ W \cap G = {}
        /\ W \cap lost[p] = {} /\ W \cap discarded[p] = {}
        /\ G \cap lost[p] = {} /\ G \cap discarded[p] = {}
    BY <1>9, <1>10, <1>11
  <2> QED
    BY <1>4, <1>8, <2>1
<1>15. Len(queue[p]) <= MaxBuffer
  BY DEF QueuesSorted
<1> QED
  BY <1>13, <1>14, <1>15 DEF P

\* The order of PInv is that of the property.
LEMMA OrderFollows == IInv /\ PInv => PingsInOrder
<1> SUFFICES ASSUME TypePings, PInv, NEW p \in Phones
             PROVE
    /\ \A s, t \in SocketsOf(p) :
         \A m \in got[s] \cup OnTheWay(s) : \A n \in got[t] \cup OnTheWay(t) :
           s[2] < t[2] => m < n
    /\ \A s \in SocketsOf(p) :
         /\ \A m \in got[s] \cup OnTheWay(s) : \A n \in ToSet(queue[p]) : m < n
         /\ \A m \in got[s] : \A n \in OnTheWay(s) : m < n
         /\ \A i, j \in DOMAIN chan[s] : i < j =>
              \A m \in PingsOf(chan[s][i]) : \A n \in PingsOf(chan[s][j]) : m < n
    /\ \A i, j \in DOMAIN queue[p] : i < j => queue[p][i] < queue[p][j]
  BY DEF PingsInOrder, IInv
<1>1. \A s \in SocketsOf(p) : s \in Sockets /\ s[1] = p
  BY DEF Sockets, SocketsOf
<1>2. \A s \in Sockets : OnTheWay(s) = Way[s]
  BY DEF OnTheWay, Way, Carried
<1>3. ToSet(queue[p]) = Queued[p]
  BY DEF Queued
<1>4. ASSUME NEW s \in SocketsOf(p), NEW t \in SocketsOf(p), s[2] < t[2]
      PROVE  \A m \in got[s] \cup OnTheWay(s) : \A n \in got[t] \cup OnTheWay(t) : m < n
  BY <1>1, <1>2, <1>4 DEF PInv, Aligned
<1>5. ASSUME NEW s \in SocketsOf(p)
      PROVE  /\ \A m \in got[s] \cup OnTheWay(s) : \A n \in ToSet(queue[p]) : m < n
             /\ \A m \in got[s] : \A n \in OnTheWay(s) : m < n
  BY <1>1, <1>2, <1>3 DEF PInv, Aligned
<1>6. \A s \in SocketsOf(p) : Ordered(chan[s])
  BY <1>1 DEF PInv, ChansOrdered
<1>7. Sorted(queue[p])
  BY DEF PInv, QueuesSorted
<1> QED
  BY <1>4, <1>5, <1>6, <1>7 DEF Ordered, Sorted

\* Whatever fails, every ping recorded is in exactly one place: in the queue, on
\* its way, ingested, lost with a connection, or discarded by a full queue.
THEOREM EveryPingAccounted == Spec => []PingsAccounted
  BY Invariance, PingInvariance, AccountedFollows, PTL

\* Reconnecting never reorders: a flush goes out before any live ping, in the
\* order recorded, on a socket newer than all that carried older pings.
THEOREM PingsStayInOrder == Spec => []PingsInOrder
  BY Invariance, PingInvariance, OrderFollows, PTL
=============================================================================
