---------------------------- MODULE QueueProofs ----------------------------
(***************************************************************************)
(* The message queue: its nodes are never lost nor in two places, it       *)
(* implements Channel, and no wakeup is lost.                              *)
(***************************************************************************)
EXTENDS ChannelProofs

-----------------------------------------------------------------------------
(***************************************************************************)
(* Nodes that are linked with each other.                                  *)
(***************************************************************************)

\* The nodes s, each once, are what follows the pointer p through the links nx.
Chain(s, p, nx) ==
  /\ s \in Seq(Node) /\ IsInjective(s)
  /\ p = IF s = <<>> THEN NULL ELSE s[1]
  /\ \A i \in 1 .. Len(s) : nx[s[i]] = IF i < Len(s) THEN s[i + 1] ELSE NULL

\* NULL is no node.
LEMMA NodeFacts == NULL \notin Node /\ Node \subseteq Nat /\ max_msgs \in Nat /\ max_msgs > 0
  BY QueueAssumption DEF Node, NULL

\* Counting from 1.
LEMMA UpTo ==
  ASSUME NEW n \in Nat
  PROVE  IsFiniteSet(1 .. n) /\ Cardinality(1 .. n) = n
<1>1. 1 \in Int /\ n \in Int
  OBVIOUS
<1>2. IsFiniteSet(1 .. n) /\ Cardinality(1 .. n) = IF 1 > n THEN 0 ELSE n - 1 + 1
  BY <1>1, FS_Interval
<1> QED
  BY <1>2

\* A chain is no longer than the pool.
LEMMA ChainLength ==
  ASSUME NEW s \in Seq(Node), IsInjective(s)
  PROVE  Len(s) \in 0 .. max_msgs
<1>1. /\ IsFiniteSet(1 .. Len(s)) /\ Cardinality(1 .. Len(s)) = Len(s)
      /\ IsFiniteSet(1 .. max_msgs) /\ Cardinality(1 .. max_msgs) = max_msgs
  BY NodeFacts, UpTo
<1>2. s \in Injection(1 .. Len(s), Node)
  BY DEF Injection, IsInjective
<1>3. Cardinality(1 .. Len(s)) <= Cardinality(Node)
  BY <1>1, <1>2, FS_Injection DEF Node
<1> QED
  BY <1>1, <1>3, NodeFacts DEF Node

\* The function that Path takes its value from.
Walk(p, nx, f) ==
  f = [i \in Node |-> IF i = 1 THEN p ELSE IF f[i - 1] = NULL THEN NULL ELSE nx[f[i - 1]]]

\* The walk along a chain.
LEMMA WalkChain ==
  ASSUME NEW s, NEW p, NEW nx, Chain(s, p, nx), NEW f
  PROVE  Walk(p, nx, f) <=> f = [i \in Node |-> IF i <= Len(s) THEN s[i] ELSE NULL]
<1> DEFINE w == [i \in Node |-> IF i <= Len(s) THEN s[i] ELSE NULL]
<1>0. /\ s \in Seq(Node) /\ Len(s) \in Nat /\ NULL \notin Node
      /\ \A i \in 1 .. Len(s) : s[i] \in Node
  BY NodeFacts DEF Chain
<1>1. ASSUME NEW i \in Node
      PROVE  w[i] = IF i = 1 THEN p ELSE IF w[i - 1] = NULL THEN NULL ELSE nx[w[i - 1]]
  <2>0. i \in Nat /\ i >= 1
    BY QueueAssumption DEF Node
  <2>1. CASE i = 1
    <3>1. s = <<>> <=> Len(s) = 0
      BY <1>0
    <3> QED
      BY <1>0, <2>0, <2>1, <3>1 DEF Chain
  <2>2. CASE i # 1
    <3>1. i - 1 \in Node /\ w[i - 1] = IF i - 1 <= Len(s) THEN s[i - 1] ELSE NULL
      BY <2>0, <2>2, QueueAssumption DEF Node
    <3>2. CASE i - 1 <= Len(s)
      <4>1. i - 1 \in 1 .. Len(s) /\ w[i - 1] = s[i - 1] /\ w[i - 1] # NULL
        BY <1>0, <2>0, <2>2, <3>1, <3>2
      <4>2. nx[s[i - 1]] = IF i - 1 < Len(s) THEN s[i] ELSE NULL
        BY <4>1, <2>0 DEF Chain
      <4> QED
        BY <1>0, <2>0, <2>2, <4>1, <4>2
    <3>3. CASE ~(i - 1 <= Len(s))
      BY <1>0, <2>0, <2>2, <3>1, <3>3
    <3> QED
      BY <3>2, <3>3
  <2> QED
    BY <2>1, <2>2
<1>2. ASSUME f = w PROVE Walk(p, nx, f)
  <2> HIDE DEF w
  <2>1. w = [i \in Node |-> w[i]]
    BY DEF w
  <2> QED
    BY <1>1, <1>2, <2>1 DEF Walk
<1>3. ASSUME Walk(p, nx, f) PROVE f = w
  <2> DEFINE Bad == {i \in Node : f[i] # w[i]}
  <2>1. /\ f = [i \in Node |-> f[i]]
        /\ \A i \in Node :
             f[i] = IF i = 1 THEN p ELSE IF f[i - 1] = NULL THEN NULL ELSE nx[f[i - 1]]
    BY <1>3 DEF Walk
  <2>2. w = [i \in Node |-> w[i]]
    OBVIOUS
  <2> HIDE DEF w
  <2>3. Bad = {}
    <3> SUFFICES ASSUME Bad # {} PROVE FALSE
      OBVIOUS
    <3>1. PICK n \in Bad : \A k \in Bad : n <= k
      <4>1. Bad \subseteq Nat
        BY NodeFacts
      <4> QED
        BY <4>1, MinFacts
    <3>2. n \in Nat /\ n >= 1 /\ n <= max_msgs
      BY QueueAssumption DEF Node
    <3>3. CASE n = 1
      BY <1>1, <2>1, <3>1, <3>3
    <3>4. CASE n # 1
      <4>1. n - 1 \in Node /\ n - 1 \notin Bad
        BY <3>1, <3>2, <3>4, QueueAssumption DEF Node
      <4>2. f[n - 1] = w[n - 1]
        BY <4>1
      <4> QED
        BY <1>1, <2>1, <3>1, <3>4, <4>2
    <3> QED
      BY <3>3, <3>4
  <2>4. \A i \in Node : f[i] = w[i]
    BY <2>3
  <2> QED
    BY <2>1, <2>2, <2>4
<1> QED
  BY <1>2, <1>3

\* Path, for any links.
Along(p, nx) ==
  LET node[i \in Node] == IF i = 1 THEN p
                          ELSE IF node[i - 1] = NULL THEN NULL ELSE nx[node[i - 1]]
  IN  [i \in 1 .. Cardinality({j \in Node : node[j] # NULL}) |-> node[i]]

\* The paths of the model, now and after a step.
LEMMA Paths ==
  /\ Path(msg_queue_free) = Along(msg_queue_free, next)
  /\ Path(msg_queue_head) = Along(msg_queue_head, next)
  /\ Path(msg_queue_free)' = Along(msg_queue_free', next')
  /\ Path(msg_queue_head)' = Along(msg_queue_head', next')
  BY Zenon DEF Path, Along

\* The path along a chain.
LEMMA ChainPath ==
  ASSUME NEW s, NEW p, NEW nx, Chain(s, p, nx)
  PROVE  Along(p, nx) = s
<1> DEFINE f == CHOOSE f : Walk(p, nx, f)
           w == [i \in Node |-> IF i <= Len(s) THEN s[i] ELSE NULL]
<1>0. /\ s \in Seq(Node) /\ Len(s) \in 0 .. max_msgs /\ NULL \notin Node
      /\ \A i \in 1 .. Len(s) : s[i] \in Node
  BY NodeFacts, ChainLength DEF Chain
<1>1. Along(p, nx) = [i \in 1 .. Cardinality({j \in Node : f[j] # NULL}) |-> f[i]]
  BY Zenon DEF Along, Walk
<1>2. f = w
  <2>1. \E g : Walk(p, nx, g)
    BY WalkChain
  <2>2. Walk(p, nx, f)
    BY <2>1, Zenon
  <2> HIDE DEF f
  <2> QED
    BY <2>2, WalkChain
<1> HIDE DEF f
<1>3. {j \in Node : f[j] # NULL} = 1 .. Len(s)
  BY <1>0, <1>2, QueueAssumption DEF Node
<1>4. Cardinality(1 .. Len(s)) = Len(s)
  BY <1>0, UpTo
<1>5. \A i \in 1 .. Len(s) : f[i] = s[i]
  BY <1>0, <1>2, QueueAssumption DEF Node
<1>6. Along(p, nx) = [i \in 1 .. Len(s) |-> s[i]]
  BY <1>1, <1>3, <1>4, <1>5
<1> QED
  BY <1>0, <1>6

-----------------------------------------------------------------------------
(***************************************************************************)
(* What the calls do to a chain.                                           *)
(***************************************************************************)

\* The links of other nodes do not matter.
LEMMA ChainKept ==
  ASSUME NEW s, NEW p, NEW nx, Chain(s, p, nx), NEW ny,
         \A i \in ToSet(s) : ny[i] = nx[i]
  PROVE  Chain(s, p, ny)
<1>1. \A i \in 1 .. Len(s) : s[i] \in ToSet(s)
  BY DEF Chain, ToSet
<1> QED
  BY <1>1 DEF Chain

\* A chain that begins with NULL is empty.
LEMMA ChainEmpty ==
  ASSUME NEW s, NEW p, NEW nx, Chain(s, p, nx)
  PROVE  p = NULL <=> s = <<>>
<1>1. s # <<>> => s[1] \in Node
  BY DEF Chain
<1> QED
  BY <1>1, NodeFacts DEF Chain

\* NULL begins the empty chain.
LEMMA EmptyChain == \A nx : Chain(<<>>, NULL, nx)
  BY EmptyList DEF Chain

\* The first node is taken out.
LEMMA ChainPop ==
  ASSUME NEW s, NEW p, NEW nx, Chain(s, p, nx), s # <<>>
  PROVE  /\ Chain(Tail(s), nx[p], nx) /\ p = Head(s) /\ p \in Node
         /\ ToSet(Tail(s)) = ToSet(s) \ {p} /\ p \in ToSet(s) /\ Len(Tail(s)) = Len(s) - 1
<1>1. /\ s \in Seq(Node) /\ IsInjective(s) /\ p = s[1] /\ s[1] = Head(s)
      /\ Len(s) \in Nat /\ Len(s) >= 1
  BY DEF Chain
<1> DEFINE r == Tail(s)
<1>2. /\ r \in Seq(Node) /\ IsInjective(r) /\ ToSet(r) = ToSet(s) \ {p}
  BY <1>1, TailFacts
<1>3. /\ Len(r) = Len(s) - 1 /\ \A j \in 1 .. Len(s) - 1 : r[j] = s[j + 1]
  BY <1>1
<1>4. p \in Node /\ p \in ToSet(s)
  BY <1>1, HeadFacts
<1> HIDE DEF r
<1>e. r = <<>> <=> Len(r) = 0
  BY <1>2
<1>5. nx[p] = IF r = <<>> THEN NULL ELSE r[1]
  <2>1. nx[p] = IF 1 < Len(s) THEN s[2] ELSE NULL
    BY <1>1 DEF Chain
  <2> QED
    BY <1>1, <1>3, <1>e, <2>1
<1>6. ASSUME NEW i \in 1 .. Len(r)
      PROVE  nx[r[i]] = IF i < Len(r) THEN r[i + 1] ELSE NULL
  <2>1. /\ i + 1 \in 1 .. Len(s) /\ r[i] = s[i + 1] /\ i \in Nat
        /\ i < Len(r) <=> i + 1 < Len(s)
        /\ i < Len(r) => r[i + 1] = s[i + 2]
    BY <1>1, <1>3
  <2>2. nx[s[i + 1]] = IF i + 1 < Len(s) THEN s[i + 2] ELSE NULL
    BY <2>1 DEF Chain
  <2> QED
    BY <2>1, <2>2
<1> QED
  BY <1>1, <1>2, <1>3, <1>4, <1>5, <1>6 DEF Chain, r

\* A node is put in front.
LEMMA ChainPush ==
  ASSUME NEW s, NEW p, NEW nx, Chain(s, p, nx), NEW x \in Node, x \notin ToSet(s),
         NEW ny, ny[x] = p, \A i \in ToSet(s) : ny[i] = nx[i]
  PROVE  /\ Chain(<<x>> \o s, x, ny) /\ ToSet(<<x>> \o s) = ToSet(s) \cup {x}
         /\ Len(<<x>> \o s) = Len(s) + 1
<1> DEFINE r == <<x>> \o s
<1>1. /\ s \in Seq(Node) /\ IsInjective(s) /\ Len(s) \in Nat
      /\ p = IF s = <<>> THEN NULL ELSE s[1]
      /\ s = <<>> <=> Len(s) = 0
  BY DEF Chain
<1>2. r \in Seq(Node) /\ IsInjective(r) /\ ToSet(r) = ToSet(s) \cup {x}
  BY <1>1, ConsFacts
<1>3. /\ Len(r) = Len(s) + 1 /\ r[1] = x /\ r # <<>>
      /\ \A j \in 2 .. Len(s) + 1 : r[j] = s[j - 1]
      /\ \A j \in 1 .. Len(s) : r[j + 1] = s[j]
  BY <1>1
<1> HIDE DEF r
<1>4. Chain(s, p, ny)
  BY ChainKept
<1>5. ASSUME NEW i \in 1 .. Len(r)
      PROVE  ny[r[i]] = IF i < Len(r) THEN r[i + 1] ELSE NULL
  <2>1. CASE i = 1
    BY <1>1, <1>3, <2>1
  <2>2. CASE i # 1
    <3>1. /\ i - 1 \in 1 .. Len(s) /\ r[i] = s[i - 1] /\ i \in Nat
          /\ i < Len(r) <=> i - 1 < Len(s)
          /\ i < Len(r) => r[i + 1] = s[i]
      BY <1>1, <1>3, <2>2
    <3>2. ny[s[i - 1]] = IF i - 1 < Len(s) THEN s[i] ELSE NULL
      BY <1>4, <3>1 DEF Chain
    <3> QED
      BY <3>1, <3>2
  <2> QED
    BY <2>1, <2>2
<1> QED
  BY <1>2, <1>3, <1>5 DEF Chain, r

\* A node is put behind the last one.
LEMMA ChainAppend ==
  ASSUME NEW s, NEW p, NEW nx, Chain(s, p, nx), NEW x \in Node, x \notin ToSet(s),
         NEW ny, ny[x] = NULL,
         s # <<>> => ny[s[Len(s)]] = x,
         \A i \in ToSet(s) : s # <<>> /\ i # s[Len(s)] => ny[i] = nx[i]
  PROVE  /\ Chain(Append(s, x), IF p = NULL THEN x ELSE p, ny)
         /\ ToSet(Append(s, x)) = ToSet(s) \cup {x}
         /\ Len(Append(s, x)) = Len(s) + 1
<1> DEFINE r == Append(s, x)
<1>1. /\ s \in Seq(Node) /\ IsInjective(s) /\ Len(s) \in Nat
      /\ p = IF s = <<>> THEN NULL ELSE s[1]
      /\ s = <<>> <=> Len(s) = 0
      /\ p = NULL <=> s = <<>>
  BY ChainEmpty DEF Chain
<1>2. /\ r \in Seq(Node) /\ IsInjective(r) /\ ToSet(r) = ToSet(s) \cup {x}
      /\ r # <<>>
  BY <1>1, AppendFacts
<1>3. /\ Len(r) = Len(s) + 1 /\ r[Len(s) + 1] = x
      /\ \A j \in 1 .. Len(s) : r[j] = s[j]
  BY <1>1
<1> HIDE DEF r
<1>4. ASSUME NEW i \in 1 .. Len(r)
      PROVE  ny[r[i]] = IF i < Len(r) THEN r[i + 1] ELSE NULL
  <2>1. CASE i = Len(s) + 1
    BY <1>1, <1>3, <2>1
  <2>2. CASE i = Len(s)
    BY <1>1, <1>3, <2>2
  <2>3. CASE i < Len(s)
    <3>1. /\ i \in 1 .. Len(s) /\ i + 1 \in 1 .. Len(s) /\ s # <<>> /\ Len(s) \in 1 .. Len(s)
          /\ r[i] = s[i] /\ r[i + 1] = s[i + 1] /\ i < Len(r) /\ i # Len(s)
      BY <1>1, <1>3, <2>3
    <3>2. s[i] # s[Len(s)] /\ s[i] \in ToSet(s)
      BY <1>1, <3>1 DEF IsInjective, ToSet
    <3>3. ny[s[i]] = nx[s[i]] /\ nx[s[i]] = s[i + 1]
      BY <2>3, <3>1, <3>2 DEF Chain
    <3> QED
      BY <3>1, <3>3
  <2> QED
    BY <1>1, <1>3, <2>1, <2>2, <2>3
<1>5. (IF p = NULL THEN x ELSE p) = r[1]
  BY <1>1, <1>3
<1> QED
  BY <1>2, <1>3, <1>4, <1>5 DEF Chain, r

\* The nodes of q are pushed, one after the other, on the chain f.
LEMMA ChainReset ==
  ASSUME NEW f, NEW q, NEW p, NEW nx, Chain(f, p, nx), q \in Seq(Node), IsInjective(q),
         ToSet(f) \cap ToSet(q) = {}, NEW ny,
         \A k \in 1 .. Len(q) : ny[q[k]] = IF k = 1 THEN p ELSE q[k - 1],
         \A i \in ToSet(f) : ny[i] = nx[i]
  PROVE  \E r : /\ Chain(r, IF q = <<>> THEN p ELSE q[Len(q)], ny)
                /\ ToSet(r) = ToSet(f) \cup ToSet(q)
                /\ Len(r) = Len(f) + Len(q)
<1>0. /\ f \in Seq(Node) /\ Len(f) \in Nat /\ Len(q) \in Nat
      /\ p = IF f = <<>> THEN NULL ELSE f[1]
      /\ f = <<>> <=> Len(f) = 0
      /\ q = <<>> <=> Len(q) = 0
      /\ \A j, k \in 1 .. Len(f) : f[j] = f[k] => j = k
      /\ \A j, k \in 1 .. Len(q) : q[j] = q[k] => j = k
  BY DEF Chain, IsInjective
<1>1. Chain(f, p, ny)
  BY ChainKept
<1>2. PICK n \in Nat, m \in Nat : n = Len(q) /\ m = Len(f)
  BY <1>0
<1> DEFINE r == [i \in 1 .. n + m |-> IF i <= n THEN q[n + 1 - i] ELSE f[i - n]]
<1>3. /\ \A i \in 1 .. n : r[i] = q[n + 1 - i] /\ n + 1 - i \in 1 .. n
      /\ \A i \in n + 1 .. n + m : r[i] = f[i - n] /\ i - n \in 1 .. m
  BY <1>2
<1>4. \A i \in 1 .. n + m : r[i] \in Node
  BY <1>0, <1>2, <1>3
<1>5. r \in Seq(Node) /\ Len(r) = n + m /\ DOMAIN r = 1 .. n + m
  BY <1>2, <1>4
<1> HIDE DEF r
<1>6. \A j \in 1 .. n, k \in 1 .. m : q[j] # f[k]
  <2>1. \A j \in 1 .. n : q[j] \in ToSet(q)
    BY <1>2 DEF ToSet
  <2>2. \A k \in 1 .. m : f[k] \in ToSet(f)
    BY <1>0, <1>2 DEF ToSet
  <2> QED
    BY <2>1, <2>2
<1>7. IsInjective(r)
  <2>1. ASSUME NEW j \in 1 .. n + m, NEW k \in 1 .. n + m, r[j] = r[k] PROVE j = k
    <3>1. CASE j <= n /\ k <= n
      <4>1. j \in 1 .. n /\ k \in 1 .. n
        BY <1>2, <3>1
      <4>2. /\ n + 1 - j \in 1 .. Len(q) /\ n + 1 - k \in 1 .. Len(q)
            /\ q[n + 1 - j] = q[n + 1 - k]
        BY <1>2, <1>3, <2>1, <4>1
      <4>3. n + 1 - j = n + 1 - k
        BY <1>0, <4>2
      <4> QED
        BY <1>2, <4>1, <4>3
    <3>2. CASE j > n /\ k > n
      <4>1. j \in n + 1 .. n + m /\ k \in n + 1 .. n + m
        BY <1>2, <3>2
      <4>2. j - n \in 1 .. Len(f) /\ k - n \in 1 .. Len(f) /\ f[j - n] = f[k - n]
        BY <1>2, <1>3, <2>1, <4>1
      <4>3. j - n = k - n
        BY <1>0, <4>2
      <4> QED
        BY <1>2, <4>1, <4>3
    <3>3. CASE j <= n /\ k > n
      <4>1. j \in 1 .. n /\ k \in n + 1 .. n + m
        BY <1>2, <3>3
      <4> QED
        BY <1>3, <1>6, <2>1, <4>1
    <3>4. CASE j > n /\ k <= n
      <4>1. k \in 1 .. n /\ j \in n + 1 .. n + m
        BY <1>2, <3>4
      <4> QED
        BY <1>3, <1>6, <2>1, <4>1
    <3> QED
      BY <1>2, <3>1, <3>2, <3>3, <3>4
  <2> QED
    BY <1>5, <2>1 DEF IsInjective
<1>8. ToSet(r) = ToSet(f) \cup ToSet(q)
  <2>0. /\ ToSet(r) = {r[i] : i \in 1 .. n + m} /\ ToSet(f) = {f[i] : i \in 1 .. m}
        /\ ToSet(q) = {q[i] : i \in 1 .. n}
    <3>1. DOMAIN f = 1 .. m /\ DOMAIN q = 1 .. n
      BY <1>0, <1>2
    <3> QED
      BY <1>5, <3>1, Zenon DEF ToSet
  <2>1. ASSUME NEW i \in 1 .. n + m PROVE r[i] \in ToSet(f) \cup ToSet(q)
    <3>1. i \in 1 .. n \/ i \in n + 1 .. n + m
      BY <1>2
    <3> QED
      BY <1>3, <2>0, <3>1
  <2>2. ASSUME NEW k \in 1 .. n PROVE q[k] \in ToSet(r)
    <3>1. n + 1 - k \in 1 .. n /\ n + 1 - k \in 1 .. n + m /\ n + 1 - (n + 1 - k) = k
      BY <1>2
    <3>2. r[n + 1 - k] = q[k]
      BY <1>3, <3>1
    <3> QED
      BY <2>0, <3>1, <3>2
  <2>3. ASSUME NEW k \in 1 .. m PROVE f[k] \in ToSet(r)
    <3>1. n + k \in n + 1 .. n + m /\ n + k \in 1 .. n + m /\ n + k - n = k
      BY <1>2
    <3>2. r[n + k] = f[k]
      BY <1>3, <3>1
    <3> QED
      BY <2>0, <3>1, <3>2
  <2>4. ASSUME NEW x \in ToSet(r) PROVE x \in ToSet(f) \cup ToSet(q)
    <3>1. PICK i \in 1 .. n + m : x = r[i]
      BY <1>5 DEF ToSet
    <3> QED
      BY <2>1, <3>1
  <2>5. ToSet(q) \subseteq ToSet(r) /\ ToSet(f) \subseteq ToSet(r)
    BY <2>0, <2>2, <2>3
  <2> QED
    BY <2>4, <2>5
<1>9. ASSUME NEW i \in 1 .. n + m
      PROVE  ny[r[i]] = IF i < n + m THEN r[i + 1] ELSE NULL
  <2>1. CASE i < n
    <3>0. i \in 1 .. n /\ i + 1 \in 1 .. n /\ n + 1 - i # 1 /\ i < n + m
      BY <1>2, <2>1
    <3>1. /\ r[i] = q[n + 1 - i] /\ r[i + 1] = q[n + 1 - (i + 1)] /\ n + 1 - i \in 1 .. n
          /\ n + 1 - i # 1 /\ (n + 1 - i) - 1 = n + 1 - (i + 1) /\ i < n + m
      BY <1>2, <1>3, <3>0
    <3> QED
      BY <1>2, <3>1
  <2>2. CASE i = n
    <3>1. r[i] = q[1] /\ 1 \in 1 .. n /\ ny[q[1]] = p
      BY <1>2, <1>3, <2>2
    <3>2. CASE m = 0
      BY <1>0, <1>2, <2>2, <3>1, <3>2
    <3>3. CASE m # 0
      <4>1. i < n + m /\ i + 1 \in n + 1 .. n + m /\ i + 1 - n = 1 /\ r[i + 1] = f[1]
        BY <1>2, <1>3, <2>2, <3>3
      <4> QED
        BY <1>0, <1>2, <3>1, <3>3, <4>1
    <3> QED
      BY <3>2, <3>3
  <2>3. CASE i > n
    <3>0. /\ i \in n + 1 .. n + m
          /\ i < n + m <=> i - n < m
          /\ i < n + m => i + 1 \in n + 1 .. n + m
          /\ i + 1 - n = i - n + 1
      BY <1>2, <2>3
    <3>1. /\ r[i] = f[i - n] /\ i - n \in 1 .. m
          /\ i < n + m <=> i - n < m
          /\ i < n + m => r[i + 1] = f[i - n + 1]
      BY <1>3, <3>0
    <3>2. ny[f[i - n]] = IF i - n < m THEN f[i - n + 1] ELSE NULL
      BY <1>1, <1>2, <3>1 DEF Chain
    <3> QED
      BY <3>1, <3>2
  <2> QED
    BY <1>2, <2>1, <2>2, <2>3
<1>10. (IF q = <<>> THEN p ELSE q[Len(q)]) = IF r = <<>> THEN NULL ELSE r[1]
  <2>1. r = <<>> <=> n + m = 0
    BY <1>2, <1>5
  <2>2. CASE n = 0
    <3>1. m # 0 => r[1] = f[1]
      BY <1>2, <1>3, <2>2
    <3> QED
      BY <1>0, <1>2, <2>1, <2>2, <3>1
  <2>3. CASE n # 0
    <3>1. r[1] = q[n]
      BY <1>2, <1>3, <2>3
    <3> QED
      BY <1>0, <1>2, <2>1, <2>3, <3>1
  <2> QED
    BY <2>2, <2>3
<1>11. Chain(r, IF q = <<>> THEN p ELSE q[Len(q)], ny)
  BY <1>5, <1>7, <1>9, <1>10 DEF Chain
<1> QED
  BY <1>2, <1>5, <1>8, <1>11

-----------------------------------------------------------------------------
(***************************************************************************)
(* Where the nodes are.                                                    *)
(***************************************************************************)

\* A thread has a node exactly while it is between the sections of a call, no two
\* have the same, and what is linked or fetched next has been written.
NodeInv ==
  /\ next \in [Node -> Node \cup {NULL}] /\ body \in [Node -> Word]
  /\ msg \in [Thread -> Node \cup {NULL}] /\ buffer \in [Thread -> Word]
  /\ \A t \in Thread :
       /\ msg[t] # NULL <=> pc[t] \in InHand
       /\ \A u \in Thread : msg[t] = msg[u] /\ msg[t] # NULL => t = u
       /\ pc[t] \in {"link", "fetch"} => body[msg[t]] \in Msg
       /\ pc[t] = "link" /\ op[t] = "mq_send" => next[msg[t]] = NULL
       /\ pc[t] = "free" => buffer[t] \in Msg

\* The free list is f and the queue is q; they share no node with each other nor
\* with the threads, and while the queue exists every node is somewhere.
Placed(f, q) ==
  /\ Chain(f, msg_queue_free, next) /\ Chain(q, msg_queue_head, next)
  /\ ToSet(f) \cap ToSet(q) = {}
  /\ Len(q) = mq_entry
  /\ msg_queue_tail = IF q = <<>> THEN NULL ELSE q[Len(q)]
  /\ \A i \in ToSet(q) : body[i] \in Msg
  /\ \A t \in Thread : msg[t] # NULL => msg[t] \notin ToSet(f) \cup ToSet(q)
  /\ "mq" \in exists =>
       \A i \in Node : i \in ToSet(f) \cup ToSet(q) \/ \E t \in Thread : msg[t] = i

QueueInv == NodeInv /\ \E f, q : Placed(f, q)

\* The threads other than t do nothing to their nodes.
Others(t) ==
  \A u \in Thread \ {t} :
    /\ op'[u] = op[u]
    /\ pc'[u] = pc[u] \/ (pc[u] \notin InHand /\ pc'[u] \notin InHand)

\* The places of the threads that have a node.
LEMMA HandPlaces ==
  /\ {"copy", "link", "fetch", "free"} = InHand
  /\ "run" \notin InHand /\ "woken" \notin InHand /\ "wait" \notin InHand
  /\ Msg \subseteq Word /\ NoArg \in Word /\ NoArg \notin Msg
  BY MsgAssumption DEF InHand, Word, NoArg

\* A node of the free list goes to a sender.
LEMMA NodeTaken ==
  ASSUME NodeInv, NEW f, NEW q, Placed(f, q), NEW t \in Thread, Others(t),
         pc \in [Thread -> PC], pc[t] \notin InHand, msg_queue_free # NULL, NEW o, NEW m,
         TakeNode(t, o, m)
  PROVE  NodeInv' /\ Placed(Tail(f), q)' /\ f # <<>>
<1> DEFINE x == msg_queue_free
           r == Tail(f)
<1>1. f # <<>>
  BY ChainEmpty DEF Placed
<1>2. /\ Chain(r, next[x], next) /\ x \in Node
      /\ ToSet(r) = ToSet(f) \ {x} /\ x \in ToSet(f)
  BY <1>1, ChainPop DEF Placed
<1>3. /\ msg' = [msg EXCEPT ![t] = x] /\ msg_queue_free' = next[x] /\ pc'[t] = "copy"
      /\ UNCHANGED <<next, body, msg_queue_head, msg_queue_tail, mq_entry, buffer, exists>>
  BY DEF TakeNode
<1> HIDE DEF x, r
<1>4. msg[t] = NULL /\ x \notin ToSet(q) /\ \A u \in Thread : msg[u] # x
  BY <1>2, NodeFacts DEF NodeInv, Placed
<1>5. /\ msg' \in [Thread -> Node \cup {NULL}] /\ msg'[t] = x /\ x # NULL
      /\ \A u \in Thread \ {t} : msg'[u] = msg[u]
  BY <1>2, <1>3, NodeFacts DEF NodeInv
<1>6. NodeInv'
  <2>1. ASSUME NEW u \in Thread
        PROVE  /\ msg'[u] # NULL <=> pc'[u] \in InHand
               /\ \A v \in Thread : msg'[u] = msg'[v] /\ msg'[u] # NULL => u = v
               /\ pc'[u] \in {"link", "fetch"} => body'[msg'[u]] \in Msg
               /\ pc'[u] = "link" /\ op'[u] = "mq_send" => next'[msg'[u]] = NULL
               /\ pc'[u] = "free" => buffer'[u] \in Msg
    <3>1. CASE u = t
      BY <1>3, <1>4, <1>5, <3>1, HandPlaces
    <3>2. CASE u # t
      BY <1>3, <1>4, <1>5, <3>2, HandPlaces DEF NodeInv, Others
    <3> QED
      BY <3>1, <3>2
  <2> QED
    BY <1>3, <1>5, <2>1 DEF NodeInv
<1>7. Placed(r, q)'
  <2>1. ASSUME NEW i \in Node, "mq" \in exists'
        PROVE  i \in ToSet(r) \cup ToSet(q) \/ \E u \in Thread : msg'[u] = i
    <3>1. i \in ToSet(f) \cup ToSet(q) \/ \E u \in Thread : msg[u] = i
      BY <1>3, <2>1 DEF Placed
    <3> QED
      BY <1>2, <1>4, <1>5, <3>1, NodeFacts
  <2> QED
    BY <1>2, <1>3, <1>4, <1>5, <2>1 DEF Placed
<1> QED
  BY <1>1, <1>6, <1>7 DEF r

\* The message is copied into the node.
LEMMA NodeWritten ==
  ASSUME NodeInv, NEW f, NEW q, Placed(f, q), NEW t \in Thread, Others(t),
         pc \in [Thread -> PC], arg[t] \in Msg, SendCopy(t)
  PROVE  NodeInv' /\ Placed(f, q)' /\ \A i \in ToSet(q) : body'[i] = body[i]
<1> DEFINE x == msg[t]
<1>1. x \in Node /\ x \notin ToSet(f) \cup ToSet(q)
      /\ \A u \in Thread \ {t} : msg[u] # x
  <2>1. x # NULL
    BY HandPlaces DEF NodeInv, SendCopy
  <2> QED
    BY <2>1 DEF NodeInv, Placed
<1>2. /\ pc'[t] = "link" /\ op' = op
      /\ body' = [body EXCEPT ![x] = arg[t]]
      /\ next' = IF op[t] = "mq_send" THEN [next EXCEPT ![x] = NULL] ELSE next
      /\ UNCHANGED <<msg, msg_queue_head, msg_queue_tail, msg_queue_free, mq_entry, buffer,
                     exists>>
  BY DEF SendCopy
<1> HIDE DEF x
<1>3. /\ body' \in [Node -> Word] /\ body'[x] = arg[t]
      /\ \A i \in Node \ {x} : body'[i] = body[i] /\ next'[i] = next[i]
      /\ next' \in [Node -> Node \cup {NULL}]
      /\ op[t] = "mq_send" => next'[x] = NULL
  BY <1>1, <1>2, HandPlaces DEF NodeInv
<1>4. ToSet(f) \subseteq Node /\ ToSet(q) \subseteq Node
  BY DEF Placed, Chain, ToSet
<1>5. NodeInv'
  <2>1. ASSUME NEW u \in Thread
        PROVE  /\ msg'[u] # NULL <=> pc'[u] \in InHand
               /\ \A v \in Thread : msg'[u] = msg'[v] /\ msg'[u] # NULL => u = v
               /\ pc'[u] \in {"link", "fetch"} => body'[msg'[u]] \in Msg
               /\ pc'[u] = "link" /\ op'[u] = "mq_send" => next'[msg'[u]] = NULL
               /\ pc'[u] = "free" => buffer'[u] \in Msg
    <3>1. CASE u = t
      BY <1>1, <1>2, <1>3, <3>1, HandPlaces, NodeFacts DEF NodeInv, x
    <3>2. CASE u # t
      <4>1. pc'[u] \in InHand => pc'[u] = pc[u] /\ msg[u] \in Node \ {x}
        BY <1>1, <3>2 DEF NodeInv, Others
      <4> QED
        BY <1>2, <1>3, <3>2, <4>1, HandPlaces DEF NodeInv, Others
    <3> QED
      BY <3>1, <3>2
  <2> QED
    BY <1>2, <1>3, <2>1 DEF NodeInv
<1>6. /\ Chain(f, msg_queue_free, next') /\ Chain(q, msg_queue_head, next')
      /\ \A i \in ToSet(q) : body'[i] = body[i]
  BY <1>1, <1>3, <1>4, ChainKept DEF Placed
<1>7. Placed(f, q)'
  BY <1>2, <1>6 DEF Placed
<1> QED
  BY <1>5, <1>6, <1>7

\* A thread lets go of its node, whose link and the links in the lists may change.
LEMMA HandLeft ==
  ASSUME NodeInv, NEW t \in Thread, Others(t), pc'[t] \notin InHand,
         msg' = [msg EXCEPT ![t] = NULL], body' = body,
         next' \in [Node -> Node \cup {NULL}], buffer' \in [Thread -> Word],
         \A u \in Thread \ {t} : /\ msg[u] # NULL => next'[msg[u]] = next[msg[u]]
                                 /\ buffer'[u] = buffer[u]
  PROVE  /\ NodeInv' /\ msg'[t] = NULL
         /\ \A u \in Thread \ {t} : msg'[u] = msg[u]
<1>1. /\ msg' \in [Thread -> Node \cup {NULL}] /\ msg'[t] = NULL
      /\ \A u \in Thread \ {t} : msg'[u] = msg[u]
  BY DEF NodeInv
<1>2. ASSUME NEW u \in Thread
      PROVE  /\ msg'[u] # NULL <=> pc'[u] \in InHand
             /\ \A v \in Thread : msg'[u] = msg'[v] /\ msg'[u] # NULL => u = v
             /\ pc'[u] \in {"link", "fetch"} => body'[msg'[u]] \in Msg
             /\ pc'[u] = "link" /\ op'[u] = "mq_send" => next'[msg'[u]] = NULL
             /\ pc'[u] = "free" => buffer'[u] \in Msg
  <2>1. CASE u = t
    BY <1>1, <2>1, HandPlaces
  <2>2. CASE u # t
    BY <1>1, <2>2, HandPlaces DEF NodeInv, Others
  <2> QED
    BY <2>1, <2>2
<1> QED
  BY <1>1, <1>2 DEF NodeInv

\* What every thread between two sections knows of its node.
LEMMA HandNode ==
  ASSUME NodeInv, NEW f, NEW q, Placed(f, q), NEW t \in Thread, pc[t] \in InHand
  PROVE  /\ msg[t] \in Node /\ msg[t] \notin ToSet(f) \cup ToSet(q)
         /\ \A u \in Thread \ {t} : msg[u] # msg[t]
         /\ ToSet(f) \subseteq Node /\ ToSet(q) \subseteq Node
<1>1. msg[t] # NULL
  BY DEF NodeInv
<1>2. ToSet(f) \subseteq Node /\ ToSet(q) \subseteq Node
  BY DEF Placed, Chain, ToSet
<1> QED
  BY <1>1, <1>2 DEF NodeInv, Placed

\* The tail of the queue.
LEMMA TailNode ==
  ASSUME NEW f, NEW q, Placed(f, q)
  PROVE  /\ q \in Seq(Node) /\ (msg_queue_tail = NULL <=> q = <<>>)
         /\ q # <<>> => /\ msg_queue_tail = q[Len(q)] /\ msg_queue_tail \in ToSet(q)
                        /\ Len(q) \in Nat /\ Len(q) >= 1
<1>1. q \in Seq(Node)
  BY DEF Placed, Chain
<1>2. q # <<>> => /\ Len(q) \in Nat /\ Len(q) >= 1 /\ q[Len(q)] \in Node
                  /\ q[Len(q)] \in ToSet(q)
  BY <1>1 DEF ToSet
<1> QED
  BY <1>1, <1>2, NodeFacts DEF Placed

\* The node is linked behind the others.
LEMMA NodeSent ==
  ASSUME NodeInv, NEW f, NEW q, Placed(f, q), NEW t \in Thread, Others(t),
         pc'[t] \notin InHand, SendLink(t)
  PROVE  /\ NodeInv' /\ body[msg[t]] \in Msg
         /\ \E x : x = msg[t] /\ Placed(f, Append(q, x))'
<1>0. PICK x : x = msg[t]
  OBVIOUS
<1> DEFINE r == Append(q, x)
<1>1. /\ x \in Node /\ x \notin ToSet(f) \cup ToSet(q)
      /\ \A u \in Thread \ {t} : msg[u] # x
      /\ ToSet(f) \subseteq Node /\ ToSet(q) \subseteq Node
  BY <1>0, HandNode, HandPlaces DEF SendLink
<1>2. /\ next' = IF msg_queue_tail = NULL THEN next ELSE [next EXCEPT ![msg_queue_tail] = x]
      /\ msg_queue_tail' = x
      /\ msg_queue_head' = IF msg_queue_head = NULL THEN x ELSE msg_queue_head
      /\ mq_entry' = mq_entry + 1 /\ msg' = [msg EXCEPT ![t] = NULL]
      /\ UNCHANGED <<exists, body, msg_queue_free, buffer>>
  BY <1>0 DEF SendLink, Linked
<1>3. next[x] = NULL /\ body[x] \in Msg
  BY <1>0, HandPlaces DEF SendLink, NodeInv
<1>4. /\ next' \in [Node -> Node \cup {NULL}]
      /\ next'[x] = NULL
      /\ q # <<>> => next'[q[Len(q)]] = x
      /\ \A i \in Node : q = <<>> \/ i # q[Len(q)] => next'[i] = next[i]
      /\ \A i \in Node \ ToSet(q) : next'[i] = next[i]
  <2>1. next \in [Node -> Node \cup {NULL}]
    BY DEF NodeInv
  <2>2. CASE q = <<>>
    BY <1>1, <1>2, <1>3, <2>1, <2>2, TailNode
  <2>3. CASE q # <<>>
    BY <1>1, <1>2, <1>3, <2>1, <2>3, TailNode
  <2> QED
    BY <2>2, <2>3
<1>5. /\ NodeInv' /\ msg'[t] = NULL
      /\ \A u \in Thread \ {t} : msg'[u] = msg[u]
  <2>1. /\ \A u \in Thread \ {t} : msg[u] # NULL => msg[u] \in Node \ ToSet(q)
        /\ buffer' \in [Thread -> Word]
    BY <1>2 DEF NodeInv, Placed
  <2> QED
    BY <1>2, <1>4, <2>1, HandLeft
<1>6. /\ Chain(r, msg_queue_head', next') /\ ToSet(r) = ToSet(q) \cup {x}
      /\ Len(r) = Len(q) + 1
  <2>1. Chain(q, msg_queue_head, next)
    BY DEF Placed
  <2>2. \A i \in ToSet(q) : q # <<>> /\ i # q[Len(q)] => next'[i] = next[i]
    BY <1>1, <1>4
  <2>3. x \notin ToSet(q)
    BY <1>1
  <2> QED
    BY <1>1, <1>2, <1>4, <2>1, <2>2, <2>3, ChainAppend
<1>7. Chain(f, msg_queue_free, next')
  BY <1>1, <1>4, ChainKept DEF Placed
<1>8. r # <<>> /\ r[Len(r)] = x
  <2>1. q \in Seq(Node) /\ Len(q) \in Nat
    BY DEF Placed, Chain
  <2>2. Len(r) = Len(q) + 1 /\ r[Len(q) + 1] = x
    BY <1>1, <2>1
  <2> QED
    BY <2>1, <2>2
<1> HIDE DEF r
<1>9. Placed(f, r)'
  <2>1. ASSUME NEW i \in Node, "mq" \in exists'
        PROVE  i \in ToSet(f) \cup ToSet(r) \/ \E u \in Thread : msg'[u] = i
    <3>1. i \in ToSet(f) \cup ToSet(q) \/ \E u \in Thread : msg[u] = i
      BY <1>2, <2>1 DEF Placed
    <3> QED
      BY <1>0, <1>5, <1>6, <3>1
  <2>2. \A u \in Thread : msg'[u] # NULL => msg'[u] \notin ToSet(f) \cup ToSet(r)
    BY <1>1, <1>5, <1>6 DEF Placed
  <2>3. ToSet(f) \cap ToSet(r) = {} /\ \A i \in ToSet(r) : body'[i] \in Msg
    BY <1>1, <1>2, <1>3, <1>6 DEF Placed
  <2> QED
    BY <1>2, <1>6, <1>7, <1>8, <2>1, <2>2, <2>3 DEF Placed
<1> QED
  BY <1>0, <1>3, <1>5, <1>9 DEF r

\* The node is linked before the others.
LEMMA NodeUrgent ==
  ASSUME NodeInv, NEW f, NEW q, Placed(f, q), NEW t \in Thread, Others(t),
         pc'[t] \notin InHand, UrgentLink(t)
  PROVE  /\ NodeInv' /\ body[msg[t]] \in Msg
         /\ \E x : x = msg[t] /\ Placed(f, <<x>> \o q)'
<1>0. PICK x : x = msg[t]
  OBVIOUS
<1> DEFINE r == <<x>> \o q
<1>1. /\ x \in Node /\ x \notin ToSet(f) \cup ToSet(q)
      /\ \A u \in Thread \ {t} : msg[u] # x
      /\ ToSet(f) \subseteq Node /\ ToSet(q) \subseteq Node
  BY <1>0, HandNode, HandPlaces DEF UrgentLink
<1>2. /\ next' = [next EXCEPT ![x] = msg_queue_head]
      /\ msg_queue_head' = x
      /\ msg_queue_tail' = IF msg_queue_tail = NULL THEN x ELSE msg_queue_tail
      /\ mq_entry' = mq_entry + 1 /\ msg' = [msg EXCEPT ![t] = NULL]
      /\ UNCHANGED <<exists, body, msg_queue_free, buffer>>
  BY <1>0 DEF UrgentLink, Linked
<1>3. body[x] \in Msg
  BY <1>0, HandPlaces DEF UrgentLink, NodeInv
<1>4. /\ next' \in [Node -> Node \cup {NULL}]
      /\ next'[x] = msg_queue_head
      /\ \A i \in Node \ {x} : next'[i] = next[i]
  <2>1. next \in [Node -> Node \cup {NULL}] /\ msg_queue_head \in Node \cup {NULL}
    BY DEF NodeInv, Placed, Chain
  <2> QED
    BY <1>1, <1>2, <2>1
<1>5. /\ NodeInv' /\ msg'[t] = NULL
      /\ \A u \in Thread \ {t} : msg'[u] = msg[u]
  <2>1. /\ \A u \in Thread \ {t} : msg[u] # NULL => msg[u] \in Node \ {x}
        /\ buffer' \in [Thread -> Word]
    BY <1>1, <1>2 DEF NodeInv
  <2> QED
    BY <1>2, <1>4, <2>1, HandLeft
<1>6. /\ Chain(r, x, next') /\ ToSet(r) = ToSet(q) \cup {x}
      /\ Len(r) = Len(q) + 1
  <2>1. Chain(q, msg_queue_head, next)
    BY DEF Placed
  <2>2. x \notin ToSet(q) /\ \A i \in ToSet(q) : next'[i] = next[i]
    BY <1>1, <1>4
  <2> QED
    BY <1>1, <1>4, <2>1, <2>2, ChainPush
<1>7. Chain(f, msg_queue_free, next')
  <2>1. \A i \in ToSet(f) : next'[i] = next[i]
    BY <1>1, <1>4
  <2> QED
    BY <2>1, ChainKept DEF Placed
<1>8. r # <<>> /\ msg_queue_tail' = r[Len(r)]
  <2>1. CASE q = <<>>
    BY <1>1, <1>2, <2>1, TailNode
  <2>2. CASE q # <<>>
    <3>1. q \in Seq(Node) /\ Len(q) \in Nat /\ Len(q) >= 1
      BY <2>2, TailNode
    <3>2. Len(r) = Len(q) + 1 /\ r[Len(q) + 1] = q[Len(q)] /\ r # <<>>
      BY <1>1, <3>1
    <3> QED
      BY <1>2, <2>2, <3>2, TailNode
  <2> QED
    BY <2>1, <2>2
<1> HIDE DEF r
<1>9. Placed(f, r)'
  <2>1. ASSUME NEW i \in Node, "mq" \in exists'
        PROVE  i \in ToSet(f) \cup ToSet(r) \/ \E u \in Thread : msg'[u] = i
    <3>1. i \in ToSet(f) \cup ToSet(q) \/ \E u \in Thread : msg[u] = i
      BY <1>2, <2>1 DEF Placed
    <3> QED
      BY <1>0, <1>5, <1>6, <3>1
  <2>2. \A u \in Thread : msg'[u] # NULL => msg'[u] \notin ToSet(f) \cup ToSet(r)
    BY <1>1, <1>5, <1>6 DEF Placed
  <2>3. ToSet(f) \cap ToSet(r) = {} /\ \A i \in ToSet(r) : body'[i] \in Msg
    BY <1>1, <1>2, <1>3, <1>6 DEF Placed
  <2> QED
    BY <1>2, <1>6, <1>7, <1>8, <2>1, <2>2, <2>3 DEF Placed
<1> QED
  BY <1>0, <1>3, <1>5, <1>9 DEF r

\* The last of a list is the last of what follows the first, if anything does.
LEMMA LastOfTail ==
  ASSUME NEW T, NEW s \in Seq(T), s # <<>>
  PROVE  /\ Len(s) = 1 => Tail(s) = <<>>
         /\ Len(s) # 1 => Tail(s) # <<>> /\ Tail(s)[Len(Tail(s))] = s[Len(s)]
<1>1. PICK r : r = Tail(s)
  OBVIOUS
<1>2. /\ Len(s) \in Nat /\ Len(s) >= 1 /\ r \in Seq(T) /\ Len(r) = Len(s) - 1
      /\ \A i \in 1 .. Len(s) - 1 : r[i] = s[i + 1]
  BY <1>1
<1>3. r = <<>> <=> Len(r) = 0
  BY <1>2
<1>4. Len(s) # 1 => r[Len(s) - 1] = s[Len(s)]
  BY <1>2
<1> QED
  BY <1>1, <1>2, <1>3, <1>4

\* The first node of the queue goes to a receiver.
LEMMA NodeReceived ==
  ASSUME NodeInv, NEW f, NEW q, Placed(f, q), NEW t \in Thread, Others(t),
         pc \in [Thread -> PC], pc[t] \notin InHand, mq_entry # 0, TakeMessage(t)
  PROVE  /\ NodeInv' /\ Placed(f, Tail(q))' /\ q # <<>>
         /\ msg'[t] = Head(q) /\ body' = body /\ pc'[t] = "fetch"
<1> DEFINE x == msg_queue_head
           r == Tail(q)
<1>1. q # <<>> /\ q \in Seq(Node) /\ Len(q) \in Nat /\ Len(q) >= 1
  <2>1. q \in Seq(Node) /\ Len(q) # 0
    BY DEF Placed, Chain
  <2> QED
    BY <2>1
<1>2. /\ Chain(r, next[x], next) /\ x \in Node /\ x = Head(q)
      /\ ToSet(r) = ToSet(q) \ {x} /\ x \in ToSet(q) /\ Len(r) = Len(q) - 1
  BY <1>1, ChainPop DEF Placed
<1>3. /\ msg' = [msg EXCEPT ![t] = x] /\ msg_queue_head' = next[x] /\ pc'[t] = "fetch"
      /\ msg_queue_tail' = IF msg_queue_tail = x THEN NULL ELSE msg_queue_tail
      /\ mq_entry' = mq_entry - 1
      /\ UNCHANGED <<next, body, msg_queue_free, buffer, exists>>
  BY DEF TakeMessage
<1>t. msg_queue_tail' = IF r = <<>> THEN NULL ELSE r[Len(r)]
  <2>1. msg_queue_tail = q[Len(q)]
    BY <1>1, TailNode
  <2>2. x = q[1] /\ IsInjective(q) /\ DOMAIN q = 1 .. Len(q)
    BY <1>1 DEF Placed, Chain
  <2>3. CASE Len(q) = 1
    <3>1. r = <<>>
      BY <1>1, <2>3, LastOfTail
    <3> QED
      BY <1>3, <2>1, <2>2, <2>3, <3>1
  <2>4. CASE Len(q) # 1
    <3>1. r # <<>> /\ r[Len(r)] = q[Len(q)]
      BY <1>1, <2>4, LastOfTail
    <3>2. 1 \in DOMAIN q /\ Len(q) \in DOMAIN q
      BY <1>1, <2>2
    <3>3. msg_queue_tail # x
      BY <2>1, <2>2, <2>4, <3>2 DEF IsInjective
    <3> QED
      BY <1>3, <2>1, <3>1, <3>3
  <2> QED
    BY <2>3, <2>4
<1> HIDE DEF x, r
<1>4. /\ msg[t] = NULL /\ x \notin ToSet(f) /\ body[x] \in Msg
      /\ \A u \in Thread : msg[u] # x
  BY <1>2, NodeFacts DEF NodeInv, Placed
<1>5. /\ msg' \in [Thread -> Node \cup {NULL}] /\ msg'[t] = x /\ x # NULL
      /\ \A u \in Thread \ {t} : msg'[u] = msg[u]
  BY <1>2, <1>3, NodeFacts DEF NodeInv
<1>6. NodeInv'
  <2>1. ASSUME NEW u \in Thread
        PROVE  /\ msg'[u] # NULL <=> pc'[u] \in InHand
               /\ \A v \in Thread : msg'[u] = msg'[v] /\ msg'[u] # NULL => u = v
               /\ pc'[u] \in {"link", "fetch"} => body'[msg'[u]] \in Msg
               /\ pc'[u] = "link" /\ op'[u] = "mq_send" => next'[msg'[u]] = NULL
               /\ pc'[u] = "free" => buffer'[u] \in Msg
    <3>1. CASE u = t
      BY <1>3, <1>4, <1>5, <3>1, HandPlaces
    <3>2. CASE u # t
      BY <1>3, <1>4, <1>5, <3>2, HandPlaces DEF NodeInv, Others
    <3> QED
      BY <3>1, <3>2
  <2> QED
    BY <1>3, <1>5, <2>1 DEF NodeInv
<1>7. Placed(f, r)'
  <2>1. ASSUME NEW i \in Node, "mq" \in exists'
        PROVE  i \in ToSet(f) \cup ToSet(r) \/ \E u \in Thread : msg'[u] = i
    <3>1. i \in ToSet(f) \cup ToSet(q) \/ \E u \in Thread : msg[u] = i
      BY <1>3, <2>1 DEF Placed
    <3> QED
      BY <1>2, <1>4, <1>5, <3>1, NodeFacts
  <2>2. \A u \in Thread : msg'[u] # NULL => msg'[u] \notin ToSet(f) \cup ToSet(r)
    BY <1>2, <1>4, <1>5 DEF Placed
  <2> QED
    BY <1>2, <1>3, <1>t, <2>1, <2>2 DEF Placed
<1> QED
  BY <1>1, <1>2, <1>3, <1>5, <1>6, <1>7 DEF r

\* The message is copied out of the node.
LEMMA NodeRead ==
  ASSUME NodeInv, NEW f, NEW q, Placed(f, q), NEW t \in Thread, Others(t),
         pc \in [Thread -> PC], RecvCopy(t)
  PROVE  NodeInv' /\ Placed(f, q)'
<1>1. /\ pc[t] = "fetch" /\ pc'[t] = "free" /\ op' = op
      /\ buffer' = [buffer EXCEPT ![t] = body[msg[t]]]
      /\ UNCHANGED <<exists, next, body, msg_queue_head, msg_queue_tail, msg_queue_free,
                     mq_entry, msg>>
  BY DEF RecvCopy
<1>2. body[msg[t]] \in Msg /\ pc[t] \in InHand /\ pc'[t] \in InHand
  BY <1>1, HandPlaces DEF NodeInv
<1>3. /\ buffer' \in [Thread -> Word] /\ buffer'[t] = body[msg[t]]
      /\ \A u \in Thread \ {t} : buffer'[u] = buffer[u]
  BY <1>1, <1>2, HandPlaces DEF NodeInv
<1>4. NodeInv'
  <2>1. ASSUME NEW u \in Thread
        PROVE  /\ msg'[u] # NULL <=> pc'[u] \in InHand
               /\ \A v \in Thread : msg'[u] = msg'[v] /\ msg'[u] # NULL => u = v
               /\ pc'[u] \in {"link", "fetch"} => body'[msg'[u]] \in Msg
               /\ pc'[u] = "link" /\ op'[u] = "mq_send" => next'[msg'[u]] = NULL
               /\ pc'[u] = "free" => buffer'[u] \in Msg
    <3>1. CASE u = t
      BY <1>1, <1>2, <1>3, <3>1, HandPlaces DEF NodeInv
    <3>2. CASE u # t
      BY <1>1, <1>3, <3>2, HandPlaces DEF NodeInv, Others
    <3> QED
      BY <3>1, <3>2
  <2> QED
    BY <1>1, <1>3, <2>1 DEF NodeInv
<1>5. Placed(f, q)'
  BY <1>1 DEF Placed
<1> QED
  BY <1>4, <1>5

\* The node goes back to the free list.
LEMMA NodeFreed ==
  ASSUME NodeInv, NEW f, NEW q, Placed(f, q), NEW t \in Thread, Others(t),
         pc'[t] \notin InHand, RecvFree(t)
  PROVE  /\ NodeInv' /\ buffer[t] \in Msg
         /\ \E x : Placed(<<x>> \o f, q)' /\ Len(<<x>> \o f) = Len(f) + 1
<1>0. PICK x : x = msg[t]
  OBVIOUS
<1> DEFINE r == <<x>> \o f
<1>1. /\ x \in Node /\ x \notin ToSet(f) \cup ToSet(q)
      /\ \A u \in Thread \ {t} : msg[u] # x
      /\ ToSet(f) \subseteq Node /\ ToSet(q) \subseteq Node
  BY <1>0, HandNode, HandPlaces DEF RecvFree
<1>2. /\ next' = [next EXCEPT ![x] = msg_queue_free]
      /\ msg_queue_free' = x
      /\ msg' = [msg EXCEPT ![t] = NULL] /\ buffer' = [buffer EXCEPT ![t] = NoArg]
      /\ UNCHANGED <<exists, body, msg_queue_head, msg_queue_tail, mq_entry>>
  BY <1>0 DEF RecvFree
<1>3. buffer[t] \in Msg
  BY DEF RecvFree, NodeInv
<1>4. /\ next' \in [Node -> Node \cup {NULL}]
      /\ next'[x] = msg_queue_free
      /\ \A i \in Node \ {x} : next'[i] = next[i]
  <2>1. next \in [Node -> Node \cup {NULL}] /\ msg_queue_free \in Node \cup {NULL}
    BY DEF NodeInv, Placed, Chain
  <2> QED
    BY <1>1, <1>2, <2>1
<1>5. /\ NodeInv' /\ msg'[t] = NULL
      /\ \A u \in Thread \ {t} : msg'[u] = msg[u]
  <2>1. /\ \A u \in Thread \ {t} : msg[u] # NULL => msg[u] \in Node \ {x}
        /\ \A u \in Thread \ {t} : buffer'[u] = buffer[u]
        /\ buffer' \in [Thread -> Word]
    BY <1>1, <1>2, HandPlaces DEF NodeInv
  <2> QED
    BY <1>2, <1>4, <2>1, HandLeft
<1>6. /\ Chain(r, x, next') /\ ToSet(r) = ToSet(f) \cup {x}
      /\ Len(r) = Len(f) + 1
  <2>1. Chain(f, msg_queue_free, next)
    BY DEF Placed
  <2>2. x \notin ToSet(f) /\ \A i \in ToSet(f) : next'[i] = next[i]
    BY <1>1, <1>4
  <2> QED
    BY <1>1, <1>4, <2>1, <2>2, ChainPush
<1>7. Chain(q, msg_queue_head, next')
  <2>1. \A i \in ToSet(q) : next'[i] = next[i]
    BY <1>1, <1>4
  <2> QED
    BY <2>1, ChainKept DEF Placed
<1> HIDE DEF r
<1>9. Placed(r, q)'
  <2>1. ASSUME NEW i \in Node, "mq" \in exists'
        PROVE  i \in ToSet(r) \cup ToSet(q) \/ \E u \in Thread : msg'[u] = i
    <3>1. i \in ToSet(f) \cup ToSet(q) \/ \E u \in Thread : msg[u] = i
      BY <1>2, <2>1 DEF Placed
    <3> QED
      BY <1>0, <1>5, <1>6, <3>1
  <2>2. \A u \in Thread : msg'[u] # NULL => msg'[u] \notin ToSet(r) \cup ToSet(q)
    BY <1>1, <1>5, <1>6 DEF Placed
  <2>3. ToSet(r) \cap ToSet(q) = {}
    BY <1>1, <1>6 DEF Placed
  <2> QED
    BY <1>2, <1>6, <1>7, <2>1, <2>2, <2>3 DEF Placed
<1> QED
  BY <1>3, <1>5, <1>6, <1>9 DEF r

\* The place of node i in q, or 0.
Place1(q, i) ==
  LET I == {k \in 1 .. Len(q) : q[k] = i} IN IF I # {} THEN Min(I) ELSE 0

\* It is the index of the node.
LEMMA PlaceFacts ==
  ASSUME NEW q \in Seq(Node), IsInjective(q)
  PROVE  /\ \A k \in 1 .. Len(q) : Place1(q, q[k]) = k
         /\ \A i : i \notin ToSet(q) => Place1(q, i) = 0
<1>1. ASSUME NEW k \in 1 .. Len(q) PROVE Place1(q, q[k]) = k
  <2> DEFINE I == {j \in 1 .. Len(q) : q[j] = q[k]}
  <2>1. I # {} /\ I \subseteq Nat /\ \A j \in I : j = k
    BY DEF IsInjective
  <2>2. Place1(q, q[k]) = Min(I)
    BY <2>1, Zenon DEF Place1
  <2> HIDE DEF I
  <2> QED
    BY <2>1, <2>2, MinFacts
<1>2. ASSUME NEW i, i \notin ToSet(q) PROVE Place1(q, i) = 0
  BY <1>2 DEF Place1, ToSet
<1> QED
  BY <1>1, <1>2

\* A reset pushes the nodes of the queue on the free list.
LEMMA NodesReset ==
  ASSUME NodeInv, NEW f, NEW q, Placed(f, q), NEW t \in Thread, Others(t),
         pc[t] \notin InHand, pc'[t] \notin InHand, MqReset(t)
  PROVE  NodeInv' /\ \E r : Placed(r, <<>>)'
<1>1. /\ Chain(f, msg_queue_free, next) /\ Chain(q, msg_queue_head, next)
      /\ q \in Seq(Node) /\ IsInjective(q) /\ f \in Seq(Node)
      /\ ToSet(f) \cap ToSet(q) = {} /\ ToSet(f) \subseteq Node
      /\ Len(q) \in Nat /\ (q = <<>> <=> Len(q) = 0)
  <2>1. /\ Chain(f, msg_queue_free, next) /\ Chain(q, msg_queue_head, next)
        /\ ToSet(f) \cap ToSet(q) = {}
    BY DEF Placed
  <2>2. q \in Seq(Node) /\ IsInjective(q) /\ f \in Seq(Node)
    BY <2>1 DEF Chain
  <2>3. ToSet(f) \subseteq Node
    BY <2>2 DEF ToSet
  <2> QED
    BY <2>1, <2>2, <2>3
<1>2. Path(msg_queue_head) = q
  BY <1>1, Paths, ChainPath
<1>3. /\ next' = [i \in Node |-> LET k == Place1(q, i)
                                 IN  IF k = 0 THEN next[i]
                                     ELSE IF k = 1 THEN msg_queue_free ELSE q[k - 1]]
      /\ msg_queue_free' = IF q = <<>> THEN msg_queue_free ELSE Last(q)
  BY <1>2, Zenon DEF MqReset, SelectInSeq, Place1
<1>4. /\ msg_queue_head' = NULL /\ msg_queue_tail' = NULL /\ mq_entry' = 0
      /\ UNCHANGED <<exists, body, msg, buffer>>
  BY DEF MqReset
<1>5. /\ \A k \in 1 .. Len(q) : next'[q[k]] = IF k = 1 THEN msg_queue_free ELSE q[k - 1]
      /\ \A i \in Node \ ToSet(q) : next'[i] = next[i]
  <2>1. \A k \in 1 .. Len(q) : q[k] \in Node /\ Place1(q, q[k]) = k
    BY <1>1, PlaceFacts
  <2>2. \A i \in Node \ ToSet(q) : Place1(q, i) = 0
    BY <1>1, PlaceFacts
  <2> QED
    BY <1>1, <1>3, <2>1, <2>2
<1>6. next' \in [Node -> Node \cup {NULL}]
  <2>1. next \in [Node -> Node \cup {NULL}] /\ msg_queue_free \in Node \cup {NULL}
    BY DEF NodeInv, Placed, Chain
  <2>2. ASSUME NEW i \in Node PROVE next'[i] \in Node \cup {NULL}
    <3>1. CASE i \in ToSet(q)
      <4>1. PICK k \in 1 .. Len(q) : q[k] = i
        BY <1>1, <3>1 DEF ToSet
      <4>2. k # 1 => q[k - 1] \in Node
        BY <1>1
      <4> QED
        BY <1>5, <2>1, <4>1, <4>2
    <3>2. CASE i \notin ToSet(q)
      BY <1>5, <2>1, <3>2
    <3> QED
      BY <3>1, <3>2
  <2> QED
    BY <1>3, <2>2
<1>7. NodeInv'
  <2>1. \A u \in Thread : msg[u] # NULL => next'[msg[u]] = next[msg[u]]
    BY <1>5 DEF NodeInv, Placed
  <2>2. ASSUME NEW u \in Thread
        PROVE  /\ msg'[u] # NULL <=> pc'[u] \in InHand
               /\ \A v \in Thread : msg'[u] = msg'[v] /\ msg'[u] # NULL => u = v
               /\ pc'[u] \in {"link", "fetch"} => body'[msg'[u]] \in Msg
               /\ pc'[u] = "link" /\ op'[u] = "mq_send" => next'[msg'[u]] = NULL
               /\ pc'[u] = "free" => buffer'[u] \in Msg
    <3>1. CASE u = t
      BY <1>4, <3>1, HandPlaces DEF NodeInv
    <3>2. CASE u # t
      BY <1>4, <2>1, <3>2, HandPlaces DEF NodeInv, Others
    <3> QED
      BY <3>1, <3>2
  <2> QED
    BY <1>4, <1>6, <2>2 DEF NodeInv
<1>8. PICK r : /\ Chain(r, IF q = <<>> THEN msg_queue_free ELSE q[Len(q)], next')
               /\ ToSet(r) = ToSet(f) \cup ToSet(q)
  <2>1. \A i \in ToSet(f) : next'[i] = next[i]
    BY <1>1, <1>5
  <2>2. /\ Chain(f, msg_queue_free, next) /\ q \in Seq(Node) /\ IsInjective(q)
        /\ ToSet(f) \cap ToSet(q) = {}
        /\ \A k \in 1 .. Len(q) : next'[q[k]] = IF k = 1 THEN msg_queue_free ELSE q[k - 1]
        /\ \A i \in ToSet(f) : next'[i] = next[i]
    BY <1>1, <1>5, <2>1
  <2>3. \E r : /\ Chain(r, IF q = <<>> THEN msg_queue_free ELSE q[Len(q)], next')
               /\ ToSet(r) = ToSet(f) \cup ToSet(q)
               /\ Len(r) = Len(f) + Len(q)
    BY <2>2, ChainReset, SMTT(30)
  <2> QED
    BY <2>3, Zenon
<1>9. Chain(r, msg_queue_free', next')
  BY <1>3, <1>8 DEF Last
<1>10. Placed(r, <<>>)'
  <2>1. ToSet(<<>>) = {} /\ Len(<<>>) = 0
    BY EmptyList
  <2> QED
    BY <1>4, <1>8, <1>9, <2>1, EmptyChain DEF Placed
<1> QED
  BY <1>7, <1>10

\* rt_mq_init links the whole pool.
LEMMA NodesMade ==
  ASSUME NodeInv, HoldInv, NEW t \in Thread, rt_mq_init(t)
  PROVE  NodeInv' /\ \E r : Placed(r, <<>>)'
<1>1. /\ "mq" \notin exists /\ next' = [i \in Node |-> i - 1]
      /\ msg_queue_free' = max_msgs
      /\ msg_queue_head' = NULL /\ msg_queue_tail' = NULL /\ mq_entry' = 0
      /\ UNCHANGED <<body, msg, buffer, pc, op>>
  BY DEF rt_mq_init, Creating, threadVars
<1>2. \A u \in Thread : pc[u] \notin InHand /\ msg[u] = NULL
  BY <1>1 DEF HoldInv, NodeInv
<1>3. next' \in [Node -> Node \cup {NULL}]
  BY <1>1, QueueAssumption DEF Node, NULL
<1>4. NodeInv'
  BY <1>1, <1>2, <1>3, HandPlaces DEF NodeInv
<1>5. PICK n \in Nat \ {0} : n = max_msgs
  BY QueueAssumption
<1> DEFINE r == [i \in 1 .. n |-> n + 1 - i]
<1>6. r \in Seq(Node) /\ Len(r) = n /\ DOMAIN r = 1 .. n /\ r # <<>>
  <2>1. \A i \in 1 .. n : n + 1 - i \in Node
    BY <1>5 DEF Node
  <2> QED
    BY <2>1
<1>7. \A i \in 1 .. n : r[i] = n + 1 - i
  OBVIOUS
<1> HIDE DEF r
<1>8. IsInjective(r)
  <2>1. \A i, j \in 1 .. n : r[i] = r[j] => i = j
    BY <1>7
  <2> QED
    BY <1>6, <2>1 DEF IsInjective
<1>9. ToSet(r) = Node
  <2>1. ASSUME NEW i \in Node PROVE i \in ToSet(r)
    <3>1. n + 1 - i \in 1 .. n /\ r[n + 1 - i] = i
      BY <1>5, <1>7 DEF Node
    <3> QED
      BY <1>6, <3>1 DEF ToSet
  <2>2. ToSet(r) \subseteq Node
    BY <1>6 DEF ToSet
  <2> QED
    BY <2>1, <2>2
<1>10. Chain(r, msg_queue_free', next')
  <2>1. ASSUME NEW i \in 1 .. n PROVE next'[r[i]] = IF i < n THEN r[i + 1] ELSE NULL
    <3>1. r[i] \in Node /\ r[i] = n + 1 - i /\ next'[r[i]] = n - i
      BY <1>1, <1>5, <1>7 DEF Node
    <3>2. i < n => r[i + 1] = n - i
      BY <1>7
    <3> QED
      BY <3>1, <3>2 DEF NULL
  <2>2. msg_queue_free' = r[1]
    BY <1>1, <1>5, <1>7
  <2> QED
    BY <1>6, <1>8, <2>1, <2>2 DEF Chain
<1>11. Placed(r, <<>>)'
  <2>1. ToSet(<<>>) = {} /\ Len(<<>>) = 0
    BY EmptyList
  <2> QED
    BY <1>1, <1>2, <1>9, <1>10, <2>1, EmptyChain DEF Placed
<1> QED
  BY <1>4, <1>11

-----------------------------------------------------------------------------
(***************************************************************************)
(* The queue as a channel.                                                 *)
(***************************************************************************)

\* What every step of the message queue does to the nodes.
LEMMA MqMoves ==
  ASSUME CoreInv, SendInv, NEW t \in Thread, MqStep(t)
  PROVE  \/ UNCHANGED <<mqVars, exists>> /\ pc[t] \notin InHand /\ pc'[t] \notin InHand
         \/ rt_mq_init(t)
         \/ MqReset(t) /\ pc[t] \notin InHand /\ pc'[t] \notin InHand
         \/ /\ pc[t] \notin InHand /\ msg_queue_free # NULL
            /\ \E o, m : TakeNode(t, o, m)
         \/ pc[t] \notin InHand /\ mq_entry # 0 /\ TakeMessage(t)
         \/ SendCopy(t) /\ arg[t] \in Msg
         \/ RecvCopy(t)
         \/ (SendLink(t) \/ UrgentLink(t) \/ RecvFree(t)) /\ pc'[t] \notin InHand
<1>0. ThreadInv /\ pc \in [Thread -> PC]
  BY DEF CoreInv, ThreadInv, ThreadTypeOK
<1>1. CASE rt_mq_init(t)
  BY <1>1
<1>2. CASE MqReset(t)
  <2>1. pc[t] = "run" /\ pc'[t] \in {"run", "woken"}
    BY <1>2 DEF MqReset, Calling, Resume
  <2> QED
    BY <1>2, <2>1, HandPlaces
<1>3. CASE SendCopy(t)
  <2>1. op[t] \in Sends
    BY <1>0, <1>3, OpsAtFacts DEF SendCopy, ThreadInv, CallFits, Sends
  <2> QED
    BY <1>3, <2>1 DEF SendInv
<1>4. CASE SendLink(t) \/ UrgentLink(t) \/ RecvFree(t)
  <2>1. pc'[t] \in {"run", "woken"}
    BY <1>0, <1>4 DEF SendLink, UrgentLink, RecvFree, Linked, Resume
  <2> QED
    BY <1>4, <2>1, HandPlaces
<1>5. CASE RecvCopy(t)
  BY <1>5
<1>6. ASSUME NEW c, NEW m, NEW n, pc[t] = "run", TimedWait(t, c, m, n), UNCHANGED mqVars
      PROVE  UNCHANGED <<mqVars, exists>> /\ pc[t] \notin InHand /\ pc'[t] \notin InHand
  <2>1. pc'[t] = "wait" /\ exists' = exists
    BY <1>0, <1>6 DEF TimedWait, Wait, Suspend
  <2> QED
    BY <1>6, <2>1, HandPlaces
<1>7. ASSUME pc[t] = "woken", WaitAgain(t), UNCHANGED mqVars
      PROVE  UNCHANGED <<mqVars, exists>> /\ pc[t] \notin InHand /\ pc'[t] \notin InHand
  <2>1. pc'[t] \in {"run", "wait"} /\ exists' = exists
    BY <1>0, <1>7 DEF WaitAgain, Suspend
  <2> QED
    BY <1>7, <2>1, HandPlaces
<1>8. CASE MqRetry(t)
  <2>1. pc[t] = "woken"
    BY <1>8 DEF MqRetry, Retrying
  <2>2. \/ msg_queue_free # NULL /\ TakeNode(t, "mq_send", arg[t])
        \/ mq_entry > 0 /\ TakeMessage(t)
        \/ WaitAgain(t) /\ UNCHANGED mqVars
    BY <1>8 DEF MqRetry
  <2>3. mq_entry > 0 => mq_entry # 0
    OBVIOUS
  <2> QED
    BY <1>7, <2>1, <2>2, <2>3, HandPlaces
<1>9. ASSUME NEW n \in Timeouts, MqRecv(t, n)
      PROVE  \/ UNCHANGED <<mqVars, exists>> /\ pc[t] \notin InHand /\ pc'[t] \notin InHand
             \/ pc[t] \notin InHand /\ mq_entry # 0 /\ TakeMessage(t)
  BY <1>6, <1>9, HandPlaces DEF MqRecv, Calling
<1>10. ASSUME NEW n \in Timeouts, NEW m \in Msg, MqSend(t, m, n)
       PROVE  \/ UNCHANGED <<mqVars, exists>> /\ pc[t] \notin InHand /\ pc'[t] \notin InHand
              \/ /\ pc[t] \notin InHand /\ msg_queue_free # NULL
                 /\ TakeNode(t, "mq_send", m)
  BY <1>6, <1>10, HandPlaces DEF MqSend, Calling
<1>11. ASSUME NEW m \in Msg, MqUrgent(t, m)
       PROVE  /\ pc[t] \notin InHand /\ msg_queue_free # NULL
              /\ TakeNode(t, "mq_urgent", m)
  BY <1>11, HandPlaces DEF MqUrgent, Calling
<1> QED
  BY <1>1, <1>2, <1>3, <1>4, <1>5, <1>8, <1>9, <1>10, <1>11 DEF MqStep

\* The others, in a step of thread t.
LEMMA OwnOthersHands ==
  ASSUME CoreInv, NEW t \in Thread, OwnStep(t)
  PROVE  Others(t)
  BY OwnOthers, HandPlaces DEF Others

\* What MqChannel reads in the nodes b of the queue q, and in the hands of t.
Contents(q, b) == [i \in DOMAIN q |-> b[q[i]]]

Got(t) == CASE pc[t] = "fetch" -> body[msg[t]]
            [] pc[t] = "free" -> buffer[t]
            [] OTHER -> NoArg

Hands == [t \in Thread |-> Got(t)]

\* The steps of the channel, in the words of the queue.
LEMMA MqMapped ==
  ASSUME NEW Q, Q = Contents(Path(msg_queue_head), body), NEW H, H = Hands,
         NEW R, R = Contents(Path(msg_queue_head)', body'), NEW K, K = Hands'
  PROVE  /\ \A m : Len(Q) < max_msgs /\ R = Append(Q, m) /\ K = H => MqChannel!Send(m)
         /\ \A m : Len(Q) < max_msgs /\ R = <<m>> \o Q /\ K = H => MqChannel!Urgent(m)
         /\ \A t \in Thread :
              H[t] = NoArg /\ Q # <<>> /\ K = [H EXCEPT ![t] = Head(Q)] /\ R = Tail(Q) =>
                MqChannel!Receive(t)
         /\ \A t \in Thread :
              H[t] # NoArg /\ K = [H EXCEPT ![t] = NoArg] /\ R = Q => MqChannel!Return(t)
         /\ R = <<>> /\ K = H => MqChannel!Reset
         /\ R = Q /\ K = H => UNCHANGED MqChannel!cvars
<1>1. /\ Q = [i \in DOMAIN Path(msg_queue_head) |-> body[Path(msg_queue_head)[i]]]
      /\ R = [i \in DOMAIN Path(msg_queue_head) |-> body[Path(msg_queue_head)[i]]]'
      /\ H = [t \in Thread |-> CASE pc[t] = "fetch" -> body[msg[t]]
                                 [] pc[t] = "free" -> buffer[t]
                                 [] OTHER -> NoArg]
      /\ K = [t \in Thread |-> CASE pc[t] = "fetch" -> body[msg[t]]
                                 [] pc[t] = "free" -> buffer[t]
                                 [] OTHER -> NoArg]'
  BY DEF Contents, Got, Hands
<1>2. \A m : Len(Q) < max_msgs /\ R = Append(Q, m) /\ K = H => MqChannel!Send(m)
  BY <1>1, Zenon DEF MqChannel!Send
<1>3. \A m : Len(Q) < max_msgs /\ R = <<m>> \o Q /\ K = H => MqChannel!Urgent(m)
  BY <1>1, Zenon DEF MqChannel!Urgent
<1>4. \A t \in Thread :
        H[t] = NoArg /\ Q # <<>> /\ K = [H EXCEPT ![t] = Head(Q)] /\ R = Tail(Q) =>
          MqChannel!Receive(t)
  BY <1>1, Zenon DEF MqChannel!Receive
<1>5. \A t \in Thread :
        H[t] # NoArg /\ K = [H EXCEPT ![t] = NoArg] /\ R = Q => MqChannel!Return(t)
  BY <1>1, Zenon DEF MqChannel!Return
<1>6. R = <<>> /\ K = H => MqChannel!Reset
  BY <1>1, Zenon DEF MqChannel!Reset
<1>7. R = Q /\ K = H => UNCHANGED MqChannel!cvars
  BY <1>1, Zenon DEF MqChannel!cvars
<1> QED
  BY <1>2, <1>3, <1>4, <1>5, <1>6, <1>7

\* The contents of a longer or shorter queue.
LEMMA ContentsFacts ==
  ASSUME NEW q \in Seq(Node), NEW b \in [Node -> Word]
  PROVE  /\ Contents(q, b) \in Seq(Word) /\ Len(Contents(q, b)) = Len(q)
         /\ Contents(<<>>, b) = <<>>
         /\ \A x \in Node :
              /\ Contents(Append(q, x), b) = Append(Contents(q, b), b[x])
              /\ Contents(<<x>> \o q, b) = <<b[x]>> \o Contents(q, b)
         /\ q # <<>> => /\ Contents(Tail(q), b) = Tail(Contents(q, b))
                        /\ Contents(q, b) # <<>> /\ Head(Contents(q, b)) = b[Head(q)]
<1>1. ASSUME NEW s \in Seq(Node)
      PROVE  /\ Contents(s, b) \in Seq(Word) /\ Len(Contents(s, b)) = Len(s)
             /\ \A i \in 1 .. Len(s) : Contents(s, b)[i] = b[s[i]]
  <2>1. \A i \in 1 .. Len(s) : s[i] \in Node
    BY <1>1
  <2>2. Contents(s, b) = [i \in 1 .. Len(s) |-> b[s[i]]]
    BY <1>1 DEF Contents
  <2>3. Contents(s, b) \in [1 .. Len(s) -> Word]
    BY <2>1, <2>2
  <2> QED
    BY <1>1, <2>2, <2>3
<1>2. PICK Q : Q = Contents(q, b)
  OBVIOUS
<1>3. /\ Q \in Seq(Word) /\ Len(Q) = Len(q) /\ Len(q) \in Nat
      /\ \A i \in 1 .. Len(q) : Q[i] = b[q[i]]
  BY <1>1, <1>2
<1>4. Contents(<<>>, b) = <<>>
  <2>1. PICK E : E = Contents(<<>>, b)
    OBVIOUS
  <2>2. <<>> \in Seq(Node) /\ Len(<<>>) = 0
    OBVIOUS
  <2>3. E \in Seq(Word) /\ Len(E) = 0
    BY <1>1, <2>1, <2>2
  <2>4. E = <<>>
    BY <2>3
  <2> QED
    BY <2>1, <2>4
<1>5. ASSUME NEW x \in Node PROVE Contents(Append(q, x), b) = Append(Q, b[x])
  <2>1. PICK s : s = Append(q, x)
    OBVIOUS
  <2>2. /\ s \in Seq(Node) /\ Len(s) = Len(q) + 1 /\ s[Len(q) + 1] = x
        /\ \A i \in 1 .. Len(q) : s[i] = q[i]
    BY <1>5, <2>1
  <2>3. PICK S : S = Append(Q, b[x])
    OBVIOUS
  <2>4. /\ S \in Seq(Word) /\ Len(S) = Len(q) + 1 /\ S[Len(q) + 1] = b[x]
        /\ \A i \in 1 .. Len(q) : S[i] = Q[i]
    BY <1>3, <1>5, <2>3
  <2>5. \A i \in 1 .. Len(s) : Contents(s, b)[i] = S[i]
    BY <1>1, <1>3, <2>2, <2>4
  <2>6. Contents(s, b) \in Seq(Word) /\ Len(Contents(s, b)) = Len(S)
    BY <1>1, <2>2, <2>4
  <2> QED
    BY <2>1, <2>2, <2>3, <2>4, <2>5, <2>6, SameSeq
<1>6. ASSUME NEW x \in Node PROVE Contents(<<x>> \o q, b) = <<b[x]>> \o Q
  <2>1. PICK s : s = <<x>> \o q
    OBVIOUS
  <2>2. /\ s \in Seq(Node) /\ Len(s) = Len(q) + 1 /\ s[1] = x
        /\ \A i \in 2 .. Len(q) + 1 : s[i] = q[i - 1]
    BY <1>6, <2>1
  <2>3. PICK S : S = <<b[x]>> \o Q
    OBVIOUS
  <2>4. /\ S \in Seq(Word) /\ Len(S) = Len(q) + 1 /\ S[1] = b[x]
        /\ \A i \in 2 .. Len(q) + 1 : S[i] = Q[i - 1]
    BY <1>3, <1>6, <2>3
  <2>5. ASSUME NEW i \in 1 .. Len(s) PROVE Contents(s, b)[i] = S[i]
    <3>1. Contents(s, b)[i] = b[s[i]]
      BY <1>1, <2>2
    <3>2. i = 1 \/ (i \in 2 .. Len(q) + 1 /\ i - 1 \in 1 .. Len(q))
      BY <1>3, <2>2
    <3> QED
      BY <1>3, <2>2, <2>4, <3>1, <3>2
  <2>6. Contents(s, b) \in Seq(Word) /\ Len(Contents(s, b)) = Len(S)
    BY <1>1, <2>2, <2>4
  <2>7. Contents(s, b) = S
    BY <2>2, <2>4, <2>5, <2>6, SameSeq
  <2> QED
    BY <2>1, <2>3, <2>7
<1>7. ASSUME q # <<>>
      PROVE  Contents(Tail(q), b) = Tail(Q) /\ Q # <<>> /\ Head(Q) = b[Head(q)]
  <2>0. Len(q) >= 1 /\ Q # <<>> /\ Head(Q) = Q[1] /\ Head(q) = q[1]
    BY <1>3, <1>7
  <2>1. PICK s : s = Tail(q)
    OBVIOUS
  <2>2. /\ s \in Seq(Node) /\ Len(s) = Len(q) - 1
        /\ \A i \in 1 .. Len(q) - 1 : s[i] = q[i + 1]
    BY <1>7, <2>1
  <2>3. PICK S : S = Tail(Q)
    OBVIOUS
  <2>4. /\ S \in Seq(Word) /\ Len(S) = Len(q) - 1
        /\ \A i \in 1 .. Len(q) - 1 : S[i] = Q[i + 1]
    BY <1>3, <2>0, <2>3
  <2>5. ASSUME NEW i \in 1 .. Len(s) PROVE Contents(s, b)[i] = S[i]
    <3>1. Contents(s, b)[i] = b[s[i]]
      BY <1>1, <2>2
    <3>2. i \in 1 .. Len(q) - 1 /\ i + 1 \in 1 .. Len(q)
      BY <1>3, <2>2
    <3> QED
      BY <1>3, <2>2, <2>4, <3>1, <3>2
  <2>6. Contents(s, b) \in Seq(Word) /\ Len(Contents(s, b)) = Len(S)
    BY <1>1, <2>2, <2>4
  <2>7. Contents(s, b) = S
    BY <2>2, <2>4, <2>5, <2>6, SameSeq
  <2> QED
    BY <1>3, <2>0, <2>1, <2>3, <2>7
<1> QED
  BY <1>2, <1>3, <1>4, <1>5, <1>6, <1>7

\* The hands of a thread that does nothing.
LEMMA GotKept ==
  ASSUME NEW u, msg'[u] = msg[u], buffer'[u] = buffer[u],
         pc[u] = "fetch" => body'[msg[u]] = body[msg[u]],
         pc'[u] = pc[u] \/ (pc[u] \notin InHand /\ pc'[u] \notin InHand)
  PROVE  Got(u)' = Got(u)
  BY DEF Got, InHand

\* Nothing is got while nothing is held, or sent.
LEMMA GotNone ==
  /\ \A u : pc[u] \notin {"fetch", "free"} => Got(u) = NoArg
  /\ \A u : pc'[u] \notin {"fetch", "free"} => Got(u)' = NoArg
  /\ \A u : pc[u] = "fetch" => Got(u) = body[msg[u]]
  /\ \A u : pc'[u] = "fetch" => Got(u)' = body'[msg'[u]]
  /\ \A u : pc[u] = "free" => Got(u) = buffer[u]
  /\ \A u : pc'[u] = "free" => Got(u)' = buffer'[u]
  BY DEF Got

\* Every step of the message queue keeps the nodes in order and is a step of the
\* channel: copying is none, linking sends and unlinking receives.
LEMMA MqRefines ==
  ASSUME CoreInv, SendInv, HoldInv, NodeInv, NEW f, NEW q, Placed(f, q),
         NEW t \in Thread, OwnStep(t), MqStep(t)
  PROVE  /\ NodeInv' /\ \E r, s : Placed(r, s)'
         /\ [MqChannel!Next]_(MqChannel!cvars)
<1> DEFINE Goal == /\ NodeInv' /\ \E r, s : Placed(r, s)'
                   /\ [MqChannel!Next]_(MqChannel!cvars)
<1>0. pc \in [Thread -> PC] /\ Others(t)
  BY OwnOthersHands DEF CoreInv, ThreadInv, ThreadTypeOK
<1>1. /\ Path(msg_queue_head) = q /\ q \in Seq(Node) /\ IsInjective(q)
      /\ body \in [Node -> Word] /\ msg \in [Thread -> Node \cup {NULL}]
      /\ buffer \in [Thread -> Word]
  <2>1. Chain(q, msg_queue_head, next)
    BY DEF Placed
  <2>2. Path(msg_queue_head) = q
    BY <2>1, Paths, ChainPath
  <2> QED
    BY <2>1, <2>2 DEF Chain, NodeInv
<1>2. PICK Q, H, K : /\ Q = Contents(q, body)
                     /\ H = Hands /\ K = Hands'
  OBVIOUS
<1>3. Q \in Seq(Word) /\ Len(Q) = Len(q) /\ (q # <<>> => Q # <<>> /\ Head(Q) = body[Head(q)])
  BY <1>1, <1>2, ContentsFacts
\* The queue after the step.
<1>4. ASSUME NEW r, NEW s, Placed(r, s)'
      PROVE  /\ Path(msg_queue_head)' = s /\ s \in Seq(Node) /\ IsInjective(s)
             /\ (\E x, y : Placed(x, y)')
  BY <1>4, Paths, ChainPath DEF Placed, Chain
\* The step of the channel, when the contents are R after it.
<1>m. ASSUME NEW r, NEW s, Placed(r, s)', NEW R, R = Contents(s, body')
      PROVE  /\ \A m : Len(Q) < max_msgs /\ R = Append(Q, m) /\ K = H => MqChannel!Send(m)
             /\ \A m : Len(Q) < max_msgs /\ R = <<m>> \o Q /\ K = H => MqChannel!Urgent(m)
             /\ H[t] = NoArg /\ Q # <<>> /\ K = [H EXCEPT ![t] = Head(Q)] /\ R = Tail(Q) =>
                  MqChannel!Receive(t)
             /\ H[t] # NoArg /\ K = [H EXCEPT ![t] = NoArg] /\ R = Q => MqChannel!Return(t)
             /\ R = <<>> /\ K = H => MqChannel!Reset
             /\ R = Q /\ K = H => UNCHANGED MqChannel!cvars
  <2>1. Path(msg_queue_head)' = s
    BY <1>4, <1>m
  <2>2. /\ Q = Contents(Path(msg_queue_head), body) /\ H = Hands
        /\ R = Contents(Path(msg_queue_head)', body') /\ K = Hands'
    BY <1>1, <1>2, <1>m, <2>1
  <2>3. /\ \A m : Len(Q) < max_msgs /\ R = Append(Q, m) /\ K = H => MqChannel!Send(m)
        /\ \A m : Len(Q) < max_msgs /\ R = <<m>> \o Q /\ K = H => MqChannel!Urgent(m)
        /\ \A u \in Thread :
             H[u] = NoArg /\ Q # <<>> /\ K = [H EXCEPT ![u] = Head(Q)] /\ R = Tail(Q) =>
               MqChannel!Receive(u)
        /\ \A u \in Thread :
             H[u] # NoArg /\ K = [H EXCEPT ![u] = NoArg] /\ R = Q => MqChannel!Return(u)
        /\ R = <<>> /\ K = H => MqChannel!Reset
        /\ R = Q /\ K = H => UNCHANGED MqChannel!cvars
    BY <2>2, MqMapped, Zenon
  <2> QED
    BY <2>3, Zenon
\* The hands after the step: those of t, if they change, and no others.
<1>5. ASSUME \A u \in Thread : Got(u)' = Got(u) PROVE K = H
  BY <1>2, <1>5 DEF Hands
<1>6. ASSUME NEW h, Got(t)' = h, \A u \in Thread \ {t} : Got(u)' = Got(u)
      PROVE  K = [H EXCEPT ![t] = h]
  BY <1>2, <1>6 DEF Hands
<1>7. \A u \in Thread \ {t} :
        pc'[u] = pc[u] \/ (pc[u] \notin InHand /\ pc'[u] \notin InHand)
  BY <1>0 DEF Others
<1>f. {"fetch", "free"} \subseteq InHand /\ {"fetch", "free"} \cap {"copy", "link"} = {}
  BY DEF InHand
<1>8. CASE UNCHANGED <<mqVars, exists>> /\ pc[t] \notin InHand /\ pc'[t] \notin InHand
  <2>1. /\ UNCHANGED <<next, body, msg_queue_head, msg_queue_tail, msg_queue_free, mq_entry,
                       msg, buffer, exists>>
    BY <1>8 DEF mqVars
  <2>2. Placed(f, q)'
    BY <2>1 DEF Placed
  <2>3. NodeInv'
    <3>1. \A u \in Thread :
            /\ pc'[u] \in InHand => pc'[u] = pc[u] /\ op'[u] = op[u]
            /\ pc[u] \in InHand => pc'[u] \in InHand
      BY <1>0, <1>8 DEF Others
    <3> QED
      BY <2>1, <3>1, HandPlaces DEF NodeInv
  <2>4. K = H
    <3>1. \A u \in Thread : Got(u)' = Got(u)
      BY <1>7, <1>8, <2>1, GotKept
    <3> QED
      BY <1>5, <3>1
  <2>5. Q = Contents(q, body')
    BY <1>2, <2>1
  <2> QED
    BY <1>m, <2>2, <2>3, <2>4, <2>5
<1>9. ASSUME NodeInv', NEW r, Placed(r, <<>>)', UNCHANGED <<body, msg, buffer>>,
             pc[t] \notin InHand, pc'[t] \notin InHand
      PROVE  Goal
  <2>1. K = H
    <3>1. \A u \in Thread : Got(u)' = Got(u)
      BY <1>7, <1>9, GotKept
    <3> QED
      BY <1>5, <3>1
  <2>2. <<>> = Contents(<<>>, body')
    BY <1>1, <1>9, ContentsFacts
  <2>3. MqChannel!Reset
    BY <1>m, <1>9, <2>1, <2>2
  <2> QED
    BY <1>4, <1>9, <2>3 DEF MqChannel!Next
<1>10. CASE rt_mq_init(t)
  <2>1. pc[t] \notin InHand /\ pc'[t] \notin InHand /\ UNCHANGED <<body, msg, buffer>>
    BY <1>10, HandPlaces DEF rt_mq_init, Creating, threadVars
  <2>2. NodeInv' /\ \E r : Placed(r, <<>>)'
    BY <1>10, NodesMade
  <2> QED
    BY <1>9, <2>1, <2>2
<1>11. CASE MqReset(t) /\ pc[t] \notin InHand /\ pc'[t] \notin InHand
  <2>1. UNCHANGED <<body, msg, buffer>>
    BY <1>11 DEF MqReset
  <2>2. NodeInv' /\ \E r : Placed(r, <<>>)'
    BY <1>0, <1>11, NodesReset
  <2> QED
    BY <1>9, <1>11, <2>1, <2>2
<1>12. ASSUME pc[t] \notin InHand, msg_queue_free # NULL, NEW o, NEW m, TakeNode(t, o, m)
       PROVE  Goal
  <2>1. NodeInv' /\ Placed(Tail(f), q)'
    BY <1>0, <1>12, NodeTaken
  <2>2. /\ pc'[t] = "copy" /\ UNCHANGED <<body, buffer>>
        /\ \A u \in Thread \ {t} : msg'[u] = msg[u]
    BY <1>0, <1>1, <1>12 DEF TakeNode
  <2>3. K = H
    <3>1. \A u \in Thread \ {t} : Got(u)' = Got(u)
      BY <1>7, <2>2, GotKept
    <3>2. Got(t)' = Got(t)
      BY <1>12, <1>f, <2>2, GotNone
    <3> QED
      BY <1>5, <3>1, <3>2
  <2>4. Q = Contents(q, body')
    BY <1>2, <2>2
  <2> QED
    BY <1>m, <2>1, <2>3, <2>4
<1>13. ASSUME pc[t] \notin InHand, mq_entry # 0, TakeMessage(t) PROVE Goal
  <2>1. /\ NodeInv' /\ Placed(f, Tail(q))' /\ q # <<>>
        /\ msg'[t] = Head(q) /\ body' = body /\ pc'[t] = "fetch"
    BY <1>0, <1>13, NodeReceived
  <2>2. /\ buffer' = buffer /\ \A u \in Thread \ {t} : msg'[u] = msg[u]
    BY <1>1, <1>13 DEF TakeMessage
  <2>3. K = [H EXCEPT ![t] = Head(Q)] /\ H[t] = NoArg
    <3>1. \A u \in Thread \ {t} : Got(u)' = Got(u)
      BY <1>7, <2>1, <2>2, GotKept
    <3>2. Got(t)' = Head(Q)
      BY <1>3, <2>1, GotNone
    <3>3. Got(t) = NoArg
      BY <1>13, <1>f, GotNone
    <3> QED
      BY <1>2, <1>6, <3>1, <3>2, <3>3 DEF Hands
  <2>4. Tail(Q) = Contents(Tail(q), body')
    BY <1>1, <1>2, <2>1, ContentsFacts
  <2>5. MqChannel!Receive(t)
    BY <1>3, <1>m, <2>1, <2>3, <2>4
  <2> QED
    BY <1>4, <2>1, <2>5 DEF MqChannel!Next
<1>14. CASE SendCopy(t) /\ arg[t] \in Msg
  <2>1. NodeInv' /\ Placed(f, q)' /\ \A i \in ToSet(q) : body'[i] = body[i]
    BY <1>0, <1>14, NodeWritten
  <2>2. /\ pc[t] = "copy" /\ pc'[t] = "link" /\ UNCHANGED <<msg, buffer>>
        /\ body' = [body EXCEPT ![msg[t]] = arg[t]]
    BY <1>0, <1>14 DEF SendCopy
  <2>3. K = H
    <3>1. \A u \in Thread \ {t} : pc[u] = "fetch" => body'[msg[u]] = body[msg[u]]
      <4>1. \A u \in Thread \ {t} : pc[u] = "fetch" => msg[u] \in Node /\ msg[u] # msg[t]
        BY <1>f DEF NodeInv
      <4> QED
        BY <1>1, <2>2, <4>1
    <3>2. \A u \in Thread \ {t} : Got(u)' = Got(u)
      BY <1>7, <2>2, <3>1, GotKept
    <3>3. Got(t)' = Got(t)
      BY <2>2, GotNone
    <3> QED
      BY <1>5, <3>2, <3>3
  <2>4. Q = Contents(q, body')
    <3>1. \A i \in DOMAIN q : q[i] \in ToSet(q)
      BY DEF ToSet
    <3> QED
      BY <1>2, <2>1, <3>1 DEF Contents
  <2> QED
    BY <1>m, <2>1, <2>3, <2>4
<1>15. CASE RecvCopy(t)
  <2>1. NodeInv' /\ Placed(f, q)'
    BY <1>0, <1>15, NodeRead
  <2>2. /\ pc[t] = "fetch" /\ pc'[t] = "free" /\ UNCHANGED <<msg, body>>
        /\ buffer'[t] = body[msg[t]] /\ \A u \in Thread \ {t} : buffer'[u] = buffer[u]
    BY <1>0, <1>1, <1>15 DEF RecvCopy
  <2>3. K = H
    <3>1. \A u \in Thread \ {t} : Got(u)' = Got(u)
      BY <1>7, <2>2, GotKept
    <3>2. Got(t)' = Got(t)
      BY <2>2, GotNone
    <3> QED
      BY <1>5, <3>1, <3>2
  <2>4. Q = Contents(q, body')
    BY <1>2, <2>2
  <2> QED
    BY <1>m, <2>1, <2>3, <2>4
\* What linking does to the hands, and to the length.
<1>16. ASSUME pc[t] = "link", pc'[t] \notin InHand, Linked(t) PROVE K = H /\ body' = body
  <2>1. /\ UNCHANGED <<body, buffer>> /\ \A u \in Thread \ {t} : msg'[u] = msg[u]
    BY <1>1, <1>16 DEF Linked
  <2>2. \A u \in Thread \ {t} : Got(u)' = Got(u)
    BY <1>7, <2>1, GotKept
  <2>3. Got(t)' = Got(t)
    BY <1>16, <1>f, GotNone
  <2> QED
    BY <1>5, <2>1, <2>2, <2>3
<1>17. CASE SendLink(t) /\ pc'[t] \notin InHand
  <2>1. /\ NodeInv' /\ body[msg[t]] \in Msg
        /\ \E x : x = msg[t] /\ Placed(f, Append(q, x))'
    BY <1>0, <1>17, NodeSent
  <2>2. PICK x : x = msg[t] /\ Placed(f, Append(q, x))'
    BY <2>1
  <2>3. K = H /\ body' = body
    BY <1>16, <1>17 DEF SendLink
  <2>4. x \in Node
    BY <1>17, <2>2, HandNode, HandPlaces DEF SendLink
  <2>5. Append(Q, body[x]) = Contents(Append(q, x), body')
    BY <1>1, <1>2, <2>3, <2>4, ContentsFacts
  <2>6. /\ Path(msg_queue_head)' = Append(q, x) /\ Append(q, x) \in Seq(Node)
        /\ IsInjective(Append(q, x))
    BY <1>4, <2>2
  <2>7. Len(Q) < max_msgs
    <3>1. Len(Append(q, x)) = Len(q) + 1 /\ Len(q) \in Nat
      BY <1>1, <2>4
    <3>2. Len(Append(q, x)) \in 0 .. max_msgs
      BY <2>6, ChainLength
    <3> QED
      BY <1>3, <3>1, <3>2, NodeFacts
  <2>8. PICK m \in Msg : m = body[x]
    BY <2>1, <2>2
  <2>9. MqChannel!Send(m)
    BY <1>m, <2>2, <2>3, <2>5, <2>7, <2>8
  <2> QED
    BY <1>4, <2>1, <2>2, <2>9 DEF MqChannel!Next
<1>18. CASE UrgentLink(t) /\ pc'[t] \notin InHand
  <2>1. /\ NodeInv' /\ body[msg[t]] \in Msg
        /\ \E x : x = msg[t] /\ Placed(f, <<x>> \o q)'
    BY <1>0, <1>18, NodeUrgent
  <2>2. PICK x : x = msg[t] /\ Placed(f, <<x>> \o q)'
    BY <2>1
  <2>3. K = H /\ body' = body
    BY <1>16, <1>18 DEF UrgentLink
  <2>4. x \in Node
    BY <1>18, <2>2, HandNode, HandPlaces DEF UrgentLink
  <2>5. <<body[x]>> \o Q = Contents(<<x>> \o q, body')
    BY <1>1, <1>2, <2>3, <2>4, ContentsFacts
  <2>6. /\ Path(msg_queue_head)' = <<x>> \o q /\ <<x>> \o q \in Seq(Node)
        /\ IsInjective(<<x>> \o q)
    BY <1>4, <2>2
  <2>7. Len(Q) < max_msgs
    <3>1. Len(<<x>> \o q) = Len(q) + 1 /\ Len(q) \in Nat
      BY <1>1, <2>4
    <3>2. Len(<<x>> \o q) \in 0 .. max_msgs
      BY <2>6, ChainLength
    <3> QED
      BY <1>3, <3>1, <3>2, NodeFacts
  <2>8. PICK m \in Msg : m = body[x]
    BY <2>1, <2>2
  <2>9. MqChannel!Urgent(m)
    BY <1>m, <2>2, <2>3, <2>5, <2>7, <2>8
  <2> QED
    BY <1>4, <2>1, <2>2, <2>9 DEF MqChannel!Next
<1>19. CASE RecvFree(t) /\ pc'[t] \notin InHand
  <2>1. /\ NodeInv' /\ buffer[t] \in Msg /\ \E x : Placed(<<x>> \o f, q)'
    BY <1>0, <1>19, NodeFreed
  <2>2. /\ pc[t] = "free" /\ body' = body
        /\ \A u \in Thread \ {t} : msg'[u] = msg[u] /\ buffer'[u] = buffer[u]
    BY <1>1, <1>19 DEF RecvFree
  <2>3. K = [H EXCEPT ![t] = NoArg] /\ H[t] # NoArg
    <3>1. \A u \in Thread \ {t} : Got(u)' = Got(u)
      BY <1>7, <2>2, GotKept
    <3>2. Got(t)' = NoArg
      BY <1>19, <1>f, GotNone
    <3>3. Got(t) = buffer[t]
      BY <2>2, GotNone
    <3> QED
      BY <1>2, <1>6, <2>1, <3>1, <3>2, <3>3, HandPlaces DEF Hands
  <2>4. Q = Contents(q, body')
    BY <1>2, <2>2
  <2>5. MqChannel!Return(t)
    BY <1>m, <2>1, <2>3, <2>4
  <2> QED
    BY <1>4, <2>1, <2>5 DEF MqChannel!Next
<1> QED
  BY <1>8, <1>10, <1>11, <1>12, <1>13, <1>14, <1>15, <1>17, <1>18, <1>19, MqMoves

-----------------------------------------------------------------------------
(***************************************************************************)
(* Every step of the kernel.                                               *)
(***************************************************************************)

QueueWait == {"mq_send", "mq_recv"}

\* The lists of the message queue.
LEMMA QueueLists ==
  /\ {"mq", "mq_sender"} \subseteq List /\ QueueWait \subseteq RetryCalls
  /\ {"mq_send", "mq_recv"} \subseteq RetryCalls
  /\ ListOf("mq_recv") = "mq" /\ ListOf("mq_send") = "mq_sender"
  /\ QueueWait \subseteq Blocking
  BY ListOps, ListOfFacts DEF RetryCalls, QueueWait, Blocking

\* A step of a thread is a step of the message queue, one that is about no object in
\* particular, or one that is apart from the message queue; the last two touch no node.
LEMMA QueueApart ==
  ASSUME CoreInv, HoldInv, NEW t \in Thread, OwnStep(t)
  PROVE  \/ MqStep(t)
         \/ /\ UNCHANGED mqVars /\ pc[t] \notin InHand /\ pc'[t] \notin InHand
            /\ "mq" \in exists' => "mq" \in exists
            /\ (ThreadStep(t) /\ UNCHANGED objectVars) \/ Apart(QueueWait)
<1>0. ThreadInv /\ EventType /\ NodesInv
  BY DEF CoreInv
<1> DEFINE Idle == pc[t] \notin InHand /\ pc'[t] \notin InHand
<1>1. ASSUME NEW P, Steps(t, P), P \cap {"detach", "mq_send", "mq_urgent", "mq_recv"} = {}
      PROVE  Idle /\ Apart(QueueWait)
  <2>1. "detach" \notin P /\ P \cap QueueWait = {} /\ P \cap HandOps = {}
    BY <1>1 DEF QueueWait, HandOps
  <2>2. Apart(QueueWait)
    BY <1>1, <2>1, QueueLists, StepsApart
  <2>3. ThreadInv' /\ op[t] \in P /\ op'[t] \in P
    BY <1>0, <1>1, StepsFacts
  <2>4. /\ pc[t] \in InHand => op[t] \in HandOps
        /\ pc'[t] \in InHand => op'[t] \in HandOps
    BY <1>0, <2>3, OpsAtFacts DEF InHand, HandOps, ThreadInv, CallFits
  <2> QED
    BY <2>1, <2>2, <2>3, <2>4
<1>2. \A P \in {SemOps, EventOps, MailboxOps, MemPoolOps, CompletionOps, WaitQueueOps,
                DataQueueOps} :
        P \cap {"detach", "mq_send", "mq_urgent", "mq_recv"} = {}
  BY DEF SemOps, EventOps, MailboxOps, MemPoolOps, CompletionOps, WaitQueueOps, DataQueueOps
<1>3. CASE /\ \/ SemStep(t) \/ EventStep(t) \/ MailboxStep(t) \/ MemPoolStep(t)
              \/ CompletionStep(t) \/ WaitQueueStep(t) \/ DataQueueStep(t)
           /\ UNCHANGED mqVars
  <2>1. PICK P \in {SemOps, EventOps, MailboxOps, MemPoolOps, CompletionOps, WaitQueueOps,
                    DataQueueOps} : Steps(t, P)
    BY <1>0, <1>3, SemKind, EventKind, MailboxKind, MemPoolKind, CompletionKind,
       WaitQueueKind, DataQueueKind
  <2>2. P \cap {"detach", "mq_send", "mq_urgent", "mq_recv"} = {}
    BY <1>2
  <2> QED
    BY <1>1, <1>3, <2>1, <2>2, Created
<1>4. CASE ThreadStep(t) /\ UNCHANGED objectVars
  <2>1. pc'[t] \notin InHand
    BY <1>4, HoldThread
  <2>2. pc[t] \in {"woken", "run", "test", "resume"}
    BY <1>4 DEF ThreadStep, WaitFailed, DetachStart, Calling, ResumeAllTest, ResumeAllNext,
       DetachEnd
  <2>3. pc[t] \notin InHand
    BY <2>2 DEF InHand
  <2> QED
    BY <1>4, <2>1, <2>3, Created DEF objectVars
<1> QED
  BY <1>3, <1>4 DEF OwnStep

\* A step that touches no node changes neither the places nor the channel.
LEMMA NodesStay ==
  ASSUME NodeInv, NEW f, NEW q, Placed(f, q), UNCHANGED mqVars,
         "mq" \in exists' => "mq" \in exists,
         \A u \in Thread : \/ pc'[u] = pc[u] /\ op'[u] = op[u]
                           \/ pc[u] \notin InHand /\ pc'[u] \notin InHand
  PROVE  NodeInv' /\ Placed(f, q)' /\ UNCHANGED MqChannel!cvars
<1>1. /\ UNCHANGED <<next, body, msg_queue_head, msg_queue_tail, msg_queue_free, mq_entry,
                     msg, buffer>>
  BY DEF mqVars
<1>2. Placed(f, q)'
  BY <1>1 DEF Placed
<1>3. NodeInv'
  BY <1>1, HandPlaces DEF NodeInv
<1>4. \A u \in Thread : Got(u)' = Got(u)
  BY <1>1, GotKept
<1>5. Path(msg_queue_head)' = Path(msg_queue_head)
  BY <1>1, Paths
<1>6. Hands' = Hands
  BY <1>4 DEF Hands
<1>7. Contents(Path(msg_queue_head)', body') = Contents(Path(msg_queue_head), body)
  BY <1>1, <1>5
<1>8. UNCHANGED MqChannel!cvars
  <2>1. PICK Q, H, R, K : /\ Q = Contents(Path(msg_queue_head), body) /\ H = Hands
                          /\ R = Contents(Path(msg_queue_head)', body') /\ K = Hands'
    OBVIOUS
  <2>2. R = Q /\ K = H => UNCHANGED MqChannel!cvars
    BY <2>1, MqMapped, Zenon
  <2> QED
    BY <1>6, <1>7, <2>1, <2>2
<1> QED
  BY <1>2, <1>3, <1>8

\* Every step of the kernel keeps the nodes in order and is one of the channel.
LEMMA QueueNext ==
  ASSUME Polite, CoreInv, SendInv, SigInv, HoldInv, QueueInv, [Next]_vars
  PROVE  QueueInv' /\ [MqChannel!Next]_(MqChannel!cvars)
<1>0. ThreadInv /\ NodeInv /\ {"wait", "woken"} \cap InHand = {}
  BY HandPlaces DEF CoreInv, QueueInv
<1>1. PICK f, q : Placed(f, q)
  BY DEF QueueInv
<1>2. ASSUME NEW t \in Thread, OwnStep(t)
      PROVE  QueueInv' /\ [MqChannel!Next]_(MqChannel!cvars)
  <2>1. CASE MqStep(t)
    BY <1>0, <1>1, <1>2, <2>1, MqRefines DEF QueueInv
  <2>2. CASE /\ UNCHANGED mqVars /\ pc[t] \notin InHand /\ pc'[t] \notin InHand
             /\ "mq" \in exists' => "mq" \in exists
    <3>1. \A u \in Thread : \/ pc'[u] = pc[u] /\ op'[u] = op[u]
                            \/ pc[u] \notin InHand /\ pc'[u] \notin InHand
      BY <1>2, <2>2, OwnOthersHands DEF Others
    <3>2. NodeInv' /\ Placed(f, q)' /\ UNCHANGED MqChannel!cvars
      BY <1>0, <1>1, <2>2, <3>1, NodesStay
    <3> QED
      BY <3>2 DEF QueueInv
  <2> QED
    BY <1>2, <2>1, <2>2, QueueApart
<1>3. ASSUME UNCHANGED objectVars, UNCHANGED <<exists, op>>,
             \A u \in Thread : pc'[u] = pc[u] \/ (pc[u] = "wait" /\ pc'[u] = "woken")
      PROVE  QueueInv' /\ [MqChannel!Next]_(MqChannel!cvars)
  <2>1. \A u \in Thread : \/ pc'[u] = pc[u] /\ op'[u] = op[u]
                          \/ pc[u] \notin InHand /\ pc'[u] \notin InHand
    BY <1>0, <1>3
  <2>2. UNCHANGED mqVars
    BY <1>3 DEF objectVars
  <2>3. NodeInv' /\ Placed(f, q)' /\ UNCHANGED MqChannel!cvars
    BY <1>0, <1>1, <1>3, <2>1, <2>2, NodesStay
  <2> QED
    BY <2>3 DEF QueueInv
<1>4. CASE Tick /\ UNCHANGED <<objectVars, sigVars>>
  <2>1. \A u \in Thread : pc'[u] = pc[u] \/ (pc[u] = "wait" /\ pc'[u] = "woken")
    BY <1>0, <1>4, TickKind DEF Wakes
  <2> QED
    BY <1>3, <1>4, <2>1 DEF Tick
<1>5. ASSUME NEW t \in Thread, SignalStep(t), UNCHANGED objectVars
      PROVE  QueueInv' /\ [MqChannel!Next]_(MqChannel!cvars)
  <2>1. UNCHANGED <<exists, op>>
    BY <1>0, <1>5, SignalKind
  <2>2. \A u \in Thread : pc'[u] = pc[u] \/ (pc[u] = "wait" /\ pc'[u] = "woken")
    BY <1>0, <1>5, SignalKind DEF Wakes
  <2> QED
    BY <1>3, <1>5, <2>1, <2>2
<1>6. CASE UNCHANGED vars
  <2>1. UNCHANGED objectVars /\ UNCHANGED <<exists, op, pc>>
    BY <1>6 DEF vars, threadVars
  <2> QED
    BY <1>3, <2>1
<1> QED
  BY <1>2, <1>4, <1>5, <1>6 DEF Next

\* The initial states.
LEMMA QueueInit == Init => QueueInv /\ MqChannel!Init
<1> SUFFICES ASSUME Init PROVE QueueInv /\ MqChannel!Init
  OBVIOUS
<1>1. /\ next = [i \in Node |-> NULL] /\ body = [i \in Node |-> NoArg]
      /\ msg_queue_head = NULL /\ msg_queue_tail = NULL /\ msg_queue_free = NULL
      /\ mq_entry = 0 /\ msg = [t \in Thread |-> NULL] /\ buffer = [t \in Thread |-> NoArg]
      /\ pc = [t \in Thread |-> "run"] /\ exists = {}
  BY DEF Init, MqInit, ThreadInit
<1>2. NodeInv
  BY <1>1, HandPlaces DEF NodeInv
<1>3. Placed(<<>>, <<>>)
  <2>1. ToSet(<<>>) = {} /\ Len(<<>>) = 0
    BY EmptyList
  <2> QED
    BY <1>1, <2>1, EmptyChain DEF Placed
<1>4. Path(msg_queue_head) = <<>>
  BY <1>1, EmptyChain, ChainPath, Paths
<1>5. [i \in DOMAIN Path(msg_queue_head) |-> body[Path(msg_queue_head)[i]]] = <<>>
  <2>1. <<>> \in Seq(Node) /\ body \in [Node -> Word]
    BY <1>2 DEF NodeInv
  <2>2. Contents(<<>>, body) = <<>>
    BY <2>1, ContentsFacts
  <2> QED
    BY <1>4, <2>2 DEF Contents
<1>6. \A t \in Thread : pc[t] # "fetch" /\ pc[t] # "free"
  BY <1>1
<1>7. MqChannel!Init
  BY <1>5, <1>6 DEF MqChannel!Init
<1> QED
  BY <1>2, <1>3, <1>7 DEF QueueInv

\* Together with what the other channels keep.
LEMMA QueueAlways == Polite => (Spec => [](CoreInv /\ ChannelInv /\ BackInv /\ QueueInv))
<1> SUFFICES ASSUME Polite PROVE Spec => [](CoreInv /\ ChannelInv /\ BackInv /\ QueueInv)
  OBVIOUS
<1>1. Init => ChannelInv /\ BackInv /\ QueueInv
  BY ChannelInit, BackInit, QueueInit
<1>2. CoreInv /\ ChannelInv /\ BackInv /\ QueueInv /\ [Next]_vars =>
        ChannelInv' /\ BackInv' /\ QueueInv'
  BY ChannelNext, BackNext, QueueNext DEF ChannelInv, BackInv
<1> QED
  BY Core, <1>1, <1>2, PTL DEF Spec

\* A message queue of any size implements Channel, for any number of senders and
\* receivers: every message is received once, whole and in order, unless it was sent
\* urgently, although each call copies it with interrupts enabled while its node is
\* in no list, and other calls, timeouts and a reset come in between.
THEOREM QueueChannelAlways == Polite => (Spec => QueueChannel)
<1> SUFFICES ASSUME Polite PROVE Spec => QueueChannel
  OBVIOUS
<1>1. Init => MqChannel!Init
  BY QueueInit
<1>2. CoreInv /\ ChannelInv /\ BackInv /\ QueueInv /\ [Next]_vars =>
        [MqChannel!Next]_(MqChannel!cvars)
  BY QueueNext DEF ChannelInv, BackInv
<1> QED
  BY QueueAlways, <1>1, <1>2, PTL DEF Spec, QueueChannel, MqChannel!Spec

\* No node of a message queue is ever lost, or in two places at once, for any number
\* of nodes and threads: it is in the free list, in the queue or in the hands of one
\* thread, and head, tail and entry agree with the links, however the sections of the
\* calls and a reset interleave.
THEOREM NodesConservedAlways == Polite => (Spec => []NodesConserved)
<1> SUFFICES ASSUME Polite PROVE Spec => []NodesConserved
  OBVIOUS
<1>1. CoreInv /\ QueueInv => NodesConserved
  <2> SUFFICES ASSUME QueueInv, "mq" \in exists PROVE NodesConserved
    BY DEF NodesConserved
  <2>1. PICK f, q : Placed(f, q)
    BY DEF QueueInv
  <2>2. Path(msg_queue_free) = f /\ Path(msg_queue_head) = q
    BY <2>1, Paths, ChainPath DEF Placed
  <2>3. /\ IsInjective(f) /\ IsInjective(q) /\ Len(q) = mq_entry
        /\ msg_queue_tail = IF q = <<>> THEN NULL ELSE Last(q)
    BY <2>1 DEF Placed, Chain, Last
  <2>4. ASSUME NEW i \in Node
        PROVE  Cardinality({l \in {f, q} : i \in ToSet(l)} \cup {t \in Thread : msg[t] = i}) = 1
    <3> DEFINE L == {l \in {f, q} : i \in ToSet(l)}
               T == {t \in Thread : msg[t] = i}
    <3>0. i # NULL /\ ToSet(f) \cap ToSet(q) = {}
      BY <2>1, NodeFacts DEF Placed
    <3>1. ASSUME i \in ToSet(f) PROVE L \cup T = {f}
      <4>1. T = {} /\ i \notin ToSet(q)
        BY <2>1, <3>0, <3>1 DEF Placed
      <4>2. L = {f}
        BY <3>1, <4>1
      <4> QED
        BY <4>1, <4>2
    <3>2. ASSUME i \in ToSet(q) PROVE L \cup T = {q}
      <4>1. T = {} /\ i \notin ToSet(f)
        BY <2>1, <3>0, <3>2 DEF Placed
      <4>2. L = {q}
        BY <3>2, <4>1
      <4> QED
        BY <4>1, <4>2
    <3>3. ASSUME NEW t \in Thread, msg[t] = i PROVE L \cup T = {t}
      <4>1. L = {}
        BY <2>1, <3>0, <3>3 DEF Placed
      <4>2. T = {t}
        BY <3>0, <3>3 DEF QueueInv, NodeInv
      <4> QED
        BY <4>1, <4>2
    <3>4. \E x : L \cup T = {x}
      BY <2>1, <3>1, <3>2, <3>3 DEF Placed
    <3> HIDE DEF L, T
    <3>5. Cardinality(L \cup T) = 1
      BY <3>4, FS_Singleton
    <3> QED
      BY <3>5 DEF L, T
  <2> QED
    BY <2>2, <2>3, <2>4 DEF NodesConserved
<1> QED
  BY QueueAlways, <1>1, PTL

-----------------------------------------------------------------------------
(***************************************************************************)
(* No wakeup is lost.                                                      *)
(***************************************************************************)

\* QueueWakeups, for the threads that no signal is going to stop.
QueueCover ==
  /\ Covered(suspend_thread["mq"], mq_entry, Coming("mq_recv"))
  /\ Covered(suspend_thread["mq_sender"], Len(Path(msg_queue_free)), Coming("mq_send"))

\* The numbers of messages and of free nodes.
LEMMA PlacedCounts ==
  ASSUME NEW f, NEW q, Placed(f, q)
  PROVE  /\ Len(Path(msg_queue_free)) = Len(f) /\ Len(f) \in Nat
         /\ f = <<>> <=> Len(f) = 0
         /\ f = <<>> <=> msg_queue_free = NULL
         /\ mq_entry \in Nat
<1>1. /\ Chain(f, msg_queue_free, next) /\ f \in Seq(Node) /\ q \in Seq(Node)
      /\ mq_entry = Len(q)
  BY DEF Placed, Chain
<1>2. Path(msg_queue_free) = f
  BY <1>1, Paths, ChainPath
<1>3. f = <<>> <=> msg_queue_free = NULL
  BY <1>1, ChainEmpty
<1>4. f = <<>> <=> Len(f) = 0
  BY <1>1
<1> QED
  BY <1>1, <1>2, <1>3, <1>4

\* The number of free nodes after a step.
LEMMA PlacedCountsNext ==
  ASSUME NEW f, NEW q, Placed(f, q)'
  PROVE  Len(Path(msg_queue_free))' = Len(f) /\ Len(f) \in Nat
<1>1. Chain(f, msg_queue_free', next')
  BY DEF Placed
<1>2. Path(msg_queue_free)' = f
  BY <1>1, Paths, ChainPath
<1> QED
  BY <1>1, <1>2 DEF Chain

\* Every step of the message queue wakes somebody for what it leaves there.
LEMMA QueueCovers ==
  ASSUME CoreInv, SendInv, BackInv, NodeInv, NEW f, NEW q, Placed(f, q), QueueCover,
         NEW t \in Thread, OwnStep(t), MqStep(t)
  PROVE  QueueCover'
<1>0. /\ ThreadInv /\ SigInv /\ WaitInv /\ UseInv /\ Free(t) /\ Others(t)
  BY OwnOthersHands DEF CoreInv, BackInv, OwnStep
<1>a. /\ pc \in [Thread -> PC] /\ suspend_thread \in [List -> Seq(Thread)]
      /\ "run" \in PC /\ [pc EXCEPT ![t] = "run"] \in [Thread -> PC]
  BY <1>0 DEF ThreadInv, ThreadTypeOK, PC
<1> DEFINE R  == Coming("mq_recv")
           S  == Coming("mq_send")
           R2 == Coming("mq_recv")'
           S2 == Coming("mq_send")'
           n  == Len(f)
           n2 == Len(Path(msg_queue_free))'
<1>f. IsFiniteSet(R) /\ IsFiniteSet(S) /\ IsFiniteSet(R2) /\ IsFiniteSet(S2)
  BY ComingFinite
<1>r. /\ R \ {t} \subseteq R2 /\ (op[t] # "mq_recv" \/ ~Ready(t) => R \subseteq R2)
      /\ S \ {t} \subseteq S2 /\ (op[t] # "mq_send" \/ ~Ready(t) => S \subseteq S2)
  BY <1>0, OthersComing
<1>n. /\ n \in Int /\ mq_entry \in Int /\ 0 <= n /\ 0 <= mq_entry
      /\ msg_queue_free = NULL => n = 0
  BY PlacedCounts
<1>c. /\ Covered(suspend_thread["mq"], mq_entry, R)
      /\ Covered(suspend_thread["mq_sender"], n, S)
  BY PlacedCounts DEF QueueCover
<1>g. ASSUME Covered(suspend_thread'["mq"], mq_entry', R2),
             Covered(suspend_thread'["mq_sender"], n2, S2)
      PROVE  QueueCover'
  BY <1>g DEF QueueCover
<1>m. ASSUME NEW r, NEW s, Placed(r, s)' PROVE n2 = Len(r)
  BY <1>m, PlacedCountsNext
<1>p. ASSUME mqVars' = mqVars PROVE n2 = n /\ mq_entry' = mq_entry
  <2>1. msg_queue_free' = msg_queue_free /\ next' = next /\ mq_entry' = mq_entry
    BY <1>p DEF mqVars
  <2>2. Path(msg_queue_free)' = Path(msg_queue_free)
    BY <2>1, Paths
  <2> QED
    BY <2>1, <2>2, PlacedCounts
<1> HIDE DEF R, S, R2, S2, n, n2
<1>l. ASSUME NEW l \in List, NEW p \in [Thread -> PC], Resume(First(l), p)
      PROVE  /\ suspend_thread'["mq"] # <<>> => suspend_thread["mq"] # <<>>
             /\ suspend_thread'["mq_sender"] # <<>> => suspend_thread["mq_sender"] # <<>>
  <2>1. First(l) \subseteq Thread
    BY <1>0, <1>l, FirstFacts
  <2>2. Shrinks
    BY <1>0, <1>l, <2>1, ResumeShrinks
  <2> QED
    BY <2>2, QueueLists DEF Shrinks
\* A message more.
<1>i. ASSUME mq_entry' = mq_entry + 1, n2 = n, Resume(First("mq"), [pc EXCEPT ![t] = "run"]),
             error' = error, ~Ready(t)
      PROVE  QueueCover'
  <2>1. /\ suspend_thread'["mq"] # <<>> => suspend_thread["mq"] # <<>>
        /\ suspend_thread'["mq_sender"] # <<>> => suspend_thread["mq_sender"] # <<>>
    BY <1>a, <1>i, <1>l, QueueLists
  <2>2. suspend_thread["mq"] # <<>> => \E x \in R2 : x \notin R
    BY <1>0, <1>i, QueueLists, GivesOne DEF R, R2
  <2>3. mq_entry' \in Int /\ mq_entry' <= mq_entry + 1 /\ n2 \in Int /\ n2 <= n
    BY <1>i, <1>n
  <2>4. Covered(suspend_thread'["mq"], mq_entry', R2)
    BY <1>c, <1>f, <1>i, <1>n, <1>r, <2>1, <2>2, <2>3, CoverGiven
  <2>5. Covered(suspend_thread'["mq_sender"], n2, S2)
    BY <1>c, <1>f, <1>i, <1>n, <1>r, <2>1, <2>3, CoverKept
  <2> QED
    BY <1>g, <2>4, <2>5
\* A free node more.
<1>o. ASSUME mq_entry' = mq_entry, n2 = n + 1,
             Resume(First("mq_sender"), [pc EXCEPT ![t] = "run"]), error' = error, ~Ready(t)
      PROVE  QueueCover'
  <2>1. /\ suspend_thread'["mq"] # <<>> => suspend_thread["mq"] # <<>>
        /\ suspend_thread'["mq_sender"] # <<>> => suspend_thread["mq_sender"] # <<>>
    BY <1>a, <1>o, <1>l, QueueLists
  <2>2. suspend_thread["mq_sender"] # <<>> => \E x \in S2 : x \notin S
    BY <1>0, <1>o, QueueLists, GivesOne DEF S, S2
  <2>3. mq_entry' \in Int /\ mq_entry' <= mq_entry /\ n2 \in Int /\ n2 <= n + 1
    BY <1>o, <1>n
  <2>4. Covered(suspend_thread'["mq"], mq_entry', R2)
    BY <1>c, <1>f, <1>n, <1>o, <1>r, <2>1, <2>3, CoverKept
  <2>5. Covered(suspend_thread'["mq_sender"], n2, S2)
    BY <1>c, <1>f, <1>n, <1>o, <1>r, <2>1, <2>2, <2>3, CoverGiven
  <2> QED
    BY <1>g, <2>4, <2>5
\* A free node less.
<1>t. ASSUME mq_entry' = mq_entry, n2 = n - 1, suspend_thread' = suspend_thread,
             op[t] # "mq_recv" \/ ~Ready(t)
      PROVE  QueueCover'
  <2>1. mq_entry' \in Int /\ mq_entry' <= mq_entry /\ n2 \in Int /\ n2 <= n - 1
    BY <1>t, <1>n
  <2>2. Covered(suspend_thread'["mq"], mq_entry', R2)
    BY <1>c, <1>f, <1>n, <1>r, <1>t, <2>1, CoverKept
  <2>3. Covered(suspend_thread'["mq_sender"], n2, S2)
    BY <1>c, <1>f, <1>n, <1>r, <1>t, <2>1, CoverTaken
  <2> QED
    BY <1>g, <2>2, <2>3
\* A message less.
<1>u. ASSUME mq_entry' = mq_entry - 1, n2 = n, suspend_thread' = suspend_thread,
             op[t] # "mq_send" \/ ~Ready(t)
      PROVE  QueueCover'
  <2>1. mq_entry' \in Int /\ mq_entry' <= mq_entry - 1 /\ n2 \in Int /\ n2 <= n
    BY <1>u, <1>n
  <2>2. Covered(suspend_thread'["mq"], mq_entry', R2)
    <3>1. R \ {t} \subseteq R2 /\ suspend_thread'["mq"] = suspend_thread["mq"]
      BY <1>r, <1>u
    <3> QED
      BY <1>c, <1>f, <1>n, <2>1, <3>1, CoverTaken
  <2>3. Covered(suspend_thread'["mq_sender"], n2, S2)
    BY <1>c, <1>f, <1>n, <1>r, <1>u, <2>1, CoverKept
  <2> QED
    BY <1>g, <2>2, <2>3
\* A sender waits, for there is no free node.
<1>s. ASSUME mqVars' = mqVars, n = 0, suspend_thread'["mq"] = suspend_thread["mq"],
             op[t] # "mq_recv" \/ ~Ready(t)
      PROVE  QueueCover'
  <2>0. n2 = n /\ mq_entry' = mq_entry
    BY <1>p, <1>s
  <2>1. Covered(suspend_thread'["mq"], mq_entry', R2)
    BY <1>c, <1>f, <1>n, <1>r, <1>s, <2>0, CoverKept
  <2>2. Covered(suspend_thread'["mq_sender"], n2, S2)
    BY <1>f, <1>n, <1>s, <2>0, CoverNone
  <2> QED
    BY <1>g, <2>1, <2>2
\* A receiver waits, for there is no message.
<1>e. ASSUME mqVars' = mqVars, mq_entry = 0,
             suspend_thread'["mq_sender"] = suspend_thread["mq_sender"],
             op[t] # "mq_send" \/ ~Ready(t)
      PROVE  QueueCover'
  <2>0. n2 = n /\ mq_entry' = mq_entry
    BY <1>p, <1>e
  <2>1. Covered(suspend_thread'["mq_sender"], n2, S2)
    BY <1>c, <1>f, <1>n, <1>r, <1>e, <2>0, CoverKept
  <2>2. Covered(suspend_thread'["mq"], mq_entry', R2)
    BY <1>f, <1>n, <1>e, <2>0, CoverNone
  <2> QED
    BY <1>g, <2>1, <2>2
\* The queue is empty, and no sender waits.
<1>z. ASSUME mq_entry' = 0, suspend_thread'["mq_sender"] = <<>>, n2 \in Int
      PROVE  QueueCover'
  <2>1. Covered(suspend_thread'["mq"], mq_entry', R2)
    BY <1>f, <1>z, CoverNone
  <2>2. Covered(suspend_thread'["mq_sender"], n2, S2)
    BY <1>f, <1>z, CoverNone
  <2> QED
    BY <1>g, <2>1, <2>2
\* A message is copied.
<1>k. ASSUME mq_entry' = mq_entry, n2 = n, suspend_thread' = suspend_thread, ~Ready(t)
      PROVE  QueueCover'
  <2>1. Covered(suspend_thread'["mq"], mq_entry', R2)
    BY <1>c, <1>f, <1>k, <1>n, <1>r, CoverKept
  <2>2. Covered(suspend_thread'["mq_sender"], n2, S2)
    BY <1>c, <1>f, <1>k, <1>n, <1>r, CoverKept
  <2> QED
    BY <1>g, <2>1, <2>2
<1>q. pc[t] \in {"run", "copy", "link", "fetch", "free"} => ~ Ready(t)
  BY DEF Ready
<1>1. CASE rt_mq_init(t)
  <2>1. "mq" \notin exists /\ mq_entry' = 0 /\ suspend_thread' = suspend_thread
    BY <1>1 DEF rt_mq_init, Creating, threadVars
  <2>2. Waiters("mq_sender") = {}
    <3> SUFFICES ASSUME NEW u \in Waiters("mq_sender") PROVE FALSE
      OBVIOUS
    <3>1. \A c \in Blocking : ListOf(c) = "mq_sender" => c \in {"mq_send"}
      BY ListOfFacts DEF Blocking
    <3>2. u \in Thread /\ pc[u] = "wait" /\ op[u] \in {"mq_send"}
      BY <1>0, <3>1, QueueLists, WaitersIn
    <3> QED
      BY <1>0, <2>1, <3>2, QueueLists, ObjectOfFacts DEF UseInv
  <2>3. suspend_thread["mq_sender"] = <<>>
    BY <1>a, <2>2, QueueLists, NobodyWaits DEF Waiters
  <2>4. PICK r : Placed(r, <<>>)'
    BY <1>1, NodesMade DEF BackInv
  <2>5. n2 \in Int
    BY <1>m, <2>4, PlacedCountsNext
  <2> QED
    BY <1>z, <2>1, <2>3, <2>5
<1>2. CASE MqReset(t)
  <2> DEFINE W == Waiters("mq") \cup Waiters("mq_sender")
  <2>1. mq_entry' = 0 /\ Resume(W, pc) /\ pc[t] = "run"
    BY <1>2 DEF MqReset, Calling
  <2>2. W \subseteq Thread
    BY <1>0, QueueLists, FirstFacts
  <2>3. Removed(W) /\ suspend_thread' \in [List -> Seq(Thread)]
    BY <1>0, <1>a, <2>1, <2>2, ResumeFacts
  <2>4. ToSet(suspend_thread'["mq_sender"]) = {}
    BY <2>3, QueueLists DEF Removed, Waiters
  <2>5. suspend_thread'["mq_sender"] = <<>>
    BY <2>3, <2>4, QueueLists, NobodyWaits
  <2>6. pc'[t] \in {"run", "woken"}
    BY <2>1 DEF Resume
  <2>7. PICK r : Placed(r, <<>>)'
    BY <1>0, <1>2, <2>1, <2>6, NodesReset, HandPlaces
  <2>8. n2 \in Int
    BY <1>m, <2>7, PlacedCountsNext
  <2> QED
    BY <1>z, <2>1, <2>5, <2>8
<1>3. ASSUME NEW o, NEW m, TakeNode(t, o, m), msg_queue_free # NULL, pc[t] \notin InHand,
             op[t] # "mq_recv" \/ ~Ready(t)
      PROVE  QueueCover'
  <2>1. Placed(Tail(f), q)' /\ f # <<>>
    BY <1>0, <1>3, <1>a, NodeTaken
  <2>2. Len(Tail(f)) = Len(f) - 1
    BY <2>1 DEF Placed, Chain
  <2>3. n2 = n - 1
    BY <1>m, <2>1, <2>2 DEF n
  <2>4. mq_entry' = mq_entry /\ suspend_thread' = suspend_thread
    BY <1>3 DEF TakeNode
  <2> QED
    BY <1>3, <1>t, <2>3, <2>4
<1>4. ASSUME TakeMessage(t), mq_entry # 0, pc[t] \notin InHand, op[t] # "mq_send" \/ ~Ready(t)
      PROVE  QueueCover'
  <2>1. Placed(f, Tail(q))'
    BY <1>0, <1>4, <1>a, NodeReceived
  <2>2. n2 = n
    BY <1>m, <2>1 DEF n
  <2>3. mq_entry' = mq_entry - 1 /\ suspend_thread' = suspend_thread
    BY <1>4 DEF TakeMessage
  <2> QED
    BY <1>4, <1>u, <2>2, <2>3
<1>5. CASE MqRetry(t)
  <2>0. pc[t] = "woken" /\ pc[t] \notin InHand
    BY <1>5, HandPlaces DEF MqRetry, Retrying
  <2>1. CASE t \in Retrying("mq_send") /\ msg_queue_free # NULL /\ TakeNode(t, "mq_send", arg[t])
    BY <1>3, <2>0, <2>1 DEF Retrying
  <2>2. CASE t \in Retrying("mq_recv") /\ mq_entry > 0 /\ TakeMessage(t)
    BY <1>4, <2>0, <2>2 DEF Retrying
  <2>3. CASE /\ t \in Retrying("mq_send") /\ msg_queue_free = NULL /\ WaitAgain(t)
             /\ UNCHANGED mqVars
    <3>1. op[t] = "mq_send"
      BY <2>3 DEF Retrying
    <3>2. suspend_thread'["mq"] = suspend_thread["mq"]
      BY <1>a, <2>3, <3>1, QueueLists DEF WaitAgain, Suspend
    <3> QED
      BY <1>n, <1>s, <2>3, <3>1, <3>2
  <2>4. CASE t \in Retrying("mq_recv") /\ mq_entry = 0 /\ WaitAgain(t) /\ UNCHANGED mqVars
    <3>1. op[t] = "mq_recv"
      BY <2>4 DEF Retrying
    <3>2. suspend_thread'["mq_sender"] = suspend_thread["mq_sender"]
      BY <1>a, <2>4, <3>1, QueueLists DEF WaitAgain, Suspend
    <3> QED
      BY <1>e, <2>4, <3>1, <3>2
  <2> QED
    BY <1>5, <2>1, <2>2, <2>3, <2>4 DEF MqRetry
<1>6. CASE SendCopy(t)
  <2>1. op[t] \in Sends
    BY <1>0, <1>6, OpsAtFacts DEF SendCopy, ThreadInv, CallFits, Sends
  <2>2. Placed(f, q)'
    BY <1>0, <1>6, <1>a, <2>1, NodeWritten DEF SendInv
  <2>3. mq_entry' = mq_entry /\ suspend_thread' = suspend_thread /\ ~Ready(t) /\ n2 = n
    BY <1>6, <1>m, <1>q, <2>2 DEF SendCopy, n
  <2> QED
    BY <1>k, <2>3
<1>7. CASE RecvCopy(t)
  <2>1. Placed(f, q)'
    BY <1>0, <1>7, <1>a, NodeRead
  <2>2. mq_entry' = mq_entry /\ suspend_thread' = suspend_thread /\ ~Ready(t) /\ n2 = n
    BY <1>7, <1>m, <1>q, <2>1 DEF RecvCopy, n
  <2> QED
    BY <1>k, <2>2
<1>8. CASE SendLink(t) \/ UrgentLink(t)
  <2>1. pc[t] = "link" /\ Linked(t)
    BY <1>8 DEF SendLink, UrgentLink
  <2>2. /\ mq_entry' = mq_entry + 1 /\ error' = error
        /\ Resume(First("mq"), [pc EXCEPT ![t] = "run"])
    BY <2>1 DEF Linked
  <2>3. pc'[t] \in {"run", "woken"}
    BY <1>a, <2>2 DEF Resume
  <2>4. \E s : Placed(f, s)'
    BY <1>0, <1>8, <2>3, HandPlaces, NodeSent, NodeUrgent
  <2>5. n2 = n
    BY <1>m, <2>4 DEF n
  <2> QED
    BY <1>i, <1>q, <2>1, <2>2, <2>5
<1>9. CASE RecvFree(t)
  <2>1. /\ mq_entry' = mq_entry /\ error' = error /\ pc[t] = "free"
        /\ Resume(First("mq_sender"), [pc EXCEPT ![t] = "run"])
    BY <1>9 DEF RecvFree
  <2>2. pc'[t] \in {"run", "woken"}
    BY <1>a, <2>1 DEF Resume
  <2>3. PICK x : Placed(<<x>> \o f, q)' /\ Len(<<x>> \o f) = Len(f) + 1
    BY <1>0, <1>9, <2>2, HandPlaces, NodeFreed
  <2>4. n2 = n + 1
    BY <1>m, <2>3 DEF n
  <2> QED
    BY <1>o, <1>q, <2>1, <2>4
<1>h. pc[t] = "run" => pc[t] \notin InHand
  BY HandPlaces
<1>10. ASSUME NEW k \in Timeouts, MqRecv(t, k) PROVE QueueCover'
  <2>0. ~ Ready(t) /\ pc[t] \notin InHand
    BY <1>10, <1>h, <1>q DEF MqRecv, Calling
  <2>1. CASE mq_entry = 0 /\ TimedWait(t, "mq_recv", NoArg, k) /\ UNCHANGED mqVars
    <3>1. suspend_thread'["mq_sender"] = suspend_thread["mq_sender"]
      BY <1>a, <2>1, QueueLists DEF TimedWait, Wait, Suspend
    <3> QED
      BY <1>e, <2>0, <2>1, <3>1
  <2> QED
    BY <1>4, <1>10, <2>0, <2>1 DEF MqRecv
<1>11. ASSUME NEW k \in Timeouts, NEW m \in Msg, MqSend(t, m, k) PROVE QueueCover'
  <2>0. ~ Ready(t) /\ pc[t] \notin InHand
    BY <1>11, <1>h, <1>q DEF MqSend, Calling
  <2>1. CASE msg_queue_free = NULL /\ TimedWait(t, "mq_send", m, k) /\ UNCHANGED mqVars
    <3>1. suspend_thread'["mq"] = suspend_thread["mq"]
      BY <1>a, <2>1, QueueLists DEF TimedWait, Wait, Suspend
    <3> QED
      BY <1>n, <1>s, <2>0, <2>1, <3>1
  <2> QED
    BY <1>3, <1>11, <2>0, <2>1 DEF MqSend
<1>12. ASSUME NEW m \in Msg, MqUrgent(t, m) PROVE QueueCover'
  <2>0. ~ Ready(t) /\ pc[t] \notin InHand
    BY <1>12, <1>h, <1>q DEF MqUrgent, Calling
  <2> QED
    BY <1>3, <1>12, <2>0 DEF MqUrgent
<1> QED
  BY <1>1, <1>2, <1>5, <1>6, <1>7, <1>8, <1>9, <1>10, <1>11, <1>12 DEF MqStep

\* So does every step of the kernel.
LEMMA QueueCoverNext ==
  ASSUME Polite, CoreInv, SendInv, BackInv, QueueInv, QueueCover, [Next]_vars
  PROVE  QueueCover'
<1>0. SigInv /\ HoldInv /\ NodeInv
  BY DEF BackInv, QueueInv
<1>f. PICK f, q : Placed(f, q)
  BY DEF QueueInv
<1>1. ASSUME Elsewhere(QueueWait), UNCHANGED mqVars PROVE QueueCover'
  <2>1. /\ mq_entry' = mq_entry /\ mq_entry \in Int
        /\ Path(msg_queue_free)' = Path(msg_queue_free) /\ Len(Path(msg_queue_free)) \in Int
    <3>1. mq_entry' = mq_entry /\ msg_queue_free' = msg_queue_free /\ next' = next
      BY <1>1 DEF mqVars
    <3>2. Path(msg_queue_free)' = Path(msg_queue_free)
      BY <3>1, Paths
    <3> QED
      BY <1>f, <3>1, <3>2, PlacedCounts
  <2>2. /\ Coming("mq_recv") \subseteq Coming("mq_recv")'
        /\ suspend_thread'["mq"] # <<>> => suspend_thread["mq"] # <<>>
        /\ Coming("mq_send") \subseteq Coming("mq_send")'
        /\ suspend_thread'["mq_sender"] # <<>> => suspend_thread["mq_sender"] # <<>>
    BY <1>1, QueueLists DEF Elsewhere, QueueWait
  <2>3. IsFiniteSet(Coming("mq_recv")') /\ IsFiniteSet(Coming("mq_send")')
    BY ComingFinite
  <2>4. Covered(suspend_thread'["mq"], mq_entry, Coming("mq_recv")')
    BY <2>1, <2>2, <2>3, CoverKept DEF QueueCover
  <2>5. Covered(suspend_thread'["mq_sender"], Len(Path(msg_queue_free)), Coming("mq_send")')
    BY <2>1, <2>2, <2>3, CoverKept DEF QueueCover
  <2> QED
    BY <2>1, <2>4, <2>5 DEF QueueCover
<1>2. Elsewhere(RetryCalls) => Elsewhere(QueueWait)
  BY QueueLists DEF Elsewhere
<1>3. ASSUME NEW t \in Thread, OwnStep(t) PROVE QueueCover'
  <2>1. CASE ThreadStep(t) /\ UNCHANGED objectVars
    BY <1>0, <1>1, <1>2, <1>3, <2>1, ThreadElsewhere DEF objectVars
  <2>2. CASE MqStep(t)
    BY <1>0, <1>3, <1>f, <2>2, QueueCovers
  <2>3. CASE UNCHANGED mqVars /\ Apart(QueueWait)
    <3>1. sig' = sig
      BY <1>3 DEF OwnStep, Enter
    <3> QED
      BY <1>1, <2>3, <3>1, QueueLists, ApartElsewhere
  <2> QED
    BY <1>0, <1>3, <2>1, <2>2, <2>3, QueueApart
<1>4. CASE Tick /\ UNCHANGED <<objectVars, sigVars>>
  BY <1>0, <1>1, <1>2, <1>4, InterruptElsewhere DEF objectVars
<1>5. ASSUME NEW t \in Thread, SignalStep(t), UNCHANGED objectVars PROVE QueueCover'
  BY <1>0, <1>1, <1>2, <1>5, InterruptElsewhere DEF objectVars
<1>6. CASE UNCHANGED vars
  BY <1>0, <1>1, <1>2, <1>6, InterruptElsewhere DEF vars, objectVars
<1> QED
  BY <1>3, <1>4, <1>5, <1>6 DEF Next

\* No wakeup is lost in a mailbox or in a message queue, for any sizes and any number
\* of threads: as long as a receiver waits, every message has a woken receiver on its
\* way, and as long as a sender waits, every free place of the mailbox and every free
\* node of the queue has a woken sender, although a message is counted only when its
\* node is linked and a node is free only when its contents have been fetched.
THEOREM ChannelWakeupsAlways == Polite => (Spec => []ChannelWakeups)
<1> SUFFICES ASSUME Polite PROVE Spec => []ChannelWakeups
  OBVIOUS
<1>1. Init => QueueCover
  BY DEF Init, ThreadInit, List, QueueCover, Covered
<1>2. CoreInv /\ ChannelInv /\ BackInv /\ QueueInv /\ QueueCover /\ [Next]_vars => QueueCover'
  BY QueueCoverNext DEF ChannelInv
<1>3. CoreInv /\ QueueInv /\ QueueCover => QueueWakeups
  <2> SUFFICES ASSUME CoreInv, QueueInv, QueueCover PROVE QueueWakeups
    OBVIOUS
  <2>1. /\ Coming("mq_recv") \subseteq Retrying("mq_recv")
        /\ Coming("mq_send") \subseteq Retrying("mq_send")
    BY ComingRetrying
  <2>2. Retrying("mq_recv") \subseteq Thread /\ Retrying("mq_send") \subseteq Thread
    BY DEF Retrying
  <2>3. mq_entry \in Int /\ Len(Path(msg_queue_free)) \in Int
    BY PlacedCounts DEF QueueInv
  <2>4. suspend_thread["mq"] # <<>> => mq_entry <= Cardinality(Retrying("mq_recv"))
    BY <2>1, <2>2, <2>3, CoveredBy DEF QueueCover
  <2>5. suspend_thread["mq_sender"] # <<>> =>
          Len(Path(msg_queue_free)) <= Cardinality(Retrying("mq_send"))
    BY <2>1, <2>2, <2>3, CoveredBy DEF QueueCover
  <2> QED
    BY <2>4, <2>5 DEF QueueWakeups
<1>4. MailboxWakeups /\ QueueWakeups => ChannelWakeups
  BY DEF ChannelWakeups
<1> QED
  BY QueueAlways, MailboxWakeupsAlways, <1>1, <1>2, <1>3, <1>4, PTL DEF Spec

-----------------------------------------------------------------------------
(***************************************************************************)
(* Types.                                                                  *)
(***************************************************************************)

\* The types that no other invariant says anything of; those of a memory pool hold
\* when the pool has been detached, too.
PlainInv ==
  /\ value \in 0 .. RT_SEM_VALUE_MAX
  /\ completed \in BOOLEAN /\ wq_flag \in BOOLEAN
  /\ block_list \in Seq(Block) /\ block_free_count \in 0 .. Cardinality(Block)

\* The semaphore counts up to its maximum.
LEMMA ValueOwn ==
  ASSUME value \in 0 .. RT_SEM_VALUE_MAX, NEW t, SemStep(t)
  PROVE  value' \in 0 .. RT_SEM_VALUE_MAX
<1>1. CASE TakeNow(t)
  <2>1. value > 0 /\ value' = value - 1
    BY <1>1 DEF TakeNow
  <2> QED
    BY <2>1, SemAssumption
<1>2. CASE rt_sem_release(t)
  <2>1. value' = value \/ (value < RT_SEM_VALUE_MAX /\ value' = value + 1)
    BY <1>2 DEF rt_sem_release
  <2> QED
    BY <2>1, SemAssumption
<1>3. TakeReturn(t) \/ (\E n \in Timeouts : TakeWait(t, n)) => value' = value
  BY DEF TakeReturn, TakeWait
<1>4. \A v : rt_sem_init(t, v) \/ SemReset(t, v) => value' = v
  BY DEF rt_sem_init, SemReset
<1> QED
  BY <1>1, <1>2, <1>3, <1>4 DEF SemStep

\* A flag is a flag.
LEMMA FlagsOwn ==
  ASSUME NEW t
  PROVE  /\ CompletionStep(t) => completed' \in {TRUE, FALSE, completed}
         /\ WaitQueueStep(t) => wq_flag' \in {TRUE, FALSE, wq_flag}
<1>1. ASSUME CompletionStep(t) PROVE completed' \in {TRUE, FALSE, completed}
  <2>1. rt_completion_init(t) \/ CompletionTake(t) \/ CompletionReturn(t) => completed' = FALSE
    BY DEF rt_completion_init, CompletionTake, CompletionReturn
  <2>2. DoneTest(t) \/ (\E n \in Timeouts : CompletionWait(t, n)) => completed' = completed
    BY DEF DoneTest, CompletionWait, completionVars
  <2>3. DoneAct(t) => completed' = TRUE
    BY DEF DoneAct
  <2> QED
    BY <1>1, <2>1, <2>2, <2>3, Zenon DEF CompletionStep
<1>2. ASSUME WaitQueueStep(t) PROVE wq_flag' \in {TRUE, FALSE, wq_flag}
  <2>1. rt_wqueue_init(t) \/ WqueuePass(t) \/ WqueueWoken(t) => wq_flag' = FALSE
    BY DEF rt_wqueue_init, WqueuePass, WqueueWoken
  <2>2. WqueueReturn(t) \/ (\E n \in Timeouts : WqueueWait(t, n)) => wq_flag' = wq_flag
    BY DEF WqueueReturn, WqueueWait
  <2>3. rt_wqueue_wakeup(t) => wq_flag' = TRUE
    BY DEF rt_wqueue_wakeup
  <2> QED
    BY <1>2, <2>1, <2>2, <2>3, Zenon DEF WaitQueueStep
<1> QED
  BY <1>1, <1>2

\* There are no more free blocks than blocks.
LEMMA PoolLength ==
  ASSUME NEW s \in Seq(Block), IsInjective(s)
  PROVE  Len(s) \in 0 .. Cardinality(Block)
<1>1. IsFiniteSet(1 .. Len(s)) /\ Cardinality(1 .. Len(s)) = Len(s) /\ Len(s) \in Nat
  BY UpTo
<1>2. s \in Injection(1 .. Len(s), Block)
  BY DEF Injection, IsInjective
<1>3. Cardinality(1 .. Len(s)) <= Cardinality(Block) /\ Cardinality(Block) \in Nat
  BY <1>2, BlockAssumption, FS_Injection, FS_CardinalityType
<1> QED
  BY <1>1, <1>3

\* Every step keeps these types.
LEMMA PlainNext ==
  ASSUME Polite, CoreInv, BackInv, PoolInv, PoolCover, PlainInv, [Next]_vars
  PROVE  PlainInv'
<1>0. ThreadInv /\ SigInv /\ UseInv /\ HoldInv
  BY DEF CoreInv, BackInv
<1>1. CASE UNCHANGED objectVars
  BY <1>1 DEF objectVars, PlainInv, semVars, completionVars, wqVars, mpVars
<1>2. ASSUME NEW t \in Thread, OwnStep(t) PROVE PlainInv'
  <2>1. CASE ThreadStep(t) /\ UNCHANGED objectVars
    BY <1>1, <2>1
  <2>2. CASE SemStep(t) /\ UNCHANGED <<mpVars, completionVars, wqVars>>
    BY <2>2, ValueOwn DEF PlainInv, completionVars, wqVars, mpVars
  <2>3. CASE CompletionStep(t) /\ UNCHANGED <<semVars, mpVars, wqVars>>
    BY <2>3, FlagsOwn DEF PlainInv, semVars, wqVars, mpVars
  <2>4. CASE WaitQueueStep(t) /\ UNCHANGED <<semVars, mpVars, completionVars>>
    BY <2>4, FlagsOwn DEF PlainInv, semVars, completionVars, mpVars
  <2>5. CASE MemPoolStep(t) /\ UNCHANGED <<semVars, completionVars, wqVars>>
    <3>1. PoolInv'
      BY <1>2, <2>5, PoolCovers
    <3>2. Free(t)
      BY <1>2 DEF OwnStep
    <3>3. "mp" \in exists'
      <4>1. CASE On(t, "mp")
        <5>1. Steps(t, MemPoolOps)
          BY <1>0, <2>5, MemPoolKind
        <5> QED
          BY <1>0, <4>1, <5>1, OnFree DEF Steps
      <4>2. CASE rt_mp_init(t)
        BY <4>2 DEF rt_mp_init, Creating
      <4> QED
        BY <1>0, <2>5, <3>2, <4>1, <4>2, MemPoolOn
    <3>4. block_list' \in Seq(Block) /\ block_free_count' \in 0 .. Cardinality(Block)
      BY <3>1, <3>3, PoolLength DEF PoolInv
    <3> QED
      BY <2>5, <3>4 DEF PlainInv, semVars, completionVars, wqVars
  <2>6. CASE UNCHANGED <<semVars, mpVars, completionVars, wqVars>>
    BY <2>6 DEF PlainInv, semVars, completionVars, wqVars, mpVars
  <2> QED
    BY <1>2, <2>1, <2>2, <2>3, <2>4, <2>5, <2>6 DEF OwnStep
<1>3. CASE UNCHANGED vars
  BY <1>1, <1>3 DEF vars
<1> QED
  BY <1>1, <1>2, <1>3 DEF Next

\* Every variable has its type, for all values of the constants: in particular the
\* semaphore never counts past RT_SEM_VALUE_MAX, offsets, indices and entries stay
\* inside their pools, the pointers of a message queue point to its nodes and a
\* memory pool never counts more blocks than it has.
THEOREM TypeOKAlways == Polite => (Spec => []TypeOK)
<1> SUFFICES ASSUME Polite PROVE Spec => []TypeOK
  OBVIOUS
<1>1. Init => PoolInv /\ PoolCover /\ PlainInv
  <2>1. Init => PoolInv /\ PoolCover
    BY DEF Init, ThreadInit, MemPoolInit, List, PoolInv, PoolCover, Covered
  <2>2. Init => PlainInv
    <3>1. Cardinality(Block) \in Nat /\ RT_SEM_VALUE_MAX \in Nat
      BY BlockAssumption, SemAssumption, FS_CardinalityType
    <3>2. Init => /\ value = 0 /\ block_list = <<>> /\ block_free_count = 0
                  /\ completed = FALSE /\ wq_flag = FALSE
      BY DEF Init, SemInit, CompletionInit, WaitQueueInit, MemPoolInit
    <3>3. <<>> \in Seq(Block) /\ 0 \in 0 .. Cardinality(Block) /\ 0 \in 0 .. RT_SEM_VALUE_MAX
      BY <3>1
    <3> QED
      BY <3>2, <3>3, Zenon DEF PlainInv
  <2> QED
    BY <2>1, <2>2
<1>2. /\ CoreInv /\ ChannelInv /\ BackInv /\ QueueInv /\ PoolInv /\ PoolCover /\ PlainInv
      /\ [Next]_vars
      => PoolInv' /\ PoolCover' /\ PlainInv'
  BY PoolNext, PlainNext
<1>3. CoreInv /\ ChannelInv /\ BackInv /\ QueueInv /\ PlainInv => TypeOK
  <2> SUFFICES ASSUME CoreInv, ChannelInv, BackInv, QueueInv, PlainInv PROVE TypeOK
    OBVIOUS
  <2>1. ThreadTypeOK /\ set \subseteq Bit /\ waiting_list \in Seq(Thread)
    BY DEF CoreInv, ThreadInv, EventType, NodesInv
  <2>2. /\ in_offset \in 0 .. mb_size - 1 /\ out_offset \in 0 .. mb_size - 1
        /\ entry \in 0 .. mb_size
    BY DEF ChannelInv, MailboxInv
  <2>3. /\ get_index \in 0 .. dq_size - 1 /\ put_index \in 0 .. dq_size - 1
        /\ {is_empty, is_full} \subseteq BOOLEAN
    BY DEF ChannelInv, DataInv
  <2>4. /\ sig \in [Thread -> {"none", "pending", "entry", "left"}]
        /\ at \in [Thread -> {"before", "out", "back"}]
    BY DEF BackInv, SigInv
  <2>5. /\ mq_entry \in 0 .. max_msgs
        /\ {msg_queue_head, msg_queue_tail, msg_queue_free} \subseteq Node \cup {NULL}
    <3>1. PICK f, q : Placed(f, q)
      BY DEF QueueInv
    <3>2. /\ f \in Seq(Node) /\ q \in Seq(Node) /\ IsInjective(q) /\ Len(q) = mq_entry
          /\ msg_queue_free = IF f = <<>> THEN NULL ELSE f[1]
          /\ msg_queue_head = IF q = <<>> THEN NULL ELSE q[1]
          /\ msg_queue_tail = IF q = <<>> THEN NULL ELSE q[Len(q)]
      BY <3>1 DEF Placed, Chain
    <3>3. /\ f # <<>> => f[1] \in Node
          /\ q # <<>> => q[1] \in Node /\ q[Len(q)] \in Node
      BY <3>2
    <3> QED
      BY <3>2, <3>3, ChainLength
  <2> QED
    BY <2>1, <2>2, <2>3, <2>4, <2>5, Zenon DEF TypeOK, PlainInv
<1> QED
  BY QueueAlways, <1>1, <1>2, <1>3, PTL DEF Spec

=============================================================================
