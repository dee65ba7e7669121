----------------------------- MODULE ListLemmas -----------------------------
(***************************************************************************)
(* Facts about the kernel's doubly linked lists (rt_list_t), which the     *)
(* modules of this project model as sequences without repetition: what     *)
(* rt_list_remove, rt_list_insert_before and rt_list_insert_after do to    *)
(* the set of nodes of a list and to their order.                          *)
(***************************************************************************)
EXTENDS Integers, SequencesExt, WellFoundedInduction, TLAPS

\* Removing the first occurrence of e is removing the only one.
LEMMA RemoveFirstIndex ==
  ASSUME NEW S, NEW s \in Seq(S), NEW e, NEW i \in 1 .. Len(s), s[i] = e,
         IsInjective(s)
  PROVE  RemoveFirst(s, e) = RemoveAt(s, i)
<1> DEFINE I == {j \in 1 .. Len(s) : s[j] = e}
<1>1. I = {i}
  BY DEF IsInjective
<1>2. Min(I) = i
  BY <1>1 DEF Min
<1> QED
  BY <1>1, <1>2 DEF RemoveFirst, SelectInSeq

\* What RemoveAt leaves at each index.
LEMMA RemoveAtFacts ==
  ASSUME NEW S, NEW s \in Seq(S), NEW i \in 1 .. Len(s)
  PROVE  /\ RemoveAt(s, i) \in Seq(S)
         /\ Len(RemoveAt(s, i)) = Len(s) - 1
         /\ \A j \in 1 .. Len(s) - 1 :
              RemoveAt(s, i)[j] = IF j < i THEN s[j] ELSE s[j + 1]
<1> DEFINE x == SubSeq(s, 1, i - 1)
           y == SubSeq(s, i + 1, Len(s))
<1>1. x \in Seq(S) /\ Len(x) = i - 1 /\ \A j \in 1 .. i - 1 : x[j] = s[j]
  OBVIOUS
<1>2. y \in Seq(S) /\ Len(y) = Len(s) - i /\ \A j \in 1 .. Len(s) - i : y[j] = s[j + i]
  OBVIOUS
<1> HIDE DEF x, y
<1>3. x \o y \in Seq(S) /\ Len(x \o y) = Len(s) - 1
  BY <1>1, <1>2
<1>4. ASSUME NEW j \in 1 .. Len(s) - 1
      PROVE  (x \o y)[j] = IF j < i THEN s[j] ELSE s[j + 1]
  <2>1. CASE j < i
    BY <1>1, <1>2, <2>1
  <2>2. CASE ~(j < i)
    <3>1. (x \o y)[j] = y[j - (i - 1)]
      BY <1>1, <1>2, <2>2
    <3>2. j - (i - 1) \in 1 .. Len(s) - i /\ (j - (i - 1)) + i = j + 1
      BY <2>2
    <3> QED
      BY <1>2, <2>2, <3>1, <3>2
  <2> QED
    BY <2>1, <2>2
<1> QED
  BY <1>3, <1>4 DEF RemoveAt, x, y

\* rt_list_remove takes the one node out and leaves the others in order.
LEMMA RemoveFirstFacts ==
  ASSUME NEW S, NEW s \in Seq(S), NEW e, IsInjective(s)
  PROVE  /\ RemoveFirst(s, e) \in Seq(S)
         /\ IsInjective(RemoveFirst(s, e))
         /\ ToSet(RemoveFirst(s, e)) = ToSet(s) \ {e}
<1>1. CASE \E i \in 1 .. Len(s) : s[i] = e
  <2>1. PICK i \in 1 .. Len(s) : s[i] = e
    BY <1>1
  <2>2. RemoveFirst(s, e) = RemoveAt(s, i)
    BY <2>1, RemoveFirstIndex
  <2> DEFINE r == RemoveAt(s, i)
  <2>3. /\ r \in Seq(S) /\ Len(r) = Len(s) - 1
        /\ \A j \in 1 .. Len(s) - 1 : r[j] = IF j < i THEN s[j] ELSE s[j + 1]
    BY RemoveAtFacts
  <2> HIDE DEF r
  <2>4. IsInjective(r)
    <3>1. DOMAIN r = 1 .. Len(s) - 1 /\ DOMAIN s = 1 .. Len(s) /\ Len(s) \in Nat
      BY <2>3
    <3>2. ASSUME NEW a \in 1 .. Len(s) - 1, NEW b \in 1 .. Len(s) - 1, r[a] = r[b]
          PROVE  a = b
      <4> DEFINE na == IF a < i THEN a ELSE a + 1
                 nb == IF b < i THEN b ELSE b + 1
      <4>1. na \in DOMAIN s /\ nb \in DOMAIN s
        BY <3>1
      <4>2. s[na] = s[nb]
        BY <2>3, <3>2
      <4>3. na = nb
        BY <4>1, <4>2 DEF IsInjective
      <4> QED
        BY <4>3
    <3> QED
      BY <3>1, <3>2 DEF IsInjective
  <2>5. ToSet(r) \subseteq ToSet(s) \ {e}
    BY <2>1, <2>3 DEF ToSet, IsInjective
  <2>6. ASSUME NEW v \in ToSet(s) \ {e} PROVE v \in ToSet(r)
    <3>1. PICK j \in 1 .. Len(s) : s[j] = v /\ j # i
      BY <2>1, <2>6 DEF ToSet
    <3>2. CASE j < i
      <4>1. j \in 1 .. Len(s) - 1 /\ r[j] = v
        BY <2>3, <3>1, <3>2
      <4> QED
        BY <2>3, <4>1 DEF ToSet
    <3>3. CASE j > i
      <4>1. j - 1 \in 1 .. Len(s) - 1 /\ r[j - 1] = v
        BY <2>3, <3>1, <3>3
      <4> QED
        BY <2>3, <4>1 DEF ToSet
    <3> QED
      BY <3>1, <3>2, <3>3
  <2> QED
    BY <2>2, <2>3, <2>4, <2>5, <2>6 DEF r
<1>2. CASE ~ \E i \in 1 .. Len(s) : s[i] = e
  <2>1. RemoveFirst(s, e) = s
    BY <1>2 DEF RemoveFirst
  <2>2. e \notin ToSet(s)
    BY <1>2 DEF ToSet
  <2> QED
    BY <2>1, <2>2
<1> QED
  BY <1>1, <1>2

\* Appending a thread that is not in the list.
LEMMA AppendFacts ==
  ASSUME NEW S, NEW s \in Seq(S), NEW e \in S
  PROVE  /\ Append(s, e) \in Seq(S)
         /\ Append(s, e) # <<>>
         /\ ToSet(Append(s, e)) = ToSet(s) \cup {e}
         /\ IsInjective(s) /\ e \notin ToSet(s) => IsInjective(Append(s, e))
<1> DEFINE r == Append(s, e)
<1>1. /\ r \in Seq(S) /\ Len(r) = Len(s) + 1 /\ r[Len(s) + 1] = e
      /\ \A j \in 1 .. Len(s) : r[j] = s[j]
  OBVIOUS
<1> HIDE DEF r
<1>2. ToSet(r) = ToSet(s) \cup {e}
  <2>1. ToSet(r) \subseteq ToSet(s) \cup {e}
    BY <1>1 DEF ToSet
  <2>2. e \in ToSet(r)
    BY <1>1 DEF ToSet
  <2>3. ToSet(s) \subseteq ToSet(r)
    BY <1>1 DEF ToSet
  <2> QED
    BY <2>1, <2>2, <2>3
<1>3. IsInjective(s) /\ e \notin ToSet(s) => IsInjective(r)
  BY <1>1 DEF IsInjective, ToSet
<1>4. r # <<>>
  BY <1>1
<1> QED
  BY <1>1, <1>2, <1>3, <1>4 DEF r

\* rt_list_insert_after on the list head: the defunct queue grows at its front.
LEMMA ConsFacts ==
  ASSUME NEW S, NEW s \in Seq(S), NEW e \in S
  PROVE  /\ <<e>> \o s \in Seq(S)
         /\ ToSet(<<e>> \o s) = ToSet(s) \cup {e}
         /\ IsInjective(s) /\ e \notin ToSet(s) => IsInjective(<<e>> \o s)
<1> DEFINE r == <<e>> \o s
<1>1. /\ r \in Seq(S) /\ Len(r) = Len(s) + 1 /\ r[1] = e
      /\ \A j \in 1 .. Len(s) : r[j + 1] = s[j]
      /\ \A j \in 2 .. Len(s) + 1 : r[j] = s[j - 1]
  OBVIOUS
<1> HIDE DEF r
<1>2. ToSet(r) \subseteq ToSet(s) \cup {e}
  BY <1>1 DEF ToSet
<1>3. e \in ToSet(r)
  BY <1>1 DEF ToSet
<1>4. ASSUME NEW v \in ToSet(s) PROVE v \in ToSet(r)
  <2>1. PICK j \in 1 .. Len(s) : s[j] = v
    BY DEF ToSet
  <2>2. j + 1 \in DOMAIN r /\ r[j + 1] = v
    BY <1>1, <2>1
  <2> QED
    BY <2>2 DEF ToSet
<1>5. ASSUME IsInjective(s), e \notin ToSet(s) PROVE IsInjective(r)
  <2>1. DOMAIN r = 1 .. Len(s) + 1 /\ DOMAIN s = 1 .. Len(s) /\ Len(s) \in Nat
    BY <1>1
  <2>2. ASSUME NEW j \in 2 .. Len(s) + 1 PROVE r[j] # e
    BY <1>1, <1>5, <2>1 DEF ToSet
  <2>3. ASSUME NEW j \in 2 .. Len(s) + 1, NEW k \in 2 .. Len(s) + 1, r[j] = r[k]
        PROVE  j = k
    <3>1. s[j - 1] = s[k - 1] /\ j - 1 \in DOMAIN s /\ k - 1 \in DOMAIN s
      BY <1>1, <2>1, <2>3
    <3> QED
      BY <1>5, <3>1 DEF IsInjective
  <2> QED
    BY <1>1, <2>1, <2>2, <2>3 DEF IsInjective
<1> QED
  BY <1>1, <1>2, <1>3, <1>4, <1>5 DEF r

\* The head of a list that is not empty is one of its nodes.
LEMMA HeadFacts ==
  ASSUME NEW S, NEW s \in Seq(S), s # <<>>
  PROVE  Head(s) \in ToSet(s) /\ Head(s) \in S
  BY DEF ToSet

\* rt_list_isempty: a list is empty exactly if it has no node.
LEMMA EmptyFacts ==
  ASSUME NEW S, NEW s \in Seq(S)
  PROVE  s = <<>> <=> ToSet(s) = {}
  BY DEF ToSet

\* The list without nodes.
LEMMA EmptyList == IsInjective(<<>>) /\ ToSet(<<>>) = {}
  BY DEF IsInjective, ToSet

\* __rt_ffs finds the least bit of a bitmap that is not empty.
LEMMA MinFacts ==
  ASSUME NEW G, G \subseteq Nat, G # {}
  PROVE  Min(G) \in G /\ \A p \in G : Min(G) <= p
<1> DEFINE Less == OpToRel(<, Nat)
<1>1. Less = {ss \in Nat \X Nat : ss[1] < ss[2]}
  BY Zenon DEF OpToRel
<1>2. \E x \in G : \A y \in G : <<y, x>> \notin Less
  BY NatLessThanWellFounded, WFMin
<1> HIDE DEF Less
<1>3. PICK x \in G : \A y \in G : <<y, x>> \notin Less
  BY <1>2
<1>4. ASSUME NEW y \in G PROVE x <= y
  <2>1. x \in Nat /\ y \in Nat /\ <<y, x>> \notin Less
    BY <1>3
  <2>2. ASSUME y < x PROVE <<y, x>> \in Less
    <3>1. <<y, x>> \in Nat \X Nat /\ <<y, x>>[1] < <<y, x>>[2]
      BY <2>1, <2>2
    <3> QED
      BY <1>1, <3>1, Zenon
  <2> QED
    BY <2>1, <2>2
<1> QED
  BY <1>4 DEF Min

-----------------------------------------------------------------------------
(***************************************************************************)
(* Lists that are kept in the order of a number of their nodes: the wait   *)
(* lists of ipc.c under RT_IPC_FLAG_PRIO.                                  *)
(***************************************************************************)

OrderedBy(s, rank) ==
  \A i, j \in 1 .. Len(s) : i <= j => rank[s[i]] <= rank[s[j]]

\* What InsertAt leaves at each index.
LEMMA InsertAtFacts ==
  ASSUME NEW S, NEW s \in Seq(S), NEW i \in 1 .. Len(s), NEW e \in S
  PROVE  /\ InsertAt(s, i, e) \in Seq(S)
         /\ Len(InsertAt(s, i, e)) = Len(s) + 1
         /\ InsertAt(s, i, e)[i] = e
         /\ \A j \in 1 .. i - 1 : InsertAt(s, i, e)[j] = s[j]
         /\ \A j \in i + 1 .. Len(s) + 1 : InsertAt(s, i, e)[j] = s[j - 1]
<1> DEFINE x == SubSeq(s, 1, i - 1)
           y == SubSeq(s, i, Len(s))
           r == (x \o <<e>>) \o y
<1>1. x \in Seq(S) /\ Len(x) = i - 1 /\ \A j \in 1 .. i - 1 : x[j] = s[j]
  OBVIOUS
<1>2. /\ y \in Seq(S) /\ Len(y) = Len(s) - i + 1
      /\ \A j \in 1 .. Len(s) - i + 1 : y[j] = s[j + i - 1]
  OBVIOUS
<1> HIDE DEF x, y
<1> DEFINE z == x \o <<e>>
<1>3. /\ z \in Seq(S) /\ Len(z) = i /\ z[i] = e
      /\ \A j \in 1 .. i - 1 : z[j] = s[j]
  BY <1>1
<1> HIDE DEF z
<1>0. Len(s) \in Nat /\ i \in Nat /\ i <= Len(s)
  OBVIOUS
<1>4. z \o y \in Seq(S) /\ Len(z \o y) = Len(s) + 1
  <2>1. z \in Seq(S) /\ y \in Seq(S) /\ Len(z) + Len(y) = Len(s) + 1
    BY <1>0, <1>2, <1>3
  <2>2. z \o y \in Seq(S) /\ Len(z \o y) = Len(z) + Len(y)
    BY <2>1
  <2> QED
    BY <2>1, <2>2
<1>5. ASSUME NEW j \in 1 .. i PROVE (z \o y)[j] = z[j]
  BY <1>0, <1>2, <1>3
<1>6. ASSUME NEW j \in i + 1 .. Len(s) + 1 PROVE (z \o y)[j] = s[j - 1]
  <2>1. (z \o y)[j] = y[j - i]
    BY <1>0, <1>2, <1>3
  <2>2. j - i \in 1 .. Len(s) - i + 1 /\ (j - i) + i - 1 = j - 1
    BY <1>0
  <2> QED
    BY <1>2, <2>1, <2>2
<1> QED
  BY <1>0, <1>3, <1>4, <1>5, <1>6 DEF InsertAt, x, y, z

\* rt_list_insert_before on a node adds one node and keeps the others.
LEMMA InsertNodes ==
  ASSUME NEW S, NEW s \in Seq(S), NEW i \in 1 .. Len(s), NEW e \in S
  PROVE  /\ InsertAt(s, i, e) # <<>>
         /\ ToSet(InsertAt(s, i, e)) = ToSet(s) \cup {e}
         /\ IsInjective(s) /\ e \notin ToSet(s) => IsInjective(InsertAt(s, i, e))
<1> DEFINE r == InsertAt(s, i, e)
<1>0. Len(s) \in Nat /\ i \in Nat /\ i <= Len(s)
  OBVIOUS
<1>1. /\ r \in Seq(S) /\ Len(r) = Len(s) + 1
      /\ r[i] = e
      /\ \A j \in 1 .. i - 1 : r[j] = s[j]
      /\ \A j \in i + 1 .. Len(s) + 1 : r[j] = s[j - 1]
  BY InsertAtFacts
<1> HIDE DEF r
<1>d. DOMAIN r = 1 .. Len(s) + 1 /\ DOMAIN s = 1 .. Len(s)
  BY <1>1
<1>2. ASSUME NEW j \in 1 .. Len(s) + 1 PROVE r[j] \in ToSet(s) \cup {e}
  <2>1. CASE j < i
    <3>1. j \in DOMAIN s /\ r[j] = s[j]
      BY <1>0, <1>1, <2>1
    <3> QED
      BY <3>1 DEF ToSet
  <2>2. CASE j = i
    BY <1>1, <2>2
  <2>3. CASE j > i
    <3>1. j - 1 \in DOMAIN s /\ r[j] = s[j - 1]
      BY <1>0, <1>1, <2>3
    <3> QED
      BY <3>1 DEF ToSet
  <2> QED
    BY <1>0, <2>1, <2>2, <2>3
<1>3. e \in ToSet(r)
  BY <1>0, <1>1 DEF ToSet
<1>4. ASSUME NEW v \in ToSet(s) PROVE v \in ToSet(r)
  <2>1. PICK j \in 1 .. Len(s) : s[j] = v
    BY DEF ToSet
  <2>2. CASE j < i
    <3>1. j \in DOMAIN r /\ r[j] = v
      BY <1>0, <1>1, <2>1, <2>2
    <3> QED
      BY <3>1 DEF ToSet
  <2>3. CASE j >= i
    <3>1. j + 1 \in DOMAIN r /\ r[j + 1] = v
      BY <1>1, <2>1, <2>3
    <3> QED
      BY <3>1 DEF ToSet
  <2> QED
    BY <2>1, <2>2, <2>3
<1>5. ASSUME IsInjective(s), e \notin ToSet(s) PROVE IsInjective(r)
  <2>1. \A j \in 1 .. Len(s) : s[j] # e
    BY <1>5 DEF ToSet
  <2>2. \A j, k \in 1 .. Len(s) : s[j] = s[k] => j = k
    BY <1>5 DEF IsInjective
  <2>3. ASSUME NEW j \in 1 .. Len(s) + 1, NEW k \in 1 .. Len(s) + 1, j < k
        PROVE  r[j] # r[k]
    <3>1. CASE j < i /\ k < i
      BY <1>0, <1>1, <2>2, <2>3, <3>1
    <3>2. CASE j < i /\ k = i
      BY <1>0, <1>1, <2>1, <3>2
    <3>3. CASE j < i /\ k > i
      <4>1. r[j] = s[j] /\ r[k] = s[k - 1] /\ j # k - 1
        BY <1>0, <1>1, <3>3
      <4>2. j \in 1 .. Len(s) /\ k - 1 \in 1 .. Len(s)
        BY <1>0, <3>3
      <4> QED
        BY <2>2, <4>1, <4>2
    <3>4. CASE j = i
      <4>1. r[j] = e /\ r[k] = s[k - 1] /\ k - 1 \in 1 .. Len(s)
        BY <1>0, <1>1, <2>3, <3>4
      <4> QED
        BY <2>1, <4>1
    <3>5. CASE j > i
      <4>1. r[j] = s[j - 1] /\ r[k] = s[k - 1] /\ j - 1 # k - 1
        BY <1>0, <1>1, <2>3, <3>5
      <4>2. j - 1 \in 1 .. Len(s) /\ k - 1 \in 1 .. Len(s)
        BY <1>0, <2>3, <3>5
      <4> QED
        BY <2>2, <4>1, <4>2
    <3> QED
      BY <1>0, <2>3, <3>1, <3>2, <3>3, <3>4, <3>5
  <2>4. ASSUME NEW j \in 1 .. Len(s) + 1, NEW k \in 1 .. Len(s) + 1, r[j] = r[k]
        PROVE  j = k
    BY <1>0, <2>3, <2>4
  <2> QED
    BY <1>d, <2>4 DEF IsInjective
<1>6. r # <<>>
  BY <1>1
<1>7. ToSet(r) \subseteq ToSet(s) \cup {e}
  BY <1>d, <1>2 DEF ToSet
<1> QED
  BY <1>3, <1>4, <1>5, <1>6, <1>7 DEF r

\* Between nodes of smaller and of greater number, the new node keeps the order.
LEMMA InsertOrdered ==
  ASSUME NEW S, NEW s \in Seq(S), NEW i \in 1 .. Len(s), NEW e \in S
  PROVE  \A rank \in [S -> Int] :
           /\ OrderedBy(s, rank) /\ rank[e] < rank[s[i]]
           /\ \A j \in 1 .. Len(s) : j < i => rank[s[j]] <= rank[e]
           => OrderedBy(InsertAt(s, i, e), rank)
<1> DEFINE r == InsertAt(s, i, e)
<1>0. Len(s) \in Nat /\ i \in Nat /\ i <= Len(s)
  OBVIOUS
<1>1. /\ r \in Seq(S) /\ Len(r) = Len(s) + 1
      /\ r[i] = e
      /\ \A j \in 1 .. i - 1 : r[j] = s[j]
      /\ \A j \in i + 1 .. Len(s) + 1 : r[j] = s[j - 1]
  BY InsertAtFacts
<1> HIDE DEF r
<1>i. /\ \A j \in 1 .. Len(s) : j < i => r[j] = s[j]
      /\ \A j \in 1 .. Len(s) + 1 : j > i => r[j] = s[j - 1]
  BY <1>0, <1>1
<1> SUFFICES ASSUME NEW rank \in [S -> Int], OrderedBy(s, rank), rank[e] < rank[s[i]],
                    \A j \in 1 .. Len(s) : j < i => rank[s[j]] <= rank[e]
             PROVE  OrderedBy(r, rank)
  BY DEF r
<1>2. \A x, y \in 1 .. Len(s) : x <= y => rank[s[x]] <= rank[s[y]]
  BY DEF OrderedBy
<1>3. \A x \in 1 .. Len(s) : i <= x => rank[e] <= rank[s[x]]
  <2>1. \A x \in 1 .. Len(s) : rank[s[x]] \in Int
    OBVIOUS
  <2> QED
    BY <1>0, <1>2, <2>1
<1>4. ASSUME NEW j \in 1 .. Len(s) + 1, NEW k \in 1 .. Len(s) + 1, j <= k
      PROVE  rank[r[j]] <= rank[r[k]]
  <2>1. CASE k < i
    <3>1. j \in 1 .. Len(s) /\ k \in 1 .. Len(s) /\ j < i
      BY <1>0, <1>4, <2>1
    <3>2. r[j] = s[j] /\ r[k] = s[k]
      BY <1>i, <2>1, <3>1
    <3> QED
      BY <1>2, <1>4, <3>1, <3>2
  <2>2. CASE j < i /\ k = i
    <3>1. r[j] = s[j] /\ r[k] = e /\ j \in 1 .. Len(s)
      BY <1>0, <1>1, <2>2
    <3> QED
      BY <2>2, <3>1
  <2>3. CASE j < i /\ k > i
    <3>1. r[j] = s[j] /\ r[k] = s[k - 1]
      <4>1. j \in 1 .. Len(s)
        BY <1>0, <2>3
      <4> QED
        BY <1>i, <2>3, <4>1
    <3>2. j \in 1 .. Len(s) /\ k - 1 \in 1 .. Len(s) /\ j <= k - 1
      BY <1>0, <2>3
    <3> QED
      BY <1>2, <3>1, <3>2
  <2>4. CASE j = i /\ k = i
    <3>1. r[j] = e /\ r[k] = e /\ rank[e] \in Int
      BY <1>1, <2>4
    <3> QED
      BY <3>1
  <2>5. CASE j = i /\ k > i
    <3>1. r[j] = e /\ r[k] = s[k - 1] /\ k - 1 \in 1 .. Len(s) /\ i <= k - 1
      BY <1>0, <1>1, <2>5
    <3> QED
      BY <1>3, <3>1
  <2>6. CASE j > i
    <3>1. r[j] = s[j - 1] /\ r[k] = s[k - 1]
      <4>1. k > i
        BY <1>0, <1>4, <2>6
      <4> QED
        BY <1>i, <2>6, <4>1
    <3>2. j - 1 \in 1 .. Len(s) /\ k - 1 \in 1 .. Len(s) /\ j - 1 <= k - 1
      BY <1>0, <1>4, <2>6
    <3> QED
      BY <1>2, <3>1, <3>2
  <2> QED
    BY <1>0, <1>4, <2>1, <2>2, <2>3, <2>4, <2>5, <2>6
<1> QED
  BY <1>1, <1>4 DEF OrderedBy, r

\* _ipc_list_suspend under RT_IPC_FLAG_PRIO: a node goes in front of the first
\* one of a greater number, or to the end.  The list stays in order.
LEMMA InsertByRank ==
  ASSUME NEW S, NEW s \in Seq(S), NEW e \in S, NEW rank \in [S -> Int],
         NEW I, \A i : i \in I <=> i \in 1 .. Len(s) /\ rank[e] < rank[s[i]]
  PROVE  LET r == IF I = {} THEN Append(s, e) ELSE InsertAt(s, Min(I), e)
         IN  /\ r \in Seq(S) /\ r # <<>>
             /\ ToSet(r) = ToSet(s) \cup {e}
             /\ IsInjective(s) /\ e \notin ToSet(s) => IsInjective(r)
             /\ OrderedBy(s, rank) => OrderedBy(r, rank)
<1> DEFINE r == IF I = {} THEN Append(s, e) ELSE InsertAt(s, Min(I), e)
<1>0. Len(s) \in Nat /\ \A j \in 1 .. Len(s) : s[j] \in S /\ rank[s[j]] \in Int
  OBVIOUS
<1>1. CASE I = {}
  <2> DEFINE a == Append(s, e)
  <2>1. r = a
    BY <1>1
  <2>2. /\ a \in Seq(S) /\ a # <<>> /\ ToSet(a) = ToSet(s) \cup {e}
        /\ IsInjective(s) /\ e \notin ToSet(s) => IsInjective(a)
    BY AppendFacts
  <2>3. /\ Len(a) = Len(s) + 1 /\ a[Len(s) + 1] = e /\ \A j \in 1 .. Len(s) : a[j] = s[j]
    OBVIOUS
  <2>4. \A j \in 1 .. Len(s) : rank[s[j]] <= rank[e]
    BY <1>0, <1>1
  <2> HIDE DEF a, r
  <2>5. ASSUME OrderedBy(s, rank), NEW j \in 1 .. Len(a), NEW k \in 1 .. Len(a), j <= k
        PROVE  rank[a[j]] <= rank[a[k]]
    <3>1. CASE k = Len(s) + 1
      BY <1>0, <2>3, <2>4, <3>1
    <3>2. CASE k # Len(s) + 1
      <4>1. j \in 1 .. Len(s) /\ k \in 1 .. Len(s)
        BY <1>0, <2>3, <2>5, <3>2
      <4> QED
        BY <2>3, <2>5, <4>1 DEF OrderedBy
    <3> QED
      BY <3>1, <3>2
  <2>6. OrderedBy(s, rank) => OrderedBy(a, rank)
    BY <2>5 DEF OrderedBy
  <2> QED
    BY <2>1, <2>2, <2>6 DEF r
<1>2. CASE I # {}
  <2> DEFINE i == Min(I)
             a == InsertAt(s, i, e)
  <2>1. r = a
    BY <1>2
  <2>2. I \subseteq Nat
    OBVIOUS
  <2>3. i \in I /\ \A j \in I : i <= j
    BY <1>2, <2>2, MinFacts
  <2>4. i \in 1 .. Len(s) /\ i \in Nat /\ i <= Len(s) /\ rank[e] < rank[s[i]]
    BY <2>3
  <2>5. \A j \in 1 .. Len(s) : j < i => rank[s[j]] <= rank[e]
    BY <1>0, <2>3, <2>4
  <2> HIDE DEF i, r
  <2>6. a \in Seq(S)
    BY <2>4, InsertAtFacts
  <2>7. /\ a # <<>> /\ ToSet(a) = ToSet(s) \cup {e}
        /\ IsInjective(s) /\ e \notin ToSet(s) => IsInjective(a)
    BY <2>4, InsertNodes
  <2>8. OrderedBy(s, rank) => OrderedBy(a, rank)
    BY <2>4, <2>5, InsertOrdered
  <2> QED
    BY <2>1, <2>6, <2>7, <2>8 DEF r, i
<1> QED
  BY <1>1, <1>2

\* rt_list_remove keeps a list in order.
LEMMA RemoveFirstOrdered ==
  ASSUME NEW S, NEW s \in Seq(S), NEW e, IsInjective(s), NEW rank, OrderedBy(s, rank)
  PROVE  OrderedBy(RemoveFirst(s, e), rank)
<1>1. CASE \E i \in 1 .. Len(s) : s[i] = e
  <2>1. PICK i \in 1 .. Len(s) : s[i] = e
    BY <1>1
  <2> DEFINE r == RemoveAt(s, i)
  <2>2. RemoveFirst(s, e) = r
    BY <2>1, RemoveFirstIndex
  <2>3. /\ r \in Seq(S) /\ Len(r) = Len(s) - 1 /\ Len(s) \in Nat
        /\ \A j \in 1 .. Len(s) - 1 : r[j] = IF j < i THEN s[j] ELSE s[j + 1]
    BY RemoveAtFacts
  <2> HIDE DEF r
  <2>4. ASSUME NEW j \in 1 .. Len(r), NEW k \in 1 .. Len(r), j <= k
        PROVE  rank[r[j]] <= rank[r[k]]
    <3> DEFINE nj == IF j < i THEN j ELSE j + 1
               nk == IF k < i THEN k ELSE k + 1
    <3>1. /\ nj \in 1 .. Len(s) /\ nk \in 1 .. Len(s) /\ nj <= nk
          /\ r[j] = s[nj] /\ r[k] = s[nk]
      BY <2>3, <2>4
    <3> HIDE DEF nj, nk
    <3> QED
      BY <3>1 DEF OrderedBy
  <2> QED
    BY <2>2, <2>4 DEF OrderedBy
<1>2. CASE ~ \E i \in 1 .. Len(s) : s[i] = e
  BY <1>2 DEF RemoveFirst
<1> QED
  BY <1>1, <1>2

\* The first node of a list in order has the least number.
LEMMA HeadLeast ==
  ASSUME NEW S, NEW s \in Seq(S), s # <<>>, NEW rank, OrderedBy(s, rank),
         NEW e \in ToSet(s)
  PROVE  rank[Head(s)] <= rank[e]
<1>1. PICK j \in 1 .. Len(s) : s[j] = e
  BY DEF ToSet
<1>2. 1 \in 1 .. Len(s) /\ Head(s) = s[1] /\ 1 <= j
  OBVIOUS
<1> QED
  BY <1>1, <1>2 DEF OrderedBy

\* The order of a list depends on the numbers of its own nodes only.
LEMMA OrderedSame ==
  ASSUME NEW S, NEW s \in Seq(S), NEW rank, OrderedBy(s, rank),
         NEW other, \A e \in ToSet(s) : other[e] = rank[e]
  PROVE  OrderedBy(s, other)
<1>1. \A i \in 1 .. Len(s) : other[s[i]] = rank[s[i]]
  BY DEF ToSet
<1> QED
  BY <1>1 DEF OrderedBy

-----------------------------------------------------------------------------
\* Taking the first node out of a list.
LEMMA TailFacts ==
  ASSUME NEW S, NEW s \in Seq(S), s # <<>>, IsInjective(s)
  PROVE  /\ Tail(s) \in Seq(S) /\ IsInjective(Tail(s))
         /\ ToSet(Tail(s)) = ToSet(s) \ {Head(s)}
<1> DEFINE r == Tail(s)
<1>1. /\ r \in Seq(S) /\ Len(r) = Len(s) - 1 /\ Len(s) \in Nat /\ Len(s) >= 1
      /\ Head(s) = s[1] /\ \A j \in 1 .. Len(s) - 1 : r[j] = s[j + 1]
  OBVIOUS
<1> HIDE DEF r
<1>2. DOMAIN r = 1 .. Len(s) - 1 /\ DOMAIN s = 1 .. Len(s)
  BY <1>1
<1>3. \A j, k \in 1 .. Len(s) : s[j] = s[k] => j = k
  BY <1>2 DEF IsInjective
<1>4. ASSUME NEW j \in 1 .. Len(s) - 1, NEW k \in 1 .. Len(s) - 1, r[j] = r[k]
      PROVE  j = k
  <2>1. j + 1 \in 1 .. Len(s) /\ k + 1 \in 1 .. Len(s) /\ s[j + 1] = s[k + 1]
    BY <1>1, <1>4
  <2> QED
    BY <1>3, <2>1
<1>5. IsInjective(r)
  BY <1>2, <1>4 DEF IsInjective
<1>6. ASSUME NEW j \in 1 .. Len(s) - 1 PROVE r[j] \in ToSet(s) \ {Head(s)}
  <2>1. j + 1 \in 1 .. Len(s) /\ 1 \in 1 .. Len(s) /\ j + 1 # 1 /\ r[j] = s[j + 1]
    BY <1>1
  <2>2. s[j + 1] # s[1]
    BY <1>3, <2>1
  <2> QED
    BY <1>1, <1>2, <2>1, <2>2 DEF ToSet
<1>7. ASSUME NEW v \in ToSet(s) \ {Head(s)} PROVE v \in ToSet(r)
  <2>1. PICK j \in 1 .. Len(s) : s[j] = v /\ j # 1
    BY <1>1, <1>2 DEF ToSet
  <2>2. j - 1 \in 1 .. Len(s) - 1 /\ r[j - 1] = v
    BY <1>1, <2>1
  <2> QED
    BY <1>2, <2>2 DEF ToSet
<1> QED
  BY <1>1, <1>2, <1>5, <1>6, <1>7 DEF r, ToSet

\* Two lists without a common node, one behind the other.
LEMMA ConcatInjective ==
  ASSUME NEW S, NEW s \in Seq(S), NEW r \in Seq(S), IsInjective(s), IsInjective(r),
         ToSet(s) \cap ToSet(r) = {}
  PROVE  IsInjective(s \o r)
<1> DEFINE q == s \o r
<1>1. /\ DOMAIN q = 1 .. Len(s) + Len(r) /\ Len(s) \in Nat /\ Len(r) \in Nat
      /\ \A j \in 1 .. Len(s) : q[j] = s[j]
      /\ \A j \in Len(s) + 1 .. Len(s) + Len(r) : q[j] = r[j - Len(s)]
  OBVIOUS
<1> HIDE DEF q
<1>2. /\ \A j, k \in 1 .. Len(s) : s[j] = s[k] => j = k
      /\ \A j, k \in 1 .. Len(r) : r[j] = r[k] => j = k
      /\ \A j \in 1 .. Len(s), k \in 1 .. Len(r) : s[j] # r[k]
  <2>1. \A j \in 1 .. Len(s) : s[j] \in ToSet(s)
    BY DEF ToSet
  <2>2. \A j \in 1 .. Len(r) : r[j] \in ToSet(r)
    BY DEF ToSet
  <2> QED
    BY <2>1, <2>2 DEF IsInjective
<1>3. ASSUME NEW j \in DOMAIN q, NEW k \in DOMAIN q, q[j] = q[k], j < k
      PROVE  FALSE
  <2>1. CASE k <= Len(s)
    BY <1>1, <1>2, <1>3, <2>1
  <2>2. CASE j <= Len(s) /\ k > Len(s)
    <3>1. /\ q[j] = s[j] /\ q[k] = r[k - Len(s)] /\ j \in 1 .. Len(s)
          /\ k - Len(s) \in 1 .. Len(r)
      BY <1>1, <2>2
    <3> QED
      BY <1>2, <1>3, <3>1
  <2>3. CASE j > Len(s)
    <3>1. /\ q[j] = r[j - Len(s)] /\ q[k] = r[k - Len(s)] /\ j - Len(s) # k - Len(s)
          /\ j - Len(s) \in 1 .. Len(r) /\ k - Len(s) \in 1 .. Len(r)
      BY <1>1, <1>3, <2>3
    <3> QED
      BY <1>2, <1>3, <3>1
  <2> QED
    BY <1>1, <2>1, <2>2, <2>3
<1>4. ASSUME NEW j \in DOMAIN q, NEW k \in DOMAIN q, q[j] = q[k]
      PROVE  j = k
  BY <1>1, <1>3, <1>4
<1> QED
  BY <1>4 DEF IsInjective, q

\* Taking the first node out of a list in order.
LEMMA TailOrdered ==
  ASSUME NEW S, NEW s \in Seq(S), s # <<>>, NEW rank, OrderedBy(s, rank)
  PROVE  OrderedBy(Tail(s), rank)
<1>1. /\ Len(Tail(s)) = Len(s) - 1 /\ Len(s) \in Nat
      /\ \A j \in 1 .. Len(s) - 1 : Tail(s)[j] = s[j + 1]
  OBVIOUS
<1>2. ASSUME NEW j \in 1 .. Len(Tail(s)), NEW k \in 1 .. Len(Tail(s)), j <= k
      PROVE  rank[Tail(s)[j]] <= rank[Tail(s)[k]]
  <2>1. j + 1 \in 1 .. Len(s) /\ k + 1 \in 1 .. Len(s) /\ j + 1 <= k + 1
    BY <1>1, <1>2
  <2>2. rank[s[j + 1]] <= rank[s[k + 1]]
    BY <2>1 DEF OrderedBy
  <2> QED
    BY <1>1, <2>2
<1> QED
  BY <1>2 DEF OrderedBy

=============================================================================
