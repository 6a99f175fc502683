--------------------------- MODULE LinkListProofs ---------------------------
(***************************************************************************)
(* For any number of nodes, lists and blocks of data: the lists of LinkList*)
(* stay linked both ways and lose no node, what is copied keeps its order, *)
(* owned data have one owner, and every call acts on the lists as on       *)
(* sequences.  The proof has five layers: what following the next pointers *)
(* finds (Leads, ChainIs); one list as a sequence, and what adding,        *)
(* removing and reversing make of it (Good); the lists of a state          *)
(* (ShapeInv); the calls and turns of loops, one lemma for each action; and*)
(* what each of them does to the sequences (ChangesBy).                    *)
(***************************************************************************)
EXTENDS LinkList, FiniteSetTheorems, SequenceTheorems, WellFoundedInduction, TLAPS
-----------------------------------------------------------------------------
(* What the next pointers lead through *)

Below == {ss \in Nat \X Nat : ss[1] < ss[2]}

\* < on the naturals, for the least member below.
LEMMA LessIsWellFounded == IsWellFoundedOn(Below, Nat)
  BY NatLessThanWellFounded DEF OpToRel, Below

\* A set of naturals that is not empty has a least member.
LEMMA LeastMember ==
  ASSUME NEW T \in SUBSET Nat, T # {}
  PROVE  \E m \in T : \A k \in T : m <= k
<1>1. PICK m \in T : \A k \in T : ~(<<k, m>> \in Below)
  BY LessIsWellFounded, WFMin
<1>2. \A k \in T : ~(k < m)
  BY <1>1 DEF Below
<1> QED BY <1>2

\* c is what comes from from by the pointers nx.
Leads(nx, from, c) ==
  /\ c \in Seq(Nodes)
  /\ from = IF Len(c) = 0 THEN Null ELSE c[1]
  /\ \A i \in 1 .. Len(c) : nx[c[i]] = IF i = Len(c) THEN Null ELSE c[i + 1]

\* A sequence is a function on 1 .. Len.
LEMMA SeqFacts ==
  ASSUME NEW S, NEW s \in Seq(S)
  PROVE  /\ Len(s) \in Nat /\ DOMAIN s = 1 .. Len(s)
         /\ \A i \in 1 .. Len(s) : s[i] \in S
BY LenProperties, ElementOfSeq

\* One turn, with f for those before.
Turn(f, nx, from) ==
  [i \in Nat |->
     IF i <= 1 THEN from ELSE LET node == f[i - 1] IN IF node = Null THEN Null ELSE nx[node]]

\* node = node->next from the first node of c visits c, then NULL.
LEMMA VisitedIs ==
  ASSUME NEW nx, NEW from, NEW c, Leads(nx, from, c)
  PROVE  \A i \in Nat : Visited(nx, from)[i] =
           IF i <= 1 THEN from ELSE IF i <= Len(c) THEN c[i] ELSE Null
<1> DEFINE g == [i \in Nat |-> IF i <= 1 THEN from ELSE IF i <= Len(c) THEN c[i] ELSE Null]
           at == Visited(nx, from)
           T == {i \in Nat : at[i] # g[i]}
<1>1. Len(c) \in Nat /\ \A i \in 1 .. Len(c) : c[i] \in Nodes /\ c[i] # Null
  BY SeqFacts, ListConstants DEF Leads
<1>2. \A i \in Nat : Turn(g, nx, from)[i] = g[i]
  <2> SUFFICES ASSUME NEW i \in Nat, i > 1
               PROVE  (IF g[i - 1] = Null THEN Null ELSE nx[g[i - 1]]) = IF i <= Len(c) THEN c[i] ELSE Null
    BY DEF Turn
  <2>1. i - 1 \in Nat /\ i - 1 >= 1
    OBVIOUS
  <2>2. g[i - 1] = IF i - 1 <= Len(c) THEN c[i - 1] ELSE Null
    <3>1. CASE i - 1 = 1
      BY <1>1, <2>1, <3>1 DEF Leads
    <3>2. CASE i - 1 > 1
      BY <1>1, <2>1, <3>2
    <3> QED BY <2>1, <3>1, <3>2
  <2> HIDE DEF g
  <2>3. CASE i - 1 <= Len(c)
    <3>1. i - 1 \in 1 .. Len(c)
      BY <1>1, <2>1, <2>3
    <3>2. nx[c[i - 1]] = IF i - 1 = Len(c) THEN Null ELSE c[i]
      BY <3>1 DEF Leads
    <3>3. g[i - 1] = c[i - 1] /\ c[i - 1] # Null
      BY <1>1, <2>2, <2>3, <3>1
    <3> QED BY <1>1, <2>3, <3>2, <3>3
  <2>4. CASE i - 1 > Len(c)
    BY <1>1, <2>2, <2>4
  <2> QED BY <1>1, <2>1, <2>3, <2>4
<1>3. g = Turn(g, nx, from)
  BY <1>2 DEF Turn
<1>4. at = Turn(at, nx, from)
  <2> HIDE DEF g
  <2>1. at = CHOOSE f : f = [i \in Nat |->
     IF i <= 1 THEN from ELSE LET node == f[i - 1] IN IF node = Null THEN Null ELSE nx[node]]
    BY DEF Visited
  <2>2. at = CHOOSE f : f = Turn(f, nx, from)
    BY <2>1, Zenon DEF Turn
  <2> HIDE DEF at
  <2> QED BY <1>3, <2>2
<1> HIDE DEF g, at
<1>5. T = {}
  <2> SUFFICES ASSUME T # {} PROVE FALSE
    OBVIOUS
  <2>1. PICK m \in T : \A k \in T : m <= k
    <3>1. T \in SUBSET Nat
      OBVIOUS
    <3> HIDE DEF T
    <3> QED BY <3>1, LeastMember
  <2>2. at[m] # g[m] /\ m \in Nat
    OBVIOUS
  <2>3. CASE m <= 1
    <3>1. Turn(at, nx, from)[m] = from /\ Turn(g, nx, from)[m] = from
      BY <2>2, <2>3 DEF Turn
    <3> QED BY <1>3, <1>4, <2>2, <3>1
  <2>4. CASE m > 1
    <3>1. m - 1 \in Nat /\ ~(m <= m - 1)
      BY <2>2, <2>4
    <3>2. at[m - 1] = g[m - 1]
      BY <2>1, <3>1
    <3>3. Turn(at, nx, from)[m] = Turn(g, nx, from)[m]
      BY <2>2, <3>2 DEF Turn
    <3> QED BY <1>3, <1>4, <2>2, <3>3
  <2> QED BY <2>2, <2>3, <2>4
<1>6. \A i \in Nat : at[i] = g[i]
  BY <1>5
<1> QED BY <1>6 DEF at, g

Distinct(c) == \A i, j \in 1 .. Len(c) : c[i] = c[j] => i = j

\* 1 .. k has k members.
LEMMA IntervalSize ==
  ASSUME NEW k \in Nat
  PROVE  Cardinality(1 .. k) = k
<1>1. 1 \in Int /\ k \in Int
  OBVIOUS
<1>2. Cardinality(1 .. k) = IF 1 > k THEN 0 ELSE k - 1 + 1
  BY <1>1, FS_Interval
<1> QED BY <1>2

\* A list whose nodes differ is no longer than there is memory.
LEMMA NoLongerThanHeap ==
  ASSUME NEW c \in Seq(Nodes), Distinct(c)
  PROVE  Len(c) <= Cardinality(Nodes) /\ Cardinality(Nodes) \in Nat
<1>1. Len(c) \in Nat /\ Cardinality(Nodes) \in Nat /\ IsFiniteSet(Nodes)
  BY SeqFacts, ListConstants, FS_CardinalityType
<1>2. c \in Injection(1 .. Len(c), Nodes)
  <2>1. c \in [1 .. Len(c) -> Nodes]
    BY LenProperties
  <2> QED BY <2>1 DEF Distinct, Injection, IsInjective
<1>3. Cardinality(1 .. Len(c)) <= Cardinality(Nodes)
  BY <1>1, <1>2, FS_Injection
<1>4. Cardinality(1 .. Len(c)) = Len(c)
  BY <1>1, IntervalSize
<1> QED BY <1>1, <1>3, <1>4

\* So the walk that ends is the list.
LEMMA ChainIs ==
  ASSUME NEW nx, NEW from, NEW c, Leads(nx, from, c), Distinct(c)
  PROVE  ChainIn(nx, from) = c
<1> DEFINE at == Visited(nx, from)
           N == Cardinality(Nodes)
           met == {i \in 1 .. (N + 1) : at[i] # Null}
<1>1. Len(c) \in Nat /\ N \in Nat /\ Len(c) <= N
  BY SeqFacts, NoLongerThanHeap DEF Leads
<1>2. \A i \in 1 .. Len(c) : c[i] # Null
  BY SeqFacts, ListConstants DEF Leads
<1>3. \A i \in Nat : i >= 1 => at[i] = IF i <= Len(c) THEN c[i] ELSE Null
  <2> SUFFICES ASSUME NEW i \in Nat, i >= 1 PROVE at[i] = IF i <= Len(c) THEN c[i] ELSE Null
    OBVIOUS
  <2>1. at[i] = IF i <= 1 THEN from ELSE IF i <= Len(c) THEN c[i] ELSE Null
    BY VisitedIs
  <2> HIDE DEF at
  <2> QED BY <1>1, <2>1 DEF Leads
<1> HIDE DEF at, N
<1>4. met = 1 .. Len(c)
  BY <1>1, <1>2, <1>3
<1>5. Cardinality(met) = Len(c)
  <2> HIDE DEF met
  <2> QED BY <1>1, <1>4, IntervalSize
<1>6. ChainIn(nx, from) = [i \in 1 .. Cardinality(met) |-> at[i]]
  BY DEF ChainIn, at, N
<1>7. [i \in 1 .. Len(c) |-> at[i]] = c
  <2>1. c = [i \in 1 .. Len(c) |-> c[i]]
    BY LenProperties DEF Leads
  <2> QED BY <1>1, <1>3, <2>1
<1> HIDE DEF met
<1> QED BY <1>5, <1>6, <1>7
-----------------------------------------------------------------------------
Live == Lists \ spent

\* c is the list between f and z, k nodes long, by the pointers nx and pv.
Good(c, f, z, k, nx, pv) ==
  /\ c \in Seq(Nodes)
  /\ Distinct(c)
  /\ f = IF Len(c) = 0 THEN Null ELSE c[1]
  /\ z = IF Len(c) = 0 THEN Null ELSE c[Len(c)]
  /\ k = Len(c)
  /\ \A i \in 1 .. Len(c) : /\ nx[c[i]] = IF i = Len(c) THEN Null ELSE c[i + 1]
                            /\ pv[c[i]] = IF i = 1 THEN Null ELSE c[i - 1]

\* Every list that is in use is linked both ways, and its nodes are allocated and
\* know whose they are.
ListInv(l) ==
  /\ Good(Chain(l), first[l], last[l], count[l], next, prev)
  /\ \A i \in 1 .. Len(Chain(l)) : Chain(l)[i] \in heap /\ owner[Chain(l)[i]] = l

ShapeInv == \A l \in Live : ListInv(l)

\* No node is lost; one may be on its way in a merge.
HeapInv ==
  \A n \in heap :
    \/ \E l \in Live : n \in Members(l)
    \/ loop.kind = "merge" /\ loop.at = n

\* Data a node owns are allocated, not the caller's, and no other node's; and
\* whatever is allocated is some node's or the caller's.
DataInv ==
  /\ \A n \in heap : mine[n] /\ payload[n] # Null => payload[n] \in alive \ handed
  /\ \A m, n \in heap : mine[m] /\ mine[n] /\ payload[m] = payload[n] /\ payload[n] # Null => m = n
  /\ \A b \in alive \ handed : \E n \in heap : mine[n] /\ payload[n] = b

Loops ==
  [kind : {"add", "extract", "merge", "remove"}, list : Lists, at : Nodes \cup {Null},
   node : Nodes \cup {Null}, after : Nodes \cup {Null, LastNode}, max : Nat, free : BOOLEAN,
   count : Nat, stopped : BOOLEAN, added : Seq(Nat), source : Seq(Nodes), before : Nat]

\* Where a loop over its source is.
AtSource(lp) ==
  /\ lp.count <= Len(lp.source)
  /\ lp.at = IF lp.count < Len(lp.source) THEN lp.source[lp.count + 1] ELSE Null

\* The loop of listAddNodeList: the source, a list of its own, is as it was, its
\* nodes own nothing, and the copies stand behind after, the last being node.
AddLoop(lp) ==
  LET c == Chain(lp.list) IN
  /\ \E s \in Live \ {lp.list} : lp.source = Chain(s)
  /\ \A i \in 1 .. Len(lp.source) : ~mine[lp.source[i]]
  /\ AtSource(lp)
  /\ lp.node = Null <=> lp.count = 0
  /\ lp.after \in Places(lp.list)
  /\ lp.node # Null => \E k \in 1 .. Len(c) :
       /\ c[k] = lp.node
       /\ k >= lp.count
       /\ \A i \in 1 .. lp.count : payload[c[k - lp.count + i]] = payload[lp.source[i]]
       /\ lp.after = Null => k = lp.count
       /\ lp.after = LastNode => k = Len(c)
       /\ lp.after \in Nodes => k > lp.count /\ c[k - lp.count] = lp.after

\* The loop of listExtract: the source is the rest of a list, and the new list
\* holds what has been met of it in the turns that found memory.
ExtractLoop(lp) ==
  LET c == Chain(lp.list) IN
  /\ \E s \in Live \ {lp.list} : \E j \in 0 .. Len(Chain(s)) :
       /\ Len(Chain(s)) = Len(lp.source) + j
       /\ \A i \in 1 .. Len(lp.source) : lp.source[i] = Chain(s)[i + j]
  /\ AtSource(lp)
  /\ Len(c) = Len(lp.added)
  /\ \A i \in 1 .. Len(lp.added) :
       lp.added[i] \in 1 .. lp.count /\ payload[c[i]] = payload[lp.source[lp.added[i]]]

\* The loop of listMerge: what is to come is a node alone, and nobody's any more.
MergeLoop(lp) ==
  /\ ~lp.stopped
  /\ lp.at # Null =>
       /\ lp.node = Null /\ lp.count < lp.max
       /\ lp.at \in heap
       /\ next[lp.at] = Null
       /\ Anchor(lp.list, lp.after) = last[lp.list]
       /\ lp.after = Null => Chain(lp.list) = <<>>
       /\ \A l \in Live : lp.at \notin Members(l)

\* The loop of listRemoveNodes stays in its list.
RemoveLoop(lp) ==
  /\ lp.at # Null /\ ~lp.stopped => lp.at \in Members(lp.list)
  /\ lp.free => \A n \in Members(lp.list) : mine[n]

LoopIs(lp) ==
  /\ lp \in Loops /\ lp.list \in Live
  /\ lp.kind = "add" => AddLoop(lp)
  /\ lp.kind = "extract" => ExtractLoop(lp)
  /\ lp.kind = "merge" => MergeLoop(lp)
  /\ lp.kind = "remove" => RemoveLoop(lp)

LoopInv == loop = NoLoop \/ LoopIs(loop)

\* What holds between the calls.
AllListed == \A n \in heap : \E l \in Live : n \in Members(l)

Rest == TypeOK /\ ShapeInv /\ AllListed /\ DataInv

IInv == TypeOK /\ ShapeInv /\ HeapInv /\ DataInv /\ LoopInv
-----------------------------------------------------------------------------
(* Lists that are linked both ways stay so *)

\* listVerify, which only follows the next pointers, finds the list.
LEMMA GoodChain ==
  ASSUME NEW c, NEW f, NEW z, NEW k, NEW nx, NEW pv, Good(c, f, z, k, nx, pv)
  PROVE  ChainIn(nx, f) = c
<1>1. Leads(nx, f, c) /\ Distinct(c)
  BY DEF Good, Leads
<1> QED BY <1>1, ChainIs

\* A list stays as it is when the pointers of its own nodes do.
LEMMA GoodFrame ==
  ASSUME NEW c, NEW f, NEW z, NEW k, NEW nx, NEW pv, Good(c, f, z, k, nx, pv),
         NEW nx2, NEW pv2,
         \A i \in 1 .. Len(c) : nx2[c[i]] = nx[c[i]] /\ pv2[c[i]] = pv[c[i]]
  PROVE  Good(c, f, z, k, nx2, pv2)
BY DEF Good

\* A list without nodes.
LEMMA GoodEmpty ==
  ASSUME NEW nx, NEW pv
  PROVE  Good(<<>>, Null, Null, 0, nx, pv)
<1>1. <<>> \in Seq(Nodes) /\ Len(<<>>) = 0 /\ 1 .. 0 = {}
  OBVIOUS
<1> QED BY <1>1 DEF Good, Distinct

\* c with n in the place behind the first p.
With(c, p, n) ==
  [i \in 1 .. (Len(c) + 1) |-> IF i <= p THEN c[i] ELSE IF i = p + 1 THEN n ELSE c[i - 1]]

\* What With is, index by index.
LEMMA WithIs ==
  ASSUME NEW c \in Seq(Nodes), NEW p \in 0 .. Len(c), NEW n \in Nodes
  PROVE  /\ With(c, p, n) \in Seq(Nodes) /\ Len(With(c, p, n)) = Len(c) + 1
         /\ Len(c) \in Nat
         /\ \A i \in 1 .. Len(c) + 1 : /\ i <= p => i \in 1 .. Len(c) /\ With(c, p, n)[i] = c[i]
                                       /\ i = p + 1 => With(c, p, n)[i] = n
                                       /\ i > p + 1 => i - 1 \in 1 .. Len(c) /\ With(c, p, n)[i] = c[i - 1]
<1> DEFINE r == With(c, p, n)
<1>1. Len(c) \in Nat /\ \A i \in 1 .. Len(c) : c[i] \in Nodes
  BY SeqFacts
<1>2. \A i \in 1 .. Len(c) + 1 : /\ i <= p => i \in 1 .. Len(c) /\ r[i] = c[i]
                                 /\ i = p + 1 => r[i] = n
                                 /\ i > p + 1 => i - 1 \in 1 .. Len(c) /\ r[i] = c[i - 1]
  BY <1>1 DEF With
<1>3. \A i \in 1 .. Len(c) + 1 : r[i] \in Nodes
  BY <1>1, <1>2
<1>4. r \in [1 .. Len(c) + 1 -> Nodes]
  <2>1. r = [i \in 1 .. Len(c) + 1 |-> r[i]]
    BY DEF With
  <2> HIDE DEF r
  <2> QED BY <1>3, <2>1
<1> HIDE DEF r
<1>5. r \in Seq(Nodes) /\ Len(r) = Len(c) + 1
  BY <1>1, <1>4
<1> QED BY <1>1, <1>2, <1>5 DEF r

\* The assignments of list_add_node put a node behind the p-th.
LEMMA GoodWith ==
  ASSUME NEW c, NEW f, NEW z, NEW k, NEW nx, NEW pv, Good(c, f, z, k, nx, pv),
         NEW n \in Nodes, \A i \in 1 .. Len(c) : c[i] # n,
         NEW p \in 0 .. Len(c), NEW f2, NEW z2, NEW k2, NEW nx2, NEW pv2,
         nx2[n] = IF p = Len(c) THEN Null ELSE c[p + 1],
         pv2[n] = IF p = 0 THEN Null ELSE c[p],
         \A i \in 1 .. Len(c) : nx2[c[i]] = IF i = p THEN n ELSE nx[c[i]],
         \A i \in 1 .. Len(c) : pv2[c[i]] = IF i = p + 1 THEN n ELSE pv[c[i]],
         f2 = IF p = 0 THEN n ELSE f,
         z2 = IF p = Len(c) THEN n ELSE z,
         k2 = k + 1
  PROVE  Good(With(c, p, n), f2, z2, k2, nx2, pv2)
<1> DEFINE r == With(c, p, n)
<1>1. c \in Seq(Nodes) /\ Distinct(c) /\ k = Len(c)
  BY DEF Good
<1>2. /\ r \in Seq(Nodes) /\ Len(r) = Len(c) + 1 /\ Len(c) \in Nat
      /\ \A i \in 1 .. Len(c) + 1 : /\ i <= p => i \in 1 .. Len(c) /\ r[i] = c[i]
                                    /\ i = p + 1 => r[i] = n
                                    /\ i > p + 1 => i - 1 \in 1 .. Len(c) /\ r[i] = c[i - 1]
  BY <1>1, WithIs
<1> HIDE DEF r
<1>3. Distinct(r)
  <2> SUFFICES ASSUME NEW i \in 1 .. Len(r), NEW j \in 1 .. Len(r), r[i] = r[j], i < j PROVE FALSE
    BY <1>2 DEF Distinct
  <2> QED BY <1>1, <1>2 DEF Distinct
<1>4. f2 = r[1] /\ z2 = r[Len(r)]
  <2>1. 1 \in 1 .. Len(c) + 1 /\ Len(c) + 1 \in 1 .. Len(c) + 1
    BY <1>2
  <2>2. f2 = r[1]
    BY <1>2, <2>1 DEF Good
  <2>3. z2 = r[Len(r)]
    BY <1>2, <2>1 DEF Good
  <2> QED BY <2>2, <2>3
<1>5. ASSUME NEW i \in 1 .. Len(r) PROVE nx2[r[i]] = IF i = Len(r) THEN Null ELSE r[i + 1]
  <2>1. CASE i < p
    BY <1>2, <2>1 DEF Good
  <2>2. CASE i = p
    BY <1>2, <2>2 DEF Good
  <2>3. CASE i = p + 1
    <3>1. CASE p = Len(c)
      BY <1>2, <2>3, <3>1
    <3>2. CASE p # Len(c)
      <4>1. p + 2 \in 1 .. Len(c) + 1 /\ i + 1 = p + 2 /\ p + 2 > p + 1 /\ i # Len(r)
        BY <1>2, <2>3, <3>2
      <4>2. r[p + 2] = c[p + 2 - 1] /\ r[i] = n
        BY <1>2, <2>3, <4>1
      <4>3. p + 2 - 1 = p + 1
        OBVIOUS
      <4> QED BY <3>2, <4>1, <4>2, <4>3
    <3> QED BY <3>1, <3>2
  <2>4. CASE i > p + 1
    <3>1. i - 1 \in 1 .. Len(c) /\ r[i] = c[i - 1] /\ i - 1 # p
      BY <1>2, <2>4
    <3>2. nx2[c[i - 1]] = IF i - 1 = Len(c) THEN Null ELSE c[i - 1 + 1]
      BY <3>1 DEF Good
    <3>3. i - 1 + 1 = i
      OBVIOUS
    <3>4. i # Len(r) => r[i + 1] = c[i]
      <4> SUFFICES ASSUME i # Len(r) PROVE r[i + 1] = c[i]
        OBVIOUS
      <4>1. i + 1 \in 1 .. Len(c) + 1 /\ i + 1 > p + 1
        BY <1>2, <2>4
      <4>2. r[i + 1] = c[i + 1 - 1]
        BY <1>2, <4>1
      <4> QED BY <4>2
    <3> QED BY <1>2, <3>1, <3>2, <3>3, <3>4
  <2> QED BY <2>1, <2>2, <2>3, <2>4
<1>6. ASSUME NEW i \in 1 .. Len(r) PROVE pv2[r[i]] = IF i = 1 THEN Null ELSE r[i - 1]
  <2>1. CASE i <= p
    <3>1. pv2[c[i]] = IF i = 1 THEN Null ELSE c[i - 1]
      BY <1>2, <2>1 DEF Good
    <3>2. i # 1 => i - 1 \in 1 .. Len(c) + 1 /\ i - 1 <= p
      BY <1>2, <2>1
    <3> QED BY <1>2, <2>1, <3>1, <3>2
  <2>2. CASE i = p + 1
    <3>1. p # 0 => p \in 1 .. Len(c) + 1
      BY <1>2
    <3> QED BY <1>2, <2>2, <3>1
  <2>3. CASE i = p + 2
    <3>1. i - 1 \in 1 .. Len(c) /\ i - 1 = p + 1 /\ r[i] = c[i - 1] /\ i # 1
      BY <1>2, <2>3
    <3>2. r[i - 1] = n
      BY <1>2, <3>1
    <3> QED BY <3>1, <3>2
  <2>4. CASE i > p + 2
    <3>1. i - 1 \in 1 .. Len(c) /\ i - 1 # p + 1 /\ r[i] = c[i - 1] /\ i # 1 /\ i - 1 # 1
      BY <1>2, <2>4
    <3>2. pv2[c[i - 1]] = c[i - 1 - 1]
      BY <3>1 DEF Good
    <3>3. i - 1 \in 1 .. Len(c) + 1 /\ i - 1 > p + 1
      BY <1>2, <2>4
    <3>4. r[i - 1] = c[i - 1 - 1]
      BY <1>2, <3>3
    <3> QED BY <3>1, <3>2, <3>4
  <2>5. i <= p \/ i = p + 1 \/ i = p + 2 \/ i > p + 2
    BY <1>2
  <2> QED BY <2>1, <2>2, <2>3, <2>4, <2>5
<1>7. Len(r) # 0
  BY <1>2
<1> QED BY <1>1, <1>2, <1>3, <1>4, <1>5, <1>6, <1>7 DEF Good, r

\* c with the place p left out.
Without(c, p) ==
  [i \in 1 .. (Len(c) - 1) |-> IF i < p THEN c[i] ELSE c[i + 1]]

\* What Without is, index by index.
LEMMA WithoutIs ==
  ASSUME NEW c \in Seq(Nodes), NEW p \in 1 .. Len(c)
  PROVE  /\ Without(c, p) \in Seq(Nodes) /\ Len(Without(c, p)) = Len(c) - 1
         /\ Len(c) \in Nat /\ Len(c) - 1 \in Nat
         /\ \A i \in 1 .. Len(c) - 1 : /\ i < p => Without(c, p)[i] = c[i]
                                       /\ i >= p => Without(c, p)[i] = c[i + 1]
                                       /\ i \in 1 .. Len(c) /\ i + 1 \in 1 .. Len(c)
<1> DEFINE r == Without(c, p)
<1>1. Len(c) \in Nat /\ Len(c) - 1 \in Nat /\ \A i \in 1 .. Len(c) : c[i] \in Nodes
  BY SeqFacts
<1>2. \A i \in 1 .. Len(c) - 1 : /\ i < p => r[i] = c[i]
                                 /\ i >= p => r[i] = c[i + 1]
                                 /\ i \in 1 .. Len(c) /\ i + 1 \in 1 .. Len(c)
  BY <1>1 DEF Without
<1>3. \A i \in 1 .. Len(c) - 1 : r[i] \in Nodes
  BY <1>1, <1>2
<1>4. r \in [1 .. Len(c) - 1 -> Nodes]
  <2>1. r = [i \in 1 .. Len(c) - 1 |-> r[i]]
    BY DEF Without
  <2> HIDE DEF r
  <2> QED BY <1>3, <2>1
<1> HIDE DEF r
<1>5. r \in Seq(Nodes) /\ Len(r) = Len(c) - 1
  BY <1>1, <1>4
<1> QED BY <1>1, <1>2, <1>5 DEF r

\* The assignments of list_remove_node to the pointers of the list c, for its p-th node.
TakesOut(c, p, f, z, k, nx, pv, f2, z2, k2, nx2, pv2) ==
  /\ \A i \in 1 .. Len(c) : i # p => nx2[c[i]] = IF i + 1 = p THEN nx[c[p]] ELSE nx[c[i]]
  /\ \A i \in 1 .. Len(c) : i # p => pv2[c[i]] = IF i = p + 1 THEN pv[c[p]] ELSE pv[c[i]]
  /\ f2 = IF p = 1 THEN nx[c[p]] ELSE f
  /\ z2 = IF p = Len(c) THEN pv[c[p]] ELSE z
  /\ k2 = k - 1

\* The assignments of list_remove_node take out the p-th.
LEMMA GoodWithout ==
  ASSUME NEW c, NEW f, NEW z, NEW k, NEW nx, NEW pv, Good(c, f, z, k, nx, pv),
         NEW p \in 1 .. Len(c), NEW f2, NEW z2, NEW k2, NEW nx2, NEW pv2,
         TakesOut(c, p, f, z, k, nx, pv, f2, z2, k2, nx2, pv2)
  PROVE  Good(Without(c, p), f2, z2, k2, nx2, pv2)
<1> DEFINE r == Without(c, p)
<1>1. c \in Seq(Nodes) /\ Distinct(c) /\ k = Len(c)
  BY DEF Good
<1>2. /\ r \in Seq(Nodes) /\ Len(r) = Len(c) - 1 /\ Len(c) \in Nat /\ Len(c) - 1 \in Nat
      /\ \A i \in 1 .. Len(c) - 1 : /\ i < p => r[i] = c[i]
                                    /\ i >= p => r[i] = c[i + 1]
                                    /\ i \in 1 .. Len(c) /\ i + 1 \in 1 .. Len(c)
  BY <1>1, WithoutIs
<1> HIDE DEF r
<1>3. Distinct(r)
  <2>0. Len(r) = Len(c) - 1 /\ Len(c) - 1 \in Nat
    BY <1>2
  <2> SUFFICES ASSUME NEW i \in 1 .. Len(r), NEW j \in 1 .. Len(r), r[i] = r[j], i < j PROVE FALSE
    <3>1. ASSUME NEW i \in 1 .. Len(r), NEW j \in 1 .. Len(r), r[i] = r[j], i # j PROVE i < j \/ j < i
      BY <2>0, <3>1
    <3> QED BY <3>1 DEF Distinct
  <2>1. \A x, y \in 1 .. Len(c) : c[x] = c[y] => x = y
    BY <1>1 DEF Distinct
  <2>2. i \in 1 .. Len(c) - 1 /\ j \in 1 .. Len(c) - 1
    BY <1>2
  <2>3. CASE j < p
    <3>1. i < p /\ r[i] = c[i] /\ r[j] = c[j] /\ i \in 1 .. Len(c) /\ j \in 1 .. Len(c) /\ i # j
      BY <1>2, <2>2, <2>3
    <3> QED BY <2>1, <2>2, <3>1
  <2>4. CASE i < p /\ j >= p
    <3>1. r[i] = c[i] /\ r[j] = c[j + 1] /\ i \in 1 .. Len(c) /\ j + 1 \in 1 .. Len(c) /\ i # j + 1
      BY <1>2, <2>2, <2>4
    <3> QED BY <2>1, <2>2, <3>1
  <2>5. CASE i >= p
    <3>1. /\ r[i] = c[i + 1] /\ r[j] = c[j + 1]
          /\ i + 1 \in 1 .. Len(c) /\ j + 1 \in 1 .. Len(c) /\ i + 1 # j + 1
      BY <1>2, <2>2, <2>5
    <3> QED BY <2>1, <2>2, <3>1
  <2> QED BY <2>2, <2>3, <2>4, <2>5
<1>4. f2 = IF Len(r) = 0 THEN Null ELSE r[1]
  <2>1. CASE p = 1
    <3>1. nx[c[1]] = IF 1 = Len(c) THEN Null ELSE c[2]
      BY <1>2, <2>1 DEF Good
    <3>2. Len(r) # 0 => 1 \in 1 .. Len(c) - 1
      BY <1>2
    <3> QED BY <1>2, <2>1, <3>1, <3>2 DEF TakesOut
  <2>2. CASE p > 1
    <3>1. 1 \in 1 .. Len(c) - 1 /\ Len(r) # 0 /\ Len(c) # 0
      BY <1>2, <2>2
    <3>2. f = c[1] /\ r[1] = c[1]
      BY <1>2, <2>2, <3>1 DEF Good
    <3> QED BY <2>2, <3>1, <3>2 DEF TakesOut
  <2> QED BY <2>1, <2>2
<1>5. z2 = IF Len(r) = 0 THEN Null ELSE r[Len(r)]
  <2>1. CASE p = Len(c)
    <3>1. pv[c[p]] = IF p = 1 THEN Null ELSE c[p - 1]
      BY DEF Good
    <3>2. p # 1 => p - 1 \in 1 .. Len(c) - 1 /\ p - 1 < p /\ Len(r) = p - 1
      BY <1>2, <2>1
    <3>3. p = 1 <=> Len(r) = 0
      BY <1>2, <2>1
    <3> QED BY <1>2, <2>1, <3>1, <3>2, <3>3 DEF TakesOut
  <2>2. CASE p < Len(c)
    <3>1. Len(c) - 1 \in 1 .. Len(c) - 1 /\ Len(c) - 1 >= p /\ Len(r) # 0 /\ Len(c) # 0
      BY <1>2, <2>2
    <3>2. z = c[Len(c)] /\ r[Len(c) - 1] = c[Len(c) - 1 + 1] /\ Len(c) - 1 + 1 = Len(c)
      BY <1>2, <2>2, <3>1 DEF Good
    <3> QED BY <1>2, <2>2, <3>1, <3>2 DEF TakesOut
  <2> QED BY <1>2, <2>1, <2>2
<1>6. ASSUME NEW i \in 1 .. Len(r) PROVE nx2[r[i]] = IF i = Len(r) THEN Null ELSE r[i + 1]
  <2>0. i \in 1 .. Len(c) - 1 /\ (i # Len(r) => i + 1 \in 1 .. Len(c) - 1)
    BY <1>2
  <2>1. CASE i + 1 < p
    <3>1. i \in 1 .. Len(c) /\ i # p /\ i + 1 # p /\ i + 1 \in 1 .. Len(c) - 1 /\ i # Len(c) /\ i # Len(r)
      BY <1>2, <2>0, <2>1
    <3>2. nx2[c[i]] = nx[c[i]] /\ nx[c[i]] = c[i + 1]
      BY <3>1 DEF Good, TakesOut
    <3>3. r[i] = c[i] /\ r[i + 1] = c[i + 1]
      BY <1>2, <2>0, <2>1, <3>1
    <3> QED BY <3>1, <3>2, <3>3
  <2>2. CASE i + 1 = p
    <3>1. i \in 1 .. Len(c) /\ i # p /\ r[i] = c[i]
      BY <1>2, <2>0, <2>2
    <3>2. nx2[c[i]] = nx[c[p]] /\ nx[c[p]] = IF p = Len(c) THEN Null ELSE c[p + 1]
      BY <2>2, <3>1 DEF Good, TakesOut
    <3>3. p = Len(c) <=> i = Len(r)
      BY <1>2, <2>2
    <3>4. i # Len(r) => r[i + 1] = c[p + 1]
      BY <1>2, <2>0, <2>2
    <3> QED BY <3>1, <3>2, <3>3, <3>4
  <2>3. CASE i >= p
    <3>1. i + 1 \in 1 .. Len(c) /\ i + 1 # p /\ i + 1 + 1 # p /\ r[i] = c[i + 1]
      BY <1>2, <2>0, <2>3
    <3>2. nx2[c[i + 1]] = nx[c[i + 1]] /\ nx[c[i + 1]] = IF i + 1 = Len(c) THEN Null ELSE c[i + 1 + 1]
      BY <3>1 DEF Good, TakesOut
    <3>3. i + 1 = Len(c) <=> i = Len(r)
      BY <1>2
    <3>4. i # Len(r) => r[i + 1] = c[i + 1 + 1]
      BY <1>2, <2>0, <2>3
    <3> QED BY <3>1, <3>2, <3>3, <3>4
  <2> QED BY <1>2, <2>1, <2>2, <2>3
<1>7. ASSUME NEW i \in 1 .. Len(r) PROVE pv2[r[i]] = IF i = 1 THEN Null ELSE r[i - 1]
  <2>0. i \in 1 .. Len(c) - 1 /\ (i # 1 => i - 1 \in 1 .. Len(c) - 1)
    BY <1>2
  <2>1. CASE i < p
    <3>1. i \in 1 .. Len(c) /\ i # p /\ i # p + 1 /\ r[i] = c[i]
      BY <1>2, <2>0, <2>1
    <3>2. pv2[c[i]] = pv[c[i]] /\ pv[c[i]] = IF i = 1 THEN Null ELSE c[i - 1]
      BY <3>1 DEF Good, TakesOut
    <3>3. i # 1 => r[i - 1] = c[i - 1]
      BY <1>2, <2>0, <2>1
    <3> QED BY <3>1, <3>2, <3>3
  <2>2. CASE i = p
    <3>1. i + 1 \in 1 .. Len(c) /\ i + 1 # p /\ i + 1 = p + 1 /\ r[i] = c[i + 1]
      BY <1>2, <2>0, <2>2
    <3>2. pv2[c[i + 1]] = pv[c[p]] /\ pv[c[p]] = IF p = 1 THEN Null ELSE c[p - 1]
      BY <3>1 DEF Good, TakesOut
    <3>3. i # 1 => r[i - 1] = c[i - 1]
      BY <1>2, <2>0, <2>2
    <3> QED BY <2>2, <3>1, <3>2, <3>3
  <2>3. CASE i > p
    <3>0. i \in Nat /\ i >= 1 /\ p \in Nat /\ p >= 1
      BY <1>2, <2>0
    <3>1. i + 1 \in 1 .. Len(c) /\ i + 1 # p /\ i + 1 # p + 1 /\ i + 1 # 1 /\ i # 1 /\ r[i] = c[i + 1]
      <4>1. i + 1 \in 1 .. Len(c) /\ r[i] = c[i + 1]
        BY <1>2, <2>0, <2>3, <3>0
      <4> QED BY <2>3, <3>0, <4>1
    <3>2. pv2[c[i + 1]] = pv[c[i + 1]] /\ pv[c[i + 1]] = c[i + 1 - 1]
      BY <3>1 DEF Good, TakesOut
    <3>3. r[i - 1] = c[i - 1 + 1] /\ i - 1 + 1 = i + 1 - 1
      BY <1>2, <2>0, <2>3, <3>1
    <3> QED BY <3>1, <3>2, <3>3
  <2> QED BY <1>2, <2>1, <2>2, <2>3
<1>8. k2 = Len(r)
  BY <1>1, <1>2 DEF TakesOut
<1> QED BY <1>2, <1>3, <1>4, <1>5, <1>6, <1>7, <1>8 DEF Good, r

Reversed(c) == [i \in 1 .. Len(c) |-> c[Len(c) - i + 1]]

\* What Reversed is, index by index.
LEMMA ReversedIs ==
  ASSUME NEW c \in Seq(Nodes)
  PROVE  /\ Reversed(c) \in Seq(Nodes) /\ Len(Reversed(c)) = Len(c) /\ Len(c) \in Nat
         /\ \A i \in 1 .. Len(c) : Len(c) - i + 1 \in 1 .. Len(c) /\ Reversed(c)[i] = c[Len(c) - i + 1]
<1> DEFINE r == Reversed(c)
<1>1. Len(c) \in Nat /\ \A i \in 1 .. Len(c) : c[i] \in Nodes
  BY SeqFacts
<1>2. \A i \in 1 .. Len(c) : Len(c) - i + 1 \in 1 .. Len(c) /\ r[i] = c[Len(c) - i + 1]
  BY <1>1 DEF Reversed
<1>3. r \in [1 .. Len(c) -> Nodes]
  <2>1. r = [i \in 1 .. Len(c) |-> r[i]]
    BY DEF Reversed
  <2>2. \A i \in 1 .. Len(c) : r[i] \in Nodes
    BY <1>1, <1>2
  <2> HIDE DEF r
  <2> QED BY <2>1, <2>2
<1> HIDE DEF r
<1>4. r \in Seq(Nodes) /\ Len(r) = Len(c)
  BY <1>1, <1>3
<1> QED BY <1>1, <1>2, <1>4 DEF r

\* The pointers of listReverse make the list in the other order.
LEMMA GoodReversed ==
  ASSUME NEW c, NEW f, NEW z, NEW k, NEW nx, NEW pv, Good(c, f, z, k, nx, pv), NEW nx2, NEW pv2,
         \A i \in 1 .. Len(c) : nx2[c[i]] = IF i = 1 THEN Null ELSE c[i - 1],
         \A i \in 1 .. Len(c) : pv2[c[i]] = IF i = Len(c) THEN Null ELSE c[i + 1]
  PROVE  Good(Reversed(c), z, f, k, nx2, pv2)
<1> DEFINE r == Reversed(c)
<1>1. c \in Seq(Nodes) /\ Distinct(c) /\ k = Len(c)
  BY DEF Good
<1>2. /\ r \in Seq(Nodes) /\ Len(r) = Len(c) /\ Len(c) \in Nat
      /\ \A i \in 1 .. Len(c) : Len(c) - i + 1 \in 1 .. Len(c) /\ r[i] = c[Len(c) - i + 1]
  BY <1>1, ReversedIs
<1> HIDE DEF r
<1>3. Distinct(r)
  <2> SUFFICES ASSUME NEW i \in 1 .. Len(r), NEW j \in 1 .. Len(r), r[i] = r[j] PROVE i = j
    BY DEF Distinct
  <2> DEFINE a == Len(c) - i + 1
             b == Len(c) - j + 1
  <2>1. a \in 1 .. Len(c) /\ b \in 1 .. Len(c) /\ c[a] = c[b]
    BY <1>2
  <2>2. a = b => i = j
    BY <1>2
  <2> HIDE DEF a, b
  <2> QED BY <1>1, <2>1, <2>2 DEF Distinct
<1>4. z = (IF Len(r) = 0 THEN Null ELSE r[1]) /\ f = IF Len(r) = 0 THEN Null ELSE r[Len(r)]
  <2>1. CASE Len(c) = 0
    BY <1>2, <2>1 DEF Good
  <2>2. CASE Len(c) # 0
    <3>1. 1 \in 1 .. Len(c) /\ Len(c) \in 1 .. Len(c) /\ Len(c) - 1 + 1 = Len(c) /\ Len(c) - Len(c) + 1 = 1
      BY <1>2, <2>2
    <3>2. r[1] = c[Len(c)] /\ r[Len(c)] = c[1]
      BY <1>2, <3>1
    <3> QED BY <1>2, <2>2, <3>2 DEF Good
  <2> QED BY <2>1, <2>2
<1>5. ASSUME NEW i \in 1 .. Len(r)
      PROVE  /\ nx2[r[i]] = IF i = Len(r) THEN Null ELSE r[i + 1]
             /\ pv2[r[i]] = IF i = 1 THEN Null ELSE r[i - 1]
  <2> DEFINE j == Len(c) - i + 1
  <2>1. j \in 1 .. Len(c) /\ r[i] = c[j] /\ (j = 1 <=> i = Len(r)) /\ (j = Len(c) <=> i = 1)
    BY <1>2
  <2>2. i # Len(r) => i + 1 \in 1 .. Len(c) /\ Len(c) - (i + 1) + 1 = j - 1
    BY <1>2
  <2>3. i # 1 => i - 1 \in 1 .. Len(c) /\ Len(c) - (i - 1) + 1 = j + 1
    BY <1>2
  <2> HIDE DEF j
  <2>4. i # Len(r) => r[i + 1] = c[j - 1]
    BY <1>2, <2>2
  <2>5. i # 1 => r[i - 1] = c[j + 1]
    BY <1>2, <2>3
  <2> QED BY <2>1, <2>4, <2>5
<1> QED BY <1>1, <1>2, <1>3, <1>4, <1>5 DEF Good, r
-----------------------------------------------------------------------------
(* Lists in the state *)

\* The members of a sequence.
LEMMA ToSetIs ==
  ASSUME NEW c \in Seq(Nodes)
  PROVE  ToSet(c) = {c[i] : i \in 1 .. Len(c)}
<1>1. DOMAIN c = 1 .. Len(c)
  BY SeqFacts
<1> QED BY <1>1 DEF ToSet

\* What ShapeInv says of one list, for the steps below.
LEMMA ListFacts ==
  ASSUME NEW l \in Live, ShapeInv
  PROVE  /\ Chain(l) \in Seq(Nodes) /\ Len(Chain(l)) \in Nat /\ Distinct(Chain(l))
         /\ \A i \in 1 .. Len(Chain(l)) : /\ Chain(l)[i] \in Nodes /\ Chain(l)[i] # Null
                                          /\ Chain(l)[i] \in heap /\ owner[Chain(l)[i]] = l
                                          /\ Chain(l)[i] \in Members(l)
         /\ Members(l) = {Chain(l)[i] : i \in 1 .. Len(Chain(l))}
         /\ Good(Chain(l), first[l], last[l], count[l], next, prev)
<1>1. Chain(l) \in Seq(Nodes) /\ Distinct(Chain(l)) /\ Good(Chain(l), first[l], last[l], count[l], next, prev)
  BY DEF ShapeInv, ListInv, Good
<1>2. Len(Chain(l)) \in Nat /\ \A i \in 1 .. Len(Chain(l)) : Chain(l)[i] \in Nodes /\ Chain(l)[i] # Null
  BY <1>1, SeqFacts, ListConstants
<1>3. Members(l) = {Chain(l)[i] : i \in 1 .. Len(Chain(l))}
  BY <1>1, ToSetIs DEF Members
<1>4. \A i \in 1 .. Len(Chain(l)) : Chain(l)[i] \in heap /\ owner[Chain(l)[i]] = l
  BY DEF ShapeInv, ListInv
<1> QED BY <1>1, <1>2, <1>3, <1>4

\* What ShapeInv says of one node of a list.
LEMMA MemberFacts ==
  ASSUME NEW l \in Live, ShapeInv, NEW n \in Members(l)
  PROVE  /\ n \in Nodes /\ n # Null /\ n \in heap /\ owner[n] = l
         /\ \E i \in 1 .. Len(Chain(l)) : Chain(l)[i] = n
BY ListFacts

\* A step that changes one list into r and leaves the nodes of the others alone.
LEMMA ListChanges ==
  ASSUME ShapeInv, spent' = spent, NEW l \in Live, NEW r,
         Good(r, first'[l], last'[l], count'[l], next', prev'),
         \A i \in 1 .. Len(r) : r[i] \in heap' /\ owner'[r[i]] = l,
         \A m \in Live \ {l} : first'[m] = first[m] /\ last'[m] = last[m] /\ count'[m] = count[m],
         \A m \in Live \ {l} : \A n \in Members(m) :
           next'[n] = next[n] /\ prev'[n] = prev[n] /\ owner'[n] = owner[n] /\ n \in heap'
  PROVE  ShapeInv' /\ Chain(l)' = r /\ \A m \in Live \ {l} : Chain(m)' = Chain(m)
<1>1. ChainIn(next', first'[l]) = r
  BY GoodChain
<1>2. Chain(l)' = r
  BY <1>1 DEF Chain, ChainFrom
<1>3. ASSUME NEW m \in Live \ {l}
      PROVE  Chain(m)' = Chain(m) /\ Good(Chain(m), first'[m], last'[m], count'[m], next', prev')
  <2> DEFINE c == Chain(m)
  <2>1. Good(c, first'[m], last'[m], count'[m], next, prev) /\ \A i \in 1 .. Len(c) : c[i] \in Members(m)
    BY ListFacts
  <2> HIDE DEF c
  <2>2. \A i \in 1 .. Len(c) : next'[c[i]] = next[c[i]] /\ prev'[c[i]] = prev[c[i]]
    BY <2>1
  <2>3. Good(c, first'[m], last'[m], count'[m], next', prev')
    BY <2>1, <2>2, GoodFrame
  <2>4. ChainIn(next', first'[m]) = c
    BY <2>3, GoodChain
  <2>5. Chain(m)' = c
    BY <2>4 DEF Chain, ChainFrom
  <2> QED BY <2>3, <2>5 DEF c
<1>4. ASSUME NEW m \in Live PROVE ListInv(m)'
  <2>1. CASE m = l
    BY <1>2, <2>1 DEF ListInv
  <2>2. CASE m # l
    <3>1. Chain(m)' = Chain(m) /\ Good(Chain(m), first'[m], last'[m], count'[m], next', prev')
      BY <1>3, <2>2
    <3>2. \A i \in 1 .. Len(Chain(m)) : owner'[Chain(m)[i]] = m /\ Chain(m)[i] \in heap'
      BY <2>2, ListFacts
    <3> QED BY <3>1, <3>2 DEF ListInv
  <2> QED BY <2>1, <2>2
<1>5. Live' = Live
  BY DEF Live
<1>6. ShapeInv'
  BY <1>4, <1>5 DEF ShapeInv
<1> QED BY <1>2, <1>3, <1>6

\* Where the lists are not touched, they are as they were.
LEMMA ListsStay ==
  ASSUME ShapeInv, UNCHANGED links, heap \subseteq heap', spent \subseteq spent'
  PROVE  ShapeInv' /\ (\A l \in Lists : Chain(l)' = Chain(l) /\ Members(l)' = Members(l)) /\ Live' \subseteq Live
<1>1. \A l \in Lists : Chain(l)' = Chain(l)
  BY DEF links, Chain, ChainFrom
<1>2. \A l \in Lists : Members(l)' = Members(l)
  BY <1>1 DEF Members
<1>3. Live' \subseteq Live
  BY DEF Live
<1>4. ASSUME NEW l \in Live PROVE ListInv(l)'
  <2>1. ListInv(l)
    BY DEF ShapeInv
  <2>2. l \in Lists
    BY DEF Live
  <2> QED BY <1>1, <2>1, <2>2 DEF ListInv, links
<1> QED BY <1>1, <1>2, <1>3, <1>4 DEF ShapeInv

\* A place that callers may name is the beginning of the list or a node of it.
LEMMA PlaceIs ==
  ASSUME ShapeInv, NEW l \in Live, NEW after \in Places(l)
  PROVE  \E p \in 0 .. Len(Chain(l)) :
           /\ Anchor(l, after) = IF p = 0 THEN Null ELSE Chain(l)[p]
           /\ after = LastNode => p = Len(Chain(l))
           /\ after = Null => p = 0
           /\ after \in Nodes => p > 0 /\ Chain(l)[p] = after
<1> DEFINE c == Chain(l)
<1>1. /\ Len(c) \in Nat /\ Members(l) = {c[i] : i \in 1 .. Len(c)}
      /\ \A i \in 1 .. Len(c) : c[i] \in Nodes
      /\ last[l] = IF Len(c) = 0 THEN Null ELSE c[Len(c)]
  BY ListFacts DEF Good
<1>2. LastNode \notin Nodes /\ LastNode # Null /\ Null \notin Nodes
  BY ListConstants
<1> HIDE DEF c
<1>3. CASE after = Null
  BY <1>1, <1>2, <1>3 DEF Anchor, c
<1>4. CASE after = LastNode
  BY <1>1, <1>2, <1>4 DEF Anchor, c
<1>5. CASE after \in Members(l)
  <2>1. PICK p \in 1 .. Len(c) : c[p] = after
    BY <1>1, <1>5
  <2>2. p \in 0 .. Len(c) /\ p # 0 /\ p > 0 /\ after \in Nodes
    BY <1>1, <2>1
  <2>3. Anchor(l, after) = after
    BY <1>2, <2>2 DEF Anchor
  <2> QED BY <1>2, <2>1, <2>2, <2>3 DEF c
<1> QED BY <1>3, <1>4, <1>5 DEF Places
-----------------------------------------------------------------------------
(* Linking and unlinking a node *)

\* list_add_node keeps the types of the pointers.
LEMMA LinkTypes ==
  ASSUME TypeOK, NEW l \in Lists, NEW n \in Nodes, NEW after \in Nodes \cup {Null, LastNode},
         NEW nx \in [Nodes -> Nodes \cup {Null}], LinkNode(n, l, after, nx)
  PROVE  /\ next' \in [Nodes -> Nodes \cup {Null}]
         /\ prev' \in [Nodes -> Nodes \cup {Null}]
         /\ owner' \in [Nodes -> Lists \cup {Null}]
         /\ first' \in [Lists -> Nodes \cup {Null}]
         /\ last' \in [Lists -> Nodes \cup {Null}]
         /\ count' \in [Lists -> Nat]
<1> DEFINE a == Anchor(l, after)
           successor == IF a = Null THEN first[l] ELSE nx[a]
           prev1 == [prev EXCEPT ![n] = a]
           next1 == IF a = Null \/ successor # Null THEN [nx EXCEPT ![n] = successor] ELSE nx
<1>1. a \in Nodes \cup {Null}
  BY DEF Anchor, TypeOK
<1>2. /\ owner' = [owner EXCEPT ![n] = l]
      /\ prev' = IF successor # Null THEN [prev1 EXCEPT ![successor] = n] ELSE prev1
      /\ next' = IF a = Null THEN next1 ELSE [next1 EXCEPT ![a] = n]
      /\ first' = IF a = Null THEN [first EXCEPT ![l] = n] ELSE first
      /\ last' = IF a = last[l] THEN [last EXCEPT ![l] = n] ELSE last
      /\ count' = [count EXCEPT ![l] = @ + 1]
  BY DEF LinkNode
<1> HIDE DEF a
<1>3. successor \in Nodes \cup {Null}
  BY <1>1 DEF TypeOK
<1> HIDE DEF successor
<1>4. prev1 \in [Nodes -> Nodes \cup {Null}] /\ next1 \in [Nodes -> Nodes \cup {Null}]
  BY <1>1, <1>3 DEF TypeOK
<1> HIDE DEF prev1, next1
<1>5. next' \in [Nodes -> Nodes \cup {Null}] /\ prev' \in [Nodes -> Nodes \cup {Null}]
  BY <1>2, <1>4
<1>6. owner' \in [Nodes -> Lists \cup {Null}]
  BY <1>2 DEF TypeOK
<1>7. first' \in [Lists -> Nodes \cup {Null}] /\ last' \in [Lists -> Nodes \cup {Null}]
  BY <1>2 DEF TypeOK
<1>8. count' \in [Lists -> Nat]
  BY <1>2 DEF TypeOK
<1> QED BY <1>5, <1>6, <1>7, <1>8

\* list_add_node puts a node that is in no list behind the one that is named.
LEMMA LinkShape ==
  ASSUME TypeOK, ShapeInv, NEW l \in Live, NEW n \in Nodes, \A m \in Live : n \notin Members(m),
         NEW after \in Places(l), NEW nx \in [Nodes -> Nodes \cup {Null}],
         nx[n] = Null, \A m \in Nodes \ {n} : nx[m] = next[m],
         LinkNode(n, l, after, nx), spent' = spent, heap' = heap \cup {n}
  PROVE  /\ ShapeInv'
         /\ \A m \in Live \ {l} : Chain(m)' = Chain(m)
         /\ \E p \in 0 .. Len(Chain(l)) :
              /\ Chain(l)' = With(Chain(l), p, n)
              /\ Anchor(l, after) = IF p = 0 THEN Null ELSE Chain(l)[p]
              /\ after = LastNode => p = Len(Chain(l))
              /\ after = Null => p = 0
              /\ after \in Nodes => p > 0 /\ Chain(l)[p] = after
<1> DEFINE c == Chain(l)
           a == Anchor(l, after)
           successor == IF a = Null THEN first[l] ELSE nx[a]
           prev1 == [prev EXCEPT ![n] = a]
           next1 == IF a = Null \/ successor # Null THEN [nx EXCEPT ![n] = successor] ELSE nx
<1>1. /\ owner' = [owner EXCEPT ![n] = l]
      /\ prev' = IF successor # Null THEN [prev1 EXCEPT ![successor] = n] ELSE prev1
      /\ next' = IF a = Null THEN next1 ELSE [next1 EXCEPT ![a] = n]
      /\ first' = IF a = Null THEN [first EXCEPT ![l] = n] ELSE first
      /\ last' = IF a = last[l] THEN [last EXCEPT ![l] = n] ELSE last
      /\ count' = [count EXCEPT ![l] = @ + 1]
  BY DEF LinkNode
<1>2. PICK p \in 0 .. Len(c) :
        /\ a = IF p = 0 THEN Null ELSE c[p]
        /\ after = LastNode => p = Len(c)
        /\ after = Null => p = 0
        /\ after \in Nodes => p > 0 /\ c[p] = after
  BY PlaceIs
<1>3. /\ c \in Seq(Nodes) /\ Len(c) \in Nat /\ Distinct(c)
      /\ \A i \in 1 .. Len(c) : c[i] \in Nodes /\ c[i] # Null /\ c[i] # n /\ c[i] \in heap /\ owner[c[i]] = l
      /\ Good(c, first[l], last[l], count[l], next, prev)
      /\ l \in Lists
  BY ListFacts DEF Live
<1>4. /\ next \in [Nodes -> Nodes \cup {Null}] /\ prev \in [Nodes -> Nodes \cup {Null}]
      /\ owner \in [Nodes -> Lists \cup {Null}] /\ first \in [Lists -> Nodes \cup {Null}]
      /\ last \in [Lists -> Nodes \cup {Null}] /\ count \in [Lists -> Nat]
  BY DEF TypeOK
<1> HIDE DEF c, a
<1>5. successor = IF p = Len(c) THEN Null ELSE c[p + 1]
  <2>1. CASE p = 0
    BY <1>2, <1>3, <2>1 DEF Good
  <2>2. CASE p # 0
    <3>1. p \in 1 .. Len(c) /\ a = c[p] /\ c[p] # Null
      BY <1>2, <1>3, <2>2
    <3>2. nx[c[p]] = next[c[p]] /\ next[c[p]] = IF p = Len(c) THEN Null ELSE c[p + 1]
      BY <1>3, <3>1 DEF Good
    <3> QED BY <3>1, <3>2
  <2> QED BY <2>1, <2>2
<1>6. successor # Null <=> p # Len(c)
  BY <1>2, <1>3, <1>5
<1>7. a = Null <=> p = 0
  BY <1>2, <1>3
<1>8. a = last[l] <=> p = Len(c)
  <2>1. CASE Len(c) = 0
    BY <1>2, <1>3, <2>1 DEF Good
  <2>2. CASE Len(c) # 0
    <3>1. last[l] = c[Len(c)] /\ Len(c) \in 1 .. Len(c)
      BY <1>3, <2>2 DEF Good
    <3>2. CASE p = 0
      BY <1>2, <1>3, <2>2, <3>1, <3>2
    <3>3. CASE p # 0
      <4>1. p \in 1 .. Len(c)
        BY <1>2, <3>3
      <4> QED BY <1>2, <1>3, <3>1, <3>3, <4>1 DEF Distinct
    <3> QED BY <3>2, <3>3
  <2> QED BY <2>1, <2>2
<1> HIDE DEF successor
<1>9. \A x \in Nodes : next1[x] = IF x = n THEN successor ELSE next[x]
  BY <1>4, <1>6, <1>7
<1>10. \A x \in Nodes : prev1[x] = IF x = n THEN a ELSE prev[x]
  BY <1>4
<1>11. next1 \in [Nodes -> Nodes \cup {Null, successor}] /\ prev1 \in [Nodes -> Nodes \cup {Null, a}]
  BY <1>4
<1> HIDE DEF next1, prev1
<1>12. \A x \in Nodes : next'[x] = IF p # 0 /\ x = c[p] THEN n ELSE IF x = n THEN successor ELSE next[x]
  BY <1>1, <1>2, <1>7, <1>9, <1>11
<1>13. \A x \in Nodes : prev'[x] = IF p # Len(c) /\ x = c[p + 1] THEN n ELSE IF x = n THEN a ELSE prev[x]
  BY <1>1, <1>5, <1>6, <1>10, <1>11
<1>14. Good(With(c, p, n), first'[l], last'[l], count'[l], next', prev')
  <2>1. next'[n] = IF p = Len(c) THEN Null ELSE c[p + 1]
    <3>1. p # 0 => c[p] # n
      BY <1>3
    <3> QED BY <1>5, <1>12, <3>1
  <2>2. prev'[n] = IF p = 0 THEN Null ELSE c[p]
    <3>1. p # Len(c) => p + 1 \in 1 .. Len(c)
      BY <1>3
    <3>2. p # Len(c) => c[p + 1] # n
      BY <1>3, <3>1
    <3> QED BY <1>2, <1>13, <3>2
  <2>3. \A i \in 1 .. Len(c) : next'[c[i]] = IF i = p THEN n ELSE next[c[i]]
    <3> TAKE i \in 1 .. Len(c)
    <3>1. p # 0 /\ c[i] = c[p] <=> i = p
      BY <1>3 DEF Distinct
    <3> QED BY <1>3, <1>12, <3>1
  <2>4. \A i \in 1 .. Len(c) : prev'[c[i]] = IF i = p + 1 THEN n ELSE prev[c[i]]
    <3> TAKE i \in 1 .. Len(c)
    <3>1. p # Len(c) => p + 1 \in 1 .. Len(c)
      BY <1>3
    <3>2. p # Len(c) /\ c[i] = c[p + 1] <=> i = p + 1
      BY <1>3, <3>1 DEF Distinct
    <3> QED BY <1>3, <1>13, <3>2
  <2>5. first'[l] = IF p = 0 THEN n ELSE first[l]
    BY <1>1, <1>3, <1>4, <1>7
  <2>6. last'[l] = IF p = Len(c) THEN n ELSE last[l]
    BY <1>1, <1>3, <1>4, <1>8
  <2>7. count'[l] = count[l] + 1
    BY <1>1, <1>3, <1>4
  <2>8. \A i \in 1 .. Len(c) : c[i] # n
    BY <1>3
  <2> QED BY <1>3, <2>1, <2>2, <2>3, <2>4, <2>5, <2>6, <2>7, <2>8, GoodWith
<1>15. \A i \in 1 .. Len(With(c, p, n)) : With(c, p, n)[i] \in heap' /\ owner'[With(c, p, n)[i]] = l
  <2> DEFINE r == With(c, p, n)
  <2>1. /\ Len(r) = Len(c) + 1
        /\ \A i \in 1 .. Len(c) + 1 : r[i] = n \/ \E j \in 1 .. Len(c) : r[i] = c[j]
    <3>1. /\ Len(r) = Len(c) + 1
          /\ \A i \in 1 .. Len(c) + 1 : /\ i <= p => i \in 1 .. Len(c) /\ r[i] = c[i]
                                        /\ i = p + 1 => r[i] = n
                                        /\ i > p + 1 => i - 1 \in 1 .. Len(c) /\ r[i] = c[i - 1]
      <4>1. c \in Seq(Nodes)
        BY <1>3
      <4> QED BY <4>1, WithIs
    <3> HIDE DEF r
    <3>2. \A i \in 1 .. Len(c) + 1 : i <= p \/ i = p + 1 \/ i > p + 1
      BY <1>3
    <3> QED BY <3>1, <3>2
  <2> HIDE DEF r
  <2>2. \A x \in Nodes : owner'[x] = IF x = n THEN l ELSE owner[x]
    BY <1>1, <1>4
  <2>3. \A j \in 1 .. Len(c) : owner'[c[j]] = l /\ c[j] \in heap'
    BY <1>3, <2>2
  <2>4. owner'[n] = l /\ n \in heap'
    BY <2>2
  <2> QED BY <2>1, <2>3, <2>4 DEF r
<1>16. \A m \in Live \ {l} : first'[m] = first[m] /\ last'[m] = last[m] /\ count'[m] = count[m]
  BY <1>1, <1>4 DEF Live
<1>17. ASSUME NEW m \in Live \ {l}, NEW x \in Members(m)
       PROVE  next'[x] = next[x] /\ prev'[x] = prev[x] /\ owner'[x] = owner[x] /\ x \in heap'
  <2>1. x \in Nodes /\ x # n /\ owner[x] = m /\ x \in heap
    BY MemberFacts
  <2>2. p # 0 => x # c[p]
    BY <1>3, <2>1
  <2>3. p # Len(c) => p + 1 \in 1 .. Len(c)
    BY <1>3
  <2>4. p # Len(c) => x # c[p + 1]
    BY <1>3, <2>1, <2>3
  <2>5. owner'[x] = owner[x]
    BY <1>1, <1>4, <2>1
  <2> QED BY <1>12, <1>13, <2>1, <2>2, <2>4, <2>5
<1>18. ShapeInv' /\ Chain(l)' = With(c, p, n) /\ \A m \in Live \ {l} : Chain(m)' = Chain(m)
  BY <1>14, <1>15, <1>16, <1>17, ListChanges
<1> QED BY <1>2, <1>18 DEF c, a

\* list_remove_node keeps the types of the pointers.
LEMMA UnlinkTypes ==
  ASSUME TypeOK, NEW l \in Lists, NEW n \in Nodes, NEW free \in BOOLEAN, Unlink(l, n, free)
  PROVE  /\ heap' \subseteq Nodes /\ heap' = heap \ {n}
         /\ next' \in [Nodes -> Nodes \cup {Null}]
         /\ prev' \in [Nodes -> Nodes \cup {Null}]
         /\ owner' \in [Nodes -> Lists \cup {Null}]
         /\ payload' \in [Nodes -> Payloads \cup {Null}]
         /\ mine' \in [Nodes -> BOOLEAN]
         /\ locked' \in [Nodes -> BOOLEAN]
         /\ first' \in [Lists -> Nodes \cup {Null}]
         /\ last' \in [Lists -> Nodes \cup {Null}]
         /\ count' \in [Lists -> Nat]
<1>1. /\ next' = [m \in Nodes |-> IF m = n THEN Null ELSE IF m = prev[n] THEN next[n] ELSE next[m]]
      /\ prev' = [m \in Nodes |-> IF m = n THEN Null ELSE IF m = next[n] THEN prev[n] ELSE prev[m]]
      /\ first' = IF first[l] = n THEN [first EXCEPT ![l] = next[n]] ELSE first
      /\ last' = IF last[l] = n THEN [last EXCEPT ![l] = prev[n]] ELSE last
      /\ count' = [count EXCEPT ![l] = IF @ > 0 THEN @ - 1 ELSE @]
  BY DEF Unlink
<1>2. /\ heap' = heap \ {n}
      /\ owner' = [m \in Nodes |-> IF m \in {n} THEN Null ELSE owner[m]]
      /\ payload' = [m \in Nodes |-> IF m \in {n} THEN Null ELSE payload[m]]
      /\ mine' = [m \in Nodes |-> m \notin {n} /\ mine[m]]
      /\ locked' = [m \in Nodes |-> m \notin {n} /\ locked[m]]
  BY DEF Unlink, Forget
<1>3. /\ heap \subseteq Nodes
      /\ next \in [Nodes -> Nodes \cup {Null}] /\ prev \in [Nodes -> Nodes \cup {Null}]
      /\ owner \in [Nodes -> Lists \cup {Null}] /\ payload \in [Nodes -> Payloads \cup {Null}]
      /\ mine \in [Nodes -> BOOLEAN] /\ locked \in [Nodes -> BOOLEAN]
      /\ first \in [Lists -> Nodes \cup {Null}] /\ last \in [Lists -> Nodes \cup {Null}]
      /\ count \in [Lists -> Nat]
  BY DEF TypeOK
<1>4. heap' \subseteq Nodes /\ heap' = heap \ {n}
  BY <1>2, <1>3
<1>5. next' \in [Nodes -> Nodes \cup {Null}] /\ prev' \in [Nodes -> Nodes \cup {Null}]
  BY <1>1, <1>3
<1>6. owner' \in [Nodes -> Lists \cup {Null}] /\ payload' \in [Nodes -> Payloads \cup {Null}]
  BY <1>2, <1>3
<1>7. mine' \in [Nodes -> BOOLEAN] /\ locked' \in [Nodes -> BOOLEAN]
  BY <1>2, <1>3
<1>8. first' \in [Lists -> Nodes \cup {Null}] /\ last' \in [Lists -> Nodes \cup {Null}]
  BY <1>1, <1>3
<1>9. count' \in [Lists -> Nat]
  BY <1>1, <1>3
<1> QED BY <1>4, <1>5, <1>6, <1>7, <1>8, <1>9

\* A removal takes the node out of its list and of no other.
LEMMA UnlinkShape ==
  ASSUME TypeOK, ShapeInv, NEW l \in Live, NEW n \in Members(l), NEW free \in BOOLEAN,
         Unlink(l, n, free), spent' = spent
  PROVE  /\ ShapeInv'
         /\ \A m \in Live \ {l} : Chain(m)' = Chain(m)
         /\ \E p \in 1 .. Len(Chain(l)) : Chain(l)[p] = n /\ Chain(l)' = Without(Chain(l), p)
<1> DEFINE c == Chain(l)
<1>1. /\ next' = [m \in Nodes |-> IF m = n THEN Null ELSE IF m = prev[n] THEN next[n] ELSE next[m]]
      /\ prev' = [m \in Nodes |-> IF m = n THEN Null ELSE IF m = next[n] THEN prev[n] ELSE prev[m]]
      /\ first' = IF first[l] = n THEN [first EXCEPT ![l] = next[n]] ELSE first
      /\ last' = IF last[l] = n THEN [last EXCEPT ![l] = prev[n]] ELSE last
      /\ count' = [count EXCEPT ![l] = IF @ > 0 THEN @ - 1 ELSE @]
      /\ heap' = heap \ {n}
      /\ owner' = [m \in Nodes |-> IF m \in {n} THEN Null ELSE owner[m]]
  BY DEF Unlink, Forget
<1>2. PICK p \in 1 .. Len(c) : c[p] = n
  BY MemberFacts
<1>3. /\ c \in Seq(Nodes) /\ Len(c) \in Nat /\ Distinct(c)
      /\ \A i \in 1 .. Len(c) : c[i] \in Nodes /\ c[i] # Null /\ c[i] \in heap /\ owner[c[i]] = l
      /\ Good(c, first[l], last[l], count[l], next, prev)
      /\ l \in Lists
  BY ListFacts DEF Live
<1>4. /\ first \in [Lists -> Nodes \cup {Null}] /\ last \in [Lists -> Nodes \cup {Null}]
      /\ count \in [Lists -> Nat]
  BY DEF TypeOK
<1> HIDE DEF c
<1>5. /\ next[n] = IF p = Len(c) THEN Null ELSE c[p + 1]
      /\ prev[n] = IF p = 1 THEN Null ELSE c[p - 1]
      /\ p # 1 => p - 1 \in 1 .. Len(c)
      /\ p # Len(c) => p + 1 \in 1 .. Len(c)
  BY <1>2, <1>3 DEF Good
<1>6. \A x \in Nodes \ {n} : /\ next'[x] = IF x = prev[n] THEN next[n] ELSE next[x]
                             /\ prev'[x] = IF x = next[n] THEN prev[n] ELSE prev[x]
                             /\ owner'[x] = owner[x]
  BY <1>1
<1>7. \A i \in 1 .. Len(c) : (i # p <=> c[i] # n) /\ (c[i] = prev[n] <=> i + 1 = p) /\ (c[i] = next[n] <=> i = p + 1)
  <2> TAKE i \in 1 .. Len(c)
  <2>1. i # p <=> c[i] # n
    BY <1>2, <1>3 DEF Distinct
  <2>2. c[i] = prev[n] <=> i + 1 = p
    <3>1. CASE p = 1
      BY <1>3, <1>5, <3>1
    <3>2. CASE p # 1
      <4>1. c[i] = c[p - 1] <=> i = p - 1
        BY <1>3, <1>5, <3>2 DEF Distinct
      <4> QED BY <1>5, <3>2, <4>1
    <3> QED BY <3>1, <3>2
  <2>3. c[i] = next[n] <=> i = p + 1
    <3>1. CASE p = Len(c)
      BY <1>3, <1>5, <3>1
    <3>2. CASE p # Len(c)
      <4>1. c[i] = c[p + 1] <=> i = p + 1
        BY <1>3, <1>5, <3>2 DEF Distinct
      <4> QED BY <1>5, <3>2, <4>1
    <3> QED BY <3>1, <3>2
  <2> QED BY <2>1, <2>2, <2>3
<1>8. Good(Without(c, p), first'[l], last'[l], count'[l], next', prev')
  <2>1. \A i \in 1 .. Len(c) : i # p => next'[c[i]] = IF i + 1 = p THEN next[c[p]] ELSE next[c[i]]
    BY <1>2, <1>3, <1>6, <1>7
  <2>2. \A i \in 1 .. Len(c) : i # p => prev'[c[i]] = IF i = p + 1 THEN prev[c[p]] ELSE prev[c[i]]
    BY <1>2, <1>3, <1>6, <1>7
  <2>3. first'[l] = IF p = 1 THEN next[c[p]] ELSE first[l]
    <3>1. first[l] = c[1] /\ 1 \in 1 .. Len(c)
      BY <1>2, <1>3 DEF Good
    <3>2. first[l] = n <=> p = 1
      BY <1>2, <1>3, <3>1 DEF Distinct
    <3> QED BY <1>1, <1>2, <1>3, <1>4, <3>2
  <2>4. last'[l] = IF p = Len(c) THEN prev[c[p]] ELSE last[l]
    <3>1. last[l] = c[Len(c)] /\ Len(c) \in 1 .. Len(c)
      BY <1>2, <1>3 DEF Good
    <3>2. last[l] = n <=> p = Len(c)
      BY <1>2, <1>3, <3>1 DEF Distinct
    <3> QED BY <1>1, <1>2, <1>3, <1>4, <3>2
  <2>5. count'[l] = count[l] - 1
    <3>1. count[l] = Len(c) /\ Len(c) > 0
      BY <1>2, <1>3 DEF Good
    <3> QED BY <1>1, <1>3, <1>4, <3>1
  <2>6. Good(c, first[l], last[l], count[l], next, prev)
    BY <1>3
  <2>7. TakesOut(c, p, first[l], last[l], count[l], next, prev, first'[l], last'[l], count'[l], next', prev')
    BY <2>1, <2>2, <2>3, <2>4, <2>5 DEF TakesOut
  <2>8. p \in 1 .. Len(c)
    OBVIOUS
  <2> QED BY <2>6, <2>7, <2>8, GoodWithout
<1>9. \A i \in 1 .. Len(Without(c, p)) : Without(c, p)[i] \in heap' /\ owner'[Without(c, p)[i]] = l
  <2> DEFINE r == Without(c, p)
  <2>1. /\ Len(r) = Len(c) - 1
        /\ \A i \in 1 .. Len(c) - 1 : \E j \in 1 .. Len(c) : j # p /\ r[i] = c[j]
    <3>1. /\ Len(r) = Len(c) - 1
          /\ \A i \in 1 .. Len(c) - 1 : /\ i < p => r[i] = c[i]
                                        /\ i >= p => r[i] = c[i + 1]
                                        /\ i \in 1 .. Len(c) /\ i + 1 \in 1 .. Len(c)
      <4>1. c \in Seq(Nodes)
        BY <1>3
      <4> QED BY <4>1, WithoutIs
    <3> HIDE DEF r
    <3>2. \A i \in 1 .. Len(c) - 1 : (i < p /\ i # p) \/ (i >= p /\ i + 1 # p)
      BY <1>3
    <3> QED BY <3>1, <3>2
  <2> HIDE DEF r
  <2>2. \A j \in 1 .. Len(c) : j # p => owner'[c[j]] = l /\ c[j] \in heap'
    BY <1>1, <1>3, <1>6, <1>7
  <2> QED BY <2>1, <2>2 DEF r
<1>10. \A m \in Live \ {l} : first'[m] = first[m] /\ last'[m] = last[m] /\ count'[m] = count[m]
  BY <1>1, <1>4 DEF Live
<1>11. ASSUME NEW m \in Live \ {l}, NEW x \in Members(m)
       PROVE  next'[x] = next[x] /\ prev'[x] = prev[x] /\ owner'[x] = owner[x] /\ x \in heap'
  <2>1. x \in Nodes /\ x # Null /\ owner[x] = m /\ x \in heap
    BY MemberFacts
  <2>2. x # n /\ x # next[n] /\ x # prev[n]
    BY <1>2, <1>3, <1>5, <2>1
  <2> QED BY <1>1, <1>6, <2>1, <2>2
<1>12. ShapeInv' /\ Chain(l)' = Without(c, p) /\ \A m \in Live \ {l} : Chain(m)' = Chain(m)
  BY <1>8, <1>9, <1>10, <1>11, ListChanges
<1> QED BY <1>2, <1>12 DEF c
-----------------------------------------------------------------------------
(* The nodes of the lists, and what they own *)

\* The list has one member more.
LEMMA WithMembers ==
  ASSUME NEW c \in Seq(Nodes), NEW p \in 0 .. Len(c), NEW n \in Nodes
  PROVE  ToSet(With(c, p, n)) = ToSet(c) \cup {n}
<1> DEFINE r == With(c, p, n)
<1>1. /\ r \in Seq(Nodes) /\ Len(r) = Len(c) + 1 /\ Len(c) \in Nat
      /\ \A i \in 1 .. Len(c) + 1 : /\ i <= p => i \in 1 .. Len(c) /\ r[i] = c[i]
                                    /\ i = p + 1 => r[i] = n
                                    /\ i > p + 1 => i - 1 \in 1 .. Len(c) /\ r[i] = c[i - 1]
  BY WithIs
<1> HIDE DEF r
<1>2. \A i \in 1 .. Len(r) : r[i] = n \/ \E j \in 1 .. Len(c) : r[i] = c[j]
  <2>1. \A i \in 1 .. Len(c) + 1 : i <= p \/ i = p + 1 \/ i > p + 1
    BY <1>1
  <2> QED BY <1>1, <2>1
<1>3. \A j \in 1 .. Len(c) : \E i \in 1 .. Len(r) : r[i] = c[j]
  <2> TAKE j \in 1 .. Len(c)
  <2>1. CASE j <= p
    <3>1. j \in 1 .. Len(r) /\ r[j] = c[j]
      BY <1>1, <2>1
    <3> QED BY <3>1
  <2>2. CASE j > p
    <3>1. j + 1 \in 1 .. Len(c) + 1 /\ j + 1 > p + 1 /\ j + 1 - 1 = j
      BY <1>1, <2>2
    <3>2. r[j + 1] = c[j + 1 - 1]
      BY <1>1, <3>1
    <3> QED BY <1>1, <3>1, <3>2
  <2> QED BY <1>1, <2>1, <2>2
<1>4. \E i \in 1 .. Len(r) : r[i] = n
  <2>1. p + 1 \in 1 .. Len(r) /\ r[p + 1] = n
    BY <1>1
  <2> QED BY <2>1
<1>5. ToSet(r) = {r[i] : i \in 1 .. Len(r)} /\ ToSet(c) = {c[i] : i \in 1 .. Len(c)}
  BY <1>1, ToSetIs
<1>6. ToSet(r) = ToSet(c) \cup {n}
  BY <1>2, <1>3, <1>4, <1>5
<1> QED BY <1>6 DEF r

\* The list has one member less.
LEMMA WithoutMembers ==
  ASSUME NEW c \in Seq(Nodes), Distinct(c), NEW p \in 1 .. Len(c)
  PROVE  ToSet(Without(c, p)) = ToSet(c) \ {c[p]}
<1> DEFINE r == Without(c, p)
<1>1. /\ r \in Seq(Nodes) /\ Len(r) = Len(c) - 1 /\ Len(c) \in Nat
      /\ \A i \in 1 .. Len(c) - 1 : /\ i < p => r[i] = c[i]
                                    /\ i >= p => r[i] = c[i + 1]
                                    /\ i \in 1 .. Len(c) /\ i + 1 \in 1 .. Len(c)
  BY WithoutIs
<1> HIDE DEF r
<1>2. \A i \in 1 .. Len(r) : \E j \in 1 .. Len(c) : j # p /\ r[i] = c[j]
  <2>1. \A i \in 1 .. Len(c) - 1 : (i < p /\ i # p) \/ (i >= p /\ i + 1 # p)
    BY <1>1
  <2> QED BY <1>1, <2>1
<1>3. \A j \in 1 .. Len(c) : j # p => \E i \in 1 .. Len(r) : r[i] = c[j]
  <2> TAKE j \in 1 .. Len(c)
  <2>1. CASE j < p
    <3>1. j \in 1 .. Len(r) /\ r[j] = c[j]
      BY <1>1, <2>1
    <3> QED BY <3>1
  <2>2. CASE j > p
    <3>1. j - 1 \in 1 .. Len(c) - 1 /\ j - 1 >= p /\ j - 1 + 1 = j
      BY <1>1, <2>2
    <3>2. r[j - 1] = c[j - 1 + 1]
      BY <1>1, <3>1
    <3> QED BY <1>1, <3>1, <3>2
  <2> QED BY <1>1, <2>1, <2>2
<1>4. ToSet(r) = {r[i] : i \in 1 .. Len(r)} /\ ToSet(c) = {c[i] : i \in 1 .. Len(c)}
  BY <1>1, ToSetIs
<1>5. \A j \in 1 .. Len(c) : c[j] = c[p] <=> j = p
  BY DEF Distinct
<1>6. ToSet(r) = ToSet(c) \ {c[p]}
  <2>1. ASSUME NEW x \in ToSet(r) PROVE x \in ToSet(c) \ {c[p]}
    BY <1>2, <1>4, <1>5
  <2>2. ASSUME NEW x \in ToSet(c), x # c[p] PROVE x \in ToSet(r)
    <3>1. PICK j \in 1 .. Len(c) : c[j] = x
      BY <1>4
    <3>2. j # p
      BY <2>2, <3>1
    <3> QED BY <1>3, <1>4, <3>1, <3>2
  <2> QED BY <2>1, <2>2
<1> QED BY <1>6 DEF r

\* The list has the same members.
LEMMA ReversedMembers ==
  ASSUME NEW c \in Seq(Nodes)
  PROVE  ToSet(Reversed(c)) = ToSet(c)
<1> DEFINE r == Reversed(c)
<1>1. /\ r \in Seq(Nodes) /\ Len(r) = Len(c) /\ Len(c) \in Nat
      /\ \A i \in 1 .. Len(c) : Len(c) - i + 1 \in 1 .. Len(c) /\ r[i] = c[Len(c) - i + 1]
  BY ReversedIs
<1> HIDE DEF r
<1>2. \A j \in 1 .. Len(c) : \E i \in 1 .. Len(r) : r[i] = c[j]
  <2> TAKE j \in 1 .. Len(c)
  <2> DEFINE i == Len(c) - j + 1
  <2>1. i \in 1 .. Len(c) /\ Len(c) - i + 1 = j
    BY <1>1
  <2> HIDE DEF i
  <2>2. r[i] = c[j]
    BY <1>1, <2>1
  <2> QED BY <1>1, <2>1, <2>2
<1>3. ToSet(r) = {r[i] : i \in 1 .. Len(r)} /\ ToSet(c) = {c[i] : i \in 1 .. Len(c)}
  BY <1>1, ToSetIs
<1>4. ToSet(r) = ToSet(c)
  BY <1>1, <1>2, <1>3
<1> QED BY <1>4 DEF r

\* What a new node makes of the lists.
NewNodeOutcome(n, l, after) ==
  /\ ShapeInv' /\ AllListed'
  /\ \A m \in Live \ {l} : Chain(m)' = Chain(m)
  /\ Members(l)' = Members(l) \cup {n}
  /\ \E i \in 0 .. Len(Chain(l)) :
       /\ Chain(l)' = With(Chain(l), i, n)
       /\ Anchor(l, after) = IF i = 0 THEN Null ELSE Chain(l)[i]
       /\ after = LastNode => i = Len(Chain(l))
       /\ after = Null => i = 0
       /\ after \in Nodes => i > 0 /\ Chain(l)[i] = after
  /\ handed' \subseteq alive' /\ alive' \subseteq Blocks => TypeOK'

\* malloc has found a node and list_add_node links it, whatever it holds.
LEMMA NewNodeStep ==
  ASSUME TypeOK, ShapeInv, AllListed, NEW l \in Live, NEW n, NEW after \in Places(l),
         NEW p \in Payloads \cup {Null}, NEW owned \in BOOLEAN, NEW lock \in BOOLEAN,
         NewNode(n, l, p, owned, lock, after)
  PROVE  NewNodeOutcome(n, l, after)
<1> DEFINE nx == [next EXCEPT ![n] = Null]
<1>1. /\ n \in Nodes \ heap /\ heap' = heap \cup {n} /\ spent' = spent
      /\ payload' = [payload EXCEPT ![n] = p]
      /\ mine' = [mine EXCEPT ![n] = owned]
      /\ locked' = [locked EXCEPT ![n] = lock]
      /\ LinkNode(n, l, after, nx)
  BY DEF NewNode
<1>2. /\ nx \in [Nodes -> Nodes \cup {Null}]
      /\ nx[n] = Null /\ \A m \in Nodes \ {n} : nx[m] = next[m]
  BY <1>1 DEF TypeOK
<1> HIDE DEF nx
<1>3. \A m \in Live : n \notin Members(m)
  BY <1>1, MemberFacts
<1>4. after \in Nodes \cup {Null, LastNode} /\ l \in Lists
  BY MemberFacts DEF Places, Live
<1>5. /\ ShapeInv'
      /\ \A m \in Live \ {l} : Chain(m)' = Chain(m)
      /\ \E i \in 0 .. Len(Chain(l)) :
           /\ Chain(l)' = With(Chain(l), i, n)
           /\ Anchor(l, after) = IF i = 0 THEN Null ELSE Chain(l)[i]
           /\ after = LastNode => i = Len(Chain(l))
           /\ after = Null => i = 0
           /\ after \in Nodes => i > 0 /\ Chain(l)[i] = after
  BY <1>1, <1>2, <1>3, LinkShape
<1>6. Members(l)' = Members(l) \cup {n}
  <2>1. Chain(l) \in Seq(Nodes)
    BY ListFacts
  <2>2. PICK i \in 0 .. Len(Chain(l)) : Chain(l)' = With(Chain(l), i, n)
    BY <1>5
  <2>3. ToSet(With(Chain(l), i, n)) = ToSet(Chain(l)) \cup {n}
    BY <1>1, <2>1, WithMembers
  <2> QED BY <2>2, <2>3 DEF Members
<1>7. AllListed'
  <2>1. \A m \in Live \ {l} : Members(m)' = Members(m)
    BY <1>5 DEF Members
  <2>2. Live' = Live
    BY <1>1 DEF Live
  <2>3. ASSUME NEW x \in heap' PROVE \E m \in Live : x \in Members(m)'
    <3>1. CASE x = n
      BY <1>6, <3>1
    <3>2. CASE x \in heap
      <4>1. PICK m \in Live : x \in Members(m)
        BY <3>2 DEF AllListed
      <4>2. x \in Members(m)'
        BY <1>6, <2>1, <4>1
      <4> QED BY <4>2
    <3> QED BY <1>1, <3>1, <3>2
  <2> QED BY <2>2, <2>3 DEF AllListed
<1>8. handed' \subseteq alive' /\ alive' \subseteq Blocks => TypeOK'
  <2>1. /\ next' \in [Nodes -> Nodes \cup {Null}]
        /\ prev' \in [Nodes -> Nodes \cup {Null}]
        /\ owner' \in [Nodes -> Lists \cup {Null}]
        /\ first' \in [Lists -> Nodes \cup {Null}]
        /\ last' \in [Lists -> Nodes \cup {Null}]
        /\ count' \in [Lists -> Nat]
    BY <1>1, <1>2, <1>4, LinkTypes
  <2>2. payload' \in [Nodes -> Payloads \cup {Null}] /\ mine' \in [Nodes -> BOOLEAN] /\ locked' \in [Nodes -> BOOLEAN]
    BY <1>1 DEF TypeOK
  <2>3. heap' \subseteq Nodes /\ spent' \subseteq Lists
    BY <1>1 DEF TypeOK
  <2> QED BY <2>1, <2>2, <2>3 DEF TypeOK
<1> QED BY <1>5, <1>6, <1>7, <1>8 DEF NewNodeOutcome

\* Callers free only data that a node owns.
LEMMA UnlinkData ==
  ASSUME TypeOK, DataInv, NEW l, NEW n \in heap, NEW free \in BOOLEAN, MayFreeData(n, free),
         Unlink(l, n, free)
  PROVE  DataInv' /\ handed' \subseteq alive' /\ alive' \subseteq Blocks
<1>1. /\ heap' = heap \ {n}
      /\ payload' = [m \in Nodes |-> IF m \in {n} THEN Null ELSE payload[m]]
      /\ mine' = [m \in Nodes |-> m \notin {n} /\ mine[m]]
      /\ free => alive' = alive \ {payload[n]} /\ handed' = handed
      /\ ~free => /\ alive' = alive
                  /\ handed' = IF mine[n] /\ payload[n] # Null THEN handed \cup {payload[n]} ELSE handed
  BY DEF Unlink, Forget
<1>2. heap \subseteq Nodes /\ handed \subseteq alive /\ alive \subseteq Blocks /\ Null \notin Blocks
  BY ListConstants DEF TypeOK
<1>3. \A m \in heap' : m \in heap /\ m # n /\ payload'[m] = payload[m] /\ mine'[m] = mine[m]
  <2> TAKE m \in heap'
  <2>1. m \in heap /\ m # n /\ m \in Nodes /\ mine[m] \in BOOLEAN
    BY <1>1, <1>2 DEF TypeOK
  <2>2. mine'[m] = (m \notin {n} /\ mine[m])
    BY <1>1, <2>1
  <2> QED BY <1>1, <2>1, <2>2
<1>4. \A m \in heap : m # n => m \in heap'
  BY <1>1
<1>5. mine[n] /\ payload[n] # Null =>
        /\ payload[n] \in alive \ handed
        /\ \A m \in heap : mine[m] /\ payload[m] = payload[n] => m = n
  BY DEF DataInv
<1>6. free => mine[n]
  BY DEF MayFreeData
<1>7. alive' \ handed' = IF mine[n] THEN (alive \ handed) \ {payload[n]} ELSE alive \ handed
  BY <1>1, <1>2, <1>5, <1>6
<1>8. handed' \subseteq alive' /\ alive' \subseteq Blocks
  BY <1>1, <1>2, <1>5, <1>6
<1>9. ASSUME NEW m \in heap', mine'[m], payload'[m] # Null PROVE payload'[m] \in alive' \ handed'
  <2>1. m \in heap /\ m # n /\ mine[m] /\ payload[m] # Null /\ payload'[m] = payload[m]
    BY <1>3, <1>9
  <2>2. payload[m] \in alive \ handed
    BY <2>1 DEF DataInv
  <2> QED BY <1>5, <1>7, <2>1, <2>2
<1>10. ASSUME NEW m \in heap', NEW x \in heap', mine'[m], mine'[x], payload'[m] = payload'[x], payload'[m] # Null
       PROVE  m = x
  BY <1>3, <1>10 DEF DataInv
<1>11. ASSUME NEW b \in alive' \ handed' PROVE \E m \in heap' : mine'[m] /\ payload'[m] = b
  <2>1. b \in alive \ handed /\ (mine[n] => b # payload[n])
    BY <1>7
  <2>2. PICK m \in heap : mine[m] /\ payload[m] = b
    BY <2>1 DEF DataInv
  <2>3. m \in heap'
    BY <1>4, <2>1, <2>2
  <2> QED BY <1>3, <2>2, <2>3
<1> QED BY <1>8, <1>9, <1>10, <1>11 DEF DataInv

\* What a removal makes of the lists.
LEMMA UnlinkStep ==
  ASSUME TypeOK, ShapeInv, AllListed, DataInv, NEW l \in Live, NEW n \in Members(l), NEW free \in BOOLEAN,
         MayFreeData(n, free), Unlink(l, n, free), spent' = spent
  PROVE  /\ TypeOK' /\ ShapeInv' /\ AllListed' /\ DataInv'
         /\ heap' = heap \ {n}
         /\ \A m \in Live \ {l} : Chain(m)' = Chain(m)
         /\ Members(l)' = Members(l) \ {n}
         /\ \A x \in Nodes : x # n => mine'[x] = mine[x] /\ payload'[x] = payload[x]
<1>1. n \in heap /\ n \in Nodes /\ l \in Lists
  BY MemberFacts DEF Live
<1>2. DataInv' /\ handed' \subseteq alive' /\ alive' \subseteq Blocks
  BY <1>1, UnlinkData
<1>3. /\ heap' = heap \ {n}
      /\ \A x \in Nodes : x # n => mine'[x] = mine[x] /\ payload'[x] = payload[x]
  <2>1. /\ heap' = heap \ {n}
        /\ payload' = [m \in Nodes |-> IF m \in {n} THEN Null ELSE payload[m]]
        /\ mine' = [m \in Nodes |-> m \notin {n} /\ mine[m]]
    BY DEF Unlink, Forget
  <2>2. ASSUME NEW x \in Nodes, x # n PROVE mine'[x] = mine[x] /\ payload'[x] = payload[x]
    <3>1. mine[x] \in BOOLEAN
      BY DEF TypeOK
    <3>2. mine'[x] = (x \notin {n} /\ mine[x])
      BY <2>1
    <3> QED BY <2>1, <2>2, <3>1, <3>2
  <2> QED BY <2>1, <2>2
<1>4. TypeOK'
  <2>1. /\ heap' \subseteq Nodes
        /\ next' \in [Nodes -> Nodes \cup {Null}]
        /\ prev' \in [Nodes -> Nodes \cup {Null}]
        /\ owner' \in [Nodes -> Lists \cup {Null}]
        /\ payload' \in [Nodes -> Payloads \cup {Null}]
        /\ mine' \in [Nodes -> BOOLEAN]
        /\ locked' \in [Nodes -> BOOLEAN]
        /\ first' \in [Lists -> Nodes \cup {Null}]
        /\ last' \in [Lists -> Nodes \cup {Null}]
        /\ count' \in [Lists -> Nat]
    BY <1>1, UnlinkTypes
  <2>2. spent' \subseteq Lists
    BY DEF TypeOK
  <2> QED BY <1>2, <2>1, <2>2 DEF TypeOK
<1>5. /\ ShapeInv'
      /\ \A m \in Live \ {l} : Chain(m)' = Chain(m)
      /\ \E p \in 1 .. Len(Chain(l)) : Chain(l)[p] = n /\ Chain(l)' = Without(Chain(l), p)
  BY UnlinkShape
<1>6. Members(l)' = Members(l) \ {n}
  <2>1. PICK p \in 1 .. Len(Chain(l)) : Chain(l)[p] = n /\ Chain(l)' = Without(Chain(l), p)
    BY <1>5
  <2>2. Chain(l) \in Seq(Nodes) /\ Distinct(Chain(l))
    BY ListFacts
  <2>3. ToSet(Without(Chain(l), p)) = ToSet(Chain(l)) \ {Chain(l)[p]}
    BY <2>2, WithoutMembers
  <2> QED BY <2>1, <2>3 DEF Members
<1>7. AllListed'
  <2>1. \A m \in Live \ {l} : Members(m)' = Members(m)
    BY <1>5 DEF Members
  <2>2. Live' = Live
    BY DEF Live
  <2>3. ASSUME NEW x \in heap' PROVE \E m \in Live : x \in Members(m)'
    <3>1. PICK m \in Live : x \in Members(m)
      BY <1>3 DEF AllListed
    <3>2. x \in Members(m)'
      BY <1>3, <1>6, <2>1, <3>1
    <3> QED BY <3>2
  <2> QED BY <2>2, <2>3 DEF AllListed
<1> QED BY <1>2, <1>3, <1>4, <1>5, <1>6, <1>7

\* A new node owns a new block of data, or nothing.
LEMMA NewNodeData ==
  ASSUME TypeOK, DataInv, NEW n \in Nodes \ heap, NEW p, NEW owned \in BOOLEAN,
         heap' = heap \cup {n}, payload' = [payload EXCEPT ![n] = p], mine' = [mine EXCEPT ![n] = owned],
         handed' = handed,
         IF owned THEN p \in Blocks \ alive /\ alive' = alive \cup {p} ELSE alive' = alive
  PROVE  DataInv' /\ handed' \subseteq alive' /\ alive' \subseteq Blocks
<1>1. heap \subseteq Nodes /\ handed \subseteq alive /\ alive \subseteq Blocks /\ Null \notin Blocks
  BY ListConstants DEF TypeOK
<1>2. payload'[n] = p /\ mine'[n] = owned
  BY DEF TypeOK
<1>3. \A m \in heap : m # n /\ payload'[m] = payload[m] /\ mine'[m] = mine[m]
  BY <1>1 DEF TypeOK
<1>4. \A m \in heap' : m = n \/ m \in heap
  OBVIOUS
<1>5. handed' \subseteq alive' /\ alive' \subseteq Blocks
  BY <1>1
<1>6. alive' \ handed' = IF owned THEN (alive \ handed) \cup {p} ELSE alive \ handed
  BY <1>1
<1>7. ASSUME NEW m \in heap, mine[m], payload[m] # Null PROVE payload[m] \in alive \ handed /\ (owned => payload[m] # p)
  <2>1. payload[m] \in alive \ handed
    BY <1>7 DEF DataInv
  <2> QED BY <2>1
<1>8. ASSUME NEW m \in heap', mine'[m], payload'[m] # Null PROVE payload'[m] \in alive' \ handed'
  <2>1. CASE m = n
    BY <1>2, <1>6, <1>8, <2>1
  <2>2. CASE m \in heap
    BY <1>3, <1>6, <1>7, <1>8, <2>2
  <2> QED BY <1>4, <2>1, <2>2
<1>9. ASSUME NEW m \in heap', NEW x \in heap', mine'[m], mine'[x], payload'[m] = payload'[x], payload'[m] # Null
      PROVE  m = x
  <2>1. CASE m = n /\ x \in heap
    BY <1>2, <1>3, <1>7, <1>9, <2>1
  <2>2. CASE x = n /\ m \in heap
    BY <1>2, <1>3, <1>7, <1>9, <2>2
  <2>3. CASE m \in heap /\ x \in heap
    BY <1>3, <1>9, <2>3 DEF DataInv
  <2> QED BY <1>4, <2>1, <2>2, <2>3
<1>10. ASSUME NEW b \in alive' \ handed' PROVE \E m \in heap' : mine'[m] /\ payload'[m] = b
  <2>1. CASE b \in alive \ handed
    <3>1. PICK m \in heap : mine[m] /\ payload[m] = b
      BY <2>1 DEF DataInv
    <3> QED BY <1>3, <3>1
  <2>2. CASE owned /\ b = p
    BY <1>2, <2>2
  <2> QED BY <1>6, <2>1, <2>2
<1> QED BY <1>5, <1>8, <1>9, <1>10 DEF DataInv
-----------------------------------------------------------------------------
(* Calls without a loop *)

\* Between the calls no node is on its way.
LEMMA RestAtIdle ==
  ASSUME IInv, Idle
  PROVE  Rest
<1>1. loop.kind # "merge"
  BY DEF Idle, NoLoop
<1> QED BY <1>1 DEF IInv, Rest, HeapInv, AllListed

\* A call without a loop ends between the calls again.
LEMMA RestAfter ==
  ASSUME Rest', loop' = NoLoop
  PROVE  IInv'
BY DEF IInv, Rest, HeapInv, AllListed, LoopInv

\* listAddNode.
LEMMA AddNodeKeeps ==
  ASSUME Rest, NEW l \in Lists, NEW after \in Places(l), AddNode(l, after)
  PROVE  Rest'
<1>0. TypeOK /\ ShapeInv /\ AllListed
  BY DEF Rest
<1>1. l \in Live /\ handed' = handed /\ alive' = alive
  BY DEF AddNode, Usable, Live, data
<1>2. PICK n \in Nodes, p \in Borrowed : NewNode(n, l, p, FALSE, FALSE, after)
  BY DEF AddNode
<1>3. p \in Payloads \cup {Null} /\ FALSE \in BOOLEAN
  BY DEF Payloads
<1>4. /\ n \in Nodes \ heap /\ heap' = heap \cup {n}
      /\ ShapeInv' /\ AllListed'
      /\ payload' = [payload EXCEPT ![n] = p]
      /\ mine' = [mine EXCEPT ![n] = FALSE]
      /\ handed' \subseteq alive' /\ alive' \subseteq Blocks => TypeOK'
  <2>1. NewNodeOutcome(n, l, after)
    BY <1>0, <1>1, <1>2, <1>3, NewNodeStep, Zenon
  <2> QED BY <1>2, <2>1 DEF NewNode, NewNodeOutcome
<1>5. DataInv' /\ handed' \subseteq alive' /\ alive' \subseteq Blocks
  BY <1>1, <1>3, <1>4, NewNodeData DEF Rest
<1> QED BY <1>4, <1>5 DEF Rest

\* listAddNodeData and listAddNodeString.
LEMMA AddNodeDataKeeps ==
  ASSUME Rest, NEW l \in Lists, NEW after \in Places(l), AddNodeData(l, after)
  PROVE  Rest'
<1>0. TypeOK /\ ShapeInv /\ AllListed
  BY DEF Rest
<1>1. l \in Live /\ handed' = handed
  BY DEF AddNodeData, Usable, Live
<1>2. PICK n \in Nodes, b \in Blocks \ alive : NewNode(n, l, b, TRUE, FALSE, after) /\ alive' = alive \cup {b}
  BY DEF AddNodeData
<1>3. b \in Payloads \cup {Null} /\ FALSE \in BOOLEAN /\ TRUE \in BOOLEAN
  BY DEF Payloads
<1>4. /\ n \in Nodes \ heap /\ heap' = heap \cup {n}
      /\ ShapeInv' /\ AllListed'
      /\ payload' = [payload EXCEPT ![n] = b]
      /\ mine' = [mine EXCEPT ![n] = TRUE]
      /\ handed' \subseteq alive' /\ alive' \subseteq Blocks => TypeOK'
  <2>1. NewNodeOutcome(n, l, after)
    BY <1>0, <1>1, <1>2, <1>3, NewNodeStep, Zenon
  <2> QED BY <1>2, <2>1 DEF NewNode, NewNodeOutcome
<1>5. DataInv' /\ handed' \subseteq alive' /\ alive' \subseteq Blocks
  BY <1>1, <1>2, <1>3, <1>4, NewNodeData DEF Rest
<1> QED BY <1>4, <1>5 DEF Rest

\* What a call names by Null, LAST_NODE or a node is a node of the list.
LEMMA NamedIs ==
  ASSUME ShapeInv, NEW l \in Live, NEW n \in Places(l), Named(l, n) # Null
  PROVE  Named(l, n) \in Members(l)
<1>1. /\ first[l] = (IF Len(Chain(l)) = 0 THEN Null ELSE Chain(l)[1])
      /\ last[l] = (IF Len(Chain(l)) = 0 THEN Null ELSE Chain(l)[Len(Chain(l))])
      /\ Len(Chain(l)) \in Nat /\ \A i \in 1 .. Len(Chain(l)) : Chain(l)[i] \in Members(l)
  BY ListFacts DEF Good
<1>2. Len(Chain(l)) # 0 => 1 \in 1 .. Len(Chain(l)) /\ Len(Chain(l)) \in 1 .. Len(Chain(l))
  BY <1>1
<1>3. first[l] # Null => first[l] \in Members(l)
  BY <1>1, <1>2
<1>4. last[l] # Null => last[l] \in Members(l)
  BY <1>1, <1>2
<1> QED BY <1>3, <1>4 DEF Named, Places

\* listRemoveNode.
LEMMA RemoveNodeKeeps ==
  ASSUME Rest, NEW l \in Lists, NEW n \in Places(l), NEW free \in BOOLEAN, RemoveNode(l, n, free)
  PROVE  Rest'
<1>1. /\ l \in Live /\ Named(l, n) # Null /\ MayFreeData(Named(l, n), free)
      /\ Unlink(l, Named(l, n), free) /\ spent' = spent
  BY DEF RemoveNode, Usable, Live
<1>2. Named(l, n) \in Members(l)
  BY <1>1, NamedIs DEF Rest
<1> QED BY <1>1, <1>2, UnlinkStep DEF Rest

\* listRemoveTaggedNode.
LEMMA RemoveTaggedNodeKeeps ==
  ASSUME Rest, NEW l \in Lists, NEW p, NEW free \in BOOLEAN, RemoveTaggedNode(l, p, free)
  PROVE  Rest'
<1>1. l \in Live /\ spent' = spent
  BY DEF RemoveTaggedNode, Usable, Live
<1>2. PICK i \in 1 .. Len(Chain(l)) : MayFreeData(Chain(l)[i], free) /\ Unlink(l, Chain(l)[i], free)
  BY DEF RemoveTaggedNode
<1>3. Chain(l)[i] \in Members(l)
  BY <1>1, ListFacts DEF Rest
<1> QED BY <1>1, <1>2, <1>3, UnlinkStep DEF Rest

\* Calls that leave the lists alone.
LEMMA ListedStay ==
  ASSUME ShapeInv, AllListed, UNCHANGED <<heap, links, spent>>
  PROVE  ShapeInv' /\ AllListed'
<1>1. heap' = heap /\ spent' = spent /\ UNCHANGED links
  OBVIOUS
<1>2. ShapeInv' /\ \A l \in Lists : Members(l)' = Members(l)
  BY <1>1, ListsStay
<1>3. Live' = Live /\ Live \subseteq Lists
  BY <1>1 DEF Live
<1> QED BY <1>1, <1>2, <1>3 DEF AllListed

\* listSwapNodes: whoever owned the one node's data owns the other's.
LEMMA SwapNodesKeeps ==
  ASSUME Rest, NEW n1 \in heap, NEW n2 \in heap, SwapNodes(n1, n2)
  PROVE  Rest'
<1>1. /\ n1 # n2 /\ UNCHANGED <<heap, links, data, spent>>
      /\ payload' = Exchanged(payload, n1, n2)
      /\ mine' = Exchanged(mine, n1, n2)
      /\ locked' = Exchanged(locked, n1, n2)
  BY DEF SwapNodes, ExchangeContents
<1>2. ShapeInv' /\ AllListed'
  BY <1>1, ListedStay DEF Rest
<1>3. heap \subseteq Nodes /\ n1 \in Nodes /\ n2 \in Nodes
  BY DEF Rest, TypeOK
<1>4. TypeOK'
  <2>1. payload' \in [Nodes -> Payloads \cup {Null}]
    BY <1>1, <1>3 DEF Rest, TypeOK, Exchanged
  <2>2. mine' \in [Nodes -> BOOLEAN] /\ locked' \in [Nodes -> BOOLEAN]
    BY <1>1, <1>3 DEF Rest, TypeOK, Exchanged
  <2> QED BY <1>1, <2>1, <2>2 DEF Rest, TypeOK, links, data
<1>5. DataInv'
  <2> DEFINE o(n) == IF n = n1 THEN n2 ELSE IF n = n2 THEN n1 ELSE n
  <2>1. \A n \in heap : o(n) \in heap /\ o(o(n)) = n /\ payload'[n] = payload[o(n)] /\ mine'[n] = mine[o(n)]
    BY <1>1, <1>3 DEF Rest, TypeOK, Exchanged
  <2>2. \A m, n \in heap : o(m) = o(n) => m = n
    BY <2>1
  <2> HIDE DEF o
  <2>3. heap' = heap /\ alive' = alive /\ handed' = handed
    BY <1>1 DEF data
  <2>4. \A n \in heap : mine'[n] /\ payload'[n] # Null => payload'[n] \in alive \ handed
    BY <2>1 DEF Rest, DataInv
  <2>5. \A m, n \in heap : mine'[m] /\ mine'[n] /\ payload'[m] = payload'[n] /\ payload'[m] # Null => m = n
    <3> TAKE m, n \in heap
    <3>1. o(m) \in heap /\ o(n) \in heap
      BY <2>1
    <3> QED BY <2>1, <2>2, <3>1 DEF Rest, DataInv
  <2>6. \A b \in alive \ handed : \E n \in heap : mine'[n] /\ payload'[n] = b
    <3> TAKE b \in alive \ handed
    <3>1. PICK n \in heap : mine[n] /\ payload[n] = b
      BY DEF Rest, DataInv
    <3>2. o(n) \in heap /\ mine'[o(n)] = mine[o(o(n))] /\ payload'[o(n)] = payload[o(o(n))] /\ o(o(n)) = n
      BY <2>1
    <3> QED BY <3>1, <3>2
  <2> QED BY <2>3, <2>4, <2>5, <2>6 DEF DataInv
<1> QED BY <1>2, <1>4, <1>5 DEF Rest

\* listLockNode and listUnlockNode.
LEMMA LocksKeep ==
  ASSUME Rest, NEW n \in heap, LockNode(n) \/ UnlockNode(n)
  PROVE  Rest'
<1>1. /\ UNCHANGED <<heap, links, payload, mine, data, spent>>
      /\ \E b \in BOOLEAN : locked' = [locked EXCEPT ![n] = b]
  BY DEF LockNode, UnlockNode
<1>2. ShapeInv' /\ AllListed'
  BY <1>1, ListedStay DEF Rest
<1>3. TypeOK'
  BY <1>1 DEF Rest, TypeOK, links, data
<1>4. DataInv'
  BY <1>1 DEF Rest, DataInv, data
<1> QED BY <1>2, <1>3, <1>4 DEF Rest

\* listFreeNodeData.
LEMMA FreeNodeDataKeeps ==
  ASSUME Rest, NEW n \in heap, FreeNodeData(n)
  PROVE  Rest'
<1>1. /\ UNCHANGED <<heap, links, mine, locked, handed, spent>>
      /\ payload[n] # Null /\ mine[n]
      /\ alive' = alive \ {payload[n]} /\ payload' = [payload EXCEPT ![n] = Null]
  BY DEF FreeNodeData, MayFreeData
<1>2. ShapeInv' /\ AllListed'
  BY <1>1, ListedStay DEF Rest
<1>3. payload[n] \in alive \ handed
  BY <1>1 DEF Rest, DataInv
<1>4. \A m \in heap : payload'[m] = IF m = n THEN Null ELSE payload[m]
  BY <1>1 DEF Rest, TypeOK
<1>5. TypeOK'
  BY <1>1, <1>3 DEF Rest, TypeOK, links
<1>6. DataInv'
  <2>1. \A m \in heap : mine[m] /\ payload'[m] # Null => payload'[m] \in alive' \ handed
    BY <1>1, <1>4 DEF Rest, DataInv
  <2>2. \A k, m \in heap : mine[k] /\ mine[m] /\ payload'[k] = payload'[m] /\ payload'[k] # Null => k = m
    BY <1>4 DEF Rest, DataInv
  <2>3. ASSUME NEW b \in alive' \ handed PROVE \E m \in heap : mine[m] /\ payload'[m] = b
    <3>1. PICK m \in heap : mine[m] /\ payload[m] = b
      BY <1>1 DEF Rest, DataInv
    <3> QED BY <1>1, <1>4, <3>1
  <2> QED BY <1>1, <2>1, <2>2, <2>3 DEF DataInv
<1> QED BY <1>2, <1>5, <1>6 DEF Rest

\* The caller frees what was returned to it.
LEMMA FreeDataKeeps ==
  ASSUME Rest, NEW b \in Blocks, FreeData(b)
  PROVE  Rest'
<1>1. /\ UNCHANGED <<heap, links, contents, spent>> /\ b \in handed
      /\ alive' = alive \ {b} /\ handed' = handed \ {b}
  BY DEF FreeData
<1>2. ShapeInv' /\ AllListed'
  BY <1>1, ListedStay DEF Rest
<1>3. TypeOK'
  BY <1>1 DEF Rest, TypeOK, links, contents
<1>4. alive' \ handed' = alive \ handed
  BY <1>1
<1>5. DataInv'
  BY <1>1, <1>4 DEF Rest, DataInv, contents
<1> QED BY <1>2, <1>3, <1>5 DEF Rest

\* The position of the i-th node is i.
LEMMA PositionIs ==
  ASSUME ShapeInv, NEW l \in Live, NEW i \in 1 .. Len(Chain(l))
  PROVE  Position(l, Chain(l)[i]) = i
<1>1. Distinct(Chain(l))
  BY ListFacts
<1>2. \E j \in 1 .. Len(Chain(l)) : Chain(l)[j] = Chain(l)[i]
  OBVIOUS
<1>3. /\ Position(l, Chain(l)[i]) \in 1 .. Len(Chain(l))
      /\ Chain(l)[Position(l, Chain(l)[i])] = Chain(l)[i]
  BY <1>2 DEF Position
<1> QED BY <1>1, <1>3 DEF Distinct

\* listReverse.
LEMMA ReverseListKeeps ==
  ASSUME Rest, NEW l \in Lists, ReverseList(l)
  PROVE  Rest' /\ Chain(l)' = Reversed(Chain(l)) /\ \A m \in Live \ {l} : Chain(m)' = Chain(m)
<1> DEFINE c == Chain(l)
           at(i) == IF i \in 1 .. Len(c) THEN c[i] ELSE Null
<1>1. /\ l \in Live /\ spent' = spent /\ UNCHANGED <<heap, owner, count, contents, data>>
      /\ c # <<>>
      /\ next' = [n \in Nodes |-> IF n \in Members(l) THEN at(Position(l, n) - 1) ELSE next[n]]
      /\ prev' = [n \in Nodes |-> IF n \in Members(l) THEN at(Position(l, n) + 1) ELSE prev[n]]
      /\ last' = [last EXCEPT ![l] = first[l]]
      /\ first' = [first EXCEPT ![l] = at(Len(c))]
  BY DEF ReverseList, Usable, Live, Members
<1>2. /\ c \in Seq(Nodes) /\ Len(c) \in Nat /\ Distinct(c)
      /\ \A i \in 1 .. Len(c) : c[i] \in Nodes /\ c[i] \in Members(l) /\ c[i] \in heap /\ owner[c[i]] = l
      /\ Good(c, first[l], last[l], count[l], next, prev)
  BY <1>1, ListFacts DEF Rest
<1>3. \A i \in 1 .. Len(c) : Position(l, c[i]) = i
  BY <1>1, PositionIs DEF Rest
<1>4. at(Len(c)) = last[l] /\ Len(c) # 0
  BY <1>1, <1>2 DEF Good
<1>5. \A i \in 1 .. Len(c) : /\ next'[c[i]] = IF i = 1 THEN Null ELSE c[i - 1]
                             /\ prev'[c[i]] = IF i = Len(c) THEN Null ELSE c[i + 1]
  <2> TAKE i \in 1 .. Len(c)
  <2>1. next'[c[i]] = at(i - 1) /\ prev'[c[i]] = at(i + 1)
    BY <1>1, <1>2, <1>3
  <2>2. at(i - 1) = IF i = 1 THEN Null ELSE c[i - 1]
    BY <1>2
  <2>3. at(i + 1) = IF i = Len(c) THEN Null ELSE c[i + 1]
    BY <1>2
  <2> QED BY <2>1, <2>2, <2>3
<1>6. TypeOK'
  <2>1. \A i \in Int : at(i) \in Nodes \cup {Null}
    BY <1>2
  <2>2. \A n \in Members(l) : Position(l, n) \in Nat
    BY <1>1, <1>2, <1>3, MemberFacts DEF Rest
  <2> HIDE DEF at
  <2>3. next' \in [Nodes -> Nodes \cup {Null}] /\ prev' \in [Nodes -> Nodes \cup {Null}]
    BY <1>1, <2>1, <2>2 DEF Rest, TypeOK
  <2>4. first' \in [Lists -> Nodes \cup {Null}] /\ last' \in [Lists -> Nodes \cup {Null}]
    BY <1>1, <1>4 DEF Rest, TypeOK
  <2> QED BY <1>1, <2>3, <2>4 DEF Rest, TypeOK, contents, data
<1>7. Good(Reversed(c), last[l], first[l], count[l], next', prev')
  BY <1>2, <1>5, GoodReversed
<1>8. first'[l] = last[l] /\ last'[l] = first[l] /\ count'[l] = count[l]
  BY <1>1, <1>4 DEF Rest, TypeOK
<1>9. \A i \in 1 .. Len(Reversed(c)) : Reversed(c)[i] \in heap' /\ owner'[Reversed(c)[i]] = l
  BY <1>1, <1>2, ReversedIs
<1>10. \A m \in Live \ {l} : first'[m] = first[m] /\ last'[m] = last[m] /\ count'[m] = count[m]
  BY <1>1 DEF Rest, TypeOK, Live
<1>11. \A m \in Live \ {l} : \A n \in Members(m) :
         next'[n] = next[n] /\ prev'[n] = prev[n] /\ owner'[n] = owner[n] /\ n \in heap'
  <2> TAKE m \in Live \ {l}
  <2> TAKE n \in Members(m)
  <2>1. n \in Nodes /\ n \in heap /\ owner[n] = m
    BY MemberFacts DEF Rest
  <2>2. n \notin Members(l)
    BY <1>1, <2>1, MemberFacts DEF Rest
  <2> QED BY <1>1, <2>1, <2>2
<1> HIDE DEF at
<1>12. ShapeInv' /\ c' = Reversed(c) /\ \A m \in Live \ {l} : Chain(m)' = Chain(m)
  <2>1. ShapeInv /\ spent' = spent /\ l \in Live
    BY <1>1 DEF Rest
  <2>2. Good(Reversed(c), first'[l], last'[l], count'[l], next', prev')
    BY <1>7, <1>8
  <2> QED BY <1>9, <1>10, <1>11, <2>1, <2>2, ListChanges
<1>13. \A m \in Live : Members(m)' = Members(m)
  <2>1. Members(l)' = Members(l)
    BY <1>2, <1>12, ReversedMembers DEF Members
  <2> QED BY <1>12, <2>1 DEF Members
<1>14. AllListed'
  BY <1>1, <1>13 DEF Rest, AllListed, Live
<1>15. DataInv'
  BY <1>1 DEF Rest, DataInv, contents, data
<1> QED BY <1>6, <1>12, <1>14, <1>15 DEF Rest

\* listFreeNodes.
LEMMA FreeNodesKeeps ==
  ASSUME Rest, NEW l \in Lists, FreeNodes(l)
  PROVE  Rest' /\ Chain(l)' = <<>> /\ \A m \in Live \ {l} : Chain(m)' = Chain(m)
<1> DEFINE all == Members(l)
           freed == {payload[n] : n \in {m \in all : mine[m]}}
<1>1. /\ l \in Live /\ spent' = spent /\ handed' = handed
      /\ next' = [n \in Nodes |-> IF n \in all THEN Null ELSE next[n]]
      /\ prev' = [n \in Nodes |-> IF n \in all THEN Null ELSE prev[n]]
      /\ first' = [first EXCEPT ![l] = Null]
      /\ last' = [last EXCEPT ![l] = Null]
      /\ count' = [count EXCEPT ![l] = 0]
      /\ alive' = alive \ freed
  BY DEF FreeNodes, Usable, Live
<1>2. /\ heap' = heap \ all
      /\ owner' = [n \in Nodes |-> IF n \in all THEN Null ELSE owner[n]]
      /\ payload' = [n \in Nodes |-> IF n \in all THEN Null ELSE payload[n]]
      /\ mine' = [n \in Nodes |-> n \notin all /\ mine[n]]
      /\ locked' = [n \in Nodes |-> n \notin all /\ locked[n]]
  BY DEF FreeNodes, Forget
<1>3. \A n \in all : n \in Nodes /\ n \in heap /\ owner[n] = l
  BY <1>1, MemberFacts DEF Rest
<1>4. \A m \in Live \ {l} : \A n \in Members(m) : n \in Nodes /\ n \in heap /\ n \notin all
  <2> TAKE m \in Live \ {l}
  <2> TAKE n \in Members(m)
  <2>1. n \in Nodes /\ n \in heap /\ owner[n] = m
    BY MemberFacts DEF Rest
  <2> QED BY <1>3, <2>1
<1> HIDE DEF all, freed
<1>5. Good(<<>>, first'[l], last'[l], count'[l], next', prev')
  <2>1. first'[l] = Null /\ last'[l] = Null /\ count'[l] = 0
    BY <1>1 DEF Rest, TypeOK
  <2> QED BY <2>1, GoodEmpty
<1>6. \A m \in Live \ {l} : first'[m] = first[m] /\ last'[m] = last[m] /\ count'[m] = count[m]
  BY <1>1 DEF Rest, TypeOK, Live
<1>7. \A m \in Live \ {l} : \A n \in Members(m) :
        next'[n] = next[n] /\ prev'[n] = prev[n] /\ owner'[n] = owner[n] /\ n \in heap'
  BY <1>1, <1>2, <1>4
<1>8. ShapeInv' /\ Chain(l)' = <<>> /\ \A m \in Live \ {l} : Chain(m)' = Chain(m)
  <2>1. \A i \in 1 .. Len(<<>>) : <<>>[i] \in heap' /\ owner'[<<>>[i]] = l
    OBVIOUS
  <2>2. ShapeInv /\ spent' = spent /\ l \in Live
    BY <1>1 DEF Rest
  <2> QED BY <1>5, <1>6, <1>7, <2>1, <2>2, ListChanges
<1>9. AllListed'
  <2>1. \A m \in Live \ {l} : Members(m)' = Members(m)
    BY <1>8 DEF Members
  <2>2. ASSUME NEW x \in heap' PROVE \E m \in Live : x \in Members(m)'
    <3>1. PICK m \in Live : x \in Members(m)
      BY <1>2 DEF Rest, AllListed
    <3>2. m # l
      BY <1>2, <3>1 DEF all
    <3> QED BY <2>1, <3>1, <3>2
  <2>3. Live' = Live
    BY <1>1 DEF Live
  <2> QED BY <2>2, <2>3 DEF AllListed
<1>10. /\ heap \subseteq Nodes /\ handed \subseteq alive /\ alive \subseteq Blocks /\ Null \notin Blocks
  BY ListConstants DEF Rest, TypeOK
<1>11. \A b \in freed : b = Null \/ b \in alive \ handed
  BY <1>3 DEF freed, Rest, DataInv
<1>12. \A n \in heap' : n \in heap /\ n \notin all /\ payload'[n] = payload[n] /\ mine'[n] = mine[n]
  <2> TAKE n \in heap'
  <2>1. n \in heap /\ n \notin all /\ n \in Nodes /\ mine[n] \in BOOLEAN
    BY <1>2, <1>10 DEF Rest, TypeOK
  <2> QED BY <1>2, <2>1
<1>13. DataInv'
  <2>1. ASSUME NEW n \in heap', mine'[n], payload'[n] # Null PROVE payload'[n] \in alive' \ handed'
    <3>1. n \in heap /\ n \notin all /\ payload'[n] = payload[n] /\ mine[n]
      BY <1>12, <2>1
    <3>2. payload[n] \in alive \ handed
      BY <2>1, <3>1 DEF Rest, DataInv
    <3>3. \A m \in all : mine[m] => payload[m] # payload[n]
      BY <1>3, <2>1, <3>1 DEF Rest, DataInv
    <3> QED BY <1>1, <3>1, <3>2, <3>3 DEF freed
  <2>2. \A m, n \in heap' : mine'[m] /\ mine'[n] /\ payload'[m] = payload'[n] /\ payload'[n] # Null => m = n
    BY <1>12 DEF Rest, DataInv
  <2>3. ASSUME NEW b \in alive' \ handed' PROVE \E n \in heap' : mine'[n] /\ payload'[n] = b
    <3>1. b \in alive \ handed /\ b \notin freed
      BY <1>1
    <3>2. PICK n \in heap : mine[n] /\ payload[n] = b
      BY <3>1 DEF Rest, DataInv
    <3>3. n \notin all
      BY <3>1, <3>2 DEF freed
    <3>4. n \in heap'
      BY <1>2, <3>3
    <3> QED BY <1>12, <3>2, <3>4
  <2> QED BY <2>1, <2>2, <2>3 DEF DataInv
<1>14. TypeOK'
  <2>1. next' \in [Nodes -> Nodes \cup {Null}] /\ prev' \in [Nodes -> Nodes \cup {Null}]
    BY <1>1 DEF Rest, TypeOK
  <2>2. owner' \in [Nodes -> Lists \cup {Null}] /\ payload' \in [Nodes -> Payloads \cup {Null}]
    BY <1>2 DEF Rest, TypeOK
  <2>3. mine' \in [Nodes -> BOOLEAN] /\ locked' \in [Nodes -> BOOLEAN]
    BY <1>2 DEF Rest, TypeOK
  <2>4. first' \in [Lists -> Nodes \cup {Null}] /\ last' \in [Lists -> Nodes \cup {Null}] /\ count' \in [Lists -> Nat]
    BY <1>1 DEF Rest, TypeOK
  <2>5. heap' \subseteq Nodes /\ spent' \subseteq Lists /\ alive' \subseteq Blocks /\ handed' \subseteq alive'
    BY <1>1, <1>2, <1>10, <1>11 DEF Rest, TypeOK
  <2> QED BY <2>1, <2>2, <2>3, <2>4, <2>5 DEF TypeOK
<1> QED BY <1>8, <1>9, <1>13, <1>14 DEF Rest
-----------------------------------------------------------------------------
(* Loops *)

\* The invariant of the loop, from that of its next state lp.
LEMMA LoopAfter ==
  ASSUME NEW lp, loop' = lp, LoopIs(lp)'
  PROVE  LoopInv'
BY DEF LoopInv, LoopIs, AddLoop, ExtractLoop, MergeLoop, RemoveLoop, AtSource, Chain, Anchor, Members, Places

\* What Begin makes of a loop over a source, and of one without.
Over(lp, kind, l, from, after, max) ==
  /\ lp \in Loops
  /\ lp.kind = kind /\ lp.list = l /\ lp.at = from /\ lp.node = Null /\ lp.after = after
  /\ lp.max = max /\ lp.count = 0 /\ lp.stopped = FALSE
  /\ lp.source = ChainFrom(from) /\ lp.added = <<>>

\* The state of a loop over a source when it begins.
LEMMA BegunOver ==
  ASSUME NEW kind \in {"add", "extract", "merge"}, NEW l \in Lists,
         NEW from \in Nodes \cup {Null}, NEW after \in Nodes \cup {Null, LastNode},
         NEW max \in Nat, ChainFrom(from) \in Seq(Nodes),
         Begin(kind, l, from, after, max, FALSE)
  PROVE  Over(loop', kind, l, from, after, max)
<1>1. loop' = [kind |-> kind, list |-> l, at |-> from, node |-> Null, after |-> after, max |-> max,
               free |-> FALSE, count |-> 0, stopped |-> FALSE, added |-> <<>>, source |-> ChainFrom(from),
               before |-> 0]
  BY DEF Begin
<1>2. <<>> \in Seq(Nat)
  OBVIOUS
<1>3. loop' \in Loops
  BY <1>1, <1>2 DEF Loops
<1> QED BY <1>1, <1>3 DEF Over

\* The state of listRemoveNodes when it begins.
LEMMA BegunRemove ==
  ASSUME NEW l \in Lists, NEW from \in Nodes \cup {Null}, NEW max \in Nat, NEW free \in BOOLEAN, TypeOK,
         Begin("remove", l, from, Null, max, free)
  PROVE  loop' \in Loops /\ loop'.kind = "remove" /\ loop'.list = l /\ loop'.at = from /\ loop'.free = free
<1>1. loop' = [kind |-> "remove", list |-> l, at |-> from, node |-> Null, after |-> Null, max |-> max,
               free |-> free, count |-> 0, stopped |-> FALSE, added |-> <<>>, source |-> <<>>,
               before |-> count[l]]
  BY DEF Begin
<1>2. <<>> \in Seq(Nodes) /\ <<>> \in Seq(Nat) /\ count[l] \in Nat
  BY DEF TypeOK
<1>3. loop' \in Loops
  BY <1>1, <1>2 DEF Loops
<1> QED BY <1>1, <1>3

\* NoMax lets a loop over at least one node begin.
LEMMA NoMaxIsNat == NoMax \in Nat /\ (Nodes # {} => NoMax > 0)
<1>1. IsFiniteSet(Nodes)
  BY ListConstants
<1>2. Cardinality(Nodes) \in Nat /\ (Nodes # {} => Cardinality(Nodes) # 0)
  BY <1>1, FS_CardinalityType, FS_EmptySet
<1> QED BY <1>2 DEF NoMax

\* The invariant, but for the loop, after a step that leaves the lists alone.
LEMMA BeginStays ==
  ASSUME Rest, UNCHANGED <<heap, links, contents, data>>, spent' = spent
  PROVE  /\ TypeOK' /\ ShapeInv' /\ HeapInv' /\ DataInv'
         /\ Live' = Live
         /\ \A l \in Lists : Chain(l)' = Chain(l) /\ Members(l)' = Members(l)
<1>1. ShapeInv' /\ AllListed'
  BY ListedStay DEF Rest
<1>2. \A l \in Lists : Chain(l)' = Chain(l) /\ Members(l)' = Members(l)
  BY ListsStay DEF Rest
<1>3. TypeOK'
  BY DEF Rest, TypeOK, links, contents, data
<1>4. DataInv'
  BY DEF Rest, DataInv, contents, data
<1>5. HeapInv' /\ Live' = Live
  BY <1>1 DEF HeapInv, AllListed, Live
<1> QED BY <1>1, <1>2, <1>3, <1>4, <1>5

\* listRemoveNodes begins.
LEMMA BeginRemoveNodesKeeps ==
  ASSUME Rest, NEW l \in Lists, NEW n \in Places(l), NEW max \in Nat, NEW free \in BOOLEAN,
         BeginRemoveNodes(l, n, max, free)
  PROVE  IInv'
<1>1. /\ l \in Live /\ spent' = spent /\ UNCHANGED <<heap, links, contents, data>>
      /\ free => \A m \in Members(l) : mine[m]
      /\ Begin("remove", l, Named(l, n), Null, max, free)
  BY DEF BeginRemoveNodes, Usable, Live
<1>2. Named(l, n) # Null => Named(l, n) \in Members(l)
  BY <1>1, NamedIs DEF Rest
<1>3. Named(l, n) \in Nodes \cup {Null}
  BY <1>1, <1>2, MemberFacts DEF Rest
<1> SUFFICES ASSUME NEW lp, loop' = lp PROVE IInv'
  OBVIOUS
<1>4. lp \in Loops /\ lp.kind = "remove" /\ lp.list = l /\ lp.at = Named(l, n) /\ lp.free = free
  <2>1. TypeOK
    BY DEF Rest
  <2> QED BY <1>1, <1>3, <2>1, BegunRemove
<1>5. /\ TypeOK' /\ ShapeInv' /\ HeapInv' /\ DataInv' /\ Live' = Live
      /\ Members(l)' = Members(l)
  BY <1>1, BeginStays
<1>6. mine' = mine
  BY <1>1 DEF contents
<1>7. RemoveLoop(lp)'
  BY <1>1, <1>2, <1>4, <1>5, <1>6 DEF RemoveLoop
<1>8. LoopIs(lp)'
  BY <1>1, <1>4, <1>5, <1>7 DEF LoopIs
<1> QED BY <1>5, <1>8, LoopAfter DEF IInv

\* A loop over a list begins at its first node.
LEMMA AtFirst ==
  ASSUME ShapeInv, TypeOK, NEW s \in Live, NEW lp, lp.at = first[s], lp.count = 0, lp.source = Chain(s)
  PROVE  AtSource(lp)
<1>1. /\ Len(Chain(s)) \in Nat
      /\ first[s] = IF Len(Chain(s)) = 0 THEN Null ELSE Chain(s)[1]
  BY ListFacts DEF Good
<1>2. 0 <= Len(Chain(s)) /\ first[s] = IF 0 < Len(Chain(s)) THEN Chain(s)[0 + 1] ELSE Null
  BY <1>1
<1> QED BY <1>2 DEF AtSource

\* listAddNodeList begins.
LEMMA BeginAddNodeListKeeps ==
  ASSUME Rest, NEW l \in Lists, NEW src \in Lists, NEW after \in Places(l), BeginAddNodeList(l, src, after)
  PROVE  IInv'
<1>1. /\ l \in Live /\ src \in Live /\ l # src
      /\ spent' = spent /\ UNCHANGED <<heap, links, contents, data>>
      /\ \A n \in Members(src) : ~mine[n]
      /\ Begin("add", l, first[src], after, NoMax, FALSE)
  BY DEF BeginAddNodeList, Usable, Live
<1>2. after \in Nodes \cup {Null, LastNode}
  BY <1>1, MemberFacts DEF Places, Rest
<1>3. first[src] \in Nodes \cup {Null} /\ ChainFrom(first[src]) = Chain(src) /\ NoMax \in Nat
  BY NoMaxIsNat DEF Rest, TypeOK, Chain
<1>4. /\ Chain(src) \in Seq(Nodes) /\ Len(Chain(src)) \in Nat
      /\ \A i \in 1 .. Len(Chain(src)) : Chain(src)[i] \in Members(src)
  BY <1>1, ListFacts DEF Rest
<1> SUFFICES ASSUME NEW lp, loop' = lp PROVE IInv'
  OBVIOUS
<1>5. /\ lp \in Loops /\ lp.kind = "add" /\ lp.list = l /\ lp.at = first[src] /\ lp.node = Null
      /\ lp.after = after /\ lp.count = 0 /\ lp.source = Chain(src)
  <2>1. Over(lp, "add", l, first[src], after, NoMax)
    BY <1>1, <1>2, <1>3, <1>4, BegunOver
  <2> QED BY <1>3, <2>1 DEF Over
<1>6. /\ TypeOK' /\ ShapeInv' /\ HeapInv' /\ DataInv' /\ Live' = Live
      /\ \A m \in Lists : Chain(m)' = Chain(m) /\ Members(m)' = Members(m)
  BY <1>1, BeginStays
<1>7. mine' = mine
  BY <1>1 DEF contents
<1>8. AtSource(lp)
  BY <1>1, <1>5, AtFirst DEF Rest
<1>9. AddLoop(lp)'
  <2>1. \E s \in Live' \ {lp.list} : lp.source = Chain(s)'
    BY <1>1, <1>5, <1>6
  <2>2. \A i \in 1 .. Len(lp.source) : ~mine'[lp.source[i]]
    BY <1>1, <1>4, <1>5, <1>7
  <2>3. lp.after \in Places(lp.list)'
    BY <1>5, <1>6 DEF Places
  <2>4. AtSource(lp)'
    BY <1>8 DEF AtSource
  <2> QED BY <1>5, <2>1, <2>2, <2>3, <2>4 DEF AddLoop
<1>10. LoopIs(lp)'
  BY <1>1, <1>5, <1>6, <1>9 DEF LoopIs
<1> QED BY <1>6, <1>10, LoopAfter DEF IInv

\* MergeLimit is a number.
LEMMA MergeLimitIsNat == MergeLimit \in Nat
BY ListConstants

\* A list of one node stands between two Nulls.
LEMMA BeginMergeKeeps ==
  ASSUME Rest, MergeLimit <= 1, ~MergeInside,
         NEW l \in Lists, NEW src \in Lists, NEW after \in Places(l), BeginMerge(l, src, after)
  PROVE  IInv'
<1>1. /\ l \in Live /\ src \in Live /\ l # src
      /\ spent' = spent \cup {src} /\ UNCHANGED <<heap, links, contents, data>>
      /\ Len(Chain(src)) <= MergeLimit
      /\ Anchor(l, after) = last[l] /\ (after = Null => Members(l) = {})
      /\ Begin("merge", l, first[src], after, NoMax, FALSE)
  BY DEF BeginMerge, Usable, Live
<1>2. after \in Nodes \cup {Null, LastNode}
  BY <1>1, MemberFacts DEF Places, Rest
<1>3. first[src] \in Nodes \cup {Null} /\ ChainFrom(first[src]) = Chain(src) /\ NoMax \in Nat
  BY NoMaxIsNat DEF Rest, TypeOK, Chain
<1>4. /\ Chain(src) \in Seq(Nodes) /\ Len(Chain(src)) \in {0, 1}
      /\ first[src] = IF Len(Chain(src)) = 0 THEN Null ELSE Chain(src)[1]
      /\ first[src] # Null => /\ first[src] \in Members(src) /\ first[src] \in heap
                              /\ next[first[src]] = Null
      /\ \A n \in Members(src) : n = first[src]
  <2>1. /\ Chain(src) \in Seq(Nodes) /\ Len(Chain(src)) \in Nat
        /\ \A i \in 1 .. Len(Chain(src)) : Chain(src)[i] \in heap /\ Chain(src)[i] \in Members(src)
        /\ Members(src) = {Chain(src)[i] : i \in 1 .. Len(Chain(src))}
        /\ Good(Chain(src), first[src], last[src], count[src], next, prev)
    BY <1>1, ListFacts DEF Rest
  <2>2. Len(Chain(src)) \in {0, 1}
    <3> DEFINE k == Len(Chain(src))
    <3>1. k <= MergeLimit /\ k \in Nat
      BY <1>1, <2>1
    <3> HIDE DEF k
    <3>2. k <= 1
      BY <3>1, MergeLimitIsNat
    <3>3. k \in {0, 1}
      BY <3>1, <3>2
    <3> QED BY <3>3 DEF k
  <2>3. first[src] = IF Len(Chain(src)) = 0 THEN Null ELSE Chain(src)[1]
    BY <2>1 DEF Good
  <2>4. CASE Len(Chain(src)) = 0
    BY <2>1, <2>2, <2>3, <2>4
  <2>5. CASE Len(Chain(src)) = 1
    <3>1. next[Chain(src)[1]] = Null
      BY <2>1, <2>5 DEF Good
    <3>2. 1 \in 1 .. Len(Chain(src)) /\ \A i \in 1 .. Len(Chain(src)) : i = 1
      BY <2>5
    <3> QED BY <2>1, <2>2, <2>3, <2>5, <3>1, <3>2
  <2> QED BY <2>2, <2>4, <2>5
<1> SUFFICES ASSUME NEW lp, loop' = lp PROVE IInv'
  OBVIOUS
<1>5. /\ lp \in Loops /\ lp.kind = "merge" /\ lp.list = l /\ lp.at = first[src] /\ lp.node = Null
      /\ lp.after = after /\ lp.count = 0 /\ lp.max = NoMax /\ lp.stopped = FALSE
  <2>1. Over(lp, "merge", l, first[src], after, NoMax)
    BY <1>1, <1>2, <1>3, <1>4, BegunOver
  <2> QED BY <2>1 DEF Over
<1>6. /\ ShapeInv'
      /\ \A m \in Lists : Chain(m)' = Chain(m) /\ Members(m)' = Members(m)
      /\ Live' = Live \ {src} /\ Live \subseteq Lists
  <2>1. UNCHANGED links /\ heap \subseteq heap' /\ spent \subseteq spent' /\ Live' = Live \ {src} /\ Live \subseteq Lists
    BY <1>1 DEF Live
  <2> QED BY <2>1, ListsStay DEF Rest
<1>7. TypeOK' /\ DataInv'
  BY <1>1 DEF Rest, TypeOK, DataInv, links, contents, data
<1>8. HeapInv'
  <2>1. ASSUME NEW n \in heap, \A m \in Live' : n \notin Members(m)' PROVE lp.at = n
    <3>1. PICK m \in Live : n \in Members(m)
      BY DEF Rest, AllListed
    <3>2. m = src
      BY <1>6, <2>1, <3>1
    <3> QED BY <1>4, <1>5, <3>1, <3>2
  <2>2. heap' = heap /\ loop' = lp
    BY <1>1
  <2> QED BY <1>5, <2>1, <2>2 DEF HeapInv
<1>9. MergeLoop(lp)'
  <2>1. CASE lp.at = Null
    BY <1>5, <2>1 DEF MergeLoop
  <2>2. CASE lp.at # Null
    <3>1. first[src] \in Members(src) /\ lp.at \in heap' /\ next'[lp.at] = Null
      BY <1>1, <1>4, <1>5, <2>2 DEF links
    <3>2. lp.count < lp.max
      <4>1. heap \subseteq Nodes
        BY DEF Rest, TypeOK
      <4>2. Nodes # {}
        BY <1>4, <1>5, <2>2, <4>1
      <4> QED BY <1>5, <4>2, NoMaxIsNat
    <3>3. Anchor(lp.list, lp.after)' = last'[lp.list]
      BY <1>1, <1>5 DEF Anchor, links
    <3>4. lp.after = Null => Chain(lp.list)' = <<>>
      <4>1. Members(l) = {} => Chain(l) = <<>>
        BY <1>1, ListFacts DEF Rest
      <4> QED BY <1>1, <1>5, <1>6, <4>1
    <3>5. \A m \in Live' : lp.at \notin Members(m)'
      <4> TAKE m \in Live'
      <4>1. m \in Live /\ m # src
        BY <1>6
      <4>2. owner[first[src]] = src /\ \A n \in Members(m) : owner[n] = m
        BY <1>1, <3>1, <4>1, MemberFacts DEF Rest
      <4> QED BY <1>5, <1>6, <4>1, <4>2
    <3> QED BY <1>5, <3>1, <3>2, <3>3, <3>4, <3>5 DEF MergeLoop
  <2> QED BY <2>1, <2>2
<1>10. LoopIs(lp)'
  BY <1>1, <1>5, <1>6, <1>9 DEF LoopIs
<1> QED BY <1>6, <1>7, <1>8, <1>10, LoopAfter DEF IInv

\* What follows the first j nodes of a list.
RestOf(c, j) == [i \in 1 .. (Len(c) - j) |-> c[i + j]]

\* What RestOf is, index by index.
LEMMA RestOfIs ==
  ASSUME NEW c \in Seq(Nodes), Distinct(c), NEW j \in 0 .. Len(c)
  PROVE  /\ RestOf(c, j) \in Seq(Nodes) /\ Len(RestOf(c, j)) = Len(c) - j /\ Len(c) \in Nat
         /\ \A i \in 1 .. (Len(c) - j) : i + j \in 1 .. Len(c) /\ RestOf(c, j)[i] = c[i + j]
         /\ Distinct(RestOf(c, j))
<1>1. Len(c) \in Nat /\ \A i \in 1 .. Len(c) : c[i] \in Nodes
  BY SeqFacts
<1>2. \A i \in 1 .. (Len(c) - j) : i + j \in 1 .. Len(c)
  BY <1>1
<1>3. RestOf(c, j) \in [1 .. (Len(c) - j) -> Nodes] /\ Len(c) - j \in Nat
  BY <1>1, <1>2 DEF RestOf
<1>4. RestOf(c, j) \in Seq(Nodes) /\ Len(RestOf(c, j)) = Len(c) - j
  BY <1>3
<1>5. \A i \in 1 .. (Len(c) - j) : RestOf(c, j)[i] = c[i + j]
  BY DEF RestOf
<1>6. Distinct(RestOf(c, j))
  <2> SUFFICES ASSUME NEW a \in 1 .. Len(RestOf(c, j)), NEW b \in 1 .. Len(RestOf(c, j)),
                      RestOf(c, j)[a] = RestOf(c, j)[b]
               PROVE  a = b
    BY DEF Distinct
  <2>1. c[a + j] = c[b + j] /\ a + j \in 1 .. Len(c) /\ b + j \in 1 .. Len(c)
    BY <1>2, <1>4, <1>5
  <2>2. a + j = b + j
    BY <2>1 DEF Distinct
  <2> QED BY <1>1, <2>2
<1> QED BY <1>1, <1>2, <1>4, <1>5, <1>6

\* From a node on there is the rest of its list.
LEMMA ChainFromNode ==
  ASSUME ShapeInv, NEW s \in Live, NEW k \in 1 .. Len(Chain(s))
  PROVE  ChainFrom(Chain(s)[k]) = RestOf(Chain(s), k - 1)
<1> DEFINE c == Chain(s)
           r == RestOf(c, k - 1)
<1>1. /\ c \in Seq(Nodes) /\ Len(c) \in Nat /\ Distinct(c) /\ Good(c, first[s], last[s], count[s], next, prev)
  BY ListFacts
<1>2. k \in 1 .. Len(c) /\ k - 1 \in 0 .. Len(c)
  BY <1>1
<1>3. /\ r \in Seq(Nodes) /\ Len(r) = Len(c) - (k - 1) /\ Distinct(r)
      /\ \A i \in 1 .. (Len(c) - (k - 1)) : i + (k - 1) \in 1 .. Len(c) /\ r[i] = c[i + (k - 1)]
  BY <1>1, <1>2, RestOfIs
<1>4. \A i \in 1 .. Len(c) : next[c[i]] = IF i = Len(c) THEN Null ELSE c[i + 1]
  BY <1>1 DEF Good
<1> HIDE DEF c, r
<1>5. \A i \in 1 .. Len(r) : next[r[i]] = IF i = Len(r) THEN Null ELSE r[i + 1]
  <2> TAKE i \in 1 .. Len(r)
  <2>1. i + (k - 1) \in 1 .. Len(c) /\ r[i] = c[i + (k - 1)] /\ (i = Len(r) <=> i + (k - 1) = Len(c))
    BY <1>1, <1>3
  <2>2. i # Len(r) => r[i + 1] = c[(i + (k - 1)) + 1]
    <3>1. i \in Nat /\ k \in Nat /\ (i + 1) + (k - 1) = (i + (k - 1)) + 1
      BY <1>1, <1>2, <1>3
    <3>2. i # Len(r) => i + 1 \in 1 .. (Len(c) - (k - 1))
      <4>1. Len(c) - (k - 1) \in Int /\ Len(r) = Len(c) - (k - 1)
        BY <1>1, <1>2, <1>3
      <4> QED BY <3>1, <4>1
    <3>3. i # Len(r) => r[i + 1] = c[(i + 1) + (k - 1)]
      BY <1>3, <3>2
    <3> QED BY <3>1, <3>3
  <2>3. next[c[i + (k - 1)]] = IF i + (k - 1) = Len(c) THEN Null ELSE c[(i + (k - 1)) + 1]
    BY <1>4, <2>1
  <2> QED BY <2>1, <2>2, <2>3
<1>6. c[k] = IF Len(r) = 0 THEN Null ELSE r[1]
  <2>1. Len(r) # 0 /\ 1 \in 1 .. (Len(c) - (k - 1)) /\ 1 + (k - 1) = k
    BY <1>1, <1>3 DEF c
  <2> QED BY <1>3, <2>1
<1>7. Leads(next, c[k], r)
  BY <1>3, <1>5, <1>6 DEF Leads
<1> QED BY <1>3, <1>7, ChainIs DEF ChainFrom, c, r

\* listExtract begins, at any node of a list.
LEMMA BeginExtractKeeps ==
  ASSUME Rest, NEW l \in Lists, NEW n \in heap, NEW max \in Nat, BeginExtract(l, n, max)
  PROVE  IInv'
<1>1. /\ l \in Live /\ first[l] = Null
      /\ spent' = spent /\ UNCHANGED <<heap, links, contents, data>>
      /\ Begin("extract", l, n, LastNode, max, FALSE)
  BY DEF BeginExtract, Usable, Live
<1>2. PICK s \in Live : n \in Members(s)
  BY DEF Rest, AllListed
<1>3. PICK k \in 1 .. Len(Chain(s)) : Chain(s)[k] = n
  BY <1>2, MemberFacts DEF Rest
<1>4. ChainFrom(n) = RestOf(Chain(s), k - 1)
  BY <1>3, ChainFromNode DEF Rest
<1>5. Chain(s) \in Seq(Nodes) /\ Len(Chain(s)) \in Nat /\ Distinct(Chain(s)) /\ n \in Nodes
  BY <1>2, ListFacts, MemberFacts DEF Rest
<1>6. k - 1 \in 0 .. Len(Chain(s))
  BY <1>5
<1>7. /\ ChainFrom(n) \in Seq(Nodes) /\ Len(ChainFrom(n)) = Len(Chain(s)) - (k - 1)
      /\ \A i \in 1 .. (Len(Chain(s)) - (k - 1)) : ChainFrom(n)[i] = Chain(s)[i + (k - 1)]
  BY <1>4, <1>5, <1>6, RestOfIs
<1>8. Chain(l) = <<>> /\ l # s
  <2>1. /\ Chain(l) \in Seq(Nodes) /\ Len(Chain(l)) \in Nat
        /\ first[l] = IF Len(Chain(l)) = 0 THEN Null ELSE Chain(l)[1]
        /\ \A i \in 1 .. Len(Chain(l)) : Chain(l)[i] # Null
    BY <1>1, ListFacts DEF Rest, Good
  <2>2. Len(Chain(l)) = 0
    <3>1. Len(Chain(l)) # 0 => 1 \in 1 .. Len(Chain(l))
      BY <2>1
    <3> QED BY <1>1, <2>1, <3>1
  <2> QED BY <1>3, <2>1, <2>2
<1> SUFFICES ASSUME NEW lp, loop' = lp PROVE IInv'
  OBVIOUS
<1>9. /\ lp \in Loops /\ lp.kind = "extract" /\ lp.list = l /\ lp.at = n /\ lp.node = Null
      /\ lp.count = 0 /\ lp.source = ChainFrom(n) /\ lp.added = <<>>
  <2>1. Over(lp, "extract", l, n, LastNode, max)
    BY <1>1, <1>5, <1>7, BegunOver
  <2> QED BY <2>1 DEF Over
<1>10. /\ TypeOK' /\ ShapeInv' /\ HeapInv' /\ DataInv' /\ Live' = Live
       /\ \A m \in Lists : Chain(m)' = Chain(m) /\ Members(m)' = Members(m)
       /\ Live \subseteq Lists
  <2>1. Live \subseteq Lists
    BY DEF Live
  <2> QED BY <1>1, <2>1, BeginStays
<1>11. AtSource(lp)
  <2>1. 0 < Len(ChainFrom(n)) /\ 0 + 1 \in 1 .. (Len(Chain(s)) - (k - 1)) /\ (0 + 1) + (k - 1) = k
    BY <1>5, <1>7
  <2>2. n = ChainFrom(n)[0 + 1]
    BY <1>3, <1>7, <2>1
  <2> QED BY <1>9, <2>1, <2>2 DEF AtSource
<1>12. ExtractLoop(lp)'
  <2>1. \E t \in Live' \ {lp.list} : \E j \in 0 .. Len(Chain(t)') :
          /\ Len(Chain(t)') = Len(lp.source) + j
          /\ \A i \in 1 .. Len(lp.source) : lp.source[i] = Chain(t)'[i + j]
    <3>1. s \in Live' \ {lp.list} /\ Chain(s)' = Chain(s)
      BY <1>8, <1>9, <1>10
    <3>2. Len(Chain(s)) = Len(lp.source) + (k - 1) /\ \A i \in 1 .. Len(lp.source) : lp.source[i] = Chain(s)[i + (k - 1)]
      BY <1>5, <1>7, <1>9
    <3> QED BY <1>6, <3>1, <3>2
  <2>2. Chain(lp.list)' = <<>> /\ Len(<<>>) = 0
    BY <1>1, <1>8, <1>9, <1>10
  <2>3. AtSource(lp)'
    BY <1>11 DEF AtSource
  <2> QED BY <1>9, <2>1, <2>2, <2>3 DEF ExtractLoop
<1>13. LoopIs(lp)'
  BY <1>1, <1>9, <1>10, <1>12 DEF LoopIs
<1> QED BY <1>10, <1>13, LoopAfter DEF IInv

\* What is known in a turn of a loop.
LEMMA InLoop ==
  ASSUME IInv, loop.kind \in {"add", "extract", "merge", "remove"}
  PROVE  /\ LoopIs(loop) /\ loop \in Loops /\ loop.list \in Live /\ loop.list \in Lists
         /\ loop.kind # "merge" => AllListed
<1>1. LoopIs(loop)
  BY DEF IInv, LoopInv, NoLoop
<1>2. loop.kind # "merge" => AllListed
  BY DEF IInv, HeapInv, AllListed
<1> QED BY <1>1, <1>2 DEF LoopIs, Live

\* The node that a source is at, and where it goes on.
LEMMA SourceIs ==
  ASSUME ShapeInv, NEW s \in Live, NEW lp, lp.source \in Seq(Nodes), lp.count \in Nat, lp.at # Null, AtSource(lp),
         NEW j \in 0 .. Len(Chain(s)), Len(Chain(s)) = Len(lp.source) + j,
         \A i \in 1 .. Len(lp.source) : lp.source[i] = Chain(s)[i + j]
  PROVE  /\ lp.count + 1 \in 1 .. Len(lp.source) /\ lp.at = lp.source[lp.count + 1]
         /\ Len(lp.source) \in Nat
         /\ \A i \in 1 .. Len(lp.source) : lp.source[i] \in heap /\ lp.source[i] \in Members(s)
         /\ next[lp.at] = IF lp.count + 1 < Len(lp.source) THEN lp.source[(lp.count + 1) + 1] ELSE Null
<1> DEFINE c == Chain(s)
           q == lp.source
           k == lp.count
<1>1. /\ c \in Seq(Nodes) /\ Len(c) \in Nat
      /\ \A i \in 1 .. Len(c) : c[i] \in heap /\ c[i] \in Members(s)
      /\ \A i \in 1 .. Len(c) : next[c[i]] = IF i = Len(c) THEN Null ELSE c[i + 1]
  BY ListFacts DEF Good
<1>2. k <= Len(q) /\ lp.at = IF k < Len(q) THEN q[k + 1] ELSE Null
  BY DEF AtSource
<1>3. k \in Nat /\ Len(q) \in Nat /\ j \in Nat /\ Len(c) = Len(q) + j
  BY <1>1
<1>4. k < Len(q) /\ lp.at = q[k + 1]
  BY <1>2
<1>5. \A i \in 1 .. Len(q) : q[i] = c[i + j]
  OBVIOUS
<1> HIDE DEF c, q, k
<1>6. \A i \in 1 .. Len(q) : i + j \in 1 .. Len(c)
  BY <1>3
<1>7. k + 1 \in 1 .. Len(q) /\ (k + 1) + j \in 1 .. Len(c) /\ ((k + 1) + j = Len(c) <=> ~(k + 1 < Len(q)))
  BY <1>3, <1>4
<1>8. k + 1 < Len(q) => q[(k + 1) + 1] = c[((k + 1) + j) + 1]
  <2>1. k + 1 < Len(q) => (k + 1) + 1 \in 1 .. Len(q) /\ ((k + 1) + 1) + j = ((k + 1) + j) + 1
    BY <1>3
  <2> QED BY <1>5, <2>1
<1>9. next[lp.at] = IF (k + 1) + j = Len(c) THEN Null ELSE c[((k + 1) + j) + 1]
  BY <1>1, <1>4, <1>5, <1>7
<1>10. \A i \in 1 .. Len(q) : q[i] \in heap /\ q[i] \in Members(s)
  BY <1>1, <1>5, <1>6
<1> QED BY <1>3, <1>4, <1>7, <1>8, <1>9, <1>10 DEF q, k

\* The turn after is the next in the source.
LEMMA SourceGoesOn ==
  ASSUME NEW lp, NEW lq, lp.count \in Nat, lp.count + 1 \in 1 .. Len(lp.source), Len(lp.source) \in Nat,
         NEW nx, nx = IF lp.count + 1 < Len(lp.source) THEN lp.source[(lp.count + 1) + 1] ELSE Null,
         lq.at = nx, lq.count = lp.count + 1, lq.source = lp.source
  PROVE  AtSource(lq)
<1>1. lp.count + 1 <= Len(lp.source)
  OBVIOUS
<1> QED BY <1>1 DEF AtSource

\* A loop that stops keeps everything else.
LEMMA StoppedIs ==
  ASSUME NEW lq \in Loops, NEW lp, lp = [lq EXCEPT !.stopped = TRUE]
  PROVE  /\ lp \in Loops
         /\ lp.kind = lq.kind /\ lp.list = lq.list /\ lp.at = lq.at /\ lp.node = lq.node /\ lp.after = lq.after
         /\ lp.max = lq.max /\ lp.free = lq.free /\ lp.count = lq.count /\ lp.stopped = TRUE /\ lp.source = lq.source
<1>1. lp \in Loops
  BY DEF Loops
<1>2. /\ lp.kind = lq.kind /\ lp.list = lq.list /\ lp.at = lq.at /\ lp.node = lq.node /\ lp.after = lq.after
      /\ lp.max = lq.max /\ lp.count = lq.count /\ lp.source = lq.source
  BY DEF Loops
<1>3. lp.free = lq.free /\ lp.stopped = TRUE
  BY DEF Loops
<1> QED BY <1>1, <1>2, <1>3

\* A turn that goes on to the node a, having added the node n.
Turned(lp, lq, a, n) ==
  /\ lp \in Loops
  /\ lp.kind = lq.kind /\ lp.list = lq.list /\ lp.at = a /\ lp.node = n /\ lp.after = lq.after
  /\ lp.max = lq.max /\ lp.count = lq.count + 1 /\ lp.source = lq.source
  /\ lp.free = lq.free /\ lp.stopped = lq.stopped /\ lp.added = lq.added

\* The other variables of a loop stay.
LEMMA TurnIs ==
  ASSUME NEW lq \in Loops, NEW a \in Nodes \cup {Null}, NEW n \in Nodes \cup {Null}, NEW lp,
         lp = [lq EXCEPT !.node = n, !.at = a, !.count = @ + 1]
  PROVE  Turned(lp, lq, a, n)
<1>1. lp \in Loops
  <2>1. lq.count + 1 \in Nat
    BY DEF Loops
  <2> DEFINE k == lq.count + 1
  <2>2. lp = [lq EXCEPT !.node = n, !.at = a, !.count = k]
    OBVIOUS
  <2> HIDE DEF k
  <2>3. k \in Nat
    BY <2>1 DEF k
  <2> QED BY <2>2, <2>3 DEF Loops
<1>2. /\ lp.kind = lq.kind /\ lp.list = lq.list /\ lp.at = a /\ lp.node = n /\ lp.after = lq.after
      /\ lp.max = lq.max /\ lp.count = lq.count + 1 /\ lp.source = lq.source
  BY DEF Loops
<1>3. lp.free = lq.free /\ lp.stopped = lq.stopped /\ lp.added = lq.added
  BY DEF Loops
<1> QED BY <1>1, <1>2, <1>3 DEF Turned

\* A turn of listAddNodeList that finds no memory.
LEMMA AddListFailsKeeps ==
  ASSUME IInv, AddListFails
  PROVE  IInv'
<1>1. /\ loop.kind = "add" /\ UNCHANGED <<heap, links, contents, data>> /\ spent' = spent
      /\ loop' = [loop EXCEPT !.stopped = TRUE]
  BY DEF AddListFails, Looping
<1>2. LoopIs(loop) /\ loop \in Loops /\ loop.list \in Live /\ loop.list \in Lists /\ AllListed
  BY <1>1, InLoop
<1>3. Rest
  BY <1>2 DEF Rest, IInv
<1>4. /\ TypeOK' /\ ShapeInv' /\ HeapInv' /\ DataInv' /\ Live' = Live /\ Live \subseteq Lists
      /\ \A l \in Lists : Chain(l)' = Chain(l) /\ Members(l)' = Members(l)
  BY <1>1, <1>3, BeginStays DEF Live
<1>5. mine' = mine /\ payload' = payload
  BY <1>1 DEF contents
<1> SUFFICES ASSUME NEW lp, loop' = lp PROVE IInv'
  OBVIOUS
<1>6. /\ lp \in Loops /\ lp.kind = "add" /\ lp.list = loop.list /\ lp.at = loop.at /\ lp.node = loop.node
      /\ lp.after = loop.after /\ lp.count = loop.count /\ lp.source = loop.source
  <2>1. lp = [loop EXCEPT !.stopped = TRUE]
    BY <1>1
  <2> QED BY <1>1, <1>2, <2>1, StoppedIs
<1>7. AddLoop(loop)
  BY <1>1, <1>2 DEF LoopIs
<1>8. AddLoop(lp)'
  <2> DEFINE c == Chain(lp.list)
  <2>1. Chain(lp.list)' = Chain(loop.list) /\ Places(lp.list)' = Places(loop.list)
    BY <1>2, <1>4, <1>6 DEF Places
  <2>2. AtSource(lp)'
    BY <1>6, <1>7 DEF AddLoop, AtSource
  <2>3. \E s \in Live' \ {lp.list} : lp.source = Chain(s)'
    BY <1>4, <1>6, <1>7 DEF AddLoop
  <2>4. \A i \in 1 .. Len(lp.source) : ~mine'[lp.source[i]]
    BY <1>5, <1>6, <1>7 DEF AddLoop
  <2> QED BY <1>5, <1>6, <1>7, <2>1, <2>2, <2>3, <2>4 DEF AddLoop
<1>9. LoopIs(lp)'
  BY <1>2, <1>4, <1>6, <1>8 DEF LoopIs
<1> QED BY <1>4, <1>9, LoopAfter DEF IInv

\* The types of the local variables.
LEMMA LoopTypes ==
  ASSUME NEW lp \in Loops
  PROVE  /\ lp.list \in Lists /\ lp.at \in Nodes \cup {Null} /\ lp.node \in Nodes \cup {Null}
         /\ lp.after \in Nodes \cup {Null, LastNode} /\ lp.max \in Nat /\ lp.count \in Nat
         /\ lp.source \in Seq(Nodes) /\ lp.added \in Seq(Nat)
BY DEF Loops

\* A turn of listAddNodeList: the copy stands behind the one before.
LEMMA AddListStepKeeps ==
  ASSUME IInv, NEW lq, loop = lq, AddListStep
  PROVE  IInv'
<1> DEFINE l == lq.list
           c == Chain(l)
           k0 == lq.count
           a == IF lq.node = Null THEN lq.after ELSE lq.node
<1>1. PICK n \in Nodes :
        /\ NewNode(n, lq.list, payload[lq.at], mine[lq.at], locked[lq.at], a)
        /\ loop' = [lq EXCEPT !.node = n, !.at = next[lq.at], !.count = @ + 1]
  BY DEF AddListStep, AfterPrevious
<1>2. lq.kind = "add" /\ lq.at # Null /\ alive' = alive /\ handed' = handed
  BY DEF AddListStep, Looping, data
<1>3. /\ LoopIs(lq) /\ lq \in Loops /\ lq.list \in Live /\ lq.list \in Lists /\ AllListed
      /\ AddLoop(lq) /\ AtSource(lq)
  <2>1. LoopIs(lq) /\ lq \in Loops /\ lq.list \in Live /\ lq.list \in Lists /\ AllListed
    BY <1>2, InLoop
  <2>2. AddLoop(lq)
    BY <1>2, <2>1 DEF LoopIs
  <2> QED BY <2>1, <2>2 DEF AddLoop
<1>4. /\ TypeOK /\ ShapeInv /\ DataInv /\ heap \subseteq Nodes /\ Null \notin Nodes
      /\ next \in [Nodes -> Nodes \cup {Null}]
  BY ListConstants DEF IInv, TypeOK
<1>5. /\ lq.at \in Nodes /\ lq.node \in Nodes \cup {Null} /\ lq.after \in Nodes \cup {Null, LastNode}
      /\ k0 \in Nat /\ lq.source \in Seq(Nodes)
  BY <1>2, <1>3, LoopTypes
<1>6. PICK s \in Live \ {lq.list} : lq.source = Chain(s)
  BY <1>3 DEF AddLoop
<1>7. /\ k0 + 1 \in 1 .. Len(lq.source) /\ lq.at = lq.source[k0 + 1]
      /\ Len(lq.source) \in Nat
      /\ \A i \in 1 .. Len(lq.source) : lq.source[i] \in heap /\ lq.source[i] \in Members(s)
      /\ next[lq.at] = IF k0 + 1 < Len(lq.source) THEN lq.source[(k0 + 1) + 1] ELSE Null
  <2>1. /\ 0 \in 0 .. Len(Chain(s)) /\ Len(Chain(s)) = Len(lq.source) + 0
        /\ \A i \in 1 .. Len(lq.source) : lq.source[i] = Chain(s)[i + 0]
    BY <1>4, <1>6, ListFacts
  <2> QED BY <1>2, <1>3, <1>4, <1>5, <2>1, SourceIs
<1>8. /\ c \in Seq(Nodes) /\ Len(c) \in Nat /\ Distinct(c)
      /\ \A i \in 1 .. Len(c) : c[i] \in Nodes /\ c[i] \in heap /\ c[i] # Null /\ c[i] \in Members(l)
  BY <1>3, <1>4, ListFacts
<1>9. /\ \A i \in 1 .. Len(lq.source) : ~mine[lq.source[i]]
      /\ lq.node = Null <=> k0 = 0
      /\ lq.after \in Places(l)
  BY <1>3 DEF AddLoop
<1>10. lq.node # Null =>
         \E k \in 1 .. Len(c) :
           /\ c[k] = lq.node
           /\ k >= k0
           /\ \A i \in 1 .. k0 : payload[c[k - k0 + i]] = payload[lq.source[i]]
           /\ lq.after = Null => k = k0
           /\ lq.after = LastNode => k = Len(c)
           /\ lq.after \in Nodes => k > k0 /\ c[k - k0] = lq.after
  BY <1>3 DEF AddLoop
<1>11. a \in Places(l)
  BY <1>8, <1>9, <1>10 DEF Places
<1>12. /\ mine[lq.at] = FALSE /\ payload[lq.at] \in Payloads \cup {Null} /\ locked[lq.at] \in BOOLEAN
       /\ mine[lq.at] \in BOOLEAN
  BY <1>4, <1>5, <1>7, <1>9 DEF TypeOK
<1>13. /\ n \in Nodes \ heap /\ heap' = heap \cup {n}
       /\ payload' = [payload EXCEPT ![n] = payload[lq.at]]
       /\ mine' = [mine EXCEPT ![n] = FALSE]
       /\ spent' = spent
  BY <1>1, <1>12 DEF NewNode
<1>14. /\ ShapeInv' /\ AllListed'
       /\ \A m \in Live \ {l} : Chain(m)' = Chain(m)
       /\ Members(l)' = Members(l) \cup {n}
       /\ \E i \in 0 .. Len(c) :
            /\ c' = With(c, i, n)
            /\ Anchor(l, a) = IF i = 0 THEN Null ELSE c[i]
            /\ a = LastNode => i = Len(c)
            /\ a = Null => i = 0
            /\ a \in Nodes => i > 0 /\ c[i] = a
       /\ handed' \subseteq alive' /\ alive' \subseteq Blocks => TypeOK'
  <2>1. NewNodeOutcome(n, l, a)
    BY <1>1, <1>3, <1>4, <1>11, <1>12, NewNodeStep, Zenon
  <2> QED BY <2>1, Zenon DEF NewNodeOutcome
<1>15. TypeOK' /\ DataInv'
  <2>1. DataInv' /\ handed' \subseteq alive' /\ alive' \subseteq Blocks
    BY <1>2, <1>4, <1>12, <1>13, NewNodeData
  <2> QED BY <1>14, <2>1
<1>16. PICK i \in 0 .. Len(c) :
         /\ c' = With(c, i, n)
         /\ a = LastNode => i = Len(c)
         /\ a = Null => i = 0
         /\ a \in Nodes => i > 0 /\ c[i] = a
  BY <1>14
<1> SUFFICES ASSUME NEW lp, loop' = lp PROVE IInv'
  OBVIOUS
<1>17. /\ lp \in Loops /\ lp.kind = "add" /\ lp.list = l /\ lp.at = next[lq.at] /\ lp.node = n
       /\ lp.after = lq.after /\ lp.count = k0 + 1 /\ lp.source = lq.source
  <2>1. lp = [lq EXCEPT !.node = n, !.at = next[lq.at], !.count = @ + 1] /\ next[lq.at] \in Nodes \cup {Null}
        /\ n \in Nodes \cup {Null}
    BY <1>1, <1>4, <1>5
  <2>2. Turned(lp, lq, next[lq.at], n)
    BY <1>3, <2>1, TurnIs
  <2> QED BY <1>2, <2>2 DEF Turned
<1>18. AtSource(lp)
  BY <1>5, <1>7, <1>17, SourceGoesOn
<1>19. /\ \A m \in heap : payload'[m] = payload[m] /\ mine'[m] = mine[m]
       /\ payload'[n] = payload[lq.source[k0 + 1]]
  BY <1>4, <1>7, <1>13 DEF TypeOK
<1>20. /\ Len(c') = Len(c) + 1
       /\ \A j \in 1 .. Len(c) + 1 : /\ j <= i => j \in 1 .. Len(c) /\ c'[j] = c[j]
                                     /\ j = i + 1 => c'[j] = n
  BY <1>8, <1>13, <1>16, WithIs
<1>21. \E k \in 1 .. Len(c') :
         /\ c'[k] = n
         /\ k >= k0 + 1
         /\ \A j \in 1 .. (k0 + 1) : payload'[c'[k - (k0 + 1) + j]] = payload'[lq.source[j]]
         /\ lq.after = Null => k = k0 + 1
         /\ lq.after = LastNode => k = Len(c')
         /\ lq.after \in Nodes => k > k0 + 1 /\ c'[k - (k0 + 1)] = lq.after
  <2>1. payload'[n] = payload'[lq.source[k0 + 1]]
    BY <1>7, <1>19
  <2>2. /\ i + 1 \in 1 .. Len(c') /\ c'[i + 1] = n /\ i \in Nat /\ (i > 0 => i \in 1 .. Len(c) /\ c'[i] = c[i])
    BY <1>8, <1>20
  <2>3. CASE lq.node = Null
    <3>1. k0 = 0 /\ a = lq.after
      BY <1>9, <2>3
    <3>2. \A j \in 1 .. (k0 + 1) : payload'[c'[(i + 1) - (k0 + 1) + j]] = payload'[lq.source[j]]
      <4> TAKE j \in 1 .. (k0 + 1)
      <4>1. j = 1 /\ k0 + 1 = 1 /\ (i + 1) - (k0 + 1) + j = i + 1
        BY <2>2, <3>1
      <4> QED BY <2>1, <2>2, <4>1
    <3>3. (i + 1) - (k0 + 1) = i /\ i + 1 >= k0 + 1
      BY <2>2, <3>1
    <3>4. lq.after = Null => i + 1 = k0 + 1
      BY <1>16, <3>1
    <3>5. lq.after = LastNode => i + 1 = Len(c')
      BY <1>16, <1>20, <3>1
    <3>6. lq.after \in Nodes => i + 1 > k0 + 1 /\ c'[(i + 1) - (k0 + 1)] = lq.after
      BY <1>16, <2>2, <3>1, <3>3
    <3> QED BY <2>2, <3>2, <3>3, <3>4, <3>5, <3>6
  <2>4. CASE lq.node # Null
    <3>1. PICK k \in 1 .. Len(c) :
            /\ c[k] = lq.node
            /\ k >= k0
            /\ \A j \in 1 .. k0 : payload[c[k - k0 + j]] = payload[lq.source[j]]
            /\ lq.after = Null => k = k0
            /\ lq.after = LastNode => k = Len(c)
            /\ lq.after \in Nodes => k > k0 /\ c[k - k0] = lq.after
      BY <1>10, <2>4
    <3>2. a = lq.node /\ lq.node \in Nodes
      BY <1>5, <2>4
    <3>3. i = k
      <4>1. i \in 1 .. Len(c) /\ c[i] = c[k]
        BY <1>16, <2>2, <3>1, <3>2
      <4> QED BY <1>8, <4>1 DEF Distinct
    <3>4. /\ \A j \in 1 .. (k + 1) : j # k + 1 => j \in 1 .. Len(c) /\ c'[j] = c[j]
          /\ k \in Nat /\ k + 1 \in 1 .. Len(c') /\ c'[k + 1] = n
      BY <1>8, <1>20, <2>2, <3>3
    <3>5. \A j \in 1 .. (k0 + 1) : payload'[c'[(k + 1) - (k0 + 1) + j]] = payload'[lq.source[j]]
      <4>0. k0 \in Nat /\ k \in Nat /\ k >= k0
        BY <1>5, <3>1, <3>4
      <4> HIDE DEF k0
      <4> TAKE j \in 1 .. (k0 + 1)
      <4>1. j \in Nat /\ (k + 1) - (k0 + 1) + j = k - k0 + j
        BY <4>0
      <4>2. CASE j = k0 + 1
        <5>1. k - k0 + j = k + 1
          BY <4>0, <4>2
        <5> QED BY <2>1, <3>4, <4>1, <4>2, <5>1
      <4>3. CASE j # k0 + 1
        <5>1. j \in 1 .. k0 /\ k - k0 + j \in 1 .. (k + 1) /\ k - k0 + j # k + 1
          BY <4>0, <4>1, <4>3
        <5>2. c'[k - k0 + j] = c[k - k0 + j] /\ c[k - k0 + j] \in heap
          BY <1>8, <3>4, <5>1
        <5>3. j \in 1 .. Len(lq.source)
          BY <1>5, <1>7, <5>1
        <5>4. payload'[lq.source[j]] = payload[lq.source[j]] /\ payload'[c[k - k0 + j]] = payload[c[k - k0 + j]]
          BY <1>7, <1>19, <5>2, <5>3
        <5> QED BY <3>1, <4>1, <5>1, <5>2, <5>4
      <4> QED BY <4>2, <4>3
    <3>6. k + 1 >= k0 + 1
      BY <1>5, <3>1, <3>4
    <3>7. lq.after = Null => k + 1 = k0 + 1
      BY <3>1
    <3>8. lq.after = LastNode => k + 1 = Len(c')
      BY <1>20, <3>1
    <3>9. lq.after \in Nodes => k + 1 > k0 + 1 /\ c'[(k + 1) - (k0 + 1)] = lq.after
      <4> HAVE lq.after \in Nodes
      <4>1. k > k0 /\ c[k - k0] = lq.after
        BY <3>1
      <4>2. k - k0 \in 1 .. (k + 1) /\ k - k0 # k + 1 /\ (k + 1) - (k0 + 1) = k - k0 /\ k + 1 > k0 + 1
        BY <1>5, <3>4, <4>1
      <4> QED BY <3>4, <4>1, <4>2
    <3> QED BY <3>4, <3>5, <3>6, <3>7, <3>8, <3>9
  <2> QED BY <2>3, <2>4
<1>22. AddLoop(lp)'
  <2>1. Chain(lp.list)' = c' /\ Live' = Live
    BY <1>13, <1>17 DEF Live
  <2>2. \E t \in Live' \ {lp.list} : lp.source = Chain(t)'
    BY <1>6, <1>14, <1>17, <2>1
  <2>3. \A j \in 1 .. Len(lp.source) : ~mine'[lp.source[j]]
    BY <1>7, <1>9, <1>17, <1>19
  <2>4. AtSource(lp)'
    BY <1>18 DEF AtSource
  <2>5. lp.node # Null /\ lp.count # 0
    BY <1>4, <1>5, <1>17
  <2>6. lp.after \in Places(lp.list)'
    BY <1>9, <1>14, <1>17 DEF Places
  <2> HIDE DEF c, k0, l
  <2> QED BY <1>17, <1>21, <2>1, <2>2, <2>3, <2>4, <2>5, <2>6 DEF AddLoop
<1>23. LoopIs(lp)'
  <2>1. lp.list \in Live'
    BY <1>3, <1>13, <1>17 DEF Live
  <2> QED BY <1>17, <1>22, <2>1 DEF LoopIs
<1>24. HeapInv'
  BY <1>14 DEF HeapInv, AllListed
<1> QED BY <1>14, <1>15, <1>23, <1>24, LoopAfter DEF IInv

\* A node behind the last.
LEMMA AppendIs ==
  ASSUME NEW c \in Seq(Nodes), NEW n \in Nodes
  PROVE  /\ Len(With(c, Len(c), n)) = Len(c) + 1
         /\ \A i \in 1 .. Len(c) : With(c, Len(c), n)[i] = c[i]
         /\ With(c, Len(c), n)[Len(c) + 1] = n
<1>1. Len(c) \in Nat
  BY SeqFacts
<1>2. PICK p \in 0 .. Len(c) : p = Len(c)
  BY <1>1
<1>3. /\ Len(With(c, p, n)) = Len(c) + 1
      /\ \A i \in 1 .. Len(c) + 1 : /\ i <= p => With(c, p, n)[i] = c[i]
                                    /\ i = p + 1 => With(c, p, n)[i] = n
  BY WithIs
<1>4. With(c, p, n)[Len(c) + 1] = n
  <2>1. Len(c) + 1 \in 1 .. Len(c) + 1
    BY <1>1
  <2> QED BY <1>2, <1>3, <2>1
<1>5. \A i \in 1 .. Len(c) : With(c, p, n)[i] = c[i]
  BY <1>1, <1>2, <1>3
<1> QED BY <1>2, <1>3, <1>4, <1>5

\* A turn of listExtract that finds memory.
LEMMA ExtractAddsKeeps ==
  ASSUME IInv, NEW lq, loop = lq, lq.kind = "extract", lq.at # Null, NEW n \in Nodes,
         NewNode(n, lq.list, payload[lq.at], FALSE, FALSE, last[lq.list]),
         loop' = [lq EXCEPT !.node = n, !.at = next[lq.at], !.count = @ + 1,
                            !.added = Append(@, lq.count + 1)],
         UNCHANGED data
  PROVE  IInv'
<1> DEFINE l == lq.list
           c == Chain(l)
           k0 == lq.count
           d == lq.added
<1>1. alive' = alive /\ handed' = handed
  BY DEF data
<1>2. /\ LoopIs(lq) /\ lq \in Loops /\ lq.list \in Live /\ lq.list \in Lists /\ AllListed
      /\ ExtractLoop(lq) /\ AtSource(lq)
  <2>1. LoopIs(lq) /\ lq \in Loops /\ lq.list \in Live /\ lq.list \in Lists /\ AllListed
    BY InLoop
  <2>2. ExtractLoop(lq)
    BY <2>1 DEF LoopIs
  <2> QED BY <2>1, <2>2 DEF ExtractLoop
<1>3. /\ TypeOK /\ ShapeInv /\ DataInv /\ heap \subseteq Nodes /\ Null \notin Nodes /\ LastNode \notin Nodes \cup {Null}
      /\ next \in [Nodes -> Nodes \cup {Null}] /\ last \in [Lists -> Nodes \cup {Null}]
  BY ListConstants DEF IInv, TypeOK
<1>4. lq.at \in Nodes /\ k0 \in Nat /\ lq.source \in Seq(Nodes) /\ d \in Seq(Nat)
  BY <1>2, LoopTypes
<1>5. PICK s \in Live \ {lq.list} : \E j \in 0 .. Len(Chain(s)) :
        /\ Len(Chain(s)) = Len(lq.source) + j
        /\ \A i \in 1 .. Len(lq.source) : lq.source[i] = Chain(s)[i + j]
  BY <1>2 DEF ExtractLoop
<1>50. PICK j \in 0 .. Len(Chain(s)) :
        /\ Len(Chain(s)) = Len(lq.source) + j
        /\ \A i \in 1 .. Len(lq.source) : lq.source[i] = Chain(s)[i + j]
  BY <1>5
<1>6. /\ k0 + 1 \in 1 .. Len(lq.source) /\ lq.at = lq.source[k0 + 1]
      /\ Len(lq.source) \in Nat
      /\ \A i \in 1 .. Len(lq.source) : lq.source[i] \in heap /\ lq.source[i] \in Members(s)
      /\ next[lq.at] = IF k0 + 1 < Len(lq.source) THEN lq.source[(k0 + 1) + 1] ELSE Null
  BY <1>2, <1>3, <1>4, <1>50, SourceIs
<1>7. /\ c \in Seq(Nodes) /\ Len(c) \in Nat /\ Distinct(c)
      /\ last[l] = IF Len(c) = 0 THEN Null ELSE c[Len(c)]
      /\ \A i \in 1 .. Len(c) : c[i] \in Nodes /\ c[i] \in heap /\ c[i] # Null /\ c[i] \in Members(l)
  BY <1>2, <1>3, ListFacts DEF Good
<1>8. last[l] \in Places(l) /\ last[l] # LastNode
  <2>1. Len(c) # 0 => Len(c) \in 1 .. Len(c)
    BY <1>7
  <2> QED BY <1>3, <1>7, <2>1 DEF Places
<1>9. /\ payload[lq.at] \in Payloads \cup {Null} /\ FALSE \in BOOLEAN
  BY <1>3, <1>4 DEF TypeOK
<1>10. /\ n \in Nodes \ heap /\ heap' = heap \cup {n}
       /\ payload' = [payload EXCEPT ![n] = payload[lq.at]]
       /\ mine' = [mine EXCEPT ![n] = FALSE]
       /\ spent' = spent
  BY DEF NewNode
<1>11. /\ Len(c) = Len(d)
       /\ \A i \in 1 .. Len(d) : d[i] \in 1 .. k0 /\ payload[c[i]] = payload[lq.source[d[i]]]
  BY <1>2 DEF ExtractLoop
<1>12. /\ ShapeInv' /\ AllListed'
       /\ \A m \in Live \ {l} : Chain(m)' = Chain(m)
       /\ Members(l)' = Members(l) \cup {n}
       /\ \E i \in 0 .. Len(c) :
            /\ c' = With(c, i, n)
            /\ Anchor(l, last[l]) = IF i = 0 THEN Null ELSE c[i]
            /\ last[l] = LastNode => i = Len(c)
            /\ last[l] = Null => i = 0
            /\ last[l] \in Nodes => i > 0 /\ c[i] = last[l]
       /\ handed' \subseteq alive' /\ alive' \subseteq Blocks => TypeOK'
  <2>1. NewNodeOutcome(n, l, last[l])
    BY <1>2, <1>3, <1>8, <1>9, NewNodeStep, Zenon
  <2> QED BY <2>1, Zenon DEF NewNodeOutcome
<1>13. TypeOK' /\ DataInv'
  <2>1. DataInv' /\ handed' \subseteq alive' /\ alive' \subseteq Blocks
    BY <1>1, <1>3, <1>9, <1>10, NewNodeData
  <2> QED BY <1>12, <2>1
<1>14. c' = With(c, Len(c), n)
  <2>1. PICK i \in 0 .. Len(c) : /\ c' = With(c, i, n)
                                 /\ last[l] = Null => i = 0
                                 /\ last[l] \in Nodes => i > 0 /\ c[i] = last[l]
    BY <1>12
  <2>2. CASE Len(c) = 0
    BY <1>7, <2>1, <2>2
  <2>3. CASE Len(c) # 0
    <3>1. Len(c) \in 1 .. Len(c) /\ last[l] = c[Len(c)] /\ last[l] \in Nodes
      BY <1>7, <2>3
    <3>2. i \in 1 .. Len(c) /\ c[i] = c[Len(c)]
      BY <1>7, <2>1, <3>1
    <3>3. i = Len(c)
      BY <1>7, <3>1, <3>2 DEF Distinct
    <3> QED BY <2>1, <3>3
  <2> QED BY <2>2, <2>3
<1> SUFFICES ASSUME NEW lp, loop' = lp PROVE IInv'
  OBVIOUS
<1>15. /\ lp \in Loops /\ lp.kind = "extract" /\ lp.list = l /\ lp.at = next[lq.at]
        /\ lp.count = k0 + 1 /\ lp.source = lq.source /\ lp.added = Append(d, k0 + 1)
  <2> DEFINE e == Append(d, k0 + 1)
             k1 == k0 + 1
             a == next[lq.at]
  <2>1. lp = [lq EXCEPT !.node = n, !.at = a, !.count = k1, !.added = e]
    OBVIOUS
  <2>2. a \in Nodes \cup {Null} /\ n \in Nodes \cup {Null} /\ k1 \in Nat /\ e \in Seq(Nat) /\ lq \in Loops
    BY <1>2, <1>3, <1>4
  <2> HIDE DEF e, k1, a, d
  <2>3. lp \in Loops
    BY <2>1, <2>2 DEF Loops
  <2>4. /\ lp.kind = lq.kind /\ lp.list = lq.list /\ lp.at = a
        /\ lp.count = k1 /\ lp.source = lq.source /\ lp.added = e
    BY <2>1, <2>2 DEF Loops
  <2> QED BY <2>3, <2>4 DEF e, k1, a
<1>16. AtSource(lp)
  BY <1>4, <1>6, <1>15, SourceGoesOn
<1>17. /\ \A m \in heap : payload'[m] = payload[m]
       /\ payload'[n] = payload[lq.source[k0 + 1]]
  BY <1>3, <1>6, <1>10 DEF TypeOK
<1>18. /\ Len(c') = Len(lp.added)
       /\ \A i \in 1 .. Len(lp.added) :
            lp.added[i] \in 1 .. (k0 + 1) /\ payload'[c'[i]] = payload'[lq.source[lp.added[i]]]
  <2>1. /\ Len(c') = Len(c) + 1
        /\ \A i \in 1 .. Len(c) : c'[i] = c[i]
        /\ c'[Len(c) + 1] = n
    BY <1>7, <1>14, AppendIs
  <2>2. /\ Len(lp.added) = Len(d) + 1 /\ Len(d) \in Nat
        /\ \A i \in 1 .. Len(d) : lp.added[i] = d[i]
        /\ lp.added[Len(d) + 1] = k0 + 1
    BY <1>4, <1>15
  <2>3. ASSUME NEW i \in 1 .. Len(lp.added)
        PROVE  lp.added[i] \in 1 .. (k0 + 1) /\ payload'[c'[i]] = payload'[lq.source[lp.added[i]]]
    <3>1. CASE i = Len(d) + 1
      <4>1. lp.added[i] = k0 + 1 /\ c'[i] = n
        BY <1>11, <2>1, <2>2, <3>1
      <4>2. payload'[lq.source[k0 + 1]] = payload[lq.source[k0 + 1]]
        BY <1>6, <1>17
      <4> QED BY <1>4, <1>17, <4>1, <4>2
    <3>2. CASE i # Len(d) + 1
      <4>1. i \in 1 .. Len(d) /\ i \in 1 .. Len(c)
        BY <1>11, <2>2, <3>2
      <4>2. lp.added[i] = d[i] /\ c'[i] = c[i] /\ c[i] \in heap
        BY <1>7, <2>1, <2>2, <4>1
      <4>3. d[i] \in 1 .. k0 /\ payload[c[i]] = payload[lq.source[d[i]]]
        BY <1>11, <4>1
      <4>4. d[i] \in 1 .. (k0 + 1) /\ d[i] \in 1 .. Len(lq.source)
        BY <1>4, <1>6, <4>3
      <4>5. payload'[lq.source[d[i]]] = payload[lq.source[d[i]]]
        BY <1>6, <1>17, <4>4
      <4> QED BY <1>17, <4>2, <4>3, <4>4, <4>5
    <3> QED BY <3>1, <3>2
  <2> QED BY <1>11, <2>1, <2>2, <2>3
<1>19. ExtractLoop(lp)'
  <2>1. Live' = Live /\ Chain(lp.list)' = c'
    BY <1>10, <1>15 DEF Live
  <2>2. \E t \in Live' \ {lp.list} : \E i \in 0 .. Len(Chain(t)') :
          /\ Len(Chain(t)') = Len(lp.source) + i
          /\ \A x \in 1 .. Len(lp.source) : lp.source[x] = Chain(t)'[x + i]
    <3>1. s \in Live' \ {lp.list} /\ Chain(s)' = Chain(s)
      BY <1>5, <1>12, <1>15, <2>1
    <3>2. lp.source = lq.source
      BY <1>15
    <3> QED BY <1>5, <3>1, <3>2
  <2>3. AtSource(lp)'
    BY <1>16 DEF AtSource
  <2>4. /\ Len(Chain(lp.list)') = Len(lp.added)
        /\ \A i \in 1 .. Len(lp.added) :
             lp.added[i] \in 1 .. lp.count /\ payload'[Chain(lp.list)'[i]] = payload'[lp.source[lp.added[i]]]
    BY <1>15, <1>18, <2>1
  <2> HIDE DEF c, k0, l, d
  <2> QED BY <2>2, <2>3, <2>4 DEF ExtractLoop
<1>20. LoopIs(lp)'
  <2>1. lp.list \in Live'
    BY <1>2, <1>10, <1>15 DEF Live
  <2> QED BY <1>15, <1>19, <2>1 DEF LoopIs
<1>21. HeapInv'
  BY <1>12 DEF HeapInv, AllListed
<1> QED BY <1>12, <1>13, <1>20, <1>21, LoopAfter DEF IInv

\* A turn of listExtract whose addition fails.
LEMMA ExtractSkipsKeeps ==
  ASSUME IInv, NEW lq, loop = lq, lq.kind = "extract", lq.at # Null,
         loop' = [lq EXCEPT !.at = next[@], !.count = @ + 1],
         UNCHANGED <<heap, links, contents, data>>, spent' = spent
  PROVE  IInv'
<1> DEFINE l == lq.list
           c == Chain(l)
           k0 == lq.count
<1>1. /\ LoopIs(lq) /\ lq \in Loops /\ lq.list \in Live /\ lq.list \in Lists /\ AllListed
      /\ ExtractLoop(lq) /\ AtSource(lq)
  <2>1. LoopIs(lq) /\ lq \in Loops /\ lq.list \in Live /\ lq.list \in Lists /\ AllListed
    BY InLoop
  <2>2. ExtractLoop(lq)
    BY <2>1 DEF LoopIs
  <2> QED BY <2>1, <2>2 DEF ExtractLoop
<1>2. Rest /\ ShapeInv /\ next \in [Nodes -> Nodes \cup {Null}]
  BY <1>1 DEF Rest, IInv, TypeOK
<1>3. lq.at \in Nodes /\ k0 \in Nat /\ lq.source \in Seq(Nodes) /\ lq.node \in Nodes \cup {Null}
  BY <1>1, LoopTypes
<1>4. PICK s \in Live \ {lq.list} : \E j \in 0 .. Len(Chain(s)) :
        /\ Len(Chain(s)) = Len(lq.source) + j
        /\ \A i \in 1 .. Len(lq.source) : lq.source[i] = Chain(s)[i + j]
  BY <1>1 DEF ExtractLoop
<1>50. PICK j \in 0 .. Len(Chain(s)) :
        /\ Len(Chain(s)) = Len(lq.source) + j
        /\ \A i \in 1 .. Len(lq.source) : lq.source[i] = Chain(s)[i + j]
  BY <1>4
<1>5. /\ k0 + 1 \in 1 .. Len(lq.source) /\ lq.at = lq.source[k0 + 1]
      /\ Len(lq.source) \in Nat
      /\ next[lq.at] = IF k0 + 1 < Len(lq.source) THEN lq.source[(k0 + 1) + 1] ELSE Null
  BY <1>1, <1>2, <1>3, <1>50, SourceIs
<1>6. /\ TypeOK' /\ ShapeInv' /\ HeapInv' /\ DataInv' /\ Live' = Live /\ Live \subseteq Lists
      /\ \A m \in Lists : Chain(m)' = Chain(m) /\ Members(m)' = Members(m)
  BY <1>2, BeginStays DEF Live
<1>7. payload' = payload /\ heap' = heap
  BY DEF contents
<1> SUFFICES ASSUME NEW lp, loop' = lp PROVE IInv'
  OBVIOUS
<1>8. /\ lp \in Loops /\ lp.kind = "extract" /\ lp.list = l /\ lp.at = next[lq.at]
      /\ lp.count = k0 + 1 /\ lp.source = lq.source /\ lp.added = lq.added
  <2>1. lp = [lq EXCEPT !.node = lq.node, !.at = next[lq.at], !.count = @ + 1]
    BY <1>1 DEF Loops
  <2>2. next[lq.at] \in Nodes \cup {Null}
    BY <1>2, <1>3
  <2>3. Turned(lp, lq, next[lq.at], lq.node)
    BY <1>1, <1>3, <2>1, <2>2, TurnIs
  <2> QED BY <2>3 DEF Turned
<1>9. AtSource(lp)
  BY <1>3, <1>5, <1>8, SourceGoesOn
<1>10. /\ Len(c) = Len(lp.added)
       /\ \A i \in 1 .. Len(lp.added) :
            lp.added[i] \in 1 .. (k0 + 1) /\ payload[c[i]] = payload[lq.source[lp.added[i]]]
  <2>1. /\ Len(c) = Len(lq.added)
        /\ \A i \in 1 .. Len(lq.added) :
             lq.added[i] \in 1 .. k0 /\ payload[c[i]] = payload[lq.source[lq.added[i]]]
    BY <1>1 DEF ExtractLoop
  <2>2. \A i \in 1 .. k0 : i \in 1 .. (k0 + 1)
    BY <1>3
  <2> QED BY <1>8, <2>1, <2>2
<1>11. ExtractLoop(lp)'
  <2>1. Chain(lp.list)' = c
    BY <1>1, <1>6, <1>8
  <2>2. \E t \in Live' \ {lp.list} : \E i \in 0 .. Len(Chain(t)') :
          /\ Len(Chain(t)') = Len(lp.source) + i
          /\ \A x \in 1 .. Len(lp.source) : lp.source[x] = Chain(t)'[x + i]
    <3>1. s \in Live' \ {lp.list} /\ Chain(s)' = Chain(s)
      BY <1>4, <1>6, <1>8
    <3> QED BY <1>4, <1>8, <3>1
  <2>3. AtSource(lp)'
    BY <1>9 DEF AtSource
  <2>4. /\ Len(Chain(lp.list)') = Len(lp.added)
        /\ \A i \in 1 .. Len(lp.added) :
             lp.added[i] \in 1 .. lp.count /\ payload'[Chain(lp.list)'[i]] = payload'[lp.source[lp.added[i]]]
    BY <1>7, <1>8, <1>10, <2>1
  <2> HIDE DEF c, k0, l
  <2> QED BY <2>2, <2>3, <2>4 DEF ExtractLoop
<1>12. LoopIs(lp)'
  BY <1>1, <1>6, <1>8, <1>11 DEF LoopIs
<1> QED BY <1>6, <1>12, LoopAfter DEF IInv

\* A turn of listExtract.
LEMMA ExtractStepKeeps ==
  ASSUME IInv, ExtractStep
  PROVE  IInv'
<1>1. loop.kind = "extract" /\ loop.at # Null /\ UNCHANGED data
  BY DEF ExtractStep, Looping
<1>2. CASE \E n \in Nodes :
             /\ NewNode(n, loop.list, payload[loop.at], FALSE, FALSE, last[loop.list])
             /\ loop' = [loop EXCEPT !.node = n, !.at = next[loop.at], !.count = @ + 1,
                                     !.added = Append(@, loop.count + 1)]
  BY <1>1, <1>2, ExtractAddsKeeps
<1>3. CASE /\ loop' = [loop EXCEPT !.at = next[@], !.count = @ + 1]
           /\ UNCHANGED <<heap, links, contents, spent>>
  BY <1>1, <1>3, ExtractSkipsKeeps
<1> QED BY <1>2, <1>3 DEF ExtractStep

\* A node of nobody's goes to the end of a list.
LEMMA LinkAtEnd ==
  ASSUME TypeOK, ShapeInv, NEW l \in Live, NEW n \in Nodes, n \in heap, next[n] = Null,
         \A m \in Live : n \notin Members(m), NEW after \in Places(l),
         Anchor(l, after) = last[l],
         LinkNode(n, l, after, next), heap' = heap, spent' = spent
  PROVE  /\ ShapeInv'
         /\ \A m \in Live \ {l} : Chain(m)' = Chain(m)
         /\ Members(l)' = Members(l) \cup {n}
         /\ next'[n] = Null
         /\ \E p \in 0 .. Len(Chain(l)) : Chain(l)' = With(Chain(l), p, n)
<1>1. /\ Chain(l) \in Seq(Nodes) /\ Len(Chain(l)) \in Nat /\ Distinct(Chain(l))
      /\ last[l] = IF Len(Chain(l)) = 0 THEN Null ELSE Chain(l)[Len(Chain(l))]
      /\ \A i \in 1 .. Len(Chain(l)) : Chain(l)[i] # Null
  BY ListFacts DEF Good
<1>2. PICK nx \in [Nodes -> Nodes \cup {Null}] : nx = next
  BY DEF TypeOK
<1>3. nx[n] = Null /\ (\A m \in Nodes \ {n} : nx[m] = next[m]) /\ LinkNode(n, l, after, nx) /\ heap' = heap \cup {n}
  BY <1>2
<1>4. /\ ShapeInv'
      /\ \A m \in Live \ {l} : Chain(m)' = Chain(m)
      /\ \E p \in 0 .. Len(Chain(l)) :
           /\ Chain(l)' = With(Chain(l), p, n)
           /\ Anchor(l, after) = IF p = 0 THEN Null ELSE Chain(l)[p]
  BY <1>3, LinkShape
<1>5. PICK p \in 0 .. Len(Chain(l)) : /\ Chain(l)' = With(Chain(l), p, n)
                                      /\ last[l] = IF p = 0 THEN Null ELSE Chain(l)[p]
  BY <1>4
<1>6. p = Len(Chain(l))
  <2>1. Len(Chain(l)) # 0 => Len(Chain(l)) \in 1 .. Len(Chain(l))
    BY <1>1
  <2>2. CASE p = 0
    BY <1>1, <1>5, <2>1, <2>2
  <2>3. CASE p # 0
    <3>1. p \in 1 .. Len(Chain(l)) /\ Len(Chain(l)) # 0
      BY <1>1, <2>3
    <3>2. Chain(l)[p] = Chain(l)[Len(Chain(l))]
      BY <1>1, <1>5, <2>3, <3>1
    <3> QED BY <1>1, <2>1, <3>1, <3>2 DEF Distinct
  <2> QED BY <2>2, <2>3
<1>7. Members(l)' = Members(l) \cup {n}
  <2>1. ToSet(With(Chain(l), p, n)) = ToSet(Chain(l)) \cup {n}
    BY <1>1, WithMembers
  <2> QED BY <1>5, <2>1 DEF Members
<1>8. next'[n] = Null
  <2> DEFINE c == Chain(l)
             d == Chain(l)'
  <2>1. Good(d, first'[l], last'[l], count'[l], next', prev')
    <3>1. Live' = Live
      BY DEF Live
    <3> QED BY <1>4, <3>1 DEF ShapeInv, ListInv
  <2>2. c \in Seq(Nodes) /\ Len(c) \in Nat /\ d = With(c, Len(c), n)
    BY <1>1, <1>5, <1>6
  <2> HIDE DEF c, d
  <2>3. Len(d) = Len(c) + 1 /\ d[Len(c) + 1] = n
    BY <2>2, AppendIs
  <2>4. Len(d) \in 1 .. Len(d) /\ d[Len(d)] = n
    BY <2>2, <2>3
  <2>5. next'[d[Len(d)]] = Null
    BY <2>1, <2>4 DEF Good
  <2> QED BY <2>4, <2>5
<1> QED BY <1>4, <1>5, <1>7, <1>8

\* The node that a merge is at goes to the end of the list, and the merge with it.
LEMMA MergeStepKeeps ==
  ASSUME IInv, NEW lq, loop = lq, MergeStep
  PROVE  IInv'
<1> DEFINE l == lq.list
           n == lq.at
<1>1. /\ lq.kind = "merge" /\ lq.at # Null
      /\ LinkNode(lq.at, lq.list, IF lq.node = Null THEN lq.after ELSE lq.node, next)
      /\ loop' = [lq EXCEPT !.node = lq.at, !.at = next'[lq.at], !.count = @ + 1]
      /\ UNCHANGED <<heap, contents, data, spent>>
  BY DEF MergeStep, Looping, AfterPrevious
<1>2. /\ LoopIs(lq) /\ lq \in Loops /\ lq.list \in Live /\ lq.list \in Lists /\ MergeLoop(lq)
  <2>1. LoopIs(lq) /\ lq \in Loops /\ lq.list \in Live /\ lq.list \in Lists
    BY <1>1, InLoop
  <2> QED BY <1>1, <2>1 DEF LoopIs
<1>3. /\ TypeOK /\ ShapeInv /\ DataInv /\ Null \notin Nodes /\ LastNode \notin Nodes \cup {Null}
      /\ next \in [Nodes -> Nodes \cup {Null}]
  BY ListConstants DEF IInv, TypeOK
<1>4. n \in Nodes /\ lq.after \in Nodes \cup {Null, LastNode}
  BY <1>1, <1>2, LoopTypes
<1>5. /\ ~lq.stopped /\ lq.node = Null /\ n \in heap /\ next[n] = Null
      /\ Anchor(l, lq.after) = last[l]
      /\ lq.after = Null => Chain(l) = <<>>
      /\ \A m \in Live : n \notin Members(m)
  BY <1>1, <1>2 DEF MergeLoop
<1>6. /\ Chain(l) \in Seq(Nodes) /\ Len(Chain(l)) \in Nat /\ Distinct(Chain(l))
      /\ last[l] = IF Len(Chain(l)) = 0 THEN Null ELSE Chain(l)[Len(Chain(l))]
      /\ \A i \in 1 .. Len(Chain(l)) : Chain(l)[i] \in Nodes /\ Chain(l)[i] \in Members(l)
  BY <1>2, <1>3, ListFacts DEF Good
<1>7. (IF lq.node = Null THEN lq.after ELSE lq.node) = lq.after /\ lq.after \in Places(l)
  <2>1. lq.after \in Nodes => last[l] = lq.after
    BY <1>3, <1>5 DEF Anchor
  <2>2. Len(Chain(l)) # 0 => Len(Chain(l)) \in 1 .. Len(Chain(l))
    BY <1>6
  <2>3. lq.after \in Nodes => lq.after \in Members(l)
    BY <1>3, <1>6, <2>1, <2>2
  <2> QED BY <1>4, <1>5, <2>3 DEF Places
<1>8. /\ ShapeInv'
      /\ \A m \in Live \ {l} : Chain(m)' = Chain(m)
      /\ Members(l)' = Members(l) \cup {n}
      /\ next'[n] = Null
  <2>1. heap' = heap /\ spent' = spent /\ LinkNode(n, l, lq.after, next)
    BY <1>1, <1>7
  <2> QED BY <1>2, <1>3, <1>4, <1>5, <1>7, <2>1, LinkAtEnd
<1>13. AllListed'
  <2>1. \A m \in Live \ {l} : Members(m)' = Members(m)
    BY <1>8 DEF Members
  <2>2. Live' = Live /\ heap' = heap
    BY <1>1 DEF Live
  <2>3. ASSUME NEW x \in heap PROVE \E m \in Live : x \in Members(m)'
    <3>1. x = n \/ \E m \in Live : x \in Members(m)
      BY DEF IInv, HeapInv
    <3>2. CASE x = n
      BY <1>2, <1>8, <3>2
    <3>3. CASE \E m \in Live : x \in Members(m)
      <4>1. PICK m \in Live : x \in Members(m)
        BY <3>3
      <4>2. x \in Members(m)'
        <5>1. CASE m = l
          BY <1>8, <4>1, <5>1
        <5>2. CASE m # l
          BY <2>1, <4>1, <5>2
        <5> QED BY <5>1, <5>2
      <4> QED BY <4>2
    <3> QED BY <3>1, <3>2, <3>3
  <2> QED BY <2>2, <2>3 DEF AllListed
<1>14. TypeOK' /\ DataInv'
  <2>1. /\ next' \in [Nodes -> Nodes \cup {Null}]
        /\ prev' \in [Nodes -> Nodes \cup {Null}]
        /\ owner' \in [Nodes -> Lists \cup {Null}]
        /\ first' \in [Lists -> Nodes \cup {Null}]
        /\ last' \in [Lists -> Nodes \cup {Null}]
        /\ count' \in [Lists -> Nat]
    BY <1>1, <1>2, <1>3, <1>4, <1>7, LinkTypes
  <2>2. TypeOK'
    BY <1>1, <1>3, <2>1 DEF TypeOK, contents, data
  <2>3. DataInv'
    BY <1>1, <1>3 DEF DataInv, contents, data
  <2> QED BY <2>2, <2>3
<1> SUFFICES ASSUME NEW lp, loop' = lp PROVE IInv'
  OBVIOUS
<1>15. /\ lp \in Loops /\ lp.kind = "merge" /\ lp.list = l /\ lp.at = Null /\ ~lp.stopped
  <2>1. lp = [lq EXCEPT !.node = n, !.at = Null, !.count = @ + 1]
    BY <1>1, <1>8
  <2>2. Turned(lp, lq, Null, n)
    BY <1>2, <1>4, <2>1, TurnIs
  <2> QED BY <1>1, <1>5, <2>2 DEF Turned
<1>16. LoopIs(lp)'
  <2>1. MergeLoop(lp)'
    BY <1>15 DEF MergeLoop
  <2>2. lp.list \in Live'
    BY <1>1, <1>2, <1>15 DEF Live
  <2> QED BY <1>15, <2>1, <2>2 DEF LoopIs
<1>17. HeapInv'
  BY <1>13 DEF HeapInv, AllListed
<1> QED BY <1>8, <1>14, <1>16, <1>17, LoopAfter DEF IInv

\* Where a removal goes on is still in the list.
LEMMA NextIsMember ==
  ASSUME ShapeInv, NEW l \in Live, NEW n \in Members(l), next[n] # Null
  PROVE  next[n] \in Members(l) /\ next[n] # n
<1>1. PICK i \in 1 .. Len(Chain(l)) : Chain(l)[i] = n
  BY MemberFacts
<1>2. /\ Len(Chain(l)) \in Nat /\ Distinct(Chain(l))
      /\ \A j \in 1 .. Len(Chain(l)) : Chain(l)[j] \in Members(l)
      /\ next[Chain(l)[i]] = IF i = Len(Chain(l)) THEN Null ELSE Chain(l)[i + 1]
  BY <1>1, ListFacts DEF Good
<1>3. i # Len(Chain(l))
  BY <1>1, <1>2
<1>4. i + 1 \in 1 .. Len(Chain(l)) /\ i # i + 1
  BY <1>2, <1>3
<1> QED BY <1>1, <1>2, <1>3, <1>4 DEF Distinct

\* A turn of listRemoveNodes.
LEMMA RemoveStepKeeps ==
  ASSUME IInv, NEW lq, loop = lq, RemoveStep
  PROVE  IInv'
<1> DEFINE l == lq.list
           n == lq.at
           returned == IF lq.free \/ locked[n] THEN Null ELSE payload[n]
<1>1. /\ lq.kind = "remove" /\ lq.at # Null /\ ~lq.stopped
      /\ spent' = spent
      /\ IF locked[n] THEN UNCHANGED <<heap, links, contents, data>> ELSE Unlink(l, n, lq.free)
      /\ loop' = IF returned = Null THEN [lq EXCEPT !.stopped = TRUE]
                 ELSE [lq EXCEPT !.at = next[n], !.count = @ + 1]
  BY DEF RemoveStep, Looping
<1>2. /\ LoopIs(lq) /\ lq \in Loops /\ lq.list \in Live /\ lq.list \in Lists /\ AllListed
      /\ RemoveLoop(lq) /\ n \in Members(l)
  <2>1. LoopIs(lq) /\ lq \in Loops /\ lq.list \in Live /\ lq.list \in Lists /\ AllListed
    BY <1>1, InLoop
  <2>2. RemoveLoop(lq)
    BY <1>1, <2>1 DEF LoopIs
  <2> QED BY <1>1, <2>1, <2>2 DEF RemoveLoop
<1>3. Rest /\ TypeOK /\ ShapeInv /\ DataInv /\ next \in [Nodes -> Nodes \cup {Null}] /\ n \in Nodes
  BY <1>2, MemberFacts DEF Rest, IInv, TypeOK
<1>4. lq.free \in BOOLEAN /\ (lq.free => \A m \in Members(l) : mine[m])
  BY <1>2 DEF Loops, RemoveLoop
<1>5. CASE locked[n]
  <2>1. returned = Null /\ UNCHANGED <<heap, links, contents, data>>
    BY <1>1, <1>5
  <2>2. /\ TypeOK' /\ ShapeInv' /\ HeapInv' /\ DataInv' /\ Live' = Live
        /\ \A m \in Lists : Members(m)' = Members(m)
    BY <1>1, <1>3, <2>1, BeginStays
  <2> SUFFICES ASSUME NEW lp, loop' = lp PROVE IInv'
    OBVIOUS
  <2>3. lp \in Loops /\ lp.kind = "remove" /\ lp.list = l /\ lp.free = lq.free /\ lp.stopped = TRUE
    <3>1. lp = [lq EXCEPT !.stopped = TRUE]
      BY <1>1, <2>1
    <3> QED BY <1>1, <1>2, <3>1, StoppedIs
  <2>4. RemoveLoop(lp)'
    BY <1>2, <1>4, <2>1, <2>2, <2>3 DEF RemoveLoop, contents
  <2>5. LoopIs(lp)'
    BY <1>2, <2>2, <2>3, <2>4 DEF LoopIs
  <2> QED BY <2>2, <2>5, LoopAfter DEF IInv
<1>6. CASE ~locked[n]
  <2>1. /\ TypeOK' /\ ShapeInv' /\ AllListed' /\ DataInv'
        /\ Members(l)' = Members(l) \ {n}
        /\ \A x \in Nodes : x # n => mine'[x] = mine[x]
    <3>1. MayFreeData(n, lq.free)
      BY <1>2, <1>4 DEF MayFreeData
    <3>2. Unlink(l, n, lq.free)
      BY <1>1, <1>6
    <3>3. PICK f \in BOOLEAN : f = lq.free
      BY <1>4
    <3>4. MayFreeData(n, f) /\ Unlink(l, n, f)
      BY <3>1, <3>2, <3>3
    <3>5. AllListed /\ spent' = spent /\ l \in Live /\ n \in Members(l)
      BY <1>1, <1>2
    <3> QED BY <1>3, <3>4, <3>5, UnlinkStep
  <2>2. next[n] # Null => next[n] \in Members(l)'
    BY <1>2, <1>3, <2>1, NextIsMember
  <2>3. lq.free => \A m \in Members(l)' : mine'[m]
    BY <1>2, <1>3, <1>4, <2>1, MemberFacts
  <2>4. Live' = Live
    BY <1>1 DEF Live
  <2> SUFFICES ASSUME NEW lp, loop' = lp PROVE IInv'
    OBVIOUS
  <2>5. /\ lp \in Loops /\ lp.kind = "remove" /\ lp.list = l /\ lp.free = lq.free
        /\ lp.stopped \/ lp.at = next[n]
    <3>1. CASE returned = Null
      <4>1. lp = [lq EXCEPT !.stopped = TRUE]
        BY <1>1, <3>1
      <4> QED BY <1>1, <1>2, <4>1, StoppedIs
    <3>2. CASE returned # Null
      <4>1. lp = [lq EXCEPT !.node = lq.node, !.at = next[n], !.count = @ + 1]
        BY <1>1, <1>2, <3>2 DEF Loops
      <4>2. next[n] \in Nodes \cup {Null} /\ lq.node \in Nodes \cup {Null}
        BY <1>2, <1>3, LoopTypes
      <4>3. Turned(lp, lq, next[n], lq.node)
        BY <1>2, <4>1, <4>2, TurnIs
      <4> QED BY <1>1, <4>3 DEF Turned
    <3> QED BY <3>1, <3>2
  <2>6. RemoveLoop(lp)'
    BY <2>2, <2>3, <2>5 DEF RemoveLoop
  <2>7. LoopIs(lp)'
    BY <1>2, <2>4, <2>5, <2>6 DEF LoopIs
  <2>8. HeapInv'
    BY <2>1 DEF HeapInv, AllListed
  <2> QED BY <2>1, <2>7, <2>8, LoopAfter DEF IInv
<1> QED BY <1>5, <1>6

\* A loop ends: a merge has no node in its hands then.
LEMMA ReturnKeeps ==
  ASSUME IInv, Return
  PROVE  IInv'
<1>1. /\ Ended /\ loop' = NoLoop
      /\ UNCHANGED <<heap, links, contents, data>> /\ spent' = spent
  BY DEF Return
<1>2. AllListed
  <2>1. CASE loop.kind = "merge"
    <3>1. LoopIs(loop) /\ loop \in Loops
      BY <2>1, InLoop
    <3>2. ~loop.stopped /\ (loop.at # Null => loop.count < loop.max)
      BY <2>1, <3>1 DEF LoopIs, MergeLoop
    <3>3. loop.count \in Nat /\ loop.max \in Nat
      BY <3>1, LoopTypes
    <3>4. loop.at = Null
      BY <1>1, <3>2, <3>3 DEF Ended
    <3>5. Null \notin heap
      BY ListConstants DEF IInv, TypeOK
    <3> QED BY <3>4, <3>5 DEF IInv, HeapInv, AllListed
  <2>2. CASE loop.kind # "merge"
    BY <2>2 DEF IInv, HeapInv, AllListed
  <2> QED BY <2>1, <2>2
<1>3. Rest
  BY <1>2 DEF Rest, IInv
<1>4. TypeOK' /\ ShapeInv' /\ HeapInv' /\ DataInv'
  BY <1>1, <1>3, BeginStays
<1> QED BY <1>1, <1>4 DEF IInv, LoopInv
-----------------------------------------------------------------------------
(* The invariant *)

\* listMerge goes on from a pointer that the turn before has changed, so the
\* lists are sound only where callers merge lists of one node at most, at the end
\* of another.
MergesEnd == MergeLimit <= 1 /\ ~MergeInside

\* The invariant holds of lists that listInit has just initialised.
LEMMA InitInv ==
  ASSUME Init
  PROVE  IInv
<1>1. /\ heap = {} /\ spent = {} /\ alive = {} /\ handed = {} /\ loop = NoLoop
      /\ \A l \in Lists : first[l] = Null /\ last[l] = Null /\ count[l] = 0
  BY DEF Init
<1>2. TypeOK
  BY DEF Init, TypeOK
<1>3. ShapeInv
  <2> SUFFICES ASSUME NEW l \in Live PROVE ListInv(l)
    BY DEF ShapeInv
  <2>1. l \in Lists
    BY DEF Live
  <2>2. Good(<<>>, first[l], last[l], count[l], next, prev)
    BY <1>1, <2>1, GoodEmpty
  <2>3. Chain(l) = <<>>
    BY <2>2, GoodChain DEF Chain, ChainFrom
  <2> QED BY <2>2, <2>3 DEF ListInv
<1> QED BY <1>1, <1>2, <1>3 DEF IInv, HeapInv, DataInv, LoopInv

\* Each call on a list.
LEMMA CallsKeep ==
  ASSUME MergesEnd, IInv, NEW l \in Lists,
         \/ \E after \in Places(l) :
              \/ AddNode(l, after) \/ AddNodeData(l, after)
              \/ \E src \in Lists : BeginAddNodeList(l, src, after) \/ BeginMerge(l, src, after)
         \/ \E n \in heap, max \in Counts : BeginExtract(l, n, max)
         \/ \E n \in Places(l), free \in BOOLEAN :
              \/ RemoveNode(l, n, free)
              \/ \E max \in Counts : BeginRemoveNodes(l, n, max, free)
         \/ \E p \in Payloads, free \in BOOLEAN : RemoveTaggedNode(l, p, free)
         \/ ReverseList(l) \/ FreeNodes(l)
  PROVE  IInv'
<1>1. Rest
  <2>1. Idle
    BY DEF AddNode, AddNodeData, BeginAddNodeList, BeginMerge, BeginExtract, RemoveNode, BeginRemoveNodes,
           RemoveTaggedNode, ReverseList, FreeNodes, Usable
  <2> QED BY <2>1, RestAtIdle
<1>2. \A max \in Counts : max \in Nat
  BY DEF Counts
<1>3. ASSUME NEW after \in Places(l), AddNode(l, after) PROVE IInv'
  <2>1. loop' = NoLoop
    BY <1>3 DEF AddNode, Usable, Idle
  <2> QED BY <1>1, <1>3, <2>1, AddNodeKeeps, RestAfter
<1>4. ASSUME NEW after \in Places(l), AddNodeData(l, after) PROVE IInv'
  <2>1. loop' = NoLoop
    BY <1>4 DEF AddNodeData, Usable, Idle
  <2> QED BY <1>1, <1>4, <2>1, AddNodeDataKeeps, RestAfter
<1>5. ASSUME NEW after \in Places(l), NEW src \in Lists, BeginAddNodeList(l, src, after) PROVE IInv'
  BY <1>1, <1>5, BeginAddNodeListKeeps
<1>6. ASSUME NEW after \in Places(l), NEW src \in Lists, BeginMerge(l, src, after) PROVE IInv'
  BY <1>1, <1>6, BeginMergeKeeps DEF MergesEnd
<1>7. ASSUME NEW n \in heap, NEW max \in Counts, BeginExtract(l, n, max) PROVE IInv'
  BY <1>1, <1>2, <1>7, BeginExtractKeeps
<1>8. ASSUME NEW n \in Places(l), NEW free \in BOOLEAN, RemoveNode(l, n, free) PROVE IInv'
  <2>1. loop' = NoLoop
    BY <1>8 DEF RemoveNode, Usable, Idle
  <2> QED BY <1>1, <1>8, <2>1, RemoveNodeKeeps, RestAfter
<1>9. ASSUME NEW n \in Places(l), NEW free \in BOOLEAN, NEW max \in Counts, BeginRemoveNodes(l, n, max, free)
      PROVE  IInv'
  BY <1>1, <1>2, <1>9, BeginRemoveNodesKeeps
<1>10. ASSUME NEW p \in Payloads, NEW free \in BOOLEAN, RemoveTaggedNode(l, p, free) PROVE IInv'
  <2>1. loop' = NoLoop
    BY <1>10 DEF RemoveTaggedNode, Usable, Idle
  <2> QED BY <1>1, <1>10, <2>1, RemoveTaggedNodeKeeps, RestAfter
<1>11. ASSUME ReverseList(l) PROVE IInv'
  <2>1. loop' = NoLoop
    BY <1>11 DEF ReverseList, Usable, Idle
  <2> QED BY <1>1, <1>11, <2>1, ReverseListKeeps, RestAfter
<1>12. ASSUME FreeNodes(l) PROVE IInv'
  <2>1. loop' = NoLoop
    BY <1>12 DEF FreeNodes, Usable, Idle
  <2> QED BY <1>1, <1>12, <2>1, FreeNodesKeeps, RestAfter
<1> QED BY <1>3, <1>4, <1>5, <1>6, <1>7, <1>8, <1>9, <1>10, <1>11, <1>12

\* Each call on nodes.
LEMMA NodeCallsKeep ==
  ASSUME IInv,
         \/ \E n1, n2 \in heap : SwapNodes(n1, n2)
         \/ \E n \in heap : LockNode(n) \/ UnlockNode(n) \/ FreeNodeData(n)
         \/ \E b \in Blocks : FreeData(b)
  PROVE  IInv'
<1>1. Idle /\ loop' = NoLoop
  BY DEF SwapNodes, LockNode, UnlockNode, FreeNodeData, FreeData, Idle
<1>2. Rest
  BY <1>1, RestAtIdle
<1>3. Rest'
  BY <1>2, SwapNodesKeeps, LocksKeep, FreeNodeDataKeeps, FreeDataKeeps
<1> QED BY <1>1, <1>3, RestAfter

\* The invariant is inductive.
LEMMA InvNext ==
  ASSUME MergesEnd, IInv, [Next]_vars
  PROVE  IInv'
<1>1. CASE UNCHANGED vars
  <2>1. /\ UNCHANGED <<heap, links, contents, data, spent, loop>>
        /\ heap \subseteq heap' /\ spent \subseteq spent' /\ Live' = Live /\ Live \subseteq Lists
    BY <1>1 DEF vars, links, contents, data, Live
  <2>2. ShapeInv' /\ \A l \in Lists : Chain(l)' = Chain(l) /\ Members(l)' = Members(l)
    BY <2>1, ListsStay DEF IInv
  <2>3. TypeOK' /\ DataInv'
    BY <2>1 DEF IInv, TypeOK, DataInv, links, contents, data
  <2>4. HeapInv'
    BY <2>1, <2>2 DEF IInv, HeapInv
  <2>5. LoopInv'
    <3>1. CASE loop = NoLoop
      BY <2>1, <3>1 DEF LoopInv
    <3>2. CASE LoopIs(loop)
      <4> SUFFICES ASSUME NEW lp, loop = lp PROVE LoopInv'
        OBVIOUS
      <4>1. LoopIs(lp) /\ lp.list \in Live /\ lp.list \in Lists /\ lp \in Loops
        BY <2>1, <3>2 DEF LoopIs
      <4>2. /\ Chain(lp.list)' = Chain(lp.list) /\ Members(lp.list)' = Members(lp.list)
            /\ Places(lp.list)' = Places(lp.list)
            /\ \A s \in Live : Chain(s)' = Chain(s) /\ Members(s)' = Members(s)
            /\ payload' = payload /\ mine' = mine /\ next' = next /\ last' = last /\ heap' = heap
        BY <2>1, <2>2, <4>1 DEF Places, contents, links
      <4>3. lp.kind = "add" => AddLoop(lp)'
        <5>1. lp.kind = "add" => AddLoop(lp)
          BY <4>1 DEF LoopIs
        <5> QED BY <2>1, <4>2, <5>1 DEF AddLoop, AtSource
      <4>4. lp.kind = "extract" => ExtractLoop(lp)'
        <5>1. lp.kind = "extract" => ExtractLoop(lp)
          BY <4>1 DEF LoopIs
        <5>2. ASSUME ExtractLoop(lp)
              PROVE  \E s \in Live' \ {lp.list} : \E j \in 0 .. Len(Chain(s)') :
                       /\ Len(Chain(s)') = Len(lp.source) + j
                       /\ \A i \in 1 .. Len(lp.source) : lp.source[i] = Chain(s)'[i + j]
          <6>1. PICK s \in Live \ {lp.list} : \E j \in 0 .. Len(Chain(s)) :
                  /\ Len(Chain(s)) = Len(lp.source) + j
                  /\ \A i \in 1 .. Len(lp.source) : lp.source[i] = Chain(s)[i + j]
            BY <5>2 DEF ExtractLoop
          <6>2. Chain(s)' = Chain(s) /\ s \in Live' \ {lp.list}
            BY <2>1, <4>2
          <6> QED BY <6>1, <6>2
        <5> QED BY <4>2, <5>1, <5>2 DEF ExtractLoop, AtSource
      <4>5. lp.kind = "merge" => MergeLoop(lp)'
        <5>1. lp.kind = "merge" => MergeLoop(lp)
          BY <4>1 DEF LoopIs
        <5> QED BY <2>1, <4>2, <5>1 DEF MergeLoop, Anchor
      <4>6. lp.kind = "remove" => RemoveLoop(lp)'
        <5>1. lp.kind = "remove" => RemoveLoop(lp)
          BY <4>1 DEF LoopIs
        <5> QED BY <4>2, <5>1 DEF RemoveLoop
      <4>7. LoopIs(lp)'
        BY <2>1, <4>1, <4>3, <4>4, <4>5, <4>6 DEF LoopIs
      <4> QED BY <2>1, <4>7, LoopAfter
    <3> QED BY <3>1, <3>2 DEF IInv, LoopInv
  <2> QED BY <2>2, <2>3, <2>4, <2>5 DEF IInv
<1>2. CASE Next
  BY <1>2, CallsKeep, NodeCallsKeep, AddListStepKeeps, AddListFailsKeeps, ExtractStepKeeps, MergeStepKeeps,
     RemoveStepKeeps, ReturnKeeps DEF Next
<1> QED BY <1>1, <1>2

\* IInv holds in every state, for any number of nodes, lists and data.
THEOREM ListsInvariant ==
  ASSUME MergesEnd
  PROVE  Spec => []IInv
BY InitInv, InvNext, PTL DEF Spec

\* Every list is what listVerify expects and has all the nodes that were added to
\* it and none that were freed, for any number of lists, nodes and calls.
THEOREM ListsStayWhole ==
  ASSUME MergesEnd
  PROVE  Spec => []StructureOK
<1>1. ASSUME IInv PROVE StructureOK
  <2>1. ShapeInv /\ TypeOK
    BY <1>1 DEF IInv
  <2>2. ASSUME NEW l \in Lists \ spent PROVE Verified(l)
    <3>1. l \in Live
      BY DEF Live
    <3>2. /\ Good(Chain(l), first[l], last[l], count[l], next, prev)
          /\ Chain(l) \in Seq(Nodes)
          /\ \A i \in 1 .. Len(Chain(l)) : owner[Chain(l)[i]] = l
      BY <2>1, <3>1, ListFacts
    <3>3. Chain(l) = <<>> <=> Len(Chain(l)) = 0
      BY <3>2
    <3> QED BY <3>2, <3>3 DEF Verified, Good
  <2>3. ASSUME loop.kind # "merge" PROVE heap = UNION {Members(l) : l \in Lists \ spent}
    <3>1. \A n \in heap : \E l \in Lists \ spent : n \in Members(l)
      BY <1>1, <2>3 DEF IInv, HeapInv, Live
    <3>2. \A l \in Lists \ spent : \A n \in Members(l) : n \in heap
      BY <2>1, MemberFacts DEF Live
    <3> QED BY <3>1, <3>2
  <2> QED BY <2>1, <2>2, <2>3 DEF StructureOK
<1> QED BY <1>1, ListsInvariant, PTL

\* Data that the lists allocate have one owner from then until they are freed:
\* no call frees them twice or loses them.
THEOREM DataAreOwnedOnce ==
  ASSUME MergesEnd
  PROVE  Spec => []OwnedDataOnce
<1>1. ASSUME IInv PROVE OwnedDataOnce
  <2> SUFFICES ASSUME NEW b \in Blocks
               PROVE  Cardinality(Owners(b)) + (IF b \in handed THEN 1 ELSE 0) = IF b \in alive THEN 1 ELSE 0
    BY DEF OwnedDataOnce
  <2>1. DataInv /\ handed \subseteq alive /\ b # Null
    BY <1>1, ListConstants DEF IInv, TypeOK
  <2>2. CASE b \in alive \ handed
    <3>1. PICK n \in heap : mine[n] /\ payload[n] = b
      BY <2>1, <2>2 DEF DataInv
    <3>2. Owners(b) = {n}
      BY <2>1, <3>1 DEF DataInv, Owners
    <3>3. Cardinality(Owners(b)) = 1
      BY <3>2, FS_Singleton
    <3> QED BY <2>2, <3>3
  <2>3. CASE b \notin alive \ handed
    <3>1. Owners(b) = {}
      BY <2>1, <2>3 DEF DataInv, Owners
    <3>2. Cardinality(Owners(b)) = 0
      BY <3>1, FS_EmptySet
    <3> QED BY <2>1, <2>3, <3>2
  <2> QED BY <2>2, <2>3
<1> QED BY <1>1, ListsInvariant, PTL

\* listAddNodeList has copied the beginning of the source, at the place that was
\* named; listExtract what it found memory for, in any of its turns; both in the
\* order of the source, after every turn and whichever allocations fail.
THEOREM CopiesKeepTheOrder ==
  ASSUME MergesEnd
  PROVE  Spec => []CopiedInOrder
<1>1. ASSUME IInv PROVE CopiedInOrder
  <2>1. ASSUME loop.kind \in {"add", "extract"}
        PROVE  /\ ShapeInv /\ LoopIs(loop) /\ loop \in Loops /\ loop.list \in Live
               /\ loop.count \in Nat /\ loop.source \in Seq(Nodes) /\ Len(Chain(loop.list)) \in Nat
    <3>1. ShapeInv /\ LoopIs(loop) /\ loop \in Loops /\ loop.list \in Live
      BY <1>1, <2>1, InLoop DEF IInv
    <3> QED BY <3>1, LoopTypes, ListFacts
  <2>2. ASSUME loop.kind = "add", loop.node # Null PROVE Prefixed
    <3>1. AddLoop(loop)
      BY <2>1, <2>2 DEF LoopIs
    <3>2. PICK k \in 1 .. Len(Chain(loop.list)) :
            /\ Chain(loop.list)[k] = loop.node
            /\ k >= loop.count
            /\ \A i \in 1 .. loop.count : payload[Chain(loop.list)[k - loop.count + i]] = payload[loop.source[i]]
            /\ loop.after = Null => k = loop.count
            /\ loop.after = LastNode => k = Len(Chain(loop.list))
            /\ loop.after \in Nodes => k > loop.count /\ Chain(loop.list)[k - loop.count] = loop.after
      BY <2>2, <3>1 DEF AddLoop
    <3>3. Position(loop.list, loop.node) = k
      BY <2>1, <2>2, <3>2, PositionIs
    <3> QED BY <2>1, <2>2, <3>2, <3>3 DEF Prefixed
  <2>3. ASSUME loop.kind = "extract" PROVE Extracted
    <3>1. ExtractLoop(loop)
      BY <2>1, <2>3 DEF LoopIs
    <3> QED BY <3>1 DEF ExtractLoop, Extracted
  <2> QED BY <2>2, <2>3 DEF CopiedInOrder
<1> QED BY <1>1, ListsInvariant, PTL
-----------------------------------------------------------------------------
(* The lists are sequences *)

\* A node more leaves the others in their order.
LEMMA OrderWith ==
  ASSUME NEW c \in Seq(Nodes), Distinct(c), NEW p \in 0 .. Len(c), NEW n \in Nodes,
         \A i \in 1 .. Len(c) : c[i] # n
  PROVE  InOrder(c, With(c, p, n))
<1> DEFINE w == With(c, p, n)
<1>1. /\ w \in Seq(Nodes) /\ Len(w) = Len(c) + 1 /\ Len(c) \in Nat
      /\ \A i \in 1 .. Len(c) + 1 : /\ i <= p => i \in 1 .. Len(c) /\ w[i] = c[i]
                                    /\ i = p + 1 => w[i] = n
                                    /\ i > p + 1 => i - 1 \in 1 .. Len(c) /\ w[i] = c[i - 1]
  BY WithIs
<1>2. DOMAIN c = 1 .. Len(c) /\ DOMAIN w = 1 .. (Len(c) + 1)
  BY <1>1, SeqFacts
<1> HIDE DEF w
<1>3. ASSUME NEW i \in 1 .. Len(c), NEW k \in 1 .. (Len(c) + 1), c[i] = w[k]
      PROVE  k = IF i <= p THEN i ELSE i + 1
  <2>1. CASE k <= p
    <3>1. k \in 1 .. Len(c) /\ w[k] = c[k]
      BY <1>1, <2>1
    <3> QED BY <1>3, <2>1, <3>1 DEF Distinct
  <2>2. CASE k = p + 1
    BY <1>1, <1>3, <2>2
  <2>3. CASE k > p + 1
    <3>1. k - 1 \in 1 .. Len(c) /\ w[k] = c[k - 1]
      BY <1>1, <2>3
    <3>2. i = k - 1
      BY <1>3, <3>1 DEF Distinct
    <3> QED BY <1>1, <2>3, <3>2
  <2> QED BY <1>1, <2>1, <2>2, <2>3
<1>4. ASSUME NEW i \in 1 .. Len(c), NEW k \in 1 .. (Len(c) + 1), c[i] = w[k],
             NEW j \in 1 .. Len(c), NEW q \in 1 .. (Len(c) + 1), c[j] = w[q], i < j
      PROVE  k < q
  <2>1. k = (IF i <= p THEN i ELSE i + 1) /\ q = (IF j <= p THEN j ELSE j + 1)
    BY <1>3, <1>4
  <2> QED BY <1>1, <1>4, <2>1
<1>5. InOrder(c, w)
  BY <1>2, <1>4 DEF InOrder
<1> QED BY <1>5 DEF w

\* A node less leaves the others in their order.
LEMMA OrderWithout ==
  ASSUME NEW c \in Seq(Nodes), Distinct(c), NEW p \in 1 .. Len(c)
  PROVE  InOrder(c, Without(c, p))
<1> DEFINE w == Without(c, p)
<1>1. /\ w \in Seq(Nodes) /\ Len(w) = Len(c) - 1 /\ Len(c) \in Nat
      /\ \A i \in 1 .. Len(c) - 1 : /\ i < p => w[i] = c[i]
                                    /\ i >= p => w[i] = c[i + 1]
                                    /\ i \in 1 .. Len(c) /\ i + 1 \in 1 .. Len(c)
  BY WithoutIs
<1>2. DOMAIN c = 1 .. Len(c) /\ DOMAIN w = 1 .. (Len(c) - 1)
  BY <1>1, SeqFacts
<1> HIDE DEF w
<1>3. ASSUME NEW i \in 1 .. Len(c), NEW k \in 1 .. (Len(c) - 1), c[i] = w[k]
      PROVE  i = IF k < p THEN k ELSE k + 1
  <2>1. k \in 1 .. Len(c) /\ k + 1 \in 1 .. Len(c)
    BY <1>1
  <2>2. CASE k < p
    BY <1>1, <1>3, <2>1, <2>2 DEF Distinct
  <2>3. CASE k >= p
    BY <1>1, <1>3, <2>1, <2>3 DEF Distinct
  <2> QED BY <1>1, <2>2, <2>3
<1>4. ASSUME NEW i \in 1 .. Len(c), NEW k \in 1 .. (Len(c) - 1), c[i] = w[k],
             NEW j \in 1 .. Len(c), NEW q \in 1 .. (Len(c) - 1), c[j] = w[q], i < j
      PROVE  k < q
  <2>1. i = (IF k < p THEN k ELSE k + 1) /\ j = (IF q < p THEN q ELSE q + 1)
    BY <1>3, <1>4
  <2> QED BY <1>1, <1>4, <2>1
<1>5. InOrder(c, w)
  BY <1>2, <1>4 DEF InOrder
<1> QED BY <1>5 DEF w

\* The end of a sequence, from a place on.
LEMMA TailIs ==
  ASSUME NEW c \in Seq(Nodes), NEW p \in 0 .. Len(c)
  PROVE  LET b == SubSeq(c, p + 1, Len(c))
         IN  b \in Seq(Nodes) /\ Len(b) = Len(c) - p /\ \A i \in 1 .. (Len(c) - p) : b[i] = c[p + i]
<1> DEFINE b == SubSeq(c, p + 1, Len(c))
<1>1. Len(c) \in Nat /\ p \in Nat /\ p <= Len(c) /\ Len(c) \in Int /\ p + 1 \in Int
  BY LenProperties
<1>2. \A i \in (p + 1) .. Len(c) : c[i] \in Nodes
  BY <1>1, ElementOfSeq
<1>3. /\ b \in Seq(Nodes)
      /\ Len(b) = IF p + 1 <= Len(c) THEN Len(c) - (p + 1) + 1 ELSE 0
      /\ \A i \in 1 .. (Len(c) - (p + 1) + 1) : b[i] = c[(p + 1) + i - 1]
  BY <1>1, <1>2, SubSeqProperties
<1> HIDE DEF b
<1>4. PICK k : k = Len(c)
  OBVIOUS
<1>5. k \in Nat /\ p \in Nat /\ p <= k
  BY <1>1, <1>4
<1>6. (IF p + 1 <= k THEN k - (p + 1) + 1 ELSE 0) = k - p /\ k - (p + 1) + 1 = k - p
      /\ \A i \in 1 .. k - p : (p + 1) + i - 1 = p + i
  BY <1>5
<1>7. Len(b) = IF p + 1 <= k THEN k - (p + 1) + 1 ELSE 0
  BY <1>3, <1>4
<1>70. Len(b) = k - p
  BY <1>6, <1>7
<1>8. \A i \in 1 .. (k - p) : b[i] = c[p + i]
  BY <1>3, <1>4, <1>6
<1>9. Len(b) = Len(c) - p /\ \A i \in 1 .. (Len(c) - p) : b[i] = c[p + i]
  BY <1>4, <1>70, <1>8
<1> QED BY <1>3, <1>9 DEF b

\* With is InsertAt of the community modules.
LEMMA InsertedIs ==
  ASSUME NEW c \in Seq(Nodes), NEW p \in 0 .. Len(c), NEW n \in Nodes
  PROVE  InsertAt(c, p + 1, n) = With(c, p, n)
<1> DEFINE a == SubSeq(c, 1, p)
           b == SubSeq(c, p + 1, Len(c))
           w == With(c, p, n)
           an == a \o <<n>>
           s == an \o b
<1>1. Len(c) \in Nat /\ p \in Nat /\ (p + 1) - 1 = p /\ DOMAIN c = 1 .. Len(c)
  BY SeqFacts
<1>2. InsertAt(c, p + 1, n) = s
  BY <1>1 DEF InsertAt
<1>3. a \in Seq(Nodes) /\ Len(a) = p /\ \A i \in 1 .. p : a[i] = c[i]
  <2>1. \A i \in 1 .. p : i \in 1 .. Len(c)
    BY <1>1
  <2> QED BY <1>1, <2>1, SubSeqProperties
<1>4. b \in Seq(Nodes) /\ Len(b) = Len(c) - p /\ \A i \in 1 .. (Len(c) - p) : b[i] = c[p + i]
  <2>1. p \in 0 .. Len(c)
    BY <1>1
  <2> QED BY <2>1, TailIs
<1> HIDE DEF a, b
<1>5. /\ an \in Seq(Nodes) /\ Len(an) = p + 1
      /\ \A i \in 1 .. p : an[i] = c[i]
      /\ an[p + 1] = n
  <2>1. <<n>> \in Seq(Nodes) /\ Len(<<n>>) = 1 /\ <<n>>[1] = n
    OBVIOUS
  <2>2. an \in Seq(Nodes) /\ Len(an) = p + 1
    BY <1>1, <1>3, <2>1, ConcatProperties
  <2>3. \A i \in 1 .. (Len(a) + Len(<<n>>)) :
          an[i] = IF i <= Len(a) THEN a[i] ELSE <<n>>[i - Len(a)]
    BY <1>3, <2>1, ConcatProperties
  <2>4. p + 1 \in 1 .. (p + 1) /\ ~(p + 1 <= p) /\ (p + 1) - p = 1 /\ \A i \in 1 .. p : i \in 1 .. (p + 1) /\ i <= p
    BY <1>1
  <2> QED BY <1>3, <2>1, <2>2, <2>3, <2>4
<1> HIDE DEF an
<1>6. /\ s \in Seq(Nodes) /\ Len(s) = Len(c) + 1
      /\ \A i \in 1 .. (Len(c) + 1) : s[i] = IF i <= p + 1 THEN an[i] ELSE b[i - (p + 1)]
  <2>1. s \in Seq(Nodes) /\ Len(s) = Len(an) + Len(b)
    BY <1>4, <1>5, ConcatProperties
  <2>2. \A i \in 1 .. (Len(an) + Len(b)) :
          s[i] = IF i <= Len(an) THEN an[i] ELSE b[i - Len(an)]
    BY <1>4, <1>5, ConcatProperties
  <2>3. Len(an) + Len(b) = Len(c) + 1
    BY <1>1, <1>4, <1>5
  <2> QED BY <1>5, <2>1, <2>2, <2>3
<1> HIDE DEF s
<1>7. ASSUME NEW i \in 1 .. (Len(c) + 1)
      PROVE  s[i] = IF i <= p THEN c[i] ELSE IF i = p + 1 THEN n ELSE c[i - 1]
  <2>1. CASE i <= p
    BY <1>1, <1>5, <1>6, <2>1
  <2>2. CASE i = p + 1
    BY <1>1, <1>5, <1>6, <2>2
  <2>3. CASE i > p + 1
    <3>1. i - (p + 1) \in 1 .. (Len(c) - p) /\ p + (i - (p + 1)) = i - 1
      BY <1>1, <2>3
    <3>2. b[i - (p + 1)] = c[i - 1]
      BY <1>4, <3>1
    <3> QED BY <1>1, <1>6, <2>3, <3>2
  <2> QED BY <1>1, <2>1, <2>2, <2>3
<1>8. DOMAIN s = 1 .. (Len(c) + 1) /\ s = [i \in DOMAIN s |-> s[i]]
  BY <1>6, SeqFacts
<1>9. s = w
  BY <1>7, <1>8 DEF With
<1> QED BY <1>2, <1>9

\* Without is RemoveAt of the community modules.
LEMMA RemovedIs ==
  ASSUME NEW c \in Seq(Nodes), NEW p \in 1 .. Len(c)
  PROVE  RemoveAt(c, p) = Without(c, p)
<1> DEFINE a == SubSeq(c, 1, p - 1)
           b == SubSeq(c, p + 1, Len(c))
           s == a \o b
<1>1. Len(c) \in Nat /\ p \in Nat /\ p - 1 \in Nat /\ Len(c) - p \in Nat /\ DOMAIN c = 1 .. Len(c)
  BY SeqFacts
<1>2. RemoveAt(c, p) = s
  BY <1>1 DEF RemoveAt
<1>3. a \in Seq(Nodes) /\ Len(a) = p - 1 /\ \A i \in 1 .. (p - 1) : a[i] = c[i]
  <2>1. \A i \in 1 .. (p - 1) : i \in 1 .. Len(c)
    BY <1>1
  <2>2. /\ a \in Seq(Nodes)
        /\ Len(a) = IF 1 <= p - 1 THEN (p - 1) - 1 + 1 ELSE 0
        /\ \A i \in 1 .. Len(a) : a[i] = c[1 + i - 1]
    BY <1>1, <2>1, SubSeqProperties
  <2>3. Len(a) = p - 1
    BY <1>1, <2>2
  <2>4. \A i \in 1 .. (p - 1) : 1 + i - 1 = i
    BY <1>1
  <2> QED BY <2>2, <2>3, <2>4
<1>4. b \in Seq(Nodes) /\ Len(b) = Len(c) - p /\ \A i \in 1 .. (Len(c) - p) : b[i] = c[p + i]
  <2>1. p \in 0 .. Len(c)
    BY <1>1
  <2> QED BY <2>1, TailIs
<1> HIDE DEF a, b
<1>5. /\ s \in Seq(Nodes) /\ Len(s) = Len(c) - 1
      /\ \A i \in 1 .. (Len(c) - 1) : s[i] = IF i <= p - 1 THEN a[i] ELSE b[i - (p - 1)]
  <2>1. s \in Seq(Nodes) /\ Len(s) = Len(a) + Len(b)
    BY <1>3, <1>4, ConcatProperties
  <2>2. \A i \in 1 .. (Len(a) + Len(b)) : s[i] = IF i <= Len(a) THEN a[i] ELSE b[i - Len(a)]
    BY <1>3, <1>4, ConcatProperties
  <2>3. Len(a) + Len(b) = Len(c) - 1
    BY <1>1, <1>3, <1>4
  <2> QED BY <1>3, <2>1, <2>2, <2>3
<1> HIDE DEF s
<1>6. ASSUME NEW i \in 1 .. (Len(c) - 1)
      PROVE  s[i] = IF i < p THEN c[i] ELSE c[i + 1]
  <2>1. CASE i < p
    BY <1>1, <1>3, <1>5, <2>1
  <2>2. CASE i >= p
    <3>1. i - (p - 1) \in 1 .. (Len(c) - p) /\ p + (i - (p - 1)) = i + 1 /\ ~(i <= p - 1)
      BY <1>1, <2>2
    <3>2. b[i - (p - 1)] = c[i + 1]
      BY <1>4, <3>1
    <3> QED BY <1>5, <2>2, <3>1, <3>2
  <2> QED BY <1>1, <2>1, <2>2
<1>7. DOMAIN s = 1 .. (Len(c) - 1) /\ s = [i \in DOMAIN s |-> s[i]]
  BY <1>5, SeqFacts
<1>8. s = Without(c, p)
  BY <1>6, <1>7 DEF Without
<1> QED BY <1>2, <1>8
-----------------------------------------------------------------------------
(* What a step does to the sequence of a list *)

\* It leaves the sequence, puts a new node into it, takes one out, or empties it.
ChangesBy(l) ==
  \/ Chain(l)' = Chain(l)
  \/ \E p \in 0 .. Len(Chain(l)), n \in Nodes :
       (\A i \in 1 .. Len(Chain(l)) : Chain(l)[i] # n) /\ Chain(l)' = With(Chain(l), p, n)
  \/ \E p \in 1 .. Len(Chain(l)) : Chain(l)' = Without(Chain(l), p)
  \/ Chain(l)' = <<>>

\* Each of these changes leaves the nodes that stay in their order.
LEMMA ChangesKeepOrder ==
  ASSUME ShapeInv, NEW l \in Live, ChangesBy(l)
  PROVE  OrderKept(l)
<1> SUFFICES ASSUME Chain(l) # Chain(l)' PROVE InOrder(Chain(l), Chain(l)')
  BY DEF OrderKept
<1>1. Chain(l) \in Seq(Nodes) /\ Distinct(Chain(l))
  BY ListFacts
<1>2. CASE \E p \in 0 .. Len(Chain(l)), n \in Nodes :
             (\A i \in 1 .. Len(Chain(l)) : Chain(l)[i] # n) /\ Chain(l)' = With(Chain(l), p, n)
  BY <1>1, <1>2, OrderWith
<1>3. CASE \E p \in 1 .. Len(Chain(l)) : Chain(l)' = Without(Chain(l), p)
  BY <1>1, <1>3, OrderWithout
<1>4. CASE Chain(l)' = <<>>
  <2>1. DOMAIN <<>> = {}
    OBVIOUS
  <2> QED BY <1>4, <2>1 DEF InOrder
<1> QED BY <1>2, <1>3, <1>4 DEF ChangesBy

\* Nothing changes where no link does.
LEMMA LinksStay ==
  ASSUME UNCHANGED links, NEW l
  PROVE  ChangesBy(l)
BY DEF links, ChangesBy, Chain, ChainFrom

\* A node from malloc comes into one list.
LEMMA NewNodeChanges ==
  ASSUME ShapeInv, NEW l \in Live, NEW n, NEW after, NEW p, NEW owned, NEW lock,
         NewNode(n, l, p, owned, lock, after), NewNodeOutcome(n, l, after)
  PROVE  \A m \in Live : ChangesBy(m)
<1>1. n \in Nodes /\ n \notin heap
  BY DEF NewNode
<1>2. \A m \in Live \ {l} : Chain(m)' = Chain(m)
  BY DEF NewNodeOutcome
<1>3. \E i \in 0 .. Len(Chain(l)) : Chain(l)' = With(Chain(l), i, n)
  BY DEF NewNodeOutcome
<1>4. \A i \in 1 .. Len(Chain(l)) : Chain(l)[i] # n
  BY <1>1, ListFacts
<1>5. ChangesBy(l)
  BY <1>1, <1>3, <1>4 DEF ChangesBy
<1> QED BY <1>2, <1>5 DEF ChangesBy

\* A node leaves one list.
LEMMA UnlinkChanges ==
  ASSUME TypeOK, ShapeInv, NEW l \in Live, NEW n \in Members(l), NEW free \in BOOLEAN,
         Unlink(l, n, free), spent' = spent
  PROVE  \A m \in Live : ChangesBy(m)
<1>1. /\ \A m \in Live \ {l} : Chain(m)' = Chain(m)
      /\ \E p \in 1 .. Len(Chain(l)) : Chain(l)' = Without(Chain(l), p)
  BY UnlinkShape
<1> QED BY <1>1 DEF ChangesBy

\* listAddNode, listAddNodeData and listAddNodeString.
LEMMA AddNodeInserts ==
  ASSUME Rest, NEW l \in Lists, NEW after \in Places(l), AddNode(l, after) \/ AddNodeData(l, after)
  PROVE  \E n \in Nodes : /\ l \in Live /\ heap' = heap \cup {n} /\ n \notin heap
                          /\ NewNodeOutcome(n, l, after)
                          /\ \A m \in Live : ChangesBy(m)
<1>0. TypeOK /\ ShapeInv /\ AllListed
  BY DEF Rest
<1>1. l \in Live
  BY DEF AddNode, AddNodeData, Usable, Live
<1>2. PICK n \in Nodes, p \in Payloads, owned \in BOOLEAN : NewNode(n, l, p, owned, FALSE, after)
  BY DEF AddNode, AddNodeData, Payloads
<1>3. p \in Payloads \cup {Null} /\ FALSE \in BOOLEAN
  OBVIOUS
<1>4. NewNodeOutcome(n, l, after)
  BY <1>0, <1>1, <1>2, <1>3, NewNodeStep, Zenon
<1>5. heap' = heap \cup {n} /\ n \notin heap
  BY <1>2 DEF NewNode
<1>6. \A m \in Live : ChangesBy(m)
  BY <1>0, <1>1, <1>2, <1>4, NewNodeChanges
<1> QED BY <1>1, <1>4, <1>5, <1>6

\* A turn of listAddNodeList.
LEMMA AddListStepChanges ==
  ASSUME IInv, AddListStep
  PROVE  \A m \in Live : ChangesBy(m)
<1> DEFINE l == loop.list
           a == IF loop.node = Null THEN loop.after ELSE loop.node
<1>1. PICK n \in Nodes : NewNode(n, l, payload[loop.at], mine[loop.at], locked[loop.at], a)
  BY DEF AddListStep, AfterPrevious
<1>2. loop.kind = "add" /\ loop.at # Null
  BY DEF AddListStep, Looping
<1>3. LoopIs(loop) /\ loop \in Loops /\ l \in Live /\ l \in Lists /\ AllListed /\ AddLoop(loop)
  <2>1. LoopIs(loop) /\ loop \in Loops /\ l \in Live /\ l \in Lists /\ AllListed
    BY <1>2, InLoop
  <2> QED BY <1>2, <2>1 DEF LoopIs
<1>4. TypeOK /\ ShapeInv
  BY DEF IInv
<1>5. loop.at \in Nodes
  BY <1>2, <1>3, LoopTypes
<1>6. payload[loop.at] \in Payloads \cup {Null} /\ mine[loop.at] \in BOOLEAN /\ locked[loop.at] \in BOOLEAN
  BY <1>4, <1>5 DEF TypeOK
<1>7. a \in Places(l)
  <2>1. loop.after \in Places(l)
    BY <1>3 DEF AddLoop
  <2>2. loop.node # Null => \E k \in 1 .. Len(Chain(l)) : Chain(l)[k] = loop.node
    BY <1>3 DEF AddLoop
  <2>3. loop.node # Null => loop.node \in Members(l)
    BY <1>3, <1>4, <2>2, ListFacts
  <2> QED BY <2>1, <2>3 DEF Places
<1>8. NewNodeOutcome(n, l, a)
  BY <1>1, <1>3, <1>4, <1>6, <1>7, NewNodeStep, Zenon
<1> QED BY <1>1, <1>3, <1>4, <1>8, NewNodeChanges

\* A turn of listExtract.
LEMMA ExtractStepChanges ==
  ASSUME IInv, ExtractStep
  PROVE  \A m \in Live : ChangesBy(m)
<1> DEFINE l == loop.list
<1>1. loop.kind = "extract" /\ loop.at # Null
  BY DEF ExtractStep, Looping
<1>2. loop \in Loops /\ l \in Live /\ l \in Lists /\ AllListed
  BY <1>1, InLoop
<1>3. TypeOK /\ ShapeInv
  BY DEF IInv
<1>4. CASE UNCHANGED <<heap, links, contents, spent>>
  BY <1>4, LinksStay
<1>5. CASE \E n \in Nodes : NewNode(n, l, payload[loop.at], FALSE, FALSE, last[l])
  <2>1. PICK n \in Nodes : NewNode(n, l, payload[loop.at], FALSE, FALSE, last[l])
    BY <1>5
  <2>2. loop.at \in Nodes
    BY <1>1, <1>2, LoopTypes
  <2>3. payload[loop.at] \in Payloads \cup {Null} /\ FALSE \in BOOLEAN
    BY <1>3, <2>2 DEF TypeOK
  <2>4. last[l] \in Places(l)
    <3>1. /\ last[l] = IF Len(Chain(l)) = 0 THEN Null ELSE Chain(l)[Len(Chain(l))]
          /\ Len(Chain(l)) \in Nat
          /\ \A i \in 1 .. Len(Chain(l)) : Chain(l)[i] \in Members(l)
      BY <1>2, <1>3, ListFacts DEF Good
    <3>2. Len(Chain(l)) # 0 => Len(Chain(l)) \in 1 .. Len(Chain(l))
      BY <3>1
    <3> QED BY <3>1, <3>2 DEF Places
  <2>5. NewNodeOutcome(n, l, last[l])
    BY <1>2, <1>3, <2>1, <2>3, <2>4, NewNodeStep, Zenon
  <2> QED BY <1>2, <1>3, <2>1, <2>5, NewNodeChanges
<1> QED BY <1>4, <1>5 DEF ExtractStep

\* A turn of listMerge, at the end of the destination.
LEMMA MergeStepChanges ==
  ASSUME IInv, NEW lq, loop = lq, MergeStep
  PROVE  \A m \in Live : ChangesBy(m)
<1> DEFINE l == lq.list
           n == lq.at
<1>1. /\ lq.kind = "merge" /\ lq.at # Null
      /\ LinkNode(lq.at, lq.list, IF lq.node = Null THEN lq.after ELSE lq.node, next)
      /\ heap' = heap /\ spent' = spent
  BY DEF MergeStep, Looping, AfterPrevious
<1>2. /\ LoopIs(lq) /\ lq \in Loops /\ lq.list \in Live /\ lq.list \in Lists /\ MergeLoop(lq)
  <2>1. LoopIs(lq) /\ lq \in Loops /\ lq.list \in Live /\ lq.list \in Lists
    BY <1>1, InLoop
  <2> QED BY <1>1, <2>1 DEF LoopIs
<1>3. /\ TypeOK /\ ShapeInv /\ Null \notin Nodes /\ LastNode \notin Nodes \cup {Null}
      /\ next \in [Nodes -> Nodes \cup {Null}]
  BY ListConstants DEF IInv, TypeOK
<1>4. n \in Nodes /\ lq.after \in Nodes \cup {Null, LastNode}
  BY <1>1, <1>2, LoopTypes
<1>5. /\ lq.node = Null /\ n \in heap /\ next[n] = Null
      /\ Anchor(l, lq.after) = last[l]
      /\ \A m \in Live : n \notin Members(m)
  BY <1>1, <1>2 DEF MergeLoop
<1>6. /\ Chain(l) \in Seq(Nodes) /\ Len(Chain(l)) \in Nat
      /\ last[l] = IF Len(Chain(l)) = 0 THEN Null ELSE Chain(l)[Len(Chain(l))]
      /\ \A i \in 1 .. Len(Chain(l)) : Chain(l)[i] \in Nodes /\ Chain(l)[i] \in Members(l)
  BY <1>2, <1>3, ListFacts DEF Good
<1>7. (IF lq.node = Null THEN lq.after ELSE lq.node) = lq.after /\ lq.after \in Places(l)
  <2>1. lq.after \in Nodes => last[l] = lq.after
    BY <1>3, <1>5 DEF Anchor
  <2>2. Len(Chain(l)) # 0 => Len(Chain(l)) \in 1 .. Len(Chain(l))
    BY <1>6
  <2>3. lq.after \in Nodes => lq.after \in Members(l)
    BY <1>3, <1>6, <2>1, <2>2
  <2> QED BY <1>4, <1>5, <2>3 DEF Places
<1>8. /\ \A m \in Live \ {l} : Chain(m)' = Chain(m)
      /\ \E p \in 0 .. Len(Chain(l)) : Chain(l)' = With(Chain(l), p, n)
  <2>1. heap' = heap /\ spent' = spent /\ LinkNode(n, l, lq.after, next)
    BY <1>1, <1>7
  <2> QED BY <1>2, <1>3, <1>4, <1>5, <1>7, <2>1, LinkAtEnd
<1>9. \A i \in 1 .. Len(Chain(l)) : Chain(l)[i] # n
  BY <1>2, <1>5, <1>6
<1>10. ChangesBy(l)
  BY <1>4, <1>8, <1>9 DEF ChangesBy
<1> QED BY <1>8, <1>10 DEF ChangesBy

\* A turn of listRemoveNodes.
LEMMA RemoveStepChanges ==
  ASSUME IInv, RemoveStep
  PROVE  \A m \in Live : ChangesBy(m)
<1> DEFINE l == loop.list
           n == loop.at
<1>1. /\ loop.kind = "remove" /\ n # Null /\ ~loop.stopped /\ spent' = spent
      /\ IF locked[n] THEN UNCHANGED <<heap, links, contents, data>> ELSE Unlink(l, n, loop.free)
  BY DEF RemoveStep, Looping
<1>2. TypeOK /\ ShapeInv
  BY DEF IInv
<1>3. l \in Live /\ n \in Members(l) /\ loop.free \in BOOLEAN
  <2>1. LoopIs(loop) /\ loop \in Loops /\ l \in Live
    BY <1>1, InLoop
  <2>2. RemoveLoop(loop)
    BY <1>1, <2>1 DEF LoopIs
  <2> QED BY <1>1, <2>1, <2>2 DEF RemoveLoop, Loops
<1>4. CASE locked[n]
  BY <1>1, <1>4, LinksStay
<1>5. CASE ~locked[n]
  <2>1. PICK f \in BOOLEAN : f = loop.free
    BY <1>3
  <2>2. Unlink(l, n, f)
    BY <1>1, <1>5, <2>1
  <2> QED BY <1>1, <1>2, <1>3, <2>2, UnlinkChanges
<1> QED BY <1>4, <1>5

\* listRemoveNode takes out the node it names.
LEMMA RemoveNodeRemoves ==
  ASSUME Rest, NEW l \in Lists, NEW n \in Places(l), NEW free \in BOOLEAN, RemoveNode(l, n, free)
  PROVE  /\ \A m \in Live : ChangesBy(m)
         /\ \E p \in 1 .. Len(Chain(l)) :
              Chain(l)[p] = Named(l, n) /\ Chain(l)' = Without(Chain(l), p) /\ Chain(l) \in Seq(Nodes)
<1>1. l \in Live /\ Named(l, n) # Null /\ Unlink(l, Named(l, n), free) /\ spent' = spent
  BY DEF RemoveNode, Usable, Live
<1>2. TypeOK /\ ShapeInv
  BY DEF Rest
<1>3. Named(l, n) \in Members(l)
  BY <1>1, <1>2, NamedIs
<1>4. \E p \in 1 .. Len(Chain(l)) : Chain(l)[p] = Named(l, n) /\ Chain(l)' = Without(Chain(l), p)
  BY <1>1, <1>2, <1>3, UnlinkShape
<1>5. \A m \in Live : ChangesBy(m)
  BY <1>1, <1>2, <1>3, UnlinkChanges
<1> QED BY <1>1, <1>2, <1>4, <1>5, ListFacts

\* listRemoveTaggedNode.
LEMMA RemoveTaggedNodeChanges ==
  ASSUME Rest, NEW l \in Lists, NEW p, NEW free \in BOOLEAN, RemoveTaggedNode(l, p, free)
  PROVE  \A m \in Live : ChangesBy(m)
<1>1. l \in Live /\ spent' = spent
  BY DEF RemoveTaggedNode, Usable, Live
<1>2. PICK i \in 1 .. Len(Chain(l)) : Unlink(l, Chain(l)[i], free)
  BY DEF RemoveTaggedNode
<1>3. Chain(l)[i] \in Members(l)
  BY <1>1, ListFacts DEF Rest
<1> QED BY <1>1, <1>2, <1>3, UnlinkChanges DEF Rest

\* listFreeNodes.
LEMMA FreeNodesChanges ==
  ASSUME Rest, NEW l \in Lists, FreeNodes(l)
  PROVE  \A m \in Live : ChangesBy(m)
<1>1. Chain(l)' = <<>> /\ \A m \in Live \ {l} : Chain(m)' = Chain(m)
  BY FreeNodesKeeps
<1> QED BY <1>1 DEF ChangesBy

\* Every step but a reversal changes the sequences one by one.
LEMMA StepChanges ==
  ASSUME IInv, [Next]_vars, NEW m \in Live
  PROVE  ChangesBy(m) \/ ReverseList(m)
<1>1. CASE UNCHANGED links
  BY <1>1, LinksStay
<1>2. CASE \E l \in Lists : \E after \in Places(l) : AddNode(l, after) \/ AddNodeData(l, after)
  <2>1. PICK l \in Lists : \E after \in Places(l) : AddNode(l, after) \/ AddNodeData(l, after)
    BY <1>2
  <2>2. PICK after \in Places(l) : AddNode(l, after) \/ AddNodeData(l, after)
    BY <2>1
  <2>3. Rest
    BY <2>2, RestAtIdle DEF AddNode, AddNodeData, Usable
  <2> QED BY <2>2, <2>3, AddNodeInserts
<1>3. CASE \E l \in Lists : \E n \in Places(l), free \in BOOLEAN : RemoveNode(l, n, free)
  <2>1. PICK l \in Lists : \E n \in Places(l), free \in BOOLEAN : RemoveNode(l, n, free)
    BY <1>3
  <2>2. PICK n \in Places(l), free \in BOOLEAN : RemoveNode(l, n, free)
    BY <2>1
  <2>3. Rest
    BY <2>2, RestAtIdle DEF RemoveNode, Usable
  <2> QED BY <2>2, <2>3, RemoveNodeRemoves
<1>4. CASE \E l \in Lists, p \in Payloads, free \in BOOLEAN : RemoveTaggedNode(l, p, free)
  <2>1. PICK l \in Lists, p \in Payloads, free \in BOOLEAN : RemoveTaggedNode(l, p, free)
    BY <1>4
  <2>2. Rest
    BY <2>1, RestAtIdle DEF RemoveTaggedNode, Usable
  <2> QED BY <2>1, <2>2, RemoveTaggedNodeChanges
<1>5. CASE \E l \in Lists : ReverseList(l)
  <2>1. PICK l \in Lists : ReverseList(l)
    BY <1>5
  <2>2. Rest
    BY <2>1, RestAtIdle DEF ReverseList, Usable
  <2>3. \A k \in Live \ {l} : Chain(k)' = Chain(k)
    BY <2>1, <2>2, ReverseListKeeps
  <2> QED BY <2>1, <2>3 DEF ChangesBy
<1>6. CASE \E l \in Lists : FreeNodes(l)
  <2>1. PICK l \in Lists : FreeNodes(l)
    BY <1>6
  <2>2. Rest
    BY <2>1, RestAtIdle DEF FreeNodes, Usable
  <2> QED BY <2>1, <2>2, FreeNodesChanges
<1>7. CASE AddListStep \/ ExtractStep \/ MergeStep \/ RemoveStep
  BY <1>7, AddListStepChanges, ExtractStepChanges, MergeStepChanges, RemoveStepChanges
<1>8. ASSUME NEW l \in Lists, NEW src, NEW after, BeginAddNodeList(l, src, after) \/ BeginMerge(l, src, after)
      PROVE  UNCHANGED links
  BY <1>8 DEF BeginAddNodeList, BeginMerge
<1>9. ASSUME NEW l \in Lists, NEW n, NEW max, BeginExtract(l, n, max) PROVE UNCHANGED links
  BY <1>9 DEF BeginExtract
<1>10. ASSUME NEW l \in Lists, NEW n, NEW max, NEW free, BeginRemoveNodes(l, n, max, free) PROVE UNCHANGED links
  BY <1>10 DEF BeginRemoveNodes
<1>11. ASSUME AddListFails \/ Return PROVE UNCHANGED links
  BY <1>11 DEF AddListFails, Return
<1>12. ASSUME NEW n1, NEW n2, SwapNodes(n1, n2) PROVE UNCHANGED links
  BY <1>12 DEF SwapNodes
<1>13. ASSUME NEW n, LockNode(n) \/ UnlockNode(n) \/ FreeNodeData(n) PROVE UNCHANGED links
  BY <1>13 DEF LockNode, UnlockNode, FreeNodeData
<1>14. ASSUME NEW b, FreeData(b) PROVE UNCHANGED links
  BY <1>14 DEF FreeData
<1>15. CASE UNCHANGED vars
  BY <1>1, <1>15 DEF vars, links
<1>16. CASE \E l \in Lists :
              \/ \E after \in Places(l) :
                   \/ AddNode(l, after) \/ AddNodeData(l, after)
                   \/ \E src \in Lists : BeginAddNodeList(l, src, after) \/ BeginMerge(l, src, after)
              \/ \E n \in heap, max \in Counts : BeginExtract(l, n, max)
              \/ \E n \in Places(l), free \in BOOLEAN :
                   \/ RemoveNode(l, n, free)
                   \/ \E max \in Counts : BeginRemoveNodes(l, n, max, free)
              \/ \E p \in Payloads, free \in BOOLEAN : RemoveTaggedNode(l, p, free)
              \/ ReverseList(l) \/ FreeNodes(l)
  BY <1>1, <1>2, <1>3, <1>4, <1>5, <1>6, <1>8, <1>9, <1>10, <1>16, Zenon
<1>17. CASE \/ \E n1, n2 \in heap : SwapNodes(n1, n2)
            \/ \E n \in heap : LockNode(n) \/ UnlockNode(n) \/ FreeNodeData(n)
            \/ \E b \in Blocks : FreeData(b)
  BY <1>1, <1>12, <1>13, <1>14, <1>17
<1> QED BY <1>1, <1>7, <1>11, <1>15, <1>16, <1>17 DEF Next

\* A list that has been merged into another is not used again.
LEMMA SpentStay ==
  ASSUME [Next]_vars
  PROVE  spent \subseteq spent'
<1>1. ASSUME NEW l, NEW after, AddNode(l, after) \/ AddNodeData(l, after) PROVE spent \subseteq spent'
  BY <1>1 DEF AddNode, AddNodeData, NewNode
<1>2. ASSUME NEW l, NEW src, NEW after, BeginAddNodeList(l, src, after) \/ BeginMerge(l, src, after)
      PROVE  spent \subseteq spent'
  BY <1>2 DEF BeginAddNodeList, BeginMerge
<1>3. ASSUME NEW l, NEW n, NEW max, BeginExtract(l, n, max) PROVE spent \subseteq spent'
  BY <1>3 DEF BeginExtract
<1>4. ASSUME NEW l, NEW n, NEW free, RemoveNode(l, n, free) PROVE spent \subseteq spent'
  BY <1>4 DEF RemoveNode
<1>5. ASSUME NEW l, NEW n, NEW max, NEW free, BeginRemoveNodes(l, n, max, free) PROVE spent \subseteq spent'
  BY <1>5 DEF BeginRemoveNodes
<1>6. ASSUME NEW l, NEW p, NEW free, RemoveTaggedNode(l, p, free) PROVE spent \subseteq spent'
  BY <1>6 DEF RemoveTaggedNode
<1>7. ASSUME NEW l, ReverseList(l) \/ FreeNodes(l) PROVE spent \subseteq spent'
  BY <1>7 DEF ReverseList, FreeNodes
<1>8. ASSUME AddListStep \/ AddListFails \/ ExtractStep \/ MergeStep \/ RemoveStep \/ Return
      PROVE  spent \subseteq spent'
  BY <1>8 DEF AddListStep, AddListFails, ExtractStep, MergeStep, RemoveStep, Return, NewNode
<1>9. ASSUME NEW n1, NEW n2, SwapNodes(n1, n2) PROVE spent \subseteq spent'
  BY <1>9 DEF SwapNodes
<1>10. ASSUME NEW n, LockNode(n) \/ UnlockNode(n) \/ FreeNodeData(n) PROVE spent \subseteq spent'
  BY <1>10 DEF LockNode, UnlockNode, FreeNodeData
<1>11. ASSUME NEW b, FreeData(b) PROVE spent \subseteq spent'
  BY <1>11 DEF FreeData
<1>12. CASE UNCHANGED vars
  BY <1>12 DEF vars
<1>13. CASE Next
  BY <1>1, <1>2, <1>3, <1>4, <1>5, <1>6, <1>7, <1>8, <1>9, <1>10, <1>11, <1>13, Zenon DEF Next
<1> QED BY <1>12, <1>13

\* The new node stands right behind the one the caller named.
LEMMA AddedHolds ==
  ASSUME Rest, NEW l \in Lists
  PROVE  Added(l)
<1> SUFFICES ASSUME NEW after \in Places(l), AddNode(l, after) \/ AddNodeData(l, after)
             PROVE  \E n \in heap' \ heap : Chain(l)' = InsertAt(Chain(l), Behind(l, after) + 1, n)
  BY DEF Added
<1>1. PICK n \in Nodes : l \in Live /\ heap' = heap \cup {n} /\ n \notin heap /\ NewNodeOutcome(n, l, after)
  BY AddNodeInserts
<1>2. PICK i \in 0 .. Len(Chain(l)) :
        /\ Chain(l)' = With(Chain(l), i, n)
        /\ Anchor(l, after) = IF i = 0 THEN Null ELSE Chain(l)[i]
        /\ after = LastNode => i = Len(Chain(l))
        /\ after = Null => i = 0
        /\ after \in Nodes => i > 0 /\ Chain(l)[i] = after
  BY <1>1 DEF NewNodeOutcome
<1>3. /\ Chain(l) \in Seq(Nodes) /\ Len(Chain(l)) \in Nat
      /\ \A k \in 1 .. Len(Chain(l)) : Chain(l)[k] # Null
      /\ ShapeInv
  BY <1>1, ListFacts DEF Rest
<1>4. Behind(l, after) = i
  <2>1. CASE i = 0
    BY <1>2, <2>1 DEF Behind
  <2>2. CASE i # 0
    <3>1. i \in 1 .. Len(Chain(l)) /\ Anchor(l, after) # Null
      BY <1>2, <1>3, <2>2
    <3>2. CASE after = LastNode
      BY <1>2, <3>1, <3>2 DEF Behind
    <3>3. CASE after # LastNode
      <4>1. after \in Nodes
        BY <1>1, <1>2, <1>3, <2>2, <3>3, MemberFacts DEF Places
      <4>2. Position(l, after) = i
        BY <1>1, <1>2, <1>3, <3>1, <4>1, PositionIs
      <4> QED BY <3>1, <3>3, <4>2 DEF Behind
    <3> QED BY <3>2, <3>3
  <2> QED BY <2>1, <2>2
<1>5. InsertAt(Chain(l), i + 1, n) = With(Chain(l), i, n)
  BY <1>3, InsertedIs
<1>6. n \in heap' \ heap
  BY <1>1
<1> QED BY <1>2, <1>4, <1>5, <1>6

\* The node that is named is the one that leaves.
LEMMA RemovedHolds ==
  ASSUME Rest, NEW l \in Lists
  PROVE  Removed(l)
<1> SUFFICES ASSUME NEW n \in Places(l), NEW free \in BOOLEAN, RemoveNode(l, n, free)
             PROVE  \E i \in DOMAIN Chain(l) : Chain(l)[i] = Named(l, n) /\ Chain(l)' = RemoveAt(Chain(l), i)
  BY DEF Removed
<1>1. PICK p \in 1 .. Len(Chain(l)) :
        Chain(l)[p] = Named(l, n) /\ Chain(l)' = Without(Chain(l), p) /\ Chain(l) \in Seq(Nodes)
  BY RemoveNodeRemoves
<1>2. RemoveAt(Chain(l), p) = Without(Chain(l), p) /\ DOMAIN Chain(l) = 1 .. Len(Chain(l))
  BY <1>1, RemovedIs, SeqFacts
<1> QED BY <1>1, <1>2

\* A reversal that leaves the pointers as they are has found one node.
LEMMA ReversalOfOne ==
  ASSUME Rest, NEW l \in Lists, ReverseList(l), next' = next
  PROVE  Chain(l)' = Chain(l)
<1> DEFINE c == Chain(l)
           r == Chain(l)'
<1>1. l \in Live /\ c # <<>> /\ spent' = spent
  BY DEF ReverseList, Usable, Live
<1>2. Rest' /\ r = Reversed(c)
  BY ReverseListKeeps
<1>3. c \in Seq(Nodes) /\ Len(c) \in Nat /\ Good(c, first[l], last[l], count[l], next, prev)
      /\ \A i \in 1 .. Len(c) : c[i] # Null
  BY <1>1, ListFacts DEF Rest
<1>4. Good(r, first'[l], last'[l], count'[l], next', prev')
  <2>1. l \in Live' /\ ShapeInv'
    BY <1>1, <1>2 DEF Live, Rest
  <2> QED BY <2>1 DEF ShapeInv, ListInv
<1> HIDE DEF c, r
<1>5. /\ Len(r) = Len(c)
      /\ \A i \in 1 .. Len(c) : Len(c) - i + 1 \in 1 .. Len(c) /\ r[i] = c[Len(c) - i + 1]
  BY <1>2, <1>3, ReversedIs
<1>6. Len(c) # 0
  BY <1>1, <1>3, EmptySeq
<1>7. Len(c) = 1
  <2> SUFFICES ASSUME Len(c) # 1 PROVE FALSE
    OBVIOUS
  <2>1. 1 \in 1 .. Len(c) /\ 2 \in 1 .. Len(c) /\ Len(c) \in 1 .. Len(c) /\ Len(c) - Len(c) + 1 = 1
    <3>1. PICK k \in Nat : k = Len(c)
      BY <1>3
    <3>2. k # 0 /\ k # 1
      BY <1>6, <3>1
    <3>3. 1 \in 1 .. k /\ 2 \in 1 .. k /\ k \in 1 .. k /\ k - k + 1 = 1
      BY <3>2
    <3> QED BY <3>1, <3>3
  <2>2. next[c[1]] = c[2] /\ c[2] # Null
    BY <1>3, <2>1 DEF Good
  <2>3. r[Len(c)] = c[1]
    BY <1>5, <2>1
  <2>4. next'[r[Len(c)]] = Null
    BY <1>4, <1>5, <2>1 DEF Good
  <2> QED BY <2>2, <2>3, <2>4
<1>8. r = c
  <2>1. \A i \in 1 .. Len(c) : r[i] = c[i]
    <3>1. \A i \in 1 .. Len(c) : i = 1 /\ Len(c) - i + 1 = 1
      BY <1>7
    <3> QED BY <1>5, <3>1
  <2>2. r \in Seq(Nodes)
    BY <1>4 DEF Good
  <2> QED BY <1>3, <1>5, <2>1, <2>2, SeqEqual
<1> QED BY <1>8 DEF c, r

\* A reversal reverses; the other steps keep the order.
LEMMA KeptHolds ==
  ASSUME IInv, [Next]_vars, NEW l \in Live
  PROVE  IF Idle /\ heap = heap' THEN Kept(l) ELSE OrderKept(l)
<1>1. CASE ReverseList(l)
  <2>1. Idle /\ heap = heap'
    BY <1>1 DEF ReverseList, Usable
  <2>2. Rest /\ l \in Lists
    BY <2>1, RestAtIdle DEF Live
  <2>3. Chain(l)' = Reversed(Chain(l))
    BY <1>1, <2>2, ReverseListKeeps
  <2>4. Reverse(Chain(l)) = Reversed(Chain(l))
    BY DEF Reverse, Reversed
  <2>5. next' = next => OrderKept(l)
    BY <1>1, <2>2, ReversalOfOne DEF OrderKept
  <2> QED BY <1>1, <2>1, <2>3, <2>4, <2>5 DEF Kept
<1>2. CASE ~ReverseList(l)
  <2>1. ChangesBy(l)
    BY <1>2, StepChanges
  <2>2. OrderKept(l)
    BY <2>1, ChangesKeepOrder DEF IInv
  <2> QED BY <1>2, <2>2 DEF Kept
<1> QED BY <1>1, <1>2

\* What ActsOnSequences says of one step.
SequenceStep ==
  \A l \in Lists \ spent' :
    /\ Idle /\ heap \subseteq heap' /\ heap # heap' => Added(l)
    /\ Idle /\ heap' \subseteq heap /\ heap # heap' => Removed(l)
    /\ IF Idle /\ heap = heap' THEN Kept(l) ELSE OrderKept(l)

\* Every step of the program is one of a sequence.
LEMMA StepsActOnSequences ==
  ASSUME IInv, [Next]_vars
  PROVE  SequenceStep
<1> SUFFICES ASSUME NEW l \in Lists \ spent'
             PROVE  /\ Idle /\ heap \subseteq heap' /\ heap # heap' => Added(l)
                    /\ Idle /\ heap' \subseteq heap /\ heap # heap' => Removed(l)
                    /\ IF Idle /\ heap = heap' THEN Kept(l) ELSE OrderKept(l)
  BY DEF SequenceStep
<1>1. l \in Lists /\ l \in Live
  BY SpentStay DEF Live
<1>2. Idle => Rest
  BY RestAtIdle
<1> QED BY <1>1, <1>2, AddedHolds, RemovedHolds, KeptHolds

\* The lists are sequences: a call that adds puts its node right behind the one
\* that the caller names, listRemoveNode takes out the node it names,
\* listReverse reverses, and no other step of any function changes the order of
\* the nodes that stay, for any number of lists, nodes and calls.
THEOREM ListsAreSequences ==
  ASSUME MergesEnd
  PROVE  Spec => ActsOnSequences
<1>1. IInv /\ [Next]_vars => [SequenceStep]_vars
  BY StepsActOnSequences
<1>2. [][SequenceStep]_vars <=> ActsOnSequences
  BY DEF SequenceStep, ActsOnSequences
<1>3. Spec => []IInv
  BY ListsInvariant
<1>4. Spec => [][Next]_vars
  BY PTL DEF Spec
<1> QED BY <1>1, <1>2, <1>3, <1>4, PTL
=============================================================================
