------------------------------ MODULE Huffman ------------------------------
(***************************************************************************)
(* encode/lzh.c: the adaptive Huffman tree, which encoder and decoder keep *)
(* in step.  Its nodes lie in a table in the order of their frequency, the *)
(* two children of a node side by side.                                    *)
(***************************************************************************)
EXTENDS Naturals, Sequences, SequencesExt

CONSTANTS LZH_N_CHAR,   \* number of symbols
          MAX_FREQ      \* of the root, when all are halved

HuffmanAssumption ==
  LZH_N_CHAR \in Nat /\ LZH_N_CHAR > 1 /\ MAX_FREQ \in Nat /\ MAX_FREQ > 2 * LZH_N_CHAR

LZH_TABLE_SZ == 2 * LZH_N_CHAR - 1
LZH_ROOT == LZH_TABLE_SZ - 1

Symbols == 0 .. LZH_N_CHAR - 1
Nodes == 0 .. LZH_ROOT
LeafOf(c) == c + LZH_TABLE_SZ          \* a leaf as the child of its node

\* The last is a sentinel, in whose place the root's successor would be.
Above == 65535

ParentsOf(child, old) ==
  [k \in 0 .. LZH_TABLE_SZ + LZH_N_CHAR - 1 |->
     IF \E i \in Nodes : child[i] = k \/ (child[i] < LZH_TABLE_SZ /\ child[i] + 1 = k)
     THEN CHOOSE i \in Nodes : child[i] = k \/ (child[i] < LZH_TABLE_SZ /\ child[i] + 1 = k)
     ELSE old]

lzh_start_huff ==
  LET freq[j \in 0 .. LZH_TABLE_SZ] ==
        IF j < LZH_N_CHAR THEN 1
        ELSE IF j = LZH_TABLE_SZ THEN Above
        ELSE freq[2 * (j - LZH_N_CHAR)] + freq[2 * (j - LZH_N_CHAR) + 1]
      child == [j \in Nodes |-> IF j < LZH_N_CHAR THEN LeafOf(j) ELSE 2 * (j - LZH_N_CHAR)]
  IN [freq |-> freq, child |-> child, parent |-> ParentsOf(child, 0)]

\* Halves the frequencies of the leaves and builds the tree above them anew:
\* the sum of the next pair goes behind the last node not above it.
lzh_reconst(huff) ==
  LET leaves == SelectSeq([i \in 1 .. LZH_TABLE_SZ |-> i - 1],
                          LAMBDA i : huff.child[i] >= LZH_TABLE_SZ)
      halved == [j \in DOMAIN leaves |->
                   [freq |-> (huff.freq[leaves[j]] + 1) \div 2, child |-> huff.child[leaves[j]]]]
      add(row, i) ==
        LET f == row[i].freq + row[i + 1].freq
            k == CHOOSE k \in 0 .. Len(row) :
                   /\ k = 0 \/ row[k].freq <= f
                   /\ \A m \in k + 1 .. Len(row) : f < row[m].freq
        IN InsertAt(row, k + 1, [freq |-> f, child |-> i - 1])
      all == FoldLeft(add, halved, [j \in 1 .. LZH_N_CHAR - 1 |-> 2 * j - 1])
      child == [j \in Nodes |-> all[j + 1].child]
  IN [freq |-> [j \in 0 .. LZH_TABLE_SZ |-> IF j = LZH_TABLE_SZ THEN Above ELSE all[j + 1].freq],
      child |-> child, parent |-> ParentsOf(child, 0)]

Halved(huff) == IF huff.freq[LZH_ROOT] = MAX_FREQ THEN lzh_reconst(huff) ELSE huff

\* What hangs below node i hangs below node j.
Hang(huff, below, j) ==
  [huff EXCEPT !.child[j] = below,
               !.parent = [k \in DOMAIN @ |->
                 IF k = below \/ (below < LZH_TABLE_SZ /\ k = below + 1) THEN j ELSE @[k]]]

\* Mistake: swaps with the next node only.
CountSwapsNext(huff, c) ==
  LET f == huff.freq[c] + 1
      l == IF c < LZH_ROOT /\ huff.freq[c + 1] < f THEN c + 1 ELSE c
      swapped == [huff EXCEPT !.freq[c] = huff.freq[l], !.freq[l] = f]
  IN [node |-> l,
      huff |-> IF l = c THEN [huff EXCEPT !.freq[c] = f]
               ELSE Hang(Hang(swapped, huff.child[c], l), huff.child[l], c)]

\* Counts node c once more, and swaps it with the last node that it overtakes.
Count(huff, c) ==
  LET f == huff.freq[c] + 1
      l == CHOOSE l \in c .. LZH_ROOT : /\ \A m \in c + 1 .. l : huff.freq[m] < f
                                        /\ l = LZH_ROOT \/ huff.freq[l + 1] >= f
      swapped == [huff EXCEPT !.freq[c] = huff.freq[l], !.freq[l] = f]
  IN [node |-> l,
      huff |-> IF l = c THEN [huff EXCEPT !.freq[c] = f]
               ELSE Hang(Hang(swapped, huff.child[c], l), huff.child[l], c)]

\* From the symbol's leaf up to the root, whose parent is 0.
lzh_update(huff, c) ==
  LET count(up, step) ==
        IF step > 1 /\ up.node = 0 THEN up
        ELSE LET counted == Count(up.huff, up.node)
             IN [node |-> counted.huff.parent[counted.node], huff |-> counted.huff]
      start == Halved(huff)
  IN FoldLeft(count, [node |-> start.parent[LeafOf(c)], huff |-> start],
              [step \in 1 .. LZH_TABLE_SZ |-> step]).huff

\* The bits of a symbol: at each node but the root, whether it is the second
\* child, which is the one at an odd place.
CodeOf(huff, c) ==
  LET path[k \in Nodes] == IF k = LZH_ROOT THEN <<>> ELSE Append(path[huff.parent[k]], k % 2)
  IN path[huff.parent[LeafOf(c)]]

-----------------------------------------------------------------------------
(* What the tree must be for its codes to be decoded *)

Children(huff, i) == {huff.child[i], huff.child[i] + 1}

\* Every node but the root is a child once and knows its parent; nodes are in
\* the order of their frequencies, and a frequency is the sum of those below.
WellFormed(huff) ==
  /\ \A i \in Nodes : i < LZH_ROOT => huff.freq[i] <= huff.freq[i + 1]
  /\ huff.freq[LZH_ROOT] <= MAX_FREQ
  /\ huff.parent[LZH_ROOT] = 0
  /\ \A i \in Nodes :
       IF huff.child[i] >= LZH_TABLE_SZ THEN huff.parent[huff.child[i]] = i
       ELSE /\ \A k \in Children(huff, i) : k < i /\ huff.parent[k] = i
            /\ huff.freq[i] = huff.freq[huff.child[i]] + huff.freq[huff.child[i] + 1]
  /\ \A c \in Symbols : huff.child[huff.parent[LeafOf(c)]] = LeafOf(c)
  /\ \A i \in 0 .. LZH_ROOT - 1 : i \in Children(huff, huff.parent[i])
=============================================================================
