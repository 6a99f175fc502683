------------------------------ MODULE LinkList ------------------------------
(***************************************************************************)
(* link_list.c, pointer by pointer: nodes in a heap, linked both ways,     *)
(* between the first and the last node of one of several lists.  One       *)
(* caller at a time, as under a list's mutex (MsgQueue is about callers    *)
(* that interleave).  A function that loops over nodes takes one step for  *)
(* each turn of its loop; nothing else runs in between.                    *)
(***************************************************************************)
EXTENDS Naturals, FiniteSets, SequencesExt

CONSTANTS
  Nodes,      \* memory for list nodes
  Lists,
  Borrowed,   \* data of the caller, which the lists only point to
  Blocks,     \* memory for data from listAllocData
  Null,       \* NULL, and so FIRST_NODE
  LastNode,   \* LAST_NODE
  MergeLimit, \* the longest list that callers merge into another ...
  MergeInside \* ... and whether at any place or only at the end

ASSUME ListConstants ==
  /\ IsFiniteSet(Nodes) /\ IsFiniteSet(Lists) /\ IsFiniteSet(Blocks)
  /\ Null \notin Nodes \cup Borrowed \cup Blocks
  /\ LastNode \notin Nodes \cup {Null}
  /\ Borrowed \cap Blocks = {}
  /\ MergeLimit \in Nat /\ MergeInside \in BOOLEAN

Payloads == Borrowed \cup Blocks

VARIABLES
  heap,      \* the nodes that are allocated
  next, prev, owner,  \* node->next, node->prev, node->list
  payload,   \* node->data, with the node's tag: they always go together
  mine,      \* node->flags & LINK_LIST_MALLOC
  locked,    \* node->flags & LINK_LIST_LOCKED
  first, last, count, \* of each list
  spent,     \* lists that have been merged into another, not to be used again
  alive,     \* the data blocks that are allocated
  handed,    \* those of them that a removal has returned to the caller
  loop       \* the function under way and its local variables

vars == <<heap, next, prev, owner, payload, mine, locked, first, last, count, spent,
          alive, handed, loop>>

links == <<next, prev, owner, first, last, count>>
contents == <<payload, mine, locked>>
data == <<alive, handed>>

NoLoop == [kind |-> "none"]
Idle == loop = NoLoop

Init ==
  /\ heap = {}
  /\ next = [n \in Nodes |-> Null]
  /\ prev = [n \in Nodes |-> Null]
  /\ owner = [n \in Nodes |-> Null]
  /\ payload = [n \in Nodes |-> Null]
  /\ mine = [n \in Nodes |-> FALSE]
  /\ locked = [n \in Nodes |-> FALSE]
  /\ first = [l \in Lists |-> Null]
  /\ last = [l \in Lists |-> Null]
  /\ count = [l \in Lists |-> 0]
  /\ spent = {}
  /\ alive = {}
  /\ handed = {}
  /\ loop = NoLoop
-----------------------------------------------------------------------------
\* Where node = node->next has come after i - 1 turns, with nx for the pointers.
Visited(nx, from) ==
  LET at[i \in Nat] ==
        IF i <= 1 THEN from ELSE LET node == at[i - 1] IN IF node = Null THEN Null ELSE nx[node]
  IN  at

\* The nodes that it meets, up to one more than there are: a list that is not
\* circular ends before.
ChainIn(nx, from) ==
  LET at == Visited(nx, from)
      length == Cardinality({i \in 1..(Cardinality(Nodes) + 1) : at[i] # Null})
  IN  [i \in 1..length |-> at[i]]

ChainFrom(from) == ChainIn(next, from)
Chain(l) == ChainFrom(first[l])
Members(l) == ToSet(Chain(l))

Position(l, n) == CHOOSE i \in 1..Len(Chain(l)) : Chain(l)[i] = n

\* What callers may name as the place of a node: a node of the list, or one of
\* the special values.
Places(l) == Members(l) \cup {Null, LastNode}

Usable(l) == Idle /\ l \notin spent
-----------------------------------------------------------------------------
\* Mistake: LAST_NODE is looked up in the wrong member.
AnchorAtFirst(l, after) == IF after = LastNode THEN first[l] ELSE after

\* if (after == LAST_NODE) after = list->last;
Anchor(l, after) == IF after = LastNode THEN last[l] ELSE after

\* list_add_node, in the order of its assignments; nx holds the next pointers
\* it finds: a node that is new has none.
LinkNode(n, l, after, nx) ==
  LET a == Anchor(l, after)
      successor == IF a = Null THEN first[l] ELSE nx[a]
      prev1 == [prev EXCEPT ![n] = a]
      next1 == IF a = Null \/ successor # Null THEN [nx EXCEPT ![n] = successor] ELSE nx
  IN
  /\ owner' = [owner EXCEPT ![n] = l]
  /\ prev' = IF successor # Null THEN [prev1 EXCEPT ![successor] = n] ELSE prev1
  /\ next' = IF a = Null THEN next1 ELSE [next1 EXCEPT ![a] = n]
  /\ first' = IF a = Null THEN [first EXCEPT ![l] = n] ELSE first
  /\ last' = IF a = last[l] THEN [last EXCEPT ![l] = n] ELSE last
  /\ count' = [count EXCEPT ![l] = @ + 1]

\* listAddNodeWithFlags with a node that malloc provides.
NewNode(n, l, p, owned, lock, after) ==
  /\ n \in Nodes \ heap
  /\ heap' = heap \cup {n}
  /\ payload' = [payload EXCEPT ![n] = p]
  /\ mine' = [mine EXCEPT ![n] = owned]
  /\ locked' = [locked EXCEPT ![n] = lock]
  /\ LinkNode(n, l, after, [next EXCEPT ![n] = Null])
  /\ UNCHANGED spent

\* listAddNode: the data stay the caller's.
AddNode(l, after) ==
  /\ Usable(l)
  /\ \E n \in Nodes, p \in Borrowed : NewNode(n, l, p, FALSE, FALSE, after)
  /\ UNCHANGED <<data, loop>>

\* listAddNodeData and listAddNodeString: the node owns a copy.
AddNodeData(l, after) ==
  /\ Usable(l)
  /\ \E n \in Nodes, b \in Blocks \ alive :
       /\ NewNode(n, l, b, TRUE, FALSE, after)
       /\ alive' = alive \cup {b}
  /\ UNCHANGED <<handed, loop>>
-----------------------------------------------------------------------------
\* A loop over the nodes of a source: "source" and "before" are what the nodes
\* and the length of the list were when it began, and "added" has the turns of
\* listExtract that found memory.
Begin(kind, l, from, after, max, free) ==
  loop' = [kind |-> kind, list |-> l, at |-> from, node |-> Null, after |-> after,
           max |-> max, free |-> free, count |-> 0, stopped |-> FALSE, added |-> <<>>,
           source |-> IF kind = "remove" THEN <<>> ELSE ChainFrom(from),
           before |-> IF kind = "remove" THEN count[l] ELSE 0]

Looping(kind) ==
  /\ loop.kind = kind
  /\ ~loop.stopped
  /\ loop.at # Null
  /\ loop.count < loop.max

Ended == ~Idle /\ (loop.stopped \/ loop.at = Null \/ loop.count >= loop.max)

Return ==
  /\ Ended
  /\ loop' = NoLoop
  /\ UNCHANGED <<heap, links, contents, data, spent>>

NoMax == 2 * Cardinality(Nodes)

\* Mistake: listAddNodeList passes on its own argument for every node.
AfterGivenNode == loop.after

\* node == NULL ? after : node
AfterPrevious == IF loop.node = Null THEN loop.after ELSE loop.node

\* listAddNodeList copies the nodes, flags included.  A list cannot be added to
\* itself, and data that a node of the source owns would have two owners.
BeginAddNodeList(l, src, after) ==
  /\ Usable(l) /\ Usable(src)
  /\ l # src
  /\ \A n \in Members(src) : ~mine[n]
  /\ Begin("add", l, first[src], after, NoMax, FALSE)
  /\ UNCHANGED <<heap, links, contents, data, spent>>

AddListStep ==
  /\ Looping("add")
  /\ \E n \in Nodes :
       /\ NewNode(n, loop.list, payload[loop.at], mine[loop.at], locked[loop.at], AfterPrevious)
       /\ loop' = [loop EXCEPT !.node = n, !.at = next[loop.at], !.count = @ + 1]
  /\ UNCHANGED data

\* malloc fails in one of the turns: the nodes added so far stay.
AddListFails ==
  /\ Looping("add")
  /\ loop' = [loop EXCEPT !.stopped = TRUE]
  /\ UNCHANGED <<heap, links, contents, data, spent>>

\* listExtract: the destination is initialised, whatever it was, and points to
\* the same data.
BeginExtract(l, n, max) ==
  /\ Usable(l) /\ Usable(owner[n])
  /\ first[l] = Null
  /\ Begin("extract", l, n, LastNode, max, FALSE)
  /\ UNCHANGED <<heap, links, contents, data, spent>>

\* listAddNode may fail in any turn.  The turn does not look at what it returns:
\* the node is left out, and the next turn tries its own.
ExtractStep ==
  /\ Looping("extract")
  /\ \/ \E n \in Nodes :
          /\ NewNode(n, loop.list, payload[loop.at], FALSE, FALSE, last[loop.list])
          /\ loop' = [loop EXCEPT !.node = n, !.at = next[loop.at], !.count = @ + 1,
                                  !.added = Append(@, loop.count + 1)]
     \/ /\ loop' = [loop EXCEPT !.at = next[@], !.count = @ + 1]
        /\ UNCHANGED <<heap, links, contents, spent>>
  /\ UNCHANGED data

\* listMerge links the source's own nodes into the destination; where it goes
\* on from is read after that.  Afterwards the source "should not be modified
\* or freed".
BeginMerge(l, src, after) ==
  /\ Usable(l) /\ Usable(src)
  /\ l # src
  /\ Len(Chain(src)) <= MergeLimit
  /\ MergeInside \/ (Anchor(l, after) = last[l] /\ (after = Null => Members(l) = {}))
  /\ Begin("merge", l, first[src], after, NoMax, FALSE)
  /\ spent' = spent \cup {src}
  /\ UNCHANGED <<heap, links, contents, data>>

MergeStep ==
  /\ Looping("merge")
  /\ LinkNode(loop.at, loop.list, AfterPrevious, next)
  /\ loop' = [loop EXCEPT !.node = loop.at, !.at = next'[loop.at], !.count = @ + 1]
  /\ UNCHANGED <<heap, contents, data, spent>>
-----------------------------------------------------------------------------
Named(l, n) == IF n = Null THEN first[l] ELSE IF n = LastNode THEN last[l] ELSE n

\* A node that free() takes back; what it held is forgotten.
Forget(freed) ==
  /\ heap' = heap \ freed
  /\ owner' = [n \in Nodes |-> IF n \in freed THEN Null ELSE owner[n]]
  /\ payload' = [n \in Nodes |-> IF n \in freed THEN Null ELSE payload[n]]
  /\ mine' = [n \in Nodes |-> n \notin freed /\ mine[n]]
  /\ locked' = [n \in Nodes |-> n \notin freed /\ locked[n]]

\* Mistake: a removal at the end of the list leaves list->last behind.
UnlinkButLast(l, n, free) ==
  /\ next' = [m \in Nodes |-> IF m = n THEN Null ELSE IF m = prev[n] THEN next[n] ELSE next[m]]
  /\ prev' = [m \in Nodes |-> IF m = n THEN Null ELSE IF m = next[n] THEN prev[n] ELSE prev[m]]
  /\ first' = IF first[l] = n THEN [first EXCEPT ![l] = next[n]] ELSE first
  /\ UNCHANGED last
  /\ count' = [count EXCEPT ![l] = IF @ > 0 THEN @ - 1 ELSE @]
  /\ Forget({n})
  /\ IF free
     THEN /\ alive' = alive \ {payload[n]}
          /\ UNCHANGED handed
     ELSE /\ handed' = IF mine[n] /\ payload[n] # Null THEN handed \cup {payload[n]} ELSE handed
          /\ UNCHANGED alive

\* The node leaves the list and the heap; its data are freed or returned.
Unlink(l, n, free) ==
  /\ next' = [m \in Nodes |-> IF m = n THEN Null ELSE IF m = prev[n] THEN next[n] ELSE next[m]]
  /\ prev' = [m \in Nodes |-> IF m = n THEN Null ELSE IF m = next[n] THEN prev[n] ELSE prev[m]]
  /\ first' = IF first[l] = n THEN [first EXCEPT ![l] = next[n]] ELSE first
  /\ last' = IF last[l] = n THEN [last EXCEPT ![l] = prev[n]] ELSE last
  /\ count' = [count EXCEPT ![l] = IF @ > 0 THEN @ - 1 ELSE @]
  /\ Forget({n})
  /\ IF free
     THEN /\ alive' = alive \ {payload[n]}
          /\ UNCHANGED handed
     ELSE /\ handed' = IF mine[n] /\ payload[n] # Null THEN handed \cup {payload[n]} ELSE handed
          /\ UNCHANGED alive

\* Callers have data freed only where a node owns them.
MayFreeData(n, free) == free => mine[n]

\* listRemoveNode.
RemoveNode(l, n, free) ==
  /\ Usable(l)
  /\ Named(l, n) # Null
  /\ MayFreeData(Named(l, n), free)
  /\ ~locked[Named(l, n)]
  /\ Unlink(l, Named(l, n), free)
  /\ UNCHANGED <<spent, loop>>

\* listRemoveTaggedNode: the first node with the tag, locked or not.
RemoveTaggedNode(l, p, free) ==
  /\ Usable(l)
  /\ \E i \in 1..Len(Chain(l)) :
       LET n == Chain(l)[i] IN
       /\ payload[n] = p
       /\ \A j \in 1..(i - 1) : payload[Chain(l)[j]] # p
       /\ MayFreeData(n, free)
       /\ ~locked[n]
       /\ Unlink(l, n, free)
  /\ UNCHANGED <<spent, loop>>

BeginRemoveNodes(l, n, max, free) ==
  /\ Usable(l)
  /\ free => \A m \in Members(l) : mine[m]
  /\ Begin("remove", l, Named(l, n), Null, max, free)
  /\ UNCHANGED <<heap, links, contents, data, spent>>

\* listRemoveNodes stops when a removal returns NULL: a locked node is still
\* there then, and a node without data, or whose data have been freed, is not.
RemoveStep ==
  LET n == loop.at
      returned == IF loop.free \/ locked[n] THEN Null ELSE payload[n]
  IN
  /\ Looping("remove")
  /\ IF locked[n]
     THEN UNCHANGED <<heap, links, contents, data>>
     ELSE Unlink(loop.list, n, loop.free)
  /\ loop' = IF returned = Null THEN [loop EXCEPT !.stopped = TRUE]
             ELSE [loop EXCEPT !.at = next[n], !.count = @ + 1]
  /\ UNCHANGED spent
-----------------------------------------------------------------------------
Exchanged(f, n1, n2) == [f EXCEPT ![n1] = f[n2], ![n2] = f[n1]]

\* Mistake: the flags stay where they are.
ExchangeDataOnly(n1, n2) ==
  /\ payload' = Exchanged(payload, n1, n2)
  /\ UNCHANGED <<mine, locked>>

ExchangeContents(n1, n2) ==
  /\ payload' = Exchanged(payload, n1, n2)
  /\ mine' = Exchanged(mine, n1, n2)
  /\ locked' = Exchanged(locked, n1, n2)

\* listSwapNodes, maybe of two lists.
SwapNodes(n1, n2) ==
  /\ Idle
  /\ n1 # n2
  /\ ~locked[n1] /\ ~locked[n2]
  /\ owner[n1] # Null /\ owner[n2] # Null
  /\ ExchangeContents(n1, n2)
  /\ UNCHANGED <<heap, links, data, spent, loop>>

\* listReverse turns the next pointers round and has list_update_prev set the
\* others again.
ReverseList(l) ==
  LET c == Chain(l)
      at(i) == IF i \in 1..Len(c) THEN c[i] ELSE Null
  IN
  /\ Usable(l)
  /\ c # <<>>
  /\ next' = [n \in Nodes |-> IF n \in ToSet(c) THEN at(Position(l, n) - 1) ELSE next[n]]
  /\ prev' = [n \in Nodes |-> IF n \in ToSet(c) THEN at(Position(l, n) + 1) ELSE prev[n]]
  /\ last' = [last EXCEPT ![l] = first[l]]
  /\ first' = [first EXCEPT ![l] = at(Len(c))]
  /\ UNCHANGED <<heap, owner, count, contents, data, spent, loop>>

\* listFreeNodes frees the nodes in front of the first that is locked, and would
\* leave that one with a prev pointer to memory that is gone.  So callers free
\* all of a list or nothing: no node of it is locked.
FreeNodes(l) ==
  LET all == Members(l) IN
  /\ Usable(l)
  /\ all # {}
  /\ \A n \in all : ~locked[n]
  /\ next' = [n \in Nodes |-> IF n \in all THEN Null ELSE next[n]]
  /\ prev' = [n \in Nodes |-> IF n \in all THEN Null ELSE prev[n]]
  /\ first' = [first EXCEPT ![l] = Null]
  /\ last' = [last EXCEPT ![l] = Null]
  /\ count' = [count EXCEPT ![l] = 0]
  /\ alive' = alive \ {payload[n] : n \in {m \in all : mine[m]}}
  /\ Forget(all)
  /\ UNCHANGED <<handed, spent, loop>>

LockNode(n) ==
  /\ Idle
  /\ n \in heap
  /\ ~locked[n]
  /\ locked' = [locked EXCEPT ![n] = TRUE]
  /\ UNCHANGED <<heap, links, payload, mine, data, spent, loop>>

UnlockNode(n) ==
  /\ Idle
  /\ n \in heap
  /\ locked[n]
  /\ locked' = [locked EXCEPT ![n] = FALSE]
  /\ UNCHANGED <<heap, links, payload, mine, data, spent, loop>>

FreeNodeData(n) ==
  /\ Idle
  /\ n \in heap
  /\ payload[n] # Null
  /\ ~locked[n]
  /\ MayFreeData(n, TRUE)
  /\ alive' = alive \ {payload[n]}
  /\ payload' = [payload EXCEPT ![n] = Null]
  /\ UNCHANGED <<heap, links, mine, locked, handed, spent, loop>>

\* The caller releases what a removal returned to it.
FreeData(b) ==
  /\ Idle
  /\ b \in handed
  /\ alive' = alive \ {b}
  /\ handed' = handed \ {b}
  /\ UNCHANGED <<heap, links, contents, spent, loop>>
-----------------------------------------------------------------------------
Counts == 1..Cardinality(Nodes)

Next ==
  \/ \E l \in Lists :
       \/ \E after \in Places(l) :
            \/ AddNode(l, after) \/ AddNodeData(l, after)
            \/ \E src \in Lists : BeginAddNodeList(l, src, after) \/ BeginMerge(l, src, after)
       \/ \E n \in heap, max \in Counts : BeginExtract(l, n, max)
       \/ \E n \in Places(l), free \in BOOLEAN :
            \/ RemoveNode(l, n, free)
            \/ \E max \in Counts : BeginRemoveNodes(l, n, max, free)
       \/ \E p \in Payloads, free \in BOOLEAN : RemoveTaggedNode(l, p, free)
       \/ ReverseList(l) \/ FreeNodes(l)
  \/ AddListStep \/ AddListFails \/ ExtractStep \/ MergeStep \/ RemoveStep \/ Return
  \/ \E n1, n2 \in heap : SwapNodes(n1, n2)
  \/ \E n \in heap : LockNode(n) \/ UnlockNode(n) \/ FreeNodeData(n)
  \/ \E b \in Blocks : FreeData(b)

Spec == Init /\ [][Next]_vars
-----------------------------------------------------------------------------
\* The type of the state: counts do not fall below zero, links and owners name
\* nodes and lists, and what a removal has returned has not been freed.
TypeOK ==
  /\ heap \subseteq Nodes
  /\ next \in [Nodes -> Nodes \cup {Null}]
  /\ prev \in [Nodes -> Nodes \cup {Null}]
  /\ owner \in [Nodes -> Lists \cup {Null}]
  /\ payload \in [Nodes -> Payloads \cup {Null}]
  /\ mine \in [Nodes -> BOOLEAN]
  /\ locked \in [Nodes -> BOOLEAN]
  /\ first \in [Lists -> Nodes \cup {Null}]
  /\ last \in [Lists -> Nodes \cup {Null}]
  /\ count \in [Lists -> Nat]
  /\ spent \subseteq Lists
  /\ alive \subseteq Blocks
  /\ handed \subseteq alive

\* listVerify of every list returns its number of nodes, and the nodes of the
\* lists are all the nodes there are, whichever operations come in whichever
\* order, also in between the turns of a loop.
Verified(l) ==
  LET c == Chain(l) IN
  /\ \A i \in 1..Len(c) :
       /\ owner[c[i]] = l
       /\ prev[c[i]] = IF i = 1 THEN Null ELSE c[i - 1]
  /\ last[l] = IF c = <<>> THEN Null ELSE c[Len(c)]
  /\ count[l] = Len(c)

StructureOK ==
  /\ TypeOK
  /\ \A l \in Lists \ spent : Verified(l)
  /\ loop.kind # "merge" => heap = UNION {Members(l) : l \in Lists \ spent}

\* The lists are sequences: a node is added right behind the one the caller
\* names, a removal takes out the node it names, a reversal reverses, and no
\* other step changes the order of the nodes that stay.
Behind(l, after) ==
  IF Anchor(l, after) = Null THEN 0
  ELSE IF after = LastNode THEN Len(Chain(l)) ELSE Position(l, after)

\* The elements that both sequences have come in the same order in both.
InOrder(before, after) ==
  \A i \in DOMAIN before, p \in DOMAIN after : before[i] = after[p] =>
    \A j \in DOMAIN before, q \in DOMAIN after : before[j] = after[q] /\ i < j => p < q

OrderKept(l) ==
  LET before == Chain(l)
      after == Chain(l)'
  IN  before # after => InOrder(before, after)

Added(l) ==
  \A after \in Places(l) :
    AddNode(l, after) \/ AddNodeData(l, after) =>
      \E n \in heap' \ heap : Chain(l)' = InsertAt(Chain(l), Behind(l, after) + 1, n)

Removed(l) ==
  \A n \in Places(l), free \in BOOLEAN :
    RemoveNode(l, n, free) =>
      \E i \in DOMAIN Chain(l) : Chain(l)[i] = Named(l, n) /\ Chain(l)' = RemoveAt(Chain(l), i)

Kept(l) == IF next' # next /\ ReverseList(l) THEN Chain(l)' = Reverse(Chain(l)) ELSE OrderKept(l)

ActsOnSequences ==
  [][\A l \in Lists \ spent' :
       /\ Idle /\ heap \subseteq heap' /\ heap # heap' => Added(l)
       /\ Idle /\ heap' \subseteq heap /\ heap # heap' => Removed(l)
       /\ IF Idle /\ heap = heap' THEN Kept(l) ELSE OrderKept(l)]_vars

\* What listAddNodeList has added so far is the beginning of the source, in its
\* order and in one piece, behind the node the caller named.
Prefixed ==
  LET c == Chain(loop.list)
      k == Position(loop.list, loop.node)
      n == k - loop.count
  IN
  /\ n >= 0
  /\ \A i \in 1..loop.count : payload[c[n + i]] = payload[loop.source[i]]
  /\ loop.after = Null => n = 0
  /\ loop.after = LastNode => k = Len(c)
  /\ loop.after \in Nodes => n > 0 /\ c[n] = loop.after

\* listExtract, which goes on after a failure, has a copy of each node of the
\* source that its turns so far found memory for, in the order of the source:
\* whichever additions fail, nothing else is missing and nothing comes twice.
Extracted ==
  LET c == Chain(loop.list) IN
  /\ Len(c) = Len(loop.added)
  /\ \A i \in 1..Len(c) : payload[c[i]] = payload[loop.source[loop.added[i]]]

\* Copies of lists, complete or not, keep the order of what they copy, in every
\* turn of listAddNodeList and listExtract and whichever allocations fail.
CopiedInOrder ==
  /\ loop.kind = "add" /\ loop.node # Null => Prefixed
  /\ loop.kind = "extract" => Extracted

\* Data that the lists have allocated have one owner, a node or the caller they
\* were returned to: nothing is freed twice and nothing is forgotten.
Owners(b) == {n \in heap : mine[n] /\ payload[n] = b}

OwnedDataOnce ==
  \A b \in Blocks :
    Cardinality(Owners(b)) + (IF b \in handed THEN 1 ELSE 0) = IF b \in alive THEN 1 ELSE 0
=============================================================================
