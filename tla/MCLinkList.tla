----------------------------- MODULE MCLinkList -----------------------------
(***************************************************************************)
(* Two lists over a heap of four nodes, so that two of them can be copied. *)
(* While there is anything a node owns, or has lost, three nodes and one   *)
(* block of the caller's are enough: MCRoom.                               *)
(***************************************************************************)
EXTENDS LinkList, TLC

CONSTANTS n1, n2, n3, n4, p1, p2

MCNodes == {n1, n2, n3, n4}

MCRoom ==
  \/ alive = {} /\ handed = {} /\ \A n \in heap : ~mine[n] /\ payload[n] # Null
  \/ /\ Cardinality(heap) < Cardinality(Nodes)
     /\ Cardinality({payload[n] : n \in heap} \cap Borrowed) <= 1

\* The caller's data, the nodes and the lists are interchangeable.
MCSymmetry ==
  Permutations(MCNodes) \cup Permutations({p1, p2}) \cup Permutations(Lists)
=============================================================================
