--------------------------- MODULE MsgQueueProofs ---------------------------
(***************************************************************************)
(* For any number of threads and any number of messages: no message of a   *)
(* queue is left without a token, the thread that frees a queue is alone   *)
(* with it, and messages cross the queue in the order of their writing.    *)
(* Where the clients let nobody else read while they peek or search, no    *)
(* node pointer is followed after its node has been removed, and every     *)
(* message is in one place: in a list, or with the thread that took it.    *)
(***************************************************************************)
EXTENDS MsgQueue, FiniteSetTheorems, SequenceTheorems, TLAPS

\* Unlinking a node leaves a list of messages that has not grown.
LEMMA WithoutIsShorter ==
  ASSUME NEW S, NEW s \in Seq(S), NEW m
  PROVE  Without(s, m) \in Seq(S) /\ Len(Without(s, m)) <= Len(s)
<1>1. CASE \E i \in 1..Len(s) : s[i] = m
  <2> DEFINE i == CHOOSE j \in 1..Len(s) : s[j] = m
             r == [j \in 1..(Len(s) - 1) |-> IF j < i THEN s[j] ELSE s[j + 1]]
  <2>1. Without(s, m) = r
    BY <1>1 DEF Without
  <2>2. Len(s) \in Nat /\ Len(s) - 1 \in Nat
    BY <1>1
  <2>3. \A j \in 1..(Len(s) - 1) : r[j] \in S
    BY <2>2
  <2> HIDE DEF i
  <2>4. r \in [1..(Len(s) - 1) -> S]
    BY <2>3
  <2>5. r \in Seq(S) /\ Len(r) = Len(s) - 1
    BY <2>2, <2>4
  <2>6. QED
    BY <2>1, <2>2, <2>5
<1>2. CASE ~\E i \in 1..Len(s) : s[i] = m
  BY <1>2 DEF Without
<1>3. QED
  BY <1>1, <1>2
-----------------------------------------------------------------------------
LEMMA InvInit == Init => IInv
<1> SUFFICES ASSUME Init PROVE IInv
  OBVIOUS
<1> USE QueueConstants DEF Init
<1>1. TypeOK
  <2>1. /\ bidir \in BOOLEAN /\ orphan \in BOOLEAN /\ freed \in BOOLEAN
        /\ forever \in [Threads -> BOOLEAN]
        /\ took \in [Threads -> BOOLEAN]
    BY Zenon
  <2>2. /\ list \in [Lists -> Seq(Messages)]
        /\ tokens \in [Lists -> Nat]
        /\ refs \in Nat
        /\ attached \subseteq Threads
        /\ written \in Seq(Messages)
        /\ got \in [Threads -> Seq(Messages)]
        /\ found \in [Threads -> SUBSET Messages]
    OBVIOUS
  <2>3. /\ pc \in [Threads -> Places]
        /\ call \in [Threads -> WaitCalls \cup {"none"}]
        /\ node \in [Threads -> Messages \cup {NoMessage}]
    BY DEF Places
  <2>4. QED
    BY <2>1, <2>2, <2>3 DEF TypeOK
<1>2. RefInv
  <2>1. Dropping = {} /\ attached = {Owner}
    BY DEF Dropping
  <2>2. Cardinality(attached) = 1 /\ Cardinality(Dropping) = 0
    BY <2>1, FS_Singleton, FS_EmptySet
  <2>3. QED
    BY <2>2 DEF RefInv
<1>3. FreeInv /\ CallInv /\ ScanInv /\ PointersLive
  BY DEF FreeInv, Freeing, CallInv, ScanInv, Scanning, PointersLive
<1>4. MessagesHaveTokens
  <2> SUFFICES ASSUME NEW l \in Lists
               PROVE  Len(list[l]) <= tokens[l] + Cardinality(Posting(l)) + Cardinality(Holding(l))
    BY DEF MessagesHaveTokens
  <2>1. Posting(l) = {} /\ Holding(l) = {}
    BY DEF Posting, Holding
  <2>2. Cardinality(Posting(l)) = 0 /\ Cardinality(Holding(l)) = 0
    BY <2>1, FS_EmptySet
  <2>3. QED
    BY <2>2
<1>5. QED
  BY <1>1, <1>2, <1>3, <1>4 DEF IInv
-----------------------------------------------------------------------------
LEMMA ListChoice == \A t \in Threads : ReadList(t) \in Lists /\ WriteList(t) \in Lists
BY DEF ReadList, WriteList, Lists

\* What is Boolean in the state, which one prover is better at than the other.
Flags ==
  /\ bidir \in BOOLEAN /\ orphan \in BOOLEAN /\ freed \in BOOLEAN
  /\ forever \in [Threads -> BOOLEAN]
  /\ took \in [Threads -> BOOLEAN]

\* Where a wait may end.
LEMMA WaitEnds ==
  ASSUME TypeOK, CallInv, NEW t \in Threads, pc[t] = "waiting", NEW success \in BOOLEAN
  PROVE  AfterWait(t, success) \in {"shifting", "restoring", "first", "idle"}
<1>1. call[t] \in WaitCalls
  BY DEF TypeOK, CallInv
<1>2. CASE success
  BY <1>1, <1>2 DEF AfterWait, WaitCalls
<1>3. CASE ~success
  BY <1>1, <1>3 DEF AfterWait, WaitCalls
<1>4. QED
  BY <1>2, <1>3

\* A thread that is about to take its reference off finds one.
LEMMA OneToDrop ==
  ASSUME TypeOK, RefInv, NEW t \in Threads, pc[t] = "dropping"
  PROVE  refs >= 1
<1>1. IsFiniteSet(attached) /\ IsFiniteSet(Dropping) /\ t \in Dropping
  BY FS_Subset, QueueConstants DEF Dropping, TypeOK
<1>2. Cardinality(attached) \in Nat /\ Cardinality(Dropping) \in Nat /\ Cardinality(Dropping) # 0
  BY <1>1, FS_CardinalityType, FS_EmptySet
<1>3. QED
  BY <1>2 DEF RefInv

LEMMA TypeNext ==
  ASSUME IInv, [Next]_vars
  PROVE  TypeOK'
<1>0. TypeOK /\ RefInv /\ CallInv
  BY DEF IInv
<1> USE <1>0, ListChoice DEF queueVars, historyVars, Go, Forget
<1>1. ASSUME NEW t \in Threads, WriteLink(t)
       PROVE  TypeOK'
  <2> USE <1>1 DEF WriteLink, TypeOK
  <2>1. Flags'
    BY Zenon DEF Flags
  <2>2. <<t, Len(written) + 1>> \in Messages
    BY QueueConstants DEF Messages
  <2>3. /\ list' \in [Lists -> Seq(Messages)]
        /\ tokens' \in [Lists -> Nat]
        /\ refs' \in Nat
        /\ attached' \subseteq Threads
    BY <2>2
  <2>4. /\ pc' \in [Threads -> Places]
        /\ call' \in [Threads -> WaitCalls \cup {"none"}]
    BY DEF Places, WaitCalls
  <2>5. /\ node' \in [Threads -> Messages \cup {NoMessage}]
        /\ \A u \in Threads : pc'[u] = "removing" => node'[u] \in Messages
        /\ written' \in Seq(Messages)
        /\ got' \in [Threads -> Seq(Messages)]
        /\ found' \in [Threads -> SUBSET Messages]
    BY <2>2
  <2>6. QED
    BY <2>1, <2>3, <2>4, <2>5 DEF Flags
<1>2. ASSUME NEW t \in Threads, WritePost(t)
       PROVE  TypeOK'
  <2> USE <1>2 DEF WritePost, TypeOK
  <2>1. Flags'
    BY Zenon DEF Flags
  <2>3. /\ list' \in [Lists -> Seq(Messages)]
        /\ tokens' \in [Lists -> Nat]
        /\ refs' \in Nat
        /\ attached' \subseteq Threads
    OBVIOUS
  <2>4. /\ pc' \in [Threads -> Places]
        /\ call' \in [Threads -> WaitCalls \cup {"none"}]
    BY DEF Places, WaitCalls
  <2>5. /\ node' \in [Threads -> Messages \cup {NoMessage}]
        /\ \A u \in Threads : pc'[u] = "removing" => node'[u] \in Messages
        /\ written' \in Seq(Messages)
        /\ got' \in [Threads -> Seq(Messages)]
        /\ found' \in [Threads -> SUBSET Messages]
    OBVIOUS
  <2>6. QED
    BY <2>1, <2>3, <2>4, <2>5 DEF Flags
<1>3. ASSUME NEW t \in Threads, NEW kind \in WaitCalls, NEW infinite \in BOOLEAN, BeginWait(t, kind, infinite)
       PROVE  TypeOK'
  <2> USE <1>3 DEF BeginWait, TypeOK
  <2>1. Flags'
    BY Zenon DEF Flags
  <2>3. /\ list' \in [Lists -> Seq(Messages)]
        /\ tokens' \in [Lists -> Nat]
        /\ refs' \in Nat
        /\ attached' \subseteq Threads
    OBVIOUS
  <2>4. /\ pc' \in [Threads -> Places]
        /\ call' \in [Threads -> WaitCalls \cup {"none"}]
    BY DEF Places, WaitCalls
  <2>5. /\ node' \in [Threads -> Messages \cup {NoMessage}]
        /\ \A u \in Threads : pc'[u] = "removing" => node'[u] \in Messages
        /\ written' \in Seq(Messages)
        /\ got' \in [Threads -> Seq(Messages)]
        /\ found' \in [Threads -> SUBSET Messages]
    OBVIOUS
  <2>6. QED
    BY <2>1, <2>3, <2>4, <2>5 DEF Flags
<1>4. ASSUME NEW t \in Threads, WaitSucceeds(t)
       PROVE  TypeOK'
  <2> USE <1>4 DEF WaitSucceeds, TypeOK
  <2>1. Flags'
    BY Zenon DEF Flags
  <2>2. AfterWait(t, TRUE) \in {"shifting", "restoring", "first", "idle"}
    BY WaitEnds DEF Go
  <2>3. /\ list' \in [Lists -> Seq(Messages)]
        /\ tokens' \in [Lists -> Nat]
        /\ refs' \in Nat
        /\ attached' \subseteq Threads
    OBVIOUS
  <2>4. /\ pc' \in [Threads -> Places]
        /\ call' \in [Threads -> WaitCalls \cup {"none"}]
    BY <2>2 DEF Places, WaitCalls
  <2>5. /\ node' \in [Threads -> Messages \cup {NoMessage}]
        /\ \A u \in Threads : pc'[u] = "removing" => node'[u] \in Messages
        /\ written' \in Seq(Messages)
        /\ got' \in [Threads -> Seq(Messages)]
        /\ found' \in [Threads -> SUBSET Messages]
    BY <2>2
  <2>6. QED
    BY <2>1, <2>3, <2>4, <2>5 DEF Flags
<1>5. ASSUME NEW t \in Threads, WaitFails(t)
       PROVE  TypeOK'
  <2> USE <1>5 DEF WaitFails, TypeOK
  <2>1. Flags'
    BY Zenon DEF Flags
  <2>2. AfterWait(t, FALSE) \in {"shifting", "restoring", "first", "idle"}
    BY WaitEnds DEF Go
  <2>3. /\ list' \in [Lists -> Seq(Messages)]
        /\ tokens' \in [Lists -> Nat]
        /\ refs' \in Nat
        /\ attached' \subseteq Threads
    OBVIOUS
  <2>4. /\ pc' \in [Threads -> Places]
        /\ call' \in [Threads -> WaitCalls \cup {"none"}]
    BY <2>2 DEF Places, WaitCalls
  <2>5. /\ node' \in [Threads -> Messages \cup {NoMessage}]
        /\ \A u \in Threads : pc'[u] = "removing" => node'[u] \in Messages
        /\ written' \in Seq(Messages)
        /\ got' \in [Threads -> Seq(Messages)]
        /\ found' \in [Threads -> SUBSET Messages]
    BY <2>2
  <2>6. QED
    BY <2>1, <2>3, <2>4, <2>5 DEF Flags
<1>6. ASSUME NEW t \in Threads, Restore(t)
       PROVE  TypeOK'
  <2> USE <1>6 DEF Restore, TypeOK
  <2>1. Flags'
    BY Zenon DEF Flags
  <2>3. /\ list' \in [Lists -> Seq(Messages)]
        /\ tokens' \in [Lists -> Nat]
        /\ refs' \in Nat
        /\ attached' \subseteq Threads
    OBVIOUS
  <2>4. /\ pc' \in [Threads -> Places]
        /\ call' \in [Threads -> WaitCalls \cup {"none"}]
    BY DEF Places, WaitCalls
  <2>5. /\ node' \in [Threads -> Messages \cup {NoMessage}]
        /\ \A u \in Threads : pc'[u] = "removing" => node'[u] \in Messages
        /\ written' \in Seq(Messages)
        /\ got' \in [Threads -> Seq(Messages)]
        /\ found' \in [Threads -> SUBSET Messages]
    OBVIOUS
  <2>6. QED
    BY <2>1, <2>3, <2>4, <2>5 DEF Flags
<1>7. ASSUME NEW t \in Threads, ReadShift(t)
       PROVE  TypeOK'
  <2> USE <1>7 DEF ReadShift, TypeOK
  <2>1. Flags'
    BY Zenon DEF Flags
  <2>2. /\ list' \in [Lists -> Seq(Messages)]
        /\ got' \in [Threads -> Seq(Messages)]
    <3>1. CASE list[ReadList(t)] = <<>>
      BY <3>1
    <3>2. CASE list[ReadList(t)] # <<>>
      <4>1. /\ Head(list[ReadList(t)]) \in Messages
            /\ Tail(list[ReadList(t)]) \in Seq(Messages)
        BY <3>2
      <4>2. /\ list' = [list EXCEPT ![ReadList(t)] = Tail(@)]
            /\ got' = [got EXCEPT ![t] = Append(@, Head(list[ReadList(t)]))]
        BY <3>2
      <4>3. Append(got[t], Head(list[ReadList(t)])) \in Seq(Messages)
        BY <4>1
      <4>4. QED
        BY <4>1, <4>2, <4>3
    <3>3. QED
      BY <3>1, <3>2
  <2>3. /\ list' \in [Lists -> Seq(Messages)]
        /\ tokens' \in [Lists -> Nat]
        /\ refs' \in Nat
        /\ attached' \subseteq Threads
    BY <2>2
  <2>4. /\ pc' \in [Threads -> Places]
        /\ call' \in [Threads -> WaitCalls \cup {"none"}]
    BY DEF Places, WaitCalls
  <2>5. /\ node' \in [Threads -> Messages \cup {NoMessage}]
        /\ \A u \in Threads : pc'[u] = "removing" => node'[u] \in Messages
        /\ written' \in Seq(Messages)
        /\ got' \in [Threads -> Seq(Messages)]
        /\ found' \in [Threads -> SUBSET Messages]
    BY <2>2
  <2>6. QED
    BY <2>1, <2>3, <2>4, <2>5 DEF Flags
<1>8. ASSUME NEW t \in Threads, PeekFirst(t)
       PROVE  TypeOK'
  <2> USE <1>8 DEF PeekFirst, TypeOK
  <2>1. Flags'
    BY Zenon DEF Flags
  <2>3. /\ list' \in [Lists -> Seq(Messages)]
        /\ tokens' \in [Lists -> Nat]
        /\ refs' \in Nat
        /\ attached' \subseteq Threads
    OBVIOUS
  <2>4. /\ pc' \in [Threads -> Places]
        /\ call' \in [Threads -> WaitCalls \cup {"none"}]
    BY DEF Places, WaitCalls
  <2>5. /\ node' \in [Threads -> Messages \cup {NoMessage}]
        /\ \A u \in Threads : pc'[u] = "removing" => node'[u] \in Messages
        /\ written' \in Seq(Messages)
        /\ got' \in [Threads -> Seq(Messages)]
        /\ found' \in [Threads -> SUBSET Messages]
    OBVIOUS
  <2>6. QED
    BY <2>1, <2>3, <2>4, <2>5 DEF Flags
<1>9. ASSUME NEW t \in Threads, PeekData(t)
       PROVE  TypeOK'
  <2> USE <1>9 DEF PeekData, TypeOK
  <2>1. Flags'
    BY Zenon DEF Flags
  <2>3. /\ list' \in [Lists -> Seq(Messages)]
        /\ tokens' \in [Lists -> Nat]
        /\ refs' \in Nat
        /\ attached' \subseteq Threads
    OBVIOUS
  <2>4. /\ pc' \in [Threads -> Places]
        /\ call' \in [Threads -> WaitCalls \cup {"none"}]
    BY DEF Places, WaitCalls
  <2>5. /\ node' \in [Threads -> Messages \cup {NoMessage}]
        /\ \A u \in Threads : pc'[u] = "removing" => node'[u] \in Messages
        /\ written' \in Seq(Messages)
        /\ got' \in [Threads -> Seq(Messages)]
        /\ found' \in [Threads -> SUBSET Messages]
    OBVIOUS
  <2>6. QED
    BY <2>1, <2>3, <2>4, <2>5 DEF Flags
<1>10. ASSUME NEW t \in Threads, FindScan(t)
       PROVE  TypeOK'
  <2> USE <1>10 DEF FindScan, TypeOK
  <2>1. Flags'
    BY Zenon DEF Flags
  <2>3. /\ list' \in [Lists -> Seq(Messages)]
        /\ tokens' \in [Lists -> Nat]
        /\ refs' \in Nat
        /\ attached' \subseteq Threads
    BY DEF InList
  <2>4. /\ pc' \in [Threads -> Places]
        /\ call' \in [Threads -> WaitCalls \cup {"none"}]
    BY DEF Places, WaitCalls
  <2>5. /\ node' \in [Threads -> Messages \cup {NoMessage}]
        /\ \A u \in Threads : pc'[u] = "removing" => node'[u] \in Messages
        /\ written' \in Seq(Messages)
        /\ got' \in [Threads -> Seq(Messages)]
        /\ found' \in [Threads -> SUBSET Messages]
    BY DEF InList
  <2>6. QED
    BY <2>1, <2>3, <2>4, <2>5 DEF Flags
<1>11. ASSUME NEW t \in Threads, FindRemove(t)
       PROVE  TypeOK'
  <2> USE <1>11 DEF FindRemove, TypeOK
  <2>1. Flags'
    BY Zenon DEF Flags
  <2>2. Without(list[ReadList(t)], node[t]) \in Seq(Messages)
    BY WithoutIsShorter
  <2>3. /\ list' \in [Lists -> Seq(Messages)]
        /\ tokens' \in [Lists -> Nat]
        /\ refs' \in Nat
        /\ attached' \subseteq Threads
    BY <2>2
  <2>4. /\ pc' \in [Threads -> Places]
        /\ call' \in [Threads -> WaitCalls \cup {"none"}]
    BY DEF Places, WaitCalls
  <2>5. /\ node' \in [Threads -> Messages \cup {NoMessage}]
        /\ \A u \in Threads : pc'[u] = "removing" => node'[u] \in Messages
        /\ written' \in Seq(Messages)
        /\ got' \in [Threads -> Seq(Messages)]
        /\ found' \in [Threads -> SUBSET Messages]
    BY <2>2
  <2>6. QED
    BY <2>1, <2>3, <2>4, <2>5 DEF Flags
<1>12. ASSUME NEW t \in Threads, Attach(t)
       PROVE  TypeOK'
  <2> USE <1>12 DEF Attach, TypeOK
  <2>1. Flags'
    BY Zenon DEF Flags
  <2>3. /\ list' \in [Lists -> Seq(Messages)]
        /\ tokens' \in [Lists -> Nat]
        /\ refs' \in Nat
        /\ attached' \subseteq Threads
    OBVIOUS
  <2>4. /\ pc' \in [Threads -> Places]
        /\ call' \in [Threads -> WaitCalls \cup {"none"}]
    BY DEF Places, WaitCalls
  <2>5. /\ node' \in [Threads -> Messages \cup {NoMessage}]
        /\ \A u \in Threads : pc'[u] = "removing" => node'[u] \in Messages
        /\ written' \in Seq(Messages)
        /\ got' \in [Threads -> Seq(Messages)]
        /\ found' \in [Threads -> SUBSET Messages]
    OBVIOUS
  <2>6. QED
    BY <2>1, <2>3, <2>4, <2>5 DEF Flags
<1>13. ASSUME NEW t \in Threads, DetachCheck(t)
       PROVE  TypeOK'
  <2> USE <1>13 DEF DetachCheck, TypeOK
  <2>1. Flags'
    BY Zenon DEF Flags
  <2>3. /\ list' \in [Lists -> Seq(Messages)]
        /\ tokens' \in [Lists -> Nat]
        /\ refs' \in Nat
        /\ attached' \subseteq Threads
    OBVIOUS
  <2>4. /\ pc' \in [Threads -> Places]
        /\ call' \in [Threads -> WaitCalls \cup {"none"}]
    BY DEF Places, WaitCalls
  <2>5. /\ node' \in [Threads -> Messages \cup {NoMessage}]
        /\ \A u \in Threads : pc'[u] = "removing" => node'[u] \in Messages
        /\ written' \in Seq(Messages)
        /\ got' \in [Threads -> Seq(Messages)]
        /\ found' \in [Threads -> SUBSET Messages]
    OBVIOUS
  <2>6. QED
    BY <2>1, <2>3, <2>4, <2>5 DEF Flags
<1>14. ASSUME NEW t \in Threads, DetachDrop(t)
       PROVE  TypeOK'
  <2> USE <1>14 DEF DetachDrop, TypeOK
  <2>1. Flags'
    BY Zenon DEF Flags
  <2>2. refs >= 1
    BY OneToDrop
  <2>3. /\ list' \in [Lists -> Seq(Messages)]
        /\ tokens' \in [Lists -> Nat]
        /\ refs' \in Nat
        /\ attached' \subseteq Threads
    BY <2>2
  <2>4. /\ pc' \in [Threads -> Places]
        /\ call' \in [Threads -> WaitCalls \cup {"none"}]
    BY DEF Places, WaitCalls
  <2>5. /\ node' \in [Threads -> Messages \cup {NoMessage}]
        /\ \A u \in Threads : pc'[u] = "removing" => node'[u] \in Messages
        /\ written' \in Seq(Messages)
        /\ got' \in [Threads -> Seq(Messages)]
        /\ found' \in [Threads -> SUBSET Messages]
    OBVIOUS
  <2>6. QED
    BY <2>1, <2>3, <2>4, <2>5 DEF Flags
<1>15. ASSUME NEW t \in Threads, Free(t)
       PROVE  TypeOK'
  <2> USE <1>15 DEF Free, TypeOK
  <2>1. Flags'
    BY Zenon DEF Flags
  <2>3. /\ list' \in [Lists -> Seq(Messages)]
        /\ tokens' \in [Lists -> Nat]
        /\ refs' \in Nat
        /\ attached' \subseteq Threads
    OBVIOUS
  <2>4. /\ pc' \in [Threads -> Places]
        /\ call' \in [Threads -> WaitCalls \cup {"none"}]
    BY DEF Places, WaitCalls
  <2>5. /\ node' \in [Threads -> Messages \cup {NoMessage}]
        /\ \A u \in Threads : pc'[u] = "removing" => node'[u] \in Messages
        /\ written' \in Seq(Messages)
        /\ got' \in [Threads -> Seq(Messages)]
        /\ found' \in [Threads -> SUBSET Messages]
    OBVIOUS
  <2>6. QED
    BY <2>1, <2>3, <2>4, <2>5 DEF Flags
<1>16. CASE UNCHANGED vars
  <2>1. Flags'
    BY <1>16, Zenon DEF Flags, TypeOK, vars
  <2>2. QED
    BY <1>16 DEF TypeOK, vars
<1>17. QED
  BY <1>1, <1>2, <1>3, <1>4, <1>5, <1>6, <1>7, <1>8, <1>9, <1>10, <1>11, <1>12, <1>13, <1>14, <1>15,
     <1>16 DEF Next, Step
-----------------------------------------------------------------------------
\* A thread that neither attaches nor detaches leaves the references alone.
Ordinary(t) ==
  \/ WriteLink(t) \/ WritePost(t)
  \/ \E kind \in WaitCalls, infinite \in BOOLEAN : BeginWait(t, kind, infinite)
  \/ WaitSucceeds(t) \/ WaitFails(t) \/ Restore(t) \/ ReadShift(t)
  \/ PeekFirst(t) \/ PeekData(t)
  \/ FindScan(t) \/ FindRemove(t)

LEMMA OrdinaryMoves ==
  ASSUME IInv, NEW t \in Threads, Ordinary(t)
  PROVE  /\ UNCHANGED <<bidir, refs, freed, attached>>
         /\ t \in attached
         /\ pc[t] \notin {"dropping", "freeing"}
         /\ \E to \in Places \ {"dropping", "freeing"} : pc' = [pc EXCEPT ![t] = to]
<1> USE DEF queueVars, Go, Places
<1>0. TypeOK /\ CallInv /\ RefInv
  BY DEF IInv
<1>1. CASE WaitSucceeds(t)
  <2>1. AfterWait(t, TRUE) \in {"shifting", "restoring", "first", "idle"}
    BY <1>0, <1>1, WaitEnds DEF WaitSucceeds
  <2>2. QED
    BY <1>0, <1>1, <2>1 DEF WaitSucceeds, RefInv
<1>2. CASE WaitFails(t)
  <2>1. AfterWait(t, FALSE) \in {"shifting", "restoring", "first", "idle"}
    BY <1>0, <1>2, WaitEnds DEF WaitFails
  <2>2. QED
    BY <1>0, <1>2, <2>1 DEF WaitFails, RefInv
<1>3. CASE WriteLink(t) \/ WritePost(t) \/ FindScan(t) \/ FindRemove(t)
  BY <1>0, <1>3 DEF WriteLink, WritePost, FindScan, FindRemove, MayCall, historyVars, RefInv
<1>4. CASE \E kind \in WaitCalls, infinite \in BOOLEAN : BeginWait(t, kind, infinite)
  BY <1>0, <1>4 DEF BeginWait, MayCall, RefInv
<1>5. CASE Restore(t) \/ ReadShift(t) \/ PeekFirst(t) \/ PeekData(t)
  BY <1>0, <1>5 DEF Restore, ReadShift, PeekFirst, PeekData, RefInv
<1>6. QED
  BY <1>1, <1>2, <1>3, <1>4, <1>5 DEF Ordinary

LEMMA NextSplit ==
  ASSUME [Next]_vars
  PROVE  \/ \E t \in Threads : Ordinary(t) \/ Attach(t) \/ DetachCheck(t) \/ DetachDrop(t) \/ Free(t)
         \/ UNCHANGED vars
BY DEF Next, Step, Ordinary

LEMMA RefNext ==
  ASSUME IInv, [Next]_vars
  PROVE  RefInv'
<1>0. TypeOK /\ RefInv
  BY DEF IInv
<1>1. IsFiniteSet(attached) /\ IsFiniteSet(Dropping)
  BY <1>0, FS_Subset, QueueConstants DEF Dropping, TypeOK
<1>2. Cardinality(attached) \in Nat /\ Cardinality(Dropping) \in Nat
  BY <1>1, FS_CardinalityType
<1>3. ASSUME NEW t \in Threads, Ordinary(t)
      PROVE  RefInv'
  <2> USE <1>0
  <2>1. PICK to \in Places \ {"dropping", "freeing"} : pc' = [pc EXCEPT ![t] = to]
    BY <1>3, OrdinaryMoves
  <2>2. pc[t] \notin {"dropping", "freeing"} /\ t \in attached /\ UNCHANGED <<refs, attached>>
    BY <1>3, OrdinaryMoves
  <2>3. Dropping' = Dropping
    BY <2>1, <2>2 DEF Dropping, TypeOK
  <2>4. QED
    BY <2>1, <2>2, <2>3 DEF RefInv, TypeOK
<1>4. ASSUME NEW t \in Threads, Attach(t)
      PROVE  RefInv'
  <2>1. Cardinality(attached') = Cardinality(attached) + 1
    BY <1>1, <1>4, FS_AddElement DEF Attach
  <2>2. Dropping' = Dropping
    BY <1>4 DEF Attach, Dropping
  <2>3. QED
    BY <1>0, <1>2, <1>4, <2>1, <2>2 DEF Attach, RefInv, TypeOK
<1>5. ASSUME NEW t \in Threads, DetachCheck(t)
      PROVE  RefInv'
  <2> USE DEF DetachCheck, Go, MayCall
  <2>1. Cardinality(attached') = Cardinality(attached) - 1
    BY <1>1, <1>5, FS_RemoveElement
  <2>2. Dropping' = Dropping \cup {t} /\ t \notin Dropping
    BY <1>0, <1>5 DEF Dropping, TypeOK
  <2>3. Cardinality(Dropping') = Cardinality(Dropping) + 1
    BY <1>1, <2>2, FS_AddElement
  <2>4. QED
    BY <1>0, <1>2, <1>5, <2>1, <2>3 DEF RefInv, TypeOK
<1>6. ASSUME NEW t \in Threads, DetachDrop(t)
      PROVE  RefInv'
  <2> USE DEF DetachDrop, Go
  <2>1. Dropping' = Dropping \ {t} /\ t \in Dropping
    BY <1>0, <1>6 DEF Dropping, TypeOK
  <2>2. Cardinality(Dropping') = Cardinality(Dropping) - 1
    BY <1>1, <2>1, FS_RemoveElement
  <2>3. QED
    BY <1>0, <1>2, <1>6, <2>2 DEF RefInv, TypeOK
<1>7. ASSUME NEW t \in Threads, Free(t)
      PROVE  RefInv'
  <2>1. Dropping' = Dropping
    BY <1>0, <1>7 DEF Free, Go, Dropping, TypeOK
  <2>2. QED
    BY <1>0, <1>7, <2>1 DEF Free, Go, RefInv, TypeOK
<1>8. CASE UNCHANGED vars
  BY <1>0, <1>8 DEF vars, RefInv, Dropping
<1>9. QED
  BY <1>3, <1>4, <1>5, <1>6, <1>7, <1>8, NextSplit

LEMMA FreeNext ==
  ASSUME IInv, [Next]_vars
  PROVE  FreeInv'
<1>0. TypeOK /\ RefInv /\ FreeInv
  BY DEF IInv
<1>1. ASSUME NEW t \in Threads, Ordinary(t)
      PROVE  FreeInv'
  <2>1. PICK to \in Places \ {"dropping", "freeing"} : pc' = [pc EXCEPT ![t] = to]
    BY <1>1, OrdinaryMoves
  <2>2. pc[t] # "freeing" /\ UNCHANGED <<refs, freed>>
    BY <1>1, OrdinaryMoves
  <2>3. Freeing' = Freeing
    BY <1>0, <2>1, <2>2 DEF Freeing, TypeOK
  <2>4. QED
    BY <1>0, <2>2, <2>3 DEF FreeInv
<1>2. ASSUME NEW t \in Threads, Attach(t)
      PROVE  FreeInv'
  BY <1>0, <1>2 DEF Attach, FreeInv, Freeing
<1>3. ASSUME NEW t \in Threads, DetachCheck(t)
      PROVE  FreeInv'
  BY <1>0, <1>3 DEF DetachCheck, Go, FreeInv, Freeing, TypeOK
<1>4. ASSUME NEW t \in Threads, DetachDrop(t)
      PROVE  FreeInv'
  <2>1. refs >= 1
    BY <1>0, <1>4, OneToDrop DEF DetachDrop, Go
  <2>2. Freeing = {} /\ ~freed
    BY <1>0, <2>1 DEF FreeInv, TypeOK
  <2>3. QED
    BY <1>0, <1>4, <2>1, <2>2 DEF DetachDrop, Go, FreeInv, Freeing, TypeOK
<1>5. ASSUME NEW t \in Threads, Free(t)
      PROVE  FreeInv'
  <2>1. Freeing = {t} /\ refs = 0
    BY <1>0, <1>5 DEF Free, Go, FreeInv, Freeing
  <2>2. Freeing' = {}
    BY <1>0, <1>5, <2>1 DEF Free, Go, Freeing, TypeOK
  <2>3. QED
    BY <1>5, <2>1, <2>2 DEF Free, FreeInv
<1>6. CASE UNCHANGED vars
  BY <1>0, <1>6 DEF vars, FreeInv, Freeing
<1>7. QED
  BY <1>1, <1>2, <1>3, <1>4, <1>5, <1>6, NextSplit
-----------------------------------------------------------------------------
LEMMA CallNext ==
  ASSUME IInv, [Next]_vars
  PROVE  CallInv'
<1>0. TypeOK /\ CallInv
  BY DEF IInv
<1> USE <1>0 DEF queueVars, historyVars, Go, Forget
<1>1. ASSUME NEW t \in Threads, WaitSucceeds(t)
      PROVE  CallInv'
  <2>1. /\ call[t] \in WaitCalls
        /\ AfterWait(t, TRUE) = IF call[t] = "read" THEN "shifting" ELSE "restoring"
    BY <1>1 DEF WaitSucceeds, CallInv, TypeOK, AfterWait, WaitCalls
  <2>2. QED
    BY <1>1, <2>1 DEF WaitSucceeds, CallInv, TypeOK, WaitCalls
<1>2. ASSUME NEW t \in Threads, WaitFails(t)
      PROVE  CallInv'
  <2>1. /\ call[t] \in WaitCalls
        /\ AfterWait(t, FALSE) = CASE call[t] = "read" -> "shifting"
                                   [] call[t] = "wait" -> "idle"
                                   [] call[t] = "peek" -> "first"
    BY <1>2 DEF WaitFails, CallInv, TypeOK, AfterWait, WaitCalls
  <2>2. CASE call[t] = "read"
    BY <1>2, <2>1, <2>2 DEF WaitFails, CallInv, TypeOK
  <2>3. CASE call[t] = "wait"
    BY <1>2, <2>1, <2>3 DEF WaitFails, CallInv, TypeOK
  <2>4. CASE call[t] = "peek"
    BY <1>2, <2>1, <2>4 DEF WaitFails, CallInv, TypeOK
  <2>5. QED
    BY <2>1, <2>2, <2>3, <2>4 DEF WaitCalls
<1>3. ASSUME NEW t \in Threads, Restore(t)
      PROVE  CallInv'
  <2>1. CASE call[t] = "peek"
    BY <1>3, <2>1 DEF Restore, CallInv, TypeOK
  <2>2. CASE call[t] # "peek"
    BY <1>3, <2>2 DEF Restore, CallInv, TypeOK
  <2>3. QED
    BY <2>1, <2>2
<1>4. ASSUME NEW t \in Threads, WriteLink(t) \/ WritePost(t) \/ FindScan(t) \/ FindRemove(t)
      PROVE  CallInv'
  BY <1>4 DEF WriteLink, WritePost, FindScan, FindRemove, CallInv, TypeOK
<1>5. ASSUME NEW t \in Threads, NEW kind \in WaitCalls, NEW infinite \in BOOLEAN,
             BeginWait(t, kind, infinite)
      PROVE  CallInv'
  BY <1>5 DEF BeginWait, CallInv, TypeOK, WaitCalls
<1>6. ASSUME NEW t \in Threads, ReadShift(t) \/ PeekFirst(t) \/ PeekData(t)
      PROVE  CallInv'
  BY <1>6 DEF ReadShift, PeekFirst, PeekData, CallInv, TypeOK
<1>7. ASSUME NEW t \in Threads, Attach(t) \/ DetachCheck(t) \/ DetachDrop(t) \/ Free(t)
      PROVE  CallInv'
  BY <1>7 DEF Attach, DetachCheck, DetachDrop, Free, CallInv, TypeOK
<1>8. CASE UNCHANGED vars
  BY <1>8 DEF vars, CallInv
<1>9. QED
  BY <1>1, <1>2, <1>3, <1>4, <1>5, <1>6, <1>7, <1>8 DEF Next, Step

\* Only BeginWait and FindScan make a thread scan or remove, and they look at
\* the others first.
LEMMA ScanNext ==
  ASSUME IInv, [Next]_vars
  PROVE  ScanInv'
<1>0. TypeOK /\ CallInv /\ ScanInv
  BY DEF IInv
<1> SUFFICES ASSUME SoleScanner PROVE ScanInv'
  BY DEF ScanInv
<1> USE <1>0 DEF queueVars, historyVars, Go, Forget
<1>1. bidir' = bidir
  BY DEF Next, Step, vars, WriteLink, WritePost, BeginWait, WaitSucceeds, WaitFails, Restore,
     ReadShift, PeekFirst, PeekData, FindScan, FindRemove, Attach, DetachCheck, DetachDrop, Free
<1>2. \A t \in Threads : SameList(t)' = SameList(t)
  BY <1>1 DEF SameList, ReadList
<1>3. ASSUME \A t \in Threads : (Scanning(t)' => Scanning(t)) /\ (Removing(t)' => Removing(t))
      PROVE  ScanInv'
  BY <1>2, <1>3 DEF ScanInv, SameList
<1>4. ASSUME NEW t \in Threads, WriteLink(t) \/ WritePost(t) \/ FindRemove(t)
      PROVE  ScanInv'
  BY <1>3, <1>4 DEF WriteLink, WritePost, FindRemove, Scanning, Removing, TypeOK
<1>5. ASSUME NEW t \in Threads, WaitSucceeds(t) \/ WaitFails(t)
      PROVE  ScanInv'
  <2>1. AfterWait(t, TRUE) # "removing" /\ AfterWait(t, FALSE) # "removing"
    BY <1>5, WaitEnds DEF WaitSucceeds, WaitFails
  <2>2. QED
    BY <1>3, <1>5, <2>1 DEF WaitSucceeds, WaitFails, Scanning, Removing, TypeOK
<1>6. ASSUME NEW t \in Threads, Restore(t) \/ ReadShift(t) \/ PeekFirst(t) \/ PeekData(t)
      PROVE  ScanInv'
  BY <1>3, <1>6 DEF Restore, ReadShift, PeekFirst, PeekData, Scanning, Removing, TypeOK
<1>7. ASSUME NEW t \in Threads, Attach(t) \/ DetachCheck(t) \/ DetachDrop(t) \/ Free(t)
      PROVE  ScanInv'
  BY <1>3, <1>7 DEF Attach, DetachCheck, DetachDrop, Free, Scanning, Removing, TypeOK
<1>8. ASSUME NEW t \in Threads, NEW kind \in WaitCalls, NEW infinite \in BOOLEAN,
             BeginWait(t, kind, infinite)
      PROVE  ScanInv'
  <2>1. \A u \in Threads \ {t} : Scanning(u)' = Scanning(u) /\ Removing(u)' = Removing(u)
    BY <1>8 DEF BeginWait, Scanning, Removing, TypeOK
  <2>2. Scanning(t)' => \A u \in SameList(t) : ~Scanning(u) /\ ~Removing(u)
    BY <1>8 DEF BeginWait, Scanning, MayScan, TypeOK, WaitCalls
  <2>3. Removing(t)' => \A u \in SameList(t) : ~Scanning(u)
    BY <1>8 DEF BeginWait, Removing, MayRemove, TypeOK, WaitCalls
  <2>4. QED
    BY <1>2, <2>1, <2>2, <2>3 DEF ScanInv, SameList
<1>9. ASSUME NEW t \in Threads, FindScan(t)
      PROVE  ScanInv'
  <2>1. \A u \in Threads \ {t} : Scanning(u)' = Scanning(u) /\ Removing(u)' = Removing(u)
    BY <1>9 DEF FindScan, Scanning, Removing, TypeOK
  <2>2. \A u \in SameList(t) : ~Scanning(u) /\ ~Removing(u)
    BY <1>9 DEF FindScan, MayScan
  <2>3. QED
    BY <1>2, <2>1, <2>2 DEF ScanInv, SameList
<1>10. CASE UNCHANGED vars
  BY <1>3, <1>10 DEF vars, Scanning, Removing
<1>11. QED
  BY <1>4, <1>5, <1>6, <1>7, <1>8, <1>9, <1>10 DEF Next, Step
-----------------------------------------------------------------------------
\* MessagesHaveTokens for one list.
Covered(l) == Len(list[l]) <= tokens[l] + Cardinality(Posting(l)) + Cardinality(Holding(l))

LEMMA OnTheirWay ==
  ASSUME TypeOK, NEW l \in Lists
  PROVE  /\ IsFiniteSet(Posting(l)) /\ Cardinality(Posting(l)) \in Nat
         /\ IsFiniteSet(Holding(l)) /\ Cardinality(Holding(l)) \in Nat
         /\ tokens[l] \in Nat /\ Len(list[l]) \in Nat
<1>1. IsFiniteSet(Posting(l)) /\ IsFiniteSet(Holding(l))
  BY FS_Subset, QueueConstants DEF Posting, Holding
<1>2. QED
  BY <1>1, FS_CardinalityType DEF TypeOK

LEMMA TokensNext ==
  ASSUME IInv, [Next]_vars
  PROVE  MessagesHaveTokens'
<1>0. TypeOK /\ CallInv /\ MessagesHaveTokens
  BY DEF IInv
<1> SUFFICES ASSUME NEW l \in Lists PROVE Covered(l)'
  BY DEF MessagesHaveTokens, Covered
<1> USE <1>0, ListChoice DEF queueVars, historyVars, Go
<1>1. Covered(l)
  BY DEF MessagesHaveTokens, Covered
<1>2. /\ IsFiniteSet(Posting(l)) /\ Cardinality(Posting(l)) \in Nat
      /\ IsFiniteSet(Holding(l)) /\ Cardinality(Holding(l)) \in Nat
      /\ tokens[l] \in Nat /\ Len(list[l]) \in Nat
  BY OnTheirWay
<1>3. ASSUME Posting(l)' = Posting(l), Holding(l)' = Holding(l), tokens' = tokens,
             Len(list[l])' <= Len(list[l])
      PROVE  Covered(l)'
  <2>1. Len(list[l])' \in Nat
    BY TypeNext DEF TypeOK
  <2>2. QED
    BY <1>1, <1>2, <1>3, <2>1 DEF Covered
<1>4. ASSUME NEW t \in Threads, WriteLink(t)
      PROVE  Covered(l)'
  <2> USE <1>4 DEF WriteLink
  <2>1. Holding(l)' = Holding(l)
    BY DEF Holding, ReadList
  <2>2. CASE l = WriteList(t)
    <3>1. Posting(l)' = Posting(l) \cup {t} /\ t \notin Posting(l)
      BY <2>2 DEF Posting, WriteList, TypeOK
    <3>2. Cardinality(Posting(l)') = Cardinality(Posting(l)) + 1
      BY <1>2, <3>1, FS_AddElement
    <3>3. Len(list[l])' = Len(list[l]) + 1
      BY <2>2 DEF TypeOK
    <3>4. QED
      BY <1>1, <1>2, <2>1, <3>2, <3>3 DEF Covered
  <2>3. CASE l # WriteList(t)
    <3>1. Posting(l)' = Posting(l)
      BY <2>3 DEF Posting, WriteList, TypeOK
    <3>2. list'[l] = list[l]
      BY <2>3 DEF TypeOK
    <3>3. tokens' = tokens
      OBVIOUS
    <3>4. Len(list'[l]) = Len(list[l])
      BY <3>2, Zenon
    <3>5. QED
      BY <1>1, <2>1, <3>1, <3>3, <3>4, Zenon DEF Covered
  <2>4. QED
    BY <2>2, <2>3
<1>5. ASSUME NEW t \in Threads, WritePost(t)
      PROVE  Covered(l)'
  <2> USE <1>5 DEF WritePost
  <2>1. Holding(l)' = Holding(l)
    BY DEF Holding, ReadList
  <2>2. CASE l = WriteList(t)
    <3>1. Posting(l)' = Posting(l) \ {t} /\ t \in Posting(l)
      BY <2>2 DEF Posting, WriteList, TypeOK
    <3>2. Cardinality(Posting(l)') = Cardinality(Posting(l)) - 1
      BY <1>2, <3>1, FS_RemoveElement
    <3>3. tokens'[l] = tokens[l] + 1
      BY <2>2 DEF TypeOK
    <3>4. QED
      BY <1>1, <1>2, <2>1, <3>2, <3>3 DEF Covered
  <2>3. CASE l # WriteList(t)
    <3>1. Posting(l)' = Posting(l)
      BY <2>3 DEF Posting, WriteList, TypeOK
    <3>2. tokens'[l] = tokens[l]
      BY <2>3 DEF TypeOK
    <3>3. QED
      BY <1>1, <1>2, <2>1, <3>1, <3>2 DEF Covered
  <2>4. QED
    BY <2>2, <2>3
<1>6. ASSUME NEW t \in Threads, WaitSucceeds(t)
      PROVE  Covered(l)'
  <2> USE <1>6 DEF WaitSucceeds
  <2>0. AfterWait(t, TRUE) # "posting"
    BY WaitEnds
  <2>1. Posting(l)' = Posting(l)
    BY <2>0 DEF Posting, WriteList, TypeOK
  <2>2. CASE l = ReadList(t)
    <3>1. ~took[t]
      BY DEF CallInv
    <3>2. Holding(l)' = Holding(l) \cup {t} /\ t \notin Holding(l)
      BY <2>2, <3>1 DEF Holding, ReadList, TypeOK
    <3>3. Cardinality(Holding(l)') = Cardinality(Holding(l)) + 1
      BY <1>2, <3>2, FS_AddElement
    <3>4. tokens'[l] = tokens[l] - 1
      BY <2>2 DEF TypeOK
    <3>5. QED
      BY <1>1, <1>2, <2>1, <3>3, <3>4 DEF Covered
  <2>3. CASE l # ReadList(t)
    <3>1. Holding(l)' = Holding(l)
      BY <2>3 DEF Holding, ReadList, TypeOK
    <3>2. tokens'[l] = tokens[l]
      BY <2>3 DEF TypeOK
    <3>3. QED
      BY <1>1, <1>2, <2>1, <3>1, <3>2 DEF Covered
  <2>4. QED
    BY <2>2, <2>3
<1>7. ASSUME NEW t \in Threads, Restore(t)
      PROVE  Covered(l)'
  <2> USE <1>7 DEF Restore
  <2>1. Posting(l)' = Posting(l)
    BY DEF Posting, WriteList, TypeOK
  <2>2. CASE l = ReadList(t)
    <3>1. Holding(l)' = Holding(l) \ {t}
      BY <2>2 DEF Holding, ReadList, TypeOK
    <3>2. Cardinality(Holding(l)') \in {Cardinality(Holding(l)), Cardinality(Holding(l)) - 1}
      <4>1. CASE t \in Holding(l)
        BY <1>2, <3>1, <4>1, FS_RemoveElement
      <4>2. CASE t \notin Holding(l)
        <5>1. Holding(l)' = Holding(l)
          BY <3>1, <4>2
        <5>2. QED
          BY <5>1
      <4>3. QED
        BY <4>1, <4>2
    <3>3. tokens'[l] = tokens[l] + 1
      BY <2>2 DEF TypeOK
    <3>4. QED
      BY <1>1, <1>2, <2>1, <3>2, <3>3 DEF Covered
  <2>3. CASE l # ReadList(t)
    <3>1. Holding(l)' = Holding(l)
      BY <2>3 DEF Holding, ReadList, TypeOK
    <3>2. tokens'[l] = tokens[l]
      BY <2>3 DEF TypeOK
    <3>3. QED
      BY <1>1, <1>2, <2>1, <3>1, <3>2 DEF Covered
  <2>4. QED
    BY <2>2, <2>3
<1>8. ASSUME NEW t \in Threads, ReadShift(t)
      PROVE  Covered(l)'
  <2> USE <1>8 DEF ReadShift
  <2>1. Posting(l)' = Posting(l)
    BY DEF Posting, WriteList, TypeOK
  <2>2. CASE l = ReadList(t)
    <3>1. Holding(l)' = Holding(l) \ {t}
      BY <2>2 DEF Holding, ReadList, TypeOK
    <3>2. Cardinality(Holding(l)') \in {Cardinality(Holding(l)), Cardinality(Holding(l)) - 1}
      <4>1. CASE t \in Holding(l)
        BY <1>2, <3>1, <4>1, FS_RemoveElement
      <4>2. CASE t \notin Holding(l)
        <5>1. Holding(l)' = Holding(l)
          BY <3>1, <4>2
        <5>2. QED
          BY <5>1
      <4>3. QED
        BY <4>1, <4>2
    <3>3. CASE list[l] = <<>>
      <4>1. list' = list /\ Len(list[l]) = 0
        BY <2>2, <3>3
      <4>2. Cardinality(Holding(l)') \in Nat
        BY OnTheirWay, TypeNext, <3>1, <1>2, FS_Difference, FS_CardinalityType
      <4>3. QED
        BY <1>2, <2>1, <4>1, <4>2 DEF Covered, TypeOK
    <3>4. CASE list[l] # <<>>
      <4>1. Len(list'[l]) = Len(list[l]) - 1
        BY <2>2, <3>4 DEF TypeOK
      <4>2. QED
        BY <1>1, <1>2, <2>1, <3>2, <4>1 DEF Covered
    <3>5. QED
      BY <3>3, <3>4
  <2>3. CASE l # ReadList(t)
    <3>1. Holding(l)' = Holding(l)
      BY <2>3 DEF Holding, ReadList, TypeOK
    <3>2. list'[l] = list[l]
      BY <2>3 DEF TypeOK
    <3>3. QED
      BY <1>2, <1>3, <2>1, <3>1, <3>2
  <2>4. QED
    BY <2>2, <2>3
<1>9. ASSUME NEW t \in Threads, FindRemove(t)
      PROVE  Covered(l)'
  <2> USE <1>9 DEF FindRemove
  <2>1. Posting(l)' = Posting(l) /\ Holding(l)' = Holding(l)
    BY DEF Posting, Holding, WriteList, ReadList, TypeOK
  <2>2. Len(Without(list[l], node[t])) <= Len(list[l])
    BY WithoutIsShorter DEF TypeOK
  <2>3. list'[l] \in {list[l], Without(list[l], node[t])}
    BY DEF TypeOK
  <2>4. QED
    BY <1>2, <1>3, <2>1, <2>2, <2>3
<1>10. ASSUME NEW t \in Threads, Free(t)
       PROVE  Covered(l)'
  <2> USE <1>10 DEF Free
  <2>1. Posting(l)' = Posting(l) /\ Holding(l)' = Holding(l)
    BY DEF Posting, Holding, WriteList, ReadList, TypeOK
  <2>2. Len(list'[l]) = 0
    OBVIOUS
  <2>3. QED
    BY <1>2, <1>3, <2>1, <2>2
<1>11. ASSUME NEW t \in Threads, WaitFails(t)
       PROVE  Covered(l)'
  <2>1. AfterWait(t, FALSE) # "posting"
    BY <1>11, WaitEnds DEF WaitFails
  <2>2. Posting(l)' = Posting(l) /\ Holding(l)' = Holding(l)
    BY <1>11, <2>1 DEF WaitFails, Posting, Holding, WriteList, ReadList, TypeOK
  <2>3. QED
    BY <1>2, <1>3, <1>11, <2>2 DEF WaitFails
<1>12. ASSUME NEW t \in Threads,
              \/ \E kind \in WaitCalls, infinite \in BOOLEAN : BeginWait(t, kind, infinite)
              \/ PeekFirst(t) \/ PeekData(t) \/ FindScan(t)
              \/ Attach(t) \/ DetachCheck(t) \/ DetachDrop(t)
       PROVE  Covered(l)'
  <2> USE <1>12 DEF BeginWait, PeekFirst, PeekData, FindScan, Attach, DetachCheck, DetachDrop
  <2>1. Posting(l)' = Posting(l) /\ Holding(l)' = Holding(l)
    BY DEF Posting, Holding, WriteList, ReadList, TypeOK
  <2>2. UNCHANGED <<list, tokens>>
    OBVIOUS
  <2>3. QED
    BY <1>2, <1>3, <2>1, <2>2
<1>13. CASE UNCHANGED vars
  BY <1>2, <1>3, <1>13 DEF vars, Posting, Holding, WriteList, ReadList
<1>14. QED
  BY <1>4, <1>5, <1>6, <1>7, <1>8, <1>9, <1>10, <1>11, <1>12, <1>13 DEF Next, Step
-----------------------------------------------------------------------------
\* Who takes the last reference off is alone.
LEMMA NobodyLeft ==
  ASSUME TypeOK, RefInv, refs = 0
  PROVE  attached = {} /\ \A t \in Threads : pc[t] \in {"idle", "freeing"}
<1>1. IsFiniteSet(attached) /\ IsFiniteSet(Dropping)
  BY FS_Subset, QueueConstants DEF Dropping, TypeOK
<1>2. Cardinality(attached) = 0 /\ Cardinality(Dropping) = 0
  BY <1>1, FS_CardinalityType DEF RefInv
<1>3. attached = {} /\ Dropping = {}
  BY <1>1, <1>2, FS_EmptySet
<1>4. QED
  BY <1>3 DEF RefInv, Dropping

\* PointersLive for one thread.
Live(u) ==
  /\ pc[u] = "removing" => node[u] \in InList(ReadList(u))
  /\ pc[u] = "data" /\ node[u] # NoMessage =>
       /\ list[ReadList(u)] # <<>>
       /\ node[u] = Head(list[ReadList(u)])

\* A thread whose list, place and pointer stay as they are follows it as before.
LEMMA StaysLive ==
  ASSUME TypeOK, PointersLive, NEW u \in Threads, bidir' = bidir,
         pc'[u] \in {"removing", "data"} => pc'[u] = pc[u] /\ node'[u] = node[u],
         pc[u] \in {"removing", "data"} => list'[ReadList(u)] = list[ReadList(u)]
  PROVE  Live(u)'
<1>1. ReadList(u)' = ReadList(u)
  BY DEF ReadList
<1>2. Live(u)
  BY DEF PointersLive, Live
<1>3. QED
  BY <1>1, <1>2, Zenon DEF Live, InList

LEMMA PointersNext ==
  ASSUME IInv, [Next]_vars, SoleScanner
  PROVE  PointersLive'
<1>0. TypeOK /\ CallInv /\ RefInv /\ FreeInv /\ ScanInv /\ PointersLive
  BY DEF IInv
<1> SUFFICES ASSUME NEW u \in Threads PROVE Live(u)'
  BY DEF PointersLive, Live
<1> USE <1>0, ListChoice DEF queueVars, historyVars, Go
<1>1. ASSUME NEW t \in Threads, WriteLink(t)
      PROVE  Live(u)'
  <2> USE <1>1 DEF WriteLink
  <2>1. CASE ReadList(u) # WriteList(t)
    BY <2>1, StaysLive DEF TypeOK
  <2>2. CASE ReadList(u) = WriteList(t) /\ u # t
    <3>1. PICK m : list'[ReadList(u)] = Append(list[ReadList(u)], m)
      BY <2>2 DEF TypeOK
    <3>2. list[ReadList(u)] \in Seq(Messages)
      BY DEF TypeOK
    <3>3. pc'[u] = pc[u] /\ node'[u] = node[u] /\ ReadList(u)' = ReadList(u)
      BY <2>2 DEF TypeOK, ReadList
    <3>4. Live(u)
      BY DEF PointersLive, Live
    <3> DEFINE s == list[ReadList(u)]
    <3>5. \A i \in 1..Len(s) : i \in 1..Len(Append(s, m)) /\ Append(s, m)[i] = s[i]
      BY <3>2
    <3>6. s # <<>> => Append(s, m) # <<>> /\ Head(Append(s, m)) = Head(s)
      BY <3>2
    <3> HIDE <1>1
    <3>7. QED
      BY <3>1, <3>3, <3>4, <3>5, <3>6 DEF Live, InList
  <2>3. CASE u = t
    BY <2>3 DEF TypeOK, Live
  <2>4. QED
    BY <2>1, <2>2, <2>3
<1>2. ASSUME NEW t \in Threads, ReadShift(t)
      PROVE  Live(u)'
  <2> USE <1>2 DEF ReadShift
  <2>1. Removing(t)
    BY DEF Removing, CallInv
  <2>2. CASE u = t
    BY <2>2 DEF Live, TypeOK
  <2>3. CASE u # t /\ ReadList(u) # ReadList(t)
    BY <2>3, StaysLive DEF TypeOK
  <2>4. CASE u # t /\ ReadList(u) = ReadList(t)
    <3>1. ~Scanning(u)
      BY <2>1, <2>4 DEF ScanInv, SameList
    <3>2. pc[u] \notin {"removing", "data"}
      BY <3>1 DEF Scanning, CallInv
    <3>3. QED
      BY <2>4, <3>2 DEF Live, TypeOK
  <2>5. QED
    BY <2>2, <2>3, <2>4
<1>3. ASSUME NEW t \in Threads, FindRemove(t)
      PROVE  Live(u)'
  <2> USE <1>3 DEF FindRemove
  <2>1. Scanning(t)
    BY DEF Scanning
  <2>2. CASE u = t
    BY <2>2 DEF Live, TypeOK
  <2>3. CASE u # t /\ ReadList(u) # ReadList(t)
    BY <2>3, StaysLive DEF TypeOK
  <2>4. CASE u # t /\ ReadList(u) = ReadList(t)
    <3>1. ~Scanning(u)
      BY <2>1, <2>4 DEF ScanInv, SameList
    <3>2. pc[u] \notin {"removing", "data"}
      BY <3>1 DEF Scanning, CallInv
    <3>3. QED
      BY <2>4, <3>2 DEF Live, TypeOK
  <2>5. QED
    BY <2>2, <2>3, <2>4
<1>4. ASSUME NEW t \in Threads, PeekFirst(t)
      PROVE  Live(u)'
  <2> USE <1>4 DEF PeekFirst
  <2>1. CASE u = t
    BY <2>1 DEF Live, ReadList, TypeOK
  <2>2. CASE u # t
    BY <2>2, StaysLive DEF TypeOK
  <2>3. QED
    BY <2>1, <2>2
<1>5. ASSUME NEW t \in Threads, FindScan(t)
      PROVE  Live(u)'
  <2> USE <1>5 DEF FindScan
  <2>1. CASE u = t
    BY <2>1 DEF Live, ReadList, InList, TypeOK
  <2>2. CASE u # t
    BY <2>2, StaysLive DEF TypeOK
  <2>3. QED
    BY <2>1, <2>2
<1>6. ASSUME NEW t \in Threads, Free(t)
      PROVE  Live(u)'
  <2>1. refs = 0
    BY <1>6 DEF Free, FreeInv, Freeing
  <2>2. pc[u] \in {"idle", "freeing"}
    BY <2>1, NobodyLeft
  <2>3. QED
    BY <1>6, <2>2 DEF Free, Live, TypeOK
<1>7. ASSUME NEW t \in Threads, WaitSucceeds(t) \/ WaitFails(t)
      PROVE  Live(u)'
  <2>1. \A success \in BOOLEAN : AfterWait(t, success) \notin {"removing", "data"}
    BY <1>7, WaitEnds DEF WaitSucceeds, WaitFails
  <2>2. QED
    BY <1>7, <2>1, StaysLive DEF WaitSucceeds, WaitFails, TypeOK
<1>8. ASSUME NEW t \in Threads,
             \/ WritePost(t) \/ Restore(t) \/ PeekData(t)
             \/ \E kind \in WaitCalls, infinite \in BOOLEAN : BeginWait(t, kind, infinite)
      PROVE  Live(u)'
  BY <1>8, StaysLive DEF WritePost, Restore, PeekData, BeginWait, TypeOK
<1>9. ASSUME NEW t \in Threads, Attach(t) \/ DetachCheck(t) \/ DetachDrop(t)
      PROVE  Live(u)'
  BY <1>9, StaysLive DEF Attach, DetachCheck, DetachDrop, TypeOK
<1>10. CASE UNCHANGED vars
  BY <1>10, StaysLive DEF vars
<1>11. QED
  BY <1>1, <1>2, <1>3, <1>4, <1>5, <1>6, <1>7, <1>8, <1>9, <1>10 DEF Next, Step
-----------------------------------------------------------------------------
LEMMA InvNext == IInv /\ [Next]_vars => IInv'
BY TypeNext, RefNext, FreeNext, CallNext, ScanNext, TokensNext, PointersNext DEF IInv

\* IInv is inductive.
THEOREM Invariance == Spec => []IInv
BY InvInit, InvNext, PTL DEF Spec

\* Every variable stays in its type.
THEOREM TypeCorrect == Spec => []TypeOK
<1>1. IInv => TypeOK
  BY DEF IInv
<1>2. QED
  BY <1>1, Invariance, PTL

\* No message is ever without a token (msg_queue.c:143-189 over the posts of
\* link_list.c:588), for any number of writers, readers, waits, peeks and
\* searches.
THEOREM TokensKept == Spec => []MessagesHaveTokens
<1>1. IInv => MessagesHaveTokens
  BY DEF IInv
<1>2. QED
  BY <1>1, Invariance, PTL

\* The thread whose msgQueueDetach reaches zero frees the queue alone, once.
THEOREM FreeIsAlone == Spec => []FreedAlone
<1>1. IInv => FreedAlone
  <2> SUFFICES ASSUME IInv, NEW t \in Threads, freed \/ pc[t] = "freeing"
               PROVE  attached = {} /\ \A u \in Threads \ {t} : pc[u] = "idle"
    BY DEF FreedAlone
  <2>1. refs = 0
    BY DEF IInv, FreeInv, Freeing
  <2>2. attached = {} /\ \A u \in Threads : pc[u] \in {"idle", "freeing"}
    BY <2>1, NobodyLeft DEF IInv
  <2>3. QED
    BY <2>2 DEF IInv, FreeInv, Freeing
<1>2. QED
  BY <1>1, Invariance, PTL

\* Where nobody else removes from a list while a thread peeks or searches it, no
\* pointer of msgQueuePeek or msgQueueFind is followed after its node is gone,
\* and a peek borrows the message the next read returns.
THEOREM NoStalePointer ==
  ASSUME SoleScanner
  PROVE  Spec => []PointersLive
<1>1. IInv => PointersLive
  BY DEF IInv
<1>2. QED
  BY <1>1, Invariance, PTL
-----------------------------------------------------------------------------
(* Order.  DeliveredAcrossInOrder speaks of what threads have read only.  It   *)
(* is inductive with what the lists still hold, and with written, the order    *)
(* against which both are measured.                                            *)

\* The messages of s are numbered upwards.
Rises(s) == \A i, j \in 1 .. Len(s) : i < j => s[i][2] < s[j][2]

\* Messages are numbered as they are written, and whatever is linked or was read
\* has been written.
NumberInv ==
  /\ \A n \in 1 .. Len(written) : written[n][2] = n
  /\ \A l \in Lists : \A i \in 1 .. Len(list[l]) : \E n \in 1 .. Len(written) : list[l][i] = written[n]
  /\ \A t \in Threads : \A i \in 1 .. Len(got[t]) : \E n \in 1 .. Len(written) : got[t][i] = written[n]

\* A list holds messages in the order of their writing, and what a thread has read
\* was written in that order and before what is left in its list.
OrderInv ==
  /\ \A l \in Lists : Rises(list[l])
  /\ \A t \in Threads :
       /\ Rises(got[t])
       /\ \A i \in 1 .. Len(got[t]), j \in 1 .. Len(list[ReadList(t)]) :
            got[t][i][2] < list[ReadList(t)][j][2]

\* The owner writes to one list of a pair and reads from the other.
SideInv ==
  bidir =>
    /\ \A l \in Lists : \A i \in 1 .. Len(list[l]) : list[l][i][1] = Owner <=> l = "out"
    /\ \A t \in Threads : \A i \in 1 .. Len(got[t]) : got[t][i][1] = Owner <=> t # Owner

HistoryInv == NumberInv /\ OrderInv /\ SideInv

\* The messages of s, and what t has read or found.
In(s) == {s[i] : i \in 1 .. Len(s)}
KeptBy(t) == In(got[t]) \cup found[t]

\* A message is in one list or with one thread, which read it or found it, and
\* until the queue is freed there is none that is nowhere.
OwnInv ==
  /\ \A t \in Threads : In(got[t]) \cap found[t] = {}
  /\ \A t \in Threads : \A m \in found[t] : \E n \in 1 .. Len(written) : m = written[n]
  /\ \A t, u \in Threads : t # u => KeptBy(t) \cap KeptBy(u) = {}
  /\ \A l \in Lists, t \in Threads : In(list[l]) \cap KeptBy(t) = {}
  /\ \A k, l \in Lists : k # l => In(list[k]) \cap In(list[l]) = {}
  /\ ~freed => \A n \in 1 .. Len(written) :
       \/ \E l \in Lists : written[n] \in In(list[l])
       \/ \E t \in Threads : written[n] \in KeptBy(t)

HistoryVars == <<list, got, written, bidir>>

LEMMA SeqFacts ==
  ASSUME NEW S, NEW s \in Seq(S)
  PROVE  /\ Len(s) \in Nat /\ DOMAIN s = 1 .. Len(s)
         /\ \A i \in 1 .. Len(s) : s[i] \in S
BY LenProperties, ElementOfSeq

LEMMA Typed ==
  ASSUME TypeOK
  PROVE  /\ Len(written) \in Nat
         /\ \A n \in 1 .. Len(written) : written[n] \in Messages /\ written[n][2] \in Nat
         /\ \A l \in Lists : /\ list[l] \in Seq(Messages) /\ Len(list[l]) \in Nat
                             /\ \A i \in 1 .. Len(list[l]) : list[l][i] \in Messages /\ list[l][i][2] \in Nat
         /\ \A t \in Threads : /\ got[t] \in Seq(Messages) /\ Len(got[t]) \in Nat
                               /\ \A i \in 1 .. Len(got[t]) : got[t][i] \in Messages /\ got[t][i][2] \in Nat
<1>1. \A m \in Messages : m[2] \in Nat
  BY QueueConstants DEF Messages
<1>2. \A s \in Seq(Messages) : Len(s) \in Nat /\ \A i \in 1 .. Len(s) : s[i] \in Messages
  BY SeqFacts
<1> QED BY <1>1, <1>2 DEF TypeOK

\* The messages of r are some of those of s, in the same order.
Thins(e, r, s) ==
  /\ e \in [1 .. Len(r) -> 1 .. Len(s)]
  /\ \A i, j \in 1 .. Len(r) : i < j => e[i] < e[j]
  /\ \A i \in 1 .. Len(r) : r[i] = s[e[i]]

LEMMA ThinsItself ==
  ASSUME NEW s
  PROVE  \E e : Thins(e, s, s)
<1> DEFINE e == [i \in 1 .. Len(s) |-> i]
<1>1. Thins(e, s, s)
  BY DEF Thins
<1> QED BY <1>1

LEMMA ThinsTail ==
  ASSUME NEW S, NEW s \in Seq(S), s # <<>>
  PROVE  \E e : Thins(e, Tail(s), s)
<1> DEFINE e == [i \in 1 .. Len(Tail(s)) |-> i + 1]
<1>1. /\ Len(s) \in Nat /\ Len(Tail(s)) = Len(s) - 1 /\ Len(s) > 0
      /\ \A i \in 1 .. Len(s) - 1 : Tail(s)[i] = s[i + 1]
  BY HeadTailProperties, LenProperties, EmptySeq
<1>2. Thins(e, Tail(s), s)
  <2>1. \A i \in 1 .. Len(Tail(s)) : e[i] = i + 1 /\ e[i] \in 1 .. Len(s)
    BY <1>1
  <2>2. e \in [1 .. Len(Tail(s)) -> 1 .. Len(s)]
    BY <2>1
  <2> HIDE DEF e
  <2> QED BY <1>1, <2>1, <2>2 DEF Thins
<1> QED BY <1>2

\* Unlinking m leaves the others in their order.
LEMMA WithoutIs ==
  ASSUME NEW S, NEW s \in Seq(S), NEW m, \E i \in 1 .. Len(s) : s[i] = m
  PROVE  LET r == Without(s, m) IN
         \E k \in 1 .. Len(s) :
           /\ s[k] = m /\ r \in Seq(S) /\ Len(r) = Len(s) - 1
           /\ \A j \in 1 .. Len(s) - 1 : r[j] = IF j < k THEN s[j] ELSE s[j + 1]
<1> DEFINE k == CHOOSE k \in 1 .. Len(s) : s[k] = m
           r == [j \in 1 .. Len(s) - 1 |-> IF j < k THEN s[j] ELSE s[j + 1]]
<1>1. k \in 1 .. Len(s) /\ s[k] = m
  OBVIOUS
<1>2. Without(s, m) = r
  BY DEF Without
<1>3. Len(s) \in Nat /\ Len(s) - 1 \in Nat /\ \A i \in 1 .. Len(s) : s[i] \in S
  BY SeqFacts
<1> HIDE DEF k
<1>4. r \in [1 .. Len(s) - 1 -> S]
  BY <1>1, <1>3
<1>5. r \in Seq(S) /\ Len(r) = Len(s) - 1
  <2> HIDE DEF r
  <2>1. r \in Seq(S)
    BY <1>3, <1>4, SeqDef
  <2> QED BY <1>3, <1>4, <2>1, LenProperties
<1> QED BY <1>1, <1>2, <1>5

LEMMA ThinsWithout ==
  ASSUME NEW S, NEW s \in Seq(S), NEW m
  PROVE  \E e : Thins(e, Without(s, m), s)
<1>1. CASE ~ \E i \in 1 .. Len(s) : s[i] = m
  BY <1>1, ThinsItself DEF Without
<1>2. CASE \E i \in 1 .. Len(s) : s[i] = m
  <2> DEFINE r == Without(s, m)
  <2>1. PICK k \in 1 .. Len(s) :
           /\ s[k] = m /\ r \in Seq(S) /\ Len(r) = Len(s) - 1
           /\ \A j \in 1 .. Len(s) - 1 : r[j] = IF j < k THEN s[j] ELSE s[j + 1]
    BY <1>2, WithoutIs
  <2> DEFINE e == [j \in 1 .. Len(r) |-> IF j < k THEN j ELSE j + 1]
  <2>2. Len(s) \in Nat
    BY SeqFacts
  <2> HIDE DEF r
  <2>3. \A j \in 1 .. Len(r) : e[j] = (IF j < k THEN j ELSE j + 1) /\ e[j] \in 1 .. Len(s)
    BY <2>1, <2>2
  <2>4. e \in [1 .. Len(r) -> 1 .. Len(s)]
    BY <2>3
  <2> HIDE DEF e
  <2>5. Thins(e, r, s)
    BY <2>1, <2>2, <2>3, <2>4 DEF Thins
  <2> QED BY <2>5 DEF r
<1> QED BY <1>1, <1>2

LEMMA Thinned ==
  ASSUME NEW r, NEW s, NEW e, Thins(e, r, s)
  PROVE  /\ \A i \in 1 .. Len(r) : \E j \in 1 .. Len(s) : r[i] = s[j]
         /\ Rises(s) => Rises(r)
<1>1. \A i \in 1 .. Len(r) : e[i] \in 1 .. Len(s) /\ r[i] = s[e[i]]
  BY DEF Thins
<1> QED BY <1>1 DEF Thins, Rises

\* Messages leave lists, or nothing happens.
LEMMA HistoryThinned ==
  ASSUME HistoryInv, UNCHANGED <<written, got, bidir>>, \A l \in Lists : \E e : Thins(e, list'[l], list[l])
  PROVE  HistoryInv'
<1>1. \A l \in Lists : /\ \A i \in 1 .. Len(list'[l]) : \E j \in 1 .. Len(list[l]) : list'[l][i] = list[l][j]
                       /\ Rises(list[l]) => Rises(list'[l])
  BY Thinned
<1>2. NumberInv'
  BY <1>1 DEF HistoryInv, NumberInv
<1>3. SideInv'
  BY <1>1 DEF HistoryInv, SideInv
<1>4. \A t \in Threads : ReadList(t)' = ReadList(t) /\ ReadList(t) \in Lists
  BY ListChoice DEF ReadList
<1>5. OrderInv'
  <2>1. \A t \in Threads : Rises(got'[t])
    BY DEF HistoryInv, OrderInv
  <2>2. ASSUME NEW t \in Threads, NEW i \in 1 .. Len(got[t]), NEW j \in 1 .. Len(list'[ReadList(t)])
        PROVE  got[t][i][2] < list'[ReadList(t)][j][2]
    <3>1. PICK k \in 1 .. Len(list[ReadList(t)]) : list'[ReadList(t)][j] = list[ReadList(t)][k]
      BY <1>1, <1>4
    <3> QED BY <3>1 DEF HistoryInv, OrderInv
  <2> QED BY <1>1, <1>4, <2>1, <2>2 DEF HistoryInv, OrderInv
<1> QED BY <1>2, <1>3, <1>5 DEF HistoryInv

LEMMA HistoryInit == Init => HistoryInv
<1> SUFFICES ASSUME Init PROVE HistoryInv
  OBVIOUS
<1>1. /\ written = <<>> /\ Len(written) = 0
      /\ \A l \in Lists : list[l] = <<>> /\ Len(list[l]) = 0
      /\ \A t \in Threads : got[t] = <<>> /\ Len(got[t]) = 0
  BY DEF Init
<1> QED BY <1>1 DEF HistoryInv, NumberInv, OrderInv, SideInv, Rises

LEMMA Appended ==
  ASSUME NEW S, NEW s \in Seq(S), NEW m \in S
  PROVE  /\ Append(s, m) \in Seq(S) /\ Len(Append(s, m)) = Len(s) + 1 /\ Len(s) \in Nat
         /\ \A i \in 1 .. Len(s) : Append(s, m)[i] = s[i]
         /\ Append(s, m)[Len(s) + 1] = m
BY AppendProperties, LenProperties

LEMMA RisesAppended ==
  ASSUME NEW s \in Seq(Messages), Rises(s), NEW m \in Messages, \A i \in 1 .. Len(s) : s[i][2] < m[2]
  PROVE  Rises(Append(s, m))
<1> DEFINE r == Append(s, m)
<1>1. /\ Len(r) = Len(s) + 1 /\ Len(s) \in Nat
      /\ \A i \in 1 .. Len(s) : r[i] = s[i]
      /\ r[Len(s) + 1] = m
  BY Appended
<1> HIDE DEF r
<1>2. ASSUME NEW i \in 1 .. Len(r), NEW j \in 1 .. Len(r), i < j PROVE r[i][2] < r[j][2]
  <2>1. i \in 1 .. Len(s) /\ r[i] = s[i]
    BY <1>1, <1>2
  <2>2. CASE j = Len(s) + 1
    BY <1>1, <2>1, <2>2
  <2>3. CASE j \in 1 .. Len(s)
    BY <1>1, <1>2, <2>1, <2>3 DEF Rises
  <2> QED BY <1>1, <2>2, <2>3
<1> QED BY <1>2 DEF Rises, r

LEMMA HistoryWrite ==
  ASSUME TypeOK, HistoryInv, NEW t \in Threads, WriteLink(t)
  PROVE  HistoryInv'
<1> DEFINE n == Len(written) + 1
           m == <<t, n>>
           w == WriteList(t)
<1>1. /\ written' = Append(written, m) /\ list' = [list EXCEPT ![w] = Append(list[w], m)]
      /\ got' = got /\ bidir' = bidir /\ Len(written) < MaxMessages
  BY DEF WriteLink, queueVars
<1>2. w \in Lists /\ list \in [Lists -> Seq(Messages)] /\ written \in Seq(Messages) /\ Len(written) \in Nat
  BY ListChoice, Typed DEF TypeOK
<1>3. m \in Messages /\ m[1] = t /\ m[2] = n
  BY <1>1, <1>2, QueueConstants DEF Messages
<1> HIDE DEF m, w
<1>4. /\ Len(written') = n /\ written'[n] = m
      /\ \A i \in 1 .. Len(written) : written'[i] = written[i]
  BY <1>1, <1>2, <1>3, Appended
<1>5. /\ list'[w] = Append(list[w], m) /\ Len(list'[w]) = Len(list[w]) + 1 /\ list'[w][Len(list[w]) + 1] = m
      /\ Len(list[w]) \in Nat
      /\ \A i \in 1 .. Len(list[w]) : list'[w][i] = list[w][i]
      /\ \A l \in Lists \ {w} : list'[l] = list[l]
  BY <1>1, <1>2, <1>3, Appended
<1>6. ASSUME NEW l \in Lists, NEW i \in 1 .. Len(list'[l])
      PROVE  (i \in 1 .. Len(list[l]) /\ list'[l][i] = list[l][i]) \/ (l = w /\ list'[l][i] = m)
  BY <1>5
<1>7. \A i \in 1 .. Len(written) : written[i][2] = i
  BY DEF HistoryInv, NumberInv
<1>8. /\ \A l \in Lists : \A i \in 1 .. Len(list[l]) : \E k \in 1 .. Len(written) : list[l][i] = written[k]
      /\ \A u \in Threads : \A i \in 1 .. Len(got[u]) : \E k \in 1 .. Len(written) : got[u][i] = written[k]
  BY DEF HistoryInv, NumberInv
<1>9. NumberInv'
  <2>1. \A i \in 1 .. Len(written') : written'[i][2] = i
    BY <1>2, <1>3, <1>4, <1>7
  <2>2. \A k \in 1 .. Len(written) : k \in 1 .. Len(written') /\ written'[k] = written[k]
    BY <1>2, <1>4
  <2>3. n \in 1 .. Len(written') /\ written'[n] = m
    BY <1>2, <1>4
  <2>4. \A l \in Lists : \A i \in 1 .. Len(list'[l]) : \E k \in 1 .. Len(written') : list'[l][i] = written'[k]
    BY <1>6, <1>8, <2>2, <2>3
  <2>5. \A u \in Threads : \A i \in 1 .. Len(got'[u]) : \E k \in 1 .. Len(written') : got'[u][i] = written'[k]
    <3> TAKE u \in Threads
    <3> TAKE i \in 1 .. Len(got'[u])
    <3>1. got'[u] = got[u] /\ i \in 1 .. Len(got[u])
      BY <1>1
    <3> QED BY <1>8, <2>2, <3>1
  <2> QED BY <2>1, <2>4, <2>5 DEF NumberInv
<1>10. /\ \A l \in Lists : \A i \in 1 .. Len(list[l]) : list[l][i][2] < m[2]
       /\ \A u \in Threads : \A i \in 1 .. Len(got[u]) : got[u][i][2] < m[2]
  <2>1. \A k \in 1 .. Len(written) : written[k][2] < m[2]
    <3> TAKE k \in 1 .. Len(written)
    <3>1. written[k][2] = k
      BY <1>7
    <3> QED BY <1>2, <1>3, <3>1
  <2> QED BY <1>8, <2>1
<1>11. OrderInv'
  <2>1. ASSUME NEW l \in Lists PROVE Rises(list'[l])
    <3>1. CASE l = w
      BY <3>1, <1>2, <1>3, <1>5, <1>10, RisesAppended DEF HistoryInv, OrderInv
    <3>2. CASE l # w
      BY <3>2, <1>5 DEF HistoryInv, OrderInv
    <3> QED BY <3>1, <3>2
  <2>2. \A u \in Threads : ReadList(u)' = ReadList(u) /\ ReadList(u) \in Lists
    BY <1>1, ListChoice DEF ReadList
  <2>3. ASSUME NEW u \in Threads, NEW i \in 1 .. Len(got[u]), NEW j \in 1 .. Len(list'[ReadList(u)])
        PROVE  got[u][i][2] < list'[ReadList(u)][j][2]
    <3>1. CASE j \in 1 .. Len(list[ReadList(u)]) /\ list'[ReadList(u)][j] = list[ReadList(u)][j]
      BY <3>1 DEF HistoryInv, OrderInv
    <3>2. CASE list'[ReadList(u)][j] = m
      BY <3>2, <1>10
    <3> QED BY <1>6, <2>2, <3>1, <3>2
  <2> QED BY <1>1, <2>1, <2>2, <2>3 DEF HistoryInv, OrderInv
<1>12. SideInv'
  <2> SUFFICES ASSUME bidir PROVE SideInv'
    BY <1>1 DEF SideInv
  <2>1. m[1] = Owner <=> w = "out"
    BY <1>3 DEF w, WriteList
  <2>2. \A l \in Lists : \A i \in 1 .. Len(list'[l]) : list'[l][i][1] = Owner <=> l = "out"
    BY <1>6, <2>1 DEF HistoryInv, SideInv
  <2> QED BY <1>1, <2>2 DEF HistoryInv, SideInv
<1> QED BY <1>9, <1>11, <1>12 DEF HistoryInv

LEMMA HistoryRead ==
  ASSUME TypeOK, HistoryInv, NEW t \in Threads, ReadShift(t)
  PROVE  HistoryInv'
<1> DEFINE l == ReadList(t)
           h == Head(list[l])
<1>1. l \in Lists /\ list \in [Lists -> Seq(Messages)] /\ got \in [Threads -> Seq(Messages)]
  BY ListChoice DEF TypeOK
<1>2. written' = written /\ bidir' = bidir
  BY DEF ReadShift, queueVars
<1>3. CASE list[l] = <<>>
  <2>1. UNCHANGED <<list, got>>
    BY <1>3 DEF ReadShift
  <2> QED BY <1>2, <2>1, HistoryThinned, ThinsItself
<1>4. CASE list[l] # <<>>
  <2>1. list' = [list EXCEPT ![l] = Tail(list[l])] /\ got' = [got EXCEPT ![t] = Append(got[t], h)]
    BY <1>4 DEF ReadShift
  <2> HIDE DEF l
  <2>2. /\ h = list[l][1] /\ h \in Messages /\ Len(list[l]) \in Nat /\ Len(list[l]) > 0
        /\ Len(Tail(list[l])) = Len(list[l]) - 1
        /\ \A j \in 1 .. Len(list[l]) - 1 : Tail(list[l])[j] = list[l][j + 1]
    BY <1>1, <1>4, HeadTailProperties, LenProperties, EmptySeq
  <2> HIDE DEF h
  <2>3. /\ list'[l] = Tail(list[l]) /\ \A k \in Lists \ {l} : list'[k] = list[k]
        /\ got'[t] = Append(got[t], h) /\ \A u \in Threads \ {t} : got'[u] = got[u]
    BY <1>1, <2>1
  <2>4. /\ Len(got'[t]) = Len(got[t]) + 1 /\ Len(got[t]) \in Nat
        /\ \A i \in 1 .. Len(got[t]) : got'[t][i] = got[t][i]
        /\ got'[t][Len(got[t]) + 1] = h
    BY <1>1, <2>2, <2>3, Appended
  <2>5. ASSUME NEW u \in Threads, NEW i \in 1 .. Len(got'[u])
        PROVE  (i \in 1 .. Len(got[u]) /\ got'[u][i] = got[u][i]) \/ (u = t /\ got'[u][i] = h)
    BY <2>3, <2>4
  <2>6. ASSUME NEW k \in Lists, NEW j \in 1 .. Len(list'[k])
        PROVE  \E i \in 1 .. Len(list[k]) : list'[k][j] = list[k][i] /\ (k = l => i > 1)
    <3>1. CASE k = l
      <4> DEFINE i == j + 1
      <4>0. Len(list'[k]) = Len(list[l]) - 1
        BY <2>2, <2>3, <3>1
      <4>1. j \in 1 .. Len(list[l]) - 1 /\ i \in 1 .. Len(list[l]) /\ i > 1
        BY <2>2, <4>0
      <4>2. list'[l][j] = list[l][i]
        BY <2>2, <2>3, <4>1
      <4> HIDE DEF i
      <4> QED BY <3>1, <4>1, <4>2
    <3>2. CASE k # l
      BY <2>3, <3>2
    <3> QED BY <3>1, <3>2
  <2>7. 1 \in 1 .. Len(list[l])
    BY <2>2
  <2>8. NumberInv'
    <3>1. \A k \in Lists : \A j \in 1 .. Len(list'[k]) : \E n \in 1 .. Len(written) : list'[k][j] = written[n]
      BY <2>6 DEF HistoryInv, NumberInv
    <3>2. \E n \in 1 .. Len(written) : h = written[n]
      BY <1>1, <2>2, <2>7 DEF HistoryInv, NumberInv
    <3>3. \A u \in Threads : \A i \in 1 .. Len(got'[u]) : \E n \in 1 .. Len(written) : got'[u][i] = written[n]
      <4> TAKE u \in Threads
      <4> TAKE i \in 1 .. Len(got'[u])
      <4>1. CASE i \in 1 .. Len(got[u]) /\ got'[u][i] = got[u][i]
        BY <4>1 DEF HistoryInv, NumberInv
      <4>2. CASE got'[u][i] = h
        BY <3>2, <4>2
      <4> QED BY <2>5, <4>1, <4>2
    <3> QED BY <1>2, <3>1, <3>3 DEF HistoryInv, NumberInv
  <2>9. \A u \in Threads : ReadList(u)' = ReadList(u) /\ ReadList(u) \in Lists
    BY <1>2, ListChoice DEF ReadList
  <2>10. \A k \in Lists : Rises(list'[k])
    <3> TAKE k \in Lists
    <3>1. CASE k = l
      BY <1>1, <1>4, <2>3, <3>1, ThinsTail, Thinned DEF HistoryInv, OrderInv
    <3>2. CASE k # l
      BY <2>3, <3>2 DEF HistoryInv, OrderInv
    <3> QED BY <3>1, <3>2
  <2>11. \A u \in Threads : Rises(got'[u])
    <3> TAKE u \in Threads
    <3>1. CASE u = t
      <4>1. \A i \in 1 .. Len(got[t]) : got[t][i][2] < h[2]
        BY <2>2, <2>7 DEF HistoryInv, OrderInv, l
      <4> QED BY <1>1, <2>2, <2>3, <3>1, <4>1, RisesAppended DEF HistoryInv, OrderInv
    <3>2. CASE u # t
      BY <2>3, <3>2 DEF HistoryInv, OrderInv
    <3> QED BY <3>1, <3>2
  <2>12. ASSUME NEW u \in Threads, NEW i \in 1 .. Len(got'[u]), NEW j \in 1 .. Len(list'[ReadList(u)])
         PROVE  got'[u][i][2] < list'[ReadList(u)][j][2]
    <3>1. PICK k \in 1 .. Len(list[ReadList(u)]) :
            list'[ReadList(u)][j] = list[ReadList(u)][k] /\ (ReadList(u) = l => k > 1)
      BY <2>6, <2>9
    <3>2. CASE i \in 1 .. Len(got[u]) /\ got'[u][i] = got[u][i]
      BY <3>1, <3>2 DEF HistoryInv, OrderInv
    <3>3. CASE u = t /\ got'[u][i] = h
      <4>1. k \in 1 .. Len(list[l]) /\ 1 < k /\ list'[ReadList(u)][j] = list[l][k]
        BY <3>1, <3>3 DEF l
      <4>2. list[l][1][2] < list[l][k][2]
        BY <1>1, <2>7, <4>1 DEF HistoryInv, OrderInv, Rises
      <4> QED BY <2>2, <3>3, <4>1, <4>2
    <3> QED BY <2>5, <3>2, <3>3
  <2>13. OrderInv'
    BY <2>9, <2>10, <2>11, <2>12 DEF OrderInv
  <2>14. SideInv'
    <3> SUFFICES ASSUME bidir PROVE SideInv'
      BY <1>2 DEF SideInv
    <3>1. \A k \in Lists : \A j \in 1 .. Len(list'[k]) : list'[k][j][1] = Owner <=> k = "out"
      BY <2>6 DEF HistoryInv, SideInv
    <3>2. h[1] = Owner <=> t # Owner
      BY <1>1, <2>2, <2>7 DEF HistoryInv, SideInv, l, ReadList
    <3>3. \A u \in Threads : \A i \in 1 .. Len(got'[u]) : got'[u][i][1] = Owner <=> u # Owner
      BY <2>5, <3>2 DEF HistoryInv, SideInv
    <3> QED BY <1>2, <3>1, <3>3 DEF SideInv
  <2> QED BY <2>8, <2>13, <2>14 DEF HistoryInv
<1> QED BY <1>3, <1>4

LEMMA HistoryNext ==
  ASSUME TypeOK, HistoryInv, [Next]_vars
  PROVE  HistoryInv'
<1>1. ASSUME NEW t \in Threads, WriteLink(t) PROVE HistoryInv'
  BY <1>1, HistoryWrite
<1>2. ASSUME NEW t \in Threads, ReadShift(t) PROVE HistoryInv'
  BY <1>2, HistoryRead
<1>3. ASSUME NEW t \in Threads, FindRemove(t) PROVE HistoryInv'
  <2>1. /\ UNCHANGED <<written, got, bidir>> /\ list \in [Lists -> Seq(Messages)] /\ ReadList(t) \in Lists
        /\ list' = [list EXCEPT ![ReadList(t)] = Without(list[ReadList(t)], node[t])]
    BY <1>3, ListChoice DEF FindRemove, queueVars, TypeOK
  <2>2. ASSUME NEW l \in Lists PROVE \E e : Thins(e, list'[l], list[l])
    <3>1. CASE l = ReadList(t)
      BY <2>1, <3>1, ThinsWithout
    <3>2. CASE l # ReadList(t)
      BY <2>1, <3>2, ThinsItself
    <3> QED BY <3>1, <3>2
  <2> QED BY <2>1, <2>2, HistoryThinned
<1>4. ASSUME NEW t \in Threads, Free(t) PROVE HistoryInv'
  <2>1. UNCHANGED <<written, got, bidir>> /\ \A l \in Lists : list'[l] = <<>>
    BY <1>4 DEF Free, historyVars
  <2>2. \A s : Thins(<<>>, <<>>, s)
    BY DEF Thins
  <2> QED BY <2>1, <2>2, HistoryThinned
<1>5. ASSUME UNCHANGED HistoryVars PROVE HistoryInv'
  BY <1>5, HistoryThinned, ThinsItself DEF HistoryVars
<1>6. ASSUME NEW t \in Threads,
             \/ WritePost(t) \/ WaitSucceeds(t) \/ WaitFails(t) \/ Restore(t) \/ PeekFirst(t) \/ PeekData(t)
             \/ DetachDrop(t) \/ FindScan(t) \/ Attach(t) \/ DetachCheck(t)
             \/ \E kind \in WaitCalls, infinite \in BOOLEAN : BeginWait(t, kind, infinite)
      PROVE  UNCHANGED HistoryVars
  BY <1>6 DEF WritePost, WaitSucceeds, WaitFails, Restore, PeekFirst, PeekData, DetachDrop, FindScan, Attach,
     DetachCheck, BeginWait, queueVars, historyVars, HistoryVars
<1>7. UNCHANGED vars => UNCHANGED HistoryVars
  BY DEF vars, HistoryVars
<1> QED BY <1>1, <1>2, <1>3, <1>4, <1>5, <1>6, <1>7 DEF Next, Step

\* Messages cross from the owner to the others and back and never return to their
\* side, and every reader gets what one writer wrote in the order of the writes.
THEOREM OrderKept == Spec => []DeliveredAcrossInOrder
<1>1. HistoryInv => DeliveredAcrossInOrder
  BY DEF HistoryInv, OrderInv, SideInv, Rises, DeliveredAcrossInOrder
<1>2. TypeOK /\ HistoryInv /\ [Next]_vars => HistoryInv'
  BY HistoryNext
<1> QED BY <1>1, <1>2, HistoryInit, TypeCorrect, PTL DEF Spec
-----------------------------------------------------------------------------
(* Ownership, by sets of messages instead of their occurrences: HistoryInv      *)
(* already says that no sequence holds a message twice.                        *)

OwnVars == <<list, got, found, written, freed>>

LEMMA RisesOnce ==
  ASSUME NEW s \in Seq(Messages), Rises(s), NEW i \in 1 .. Len(s), NEW j \in 1 .. Len(s), s[i] = s[j]
  PROVE  i = j
<1>1. s[i][2] \in Nat /\ Len(s) \in Nat
  BY SeqFacts, QueueConstants DEF Messages
<1>2. CASE i < j
  BY <1>1, <1>2 DEF Rises
<1>3. CASE j < i
  BY <1>1, <1>3 DEF Rises
<1> QED BY <1>1, <1>2, <1>3

LEMMA InAppended ==
  ASSUME NEW S, NEW s \in Seq(S), NEW m \in S
  PROVE  In(Append(s, m)) = In(s) \cup {m}
<1> DEFINE r == Append(s, m)
<1>1. /\ Len(r) = Len(s) + 1 /\ Len(s) \in Nat
      /\ \A i \in 1 .. Len(s) : r[i] = s[i]
      /\ r[Len(s) + 1] = m
  BY Appended
<1> HIDE DEF r
<1>2. \A i \in 1 .. Len(r) : i \in 1 .. Len(s) \/ i = Len(s) + 1
  BY <1>1
<1>3. (\A i \in 1 .. Len(s) : i \in 1 .. Len(r)) /\ Len(s) + 1 \in 1 .. Len(r)
  BY <1>1
<1>4. In(r) \subseteq In(s) \cup {m}
  BY <1>1, <1>2 DEF In
<1>5. In(s) \cup {m} \subseteq In(r)
  BY <1>1, <1>3 DEF In
<1> QED BY <1>4, <1>5 DEF r

LEMMA InTail ==
  ASSUME NEW s \in Seq(Messages), s # <<>>, Rises(s)
  PROVE  Head(s) \in In(s) /\ In(Tail(s)) = In(s) \ {Head(s)}
<1>1. /\ Head(s) = s[1] /\ Len(s) \in Nat /\ Len(s) > 0 /\ Len(Tail(s)) = Len(s) - 1
      /\ \A j \in 1 .. Len(s) - 1 : Tail(s)[j] = s[j + 1]
  BY HeadTailProperties, LenProperties, EmptySeq
<1>2. 1 \in 1 .. Len(s)
  BY <1>1
<1>3. ASSUME NEW j \in 1 .. Len(Tail(s)) PROVE Tail(s)[j] \in In(s) \ {Head(s)}
  <2> DEFINE i == j + 1
  <2>1. i \in 1 .. Len(s) /\ i # 1 /\ Tail(s)[j] = s[i]
    BY <1>1
  <2> HIDE DEF i
  <2>2. s[i] # s[1]
    BY <1>2, <2>1, RisesOnce
  <2> QED BY <1>1, <2>1, <2>2 DEF In
<1>4. ASSUME NEW i \in 1 .. Len(s), s[i] # Head(s) PROVE s[i] \in In(Tail(s))
  <2> DEFINE j == i - 1
  <2>1. j \in 1 .. Len(s) - 1 /\ j + 1 = i
    BY <1>1, <1>4
  <2> HIDE DEF j
  <2>2. Tail(s)[j] = s[i] /\ j \in 1 .. Len(Tail(s))
    BY <1>1, <2>1
  <2> QED BY <2>2 DEF In
<1>5. In(Tail(s)) \subseteq In(s) \ {Head(s)}
  BY <1>3 DEF In
<1>6. In(s) \ {Head(s)} \subseteq In(Tail(s))
  BY <1>4 DEF In
<1> QED BY <1>1, <1>2, <1>5, <1>6 DEF In

LEMMA InWithout ==
  ASSUME NEW s \in Seq(Messages), Rises(s), NEW m \in In(s)
  PROVE  In(Without(s, m)) = In(s) \ {m}
<1> DEFINE r == Without(s, m)
<1>1. \E i \in 1 .. Len(s) : s[i] = m
  BY DEF In
<1>2. PICK k \in 1 .. Len(s) :
        /\ s[k] = m /\ Len(r) = Len(s) - 1
        /\ \A j \in 1 .. Len(s) - 1 : r[j] = IF j < k THEN s[j] ELSE s[j + 1]
  BY <1>1, WithoutIs
<1> HIDE DEF r
<1>3. Len(s) \in Nat
  BY SeqFacts
<1>4. \A i \in 1 .. Len(s) : s[i] = m => i = k
  BY <1>2, RisesOnce
<1>5. ASSUME NEW j \in 1 .. Len(r) PROVE r[j] \in In(s) \ {m}
  <2> DEFINE i == IF j < k THEN j ELSE j + 1
  <2>1. i \in 1 .. Len(s) /\ i # k /\ r[j] = s[i]
    BY <1>2, <1>3
  <2> HIDE DEF i
  <2> QED BY <1>4, <2>1 DEF In
<1>6. ASSUME NEW i \in 1 .. Len(s), s[i] # m PROVE s[i] \in In(r)
  <2> DEFINE j == IF i < k THEN i ELSE i - 1
  <2>1. i # k
    BY <1>2, <1>6
  <2>2. j \in 1 .. Len(s) - 1 /\ (IF j < k THEN j ELSE j + 1) = i
    BY <1>3, <2>1
  <2> HIDE DEF j
  <2>3. r[j] = s[i] /\ j \in 1 .. Len(r)
    BY <1>2, <2>2
  <2> QED BY <2>3 DEF In
<1>7. In(r) \subseteq In(s) \ {m}
  BY <1>5 DEF In
<1>8. In(s) \ {m} \subseteq In(r)
  BY <1>6 DEF In
<1> QED BY <1>7, <1>8 DEF r

LEMMA OwnInit == Init => OwnInv
<1> SUFFICES ASSUME Init PROVE OwnInv
  OBVIOUS
<1>1. /\ Len(written) = 0
      /\ \A l \in Lists : In(list[l]) = {}
      /\ \A t \in Threads : In(got[t]) = {} /\ found[t] = {}
  BY DEF Init, In
<1>2. \A t \in Threads : KeptBy(t) = {}
  BY <1>1 DEF KeptBy
<1>3. 1 .. Len(written) = {}
  BY <1>1
<1> HIDE DEF Init
<1> QED BY <1>1, <1>2, <1>3, Zenon DEF OwnInv

LEMMA OwnParts ==
  ASSUME \A t \in Threads : In(got'[t]) \cap found'[t] = {},
         \A t \in Threads : \A m \in found'[t] : \E n \in 1 .. Len(written') : m = written'[n],
         \A t, u \in Threads : t # u => KeptBy(t)' \cap KeptBy(u)' = {},
         \A l \in Lists, t \in Threads : In(list'[l]) \cap KeptBy(t)' = {},
         \A k, l \in Lists : k # l => In(list'[k]) \cap In(list'[l]) = {},
         ~freed' => \A n \in 1 .. Len(written') :
           \/ \E l \in Lists : written'[n] \in In(list'[l])
           \/ \E t \in Threads : written'[n] \in KeptBy(t)'
  PROVE  OwnInv'
BY DEF OwnInv

LEMMA OwnKept ==
  ASSUME OwnInv, UNCHANGED OwnVars
  PROVE  OwnInv'
<1>1. list' = list /\ got' = got /\ found' = found /\ written' = written /\ freed' = freed
  BY DEF OwnVars
<1>2. \A t \in Threads : KeptBy(t)' = KeptBy(t)
  BY <1>1 DEF KeptBy
<1>3. /\ \A t \in Threads : In(got'[t]) \cap found'[t] = {}
      /\ \A t \in Threads : \A m \in found'[t] : \E n \in 1 .. Len(written') : m = written'[n]
  BY <1>1 DEF OwnInv
<1>4. /\ \A t, u \in Threads : t # u => KeptBy(t)' \cap KeptBy(u)' = {}
      /\ \A l \in Lists, t \in Threads : In(list'[l]) \cap KeptBy(t)' = {}
      /\ \A k, l \in Lists : k # l => In(list'[k]) \cap In(list'[l]) = {}
  BY <1>1, <1>2 DEF OwnInv
<1>5. ASSUME ~freed', NEW n \in 1 .. Len(written')
      PROVE  (\E l \in Lists : written'[n] \in In(list'[l])) \/ \E t \in Threads : written'[n] \in KeptBy(t)'
  BY <1>1, <1>2, <1>5 DEF OwnInv
<1> QED BY <1>3, <1>4, <1>5, OwnParts

\* What is in a list or was read has been written.
LEMMA AllWritten ==
  ASSUME HistoryInv
  PROVE  /\ \A l \in Lists : \A m \in In(list[l]) : \E n \in 1 .. Len(written) : m = written[n]
         /\ \A t \in Threads : \A m \in In(got[t]) : \E n \in 1 .. Len(written) : m = written[n]
BY DEF HistoryInv, NumberInv, In

LEMMA OwnWrite ==
  ASSUME TypeOK, HistoryInv, OwnInv, NEW t \in Threads, WriteLink(t)
  PROVE  OwnInv'
<1> DEFINE n == Len(written) + 1
           m == <<t, n>>
           w == WriteList(t)
<1>1. /\ written' = Append(written, m) /\ list' = [list EXCEPT ![w] = Append(list[w], m)]
      /\ UNCHANGED <<got, found, freed>> /\ Len(written) < MaxMessages
  BY DEF WriteLink, queueVars
<1>2. w \in Lists /\ list \in [Lists -> Seq(Messages)] /\ written \in Seq(Messages) /\ Len(written) \in Nat
  BY ListChoice, Typed DEF TypeOK
<1>3. m \in Messages /\ m[2] = n
  BY <1>1, <1>2, QueueConstants DEF Messages
<1> HIDE DEF m, w
<1>4. /\ Len(written') = n /\ written'[n] = m
      /\ \A i \in 1 .. Len(written) : written'[i] = written[i]
  BY <1>1, <1>2, <1>3, Appended
<1>5. \A i \in 1 .. Len(written) : written[i] # m
  <2> TAKE i \in 1 .. Len(written)
  <2>1. written[i][2] = i
    BY DEF HistoryInv, NumberInv
  <2> QED BY <2>1, <1>2, <1>3
<1>6. In(list'[w]) = In(list[w]) \cup {m} /\ \A l \in Lists \ {w} : list'[l] = list[l]
  BY <1>1, <1>2, <1>3, InAppended
<1>7. \A u \in Threads : KeptBy(u)' = KeptBy(u) /\ m \notin KeptBy(u)
  BY <1>1, <1>5, AllWritten DEF OwnInv, KeptBy
<1>8. \A l \in Lists : m \notin In(list[l])
  BY <1>5, AllWritten
<1>9. \A i \in 1 .. Len(written') : i \in 1 .. Len(written) \/ i = n
  BY <1>2, <1>4
<1>10. \A i \in 1 .. Len(written) : i \in 1 .. Len(written')
  BY <1>2, <1>4
<1>11. \A u \in Threads : \A x \in found'[u] : \E k \in 1 .. Len(written') : x = written'[k]
  BY <1>1, <1>4, <1>10 DEF OwnInv
<1>12. /\ \A u \in Threads : In(got'[u]) \cap found'[u] = {}
       /\ \A u, v \in Threads : u # v => KeptBy(u)' \cap KeptBy(v)' = {}
  BY <1>1, <1>7 DEF OwnInv
<1>13. \A l \in Lists : In(list'[l]) = IF l = w THEN In(list[w]) \cup {m} ELSE In(list[l])
  BY <1>6
<1>14. \A l \in Lists, u \in Threads : In(list'[l]) \cap KeptBy(u)' = {}
  BY <1>7, <1>13 DEF OwnInv
<1>15. \A k, l \in Lists : k # l => In(list'[k]) \cap In(list'[l]) = {}
  BY <1>8, <1>13 DEF OwnInv
<1>16. ASSUME ~freed', NEW k \in 1 .. Len(written')
       PROVE  (\E l \in Lists : written'[k] \in In(list'[l])) \/ \E u \in Threads : written'[k] \in KeptBy(u)'
  <2>1. CASE k = n
    BY <1>2, <1>4, <1>13, <2>1
  <2>2. CASE k \in 1 .. Len(written)
    <3>1. (\E l \in Lists : written[k] \in In(list[l])) \/ \E u \in Threads : written[k] \in KeptBy(u)
      BY <1>1, <1>16, <2>2 DEF OwnInv
    <3> QED BY <1>4, <1>7, <1>13, <2>2, <3>1
  <2> QED BY <1>9, <2>1, <2>2
<1>17. \A u \in Threads : In(got'[u]) \cap found'[u] = {}
  BY <1>12
<1>18. \A u, v \in Threads : u # v => KeptBy(u)' \cap KeptBy(v)' = {}
  BY <1>12
<1> QED BY <1>11, <1>14, <1>15, <1>16, <1>17, <1>18, OwnParts, Zenon

\* m moves from the list l to t.
LEMMA OwnMoved ==
  ASSUME OwnInv, NEW l \in Lists, NEW t \in Threads, NEW m \in In(list[l]), UNCHANGED <<written, freed>>,
         In(list'[l]) = In(list[l]) \ {m}, \A k \in Lists \ {l} : list'[k] = list[k],
         KeptBy(t)' = KeptBy(t) \cup {m}, \A u \in Threads \ {t} : KeptBy(u)' = KeptBy(u),
         \A u \in Threads : In(got'[u]) \cap found'[u] = {},
         \A u \in Threads : \A x \in found'[u] : \E n \in 1 .. Len(written) : x = written[n]
  PROVE  OwnInv'
<1>1. \A u, v \in Threads : u # v => KeptBy(u)' \cap KeptBy(v)' = {}
  BY DEF OwnInv
<1>2. \A k \in Lists, u \in Threads : In(list'[k]) \cap KeptBy(u)' = {}
  BY DEF OwnInv
<1>3. \A j, k \in Lists : j # k => In(list'[j]) \cap In(list'[k]) = {}
  BY DEF OwnInv
<1>4. ASSUME ~freed', NEW n \in 1 .. Len(written')
      PROVE  (\E k \in Lists : written'[n] \in In(list'[k])) \/ \E u \in Threads : written'[n] \in KeptBy(u)'
  <2>1. (\E k \in Lists : written[n] \in In(list[k])) \/ \E u \in Threads : written[n] \in KeptBy(u)
    BY <1>4 DEF OwnInv
  <2>2. CASE written[n] = m
    BY <2>2
  <2>3. CASE written[n] # m
    BY <2>1, <2>3
  <2> QED BY <2>2, <2>3
<1>5. \A u \in Threads : \A x \in found'[u] : \E n \in 1 .. Len(written') : x = written'[n]
  OBVIOUS
<1> QED BY <1>1, <1>2, <1>3, <1>4, <1>5, OwnParts, Zenon

LEMMA OwnRead ==
  ASSUME TypeOK, HistoryInv, OwnInv, NEW t \in Threads, ReadShift(t)
  PROVE  OwnInv'
<1> DEFINE l == ReadList(t)
           h == Head(list[l])
<1>1. /\ l \in Lists /\ list \in [Lists -> Seq(Messages)] /\ got \in [Threads -> Seq(Messages)]
      /\ Rises(list[l])
  BY ListChoice DEF TypeOK, HistoryInv, OrderInv
<1>2. UNCHANGED <<written, found, freed>>
  BY DEF ReadShift, queueVars
<1>3. CASE list[l] = <<>>
  <2>1. UNCHANGED <<list, got>>
    BY <1>3 DEF ReadShift
  <2> QED BY <1>2, <2>1, OwnKept DEF OwnVars
<1>4. CASE list[l] # <<>>
  <2>1. list' = [list EXCEPT ![l] = Tail(list[l])] /\ got' = [got EXCEPT ![t] = Append(got[t], h)]
    BY <1>4 DEF ReadShift
  <2> HIDE DEF l
  <2>2. h \in Messages
    BY <1>1, <1>4, HeadTailProperties
  <2>3. h \in In(list[l]) /\ In(list'[l]) = In(list[l]) \ {h} /\ \A k \in Lists \ {l} : list'[k] = list[k]
    BY <1>1, <1>4, <2>1, InTail
  <2> HIDE DEF h
  <2>4. In(got'[t]) = In(got[t]) \cup {h} /\ \A u \in Threads \ {t} : got'[u] = got[u]
    BY <1>1, <2>1, <2>2, InAppended
  <2>5. KeptBy(t)' = KeptBy(t) \cup {h} /\ \A u \in Threads \ {t} : KeptBy(u)' = KeptBy(u)
    BY <1>2, <2>4 DEF KeptBy
  <2>6. h \notin found[t]
    BY <1>1, <2>3 DEF OwnInv, KeptBy
  <2>7. \A u \in Threads : In(got'[u]) \cap found'[u] = {}
    BY <1>2, <2>4, <2>6 DEF OwnInv
  <2>8. \A u \in Threads : \A x \in found'[u] : \E n \in 1 .. Len(written) : x = written[n]
    BY <1>2 DEF OwnInv
  <2> QED BY <1>1, <1>2, <2>3, <2>5, <2>7, <2>8, OwnMoved
<1> QED BY <1>3, <1>4

\* The node that a search removes is still in the list.
LEMMA OwnFind ==
  ASSUME SoleScanner, IInv, HistoryInv, OwnInv, NEW t \in Threads, FindRemove(t)
  PROVE  OwnInv'
<1> DEFINE l == ReadList(t)
           m == node[t]
<1>1. /\ l \in Lists /\ list \in [Lists -> Seq(Messages)] /\ found \in [Threads -> SUBSET Messages]
      /\ Rises(list[l])
  BY ListChoice DEF IInv, TypeOK, HistoryInv, OrderInv
<1>2. m \in In(list[l])
  BY DEF IInv, PointersLive, FindRemove, Go, InList, In
<1>3. /\ UNCHANGED <<written, got, freed>>
      /\ list' = [list EXCEPT ![l] = Without(list[l], m)]
      /\ found' = [found EXCEPT ![t] = found[t] \cup {m}]
  BY DEF FindRemove, queueVars
<1> HIDE DEF l, m
<1>4. In(list'[l]) = In(list[l]) \ {m} /\ \A k \in Lists \ {l} : list'[k] = list[k]
  BY <1>1, <1>2, <1>3, InWithout
<1>5. found'[t] = found[t] \cup {m} /\ \A u \in Threads \ {t} : found'[u] = found[u]
  BY <1>1, <1>3
<1>6. KeptBy(t)' = KeptBy(t) \cup {m} /\ \A u \in Threads \ {t} : KeptBy(u)' = KeptBy(u)
  BY <1>3, <1>5 DEF KeptBy
<1>7. m \notin In(got[t]) /\ \E n \in 1 .. Len(written) : m = written[n]
  BY <1>1, <1>2, AllWritten DEF OwnInv, KeptBy
<1>8. \A u \in Threads : In(got'[u]) \cap found'[u] = {}
  BY <1>3, <1>5, <1>7 DEF OwnInv
<1>9. \A u \in Threads : \A x \in found'[u] : \E n \in 1 .. Len(written) : x = written[n]
  BY <1>5, <1>7 DEF OwnInv
<1> QED BY <1>1, <1>2, <1>3, <1>4, <1>6, <1>8, <1>9, OwnMoved

LEMMA OwnNext ==
  ASSUME SoleScanner, IInv, HistoryInv, OwnInv, [Next]_vars
  PROVE  OwnInv'
<1>0. TypeOK
  BY DEF IInv
<1>1. ASSUME NEW t \in Threads, WriteLink(t) PROVE OwnInv'
  BY <1>0, <1>1, OwnWrite
<1>2. ASSUME NEW t \in Threads, ReadShift(t) PROVE OwnInv'
  BY <1>0, <1>2, OwnRead
<1>3. ASSUME NEW t \in Threads, FindRemove(t) PROVE OwnInv'
  BY <1>3, OwnFind
<1>4. ASSUME NEW t \in Threads, Free(t) PROVE OwnInv'
  <2>1. freed' /\ UNCHANGED <<written, got, found>> /\ \A l \in Lists : list'[l] = <<>>
    BY <1>4 DEF Free, historyVars
  <2>2. In(<<>>) = {}
    BY DEF In
  <2>3. \A u \in Threads : KeptBy(u)' = KeptBy(u)
    BY <2>1 DEF KeptBy
  <2> QED BY <2>1, <2>2, <2>3 DEF OwnInv
<1>5. ASSUME NEW t \in Threads,
             \/ WritePost(t) \/ WaitSucceeds(t) \/ WaitFails(t) \/ Restore(t) \/ PeekFirst(t) \/ PeekData(t)
             \/ DetachDrop(t) \/ FindScan(t) \/ Attach(t) \/ DetachCheck(t)
             \/ \E kind \in WaitCalls, infinite \in BOOLEAN : BeginWait(t, kind, infinite)
      PROVE  UNCHANGED OwnVars
  BY <1>5 DEF WritePost, WaitSucceeds, WaitFails, Restore, PeekFirst, PeekData, DetachDrop, FindScan, Attach,
     DetachCheck, BeginWait, queueVars, historyVars, OwnVars
<1>6. UNCHANGED vars => UNCHANGED OwnVars
  BY DEF vars, OwnVars
<1> QED BY <1>1, <1>2, <1>3, <1>4, <1>5, <1>6, OwnKept DEF Next, Step

\* The three sets that Occurrences unites.
Listed(l, m) == {<<l, i>> : i \in {j \in 1..Len(list[l]) : list[l][j] = m}}
Got(t, m) == {<<t, i>> : i \in {j \in 1..Len(got[t]) : got[t][j] = m}}
Found(m) == {<<t, 0>> : t \in {u \in Threads : m \in found[u]}}

LEMMA OccursWhere ==
  ASSUME NEW m, NEW p
  PROVE  p \in Occurrences(m) <=>
           \/ \E l \in Lists : \E i \in 1 .. Len(list[l]) : list[l][i] = m /\ p = <<l, i>>
           \/ \E t \in Threads : \E i \in 1 .. Len(got[t]) : got[t][i] = m /\ p = <<t, i>>
           \/ \E t \in Threads : m \in found[t] /\ p = <<t, 0>>
<1>1. \A l \in Lists : p \in Listed(l, m) <=> \E i \in 1 .. Len(list[l]) : list[l][i] = m /\ p = <<l, i>>
  BY DEF Listed
<1>2. \A t \in Threads : p \in Got(t, m) <=> \E i \in 1 .. Len(got[t]) : got[t][i] = m /\ p = <<t, i>>
  BY DEF Got
<1>3. p \in Found(m) <=> \E t \in Threads : m \in found[t] /\ p = <<t, 0>>
  BY DEF Found
<1>4. p \in Occurrences(m) <=>
        \/ p \in UNION {Listed(l, m) : l \in Lists}
        \/ p \in UNION {Got(t, m) : t \in Threads}
        \/ p \in Found(m)
  BY DEF Occurrences, Listed, Got, Found
<1>5. p \in UNION {Listed(l, m) : l \in Lists} <=> \E l \in Lists : p \in Listed(l, m)
  OBVIOUS
<1>6. p \in UNION {Got(t, m) : t \in Threads} <=> \E t \in Threads : p \in Got(t, m)
  OBVIOUS
<1> QED BY <1>1, <1>2, <1>3, <1>4, <1>5, <1>6, Zenon

LEMMA OccursOnce ==
  ASSUME TypeOK, HistoryInv, OwnInv
  PROVE  OwnedOnce
<1> SUFFICES ASSUME NEW n \in 1 .. Len(written)
             PROVE  /\ Cardinality(Occurrences(written[n])) <= 1
                    /\ ~freed => Cardinality(Occurrences(written[n])) = 1
  BY DEF OwnedOnce
<1> DEFINE m == written[n]
           O == Occurrences(m)
<1> HIDE DEF m, O
<1>0. \A p : p \in O <=>
           \/ \E l \in Lists : \E i \in 1 .. Len(list[l]) : list[l][i] = m /\ p = <<l, i>>
           \/ \E t \in Threads : \E i \in 1 .. Len(got[t]) : got[t][i] = m /\ p = <<t, i>>
           \/ \E t \in Threads : m \in found[t] /\ p = <<t, 0>>
  BY OccursWhere DEF O
<1>1. \A l \in Lists : list[l] \in Seq(Messages) /\ Rises(list[l])
  BY DEF TypeOK, HistoryInv, OrderInv
<1>2. \A t \in Threads : got[t] \in Seq(Messages) /\ Rises(got[t])
  BY DEF TypeOK, HistoryInv, OrderInv
<1>3. ASSUME NEW l \in Lists, NEW i \in 1 .. Len(list[l]), list[l][i] = m
      PROVE  \A p \in O : p = <<l, i>>
  <2> SUFFICES ASSUME NEW p \in O PROVE p = <<l, i>>
    OBVIOUS
  <2>1. m \in In(list[l]) /\ \A t \in Threads : m \notin In(got[t]) /\ m \notin found[t]
    BY <1>3 DEF In, OwnInv, KeptBy
  <2>2. ASSUME NEW k \in Lists, NEW j \in 1 .. Len(list[k]), list[k][j] = m PROVE k = l /\ j = i
    <3>1. k = l
      BY <2>1, <2>2 DEF In, OwnInv
    <3> QED BY <1>1, <1>3, <2>2, <3>1, RisesOnce
  <2> QED BY <1>0, <2>1, <2>2 DEF In
<1>4. ASSUME NEW t \in Threads, NEW i \in 1 .. Len(got[t]), got[t][i] = m
      PROVE  \A p \in O : p = <<t, i>>
  <2> SUFFICES ASSUME NEW p \in O PROVE p = <<t, i>>
    OBVIOUS
  <2>1. /\ m \in In(got[t]) /\ \A l \in Lists : m \notin In(list[l])
        /\ \A u \in Threads : m \notin found[u] /\ (m \in In(got[u]) => u = t)
    <3>1. m \in In(got[t]) /\ m \in KeptBy(t)
      BY <1>4 DEF In, KeptBy
    <3>2. \A l \in Lists : m \notin In(list[l])
      BY <3>1 DEF OwnInv
    <3>3. \A u \in Threads : m \in KeptBy(u) => u = t
      BY <3>1 DEF OwnInv
    <3>4. m \notin found[t]
      BY <3>1 DEF OwnInv
    <3> QED BY <3>1, <3>2, <3>3, <3>4 DEF KeptBy
  <2>2. ASSUME NEW u \in Threads, NEW j \in 1 .. Len(got[u]), got[u][j] = m PROVE u = t /\ j = i
    <3>1. u = t
      BY <2>1, <2>2 DEF In
    <3> QED BY <1>2, <1>4, <2>2, <3>1, RisesOnce
  <2> QED BY <1>0, <2>1, <2>2 DEF In
<1>5. ASSUME NEW t \in Threads, m \in found[t]
      PROVE  \A p \in O : p = <<t, 0>>
  <2>1. /\ \A l \in Lists : m \notin In(list[l])
        /\ \A u \in Threads : m \notin In(got[u]) /\ (m \in found[u] => u = t)
    BY <1>5 DEF OwnInv, KeptBy
  <2> QED BY <1>0, <2>1 DEF In
<1>6. O = {} \/ \E p : O = {p}
  <2> SUFFICES ASSUME NEW q \in O PROVE \E p : O = {p}
    OBVIOUS
  <2>1. CASE \E l \in Lists : \E i \in 1 .. Len(list[l]) : list[l][i] = m
    <3>1. PICK p : \A x \in O : x = p
      BY <1>3, <2>1
    <3> QED BY <3>1
  <2>2. CASE \E t \in Threads : \E i \in 1 .. Len(got[t]) : got[t][i] = m
    <3>1. PICK p : \A x \in O : x = p
      BY <1>4, <2>2
    <3> QED BY <3>1
  <2>3. CASE \E t \in Threads : m \in found[t]
    <3>1. PICK p : \A x \in O : x = p
      BY <1>5, <2>3
    <3> QED BY <3>1
  <2> QED BY <1>0, <2>1, <2>2, <2>3
<1>7. ~freed => O # {}
  <2> SUFFICES ASSUME ~freed PROVE \E p : p \in O
    OBVIOUS
  <2>1. CASE \E l \in Lists : m \in In(list[l])
    <3>1. PICK l \in Lists : \E i \in 1 .. Len(list[l]) : list[l][i] = m
      BY <2>1 DEF In
    <3>2. PICK i \in 1 .. Len(list[l]) : list[l][i] = m
      BY <3>1
    <3>3. <<l, i>> \in O
      BY <1>0, <3>2
    <3> QED BY <3>3
  <2>2. CASE \E t \in Threads : m \in In(got[t])
    <3>1. PICK t \in Threads : \E i \in 1 .. Len(got[t]) : got[t][i] = m
      BY <2>2 DEF In
    <3>2. PICK i \in 1 .. Len(got[t]) : got[t][i] = m
      BY <3>1
    <3>3. <<t, i>> \in O
      BY <1>0, <3>2
    <3> QED BY <3>3
  <2>3. CASE \E t \in Threads : m \in found[t]
    <3>1. PICK t \in Threads : m \in found[t]
      BY <2>3
    <3>2. <<t, 0>> \in O
      BY <1>0, <3>1
    <3> QED BY <3>2
  <2> QED BY <2>1, <2>2, <2>3 DEF OwnInv, KeptBy, m
<1>8. Cardinality({}) = 0 /\ \A p : Cardinality({p}) = 1
  BY FS_EmptySet, FS_Singleton
<1>9. Cardinality(O) <= 1 /\ (~freed => Cardinality(O) = 1)
  <2>1. CASE O = {}
    <3>1. Cardinality(O) = 0
      BY <1>8, <2>1
    <3> QED BY <1>7, <2>1, <3>1
  <2>2. CASE \E p : O = {p}
    <3>1. Cardinality(O) = 1
      BY <1>8, <2>2
    <3> QED BY <3>1
  <2> QED BY <1>6, <2>1, <2>2
<1> QED BY <1>9 DEF O, m

\* "Read and find operations transfer owned messages" (API-FAMILIES.md): where
\* nobody else removes from a list while a thread searches it, every message that
\* was written is in one place, once, until the queue is freed.
THEOREM MessagesAreOwnedOnce ==
  ASSUME SoleScanner
  PROVE  Spec => []OwnedOnce
<1>1. IInv /\ HistoryInv /\ OwnInv => OwnedOnce
  BY OccursOnce DEF IInv
<1>2. IInv /\ HistoryInv /\ [Next]_vars => HistoryInv'
  BY HistoryNext DEF IInv
<1>3. IInv /\ HistoryInv /\ OwnInv /\ [Next]_vars => OwnInv'
  BY OwnNext
<1> QED BY <1>1, <1>2, <1>3, HistoryInit, OwnInit, Invariance, PTL DEF Spec
=============================================================================
