------------------------------ MODULE MsgQueue ------------------------------
(***************************************************************************)
(* msg_queue.c on top of the mutex, the semaphore and the node list of     *)
(* link_list.c: one list that everybody writes to and reads from, or with  *)
(* MSG_QUEUE_BIDIR a pair of lists between the owner and everybody else.   *)
(*                                                                         *)
(* A list's critical sections are atomic here (its mutex), and so are its  *)
(* semaphore's calls (XpSem).  What is not atomic in the code is not       *)
(* atomic here: a node is linked first and the semaphore posted after the  *)
(* mutex is released, a read waits and then removes, a wait or a peek      *)
(* takes a token and puts it back, a peek and a search hold a node pointer *)
(* without the mutex.                                                      *)
(***************************************************************************)
EXTENDS Naturals, Sequences, FiniteSets

CONSTANTS
  Threads,       \* users of the queue
  Owner,         \* the thread that called msgQueueInit
  Servers,       \* threads that do nothing but call a blocking msgQueueRead
  SoleScanner,   \* clients peek and search only where nobody else reads
  MaxMessages    \* bound: messages written in all

ASSUME QueueConstants ==
  /\ IsFiniteSet(Threads)
  /\ Owner \in Threads
  /\ Servers \subseteq Threads
  /\ SoleScanner \in BOOLEAN
  /\ MaxMessages \in Nat

\* A message is the node that carries its copy: its writer, and a number that
\* tells the nodes apart.
Messages == Threads \X (1..MaxMessages)
NoMessage == <<>>

Lists == {"in", "out"}

VARIABLES
  bidir,     \* q->flags & MSG_QUEUE_BIDIR
  list,      \* the nodes of q->in and q->out, first to last
  tokens,    \* the values of their semaphores
  refs,      \* q->refs
  orphan,    \* q->flags & MSG_QUEUE_ORPHAN
  freed,     \* msgQueueFree has run
  attached,  \* the threads that hold one of the references (the clients know)
  pc,        \* where each thread is
  call,      \* the waiting call it is in, or "none"
  forever,   \* its timeout is negative: it waits until there is a token
  took,      \* list_wait took a token from the semaphore
  node,      \* the node it holds a pointer to
  got,       \* what its reads transferred to it, in order
  found,     \* what its searches transferred to it
  written    \* the messages written so far, in order

vars == <<bidir, list, tokens, refs, orphan, freed, attached, pc, call, forever, took,
          node, got, found, written>>

queueVars == <<bidir, refs, orphan, freed, attached>>
historyVars == <<got, found, written>>

\* The calls of a thread:
\*   write  idle -> posting -> idle
\*   read   idle -> waiting -> shifting -> idle
\*   wait   idle -> waiting (-> restoring) -> idle
\*   peek   idle -> waiting (-> restoring) -> first -> data -> idle
\*   find   idle -> removing -> idle
\*   detach idle -> dropping (-> freeing) -> idle
Places == {"idle", "posting", "waiting", "restoring", "shifting", "first", "data",
           "removing", "dropping", "freeing"}

WaitCalls == {"read", "wait", "peek"}

\* Mistake: everybody reads from one list.
ReadListOfOut(t) == "out"

ReadList(t) == IF bidir /\ t = Owner THEN "in" ELSE "out"
WriteList(t) == IF ~bidir \/ t = Owner THEN "out" ELSE "in"

Init ==
  /\ bidir \in BOOLEAN
  /\ list = [l \in Lists |-> <<>>]
  /\ tokens = [l \in Lists |-> 0]
  /\ refs = 1
  /\ orphan = FALSE
  /\ freed = FALSE
  /\ attached = {Owner}
  /\ pc = [t \in Threads |-> "idle"]
  /\ call = [t \in Threads |-> "none"]
  /\ forever = [t \in Threads |-> FALSE]
  /\ took = [t \in Threads |-> FALSE]
  /\ node = [t \in Threads |-> NoMessage]
  /\ got = [t \in Threads |-> <<>>]
  /\ found = [t \in Threads |-> {}]
  /\ written = <<>>

Go(t, from, to) ==
  /\ pc[t] = from
  /\ pc' = [pc EXCEPT ![t] = to]

\* A call that may end here.
Forget(t, to) == call' = [call EXCEPT ![t] = IF to = "idle" THEN "none" ELSE @]

MayCall(t) == t \in attached /\ ~freed

Serves(t, kind) == t \in Servers => kind = "read"
-----------------------------------------------------------------------------
\* msgQueueWrite: list_add_node links the node at the end ...
WriteLink(t) ==
  LET m == <<t, Len(written) + 1>> IN
  /\ MayCall(t)
  /\ Serves(t, "write")
  /\ Len(written) < MaxMessages
  /\ Go(t, "idle", "posting")
  /\ written' = Append(written, m)
  /\ list' = [list EXCEPT ![WriteList(t)] = Append(@, m)]
  /\ UNCHANGED <<queueVars, tokens, call, forever, took, node, got, found>>

\* Mistake: only a write to an empty list posts the semaphore.
WritePostWhenEmpty(t) ==
  LET l == WriteList(t) IN
  /\ Go(t, "posting", "idle")
  /\ tokens' = [tokens EXCEPT ![l] = IF Len(list[l]) = 1 THEN @ + 1 ELSE @]
  /\ UNCHANGED <<queueVars, historyVars, list, call, forever, took, node>>

\* ... and posts the semaphore when it has released the mutex.
WritePost(t) ==
  /\ Go(t, "posting", "idle")
  /\ tokens' = [tokens EXCEPT ![WriteList(t)] = @ + 1]
  /\ UNCHANGED <<queueVars, historyVars, list, call, forever, took, node>>
-----------------------------------------------------------------------------
\* A peek or a search keeps a node pointer while the mutex is free, so it needs
\* a list nobody else removes from.  The clients see to that, or not.
Scanning(t) == pc[t] = "removing" \/ call[t] = "peek"
Removing(t) == pc[t] = "removing" \/ call[t] = "read"

SameList(t) == {u \in Threads \ {t} : ReadList(u) = ReadList(t)}

MayRemove(t) == SoleScanner => \A u \in SameList(t) : ~Scanning(u)
MayScan(t) == SoleScanner => \A u \in SameList(t) : ~Scanning(u) /\ ~Removing(u)

BeginWait(t, kind, infinite) ==
  /\ MayCall(t)
  /\ Serves(t, kind)
  /\ kind = "read" => MayRemove(t)
  /\ kind = "peek" => MayScan(t)
  /\ Go(t, "idle", "waiting")
  /\ call' = [call EXCEPT ![t] = kind]
  /\ forever' = [forever EXCEPT ![t] = infinite]
  /\ UNCHANGED <<queueVars, historyVars, list, tokens, took, node>>

\* Where list_wait's result sends the thread: a read ignores it.
AfterWait(t, success) ==
  CASE call[t] = "read" -> "shifting"
    [] call[t] = "wait" -> IF success THEN "restoring" ELSE "idle"
    [] call[t] = "peek" -> IF success THEN "restoring" ELSE "first"

\* listSemWait, listSemTryWait or listSemTryWaitBlock gets a token ...
WaitSucceeds(t) ==
  LET l == ReadList(t) IN
  /\ Go(t, "waiting", AfterWait(t, TRUE))
  /\ tokens[l] > 0
  /\ tokens' = [tokens EXCEPT ![l] = @ - 1]
  /\ took' = [took EXCEPT ![t] = TRUE]
  /\ forever' = [forever EXCEPT ![t] = FALSE]
  /\ UNCHANGED <<queueVars, historyVars, list, call, node>>

\* ... or does not: a poll finds none, a timed wait runs out of time (maybe just
\* as a token arrives, which it then leaves there).
WaitFails(t) ==
  /\ Go(t, "waiting", AfterWait(t, FALSE))
  /\ ~forever[t]
  /\ Forget(t, AfterWait(t, FALSE))
  /\ UNCHANGED <<queueVars, historyVars, list, tokens, forever, took, node>>

\* Mistake: a wait keeps the token.
RestoreNothing(t) ==
  LET next == IF call[t] = "peek" THEN "first" ELSE "idle" IN
  /\ Go(t, "restoring", next)
  /\ took' = [took EXCEPT ![t] = FALSE]
  /\ Forget(t, next)
  /\ UNCHANGED <<queueVars, historyVars, list, tokens, forever, node>>

\* "Replace the semaphore we just cleared."
Restore(t) ==
  LET next == IF call[t] = "peek" THEN "first" ELSE "idle" IN
  /\ Go(t, "restoring", next)
  /\ tokens' = [tokens EXCEPT ![ReadList(t)] = @ + 1]
  /\ took' = [took EXCEPT ![t] = FALSE]
  /\ Forget(t, next)
  /\ UNCHANGED <<queueVars, historyVars, list, forever, node>>

\* listShiftNode: the first message, or NULL when there is none.
ReadShift(t) ==
  LET l == ReadList(t) IN
  /\ Go(t, "shifting", "idle")
  /\ took' = [took EXCEPT ![t] = FALSE]
  /\ IF list[l] = <<>>
     THEN UNCHANGED <<list, got>>
     ELSE /\ list' = [list EXCEPT ![l] = Tail(@)]
          /\ got' = [got EXCEPT ![t] = Append(@, Head(list[l]))]
  /\ Forget(t, "idle")
  /\ UNCHANGED <<queueVars, tokens, forever, node, written, found>>

\* Mistake: a peek looks at the last node.
PeekLast(t) ==
  LET l == ReadList(t) IN
  /\ Go(t, "first", "data")
  /\ node' = [node EXCEPT ![t] = IF list[l] = <<>> THEN NoMessage ELSE list[l][Len(list[l])]]
  /\ UNCHANGED <<queueVars, historyVars, list, tokens, call, forever, took>>

\* listFirstNode hands out the pointer ...
PeekFirst(t) ==
  LET l == ReadList(t) IN
  /\ Go(t, "first", "data")
  /\ node' = [node EXCEPT ![t] = IF list[l] = <<>> THEN NoMessage ELSE Head(list[l])]
  /\ UNCHANGED <<queueVars, historyVars, list, tokens, call, forever, took>>

\* ... and listNodeData follows it.
PeekData(t) ==
  /\ Go(t, "data", "idle")
  /\ node' = [node EXCEPT ![t] = NoMessage]
  /\ Forget(t, "idle")
  /\ UNCHANGED <<queueVars, historyVars, list, tokens, forever, took>>
-----------------------------------------------------------------------------
InList(l) == {list[l][i] : i \in 1..Len(list[l])}

\* msgQueueFind: listFindNode returns the node of a matching message ...
FindScan(t) ==
  /\ MayCall(t)
  /\ Serves(t, "find")
  /\ MayScan(t)
  /\ Go(t, "idle", "removing")
  /\ \E m \in InList(ReadList(t)) : node' = [node EXCEPT ![t] = m]
  /\ UNCHANGED <<queueVars, historyVars, list, tokens, call, forever, took>>

\* s without the node m, if that is in s.
Without(s, m) ==
  IF \E i \in 1..Len(s) : s[i] = m
  THEN LET i == CHOOSE i \in 1..Len(s) : s[i] = m
       IN  [j \in 1..(Len(s) - 1) |-> IF j < i THEN s[j] ELSE s[j + 1]]
  ELSE s

\* Mistake: a search returns the message and leaves it in the list.
FindWithoutRemove(t) ==
  /\ Go(t, "removing", "idle")
  /\ found' = [found EXCEPT ![t] = @ \cup {node[t]}]
  /\ node' = [node EXCEPT ![t] = NoMessage]
  /\ UNCHANGED <<queueVars, list, tokens, call, forever, took, written, got>>

\* ... which listRemoveNode unlinks.  If the node has been removed meanwhile the
\* memory is no longer a node, but what it held is still returned (or worse).
\* The message's token stays in the semaphore.
FindRemove(t) ==
  LET l == ReadList(t) IN
  /\ Go(t, "removing", "idle")
  /\ list' = [list EXCEPT ![l] = Without(@, node[t])]
  /\ found' = [found EXCEPT ![t] = @ \cup {node[t]}]
  /\ node' = [node EXCEPT ![t] = NoMessage]
  /\ UNCHANGED <<queueVars, tokens, call, forever, took, written, got>>
-----------------------------------------------------------------------------
\* A thread is handed the queue by one that holds a reference and attaches.
Attach(t) ==
  /\ pc[t] = "idle"
  /\ t \notin attached
  /\ refs > 0
  /\ refs' = refs + 1
  /\ attached' = attached \cup {t}
  /\ UNCHANGED <<historyVars, bidir, list, tokens, orphan, freed, pc, call, forever, took, node>>

\* The servers leave last, and leave nothing behind.
MayLeave(t) == t \in Servers => attached \subseteq Servers /\ list[ReadList(t)] = <<>>

\* msgQueueDetach looks at the reference count, marks an orphan ...
DetachCheck(t) ==
  /\ MayCall(t)
  /\ MayLeave(t)
  /\ refs >= 1
  /\ Go(t, "idle", "dropping")
  /\ orphan' = (orphan \/ t = Owner)
  /\ attached' = attached \ {t}
  /\ UNCHANGED <<historyVars, bidir, list, tokens, refs, freed, call, forever, took, node>>

\* Mistake: the owner frees the queue whoever still uses it.
DetachDropByOwner(t) ==
  /\ Go(t, "dropping", IF refs = 1 \/ t = Owner THEN "freeing" ELSE "idle")
  /\ refs' = refs - 1
  /\ UNCHANGED <<historyVars, bidir, list, tokens, orphan, freed, attached, call, forever, took, node>>

\* ... and takes its reference off in one atomic step, whose result decides.
DetachDrop(t) ==
  /\ Go(t, "dropping", IF refs = 1 THEN "freeing" ELSE "idle")
  /\ refs' = refs - 1
  /\ UNCHANGED <<historyVars, bidir, list, tokens, orphan, freed, attached, call, forever, took, node>>

\* msgQueueFree, with the messages nobody has read.
Free(t) ==
  /\ Go(t, "freeing", "idle")
  /\ freed' = TRUE
  /\ list' = [l \in Lists |-> <<>>]
  /\ UNCHANGED <<historyVars, bidir, refs, orphan, attached, tokens, call, forever, took, node>>
-----------------------------------------------------------------------------
\* What a thread does inside a call, without being asked again.
Step(t) ==
  \/ WritePost(t)
  \/ WaitSucceeds(t) \/ WaitFails(t) \/ Restore(t) \/ ReadShift(t)
  \/ PeekFirst(t) \/ PeekData(t)
  \/ FindRemove(t)
  \/ DetachDrop(t) \/ Free(t)

Next ==
  \E t \in Threads :
    \/ WriteLink(t)
    \/ \E kind \in WaitCalls, infinite \in BOOLEAN : BeginWait(t, kind, infinite)
    \/ FindScan(t)
    \/ Attach(t) \/ DetachCheck(t)
    \/ Step(t)

Spec == Init /\ [][Next]_vars

\* The scheduler runs every thread that can run; a server that may read again
\* does in the end.
Fairness ==
  /\ \A t \in Threads : WF_vars(Step(t))
  /\ \A t \in Servers : SF_vars(BeginWait(t, "read", TRUE))

FairSpec == Spec /\ Fairness
-----------------------------------------------------------------------------
\* The type of the state: no semaphore and no reference count falls below zero,
\* and a search that is about to remove holds a node.
TypeOK ==
  /\ bidir \in BOOLEAN /\ orphan \in BOOLEAN /\ freed \in BOOLEAN
  /\ list \in [Lists -> Seq(Messages)]
  /\ tokens \in [Lists -> Nat]
  /\ refs \in Nat
  /\ attached \subseteq Threads
  /\ pc \in [Threads -> Places]
  /\ call \in [Threads -> WaitCalls \cup {"none"}]
  /\ forever \in [Threads -> BOOLEAN]
  /\ took \in [Threads -> BOOLEAN]
  /\ node \in [Threads -> Messages \cup {NoMessage}]
  /\ \A t \in Threads : pc[t] = "removing" => node[t] \in Messages
  /\ written \in Seq(Messages)
  /\ got \in [Threads -> Seq(Messages)]
  /\ found \in [Threads -> SUBSET Messages]

\* A token of list l is on its way: its node is linked and the post is due, or
\* a thread took it and will put it back or remove a node for it.
Posting(l) == {t \in Threads : pc[t] = "posting" /\ WriteList(t) = l}
Holding(l) == {t \in Threads : took[t] /\ ReadList(t) = l}

\* No message is left without a token, so none waits in a list whose readers
\* all sleep in the semaphore, although link and post, wait and removal are
\* separate steps, polls and searches remove messages without a token, and
\* waits and peeks borrow tokens.
MessagesHaveTokens ==
  \A l \in Lists :
    Len(list[l]) <= tokens[l] + Cardinality(Posting(l)) + Cardinality(Holding(l))

\* "Read and find operations transfer owned messages" (API-FAMILIES.md): until
\* the queue is freed each message that has been written is in exactly one
\* place, once: in a list, or with one thread that read or found it.
Occurrences(m) ==
  (UNION {{<<l, i>> : i \in {j \in 1..Len(list[l]) : list[l][j] = m}} : l \in Lists})
  \cup (UNION {{<<t, i>> : i \in {j \in 1..Len(got[t]) : got[t][j] = m}} : t \in Threads})
  \cup {<<t, 0>> : t \in {u \in Threads : m \in found[u]}}

OwnedOnce ==
  \A n \in 1..Len(written) :
    /\ Cardinality(Occurrences(written[n])) <= 1
    /\ ~freed => Cardinality(Occurrences(written[n])) = 1

\* A node pointer that is about to be followed points to a node of the list;
\* what a peek returns is still the message the next read would return.
PointersLive ==
  \A t \in Threads :
    /\ pc[t] = "removing" => node[t] \in InList(ReadList(t))
    /\ pc[t] = "data" /\ node[t] # NoMessage =>
         /\ list[ReadList(t)] # <<>>
         /\ node[t] = Head(list[ReadList(t)])

\* The thread that frees the queue is alone: whoever takes the last reference
\* off finds nobody else attached or still on the way out, and nobody frees twice.
FreedAlone ==
  \A t \in Threads : freed \/ pc[t] = "freeing" =>
    /\ attached = {}
    /\ \A u \in Threads \ {t} : pc[u] = "idle"

\* With MSG_QUEUE_BIDIR messages cross: the owner reads only what others wrote
\* and they only what the owner wrote.  Every reader gets what one writer wrote
\* in the order it was written.
DeliveredAcrossInOrder ==
  \A t \in Threads :
    /\ bidir => \A i \in 1..Len(got[t]) : (got[t][i][1] = Owner) <=> (t # Owner)
    /\ \A i, j \in 1..Len(got[t]) :
         i < j /\ got[t][i][1] = got[t][j][1] => got[t][i][2] < got[t][j][2]

\* The strengthening that makes MessagesHaveTokens, FreedAlone and PointersLive
\* inductive.
Dropping == {t \in Threads : pc[t] = "dropping"}
Freeing == {t \in Threads : pc[t] = "freeing"}

\* The reference count is exact; a thread inside a call holds a reference.
RefInv ==
  /\ refs = Cardinality(attached) + Cardinality(Dropping)
  /\ \A t \in Threads :
       /\ pc[t] \notin {"idle", "dropping", "freeing"} => t \in attached
       /\ pc[t] \in {"dropping", "freeing"} => t \notin attached

FreeInv ==
  /\ freed \/ Freeing # {} => refs = 0
  /\ freed => Freeing = {}
  /\ \A t, u \in Freeing : t = u

\* What a thread remembers belongs to the place it is in.
CallInv ==
  \A t \in Threads :
    /\ took[t] => pc[t] \in {"restoring", "shifting"}
    /\ call[t] # "none" <=> pc[t] \in {"waiting", "restoring", "shifting", "first", "data"}
    /\ pc[t] = "shifting" => call[t] = "read"
    /\ pc[t] \in {"first", "data"} => call[t] = "peek"

\* The clients' discipline holds all through the calls it is checked at.
ScanInv ==
  SoleScanner => \A t \in Threads : Scanning(t) =>
                   \A u \in SameList(t) : ~Scanning(u) /\ ~Removing(u)

IInv ==
  /\ TypeOK /\ RefInv /\ FreeInv /\ CallInv /\ ScanInv
  /\ MessagesHaveTokens
  /\ SoleScanner => PointersLive

\* Every message in a list that an attached server reads is removed in the end,
\* unless the others for ever borrow its token: a server that blocks does not
\* sleep through a message, whichever polls, timed waits, searches and detaches
\* come between link, post, wait and removal.
Borrowed(s) == \E t \in SameList(s) : took[t] /\ call[t] # "read"

Waits(n, l) == n <= Len(written) /\ written[n] \in InList(l)

EveryMessageServed ==
  \A s \in Servers, n \in 1..MaxMessages :
    (s \in attached /\ Waits(n, ReadList(s))) ~> (~Waits(n, ReadList(s)) \/ Borrowed(s))
=============================================================================
