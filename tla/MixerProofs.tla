----------------------------- MODULE MixerProofs -----------------------------
(***************************************************************************)
(* For any threads, handles, streams, buffers and lengths, and as long as  *)
(* callers close no handle that another of their calls is using: streams   *)
(* outlive what points at them, buffers have one owner, play in turn and   *)
(* without gaps.                                                           *)
(*                                                                         *)
(* The invariant IInv says who may touch what in the calls that are made   *)
(* of several (Protocol), where each buffer is (BufInv) and which buffers  *)
(* of a queue have begun (TurnInv).  Play and ToCome are recursive in the  *)
(* length of a queue: what they compute is shown of a shortest queue for   *)
(* which it might fail.                                                    *)
(***************************************************************************)
EXTENDS Mixer, FiniteSetTheorems, FunctionTheorems, WellFoundedInduction, SequenceTheorems, TLAPS

Sections == {"append", "finish", "stop", "clear", "sync", "auto_close"}
Owns == {"free", "reap", "place"}
Opens == {"reap", "place"}

\* Where a thread is says what it holds.
PlaceInv ==
  \A t \in Threads :
    /\ ptr[t] = None <=> pc[t] = "idle"
    /\ given[t] # None <=> pc[t] = "append"
    /\ pc[t] = "reap" => slot \in Slots
    /\ pc[t] \in Opens => ~stream[ptr[t]].auto_close
    /\ pc[t] = "free" => todo[t] = <<>>

\* The table names streams that live, each once, and every handle that was given;
\* a call uses a stream of the table, a call that opens or frees one has it alone.
TableInv ==
  /\ \A h \in Slots : table[h] # None => table[h] \in live
  /\ \A g, h \in Slots : table[g] = table[h] /\ table[g] # None => g = h
  /\ \A h \in handles : table[h] # None
  /\ \A t \in Threads :
       /\ pc[t] \in Sections => \E h \in Slots : ptr[t] = table[h]
       /\ pc[t] \in Owns =>
            /\ ptr[t] \in live
            /\ \A h \in Slots : table[h] # ptr[t]
            /\ \A u \in Threads \ {t} : ptr[u] # ptr[t]

\* u uses the stream of h, or has calls on h ahead.
Concerns(u, h) == ptr[u] = table[h] \/ \E i \in DOMAIN todo[u] : todo[u][i].handle = h

\* Only t, and who goes through all handles, touches h: nobody else knows it.
Private(t, h) ==
  /\ table[h] # None
  /\ ~stream[table[h]].auto_close
  /\ h \notin handles
  /\ \A u \in Threads \ {t} : Concerns(u, h) => walker = u

LastOps == {"give", "close", "auto_close"}

\* What is ahead of t in a call that is made of several: one of Plans, all of it on
\* the stream that t opened, which stays private until it is given away or closed.
PlanOf(t) ==
  /\ walker # t =>
       \A i \in DOMAIN todo[t] : todo[t][i].op \in LastOps <=> i = Len(todo[t])
  /\ walker # t /\ todo[t] # <<>> /\ pc[t] \notin Opens =>
       \E h \in Slots : Private(t, h) /\ \A i \in DOMAIN todo[t] : todo[t][i].handle = h
  /\ pc[t] \in Opens => \A i \in DOMAIN todo[t] : todo[t][i].handle = NoHandle
  /\ pc[t] = "auto_close" =>
       /\ todo[t] = <<>> /\ walker # t
       /\ \E h \in Slots : ptr[t] = table[h] /\ Private(t, h)

PlanInv == \A t \in Threads : PlanOf(t)

\* Whoever goes through all handles syncs, and nobody opens or frees a stream.
WalkInv ==
  \A t \in Threads : walker = t =>
    /\ pc[t] \in {"idle", "sync"}
    /\ \A i \in DOMAIN todo[t] : todo[t][i].op = "sync"
    /\ \A u \in Threads \ {t} : todo[u] = <<>> /\ pc[u] \notin Owns

\* A stream that closes itself is nobody's but the mixer's.
AutoInv ==
  \A h \in Slots : table[h] # None /\ stream[table[h]].auto_close =>
    /\ h \notin handles
    /\ \A t \in Threads : Concerns(t, h) => walker = t

NoDup(q) == \A i, j \in DOMAIN q : q[i].id = q[j].id => i = j

\* A stream that is not open has no buffers.
Unused == \A s \in Streams : s \notin live => stream[s] = NewStream

\* Each buffer is in one place: new or freed, given to one call, on one queue once.
BufInv ==
  /\ fresh \cap freed = {}
  /\ \A t \in Threads : given[t] # None => given[t].id \notin fresh \cup freed
  /\ \A t, u \in Threads : given[t] # None /\ given[u] # None /\ given[t].id = given[u].id => t = u
  /\ \A s \in Streams :
       /\ NoDup(stream[s].queue)
       /\ \A b \in Ids(stream[s].queue) :
            /\ b \notin fresh \cup freed
            /\ \A t \in Threads : given[t] # None => given[t].id # b
            /\ \A r \in Streams : b \in Ids(stream[r].queue) => r = s
  /\ \A b \in Bufs :
       \/ b \in fresh \cup freed
       \/ \E t \in Threads : given[t] # None /\ given[t].id = b
       \/ \E s \in Streams : b \in Ids(stream[s].queue)

\* Of q only the head has begun, and the second if the head fades or is used up.
InTurn(q) ==
  \A i \in DOMAIN q : i > 1 /\ q[i].consumed > 0 => i = 2 /\ (FadesUnder(q[1]) \/ UsedUp(q[1]))

TurnOf(q, finished) ==
  InTurn(q) /\ (finished => \A i \in DOMAIN q : ~q[i].loop)

TurnInv == \A s \in Streams : TurnOf(stream[s].queue, stream[s].finished)
-----------------------------------------------------------------------------
(* Play unfolds *)

Below == {ss \in Nat \X Nat : ss[1] < ss[2]}

LEMMA LessIsWellFounded == IsWellFoundedOn(Below, Nat)
  BY NatLessThanWellFounded DEF OpToRel, Below

LEMMA LeastMember ==
  ASSUME NEW T \in SUBSET Nat, T # {}
  PROVE  \E m \in T : \A k \in T : m <= k
<1>2. PICK m \in T : \A k \in T : ~(<<k, m>> \in Below)
  BY LessIsWellFounded, WFMin
<1>3. \A k \in T : ~(k < m)
  BY <1>2 DEF Below
<1> QED BY <1>3

\* One turn, with f for the rest.
PlayWith(f, q) ==
  [room \in Nat |->
     IF q = <<>> \/ room = 0 THEN q
     ELSE IF FadesUnder(Head(q)) /\ Len(q) > 1
     THEN MixOne(q[1], room) \o MixOne(q[2], room) \o SubSeq(q, 3, Len(q))
     ELSE IF MixOne(Head(q), room) = <<>>
     THEN f[Tail(q)][room - Written(Head(q), room)]
     ELSE MixOne(Head(q), room) \o Tail(q)]

Short(n) == {q \in Queue : Len(q) <= n}

\* f is Play on the queues of up to n buffers.
Solves(f, n) == f = [q \in Short(n) |-> PlayWith(f, q)]

LEMMA SameStep ==
  ASSUME NEW f, NEW g, NEW q, q # <<>> => f[Tail(q)] = g[Tail(q)]
  PROVE  PlayWith(f, q) = PlayWith(g, q)
<1>1. CASE q = <<>>
  BY <1>1 DEF PlayWith
<1>2. CASE q # <<>>
  BY <1>2 DEF PlayWith
<1> QED BY <1>1, <1>2

LEMMA TailShorter ==
  ASSUME NEW n \in Nat, NEW q \in Short(n), q # <<>>
  PROVE  n > 0 /\ Tail(q) \in Short(n - 1)
BY HeadTailProperties, LenProperties, EmptySeq DEF Short, Queue

LEMMA Solvable == \A n \in Nat : \E f : Solves(f, n)
<1> DEFINE T == {n \in Nat : ~ \E f : Solves(f, n)}
<1> SUFFICES ASSUME T # {} PROVE FALSE
  OBVIOUS
<1>1. PICK m \in T : \A k \in T : m <= k
  <2> HIDE DEF T
  <2>1. T \in SUBSET Nat
    BY DEF T
  <2> QED BY LeastMember, <2>1
<1>2. CASE m = 0
  <2> DEFINE f == [q \in Short(0) |-> PlayWith(<<>>, q)]
  <2>1. \A q \in Short(0) : PlayWith(<<>>, q) = PlayWith(f, q)
    <3> TAKE q \in Short(0)
    <3>1. q = <<>>
      BY TailShorter
    <3> HIDE DEF f
    <3> QED BY <3>1 DEF PlayWith
  <2>2. f = [q \in Short(0) |-> PlayWith(f, q)]
    <3> HIDE DEF f
    <3> QED BY <2>1 DEF f
  <2> QED BY <2>2, <1>2, <1>1 DEF Solves
<1>3. CASE m > 0
  <2>1. PICK g : Solves(g, m - 1)
    BY <1>1, <1>3
  <2> DEFINE f == [q \in Short(m) |-> PlayWith(g, q)]
  <2>2. \A q \in Short(m) : PlayWith(g, q) = PlayWith(f, q)
    <3> TAKE q \in Short(m)
    <3>1. ASSUME q # <<>> PROVE g[Tail(q)] = f[Tail(q)]
      <4>1. Tail(q) \in Short(m - 1) /\ Tail(q) \in Short(m)
        BY TailShorter, <3>1, <1>1 DEF Short, Queue
      <4>2. g[Tail(q)] = PlayWith(g, Tail(q))
        BY <4>1, <2>1 DEF Solves
      <4>3. f[Tail(q)] = PlayWith(g, Tail(q))
        BY <4>1
      <4> QED BY <4>2, <4>3
    <3> HIDE DEF f
    <3> QED BY SameStep, <3>1
  <2>3. f = [q \in Short(m) |-> PlayWith(f, q)]
    <3> HIDE DEF f
    <3> QED BY <2>2 DEF f
  <2> QED BY <2>3, <1>1 DEF Solves
<1> QED BY <1>1, <1>2, <1>3

LEMMA SolutionsAgree ==
  ASSUME NEW f, NEW g, NEW m \in Nat, NEW n \in Nat, Solves(f, m), Solves(g, n)
  PROVE  \A q \in Short(m) \cap Short(n) : f[q] = g[q]
<1> DEFINE T == {k \in Nat : \E q \in Short(m) \cap Short(n) : Len(q) = k /\ f[q] # g[q]}
<1>1. \A q \in Short(m) \cap Short(n) : f[q] # g[q] => Len(q) \in T
  BY LenProperties DEF Short, Queue
<1>2. SUFFICES ASSUME T # {} PROVE FALSE
  BY <1>1
<1>3. PICK k \in T : \A l \in T : k <= l
  <2>1. T \in SUBSET Nat
    OBVIOUS
  <2> HIDE DEF T
  <2> QED BY LeastMember, <2>1, <1>2
<1>4. PICK q \in Short(m) \cap Short(n) : Len(q) = k /\ f[q] # g[q]
  BY <1>3
<1>5. ASSUME q # <<>> PROVE f[Tail(q)] = g[Tail(q)]
  <2>1. Tail(q) \in Short(m) \cap Short(n) /\ Len(Tail(q)) < k /\ Len(Tail(q)) \in Nat
    BY <1>4, <1>5, HeadTailProperties, LenProperties, EmptySeq DEF Short, Queue
  <2>2. Len(Tail(q)) \notin T
    BY <2>1, <1>3
  <2> QED BY <2>1, <2>2
<1>6. f[q] = PlayWith(f, q) /\ g[q] = PlayWith(g, q)
  BY DEF Solves
<1> QED BY <1>4, <1>5, <1>6, SameStep

LEMMA PlayIsDefined == Play = [q \in Queue |-> PlayWith(Play, q)]
<1> DEFINE S(n) == CHOOSE f : Solves(f, n)
           F == [q \in Queue |-> S(Len(q))[q]]
<1>1. \A n \in Nat : Solves(S(n), n)
  BY Solvable
<1>2. ASSUME NEW q \in Queue PROVE F[q] = PlayWith(F, q)
  <2>1. Len(q) \in Nat /\ q \in Short(Len(q))
    BY LenProperties DEF Short, Queue
  <2>2. F[q] = PlayWith(S(Len(q)), q)
    BY <2>1, <1>1 DEF Solves
  <2>3. ASSUME q # <<>> PROVE F[Tail(q)] = S(Len(q))[Tail(q)]
    <3>1. Tail(q) \in Short(Len(q)) /\ Tail(q) \in Short(Len(Tail(q))) /\ Len(Tail(q)) \in Nat
      BY <2>1, <2>3, HeadTailProperties, LenProperties, EmptySeq DEF Short, Queue
    <3>2. F[Tail(q)] = S(Len(Tail(q)))[Tail(q)]
      BY <3>1 DEF Short
    <3> HIDE DEF S
    <3> QED BY <3>1, <3>2, <1>1, <2>1, SolutionsAgree
  <2> HIDE DEF S, F
  <2> QED BY <2>2, <2>3, SameStep
<1>3. F = [q \in Queue |-> PlayWith(F, q)]
  <2>1. F = [q \in Queue |-> F[q]]
    OBVIOUS
  <2> HIDE DEF F
  <2> QED BY <1>2, <2>1
<1>4. Play = CHOOSE f : f = [q \in Queue |-> PlayWith(f, q)]
  BY DEF Play, PlayWith
<1> HIDE DEF F
<1> QED BY <1>3, <1>4
-----------------------------------------------------------------------------
(* Mixing *)

LEMMA WrittenBounds ==
  ASSUME NEW b \in Buffer, WellFormed(b), NEW room \in Nat
  PROVE  /\ Written(b, room) \in 0 .. room
         /\ FadesUnder(b) => b.overlay_elapsed + Written(b, room) <= b.overlay_total
         /\ ~b.loop => b.consumed + Written(b, room) <= b.nframes
BY DEF Written, Least, FadesUnder, WellFormed, Buffer

LEMMA CursorBounds ==
  ASSUME NEW b \in Buffer, WellFormed(b), NEW n \in Nat
  PROVE  CursorAfter(b, n) \in 0 .. b.nframes
<1>1. CASE n = 0
  BY <1>1 DEF CursorAfter, WellFormed, Buffer
<1>2. CASE n # 0
  <2>1. b.consumed + n - 1 \in Nat /\ b.nframes \in Nat \ {0}
    BY <1>2 DEF Buffer
  <2>2. (b.consumed + n - 1) % b.nframes \in 0 .. b.nframes - 1
    BY <2>1
  <2> QED BY <1>2, <2>1, <2>2 DEF CursorAfter
<1> QED BY <1>1, <1>2

LEMMA MixedBuffer ==
  ASSUME NEW b \in Buffer, WellFormed(b), NEW room \in Nat
  PROVE  LET m == Mixed(b, room) IN
         /\ m \in Buffer /\ WellFormed(m)
         /\ m.id = b.id /\ m.loop = b.loop /\ m.nframes = b.nframes
         /\ FadesUnder(m) <=> FadesUnder(b)
<1> DEFINE n == Written(b, room)
           read == [b EXCEPT !.consumed = CursorAfter(b, n)]
           m == Mixed(b, room)
<1>1. n \in Nat /\ (FadesUnder(b) => b.overlay_elapsed + n <= b.overlay_total)
  BY WrittenBounds
<1>2. CursorAfter(b, n) \in 0 .. b.nframes
  BY CursorBounds, <1>1
<1>3. m = IF FadesUnder(b) THEN [read EXCEPT !.overlay_elapsed = @ + n] ELSE read
  BY DEF Mixed
<1>4. /\ read \in Buffer /\ read.id = b.id /\ read.loop = b.loop /\ read.nframes = b.nframes
      /\ read.overlay_total = b.overlay_total /\ read.overlay_elapsed = b.overlay_elapsed
      /\ read.consumed \in 0 .. b.nframes
  <2> HIDE DEF n
  <2> QED BY <1>2 DEF Buffer
<1> HIDE DEF n, m, read
<1>5. CASE FadesUnder(b)
  <2>1. m = [read EXCEPT !.overlay_elapsed = @ + n]
    BY <1>3, <1>5
  <2>2. /\ m \in Buffer /\ m.id = b.id /\ m.loop = b.loop /\ m.nframes = b.nframes
        /\ m.overlay_total = b.overlay_total /\ m.overlay_elapsed = b.overlay_elapsed + n
        /\ m.consumed \in 0 .. b.nframes
    BY <2>1, <1>1, <1>4 DEF Buffer
  <2> QED BY <2>2, <1>5, <1>1 DEF WellFormed, FadesUnder, Buffer, m
<1>6. CASE ~FadesUnder(b)
  BY <1>3, <1>4, <1>6 DEF WellFormed, FadesUnder, Buffer, m
<1> QED BY <1>5, <1>6

\* A buffer that was used up is dropped without being mixed.
LEMMA UsedUpIsDropped ==
  ASSUME NEW b \in Buffer, WellFormed(b), NEW room \in Nat, ~FadesUnder(b), UsedUp(b)
  PROVE  MixOne(b, room) = <<>>
<1>1. Written(b, room) = 0
  BY DEF Written, Least, FadesUnder, UsedUp, WellFormed, Buffer
<1>2. Mixed(b, room).consumed = b.consumed /\ Mixed(b, room).loop = b.loop /\ Mixed(b, room).nframes = b.nframes
  BY <1>1 DEF Mixed, CursorAfter, Buffer
<1> QED BY <1>2 DEF MixOne, UsedUp

LEMMA MixOneCases ==
  ASSUME NEW b \in Buffer, WellFormed(b), NEW room \in Nat
  PROVE  MixOne(b, room) = <<>> \/ MixOne(b, room) = <<Mixed(b, room)>>
BY DEF MixOne
-----------------------------------------------------------------------------
(* What a pull makes of a queue *)

Sound(q) == q \in Queue /\ \A i \in DOMAIN q : WellFormed(q[i])

\* The buffers of r are some of those of q, in the same order.
Follows(e, r, q) ==
  /\ e \in [1 .. Len(r) -> 1 .. Len(q)]
  /\ \A i, j \in 1 .. Len(r) : i < j => e[i] < e[j]
  /\ \A i \in 1 .. Len(r) : r[i].id = q[e[i]].id /\ r[i].loop = q[e[i]].loop

Leaves(q, r) == Sound(r) /\ (\E e : Follows(e, r, q)) /\ (InTurn(q) => InTurn(r))

LEMMA QueueFacts ==
  ASSUME NEW q \in Queue
  PROVE  /\ Len(q) \in Nat /\ DOMAIN q = 1 .. Len(q)
         /\ \A i \in 1 .. Len(q) : q[i] \in Buffer
         /\ q = <<>> <=> Len(q) = 0
         /\ q # <<>> => /\ Head(q) = q[1] /\ Tail(q) \in Queue /\ Len(Tail(q)) = Len(q) - 1
                        /\ \A i \in 1 .. Len(q) - 1 : Tail(q)[i] = q[i + 1]
BY LenProperties, ElementOfSeq, EmptySeq, HeadTailProperties DEF Queue

\* The first k buffers of q are replaced by those of front.
LEMMA FrontReplaced ==
  ASSUME NEW q, Sound(q), NEW k \in 0 .. Len(q), NEW front, Sound(front),
         NEW e, Follows(e, front, SubSeq(q, 1, k))
  PROVE  LET r == front \o SubSeq(q, k + 1, Len(q)) IN
         /\ Sound(r) /\ \E f : Follows(f, r, q)
         /\ Len(r) = Len(front) + Len(q) - k
         /\ \A i \in 1 .. Len(r) :
              r[i] = IF i <= Len(front) THEN front[i] ELSE q[i - Len(front) + k]
<1> DEFINE rest == SubSeq(q, k + 1, Len(q))
           r == front \o rest
           f == [i \in 1 .. Len(r) |-> IF i <= Len(front) THEN e[i] ELSE i - Len(front) + k]
<1>1. /\ q \in Queue /\ front \in Queue /\ Len(q) \in Nat /\ Len(front) \in Nat
      /\ DOMAIN q = 1 .. Len(q) /\ DOMAIN front = 1 .. Len(front)
      /\ \A i \in 1 .. Len(q) : q[i] \in Buffer /\ WellFormed(q[i])
      /\ \A i \in 1 .. Len(front) : front[i] \in Buffer /\ WellFormed(front[i])
  BY QueueFacts DEF Sound
<1>2. /\ rest \in Queue /\ Len(rest) = Len(q) - k
      /\ \A i \in 1 .. Len(q) - k : rest[i] = q[i + k]
  <2> DEFINE m == k + 1
             n == Len(q)
  <2>1. m \in Int /\ n \in Int /\ n - m + 1 = Len(q) - k
    BY <1>1
  <2>2. \A i \in m .. n : q[i] \in Buffer
    BY <1>1
  <2> HIDE DEF m, n
  <2>3. /\ SubSeq(q, m, n) \in Seq(Buffer)
        /\ Len(SubSeq(q, m, n)) = IF m <= n THEN n - m + 1 ELSE 0
        /\ \A i \in 1 .. n - m + 1 : SubSeq(q, m, n)[i] = q[m + i - 1]
    BY <2>1, <2>2, SubSeqProperties
  <2>4. \A i \in 1 .. n - m + 1 : m + i - 1 = i + k
    BY <2>1 DEF m
  <2>5. Len(rest) = Len(q) - k /\ rest \in Queue
    <3>1. m = k + 1 /\ n = Len(q) /\ k \in 0 .. n /\ n \in Nat /\ rest = SubSeq(q, m, n)
      BY <1>1 DEF m, n
    <3>2. rest \in Queue /\ Len(rest) = IF m <= n THEN n - m + 1 ELSE 0
      BY <2>3, <3>1 DEF Queue
    <3> HIDE DEF rest
    <3> QED BY <3>1, <3>2
  <2>6. ASSUME NEW i \in 1 .. Len(q) - k PROVE rest[i] = q[i + k]
    <3>1. i \in 1 .. n - m + 1
      BY <2>1
    <3>2. SubSeq(q, m, n)[i] = q[m + i - 1] /\ m + i - 1 = i + k
      BY <3>1, <2>3, <2>4
    <3> QED BY <3>2 DEF m, n
  <2> HIDE DEF rest
  <2> QED BY <2>5, <2>6
<1>3. /\ Len(SubSeq(q, 1, k)) = k
      /\ \A i \in 1 .. k : SubSeq(q, 1, k)[i] = q[i]
  <2>1. \A i \in 1 .. k : q[i] \in Buffer
    BY <1>1
  <2> QED BY <2>1, <1>1, SubSeqProperties
<1>4. /\ r \in Queue /\ Len(r) = Len(front) + Len(q) - k
      /\ \A i \in 1 .. Len(r) :
           r[i] = IF i <= Len(front) THEN front[i] ELSE q[i - Len(front) + k]
  <2> HIDE DEF rest
  <2>1. /\ r \in Queue /\ Len(r) = Len(front) + Len(rest)
        /\ \A i \in 1 .. Len(front) + Len(rest) :
             r[i] = IF i <= Len(front) THEN front[i] ELSE rest[i - Len(front)]
    BY <1>1, <1>2, ConcatProperties DEF Queue
  <2>2. ASSUME NEW i \in 1 .. Len(r), ~(i <= Len(front)) PROVE rest[i - Len(front)] = q[i - Len(front) + k]
    <3>1. i - Len(front) \in 1 .. Len(q) - k
      BY <2>1, <2>2, <1>1, <1>2
    <3> QED BY <3>1, <1>2
  <2> QED BY <2>1, <2>2, <1>1, <1>2
<1> HIDE DEF r
<1>5. Sound(r)
  BY <1>1, <1>4, QueueFacts DEF Sound
<1>6. /\ e \in [1 .. Len(front) -> 1 .. k]
      /\ \A i, j \in 1 .. Len(front) : i < j => e[i] < e[j]
      /\ \A i \in 1 .. Len(front) : front[i].id = q[e[i]].id /\ front[i].loop = q[e[i]].loop
  BY <1>3 DEF Follows
<1>7. Follows(f, r, q)
  <2>1. ASSUME NEW i \in 1 .. Len(r)
        PROVE  /\ f[i] = IF i <= Len(front) THEN e[i] ELSE i - Len(front) + k
               /\ i <= Len(front) => i \in 1 .. Len(front) /\ f[i] \in 1 .. k
               /\ i > Len(front) => f[i] \in k + 1 .. Len(q)
    BY <1>1, <1>4, <1>6
  <2>2. f \in [1 .. Len(r) -> 1 .. Len(q)]
    BY <2>1, <1>1
  <2>3. ASSUME NEW i \in 1 .. Len(r), NEW j \in 1 .. Len(r), i < j PROVE f[i] < f[j]
    <3> HIDE DEF f
    <3> QED BY <2>1, <2>3, <1>1, <1>4, <1>6
  <2>4. ASSUME NEW i \in 1 .. Len(r) PROVE r[i].id = q[f[i]].id /\ r[i].loop = q[f[i]].loop
    <3> HIDE DEF f
    <3> QED BY <2>1, <1>1, <1>4, <1>6
  <2> HIDE DEF f
  <2> QED BY <2>2, <2>3, <2>4 DEF Follows
<1> QED BY <1>4, <1>5, <1>7 DEF r

\* The cases of Play that take no further turn.
LEMMA PlaysBoth ==
  ASSUME NEW q, Sound(q), Len(q) > 1, NEW room \in Nat, FadesUnder(q[1])
  PROVE  Leaves(q, MixOne(q[1], room) \o MixOne(q[2], room) \o SubSeq(q, 3, Len(q)))
<1> DEFINE m1 == Mixed(q[1], room)
           m2 == Mixed(q[2], room)
           front == MixOne(q[1], room) \o MixOne(q[2], room)
           r == front \o SubSeq(q, 3, Len(q))
<1>1. /\ q \in Queue /\ Len(q) \in Nat /\ DOMAIN q = 1 .. Len(q)
      /\ q[1] \in Buffer /\ WellFormed(q[1]) /\ q[2] \in Buffer /\ WellFormed(q[2])
  BY QueueFacts DEF Sound
<1>2. /\ m1 \in Buffer /\ WellFormed(m1) /\ m1.id = q[1].id /\ m1.loop = q[1].loop /\ FadesUnder(m1)
      /\ m2 \in Buffer /\ WellFormed(m2) /\ m2.id = q[2].id /\ m2.loop = q[2].loop
  BY <1>1, MixedBuffer
<1> HIDE DEF m1, m2
<1>3. /\ MixOne(q[1], room) = <<>> \/ MixOne(q[1], room) = <<m1>>
      /\ MixOne(q[2], room) = <<>> \/ MixOne(q[2], room) = <<m2>>
  BY <1>1, MixOneCases DEF m1, m2
<1>4. \/ front = <<>> \/ front = <<m1>> \/ front = <<m2>>
      \/ front \in Queue /\ Len(front) = 2 /\ front[1] = m1 /\ front[2] = m2
  <2>1. /\ <<m1>> \in Seq(Buffer) /\ <<m2>> \in Seq(Buffer) /\ <<>> \in Seq(Buffer)
    BY <1>2
  <2>2. <<>> \o <<>> = <<>> /\ <<>> \o <<m2>> = <<m2>> /\ <<m1>> \o <<>> = <<m1>>
    BY <2>1, ConcatEmptySeq
  <2> DEFINE both == <<m1>> \o <<m2>>
  <2>3. both \in Queue /\ Len(both) = 2 /\ both[1] = m1 /\ both[2] = m2
    <3>1. Len(<<m1>>) = 1 /\ Len(<<m2>>) = 1 /\ <<m1>>[1] = m1 /\ <<m2>>[1] = m2
      OBVIOUS
    <3> QED BY <2>1, <3>1, ConcatProperties DEF Queue
  <2> HIDE DEF both
  <2>4. front = <<>> \/ front = <<m1>> \/ front = <<m2>> \/ front = both
    BY <1>3, <2>2 DEF both
  <2> QED BY <2>3, <2>4
<1> HIDE DEF front
<1>5. /\ Len(SubSeq(q, 1, 2)) = 2
      /\ SubSeq(q, 1, 2)[1] = q[1] /\ SubSeq(q, 1, 2)[2] = q[2]
  <2>1. \A i \in 1 .. 2 : q[i] \in Buffer
    BY <1>1
  <2> QED BY <2>1, SubSeqProperties
<1>6. /\ Sound(front) /\ Len(front) \in 0 .. 2 /\ DOMAIN front = 1 .. Len(front)
      /\ Len(front) = 2 => front[1] = m1 /\ front[2] = m2
  <2>1. CASE front = <<>>
    BY <2>1 DEF Sound, Queue
  <2>2. CASE front = <<m1>>
    BY <2>2, <1>2 DEF Sound, Queue
  <2>3. CASE front = <<m2>>
    BY <2>3, <1>2 DEF Sound, Queue
  <2>4. CASE front \in Queue /\ Len(front) = 2 /\ front[1] = m1 /\ front[2] = m2
    BY <2>4, <1>2, QueueFacts DEF Sound
  <2> QED BY <1>4, <2>1, <2>2, <2>3, <2>4
<1>7. \E e : Follows(e, front, SubSeq(q, 1, 2))
  <2>1. CASE front = <<>>
    <3>1. Follows(<<>>, front, SubSeq(q, 1, 2))
      BY <2>1, <1>5 DEF Follows
    <3> QED BY <3>1
  <2>2. CASE front = <<m1>>
    <3>1. Follows(<<1>>, front, SubSeq(q, 1, 2))
      BY <2>2, <1>5, <1>2 DEF Follows
    <3> QED BY <3>1
  <2>3. CASE front = <<m2>>
    <3>1. Follows(<<2>>, front, SubSeq(q, 1, 2))
      BY <2>3, <1>5, <1>2 DEF Follows
    <3> QED BY <3>1
  <2>4. CASE front \in Queue /\ Len(front) = 2 /\ front[1] = m1 /\ front[2] = m2
    <3>1. Follows(<<1, 2>>, front, SubSeq(q, 1, 2))
      BY <2>4, <1>5, <1>2 DEF Follows
    <3> QED BY <3>1
  <2> QED BY <1>4, <2>1, <2>2, <2>3, <2>4
<1>8. PICK e : Follows(e, front, SubSeq(q, 1, 2))
  BY <1>7
<1>9. /\ Sound(r) /\ \E f : Follows(f, r, q)
      /\ Len(r) = Len(front) + Len(q) - 2
      /\ \A i \in 1 .. Len(r) : r[i] = IF i <= Len(front) THEN front[i] ELSE q[i - Len(front) + 2]
  BY <1>1, <1>6, <1>8, FrontReplaced
<1> HIDE DEF r
<1>10. ASSUME InTurn(q) PROVE InTurn(r)
  <2> SUFFICES ASSUME NEW i \in DOMAIN r, i > 1, r[i].consumed > 0
               PROVE  i = 2 /\ (FadesUnder(r[1]) \/ UsedUp(r[1]))
    BY DEF InTurn
  <2>1. i \in 1 .. Len(r) /\ Len(r) \in Nat
    BY <1>9, QueueFacts DEF Sound
  <2>2. CASE i <= Len(front)
    <3>1. i = 2 /\ Len(front) = 2
      BY <2>2, <2>1, <1>6
    <3>2. r[1] = front[1] /\ front[1] = m1
      BY <3>1, <2>1, <1>6, <1>9
    <3> QED BY <3>1, <3>2, <1>2
  <2>3. CASE i > Len(front)
    <3>1. i - Len(front) + 2 \in DOMAIN q /\ i - Len(front) + 2 > 2
      BY <2>1, <2>3, <1>1, <1>6, <1>9
    <3>2. r[i] = q[i - Len(front) + 2]
      <4>1. ~(i <= Len(front))
        BY <2>1, <2>3, <1>6
      <4> QED BY <4>1, <2>1, <1>9
    <3> QED BY <3>1, <3>2, <1>10 DEF InTurn
  <2> QED BY <2>1, <2>2, <2>3, <1>6
<1> QED BY <1>9, <1>10 DEF Leaves, r, front

LEMMA PlaysHead ==
  ASSUME NEW q, Sound(q), q # <<>>, NEW room \in Nat,
         ~(FadesUnder(q[1]) /\ Len(q) > 1), MixOne(q[1], room) # <<>>
  PROVE  Leaves(q, MixOne(q[1], room) \o Tail(q))
<1> DEFINE m1 == Mixed(q[1], room)
           r == <<m1>> \o SubSeq(q, 2, Len(q))
<1>1. /\ q \in Queue /\ Len(q) \in Nat /\ DOMAIN q = 1 .. Len(q) /\ Len(q) > 0
      /\ \A i \in 1 .. Len(q) : q[i] \in Buffer
      /\ q[1] \in Buffer /\ WellFormed(q[1])
  BY QueueFacts DEF Sound
<1>2. m1 \in Buffer /\ WellFormed(m1) /\ m1.id = q[1].id /\ m1.loop = q[1].loop
  BY <1>1, MixedBuffer
<1>3. MixOne(q[1], room) = <<m1>>
  BY <1>1, MixOneCases
<1> HIDE DEF m1
<1>4. Tail(q) = SubSeq(q, 2, Len(q))
  BY <1>1, TailIsSubSeq DEF Queue
<1>5. Len(SubSeq(q, 1, 1)) = 1 /\ SubSeq(q, 1, 1)[1] = q[1]
  <2>1. \A i \in 1 .. 1 : q[i] \in Buffer
    BY <1>1
  <2> QED BY <2>1, SubSeqProperties
<1>6. Sound(<<m1>>) /\ Follows(<<1>>, <<m1>>, SubSeq(q, 1, 1))
  <2>1. Sound(<<m1>>)
    BY <1>2 DEF Sound, Queue
  <2>2. Follows(<<1>>, <<m1>>, SubSeq(q, 1, 1))
    BY <1>2, <1>5 DEF Follows
  <2> QED BY <2>1, <2>2
<1>7. /\ Sound(r) /\ \E f : Follows(f, r, q)
      /\ Len(r) = Len(q)
      /\ \A i \in 1 .. Len(r) : r[i] = IF i <= 1 THEN <<m1>>[i] ELSE q[i]
  <2>1. /\ Sound(r) /\ \E f : Follows(f, r, q)
        /\ Len(r) = 1 + Len(q) - 1
        /\ \A i \in 1 .. Len(r) : r[i] = IF i <= 1 THEN <<m1>>[i] ELSE q[i - 1 + 1]
    BY <1>1, <1>6, FrontReplaced
  <2> HIDE DEF r
  <2> QED BY <2>1, <1>1
<1> HIDE DEF r
<1>8. ASSUME InTurn(q) PROVE InTurn(r)
  <2> SUFFICES ASSUME NEW i \in DOMAIN r, i > 1, r[i].consumed > 0 PROVE FALSE
    BY DEF InTurn
  <2>1. i \in 1 .. Len(q) /\ r[i] = q[i]
    <3>1. i \in 1 .. Len(r)
      BY <1>7, QueueFacts DEF Sound
    <3>2. ~(i <= 1)
      BY <1>1, <1>7, <3>1
    <3> QED BY <3>1, <3>2, <1>7
  <2>2. Len(q) > 1 /\ (FadesUnder(q[1]) \/ UsedUp(q[1]))
    BY <2>1, <1>1, <1>8 DEF InTurn
  <2> QED BY <2>2, <1>1, UsedUpIsDropped
<1> QED BY <1>3, <1>4, <1>7, <1>8 DEF Leaves, r

\* A queue that goes on without its head.
LEMMA PlaysOn ==
  ASSUME NEW q, Sound(q), q # <<>>, NEW r, Sound(Tail(q)) => Leaves(Tail(q), r)
  PROVE  Leaves(q, r)
<1>1. /\ q \in Queue /\ Len(q) \in Nat /\ DOMAIN q = 1 .. Len(q) /\ Len(q) > 0
      /\ Tail(q) \in Queue /\ Len(Tail(q)) = Len(q) - 1 /\ DOMAIN Tail(q) = 1 .. Len(q) - 1
      /\ \A i \in 1 .. Len(q) - 1 : Tail(q)[i] = q[i + 1]
  <2>1. q \in Queue
    BY DEF Sound
  <2>2. Tail(q) \in Queue /\ Len(q) \in Nat /\ Len(q) # 0 /\ Len(Tail(q)) = Len(q) - 1
    BY <2>1, QueueFacts
  <2> QED BY <2>1, <2>2, QueueFacts
<1>2. Sound(Tail(q))
  <2>1. ASSUME NEW i \in 1 .. Len(q) - 1 PROVE WellFormed(Tail(q)[i])
    BY <1>1 DEF Sound
  <2> QED BY <1>1, <2>1 DEF Sound
<1>3. Leaves(Tail(q), r)
  BY <1>2
<1>4. PICK e : Follows(e, r, Tail(q))
  BY <1>3 DEF Leaves
<1>5. Sound(r) /\ Len(r) \in Nat
  BY <1>3, QueueFacts DEF Leaves, Sound
<1> DEFINE f == [i \in 1 .. Len(r) |-> e[i] + 1]
<1>6. Follows(f, r, q)
  <2>1. /\ e \in [1 .. Len(r) -> 1 .. Len(q) - 1]
        /\ \A i, j \in 1 .. Len(r) : i < j => e[i] < e[j]
        /\ \A i \in 1 .. Len(r) : r[i].id = Tail(q)[e[i]].id /\ r[i].loop = Tail(q)[e[i]].loop
    BY <1>4, <1>1 DEF Follows
  <2>2. \A i \in 1 .. Len(r) : e[i] \in 1 .. Len(q) - 1 /\ f[i] = e[i] + 1 /\ f[i] \in 1 .. Len(q)
    BY <2>1, <1>1
  <2>3. f \in [1 .. Len(r) -> 1 .. Len(q)]
    BY <2>2
  <2> HIDE DEF f
  <2>4. \A i, j \in 1 .. Len(r) : i < j => f[i] < f[j]
    BY <2>1, <2>2, <1>1
  <2>5. \A i \in 1 .. Len(r) : r[i].id = q[f[i]].id /\ r[i].loop = q[f[i]].loop
    BY <2>1, <2>2, <1>1
  <2> QED BY <2>3, <2>4, <2>5 DEF Follows
<1>7. ASSUME InTurn(q) PROVE InTurn(r)
  <2>1. InTurn(Tail(q))
    <3> SUFFICES ASSUME NEW i \in 1 .. Len(q) - 1, i > 1, Tail(q)[i].consumed > 0 PROVE FALSE
      BY <1>1 DEF InTurn
    <3>1. i + 1 \in DOMAIN q /\ i + 1 > 2 /\ Tail(q)[i] = q[i + 1]
      BY <1>1
    <3> QED BY <3>1, <1>7 DEF InTurn
  <2> QED BY <2>1, <1>3 DEF Leaves
<1> QED BY <1>5, <1>6, <1>7 DEF Leaves

LEMMA LeavesItself ==
  ASSUME NEW q, Sound(q)
  PROVE  Leaves(q, q)
<1> DEFINE e == [i \in 1 .. Len(q) |-> i]
<1>1. Follows(e, q, q)
  BY DEF Follows
<1> QED BY <1>1 DEF Leaves

LEMMA PlayStep ==
  ASSUME NEW q \in Queue, NEW room \in Nat
  PROVE  Play[q][room] =
           IF q = <<>> \/ room = 0 THEN q
           ELSE IF FadesUnder(Head(q)) /\ Len(q) > 1
           THEN MixOne(q[1], room) \o MixOne(q[2], room) \o SubSeq(q, 3, Len(q))
           ELSE IF MixOne(Head(q), room) = <<>>
           THEN Play[Tail(q)][room - Written(Head(q), room)]
           ELSE MixOne(Head(q), room) \o Tail(q)
<1>1. Play[q] = PlayWith(Play, q)
  BY PlayIsDefined
<1> QED BY <1>1 DEF PlayWith

\* What a pull leaves of a queue: some of its buffers in their order, sound, and in
\* turn if they were.
LEMMA PlayLeaves ==
  \A q : Sound(q) => \A room \in Nat : Leaves(q, Play[q][room])
<1> DEFINE Fails(q) == Sound(q) /\ \E room \in Nat : ~Leaves(q, Play[q][room])
           T == {n \in Nat : \E q : Fails(q) /\ Len(q) = n}
<1>1. \A q : Sound(q) => q \in Queue /\ Len(q) \in Nat
  BY QueueFacts DEF Sound
<1>2. SUFFICES ASSUME NEW q0, Fails(q0) PROVE FALSE
  OBVIOUS
<1>3. PICK n \in T : \A k \in T : n <= k
  <2>1. T \in SUBSET Nat
    OBVIOUS
  <2>2. Len(q0) \in T
    BY <1>1, <1>2
  <2> HIDE DEF T
  <2> QED BY LeastMember, <2>1, <2>2
<1>4. PICK q : Fails(q) /\ Len(q) = n
  BY <1>3
<1>5. PICK room \in Nat : ~Leaves(q, Play[q][room])
  BY <1>4
<1>6. Sound(q) /\ q \in Queue /\ n \in Nat
  BY <1>1, <1>4
<1>7. q # <<>> /\ room # 0
  <2>1. ASSUME q = <<>> \/ room = 0 PROVE FALSE
    <3>1. Play[q][room] = q
      BY <2>1, <1>6, PlayStep
    <3> QED BY <3>1, <1>5, <1>6, LeavesItself
  <2> QED BY <2>1
<1>8. Head(q) = q[1] /\ Tail(q) \in Queue /\ Len(Tail(q)) = n - 1 /\ n > 0
  BY <1>4, <1>6, <1>7, QueueFacts
<1>9. q[1] \in Buffer /\ WellFormed(q[1])
  BY <1>4, <1>6, <1>8, QueueFacts DEF Sound
<1>10. CASE FadesUnder(q[1]) /\ Len(q) > 1
  <2>1. Play[q][room] = MixOne(q[1], room) \o MixOne(q[2], room) \o SubSeq(q, 3, Len(q))
    BY <1>6, <1>7, <1>8, <1>10, PlayStep
  <2> QED BY <2>1, <1>5, <1>6, <1>10, PlaysBoth
<1>11. CASE ~(FadesUnder(q[1]) /\ Len(q) > 1) /\ MixOne(q[1], room) # <<>>
  <2>1. Play[q][room] = MixOne(q[1], room) \o Tail(q)
    BY <1>6, <1>7, <1>8, <1>11, PlayStep
  <2> QED BY <2>1, <1>5, <1>6, <1>7, <1>11, PlaysHead
<1>12. CASE ~(FadesUnder(q[1]) /\ Len(q) > 1) /\ MixOne(q[1], room) = <<>>
  <2> DEFINE left == room - Written(q[1], room)
  <2>1. Play[q][room] = Play[Tail(q)][left]
    BY <1>6, <1>7, <1>8, <1>12, PlayStep
  <2>2. left \in Nat
    BY <1>9, WrittenBounds
  <2>3. n - 1 \notin T
    BY <1>3, <1>6
  <2> HIDE DEF left
  <2>4. Sound(Tail(q)) => Leaves(Tail(q), Play[Tail(q)][left])
    <3> SUFFICES ASSUME Sound(Tail(q)), ~Leaves(Tail(q), Play[Tail(q)][left]) PROVE FALSE
      OBVIOUS
    <3>1. Fails(Tail(q))
      BY <2>2
    <3>2. n - 1 \in Nat
      BY <1>6, <1>8
    <3> HIDE DEF Fails
    <3> QED BY <3>1, <3>2, <2>3, <1>8
  <2> QED BY <2>1, <2>4, <1>5, <1>6, <1>7, PlaysOn
<1> QED BY <1>10, <1>11, <1>12

LEMMA LeavesConsequences ==
  ASSUME NEW q, Sound(q), NEW r, Leaves(q, r)
  PROVE  /\ Sound(r) /\ r \in Queue
         /\ Ids(r) \subseteq Ids(q)
         /\ NoDup(q) => NoDup(r)
         /\ InTurn(q) => InTurn(r)
         /\ (\A i \in DOMAIN q : ~q[i].loop) => \A i \in DOMAIN r : ~r[i].loop
<1>1. Sound(r) /\ r \in Queue /\ DOMAIN r = 1 .. Len(r) /\ Len(r) \in Nat /\ DOMAIN q = 1 .. Len(q)
  BY QueueFacts DEF Leaves, Sound
<1>2. PICK e : Follows(e, r, q)
  BY DEF Leaves
<1>3. /\ \A i \in 1 .. Len(r) : e[i] \in 1 .. Len(q)
      /\ \A i, j \in 1 .. Len(r) : i < j => e[i] < e[j]
      /\ \A i \in 1 .. Len(r) : r[i].id = q[e[i]].id /\ r[i].loop = q[e[i]].loop
  BY <1>2 DEF Follows
<1>4. Ids(r) \subseteq Ids(q)
  BY <1>1, <1>3 DEF Ids
<1>5. ASSUME NoDup(q) PROVE NoDup(r)
  <2> SUFFICES ASSUME NEW i \in 1 .. Len(r), NEW j \in 1 .. Len(r), r[i].id = r[j].id, i < j PROVE FALSE
    BY <1>1 DEF NoDup
  <2>1. e[i] = e[j]
    BY <1>1, <1>3, <1>5 DEF NoDup
  <2>2. e[i] \in Int
    BY <1>3
  <2> QED BY <1>3, <2>1, <2>2
<1>6. (\A i \in DOMAIN q : ~q[i].loop) => \A i \in DOMAIN r : ~r[i].loop
  BY <1>1, <1>3
<1> QED BY <1>1, <1>4, <1>5, <1>6 DEF Leaves
-----------------------------------------------------------------------------
(* What appending and finishing make of a queue *)

LEMMA Share ==
  ASSUME NEW n \in Nat, NEW a \in Nat, NEW b \in Nat, a + b > 0
  PROVE  (n * a) \div (a + b) \in 0 .. n
<1> DEFINE x == n * a
           d == a + b
           quo == x \div d
<1>1. x \in Nat /\ d \in Nat /\ d > 0 /\ x <= n * d
  <2>1. n * d = n * a + n * b /\ n * a \in Nat /\ n * b \in Nat
    OBVIOUS
  <2> QED BY <2>1
<1> HIDE DEF x, d
<1>2. quo \in Nat /\ d * quo <= x
  BY <1>1
<1> HIDE DEF quo
<1>3. quo <= n
  <2> SUFFICES ASSUME quo >= n + 1 PROVE FALSE
    BY <1>2
  <2> DEFINE more == quo - n
  <2>1. more \in Nat /\ more >= 1 /\ quo = n + more
    BY <1>2
  <2> HIDE DEF more
  <2>2. d * quo = d * n + d * more /\ d * n = n * d
    BY <1>1, <2>1
  <2>3. d * more >= d
    BY <1>1, <2>1
  <2> QED BY <1>1, <1>2, <2>2, <2>3
<1> QED BY <1>2, <1>3 DEF quo, x, d

LEMMA NewBuffer ==
  ASSUME NEW b \in Bufs, NEW k \in Kind
  PROVE  /\ NewBuf(b, k) \in Buffer /\ WellFormed(NewBuf(b, k))
         /\ NewBuf(b, k).id = b /\ NewBuf(b, k).consumed = 0 /\ NewBuf(b, k).loop = k.loop
<1>1. k.nframes \in Nat /\ k.nframes > 0 /\ k.fade_in \in Nat /\ k.fade_out \in Nat /\ k.loop \in BOOLEAN
  BY DEF Kind
<1>2. FadeOut(k) \in Nat
  <2> DEFINE fade_in == Least(k.fade_in, k.nframes)
             fade_out == Least(k.fade_out, k.nframes)
  <2>1. fade_in \in Nat /\ fade_out \in Nat
    BY <1>1 DEF Least
  <2>2. FadeOut(k) = IF fade_in + fade_out > k.nframes
                     THEN k.nframes - ((k.nframes * fade_in) \div (fade_in + fade_out))
                     ELSE fade_out
    BY DEF FadeOut
  <2> HIDE DEF fade_in, fade_out
  <2>3. CASE fade_in + fade_out > k.nframes
    <3>1. (k.nframes * fade_in) \div (fade_in + fade_out) \in 0 .. k.nframes
      BY <1>1, <2>1, <2>3, Share
    <3> QED BY <3>1, <2>2, <2>3, <1>1
  <2> QED BY <2>1, <2>2, <2>3
<1> QED BY <1>1, <1>2 DEF NewBuf, Buffer, WellFormed

\* b plays on as it did, except for the fade over it.
UnderFade(b, c) ==
  c \in Buffer /\ WellFormed(c) /\ c.id = b.id /\ c.loop = b.loop /\ c.consumed = b.consumed

LEMMA BufferUnder ==
  ASSUME NEW b \in Buffer, WellFormed(b), NEW total \in Nat
  PROVE  UnderFade(b, Under(b, total)) /\ Under(b, total).overlay_total = total
<1> DEFINE fading == [b EXCEPT !.overlay_total = total]
<1>1. /\ fading \in Buffer /\ fading.id = b.id /\ fading.loop = b.loop
      /\ fading.consumed = b.consumed /\ fading.nframes = b.nframes /\ fading.overlay_total = total
  BY DEF Buffer
<1>2. Under(b, total) = [fading EXCEPT !.overlay_elapsed = 0]
  BY DEF Under
<1> HIDE DEF fading
<1> QED BY <1>1, <1>2 DEF UnderFade, WellFormed, Buffer

LEMMA AppendedQueue ==
  ASSUME NEW q, Sound(q), NEW b \in Bufs, NEW k \in Kind
  PROVE  LET r == Appended(q, b, k) IN
         /\ Sound(r) /\ Len(r) = Len(q) + 1 /\ DOMAIN r = 1 .. Len(q) + 1
         /\ \A i \in 1 .. Len(q) : r[i].id = q[i].id /\ r[i].loop = q[i].loop
         /\ r[Len(q) + 1].id = b
         /\ InTurn(q) => InTurn(r)
<1> DEFINE new == NewBuf(b, k)
           last == Under(q[Len(q)], k.fade_in)
           under == IF k.crossfade /\ k.fade_in > 0 /\ q # <<>> THEN [q EXCEPT ![Len(q)] = last] ELSE q
           r == Append(under, new)
<1>1. /\ q \in Queue /\ q \in Seq(Buffer) /\ Len(q) \in Nat /\ DOMAIN q = 1 .. Len(q)
      /\ \A i \in 1 .. Len(q) : q[i] \in Buffer /\ WellFormed(q[i])
  BY QueueFacts DEF Sound, Queue
<1>2. new \in Buffer /\ WellFormed(new) /\ new.id = b /\ new.consumed = 0
  BY NewBuffer
<1>3. /\ under \in Seq(Buffer) /\ Len(under) = Len(q)
      /\ \A i \in 1 .. Len(q) : UnderFade(q[i], under[i]) /\ (i < Len(q) => under[i] = q[i])
  <2>1. CASE k.crossfade /\ k.fade_in > 0 /\ q # <<>>
    <3>1. Len(q) \in 1 .. Len(q)
      BY <1>1, <2>1, QueueFacts
    <3>2. k.fade_in \in Nat
      BY DEF Kind
    <3>3. UnderFade(q[Len(q)], last)
      BY <1>1, <3>1, <3>2, BufferUnder
    <3>4. under = [q EXCEPT ![Len(q)] = last]
      BY <2>1
    <3> HIDE DEF last, under
    <3>5. last \in Buffer
      BY <3>3 DEF UnderFade
    <3>6. /\ under \in Seq(Buffer) /\ Len(under) = Len(q)
          /\ \A i \in 1 .. Len(q) : under[i] = IF i = Len(q) THEN last ELSE q[i]
      BY <1>1, <3>1, <3>4, <3>5, ExceptSeq
    <3>7. ASSUME NEW i \in 1 .. Len(q) PROVE UnderFade(q[i], under[i]) /\ (i < Len(q) => under[i] = q[i])
      <4>1. CASE i = Len(q)
        BY <4>1, <1>1, <3>3, <3>6
      <4>2. CASE i # Len(q)
        BY <4>2, <1>1, <3>6 DEF UnderFade
      <4> QED BY <4>1, <4>2
    <3> QED BY <3>6, <3>7
  <2>2. CASE ~(k.crossfade /\ k.fade_in > 0 /\ q # <<>>)
    <3>1. under = q
      BY <2>2
    <3> QED BY <3>1, <1>1 DEF UnderFade
  <2> QED BY <2>1, <2>2
<1>4. r = Appended(q, b, k)
  BY DEF Appended
<1> HIDE DEF under, new, last
<1>5. /\ r \in Seq(Buffer) /\ Len(r) = Len(q) + 1
      /\ \A i \in 1 .. Len(q) : r[i] = under[i]
      /\ r[Len(q) + 1] = new
  BY <1>1, <1>2, <1>3, AppendProperties
<1> HIDE DEF r
<1>6. DOMAIN r = 1 .. Len(q) + 1 /\ r \in Queue
  BY <1>5, QueueFacts DEF Queue
<1>7. ASSUME NEW i \in 1 .. Len(q) + 1
      PROVE  WellFormed(r[i]) /\ (i \in 1 .. Len(q) \/ (i = Len(q) + 1 /\ r[i].consumed = 0))
  <2>1. CASE i \in 1 .. Len(q)
    BY <2>1, <1>3, <1>5 DEF UnderFade
  <2>2. CASE i = Len(q) + 1
    BY <2>2, <1>2, <1>5
  <2> QED BY <2>1, <2>2, <1>1
<1>8. ASSUME InTurn(q) PROVE InTurn(r)
  <2> SUFFICES ASSUME NEW i \in 1 .. Len(q) + 1, i > 1, r[i].consumed > 0
               PROVE  i = 2 /\ (FadesUnder(r[1]) \/ UsedUp(r[1]))
    BY <1>6 DEF InTurn
  <2>1. i \in 1 .. Len(q)
    BY <1>7
  <2>2. q[i].consumed > 0
    BY <2>1, <1>3, <1>5 DEF UnderFade
  <2>3. i = 2 /\ (FadesUnder(q[1]) \/ UsedUp(q[1]))
    BY <2>1, <2>2, <1>1, <1>8 DEF InTurn
  <2>4. r[1] = q[1]
    BY <2>1, <2>3, <1>1, <1>3, <1>5
  <2> QED BY <2>3, <2>4
<1>9. \A i \in 1 .. Len(q) : r[i].id = q[i].id /\ r[i].loop = q[i].loop
  BY <1>3, <1>5 DEF UnderFade
<1> QED BY <1>2, <1>4, <1>5, <1>6, <1>7, <1>8, <1>9 DEF Sound

LEMMA EndedLoop ==
  ASSUME NEW b \in Buffer, WellFormed(b)
  PROVE  LET c == LoopEnded(b) IN
         /\ c \in Buffer /\ WellFormed(c) /\ c.id = b.id /\ ~c.loop /\ c.consumed = b.consumed
         /\ FadesUnder(b) \/ UsedUp(b) => FadesUnder(c) \/ UsedUp(c)
<1> DEFINE remaining == b.nframes - b.consumed
           ended == [b EXCEPT !.loop = FALSE]
<1>1. remaining \in Nat /\ (remaining = 0 => b.consumed >= b.nframes)
  BY DEF WellFormed, Buffer
<1>2. /\ ended \in Buffer /\ ended.id = b.id /\ ended.loop = FALSE /\ ended.consumed = b.consumed
      /\ ended.nframes = b.nframes /\ ended.overlay_total = b.overlay_total
      /\ ended.overlay_elapsed = b.overlay_elapsed
  BY DEF Buffer
<1>3. LoopEnded(b) = IF b.loop /\ remaining < b.fade_out THEN Under(ended, remaining) ELSE ended
  BY DEF LoopEnded
<1> HIDE DEF ended, remaining
<1>4. WellFormed(ended)
  BY <1>2 DEF WellFormed
<1>5. CASE b.loop /\ remaining < b.fade_out
  <2>1. UnderFade(ended, Under(ended, remaining)) /\ Under(ended, remaining).overlay_total = remaining
    BY <1>1, <1>2, <1>4, BufferUnder
  <2>2. Under(ended, remaining).nframes = b.nframes
    BY <1>1, <1>2 DEF Under, Buffer
  <2>3. LoopEnded(b) = Under(ended, remaining)
    BY <1>3, <1>5
  <2> QED BY <1>1, <1>2, <2>1, <2>2, <2>3 DEF UnderFade, FadesUnder, UsedUp
<1>6. CASE ~(b.loop /\ remaining < b.fade_out)
  BY <1>2, <1>3, <1>4, <1>6 DEF FadesUnder, UsedUp
<1> QED BY <1>5, <1>6

LEMMA LoopsEndedQueue ==
  ASSUME NEW q, Sound(q)
  PROVE  LET r == LoopsEnded(q) IN
         /\ Sound(r) /\ DOMAIN r = DOMAIN q /\ Len(r) = Len(q)
         /\ \A i \in DOMAIN q : r[i].id = q[i].id /\ ~r[i].loop
         /\ InTurn(q) => InTurn(r)
<1> DEFINE r == LoopsEnded(q)
<1>1. /\ q \in Queue /\ Len(q) \in Nat /\ DOMAIN q = 1 .. Len(q)
      /\ \A i \in 1 .. Len(q) : q[i] \in Buffer /\ WellFormed(q[i])
  BY QueueFacts DEF Sound
<1>2. r = [i \in 1 .. Len(q) |-> LoopEnded(q[i])]
  BY <1>1 DEF LoopsEnded
<1>3. \A i \in 1 .. Len(q) : LoopEnded(q[i]) \in Buffer
  BY <1>1, EndedLoop
<1>4. r \in Queue /\ Len(r) = Len(q) /\ DOMAIN r = 1 .. Len(q)
  BY <1>1, <1>2, <1>3 DEF Queue
<1>5. \A i \in 1 .. Len(q) :
        /\ r[i] = LoopEnded(q[i]) /\ WellFormed(r[i]) /\ r[i].id = q[i].id /\ ~r[i].loop
        /\ r[i].consumed = q[i].consumed
        /\ FadesUnder(q[i]) \/ UsedUp(q[i]) => FadesUnder(r[i]) \/ UsedUp(r[i])
  <2> HIDE DEF r
  <2> QED BY <1>1, <1>2, EndedLoop
<1> HIDE DEF r
<1>6. ASSUME InTurn(q) PROVE InTurn(r)
  <2> SUFFICES ASSUME NEW i \in 1 .. Len(q), i > 1, r[i].consumed > 0
               PROVE  i = 2 /\ (FadesUnder(r[1]) \/ UsedUp(r[1]))
    BY <1>4 DEF InTurn
  <2>1. i = 2 /\ (FadesUnder(q[1]) \/ UsedUp(q[1]))
    BY <1>1, <1>5, <1>6 DEF InTurn
  <2>2. 1 \in 1 .. Len(q)
    BY <1>1
  <2> QED BY <2>1, <2>2, <1>5
<1> QED BY <1>1, <1>4, <1>5, <1>6 DEF Sound, r
-----------------------------------------------------------------------------
(* Calls in calls *)

Call == [op : Ops, handle : Handles]

Protocol == PlaceInv /\ TableInv /\ PlanInv /\ WalkInv /\ AutoInv

LEMMA FunctionIsSeq ==
  ASSUME NEW S, NEW n \in Nat, NEW f \in [1 .. n -> S]
  PROVE  f \in Seq(S) /\ Len(f) = n /\ DOMAIN f = 1 .. n
<1>1. f \in Seq(S)
  BY SeqDef
<1>2. Len(f) \in Nat /\ 1 .. Len(f) = 1 .. n
  BY <1>1, LenProperties
<1>3. Len(f) = n
  <2>1. \A i \in Nat : i \in 1 .. Len(f) <=> i \in 1 .. n
    BY <1>2
  <2>2. ~(Len(f) < n)
    BY <1>2, <2>1
  <2>3. ~(n < Len(f))
    BY <1>2, <2>1
  <2> QED BY <1>2, <2>2, <2>3
<1> QED BY <1>1, <1>3

LEMMA NoneIsNobody ==
  /\ None \notin Threads /\ None \notin Streams /\ None # Device /\ Device \notin Threads
  /\ \A b \in Bufs, k \in Kinds : [id |-> b, kind |-> k] # None
BY MixerConstants

LEMMA SlotFacts ==
  /\ 1 \in Slots /\ LastSlot \in Slots /\ Slots = 1 .. LastSlot /\ LastSlot \in Nat
  /\ \A h \in Slots : h \in Nat /\ h # NoHandle /\ (h # LastSlot => h + 1 \in Slots)
<1>1. PICK n \in Slots : Slots = 1 .. n
  BY MixerConstants
<1>2. n \in Nat /\ n > 0
  BY MixerConstants
<1>3. LastSlot \in Slots /\ \A h \in Slots : h <= LastSlot
  <2>1. \E m \in Slots : \A h \in Slots : h <= m
    BY <1>1, <1>2
  <2> QED BY <2>1 DEF LastSlot
<1>4. LastSlot = n
  BY <1>1, <1>2, <1>3
<1> QED BY <1>1, <1>2, <1>4 DEF NoHandle

LEMMA CallFacts ==
  ASSUME TypeOK, NEW t \in Threads
  PROVE  /\ todo[t] \in Seq(Call) /\ Len(todo[t]) \in Nat /\ DOMAIN todo[t] = 1 .. Len(todo[t])
         /\ todo[t] # <<>> =>
              /\ Len(todo[t]) > 0
              /\ Head(todo[t]) = todo[t][1]
              /\ Tail(todo[t]) \in Seq(Call) /\ Len(Tail(todo[t])) = Len(todo[t]) - 1
              /\ DOMAIN Tail(todo[t]) = 1 .. Len(todo[t]) - 1
              /\ \A i \in 1 .. Len(todo[t]) - 1 : Tail(todo[t])[i] = todo[t][i + 1]
<1>1. todo[t] \in Seq(Call)
  BY DEF TypeOK, Call
<1>2. Len(todo[t]) \in Nat /\ DOMAIN todo[t] = 1 .. Len(todo[t])
  BY <1>1, LenProperties
<1>3. ASSUME todo[t] # <<>>
      PROVE  /\ Len(todo[t]) > 0
             /\ Head(todo[t]) = todo[t][1]
             /\ Tail(todo[t]) \in Seq(Call) /\ Len(Tail(todo[t])) = Len(todo[t]) - 1
             /\ DOMAIN Tail(todo[t]) = 1 .. Len(todo[t]) - 1
             /\ \A i \in 1 .. Len(todo[t]) - 1 : Tail(todo[t])[i] = todo[t][i + 1]
  <2>1. Len(todo[t]) > 0
    BY <1>1, <1>2, <1>3, EmptySeq
  <2>2. /\ Tail(todo[t]) \in Seq(Call) /\ Len(Tail(todo[t])) = Len(todo[t]) - 1
        /\ \A i \in 1 .. Len(todo[t]) - 1 : Tail(todo[t])[i] = todo[t][i + 1]
    BY <1>1, <1>3, HeadTailProperties
  <2>3. DOMAIN Tail(todo[t]) = 1 .. Len(todo[t]) - 1
    BY <2>2, LenProperties
  <2>4. Head(todo[t]) = todo[t][1]
    BY <1>1
  <2> QED BY <2>1, <2>2, <2>3, <2>4
<1> QED BY <1>1, <1>2, <1>3

\* What a thread still has to do in a call concerns one stream, which is its own.
LEMMA PlanFacts ==
  ASSUME TypeOK, PlanInv, NEW t \in Threads, walker # t, todo[t] # <<>>, pc[t] \notin Opens
  PROVE  \E h \in Slots :
           /\ Private(t, h) /\ Head(todo[t]).handle = h
           /\ \A i \in DOMAIN Tail(todo[t]) :
                /\ Tail(todo[t])[i].handle = h
                /\ Tail(todo[t])[i].op \in LastOps <=> i = Len(Tail(todo[t]))
           /\ Head(todo[t]).op \in LastOps => Tail(todo[t]) = <<>>
<1> DEFINE rest == Tail(todo[t])
           n == Len(todo[t])
<1>1. /\ n \in Nat /\ DOMAIN todo[t] = 1 .. n /\ n > 0 /\ Head(todo[t]) = todo[t][1]
      /\ rest \in Seq(Call) /\ Len(rest) = n - 1 /\ DOMAIN rest = 1 .. n - 1
      /\ \A i \in 1 .. n - 1 : rest[i] = todo[t][i + 1]
  BY CallFacts
<1>2. PICK h \in Slots : Private(t, h) /\ \A i \in DOMAIN todo[t] : todo[t][i].handle = h
  BY DEF PlanInv, PlanOf
<1>3. \A i \in DOMAIN todo[t] : todo[t][i].op \in LastOps <=> i = n
  BY DEF PlanInv, PlanOf
<1>4. Head(todo[t]).handle = h
  BY <1>1, <1>2
<1>5. Head(todo[t]).op \in LastOps => rest = <<>>
  <2> SUFFICES ASSUME Head(todo[t]).op \in LastOps PROVE Len(rest) = 0
    BY <1>1, EmptySeq
  <2> HIDE DEF n, rest
  <2>1. 1 \in DOMAIN todo[t] /\ todo[t][1].op \in LastOps
    BY <1>1
  <2>2. n = 1
    BY <1>3, <2>1
  <2> QED BY <1>1, <2>2
<1> HIDE DEF n, rest
<1>6. ASSUME NEW i \in DOMAIN rest
      PROVE  rest[i].handle = h /\ (rest[i].op \in LastOps <=> i = Len(rest))
  <2>1. i + 1 \in 1 .. n /\ rest[i] = todo[t][i + 1]
    BY <1>1
  <2>2. rest[i].handle = h
    BY <1>1, <1>2, <2>1
  <2>3. rest[i].op \in LastOps <=> i + 1 = n
    BY <1>1, <1>3, <2>1
  <2> QED BY <1>1, <2>2, <2>3
<1> QED BY <1>2, <1>4, <1>5, <1>6 DEF rest

\* A thread begins a call on a stream that is its own, that of a handle the
\* application knows, or, in xptone_complete, any.
LEMMA BeginFacts ==
  ASSUME TypeOK, PlaceInv, PlanInv, WalkInv, NEW t \in Threads, NEW op, NEW h, Begins(t, op, h)
  PROVE  /\ pc[t] = "idle" /\ ptr[t] = None /\ given[t] = None
         /\ todo' = [todo EXCEPT ![t] = todo'[t]] /\ todo'[t] \in Seq(Call)
         /\ \A i \in DOMAIN todo'[t] : \E j \in DOMAIN todo[t] : todo'[t][i] = todo[t][j]
         /\ walker # t => \A i \in DOMAIN todo'[t] : todo'[t][i].op \in LastOps <=> i = Len(todo'[t])
         /\ \/ walker = t /\ op = "sync" /\ todo[t] # <<>>
            \/ /\ walker # t /\ todo[t] # <<>> /\ h \in Slots /\ Private(t, h)
               /\ \A i \in DOMAIN todo'[t] : todo'[t][i].handle = h
               /\ \E i \in DOMAIN todo[t] : todo[t][i].handle = h
               /\ op \in LastOps => todo'[t] = <<>>
            \/ /\ walker # t /\ todo[t] = <<>> /\ todo'[t] = <<>> /\ op # "auto_close"
               /\ h \in handles \/ (h = NoHandle /\ op = "append")
<1>1. pc[t] = "idle" /\ ptr[t] = None /\ given[t] = None
  BY DEF Begins, PlaceInv
<1>2. todo \in [Threads -> Seq(Call)]
  BY DEF TypeOK, Call
<1>3. CASE /\ todo[t] # <<>> /\ Head(todo[t]) = [op |-> op, handle |-> h]
           /\ todo' = [todo EXCEPT ![t] = Tail(@)]
  <2>1. todo'[t] = Tail(todo[t]) /\ todo' = [todo EXCEPT ![t] = todo'[t]]
    BY <1>2, <1>3
  <2>2. todo'[t] \in Seq(Call) /\ \A i \in DOMAIN todo'[t] : \E j \in DOMAIN todo[t] : todo'[t][i] = todo[t][j]
    <3> SUFFICES ASSUME NEW i \in DOMAIN Tail(todo[t])
                 PROVE  i + 1 \in DOMAIN todo[t] /\ Tail(todo[t])[i] = todo[t][i + 1]
      BY <1>3, <2>1, CallFacts
    <3> QED BY <1>3, CallFacts
  <2>3. CASE walker = t
    <3>1. 1 \in DOMAIN todo[t] /\ Head(todo[t]) = todo[t][1]
      BY <1>3, CallFacts
    <3>2. op = "sync"
      BY <1>3, <2>3, <3>1 DEF WalkInv
    <3> QED BY <1>1, <1>3, <2>1, <2>2, <2>3, <3>2
  <2>4. CASE walker # t
    <3>1. pc[t] \notin Opens
      BY <1>1 DEF Opens
    <3>2. PICK g \in Slots :
            /\ Private(t, g) /\ Head(todo[t]).handle = g
            /\ \A i \in DOMAIN Tail(todo[t]) :
                 /\ Tail(todo[t])[i].handle = g
                 /\ Tail(todo[t])[i].op \in LastOps <=> i = Len(Tail(todo[t]))
            /\ Head(todo[t]).op \in LastOps => Tail(todo[t]) = <<>>
      BY <1>3, <2>4, <3>1, PlanFacts
    <3>3. g = h
      BY <1>3, <3>2
    <3>4. \E i \in DOMAIN todo[t] : todo[t][i].handle = h
      <4>1. 1 \in DOMAIN todo[t] /\ Head(todo[t]) = todo[t][1]
        BY <1>3, CallFacts
      <4> QED BY <3>2, <3>3, <4>1
    <3>5. op \in LastOps => todo'[t] = <<>>
      <4>1. Head(todo[t]).op = op
        BY <1>3
      <4>2. todo'[t] = Tail(todo[t])
        BY <2>1
      <4> QED BY <4>1, <4>2, <3>2
    <3>6. \A i \in DOMAIN todo'[t] :
            todo'[t][i].handle = h /\ (todo'[t][i].op \in LastOps <=> i = Len(todo'[t]))
      BY <2>1, <3>2, <3>3
    <3> QED BY <1>1, <1>3, <2>1, <2>2, <2>4, <3>2, <3>3, <3>4, <3>5, <3>6
  <2> QED BY <2>3, <2>4
<1>4. CASE /\ AppBegins(t)
           /\ h \in handles \/ (h = NoHandle /\ op = "append")
           /\ op # "auto_close" /\ UNCHANGED todo
  <2>1. todo[t] = <<>> /\ walker # t /\ todo' = todo
    BY <1>4 DEF AppBegins, Idle
  <2>2. todo' = [todo EXCEPT ![t] = todo'[t]] /\ todo'[t] \in Seq(Call)
    BY <1>2, <2>1
  <2>3. DOMAIN todo'[t] = {}
    BY <2>1, CallFacts, EmptySeq
  <2> QED BY <1>1, <1>4, <2>1, <2>2, <2>3
<1> QED BY <1>3, <1>4 DEF Begins

LEMMA OthersPlans ==
  ASSUME PlanInv, NEW t \in Threads,
         \A u \in Threads \ {t} :
           /\ pc'[u] = pc[u] /\ ptr'[u] = ptr[u] /\ todo'[u] = todo[u]
           /\ (pc[u] \notin Opens => (walker' = u <=> walker = u)) /\ (walker' # u => walker # u)
           /\ \A h \in Slots : Private(u, h) /\ walker # u => table'[h] = table[h] /\ Private(u, h)'
  PROVE  \A u \in Threads \ {t} : PlanOf(u)'
<1> SUFFICES ASSUME NEW u \in Threads \ {t} PROVE PlanOf(u)'
  OBVIOUS
<1>1. pc'[u] = pc[u] /\ ptr'[u] = ptr[u] /\ todo'[u] = todo[u] /\ PlanOf(u)
  BY DEF PlanInv
<1>2. (walker # u)' => \A i \in DOMAIN todo'[u] : todo'[u][i].op \in LastOps <=> i = Len(todo'[u])
  BY <1>1 DEF PlanOf
<1>3. ASSUME (walker # u)', todo'[u] # <<>>, pc'[u] \notin Opens
      PROVE  \E h \in Slots : Private(u, h)' /\ \A i \in DOMAIN todo'[u] : todo'[u][i].handle = h
  <2>1. PICK h \in Slots : Private(u, h) /\ \A i \in DOMAIN todo[u] : todo[u][i].handle = h
    BY <1>1, <1>3 DEF PlanOf
  <2> QED BY <1>1, <1>3, <2>1
<1>4. pc'[u] \in Opens => \A i \in DOMAIN todo'[u] : todo'[u][i].handle = NoHandle
  BY <1>1 DEF PlanOf
<1>5. ASSUME pc'[u] = "auto_close"
      PROVE  /\ todo'[u] = <<>> /\ (walker # u)'
             /\ \E h \in Slots : ptr'[u] = table'[h] /\ Private(u, h)'
  <2>1. todo[u] = <<>> /\ walker # u /\ pc[u] \notin Opens
    BY <1>1, <1>5 DEF PlanOf, Opens
  <2>2. PICK h \in Slots : ptr[u] = table[h] /\ Private(u, h)
    BY <1>1, <1>5 DEF PlanOf
  <2> QED BY <1>1, <2>1, <2>2
<1> QED BY <1>2, <1>3, <1>4, <1>5 DEF PlanOf

\* A call that looks its stream up.
LEMMA LookupKeeps ==
  ASSUME TypeOK, Protocol, NEW t \in Threads, NEW op \in Sections, NEW h,
         Begins(t, op, h),
         ptr'[t] = StreamOf(h), pc'[t] = (IF StreamOf(h) = None THEN "idle" ELSE op),
         \A u \in Threads \ {t} : pc'[u] = pc[u] /\ ptr'[u] = ptr[u],
         \A u \in Threads : given'[u] # None <=> pc'[u] = "append",
         UNCHANGED <<table, live, stream, slot, walker, handles>>
  PROVE  Protocol'
<1> USE DEF Protocol
<1>1. /\ pc[t] = "idle" /\ ptr[t] = None
      /\ todo' = [todo EXCEPT ![t] = todo'[t]] /\ todo'[t] \in Seq(Call)
      /\ \A i \in DOMAIN todo'[t] : \E j \in DOMAIN todo[t] : todo'[t][i] = todo[t][j]
      /\ walker # t => \A i \in DOMAIN todo'[t] : todo'[t][i].op \in LastOps <=> i = Len(todo'[t])
      /\ \/ walker = t /\ op = "sync" /\ todo[t] # <<>>
         \/ /\ walker # t /\ todo[t] # <<>> /\ h \in Slots /\ Private(t, h)
            /\ \A i \in DOMAIN todo'[t] : todo'[t][i].handle = h
            /\ \E i \in DOMAIN todo[t] : todo[t][i].handle = h
            /\ op \in LastOps => todo'[t] = <<>>
         \/ /\ walker # t /\ todo[t] = <<>> /\ todo'[t] = <<>> /\ op # "auto_close"
            /\ h \in handles \/ (h = NoHandle /\ op = "append")
  BY BeginFacts
<1>2. /\ todo \in [Threads -> Seq(Call)] /\ table \in [Slots -> Streams \cup {None}] /\ handles \subseteq Slots
      /\ live \subseteq Streams
  BY DEF TypeOK, Call
<1>3. \A u \in Threads \ {t} : pc'[u] = pc[u] /\ ptr'[u] = ptr[u] /\ todo'[u] = todo[u]
  <2>1. \A u \in Threads \ {t} : todo'[u] = todo[u]
    BY <1>1, <1>2
  <2> QED BY <2>1
<1>4. pc'[t] \notin Owns /\ pc'[t] \notin Opens /\ op # "idle"
  BY DEF Owns, Opens, Sections
<1>5. ASSUME NEW g \in Slots, table[g] # None, g \notin handles, Concerns(t, g)'
      PROVE  Concerns(t, g)
  <2>1. CASE ptr'[t] = table'[g]
    <3>1. StreamOf(h) = table[g] /\ StreamOf(h) # None /\ h \in Slots /\ table[h] = table[g]
      BY <1>5, <2>1 DEF StreamOf
    <3>2. h = g
      BY <3>1 DEF TableInv
    <3>3. todo[t] # <<>> /\ Begins(t, op, h)
      BY <1>1, <1>5, <3>1, <3>2, SlotFacts
    <3>4. \E i \in DOMAIN todo[t] : todo[t][i].handle = h
      <4>1. 1 \in DOMAIN todo[t] /\ Head(todo[t]) = todo[t][1]
        BY <3>3, CallFacts
      <4>2. Head(todo[t]) = [op |-> op, handle |-> h]
        BY <3>3 DEF Begins, AppBegins, Idle
      <4>3. todo[t][1].handle = h
        BY <4>1, <4>2
      <4> QED BY <4>1, <4>3
    <3> QED BY <3>2, <3>4 DEF Concerns
  <2>2. CASE \E i \in DOMAIN todo'[t] : todo'[t][i].handle = g
    BY <1>1, <2>2 DEF Concerns
  <2> QED BY <1>5, <2>1, <2>2 DEF Concerns
<1>6. ASSUME NEW g \in Slots, table[g] # None, g \notin handles, NEW u \in Threads, Concerns(u, g)'
      PROVE  Concerns(u, g)
  BY <1>3, <1>5, <1>6 DEF Concerns
<1>7. ASSUME NEW u \in Threads, NEW g \in Slots, Private(u, g) PROVE Private(u, g)'
  BY <1>6, <1>7 DEF Private
<1>8. PlaceInv'
  <2> SUFFICES ASSUME NEW u \in Threads
               PROVE  /\ ptr'[u] = None <=> pc'[u] = "idle"
                      /\ pc'[u] = "reap" => slot' \in Slots
                      /\ pc'[u] \in Opens => ~stream'[ptr'[u]].auto_close
                      /\ pc'[u] = "free" => todo'[u] = <<>>
    BY DEF PlaceInv
  <2>1. CASE u = t
    BY <2>1, <1>4 DEF Owns
  <2>2. CASE u # t
    BY <2>2, <1>3 DEF PlaceInv
  <2> QED BY <2>1, <2>2
<1>9. TableInv'
  <2>1. ASSUME NEW u \in Threads, pc'[u] \in Sections PROVE \E g \in Slots : ptr'[u] = table'[g]
    <3>1. CASE u = t
      <4>1. StreamOf(h) # None
        BY <2>1, <3>1 DEF Sections
      <4> QED BY <3>1, <4>1 DEF StreamOf
    <3>2. CASE u # t
      BY <2>1, <3>2, <1>3 DEF TableInv
    <3> QED BY <3>1, <3>2
  <2>2. ASSUME NEW u \in Threads, pc'[u] \in Owns
        PROVE  /\ ptr'[u] \in live'
               /\ \A g \in Slots : table'[g] # ptr'[u]
               /\ \A v \in Threads \ {u} : ptr'[v] # ptr'[u]
    <3>1. u # t /\ pc[u] \in Owns /\ ptr'[u] = ptr[u]
      BY <2>2, <1>3, <1>4
    <3>2. /\ ptr[u] \in live /\ \A g \in Slots : table[g] # ptr[u]
          /\ \A v \in Threads \ {u} : ptr[v] # ptr[u]
      BY <3>1 DEF TableInv
    <3>3. ptr'[t] # ptr[u]
      BY <3>2, <1>2, NoneIsNobody DEF StreamOf
    <3> QED BY <3>1, <3>2, <3>3, <1>3
  <2>3. /\ \A g \in Slots : table'[g] # None => table'[g] \in live'
        /\ \A f, g \in Slots : table'[f] = table'[g] /\ table'[f] # None => f = g
        /\ \A g \in handles' : table'[g] # None
    BY DEF TableInv
  <2> QED BY <2>1, <2>2, <2>3 DEF TableInv
<1>10. PlanInv'
  <2>1. \A u \in Threads \ {t} : PlanOf(u)'
    BY <1>3, <1>7, OthersPlans
  <2>2. PlanOf(t)'
    <3>1. ASSUME (walker # t)', todo'[t] # <<>>
          PROVE  \E g \in Slots : Private(t, g)' /\ \A i \in DOMAIN todo'[t] : todo'[t][i].handle = g
      <4>1. h \in Slots /\ Private(t, h) /\ \A i \in DOMAIN todo'[t] : todo'[t][i].handle = h
        BY <1>1, <3>1
      <4> QED BY <4>1, <1>7
    <3>2. ASSUME pc'[t] = "auto_close"
          PROVE  /\ todo'[t] = <<>> /\ (walker # t)'
                 /\ \E g \in Slots : ptr'[t] = table'[g] /\ Private(t, g)'
      <4>1. op = "auto_close"
        BY <3>2
      <4>2. h \in Slots /\ Private(t, h) /\ walker # t /\ todo'[t] = <<>>
        BY <1>1, <4>1 DEF LastOps
      <4>3. ptr'[t] = table'[h]
        BY <4>2 DEF StreamOf
      <4> QED BY <4>2, <4>3, <1>7
    <3> QED BY <1>1, <1>4, <3>1, <3>2 DEF PlanOf
  <2> QED BY <2>1, <2>2 DEF PlanInv
<1>11. WalkInv'
  <2> SUFFICES ASSUME NEW u \in Threads, walker' = u
               PROVE  /\ pc'[u] \in {"idle", "sync"}
                      /\ \A i \in DOMAIN todo'[u] : todo'[u][i].op = "sync"
                      /\ \A v \in Threads \ {u} : todo'[v] = <<>> /\ pc'[v] \notin Owns
    BY DEF WalkInv
  <2>1. /\ pc[u] \in {"idle", "sync"}
        /\ \A i \in DOMAIN todo[u] : todo[u][i].op = "sync"
        /\ \A v \in Threads \ {u} : todo[v] = <<>> /\ pc[v] \notin Owns
    BY DEF WalkInv
  <2>2. CASE u = t
    <3>1. op = "sync"
      BY <1>1, <2>2
    <3>2. \A i \in DOMAIN todo'[u] : todo'[u][i].op = "sync"
      BY <1>1, <2>1, <2>2
    <3> QED BY <1>3, <2>1, <2>2, <3>1, <3>2
  <2>3. CASE u # t
    <3>1. todo'[t] = <<>>
      BY <1>1, <2>1, <2>3
    <3> QED BY <1>3, <1>4, <2>1, <2>3, <3>1
  <2> QED BY <2>2, <2>3
<1>12. AutoInv'
  BY <1>6 DEF AutoInv
<1> QED BY <1>8, <1>9, <1>10, <1>11, <1>12

\* A section that ends a call.
LEMMA SectionKeeps ==
  ASSUME TypeOK, Protocol, NEW t \in Threads, pc[t] \in Sections,
         pc'[t] = "idle", ptr'[t] = None,
         \A u \in Threads \ {t} : pc'[u] = pc[u] /\ ptr'[u] = ptr[u] /\ todo'[u] = todo[u],
         \A u \in Threads : given'[u] # None <=> pc'[u] = "append",
         todo'[t] = todo[t] \/ (todo[t] # <<>> /\ walker # t /\ todo'[t] = Tail(todo[t])),
         \A s \in Streams : stream'[s].auto_close = stream[s].auto_close
                            \/ (stream'[s].auto_close /\ pc[t] = "auto_close" /\ s = ptr[t]),
         UNCHANGED <<table, live, slot, walker, handles>>
  PROVE  Protocol'
<1> USE DEF Protocol
<1>1. /\ todo \in [Threads -> Seq(Call)] /\ table \in [Slots -> Streams \cup {None}] /\ handles \subseteq Slots
      /\ live \subseteq Streams /\ ptr \in [Threads -> Streams \cup {None}]
  BY DEF TypeOK, Call
<1>2. pc[t] \notin Opens /\ pc[t] \notin Owns /\ pc[t] # "idle" /\ ptr[t] # None
  BY DEF Opens, Owns, Sections, PlaceInv
<1>3. \A i \in DOMAIN todo'[t] : \E j \in DOMAIN todo[t] : todo'[t][i] = todo[t][j]
  <2>1. CASE todo[t] # <<>> /\ todo'[t] = Tail(todo[t])
    <3> SUFFICES ASSUME NEW i \in DOMAIN Tail(todo[t])
                 PROVE  i + 1 \in DOMAIN todo[t] /\ Tail(todo[t])[i] = todo[t][i + 1]
      BY <2>1
    <3> QED BY <2>1, CallFacts
  <2> QED BY <2>1
<1>4. ASSUME NEW u \in Threads, NEW g \in Slots, table[g] # None, Concerns(u, g)' PROVE Concerns(u, g)
  BY <1>3, <1>4 DEF Concerns
\* Only a stream that is its thread's own closes by itself.
<1>5. ASSUME NEW s \in Streams, stream'[s].auto_close, ~stream[s].auto_close
      PROVE  \E h \in Slots : s = table[h] /\ Private(t, h) /\ todo[t] = <<>> /\ walker # t /\ s = ptr[t]
  <2>1. pc[t] = "auto_close" /\ s = ptr[t]
    BY <1>5
  <2> QED BY <2>1 DEF PlanInv, PlanOf
<1>6. ASSUME NEW u \in Threads, NEW g \in Slots, Private(u, g), u # t \/ pc[t] # "auto_close"
      PROVE  Private(u, g)'
  <2>1. table[g] # None /\ table[g] \in Streams /\ ~stream[table[g]].auto_close /\ g \notin handles
    BY <1>1, <1>6 DEF Private
  <2>2. ~stream'[table[g]].auto_close
    <3> SUFFICES ASSUME stream'[table[g]].auto_close PROVE FALSE
      OBVIOUS
    <3>1. pc[t] = "auto_close" /\ walker # t /\ table[g] = ptr[t]
      BY <1>5, <2>1
    <3>2. u # t /\ Concerns(t, g)
      BY <1>6, <3>1 DEF Concerns
    <3> QED BY <1>6, <3>1, <3>2 DEF Private
  <2> QED BY <1>4, <1>6, <2>1, <2>2 DEF Private
<1>7. PlaceInv'
  <2> SUFFICES ASSUME NEW u \in Threads
               PROVE  /\ ptr'[u] = None <=> pc'[u] = "idle"
                      /\ pc'[u] = "reap" => slot' \in Slots
                      /\ pc'[u] \in Opens => ~stream'[ptr'[u]].auto_close
                      /\ pc'[u] = "free" => todo'[u] = <<>>
    BY DEF PlaceInv
  <2>1. CASE u = t
    BY <2>1 DEF Opens
  <2>2. CASE u # t
    <3>1. ASSUME pc[u] \in Opens PROVE ~stream'[ptr[u]].auto_close
      <4>1. ptr[u] \in live /\ ptr[u] \in Streams /\ ~stream[ptr[u]].auto_close /\ ptr[t] # ptr[u]
        BY <1>1, <3>1, <2>2 DEF PlaceInv, TableInv, Opens, Owns
      <4> QED BY <4>1
    <3> QED BY <2>2, <3>1 DEF PlaceInv
  <2> QED BY <2>1, <2>2
<1>8. TableInv'
  <2>1. ASSUME NEW u \in Threads, pc'[u] \in Sections PROVE \E g \in Slots : ptr'[u] = table'[g]
    <3>1. u # t
      BY <2>1 DEF Sections
    <3> QED BY <2>1, <3>1 DEF TableInv
  <2>2. ASSUME NEW u \in Threads, pc'[u] \in Owns
        PROVE  /\ ptr'[u] \in live'
               /\ \A g \in Slots : table'[g] # ptr'[u]
               /\ \A v \in Threads \ {u} : ptr'[v] # ptr'[u]
    <3>1. u # t /\ pc[u] \in Owns /\ ptr'[u] = ptr[u]
      BY <2>2 DEF Owns
    <3>2. /\ ptr[u] \in live /\ \A g \in Slots : table[g] # ptr[u]
          /\ \A v \in Threads \ {u} : ptr[v] # ptr[u]
      BY <3>1 DEF TableInv
    <3> QED BY <3>1, <3>2, <1>1, NoneIsNobody
  <2>3. /\ \A g \in Slots : table'[g] # None => table'[g] \in live'
        /\ \A f, g \in Slots : table'[f] = table'[g] /\ table'[f] # None => f = g
        /\ \A g \in handles' : table'[g] # None
    BY DEF TableInv
  <2> QED BY <2>1, <2>2, <2>3 DEF TableInv
<1>9. PlanInv'
  <2>1. \A u \in Threads \ {t} : PlanOf(u)'
    BY <1>6, OthersPlans
  <2>2. PlanOf(t)'
    <3>1. ASSUME walker # t
          PROVE  \A i \in DOMAIN todo'[t] : todo'[t][i].op \in LastOps <=> i = Len(todo'[t])
      <4>1. CASE todo'[t] = todo[t]
        BY <3>1, <4>1 DEF PlanInv, PlanOf
      <4>2. CASE todo[t] # <<>> /\ todo'[t] = Tail(todo[t])
        BY <1>2, <3>1, <4>2, PlanFacts
      <4> QED BY <4>1, <4>2
    <3>2. ASSUME walker # t, todo'[t] # <<>>
          PROVE  \E g \in Slots : Private(t, g)' /\ \A i \in DOMAIN todo'[t] : todo'[t][i].handle = g
      <4>1. todo[t] # <<>>
        BY <3>2
      <4>2. pc[t] # "auto_close"
        BY <4>1 DEF PlanInv, PlanOf
      <4>3. PICK g \in Slots : Private(t, g) /\ \A i \in DOMAIN todo[t] : todo[t][i].handle = g
        BY <1>2, <3>2, <4>1 DEF PlanInv, PlanOf
      <4> QED BY <1>3, <1>6, <4>2, <4>3
    <3> QED BY <3>1, <3>2 DEF PlanOf, Opens
  <2> QED BY <2>1, <2>2 DEF PlanInv
<1>10. WalkInv'
  <2> SUFFICES ASSUME NEW u \in Threads, walker' = u
               PROVE  /\ pc'[u] \in {"idle", "sync"}
                      /\ \A i \in DOMAIN todo'[u] : todo'[u][i].op = "sync"
                      /\ \A v \in Threads \ {u} : todo'[v] = <<>> /\ pc'[v] \notin Owns
    BY DEF WalkInv
  <2>1. /\ pc[u] \in {"idle", "sync"}
        /\ \A i \in DOMAIN todo[u] : todo[u][i].op = "sync"
        /\ \A v \in Threads \ {u} : todo[v] = <<>> /\ pc[v] \notin Owns
    BY DEF WalkInv
  <2>2. pc'[t] \notin Owns
    BY DEF Owns
  <2>3. CASE u = t
    <3>1. todo'[u] = todo[u] /\ pc'[u] = "idle"
      BY <2>3
    <3> QED BY <2>1, <2>3, <3>1
  <2>4. CASE u # t
    <3>1. todo[t] = <<>>
      BY <2>1, <2>4
    <3>2. todo'[t] = <<>>
      BY <3>1
    <3> QED BY <2>1, <2>2, <2>4, <3>2
  <2> QED BY <2>3, <2>4
<1>11. AutoInv'
  <2> SUFFICES ASSUME NEW g \in Slots, table[g] # None, stream'[table[g]].auto_close
               PROVE  g \notin handles /\ \A u \in Threads : Concerns(u, g)' => walker = u
    BY DEF AutoInv
  <2>1. table[g] \in Streams
    BY <1>1
  <2>2. CASE stream[table[g]].auto_close
    BY <2>2, <1>4 DEF AutoInv
  <2>3. CASE ~stream[table[g]].auto_close
    <3>1. PICK h \in Slots : table[g] = table[h] /\ Private(t, h) /\ todo[t] = <<>>
      BY <1>5, <2>1, <2>3
    <3>2. g = h
      BY <3>1 DEF TableInv
    <3>3. ~Concerns(t, g)'
      <4>1. DOMAIN todo'[t] = {}
        BY <3>1, <1>3, CallFacts, EmptySeq
      <4> QED BY <4>1 DEF Concerns
    <3> QED BY <1>4, <3>1, <3>2, <3>3 DEF Private
  <2> QED BY <2>2, <2>3
<1> QED BY <1>7, <1>8, <1>9, <1>10, <1>11

\* A close takes the stream out of the table.
LEMMA CloseBeginsKeeps ==
  ASSUME ClosersWait, TypeOK, Protocol, NEW t \in Threads, NEW h \in Slots, CloseBegins(t, h)
  PROVE  Protocol' /\ table[h] \in live
<1> USE DEF Protocol
<1>1. /\ todo \in [Threads -> Seq(Call)] /\ table \in [Slots -> Streams \cup {None}] /\ handles \subseteq Slots
      /\ live \subseteq Streams /\ ptr \in [Threads -> Streams \cup {None}] /\ pc \in [Threads -> Places]
      /\ stream \in [Streams -> Stream]
      /\ \A u \in Threads : pc[u] \notin Owns /\ pc[u] \notin Opens /\ pc[u] # "free"
  <2>1. lock = None
    BY DEF CloseBegins
  <2> QED BY <2>1, NoneIsNobody DEF TypeOK, Call, Owns, Opens
<1>2. /\ Begins(t, "close", h) /\ (todo[t] = <<>> => walker = None)
      /\ \A u \in Threads \ {t} : ~InCallOn(u, h)
      /\ table' = [table EXCEPT ![h] = None] /\ handles' = handles \ {h}
      /\ ptr' = [ptr EXCEPT ![t] = table[h]] /\ pc' = [pc EXCEPT ![t] = "free"]
      /\ stream' = [stream EXCEPT ![table[h]].done = TRUE]
      /\ live' = live /\ slot' = slot /\ given' = given /\ walker' = walker
  BY DEF CloseBegins, Undisturbed
<1>3. /\ pc[t] = "idle" /\ ptr[t] = None /\ given[t] = None
      /\ todo' = [todo EXCEPT ![t] = todo'[t]] /\ todo'[t] = <<>> /\ walker # t
      /\ h \in handles \/ Private(t, h)
  BY <1>2, BeginFacts, SlotFacts DEF LastOps
<1>4. table[h] # None /\ table[h] \in live /\ table[h] \in Streams
  BY <1>1, <1>3 DEF Private, TableInv
<1>5. walker = None
  <2> SUFFICES ASSUME walker # None PROVE FALSE
    OBVIOUS
  <2>1. walker \in Threads /\ todo[t] # <<>>
    BY <1>2 DEF TypeOK
  <2> QED BY <1>3, <2>1 DEF WalkInv
<1>6. /\ \A u \in Threads \ {t} : pc'[u] = pc[u] /\ ptr'[u] = ptr[u] /\ todo'[u] = todo[u]
      /\ pc'[t] = "free" /\ ptr'[t] = table[h] /\ DOMAIN todo'[t] = {}
      /\ table'[h] = None /\ \A g \in Slots \ {h} : table'[g] = table[g]
  <2>1. DOMAIN todo'[t] = {}
    BY <1>3
  <2> QED BY <1>1, <1>2, <1>3, <2>1
<1>7. ASSUME NEW s \in Streams PROVE stream'[s].auto_close = stream[s].auto_close
  BY <1>1, <1>2, <1>4 DEF Stream
<1>8. ASSUME NEW u \in Threads, NEW g \in Slots \ {h}, table[g] # None, Concerns(u, g)'
      PROVE  Concerns(u, g) /\ u # t
  <2>1. u # t
    BY <1>6, <1>8 DEF Concerns, TableInv
  <2> QED BY <1>6, <1>8, <2>1 DEF Concerns
<1>9. ASSUME NEW u \in Threads \ {t}, NEW g \in Slots, Private(u, g)
      PROVE  g # h /\ Private(u, g)'
  <2>1. g # h
    <3> SUFFICES ASSUME g = h PROVE FALSE
      OBVIOUS
    <3>1. Private(t, h)
      BY <1>3, <1>9 DEF Private
    <3>2. Begins(t, "close", h) /\ todo[t] # <<>>
      <4>1. h \notin handles /\ h # NoHandle
        BY <1>9, SlotFacts DEF Private
      <4> QED BY <1>2, <4>1 DEF Begins
    <3>3. Concerns(t, h)
      <4>1. 1 \in DOMAIN todo[t] /\ Head(todo[t]) = todo[t][1]
        BY <3>2, CallFacts
      <4>2. Head(todo[t]) = [op |-> "close", handle |-> h]
        BY <3>2 DEF Begins, AppBegins, Idle
      <4>3. todo[t][1].handle = h
        BY <4>1, <4>2
      <4> QED BY <4>1, <4>3 DEF Concerns
    <3> QED BY <1>5, <1>9, <3>3, NoneIsNobody DEF Private
  <2>2. table[g] # None /\ table[g] \in Streams /\ table'[g] = table[g]
    BY <1>1, <1>6, <1>9, <2>1 DEF Private
  <2> QED BY <1>2, <1>7, <1>8, <1>9, <2>1, <2>2 DEF Private
<1>10. PlaceInv'
  <2> SUFFICES ASSUME NEW u \in Threads
               PROVE  /\ ptr'[u] = None <=> pc'[u] = "idle"
                      /\ given'[u] # None <=> pc'[u] = "append"
                      /\ pc'[u] = "reap" => slot' \in Slots
                      /\ pc'[u] \in Opens => ~stream'[ptr'[u]].auto_close
                      /\ pc'[u] = "free" => todo'[u] = <<>>
    BY DEF PlaceInv
  <2>1. CASE u = t
    BY <2>1, <1>2, <1>3, <1>4, <1>6 DEF Opens
  <2>2. CASE u # t
    BY <2>2, <1>1, <1>2, <1>6 DEF PlaceInv, Opens
  <2> QED BY <2>1, <2>2
<1>11. TableInv'
  <2>1. ASSUME NEW u \in Threads, pc'[u] \in Sections PROVE \E g \in Slots : ptr'[u] = table'[g]
    <3>1. u # t
      BY <1>6, <2>1 DEF Sections
    <3>2. PICK g \in Slots : ptr[u] = table[g]
      BY <1>6, <2>1, <3>1 DEF TableInv
    <3>3. ptr[u] # None
      BY <1>6, <2>1, <3>1 DEF PlaceInv, Sections
    <3>4. g # h
      BY <1>2, <3>1, <3>2, <3>3 DEF InCallOn
    <3> QED BY <1>6, <3>1, <3>2, <3>4
  <2>2. ASSUME NEW u \in Threads, pc'[u] \in Owns
        PROVE  /\ ptr'[u] \in live'
               /\ \A g \in Slots : table'[g] # ptr'[u]
               /\ \A v \in Threads \ {u} : ptr'[v] # ptr'[u]
    <3>1. u = t
      BY <1>1, <1>6, <2>2
    <3>2. \A g \in Slots : table'[g] # table[h]
      BY <1>4, <1>6 DEF TableInv
    <3>3. \A v \in Threads \ {t} : ptr'[v] # table[h]
      BY <1>2, <1>4, <1>6 DEF InCallOn
    <3> QED BY <1>2, <1>4, <1>6, <3>1, <3>2, <3>3
  <2>3. /\ \A g \in Slots : table'[g] # None => table'[g] \in live'
        /\ \A f, g \in Slots : table'[f] = table'[g] /\ table'[f] # None => f = g
        /\ \A g \in handles' : table'[g] # None
    BY <1>1, <1>2, <1>6 DEF TableInv
  <2> QED BY <2>1, <2>2, <2>3 DEF TableInv
<1>12. PlanInv'
  <2>1. \A u \in Threads \ {t} : PlanOf(u)'
    BY <1>2, <1>6, <1>9, OthersPlans
  <2>2. PlanOf(t)'
    BY <1>3, <1>6 DEF PlanOf, Opens
  <2> QED BY <2>1, <2>2 DEF PlanInv
<1>13. WalkInv'
  BY <1>2, <1>5, NoneIsNobody DEF WalkInv
<1>14. AutoInv'
  <2> SUFFICES ASSUME NEW g \in Slots, table'[g] # None, stream'[table'[g]].auto_close
               PROVE  g \notin handles' /\ \A u \in Threads : Concerns(u, g)' => walker' = u
    BY DEF AutoInv
  <2>1. g # h /\ table'[g] = table[g] /\ table[g] \in Streams
    BY <1>1, <1>6
  <2> QED BY <1>2, <1>7, <1>8, <2>1 DEF AutoInv
<1> QED BY <1>4, <1>10, <1>11, <1>12, <1>13, <1>14

\* A thread frees the stream it took out of the table, or could not place.
LEMMA FreeKeeps ==
  ASSUME TypeOK, Protocol, NEW t \in Threads, pc[t] \in Owns, Returns(t),
         stream' = [stream EXCEPT ![ptr[t]] = NewStream], live' = live \ {ptr[t]},
         todo'[t] = <<>>, \A u \in Threads \ {t} : todo'[u] = todo[u],
         UNCHANGED <<table, given, walker, handles>>
  PROVE  Protocol'
<1> USE DEF Protocol
<1>1. /\ table \in [Slots -> Streams \cup {None}] /\ handles \subseteq Slots
      /\ live \subseteq Streams /\ ptr \in [Threads -> Streams \cup {None}] /\ pc \in [Threads -> Places]
      /\ stream \in [Streams -> Stream]
      /\ \A u \in Threads \ {t} : pc[u] \notin Owns /\ pc[u] \notin Opens /\ pc[u] # "free"
  BY NoneIsNobody DEF TypeOK, Owns, Opens
<1>2. /\ \A u \in Threads \ {t} : pc'[u] = pc[u] /\ ptr'[u] = ptr[u]
      /\ pc'[t] = "idle" /\ ptr'[t] = None /\ DOMAIN todo'[t] = {}
  <2>1. DOMAIN todo'[t] = {}
    OBVIOUS
  <2> QED BY <1>1, <2>1 DEF Returns
<1>3. /\ ptr[t] \in live /\ \A h \in Slots : table[h] # ptr[t]
      /\ \A u \in Threads \ {t} : ptr[u] # ptr[t]
  BY DEF TableInv
<1>4. walker = None
  <2> SUFFICES ASSUME walker # None PROVE FALSE
    OBVIOUS
  <2>1. walker \in Threads
    BY DEF TypeOK
  <2>2. CASE walker = t
    BY <2>2 DEF WalkInv, Owns
  <2>3. CASE walker # t
    BY <2>1, <2>3 DEF WalkInv
  <2> QED BY <2>2, <2>3
<1>5. \A s \in Streams \ {ptr[t]} : stream'[s] = stream[s]
  BY <1>1
<1>6. ASSUME NEW u \in Threads, NEW g \in Slots, table[g] # None, Concerns(u, g)' PROVE Concerns(u, g)
  BY <1>2, <1>6 DEF Concerns
<1>7. ASSUME NEW u \in Threads, NEW g \in Slots, Private(u, g) PROVE Private(u, g)'
  BY <1>1, <1>3, <1>5, <1>6, <1>7 DEF Private
<1>8. PlaceInv'
  <2> SUFFICES ASSUME NEW u \in Threads
               PROVE  /\ ptr'[u] = None <=> pc'[u] = "idle"
                      /\ given'[u] # None <=> pc'[u] = "append"
                      /\ pc'[u] \notin Opens /\ pc'[u] # "free"
    BY DEF PlaceInv, Opens
  <2>1. given[t] = None
    BY DEF PlaceInv, Owns
  <2> QED BY <1>1, <1>2, <2>1 DEF PlaceInv, Opens
<1>9. TableInv'
  <2>1. ASSUME NEW u \in Threads, pc'[u] \in Sections PROVE \E g \in Slots : ptr'[u] = table'[g]
    BY <1>2, <2>1 DEF Sections, TableInv
  <2>2. \A u \in Threads : pc'[u] \notin Owns
    BY <1>1, <1>2 DEF Owns
  <2>3. /\ \A g \in Slots : table'[g] # None => table'[g] \in live'
        /\ \A f, g \in Slots : table'[f] = table'[g] /\ table'[f] # None => f = g
        /\ \A g \in handles' : table'[g] # None
    BY <1>3 DEF TableInv
  <2> QED BY <2>1, <2>2, <2>3 DEF TableInv
<1>10. PlanInv'
  <2>1. \A u \in Threads \ {t} : PlanOf(u)'
    BY <1>2, <1>7, OthersPlans
  <2>2. PlanOf(t)'
    BY <1>2 DEF PlanOf, Opens
  <2> QED BY <2>1, <2>2 DEF PlanInv
<1>11. WalkInv'
  BY <1>4, NoneIsNobody DEF WalkInv
<1>12. AutoInv'
  <2> SUFFICES ASSUME NEW g \in Slots, table[g] # None, stream'[table[g]].auto_close
               PROVE  g \notin handles /\ \A u \in Threads : Concerns(u, g)' => walker = u
    BY DEF AutoInv
  <2>1. table[g] \in Streams \ {ptr[t]}
    BY <1>1, <1>3
  <2> QED BY <1>5, <1>6, <2>1 DEF AutoInv
<1> QED BY <1>8, <1>9, <1>10, <1>11, <1>12

LEMMA PlannedCalls ==
  ASSUME NEW plan \in DOMAIN Plans
  PROVE  LET p == On(Plans[plan], NoHandle) IN
         /\ p \in Seq(Call)
         /\ \A i \in DOMAIN p : p[i].handle = NoHandle /\ (p[i].op \in LastOps <=> i = Len(p))
<1> DEFINE p == On(Plans[plan], NoHandle)
<1> DEFINE ops == Plans[plan]
<1>1. \/ ops = <<"give">> \/ ops = <<"append", "finish", "give">> \/ ops = <<"close">>
      \/ ops = <<"append", "finish", "auto_close">> \/ ops = <<"append", "finish", "sync", "close">>
  BY DEF Plans
<1>2. /\ Len(ops) \in Nat /\ DOMAIN ops = 1 .. Len(ops)
      /\ \A i \in 1 .. Len(ops) : ops[i] \in Ops /\ (ops[i] \in LastOps <=> i = Len(ops))
  <2> HIDE DEF ops
  <2>1. CASE ops = <<"give">>
    BY <2>1 DEF LastOps, Ops
  <2>2. CASE ops = <<"append", "finish", "give">>
    BY <2>2 DEF LastOps, Ops
  <2>3. CASE ops = <<"close">>
    BY <2>3 DEF LastOps, Ops
  <2>4. CASE ops = <<"append", "finish", "auto_close">>
    BY <2>4 DEF LastOps, Ops
  <2>5. CASE ops = <<"append", "finish", "sync", "close">>
    BY <2>5 DEF LastOps, Ops
  <2> QED BY <1>1, <2>1, <2>2, <2>3, <2>4, <2>5
<1>3. p = [i \in 1 .. Len(ops) |-> [op |-> ops[i], handle |-> NoHandle]]
  BY <1>2 DEF On
<1> HIDE DEF ops
<1>4. p \in [1 .. Len(ops) -> Call]
  <2>1. ASSUME NEW i \in 1 .. Len(ops) PROVE [op |-> ops[i], handle |-> NoHandle] \in Call
    BY <1>2 DEF Call, Handles
  <2> DEFINE asked == [i \in 1 .. Len(ops) |-> [op |-> ops[i], handle |-> NoHandle]]
  <2>2. asked \in [1 .. Len(ops) -> Call]
    BY <2>1
  <2> QED BY <1>3, <2>2
<1>5. p \in Seq(Call) /\ Len(p) = Len(ops) /\ DOMAIN p = 1 .. Len(ops)
  BY <1>2, <1>4, FunctionIsSeq
<1>6. \A i \in 1 .. Len(ops) : p[i].handle = NoHandle /\ p[i].op = ops[i]
  BY <1>3
<1> HIDE DEF p
<1>7. \A i \in DOMAIN p : p[i].handle = NoHandle /\ (p[i].op \in LastOps <=> i = Len(p))
  BY <1>2, <1>5, <1>6
<1> QED BY <1>5, <1>7 DEF p

LEMMA OpenBeginsKeeps ==
  ASSUME TypeOK, Protocol, Unused, NEW t \in Threads, NEW plan \in DOMAIN Plans, OpenBegins(t, plan)
  PROVE  Protocol'
<1> USE DEF Protocol
<1> DEFINE s == CHOOSE s \in Streams \ live : TRUE
<1>1. /\ todo \in [Threads -> Seq(Call)] /\ table \in [Slots -> Streams \cup {None}] /\ handles \subseteq Slots
      /\ live \subseteq Streams /\ ptr \in [Threads -> Streams \cup {None}] /\ pc \in [Threads -> Places]
      /\ \A u \in Threads : pc[u] \notin Owns /\ pc[u] \notin Opens /\ pc[u] # "free"
  <2>1. lock = None
    BY DEF OpenBegins
  <2> QED BY <2>1, NoneIsNobody DEF TypeOK, Call, Owns, Opens
<1>2. /\ pc[t] = "idle" /\ walker = None /\ s \in Streams \ live
      /\ live' = live \cup {s} /\ ptr' = [ptr EXCEPT ![t] = s] /\ pc' = [pc EXCEPT ![t] = "reap"]
      /\ todo' = [todo EXCEPT ![t] = On(Plans[plan], NoHandle)]
      /\ table' = table /\ stream' = stream /\ given' = given /\ walker' = walker /\ handles' = handles
      /\ slot' = 1
  BY DEF OpenBegins, AppBegins, Idle, Undisturbed
<1> HIDE DEF s
<1>3. ~stream[s].auto_close /\ s # None
  BY <1>2, NoneIsNobody DEF Unused, NewStream
<1>4. /\ \A u \in Threads \ {t} : pc'[u] = pc[u] /\ ptr'[u] = ptr[u] /\ todo'[u] = todo[u]
      /\ pc'[t] = "reap" /\ ptr'[t] = s /\ todo'[t] = On(Plans[plan], NoHandle)
  BY <1>1, <1>2
<1>5. \A i \in DOMAIN todo'[t] :
        /\ todo'[t][i].handle = NoHandle
        /\ todo'[t][i].op \in LastOps <=> i = Len(todo'[t])
  BY <1>4, PlannedCalls
<1>6. ASSUME NEW u \in Threads, NEW g \in Slots, table[g] # None, Concerns(u, g)' PROVE Concerns(u, g)
  <2>1. CASE u = t
    <3>1. g # NoHandle /\ table[g] \in live
      BY <1>6, SlotFacts DEF TableInv
    <3> QED BY <1>2, <1>4, <1>5, <1>6, <2>1, <3>1 DEF Concerns
  <2>2. CASE u # t
    BY <1>2, <1>4, <1>6, <2>2 DEF Concerns
  <2> QED BY <2>1, <2>2
<1>7. ASSUME NEW u \in Threads, NEW g \in Slots, Private(u, g) PROVE Private(u, g)'
  BY <1>2, <1>6, <1>7 DEF Private
<1>8. PlaceInv'
  <2> SUFFICES ASSUME NEW u \in Threads
               PROVE  /\ ptr'[u] = None <=> pc'[u] = "idle"
                      /\ given'[u] # None <=> pc'[u] = "append"
                      /\ pc'[u] = "reap" => slot' \in Slots
                      /\ pc'[u] \in Opens => ~stream'[ptr'[u]].auto_close
                      /\ pc'[u] = "free" => todo'[u] = <<>>
    BY DEF PlaceInv
  <2>1. CASE u = t
    BY <2>1, <1>2, <1>3, <1>4, SlotFacts DEF PlaceInv
  <2>2. CASE u # t
    BY <2>2, <1>1, <1>2, <1>4 DEF PlaceInv, Opens
  <2> QED BY <2>1, <2>2
<1>9. TableInv'
  <2>1. ASSUME NEW u \in Threads, pc'[u] \in Sections PROVE \E g \in Slots : ptr'[u] = table'[g]
    BY <1>2, <1>4, <2>1 DEF Sections, TableInv
  <2>2. ASSUME NEW u \in Threads, pc'[u] \in Owns
        PROVE  /\ ptr'[u] \in live'
               /\ \A g \in Slots : table'[g] # ptr'[u]
               /\ \A v \in Threads \ {u} : ptr'[v] # ptr'[u]
    <3>1. u = t
      BY <1>1, <1>4, <2>2
    <3>2. \A g \in Slots : table[g] # s
      BY <1>2, <1>3 DEF TableInv
    <3>3. ASSUME NEW v \in Threads \ {t} PROVE ptr[v] # s
      <4>1. pc[v] = "idle" \/ pc[v] \in Sections
        BY <1>1 DEF Places, Sections, Owns
      <4> QED BY <1>3, <3>2, <4>1 DEF PlaceInv, TableInv
    <3> QED BY <1>2, <1>4, <3>1, <3>2, <3>3
  <2>3. /\ \A g \in Slots : table'[g] # None => table'[g] \in live'
        /\ \A f, g \in Slots : table'[f] = table'[g] /\ table'[f] # None => f = g
        /\ \A g \in handles' : table'[g] # None
    BY <1>2 DEF TableInv
  <2> QED BY <2>1, <2>2, <2>3 DEF TableInv
<1>10. PlanInv'
  <2>1. \A u \in Threads \ {t} : PlanOf(u)'
    BY <1>2, <1>4, <1>7, OthersPlans
  <2>2. PlanOf(t)'
    BY <1>4, <1>5 DEF PlanOf, Opens
  <2> QED BY <2>1, <2>2 DEF PlanInv
<1>11. WalkInv'
  BY <1>2, NoneIsNobody DEF WalkInv
<1>12. AutoInv'
  BY <1>2, <1>6 DEF AutoInv
<1> QED BY <1>8, <1>9, <1>10, <1>11, <1>12

LEMMA NobodyWalks ==
  ASSUME TypeOK, WalkInv, NEW t \in Threads, pc[t] \in Owns
  PROVE  walker = None
<1>1. walker \in Threads \cup {None}
  BY DEF TypeOK
<1>2. walker # t
  BY DEF WalkInv, Owns
<1> QED BY <1>1, <1>2 DEF WalkInv

LEMMA ReapKeeps ==
  ASSUME TypeOK, Protocol, NEW t \in Threads, Reap(t)
  PROVE  Protocol'
<1> USE DEF Protocol
<1>1. /\ table \in [Slots -> Streams \cup {None}] /\ handles \subseteq Slots
      /\ live \subseteq Streams /\ ptr \in [Threads -> Streams \cup {None}] /\ pc \in [Threads -> Places]
      /\ stream \in [Streams -> Stream] /\ slot \in Slots
      /\ pc[t] = "reap" /\ pc[t] \in Owns /\ pc[t] \in Opens
      /\ \A u \in Threads \ {t} : pc[u] \notin Owns /\ pc[u] \notin Opens /\ pc[u] # "free"
  <2>1. pc[t] = "reap" /\ lock = t
    BY DEF Reap, TypeOK
  <2> QED BY <2>1, NoneIsNobody DEF TypeOK, Owns, Opens, PlaceInv
<1>2. walker = None
  BY <1>1, NobodyWalks
<1>3. /\ slot' = slot + 1
      /\ pc'[t] = IF slot = LastSlot THEN "place" ELSE "reap"
      /\ \A u \in Threads \ {t} : pc'[u] = pc[u]
      /\ ptr' = ptr /\ todo' = todo /\ given' = given /\ walker' = walker /\ handles' = handles
  BY <1>1 DEF Reap
<1>4. /\ ptr[t] \in live /\ \A h \in Slots : table[h] # ptr[t]
      /\ \A u \in Threads \ {t} : ptr[u] # ptr[t]
  BY <1>1 DEF TableInv
\* A stream that is reaped is not in use.
<1>5. \/ UNCHANGED <<live, stream, table>>
      \/ /\ table[slot] # None /\ stream[table[slot]].auto_close
         /\ live' = live \ {table[slot]} /\ stream' = [stream EXCEPT ![table[slot]] = NewStream]
         /\ table' = [table EXCEPT ![slot] = None]
         /\ slot \notin handles /\ \A u \in Threads : ptr[u] # table[slot]
  <2>1. CASE table[slot] # None /\ Reapable(table[slot])
    <3>1. /\ live' = live \ {table[slot]} /\ stream' = [stream EXCEPT ![table[slot]] = NewStream]
          /\ table' = [table EXCEPT ![slot] = None]
      BY <2>1 DEF Reap, FreeStream
    <3>2. stream[table[slot]].auto_close
      BY <2>1 DEF Reapable
    <3>3. slot \notin handles /\ \A u \in Threads : ~Concerns(u, slot)
      BY <1>1, <1>2, <2>1, <3>2, NoneIsNobody DEF AutoInv
    <3> QED BY <2>1, <3>1, <3>2, <3>3 DEF Concerns
  <2>2. CASE ~(table[slot] # None /\ Reapable(table[slot]))
    BY <2>2 DEF Reap
  <2> QED BY <2>1, <2>2
<1>6. ASSUME NEW g \in Slots, table'[g] # None
      PROVE  /\ table'[g] = table[g] /\ table[g] \in live' /\ table[g] \in Streams
             /\ stream'[table[g]] = stream[table[g]]
  <2>1. table'[g] = table[g] /\ table[g] \in live /\ table[g] \in Streams
    BY <1>1, <1>5, <1>6 DEF TableInv
  <2>2. CASE UNCHANGED <<live, stream, table>>
    BY <2>1, <2>2
  <2>3. CASE ~UNCHANGED <<live, stream, table>>
    <3>1. g # slot
      BY <1>1, <1>5, <1>6, <2>3
    <3>2. table[g] # table[slot]
      BY <1>1, <1>6, <2>1, <3>1 DEF TableInv
    <3> QED BY <1>1, <1>5, <2>1, <2>3, <3>2
  <2> QED BY <2>1, <2>2, <2>3
<1>7. ASSUME NEW u \in Threads, NEW g \in Slots, table'[g] # None, Concerns(u, g)' PROVE Concerns(u, g)
  BY <1>3, <1>6, <1>7 DEF Concerns
<1>8. ASSUME NEW u \in Threads, NEW g \in Slots, Private(u, g)
      PROVE  table'[g] = table[g] /\ Private(u, g)'
  <2>1. table[g] # None /\ ~stream[table[g]].auto_close
    BY <1>8 DEF Private
  <2>2. table'[g] = table[g]
    BY <1>1, <1>5, <2>1
  <2> QED BY <1>3, <1>6, <1>7, <1>8, <2>1, <2>2 DEF Private
<1>9. PlaceInv'
  <2>1. ptr[t] \in Streams /\ stream'[ptr[t]] = stream[ptr[t]]
    BY <1>1, <1>4, <1>5
  <2> SUFFICES ASSUME NEW u \in Threads
               PROVE  /\ ptr'[u] = None <=> pc'[u] = "idle"
                      /\ given'[u] # None <=> pc'[u] = "append"
                      /\ pc'[u] = "reap" => slot' \in Slots
                      /\ pc'[u] \in Opens => ~stream'[ptr'[u]].auto_close
                      /\ pc'[u] = "free" => todo'[u] = <<>>
    BY DEF PlaceInv
  <2>2. CASE u = t
    BY <2>1, <2>2, <1>1, <1>3, SlotFacts DEF PlaceInv
  <2>3. CASE u # t
    BY <2>3, <1>1, <1>3 DEF PlaceInv
  <2> QED BY <2>2, <2>3
<1>10. TableInv'
  <2>1. ASSUME NEW u \in Threads, pc'[u] \in Sections PROVE \E g \in Slots : ptr'[u] = table'[g]
    <3>1. u # t
      BY <1>3, <2>1 DEF Sections
    <3>2. PICK g \in Slots : ptr[u] = table[g]
      BY <1>3, <2>1, <3>1 DEF TableInv
    <3>3. table'[g] = table[g]
      BY <1>1, <1>5, <3>2
    <3> QED BY <1>3, <3>2, <3>3
  <2>2. ASSUME NEW u \in Threads, pc'[u] \in Owns
        PROVE  /\ ptr'[u] \in live'
               /\ \A g \in Slots : table'[g] # ptr'[u]
               /\ \A v \in Threads \ {u} : ptr'[v] # ptr'[u]
    <3>1. u = t
      BY <1>1, <1>3, <2>2
    <3>2. ptr[t] \in live' /\ ptr[t] # None
      BY <1>1, <1>4, <1>5, NoneIsNobody
    <3>3. \A g \in Slots : table'[g] # ptr[t]
      BY <1>4, <1>6, <3>2
    <3> QED BY <1>3, <1>4, <3>1, <3>2, <3>3
  <2>3. \A g \in Slots : table'[g] # None => table'[g] \in live'
    BY <1>6
  <2>4. \A f, g \in Slots : table'[f] = table'[g] /\ table'[f] # None => f = g
    BY <1>6 DEF TableInv
  <2>5. ASSUME NEW g \in handles' PROVE table'[g] # None
    <3>1. g \in Slots /\ table[g] # None /\ g \in handles
      BY <1>1, <1>3 DEF TableInv
    <3> QED BY <1>1, <1>5, <3>1
  <2> QED BY <2>1, <2>2, <2>3, <2>4, <2>5 DEF TableInv
<1>11. PlanInv'
  <2>1. \A u \in Threads \ {t} : PlanOf(u)'
    BY <1>3, <1>8, OthersPlans
  <2>2. PlanOf(t)'
    <3>1. pc'[t] \in Opens /\ pc'[t] # "auto_close"
      BY <1>3 DEF Opens
    <3> QED BY <1>1, <1>3, <3>1 DEF PlanInv, PlanOf
  <2> QED BY <2>1, <2>2 DEF PlanInv
<1>12. WalkInv'
  BY <1>2, <1>3, NoneIsNobody DEF WalkInv
<1>13. AutoInv'
  BY <1>3, <1>6, <1>7 DEF AutoInv
<1> QED BY <1>9, <1>10, <1>11, <1>12, <1>13

LEMMA PlaceKeeps ==
  ASSUME TypeOK, Protocol, NEW t \in Threads, NEW h \in Slots, Place(t, h)
  PROVE  Protocol'
<1> USE DEF Protocol
<1>1. /\ table \in [Slots -> Streams \cup {None}] /\ handles \subseteq Slots /\ todo \in [Threads -> Seq(Call)]
      /\ live \subseteq Streams /\ ptr \in [Threads -> Streams \cup {None}] /\ pc \in [Threads -> Places]
      /\ pc[t] = "place" /\ pc[t] \in Owns /\ pc[t] \in Opens
      /\ \A u \in Threads \ {t} : pc[u] \notin Owns /\ pc[u] \notin Opens /\ pc[u] # "free"
  <2>1. pc[t] = "place" /\ lock = t
    BY DEF Place, TypeOK
  <2> QED BY <2>1, NoneIsNobody DEF TypeOK, Owns, Opens, Call
<1>2. walker = None
  BY <1>1, NobodyWalks
<1>3. /\ table[h] = None /\ table' = [table EXCEPT ![h] = ptr[t]]
      /\ pc'[t] = "idle" /\ ptr'[t] = None
      /\ todo'[t] = [i \in DOMAIN todo[t] |-> [todo[t][i] EXCEPT !.handle = h]]
      /\ \A u \in Threads \ {t} : pc'[u] = pc[u] /\ ptr'[u] = ptr[u] /\ todo'[u] = todo[u]
      /\ stream' = stream /\ live' = live /\ given' = given /\ walker' = walker /\ handles' = handles
  BY <1>1 DEF Place, LowestUnused, Returns
<1>4. /\ ptr[t] \in live /\ ptr[t] # None /\ ~stream[ptr[t]].auto_close
      /\ \A g \in Slots : table[g] # ptr[t]
      /\ \A u \in Threads \ {t} : ptr[u] # ptr[t]
      /\ h \notin handles
  BY <1>1, <1>3, NoneIsNobody DEF TableInv, PlaceInv
<1>5. table'[h] = ptr[t] /\ \A g \in Slots \ {h} : table'[g] = table[g]
  BY <1>1, <1>3
<1>6. /\ DOMAIN todo'[t] = DOMAIN todo[t] /\ Len(todo'[t]) = Len(todo[t])
      /\ \A i \in DOMAIN todo'[t] : todo'[t][i].handle = h /\ todo'[t][i].op = todo[t][i].op
  <2>1. todo[t] \in Seq(Call) /\ DOMAIN todo[t] = 1 .. Len(todo[t]) /\ Len(todo[t]) \in Nat
    BY CallFacts
  <2>2. \A i \in DOMAIN todo[t] : todo[t][i] \in Call
    BY <2>1
  <2> QED BY <1>3, <2>1, <2>2 DEF Call
<1>7. ASSUME NEW u \in Threads, NEW g \in Slots \ {h}, table[g] # None, Concerns(u, g)' PROVE Concerns(u, g)
  <2>1. CASE u = t
    BY <1>3, <1>5, <1>6, <1>7, <2>1 DEF Concerns
  <2>2. CASE u # t
    BY <1>3, <1>5, <1>7, <2>2 DEF Concerns
  <2> QED BY <2>1, <2>2
<1>8. ASSUME NEW u \in Threads, NEW g \in Slots, Private(u, g)
      PROVE  g # h /\ table'[g] = table[g] /\ Private(u, g)'
  <2>1. g # h /\ table'[g] = table[g]
    BY <1>3, <1>5, <1>8 DEF Private
  <2> QED BY <1>3, <1>7, <1>8, <2>1 DEF Private
\* Nobody has heard of the handle.
<1>9. ASSUME NEW u \in Threads \ {t} PROVE ~Concerns(u, h)'
  <2> SUFFICES ASSUME Concerns(u, h)' PROVE FALSE
    OBVIOUS
  <2>1. PICK i \in DOMAIN todo[u] : todo[u][i].handle = h
    BY <1>3, <1>4, <1>5 DEF Concerns
  <2>2. todo[u] # <<>> /\ pc[u] \notin Opens /\ walker # u
    <3>1. DOMAIN todo[u] # {}
      BY <2>1
    <3> QED BY <1>1, <1>2, <3>1, NoneIsNobody
  <2>3. PICK g \in Slots : Private(u, g) /\ \A j \in DOMAIN todo[u] : todo[u][j].handle = g
    BY <2>2 DEF PlanInv, PlanOf
  <2> QED BY <1>3, <2>1, <2>3 DEF Private
<1>10. Private(t, h)'
  BY <1>3, <1>4, <1>5, <1>9 DEF Private
<1>11. PlaceInv'
  <2> SUFFICES ASSUME NEW u \in Threads
               PROVE  /\ ptr'[u] = None <=> pc'[u] = "idle"
                      /\ given'[u] # None <=> pc'[u] = "append"
                      /\ pc'[u] \notin Opens /\ pc'[u] # "free"
    BY DEF PlaceInv, Opens
  <2>1. given[t] = None
    BY <1>1 DEF PlaceInv
  <2> QED BY <1>1, <1>3, <2>1 DEF PlaceInv, Opens
<1>12. TableInv'
  <2>1. ASSUME NEW u \in Threads, pc'[u] \in Sections PROVE \E g \in Slots : ptr'[u] = table'[g]
    <3>1. u # t /\ pc[u] \in Sections /\ pc[u] # "idle"
      BY <1>3, <2>1 DEF Sections
    <3>2. PICK g \in Slots : ptr[u] = table[g]
      BY <3>1 DEF TableInv
    <3>3. g # h
      BY <1>3, <3>1, <3>2 DEF PlaceInv
    <3> QED BY <1>3, <1>5, <3>1, <3>2, <3>3
  <2>2. \A u \in Threads : pc'[u] \notin Owns
    BY <1>1, <1>3 DEF Owns
  <2>3. /\ \A g \in Slots : table'[g] # None => table'[g] \in live'
        /\ \A f, g \in Slots : table'[f] = table'[g] /\ table'[f] # None => f = g
        /\ \A g \in handles' : table'[g] # None
    BY <1>1, <1>3, <1>4, <1>5 DEF TableInv
  <2> QED BY <2>1, <2>2, <2>3 DEF TableInv
<1>13. PlanInv'
  <2>1. \A u \in Threads \ {t} : PlanOf(u)'
    BY <1>3, <1>8, OthersPlans
  <2>2. PlanOf(t)'
    <3>1. \A i \in DOMAIN todo'[t] : todo'[t][i].op \in LastOps <=> i = Len(todo'[t])
      BY <1>2, <1>6, NoneIsNobody DEF PlanInv, PlanOf
    <3> QED BY <1>3, <1>6, <1>10, <3>1 DEF PlanOf, Opens
  <2> QED BY <2>1, <2>2 DEF PlanInv
<1>14. WalkInv'
  BY <1>2, <1>3, NoneIsNobody DEF WalkInv
<1>15. AutoInv'
  <2> SUFFICES ASSUME NEW g \in Slots, table'[g] # None, stream[table'[g]].auto_close
               PROVE  g \notin handles /\ \A u \in Threads : Concerns(u, g)' => walker = u
    BY <1>3 DEF AutoInv
  <2>1. g # h /\ table'[g] = table[g]
    BY <1>4, <1>5
  <2> QED BY <1>7, <2>1 DEF AutoInv
<1> QED BY <1>11, <1>12, <1>13, <1>14, <1>15

LEMMA GiveKeeps ==
  ASSUME TypeOK, Protocol, NEW t \in Threads, Give(t)
  PROVE  Protocol'
<1> USE DEF Protocol
<1> DEFINE h == Head(todo[t]).handle
<1>1. /\ todo \in [Threads -> Seq(Call)]
      /\ pc[t] = "idle" /\ todo[t] # <<>> /\ Head(todo[t]).op = "give" /\ pc[t] \notin Opens
      /\ handles' = handles \cup {h} /\ todo' = [todo EXCEPT ![t] = Tail(todo[t])]
      /\ UNCHANGED <<table, live, stream, slot, pc, ptr, given, walker>>
  BY DEF Give, TypeOK, Call, Opens
<1>2. walker # t
  <2>1. 1 \in DOMAIN todo[t] /\ Head(todo[t]) = todo[t][1]
    BY <1>1, CallFacts
  <2> QED BY <1>1, <2>1 DEF WalkInv
<1>3. h \in Slots /\ Private(t, h) /\ Tail(todo[t]) = <<>>
  BY <1>1, <1>2, PlanFacts DEF LastOps
<1>4. Concerns(t, h)
  <2>1. 1 \in DOMAIN todo[t] /\ Head(todo[t]) = todo[t][1]
    BY <1>1, CallFacts
  <2> QED BY <2>1 DEF Concerns
<1>5. /\ todo'[t] = <<>> /\ DOMAIN todo'[t] = {}
      /\ \A u \in Threads \ {t} : todo'[u] = todo[u]
  BY <1>1, <1>3
<1> HIDE DEF h
<1>6. ASSUME NEW u \in Threads, NEW g \in Slots, Concerns(u, g)' PROVE Concerns(u, g)
  BY <1>1, <1>5, <1>6 DEF Concerns
<1>7. ASSUME NEW u \in Threads \ {t}, NEW g \in Slots, Private(u, g), walker # u PROVE Private(u, g)'
  <2>1. g # h
    <3> SUFFICES ASSUME g = h PROVE FALSE
      OBVIOUS
    <3>1. Concerns(t, g) /\ Private(u, g)
      BY <1>4, <1>7
    <3>2. walker = t
      BY <3>1 DEF Private
    <3> QED BY <1>2, <3>2
  <2> QED BY <1>1, <1>6, <1>7, <2>1 DEF Private
<1>8. PlaceInv'
  BY <1>1, <1>5 DEF PlaceInv
<1>9. TableInv'
  BY <1>1, <1>3 DEF TableInv, Private
<1>10. PlanInv'
  <2>1. \A u \in Threads \ {t} : PlanOf(u)'
    BY <1>1, <1>5, <1>7, OthersPlans
  <2>2. PlanOf(t)'
    BY <1>1, <1>5 DEF PlanOf
  <2> QED BY <2>1, <2>2 DEF PlanInv
<1>11. WalkInv'
  BY <1>1, <1>2, <1>5 DEF WalkInv
<1>12. AutoInv'
  BY <1>1, <1>3, <1>6 DEF AutoInv, Private
<1> QED BY <1>8, <1>9, <1>10, <1>11, <1>12

LEMMA CompleteBeginsKeeps ==
  ASSUME TypeOK, Protocol, NEW t \in Threads, CompleteBegins(t)
  PROVE  Protocol'
<1> USE DEF Protocol
<1>1. /\ todo \in [Threads -> Seq(Call)]
      /\ pc[t] = "idle" /\ walker = None /\ walker' = t
      /\ \A u \in Threads \ {t} : todo[u] = <<>> /\ pc[u] \notin Owns
      /\ todo' = [todo EXCEPT ![t] = [h \in Slots |-> [op |-> "sync", handle |-> h]]]
      /\ UNCHANGED <<table, live, stream, slot, pc, ptr, given, handles>>
  BY DEF CompleteBegins, AppBegins, Idle, Undisturbed, TypeOK, Call, Owns
<1>2. /\ \A u \in Threads \ {t} : todo'[u] = todo[u]
      /\ todo'[t] = [h \in Slots |-> [op |-> "sync", handle |-> h]]
  BY <1>1
<1>3. ASSUME NEW u \in Threads \ {t}, NEW g \in Slots, Concerns(u, g)' PROVE Concerns(u, g)
  BY <1>1, <1>2, <1>3 DEF Concerns
<1>4. ASSUME NEW u \in Threads \ {t}, NEW g \in Slots, Private(u, g) PROVE Private(u, g)'
  BY <1>1, <1>3, <1>4, NoneIsNobody DEF Private
<1>5. PlaceInv'
  BY <1>1, <1>2 DEF PlaceInv
<1>6. TableInv'
  BY <1>1 DEF TableInv
<1>7. PlanInv'
  <2>1. \A u \in Threads \ {t} : PlanOf(u)'
    BY <1>1, <1>2, <1>4, NoneIsNobody, OthersPlans
  <2>2. PlanOf(t)'
    BY <1>1 DEF PlanOf, Opens
  <2> QED BY <2>1, <2>2 DEF PlanInv
<1>8. WalkInv'
  <2>1. \A i \in DOMAIN todo'[t] : todo'[t][i].op = "sync"
    BY <1>2
  <2> QED BY <1>1, <1>2, <2>1 DEF WalkInv
<1>9. AutoInv'
  BY <1>1, <1>3, NoneIsNobody DEF AutoInv
<1> QED BY <1>5, <1>6, <1>7, <1>8, <1>9

LEMMA CompleteEndsKeeps ==
  ASSUME TypeOK, Protocol, NEW t \in Threads, CompleteEnds(t)
  PROVE  Protocol'
<1> USE DEF Protocol
<1>1. /\ walker = t /\ pc[t] = "idle" /\ todo[t] = <<>> /\ walker' = None
      /\ UNCHANGED <<table, live, stream, slot, pc, ptr, given, todo, handles>>
  BY DEF CompleteEnds, Busy
<1>2. ASSUME NEW g \in Slots, table[g] # None PROVE ~Concerns(t, g)
  <2>1. ptr[t] = None /\ DOMAIN todo[t] = {}
    BY <1>1 DEF PlaceInv
  <2> QED BY <1>2, <2>1 DEF Concerns
<1>3. ASSUME NEW u \in Threads \ {t}, NEW g \in Slots, Private(u, g) PROVE Private(u, g)'
  BY <1>1, <1>2, <1>3 DEF Private, Concerns
<1>4. PlaceInv' /\ TableInv'
  BY <1>1 DEF PlaceInv, TableInv
<1>5. PlanInv'
  <2>1. \A u \in Threads \ {t} : PlanOf(u)'
    BY <1>1, <1>3, NoneIsNobody, OthersPlans
  <2>2. PlanOf(t)'
    <3>1. DOMAIN todo'[t] = {}
      BY <1>1
    <3> QED BY <1>1, <3>1 DEF PlanOf
  <2> QED BY <2>1, <2>2 DEF PlanInv
<1>6. WalkInv'
  BY <1>1, NoneIsNobody DEF WalkInv
<1>7. AutoInv'
  BY <1>1, <1>2 DEF AutoInv, Concerns
<1> QED BY <1>4, <1>5, <1>6, <1>7

\* A pull and its bookkeeping take no part in the calls.
LEMMA PullKeeps ==
  ASSUME TypeOK, Protocol, NEW h \in Slots, PullsAt(h),
         \A s \in Streams : stream'[s].auto_close = stream[s].auto_close,
         UNCHANGED <<table, live, pc, ptr, given, todo, walker, handles>>
  PROVE  Protocol'
<1> USE DEF Protocol
<1>1. /\ table \in [Slots -> Streams \cup {None}] /\ ptr \in [Threads -> Streams \cup {None}]
      /\ \A t \in Threads : pc[t] \notin Opens
  <2>1. lock = None \/ lock = Device
    BY DEF PullsAt
  <2> QED BY <2>1, NoneIsNobody DEF TypeOK, Opens
<1>2. ASSUME NEW t \in Threads, NEW g \in Slots, Private(t, g) PROVE Private(t, g)'
  BY <1>1, <1>2 DEF Private, Concerns
<1>3. PlaceInv'
  <2> SUFFICES ASSUME NEW u \in Threads
               PROVE  /\ ptr'[u] = None <=> pc'[u] = "idle"
                      /\ given'[u] # None <=> pc'[u] = "append"
                      /\ pc'[u] \notin Opens
                      /\ pc'[u] = "free" => todo'[u] = <<>>
    BY DEF PlaceInv, Opens
  <2> QED BY <1>1 DEF PlaceInv
<1>4. TableInv'
  BY DEF TableInv
<1>5. PlanInv'
  <2> SUFFICES ASSUME NEW t \in Threads PROVE PlanOf(t)'
    BY DEF PlanInv
  <2> QED BY <1>2 DEF PlanInv, PlanOf
<1>6. WalkInv'
  BY DEF WalkInv
<1>7. AutoInv'
  BY <1>1 DEF AutoInv, Concerns
<1> QED BY <1>3, <1>4, <1>5, <1>6, <1>7
-----------------------------------------------------------------------------
(* Buffers *)

LEMMA QueueIds ==
  ASSUME NEW q \in Queue
  PROVE  Ids(q) \subseteq Bufs
BY QueueFacts DEF Ids, Buffer

LEMMA NothingQueued ==
  /\ Sound(<<>>) /\ Ids(<<>>) = {} /\ NoDup(<<>>)
  /\ \A finished : TurnOf(<<>>, finished)
<1>1. <<>> \in Queue /\ DOMAIN <<>> = {}
  BY EmptySeq DEF Queue
<1> QED BY <1>1 DEF Sound, Ids, NoDup, TurnOf, InTurn

\* The queue of s is replaced by r, and what is missing from it is freed.
LEMMA QueueReplaced ==
  ASSUME BufInv, NEW s \in Streams, NEW r, NoDup(r), Ids(r) \subseteq Ids(stream[s].queue),
         stream'[s].queue = r, \A x \in Streams \ {s} : stream'[x].queue = stream[x].queue,
         freed' = freed \cup (Ids(stream[s].queue) \ Ids(r)),
         UNCHANGED <<fresh, given>>
  PROVE  BufInv'
<1> DEFINE q == stream[s].queue
<1>1. /\ \A b \in Ids(q) :
           /\ b \notin fresh \cup freed
           /\ \A t \in Threads : given[t] # None => given[t].id # b
           /\ \A x \in Streams : b \in Ids(stream[x].queue) => x = s
      /\ fresh \cap freed = {}
      /\ \A t \in Threads : given[t] # None => given[t].id \notin fresh \cup freed
  BY DEF BufInv
<1> HIDE DEF q
<1>2. /\ stream[s].queue = q /\ stream'[s].queue = r /\ Ids(r) \subseteq Ids(q)
      /\ freed' = freed \cup (Ids(q) \ Ids(r)) /\ fresh' = fresh /\ given' = given
  BY DEF q
<1>3. (fresh \cap freed = {})'
  BY <1>1, <1>2
<1>4. \A t \in Threads : given'[t] # None => given'[t].id \notin fresh' \cup freed'
  BY <1>1, <1>2
<1>5. \A t, u \in Threads : given'[t] # None /\ given'[u] # None /\ given'[t].id = given'[u].id => t = u
  BY <1>2 DEF BufInv
<1>6. ASSUME NEW x \in Streams
      PROVE  /\ NoDup(stream'[x].queue)
             /\ \A b \in Ids(stream'[x].queue) :
                  /\ b \notin fresh' \cup freed'
                  /\ \A t \in Threads : given'[t] # None => given'[t].id # b
                  /\ \A y \in Streams : b \in Ids(stream'[y].queue) => y = x
  <2>1. CASE x = s
    <3>1. \A b \in Ids(r) : b \notin fresh' \cup freed' /\ \A t \in Threads : given'[t] # None => given'[t].id # b
      BY <1>1, <1>2
    <3>2. ASSUME NEW b \in Ids(r), NEW y \in Streams, b \in Ids(stream'[y].queue) PROVE y = s
      BY <1>1, <1>2, <3>2
    <3> QED BY <1>2, <2>1, <3>1, <3>2
  <2>2. CASE x # s
    <3>1. stream'[x].queue = stream[x].queue
      BY <2>2
    <3>2. ASSUME NEW b \in Ids(stream[x].queue)
          PROVE  /\ b \notin Ids(q) /\ b \notin fresh \cup freed
                 /\ \A t \in Threads : given[t] # None => given[t].id # b
                 /\ \A y \in Streams : b \in Ids(stream[y].queue) => y = x
      BY <1>1, <2>2 DEF BufInv
    <3>3. ASSUME NEW b \in Ids(stream[x].queue), NEW y \in Streams, b \in Ids(stream'[y].queue) PROVE y = x
      BY <1>2, <3>2, <3>3
    <3>4. NoDup(stream[x].queue)
      BY DEF BufInv
    <3> QED BY <1>2, <3>1, <3>2, <3>3, <3>4
  <2> QED BY <2>1, <2>2
<1>7. ASSUME NEW b \in Bufs
      PROVE  \/ b \in fresh' \cup freed'
             \/ \E t \in Threads : given'[t] # None /\ given'[t].id = b
             \/ \E x \in Streams : b \in Ids(stream'[x].queue)
  <2>1. CASE b \in fresh \cup freed \/ \E t \in Threads : given[t] # None /\ given[t].id = b
    BY <1>2, <2>1
  <2>2. ASSUME NEW x \in Streams, b \in Ids(stream[x].queue)
        PROVE  b \in freed' \/ \E y \in Streams : b \in Ids(stream'[y].queue)
    <3>1. CASE x = s
      BY <1>2, <2>2, <3>1
    <3>2. CASE x # s
      BY <2>2, <3>2
    <3> QED BY <3>1, <3>2
  <2> QED BY <2>1, <2>2 DEF BufInv
<1> QED BY <1>3, <1>4, <1>5, <1>6, <1>7 DEF BufInv

LEMMA QueuesKept ==
  ASSUME BufInv, \A s \in Streams : stream'[s].queue = stream[s].queue,
         UNCHANGED <<fresh, freed, given>>
  PROVE  BufInv'
BY DEF BufInv

\* What a thread was given goes into the queue of s, or is freed.
LEMMA GivenQueued ==
  ASSUME TypeOK, BufInv, NEW t \in Threads, given[t] # None, NEW s \in Streams, NEW r, NoDup(r),
         Ids(r) = Ids(stream[s].queue) \cup {given[t].id},
         stream'[s].queue = r, \A x \in Streams \ {s} : stream'[x].queue = stream[x].queue,
         given' = [given EXCEPT ![t] = None], UNCHANGED <<fresh, freed>>
  PROVE  BufInv'
<1> DEFINE b0 == given[t].id
<1>1. /\ \A u \in Threads \ {t} : given'[u] = given[u]
      /\ given'[t] = None
  BY DEF TypeOK
<1>2. /\ b0 \notin fresh \cup freed /\ fresh \cap freed = {}
      /\ \A u \in Threads \ {t} : given[u] # None => given[u].id # b0
      /\ \A x \in Streams : b0 \notin Ids(stream[x].queue)
  BY DEF BufInv
<1> HIDE DEF b0
<1>3. ASSUME NEW x \in Streams
      PROVE  /\ NoDup(stream'[x].queue)
             /\ \A b \in Ids(stream'[x].queue) :
                  /\ b \notin fresh' \cup freed'
                  /\ \A u \in Threads : given'[u] # None => given'[u].id # b
                  /\ \A y \in Streams : b \in Ids(stream'[y].queue) => y = x
  <2>1. NoDup(stream'[x].queue)
    BY DEF BufInv
  <2>2. ASSUME NEW b \in Ids(stream'[x].queue), b # b0
        PROVE  /\ b \in Ids(stream[x].queue)
               /\ b \notin fresh' \cup freed'
               /\ \A u \in Threads : given'[u] # None => given'[u].id # b
               /\ \A y \in Streams : b \in Ids(stream'[y].queue) => y = x
    <3>1. \A y \in Streams : b \in Ids(stream'[y].queue) => b \in Ids(stream[y].queue)
      BY <2>2 DEF b0
    <3> QED BY <1>1, <2>2, <3>1 DEF BufInv
  <2>3. ASSUME b0 \in Ids(stream'[x].queue)
        PROVE  /\ b0 \notin fresh' \cup freed'
               /\ \A u \in Threads : given'[u] # None => given'[u].id # b0
               /\ \A y \in Streams : b0 \in Ids(stream'[y].queue) => y = x
    <3>1. \A y \in Streams : b0 \in Ids(stream'[y].queue) => y = s
      BY <1>2
    <3> QED BY <1>1, <1>2, <2>3, <3>1
  <2> QED BY <2>1, <2>2, <2>3
<1>4. ASSUME NEW b \in Bufs
      PROVE  \/ b \in fresh' \cup freed'
             \/ \E u \in Threads : given'[u] # None /\ given'[u].id = b
             \/ \E x \in Streams : b \in Ids(stream'[x].queue)
  <2>1. CASE b \in fresh \cup freed
    BY <2>1
  <2>2. ASSUME NEW u \in Threads, given[u] # None, given[u].id = b
        PROVE  \/ \E v \in Threads : given'[v] # None /\ given'[v].id = b
               \/ b \in Ids(stream'[s].queue)
    <3>1. CASE u = t
      BY <2>2, <3>1
    <3>2. CASE u # t
      BY <1>1, <2>2, <3>2
    <3> QED BY <3>1, <3>2
  <2>3. ASSUME NEW x \in Streams, b \in Ids(stream[x].queue) PROVE b \in Ids(stream'[x].queue)
    <3>1. CASE x = s
      BY <2>3, <3>1
    <3>2. CASE x # s
      BY <2>3, <3>2
    <3> QED BY <3>1, <3>2
  <2> QED BY <2>1, <2>2, <2>3 DEF BufInv
<1>5. \A u, v \in Threads : given'[u] # None /\ given'[v] # None /\ given'[u].id = given'[v].id => u = v
  BY <1>1 DEF BufInv
<1>6. \A u \in Threads : given'[u] # None => given'[u].id \notin fresh' \cup freed'
  BY <1>1 DEF BufInv
<1> QED BY <1>2, <1>3, <1>4, <1>5, <1>6 DEF BufInv

LEMMA GivenFreed ==
  ASSUME TypeOK, BufInv, NEW t \in Threads, given[t] # None,
         freed' = freed \cup {given[t].id}, given' = [given EXCEPT ![t] = None],
         UNCHANGED <<fresh, stream>>
  PROVE  BufInv'
<1> DEFINE b0 == given[t].id
<1>1. /\ \A u \in Threads \ {t} : given'[u] = given[u]
      /\ given'[t] = None
  BY DEF TypeOK
<1>2. /\ b0 \notin fresh \cup freed /\ fresh \cap freed = {}
      /\ \A u \in Threads \ {t} : given[u] # None => given[u].id # b0
      /\ \A x \in Streams : b0 \notin Ids(stream[x].queue)
      /\ freed' = freed \cup {b0}
  BY DEF BufInv
<1> HIDE DEF b0
<1>3. ASSUME NEW x \in Streams
      PROVE  /\ NoDup(stream'[x].queue)
             /\ \A b \in Ids(stream'[x].queue) :
                  /\ b \notin fresh' \cup freed'
                  /\ \A u \in Threads : given'[u] # None => given'[u].id # b
                  /\ \A y \in Streams : b \in Ids(stream'[y].queue) => y = x
  BY <1>1, <1>2 DEF BufInv
<1>4. ASSUME NEW b \in Bufs
      PROVE  \/ b \in fresh' \cup freed'
             \/ \E u \in Threads : given'[u] # None /\ given'[u].id = b
             \/ \E x \in Streams : b \in Ids(stream'[x].queue)
  <2>1. ASSUME NEW u \in Threads, given[u] # None, given[u].id = b
        PROVE  \/ \E v \in Threads : given'[v] # None /\ given'[v].id = b
               \/ b \in freed'
    <3>1. CASE u = t
      BY <2>1, <3>1
    <3>2. CASE u # t
      BY <1>1, <2>1, <3>2
    <3> QED BY <3>1, <3>2
  <2> QED BY <1>2, <2>1 DEF BufInv
<1>5. \A u, v \in Threads : given'[u] # None /\ given'[v] # None /\ given'[u].id = given'[v].id => u = v
  BY <1>1 DEF BufInv
<1>6. \A u \in Threads : given'[u] # None => given'[u].id \notin fresh' \cup freed'
  BY <1>1, <1>2 DEF BufInv
<1>7. (fresh \cap freed = {})'
  BY <1>2
<1> QED BY <1>3, <1>4, <1>5, <1>6, <1>7 DEF BufInv

\* A new buffer is given to t, or freed at once.
LEMMA GivenNew ==
  ASSUME TypeOK, BufInv, NEW t \in Threads, NEW b0 \in fresh, NEW k \in Kinds, given[t] = None,
         fresh' = fresh \ {b0}, UNCHANGED stream,
         \/ freed' = freed \cup {b0} /\ UNCHANGED given
         \/ given' = [given EXCEPT ![t] = [id |-> b0, kind |-> k]] /\ UNCHANGED freed
  PROVE  BufInv'
<1>1. /\ b0 \notin freed /\ fresh \cap freed = {}
      /\ \A u \in Threads : given[u] # None => given[u].id # b0
      /\ \A x \in Streams : b0 \notin Ids(stream[x].queue)
  BY DEF BufInv
<1>2. /\ \A u \in Threads \ {t} : given'[u] = given[u]
      /\ \/ given'[t] = None /\ freed' = freed \cup {b0}
         \/ given'[t] # None /\ given'[t].id = b0 /\ freed' = freed
  <2>1. CASE freed' = freed \cup {b0} /\ UNCHANGED given
    BY <2>1
  <2>2. CASE given' = [given EXCEPT ![t] = [id |-> b0, kind |-> k]] /\ UNCHANGED freed
    <3>1. given'[t] = [id |-> b0, kind |-> k] /\ \A u \in Threads \ {t} : given'[u] = given[u]
      BY <2>2 DEF TypeOK
    <3>2. given'[t].id = b0
      BY <3>1
    <3>3. given'[t] # None
      BY <3>1, NoneIsNobody DEF TypeOK
    <3> QED BY <2>2, <3>1, <3>2, <3>3
  <2> QED BY <2>1, <2>2
<1>3. ASSUME NEW x \in Streams
      PROVE  /\ NoDup(stream'[x].queue)
             /\ \A b \in Ids(stream'[x].queue) :
                  /\ b \notin fresh' \cup freed'
                  /\ \A u \in Threads : given'[u] # None => given'[u].id # b
                  /\ \A y \in Streams : b \in Ids(stream'[y].queue) => y = x
  BY <1>1, <1>2 DEF BufInv
<1>4. ASSUME NEW b \in Bufs
      PROVE  \/ b \in fresh' \cup freed'
             \/ \E u \in Threads : given'[u] # None /\ given'[u].id = b
             \/ \E x \in Streams : b \in Ids(stream'[x].queue)
  <2>1. ASSUME NEW u \in Threads, given[u] # None, given[u].id = b
        PROVE  \E v \in Threads : given'[v] # None /\ given'[v].id = b
    BY <1>2, <2>1
  <2>2. CASE b = b0
    BY <1>2, <2>2
  <2>3. CASE b # b0
    BY <1>2, <2>1, <2>3 DEF BufInv
  <2> QED BY <2>2, <2>3
<1>5. \A u, v \in Threads : given'[u] # None /\ given'[v] # None /\ given'[u].id = given'[v].id => u = v
  BY <1>1, <1>2 DEF BufInv
<1>6. \A u \in Threads : given'[u] # None => given'[u].id \notin fresh' \cup freed'
  BY <1>1, <1>2 DEF BufInv
<1>7. (fresh \cap freed = {})'
  BY <1>1, <1>2
<1> QED BY <1>3, <1>4, <1>5, <1>6, <1>7 DEF BufInv
-----------------------------------------------------------------------------
(* Steps *)

StreamTypes ==
  /\ stream \in [Streams -> Stream]
  /\ \A s \in Streams : Sound(stream[s].queue)

CallTypes ==
  /\ table \in [Slots -> Streams \cup {None}]
  /\ live \subseteq Streams
  /\ lock \in Threads \cup {Device, None}
  /\ \A t \in Threads : lock = t <=> pc[t] \in Owns
  /\ slot \in Slots \cup {LastSlot + 1}
  /\ pc \in [Threads -> Places]
  /\ ptr \in [Threads -> Streams \cup {None}]
  /\ given \in [Threads -> [id : Bufs, kind : Kinds] \cup {None}]
  /\ todo \in [Threads -> Seq(Call)]
  /\ walker \in Threads \cup {None}
  /\ handles \subseteq Slots
  /\ fresh \subseteq Bufs
  /\ freed \subseteq Bufs
  /\ calls \in 0 .. MaxCalls

LEMMA TypesSplit == TypeOK <=> StreamTypes /\ CallTypes
<1>1. ASSUME stream \in [Streams -> Stream]
      PROVE  \A s \in Streams : Sound(stream[s].queue) <=>
               \A i \in DOMAIN stream[s].queue : WellFormed(stream[s].queue[i])
  BY <1>1 DEF Sound, Stream
<1> QED BY <1>1 DEF TypeOK, StreamTypes, CallTypes, Owns, Call

IInv ==
  /\ StreamTypes
  /\ CallTypes
  /\ Protocol
  /\ Unused
  /\ BufInv
  /\ TurnInv

\* One stream changes.
LEMMA OneStream ==
  ASSUME StreamTypes, NEW s \in Streams, stream' = [stream EXCEPT ![s] = stream'[s]],
         stream'[s] \in Stream, Sound(stream'[s].queue)
  PROVE  /\ StreamTypes'
         /\ \A x \in Streams \ {s} : stream'[x] = stream[x]
         /\ TurnInv /\ TurnOf(stream'[s].queue, stream'[s].finished) => TurnInv'
         /\ Unused /\ live' = live /\ s \in live => Unused'
<1>1. stream' \in [Streams -> Stream] /\ \A x \in Streams \ {s} : stream'[x] = stream[x]
  BY DEF StreamTypes
<1>2. StreamTypes'
  BY <1>1 DEF StreamTypes
<1>3. ASSUME TurnInv, TurnOf(stream'[s].queue, stream'[s].finished) PROVE TurnInv'
  <2> SUFFICES ASSUME NEW x \in Streams PROVE TurnOf(stream'[x].queue, stream'[x].finished)
    BY DEF TurnInv
  <2> QED BY <1>1, <1>3 DEF TurnInv
<1>4. ASSUME Unused, live' = live, s \in live PROVE Unused'
  BY <1>1, <1>4 DEF Unused
<1> QED BY <1>1, <1>2, <1>3, <1>4

LEMMA StreamsKept ==
  ASSUME IInv, stream' = stream
  PROVE  StreamTypes' /\ TurnInv' /\ (live \subseteq live' => Unused')
         /\ (UNCHANGED <<fresh, freed, given>> => BufInv')
<1>1. StreamTypes' /\ (live \subseteq live' => Unused')
  BY DEF IInv, StreamTypes, Unused
<1>2. TurnInv'
  BY DEF IInv, TurnInv
<1>3. ASSUME UNCHANGED <<fresh, freed, given>> PROVE BufInv'
  BY <1>3, QueuesKept DEF IInv
<1> QED BY <1>1, <1>2, <1>3

LEMMA LookupTypes ==
  ASSUME CallTypes, lock = None, NEW t \in Threads, NEW op, NEW h, Begins(t, op, h), op \in Sections,
         todo' = [todo EXCEPT ![t] = todo'[t]], todo'[t] \in Seq(Call),
         ptr' = [ptr EXCEPT ![t] = StreamOf(h)],
         pc' = [pc EXCEPT ![t] = IF StreamOf(h) = None THEN "idle" ELSE op]
  PROVE  /\ todo' \in [Threads -> Seq(Call)] /\ ptr' \in [Threads -> Streams \cup {None}]
         /\ pc' \in [Threads -> Places] /\ calls' \in 0 .. MaxCalls
         /\ \A u \in Threads : pc'[u] \notin Owns
<1>1. StreamOf(h) \in Streams \cup {None}
  BY DEF StreamOf, CallTypes
<1>2. pc' \in [Threads -> Places] /\ \A u \in Threads : pc'[u] \notin Owns
  <2>1. (IF StreamOf(h) = None THEN "idle" ELSE op) \in Places \ Owns
    BY DEF Places, Sections, Owns
  <2>2. \A u \in Threads : pc[u] \notin Owns
    BY NoneIsNobody DEF CallTypes
  <2> QED BY <2>1, <2>2 DEF CallTypes
<1>3. calls' \in 0 .. MaxCalls
  <2>1. calls' = calls \/ (calls < MaxCalls /\ calls' = calls + 1)
    BY DEF Begins, AppBegins
  <2> QED BY <2>1, MixerConstants DEF CallTypes
<1> QED BY <1>1, <1>2, <1>3 DEF CallTypes

LEMMA LookupStep ==
  ASSUME IInv, NEW t \in Threads, NEW op, NEW h, Lookup(t, op, h)
  PROVE  IInv'
<1>1. TypeOK
  BY TypesSplit DEF IInv
<1>2. /\ op \in Sections /\ op # "append" /\ op # "idle" /\ Begins(t, op, h) /\ lock = None
      /\ ptr' = [ptr EXCEPT ![t] = StreamOf(h)]
      /\ pc' = [pc EXCEPT ![t] = IF StreamOf(h) = None THEN "idle" ELSE op]
      /\ UNCHANGED <<table, live, stream, lock, slot, given, walker, handles, fresh, freed>>
  BY DEF Lookup, Sections
<1>3. /\ pc[t] = "idle" /\ given[t] = None
      /\ todo' = [todo EXCEPT ![t] = todo'[t]] /\ todo'[t] \in Seq(Call)
  BY <1>1, <1>2, BeginFacts DEF IInv, Protocol
<1>4. /\ todo' \in [Threads -> Seq(Call)] /\ ptr' \in [Threads -> Streams \cup {None}]
      /\ pc' \in [Threads -> Places] /\ calls' \in 0 .. MaxCalls
      /\ \A u \in Threads : pc'[u] \notin Owns
  BY <1>2, <1>3, LookupTypes DEF IInv
<1>5. CallTypes'
  BY <1>2, <1>4, NoneIsNobody DEF IInv, CallTypes
<1>6. Protocol'
  <2>1. /\ ptr'[t] = StreamOf(h) /\ pc'[t] = (IF StreamOf(h) = None THEN "idle" ELSE op)
        /\ \A u \in Threads \ {t} : pc'[u] = pc[u] /\ ptr'[u] = ptr[u]
    BY <1>2 DEF IInv, CallTypes
  <2>2. \A u \in Threads : given'[u] # None <=> pc'[u] = "append"
    BY <1>2, <1>3, <2>1 DEF IInv, Protocol, PlaceInv
  <2> QED BY <1>1, <1>2, <2>1, <2>2, LookupKeeps DEF IInv
<1> QED BY <1>2, <1>5, <1>6, StreamsKept DEF IInv

LEMMA LookupForAppendStep ==
  ASSUME IInv, NEW t \in Threads, NEW h, NEW k \in Kinds, LookupForAppend(t, h, k)
  PROVE  IInv'
<1> DEFINE b == CHOOSE b \in fresh : TRUE
<1>1. TypeOK
  BY TypesSplit DEF IInv
<1>2. /\ b \in fresh /\ b \in Bufs /\ Begins(t, "append", h) /\ lock = None /\ fresh' = fresh \ {b}
      /\ ptr' = [ptr EXCEPT ![t] = StreamOf(h)]
      /\ \/ StreamOf(h) = None /\ freed' = freed \cup {b} /\ UNCHANGED <<pc, given>>
         \/ /\ StreamOf(h) # None /\ pc' = [pc EXCEPT ![t] = "append"]
            /\ given' = [given EXCEPT ![t] = [id |-> b, kind |-> k]] /\ UNCHANGED freed
      /\ UNCHANGED <<table, live, stream, lock, slot, walker, handles>>
  BY DEF LookupForAppend, IInv, CallTypes
<1> HIDE DEF b
<1>3. /\ pc[t] = "idle" /\ given[t] = None
      /\ todo' = [todo EXCEPT ![t] = todo'[t]] /\ todo'[t] \in Seq(Call)
  BY <1>1, <1>2, BeginFacts DEF IInv, Protocol
<1>4. pc' = [pc EXCEPT ![t] = IF StreamOf(h) = None THEN "idle" ELSE "append"]
  <2>1. pc \in [Threads -> Places]
    BY DEF IInv, CallTypes
  <2> QED BY <1>2, <1>3, <2>1
<1>5. /\ todo' \in [Threads -> Seq(Call)] /\ ptr' \in [Threads -> Streams \cup {None}]
      /\ pc' \in [Threads -> Places] /\ calls' \in 0 .. MaxCalls
      /\ \A u \in Threads : pc'[u] \notin Owns
  BY <1>2, <1>3, <1>4, LookupTypes DEF IInv, Sections
<1>6. CallTypes'
  <2>1. given' \in [Threads -> [id : Bufs, kind : Kinds] \cup {None}]
    <3>1. [id |-> b, kind |-> k] \in [id : Bufs, kind : Kinds]
      BY <1>2
    <3>2. given \in [Threads -> [id : Bufs, kind : Kinds] \cup {None}]
      BY DEF IInv, CallTypes
    <3>3. given' = given \/ given' = [given EXCEPT ![t] = [id |-> b, kind |-> k]]
      BY <1>2
    <3> QED BY <3>1, <3>2, <3>3
  <2>2. fresh' \subseteq Bufs /\ freed' \subseteq Bufs
    BY <1>2 DEF IInv, CallTypes
  <2> QED BY <1>2, <1>5, <2>1, <2>2, NoneIsNobody DEF IInv, CallTypes
<1>7. Protocol'
  <2>1. /\ ptr'[t] = StreamOf(h) /\ pc'[t] = (IF StreamOf(h) = None THEN "idle" ELSE "append")
        /\ \A u \in Threads \ {t} : pc'[u] = pc[u] /\ ptr'[u] = ptr[u] /\ given'[u] = given[u]
    BY <1>2, <1>4 DEF IInv, CallTypes
  <2>2. given'[t] # None <=> StreamOf(h) # None
    BY <1>2, <1>3, NoneIsNobody DEF IInv, CallTypes
  <2>3. \A u \in Threads : given'[u] # None <=> pc'[u] = "append"
    BY <2>1, <2>2 DEF IInv, Protocol, PlaceInv
  <2>4. "append" \in Sections
    BY DEF Sections
  <2> QED BY <1>1, <1>2, <2>1, <2>3, <2>4, LookupKeeps DEF IInv
<1>8. BufInv'
  BY <1>1, <1>2, <1>3, GivenNew DEF IInv
<1> QED BY <1>2, <1>6, <1>7, <1>8, StreamsKept DEF IInv

\* The sections under the mutex of a stream, on a stream of the table.
LEMMA SectionFacts ==
  ASSUME IInv, NEW t \in Threads, pc[t] \in Sections
  PROVE  /\ ptr[t] \in live /\ ptr[t] \in Streams /\ ptr[t] # None
         /\ lock # t /\ stream[ptr[t]] \in Stream /\ Sound(stream[ptr[t]].queue)
<1>1. ptr[t] # None
  BY DEF IInv, Protocol, PlaceInv, Sections
<1>2. ptr[t] \in live
  BY <1>1 DEF IInv, Protocol, TableInv
<1>3. lock # t
  BY DEF IInv, CallTypes, Sections, Owns
<1> QED BY <1>1, <1>2, <1>3 DEF IInv, CallTypes, StreamTypes

LEMMA SectionTypes ==
  ASSUME IInv, NEW t \in Threads, pc[t] \in Sections, Returns(t),
         given' \in [Threads -> [id : Bufs, kind : Kinds] \cup {None}],
         todo' \in [Threads -> Seq(Call)], freed' \subseteq Bufs,
         UNCHANGED <<table, live, lock, slot, walker, handles, fresh, calls>>
  PROVE  /\ CallTypes'
         /\ pc'[t] = "idle" /\ ptr'[t] = None
         /\ \A u \in Threads \ {t} : pc'[u] = pc[u] /\ ptr'[u] = ptr[u]
<1>1. /\ pc' = [pc EXCEPT ![t] = "idle"] /\ ptr' = [ptr EXCEPT ![t] = None]
      /\ pc \in [Threads -> Places] /\ ptr \in [Threads -> Streams \cup {None}]
  BY DEF Returns, IInv, CallTypes
<1>2. /\ pc'[t] = "idle" /\ ptr'[t] = None
      /\ \A u \in Threads \ {t} : pc'[u] = pc[u] /\ ptr'[u] = ptr[u]
      /\ pc' \in [Threads -> Places] /\ ptr' \in [Threads -> Streams \cup {None}]
  BY <1>1 DEF Places
<1>3. \A u \in Threads : lock' = u <=> pc'[u] \in Owns
  BY <1>2, SectionFacts DEF IInv, CallTypes, Owns
<1>4. CallTypes'
  BY <1>2, <1>3 DEF IInv, CallTypes
<1> QED BY <1>2, <1>4

\* A section that leaves the queue r on its stream and frees what is missing.
LEMMA SectionStep ==
  ASSUME IInv, NEW t \in Threads, pc[t] \in Sections, given[t] = None, Returns(t),
         stream' = [stream EXCEPT ![ptr[t]] = stream'[ptr[t]]],
         stream'[ptr[t]] \in Stream, Sound(stream'[ptr[t]].queue),
         NoDup(stream'[ptr[t]].queue), Ids(stream'[ptr[t]].queue) \subseteq Ids(stream[ptr[t]].queue),
         TurnOf(stream'[ptr[t]].queue, stream'[ptr[t]].finished),
         stream'[ptr[t]].auto_close = stream[ptr[t]].auto_close
           \/ (stream'[ptr[t]].auto_close /\ pc[t] = "auto_close"),
         freed' = freed \cup (Ids(stream[ptr[t]].queue) \ Ids(stream'[ptr[t]].queue)),
         UNCHANGED <<table, live, lock, slot, given, todo, walker, handles, fresh, calls>>
  PROVE  IInv'
<1> DEFINE s == ptr[t]
<1>1. TypeOK
  BY TypesSplit DEF IInv
<1>2. /\ s \in live /\ s \in Streams /\ s # None /\ lock # t
      /\ stream[s] \in Stream /\ Sound(stream[s].queue)
  BY SectionFacts
<1>3. /\ StreamTypes' /\ \A x \in Streams \ {s} : stream'[x] = stream[x]
      /\ TurnInv' /\ Unused'
  BY <1>2, OneStream DEF IInv
<1>4. BufInv'
  <2>1. \A x \in Streams \ {s} : stream'[x].queue = stream[x].queue
    BY <1>3
  <2> QED BY <1>2, <2>1, QueueReplaced DEF IInv
<1>5. freed' \subseteq Bufs
  <2>1. Ids(stream[s].queue) \subseteq Bufs
    BY <1>2, QueueIds DEF Sound
  <2> QED BY <2>1 DEF IInv, CallTypes
<1>6. /\ CallTypes'
      /\ pc'[t] = "idle" /\ ptr'[t] = None
      /\ \A u \in Threads \ {t} : pc'[u] = pc[u] /\ ptr'[u] = ptr[u]
  <2>1. /\ given' \in [Threads -> [id : Bufs, kind : Kinds] \cup {None}]
        /\ todo' \in [Threads -> Seq(Call)]
    BY DEF IInv, CallTypes
  <2> QED BY <1>5, <2>1, SectionTypes
<1>7. Protocol'
  <2>1. \A u \in Threads : given'[u] # None <=> pc'[u] = "append"
    BY <1>6 DEF IInv, Protocol, PlaceInv
  <2>2. \A x \in Streams : stream'[x].auto_close = stream[x].auto_close
                            \/ (stream'[x].auto_close /\ pc[t] = "auto_close" /\ x = ptr[t])
    BY <1>3
  <2>3. \A u \in Threads \ {t} : pc'[u] = pc[u] /\ ptr'[u] = ptr[u] /\ todo'[u] = todo[u]
    BY <1>6
  <2>4. todo'[t] = todo[t]
    OBVIOUS
  <2> HIDE DEF s
  <2> QED BY <1>1, <1>6, <2>1, <2>2, <2>3, <2>4, SectionKeeps DEF IInv
<1> QED BY <1>3, <1>4, <1>6, <1>7 DEF IInv

LEMMA SectionOps ==
  {"append", "finish", "stop", "clear", "sync", "auto_close"} \subseteq Sections
BY DEF Sections

LEMMA NothingGiven ==
  ASSUME IInv, NEW t \in Threads, pc[t] # "append"
  PROVE  given[t] = None
BY DEF IInv, Protocol, PlaceInv

LEMMA FinishStep ==
  ASSUME IInv, NEW t \in Threads, Finish(t)
  PROVE  IInv'
<1> DEFINE s == ptr[t]
           q == stream[s].queue
           r == LoopsEnded(q)
           new == Finished(stream[s], r)
<1>1. /\ pc[t] = "finish" /\ pc[t] \in Sections /\ given[t] = None
      /\ stream' = [stream EXCEPT ![s] = new] /\ Returns(t)
      /\ UNCHANGED <<table, live, lock, slot, given, todo, walker, handles, fresh, freed, calls>>
  <2>1. pc[t] = "finish"
    BY DEF Finish
  <2> QED BY <2>1, SectionOps, NothingGiven DEF Finish, OnlyStream
<1>2. s \in live /\ s \in Streams /\ stream[s] \in Stream /\ Sound(q) /\ stream \in [Streams -> Stream]
  BY <1>1, SectionFacts DEF IInv, StreamTypes
<1>3. /\ Sound(r) /\ DOMAIN r = DOMAIN q
      /\ \A i \in DOMAIN q : r[i].id = q[i].id /\ ~r[i].loop
      /\ InTurn(q) => InTurn(r)
  BY <1>2, LoopsEndedQueue
<1> HIDE DEF r
<1>4. stream'[s] = new /\ stream' = [stream EXCEPT ![s] = stream'[s]]
  BY <1>1, <1>2
<1>5. /\ new.queue = r /\ new.finished /\ new.auto_close = stream[s].auto_close
      /\ new.finished \in BOOLEAN /\ new.done \in BOOLEAN /\ new \in Stream
  BY <1>2, <1>3 DEF Finished, Stream, Sound
<1> HIDE DEF new
<1>6. Ids(r) = Ids(q)
  BY <1>3 DEF Ids
<1>7. NoDup(r)
  BY <1>2, <1>3 DEF IInv, BufInv, NoDup
<1>8. TurnOf(r, new.finished)
  BY <1>2, <1>3 DEF IInv, TurnInv, TurnOf
<1> HIDE DEF q, s
<1>9. freed' = freed \cup (Ids(q) \ Ids(r))
  BY <1>1, <1>6
<1> QED BY <1>1, <1>3, <1>4, <1>5, <1>6, <1>7, <1>8, <1>9, SectionStep DEF s, q

LEMMA StopStep ==
  ASSUME IInv, NEW t \in Threads, Stop(t)
  PROVE  IInv'
<1> DEFINE s == ptr[t]
           new == Finished(stream[s], <<>>)
<1>1. /\ pc[t] = "stop" /\ pc[t] \in Sections /\ given[t] = None
      /\ stream' = [stream EXCEPT ![s] = new] /\ Returns(t)
      /\ freed' = freed \cup Ids(stream[s].queue)
      /\ UNCHANGED <<table, live, lock, slot, given, todo, walker, handles, fresh, calls>>
  <2>1. pc[t] = "stop"
    BY DEF Stop
  <2> QED BY <2>1, SectionOps, NothingGiven DEF Stop, AllDropped
<1>2. s \in live /\ s \in Streams /\ stream[s] \in Stream /\ stream \in [Streams -> Stream]
  BY <1>1, SectionFacts DEF IInv, StreamTypes
<1>3. stream'[s] = new /\ stream' = [stream EXCEPT ![s] = stream'[s]]
  BY <1>1, <1>2
<1>4. /\ new.queue = <<>> /\ new.auto_close = stream[s].auto_close
      /\ new.finished \in BOOLEAN /\ new.done \in BOOLEAN /\ new \in Stream
  BY <1>2, NothingQueued DEF Finished, Stream, Sound
<1> HIDE DEF new, s
<1> QED BY <1>1, <1>3, <1>4, NothingQueued, SectionStep DEF s

LEMMA ClearStep ==
  ASSUME IInv, NEW t \in Threads, Clear(t)
  PROVE  IInv'
<1> DEFINE s == ptr[t]
<1>1. /\ pc[t] = "clear" /\ pc[t] \in Sections /\ given[t] = None
      /\ stream' = [stream EXCEPT ![s].queue = <<>>] /\ Returns(t)
      /\ freed' = freed \cup Ids(stream[s].queue)
      /\ UNCHANGED <<table, live, lock, slot, given, todo, walker, handles, fresh, calls>>
  <2>1. pc[t] = "clear"
    BY DEF Clear
  <2> QED BY <2>1, SectionOps, NothingGiven DEF Clear, AllDropped
<1>2. s \in live /\ s \in Streams /\ stream[s] \in Stream /\ stream \in [Streams -> Stream]
  BY <1>1, SectionFacts DEF IInv, StreamTypes
<1>3. stream'[s] = [stream[s] EXCEPT !.queue = <<>>] /\ stream' = [stream EXCEPT ![s] = stream'[s]]
  BY <1>1, <1>2
<1>4. /\ stream'[s].queue = <<>> /\ stream'[s].auto_close = stream[s].auto_close
      /\ stream'[s] \in Stream
  BY <1>2, <1>3, NothingQueued DEF Stream, Sound
<1> HIDE DEF s
<1> QED BY <1>1, <1>3, <1>4, NothingQueued, SectionStep DEF s

LEMMA AutoCloseStep ==
  ASSUME IInv, NEW t \in Threads, AutoClose(t)
  PROVE  IInv'
<1> DEFINE s == ptr[t]
<1>1. /\ pc[t] = "auto_close" /\ pc[t] \in Sections /\ given[t] = None
      /\ stream' = [stream EXCEPT ![s].auto_close = TRUE] /\ Returns(t)
      /\ UNCHANGED <<table, live, lock, slot, given, todo, walker, handles, fresh, freed, calls>>
  <2>1. pc[t] = "auto_close"
    BY DEF AutoClose
  <2> QED BY <2>1, SectionOps, NothingGiven DEF AutoClose, OnlyStream
<1>2. s \in live /\ s \in Streams /\ stream[s] \in Stream /\ Sound(stream[s].queue) /\ stream \in [Streams -> Stream]
  BY <1>1, SectionFacts DEF IInv, StreamTypes
<1>3. stream'[s] = [stream[s] EXCEPT !.auto_close = TRUE] /\ stream' = [stream EXCEPT ![s] = stream'[s]]
  BY <1>1, <1>2
<1>4. /\ stream'[s].queue = stream[s].queue /\ stream'[s].auto_close
      /\ stream'[s].finished = stream[s].finished /\ stream'[s] \in Stream
  BY <1>2, <1>3 DEF Stream
<1>5. NoDup(stream[s].queue) /\ TurnOf(stream[s].queue, stream[s].finished)
  BY <1>2 DEF IInv, BufInv, TurnInv
<1> HIDE DEF s
<1>6. freed' = freed \cup (Ids(stream[s].queue) \ Ids(stream'[s].queue))
  BY <1>1, <1>4
<1> QED BY <1>1, <1>2, <1>3, <1>4, <1>5, <1>6, SectionStep DEF s

LEMMA SyncReturnsStep ==
  ASSUME IInv, NEW t \in Threads, SyncReturns(t)
  PROVE  IInv'
<1> DEFINE s == ptr[t]
<1>1. /\ pc[t] = "sync" /\ pc[t] \in Sections /\ given[t] = None /\ stream' = stream /\ Returns(t)
      /\ UNCHANGED <<table, live, lock, slot, given, todo, walker, handles, fresh, freed, calls>>
  <2>1. pc[t] = "sync"
    BY DEF SyncReturns
  <2> QED BY <2>1, SectionOps, NothingGiven DEF SyncReturns, OnlyStream
<1>2. s \in live /\ s \in Streams /\ stream[s] \in Stream /\ Sound(stream[s].queue) /\ stream \in [Streams -> Stream]
  BY <1>1, SectionFacts DEF IInv, StreamTypes
<1>3. stream' = [stream EXCEPT ![s] = stream'[s]] /\ stream'[s] = stream[s]
  BY <1>1, <1>2
<1>4. NoDup(stream[s].queue) /\ TurnOf(stream[s].queue, stream[s].finished)
  BY <1>2 DEF IInv, BufInv, TurnInv
<1> HIDE DEF s
<1>5. freed' = freed \cup (Ids(stream[s].queue) \ Ids(stream'[s].queue))
  BY <1>1, <1>3
<1> QED BY <1>1, <1>2, <1>3, <1>4, <1>5, SectionStep DEF s

LEMMA TailsKept ==
  ASSUME CallTypes, NEW t \in Threads
  PROVE  /\ AfterAppend(t) \in [Threads -> Seq(Call)]
         /\ \A u \in Threads \ {t} : AfterAppend(t)[u] = todo[u]
         /\ \/ AfterAppend(t)[t] = todo[t]
            \/ todo[t] # <<>> /\ AfterAppend(t)[t] = Tail(todo[t])
<1>1. todo \in [Threads -> Seq(Call)]
  BY DEF CallTypes
<1>2. CASE todo[t] # <<>> /\ given[t].kind.loop
  <2>1. Tail(todo[t]) \in Seq(Call)
    BY <1>1, <1>2, HeadTailProperties
  <2>2. AfterAppend(t) = [todo EXCEPT ![t] = Tail(todo[t])]
    BY <1>2 DEF AfterAppend
  <2> QED BY <1>1, <1>2, <2>1, <2>2
<1>3. CASE ~(todo[t] # <<>> /\ given[t].kind.loop)
  BY <1>1, <1>3 DEF AfterAppend
<1> QED BY <1>2, <1>3

LEMMA AppendLinkStep ==
  ASSUME IInv, NEW t \in Threads, AppendLink(t)
  PROVE  IInv'
<1> DEFINE s == ptr[t]
           q == stream[s].queue
           b == given[t].id
           r == Appended(q, b, given[t].kind)
<1>1. /\ pc[t] = "append" /\ pc[t] \in Sections /\ given[t] # None
      /\ ~stream[s].finished
      /\ stream' = [stream EXCEPT ![s].queue = r] /\ Returns(t)
      /\ given' = [given EXCEPT ![t] = None] /\ todo' = AfterAppend(t)
      /\ UNCHANGED <<table, live, lock, slot, walker, handles, fresh, freed, calls>>
  <2>1. pc[t] = "append"
    BY DEF AppendLink
  <2>2. given[t] # None
    BY <2>1 DEF IInv, Protocol, PlaceInv
  <2> QED BY <2>1, <2>2, SectionOps DEF AppendLink, Accepts
<1>2. /\ s \in live /\ s \in Streams /\ stream[s] \in Stream /\ Sound(q) /\ stream \in [Streams -> Stream]
      /\ q \in Queue /\ DOMAIN q = 1 .. Len(q) /\ Len(q) \in Nat
  <2>1. s \in live /\ s \in Streams /\ stream[s] \in Stream /\ Sound(q) /\ stream \in [Streams -> Stream]
    BY <1>1, SectionFacts DEF IInv, StreamTypes
  <2> QED BY <2>1, QueueFacts DEF Sound
<1>3. /\ given \in [Threads -> [id : Bufs, kind : Kinds] \cup {None}] /\ b \in Bufs
      /\ given[t].kind \in Kind
  BY <1>1, MixerConstants DEF IInv, CallTypes
<1>4. /\ Sound(r) /\ Len(r) = Len(q) + 1 /\ DOMAIN r = 1 .. Len(q) + 1
      /\ \A i \in 1 .. Len(q) : r[i].id = q[i].id /\ r[i].loop = q[i].loop
      /\ r[Len(q) + 1].id = b
      /\ InTurn(q) => InTurn(r)
  BY <1>2, <1>3, AppendedQueue
<1> HIDE DEF r
<1>5. stream'[s] = [stream[s] EXCEPT !.queue = r] /\ stream' = [stream EXCEPT ![s] = stream'[s]]
  BY <1>1, <1>2
<1>6. /\ stream'[s].queue = r /\ stream'[s].auto_close = stream[s].auto_close
      /\ stream'[s].finished = stream[s].finished /\ stream'[s] \in Stream
  BY <1>2, <1>4, <1>5 DEF Stream, Sound
<1>7. TurnOf(r, stream'[s].finished)
  BY <1>1, <1>2, <1>4, <1>6 DEF IInv, TurnInv, TurnOf
<1>8. /\ StreamTypes' /\ \A x \in Streams \ {s} : stream'[x] = stream[x]
      /\ TurnInv' /\ Unused'
  BY <1>1, <1>2, <1>4, <1>5, <1>6, <1>7, OneStream DEF IInv
<1>9. Ids(r) = Ids(q) \cup {b}
  <2>1. ASSUME NEW i \in 1 .. Len(q) + 1 PROVE r[i].id \in Ids(q) \cup {b}
    <3>1. CASE i \in 1 .. Len(q)
      BY <1>2, <1>4, <3>1 DEF Ids
    <3>2. CASE i = Len(q) + 1
      BY <1>4, <3>2
    <3> QED BY <1>2, <3>1, <3>2
  <2>2. Ids(q) \subseteq Ids(r)
    BY <1>2, <1>4 DEF Ids
  <2>3. b \in Ids(r)
    BY <1>2, <1>4 DEF Ids
  <2> QED BY <1>4, <2>1, <2>2, <2>3 DEF Ids
<1>10. b \notin Ids(q) /\ NoDup(q)
  BY <1>1, <1>2 DEF IInv, BufInv
<1>11. NoDup(r)
  <2> SUFFICES ASSUME NEW i \in 1 .. Len(q) + 1, NEW j \in 1 .. Len(q) + 1, r[i].id = r[j].id, i < j PROVE FALSE
    BY <1>2, <1>4 DEF NoDup
  <2> HIDE DEF q, b, s
  <2>1. i \in 1 .. Len(q) /\ r[i].id = q[i].id /\ q[i].id \in Ids(q)
    <3>1. i \in 1 .. Len(q)
      BY <1>2
    <3> QED BY <3>1, <1>2, <1>4 DEF Ids
  <2>2. CASE j \in 1 .. Len(q)
    <3>1. q[i].id = q[j].id /\ i \in DOMAIN q /\ j \in DOMAIN q
      BY <1>2, <1>4, <2>1, <2>2
    <3>2. i = j
      BY <3>1, <1>10 DEF NoDup
    <3> QED BY <3>2, <1>2
  <2>3. CASE j = Len(q) + 1
    BY <1>4, <1>10, <2>1, <2>3
  <2> QED BY <1>2, <2>2, <2>3
<1>12. TypeOK
  BY TypesSplit DEF IInv
<1>13. BufInv'
  <2>1. \A x \in Streams \ {s} : stream'[x].queue = stream[x].queue
    BY <1>8
  <2> HIDE DEF s, b, q
  <2>2. Ids(r) = Ids(stream[s].queue) \cup {given[t].id}
    BY <1>9 DEF q, b
  <2> QED BY <1>1, <1>2, <1>6, <1>11, <1>12, <2>1, <2>2, GivenQueued DEF IInv
<1>14. /\ todo' \in [Threads -> Seq(Call)]
       /\ \A u \in Threads \ {t} : todo'[u] = todo[u]
       /\ todo'[t] = todo[t] \/ (todo[t] # <<>> /\ todo'[t] = Tail(todo[t]))
  BY <1>1, TailsKept DEF IInv
<1>15. /\ CallTypes'
       /\ pc'[t] = "idle" /\ ptr'[t] = None
       /\ \A u \in Threads \ {t} : pc'[u] = pc[u] /\ ptr'[u] = ptr[u]
  <2>1. given' \in [Threads -> [id : Bufs, kind : Kinds] \cup {None}] /\ freed' \subseteq Bufs
    BY <1>1, <1>3 DEF IInv, CallTypes
  <2> QED BY <1>1, <1>14, <2>1, SectionTypes
<1>16. Protocol'
  <2>1. \A u \in Threads : given'[u] # None <=> pc'[u] = "append"
    BY <1>1, <1>3, <1>15 DEF IInv, Protocol, PlaceInv
  <2>2. \A x \in Streams : stream'[x].auto_close = stream[x].auto_close
    BY <1>6, <1>8
  <2>3. walker # t
    BY <1>1 DEF IInv, Protocol, WalkInv
  <2> HIDE DEF s, q, b
  <2> QED BY <1>1, <1>12, <1>14, <1>15, <2>1, <2>2, <2>3, SectionKeeps DEF IInv
<1> QED BY <1>8, <1>13, <1>15, <1>16 DEF IInv

LEMMA AppendRefusedStep ==
  ASSUME IInv, NEW t \in Threads, AppendRefused(t)
  PROVE  IInv'
<1>1. /\ pc[t] = "append" /\ pc[t] \in Sections /\ given[t] # None /\ Returns(t)
      /\ freed' = freed \cup {given[t].id} /\ given' = [given EXCEPT ![t] = None]
      /\ UNCHANGED <<table, live, stream, lock, slot, todo, walker, handles, fresh, calls>>
  <2>1. pc[t] = "append"
    BY DEF AppendRefused
  <2>2. given[t] # None
    BY <2>1 DEF IInv, Protocol, PlaceInv
  <2> QED BY <2>1, <2>2, SectionOps DEF AppendRefused
<1>2. TypeOK
  BY TypesSplit DEF IInv
<1>3. /\ given \in [Threads -> [id : Bufs, kind : Kinds] \cup {None}] /\ given[t].id \in Bufs
  BY <1>1 DEF IInv, CallTypes
<1>4. BufInv'
  BY <1>1, <1>2, GivenFreed DEF IInv
<1>5. /\ CallTypes'
      /\ pc'[t] = "idle" /\ ptr'[t] = None
      /\ \A u \in Threads \ {t} : pc'[u] = pc[u] /\ ptr'[u] = ptr[u]
  <2>1. /\ given' \in [Threads -> [id : Bufs, kind : Kinds] \cup {None}] /\ freed' \subseteq Bufs
        /\ todo' \in [Threads -> Seq(Call)]
    BY <1>1, <1>3 DEF IInv, CallTypes
  <2> QED BY <1>1, <2>1, SectionTypes
<1>6. Protocol'
  <2>1. \A u \in Threads : given'[u] # None <=> pc'[u] = "append"
    BY <1>1, <1>3, <1>5 DEF IInv, Protocol, PlaceInv
  <2> QED BY <1>1, <1>2, <1>5, <2>1, SectionKeeps DEF IInv
<1> QED BY <1>1, <1>4, <1>5, <1>6, StreamsKept DEF IInv

\* The stream s is freed, by a thread that holds mixer_lock.
LEMMA FreedStream ==
  ASSUME IInv, NEW s \in Streams, FreeStream(s), UNCHANGED <<fresh, given>>
  PROVE  /\ StreamTypes' /\ Unused' /\ BufInv' /\ TurnInv'
         /\ live' = live \ {s} /\ stream' = [stream EXCEPT ![s] = NewStream]
         /\ freed' \subseteq Bufs /\ live' \subseteq Streams
<1>1. /\ live' = live \ {s} /\ stream' = [stream EXCEPT ![s] = NewStream]
      /\ freed' = freed \cup Ids(stream[s].queue)
      /\ stream \in [Streams -> Stream]
  BY DEF FreeStream, AllDropped, IInv, StreamTypes
<1>2. /\ stream'[s] = NewStream /\ stream' = [stream EXCEPT ![s] = stream'[s]]
      /\ NewStream \in Stream /\ NewStream.queue = <<>>
      /\ \A x \in Streams \ {s} : stream'[x] = stream[x]
  BY <1>1, NothingQueued DEF NewStream, Stream, Sound
<1>3. StreamTypes' /\ TurnInv'
  BY <1>2, NothingQueued, OneStream DEF IInv
<1>4. Unused'
  BY <1>1, <1>2 DEF IInv, Unused
<1>5. BufInv'
  <2>1. \A x \in Streams \ {s} : stream'[x].queue = stream[x].queue
    BY <1>2
  <2>2. freed' = freed \cup (Ids(stream[s].queue) \ Ids(<<>>)) /\ stream'[s].queue = <<>>
    BY <1>1, <1>2, NothingQueued
  <2> QED BY <2>1, <2>2, NothingQueued, QueueReplaced DEF IInv
<1>6. freed' \subseteq Bufs /\ live' \subseteq Streams
  <2>1. Ids(stream[s].queue) \subseteq Bufs
    BY <1>1, QueueIds DEF IInv, StreamTypes, Sound
  <2> QED BY <1>1, <2>1 DEF IInv, CallTypes
<1> QED BY <1>1, <1>3, <1>4, <1>5, <1>6

LEMMA CloseBeginsStep ==
  ASSUME ClosersWait, IInv, NEW t \in Threads, NEW h \in Slots, CloseBegins(t, h)
  PROVE  IInv'
<1> DEFINE s == table[h]
<1>1. TypeOK
  BY TypesSplit DEF IInv
<1>2. /\ Begins(t, "close", h) /\ lock = None /\ lock' = t
      /\ table' = [table EXCEPT ![h] = None] /\ handles' = handles \ {h}
      /\ ptr' = [ptr EXCEPT ![t] = s] /\ pc' = [pc EXCEPT ![t] = "free"]
      /\ stream' = [stream EXCEPT ![s].done = TRUE]
      /\ UNCHANGED <<live, slot, given, walker, fresh, freed>>
  BY DEF CloseBegins
<1>3. Protocol' /\ s \in live
  BY <1>1, CloseBeginsKeeps DEF IInv
<1>4. /\ s \in Streams /\ stream[s] \in Stream /\ Sound(stream[s].queue) /\ stream \in [Streams -> Stream]
      /\ s \in live
  BY <1>3 DEF IInv, CallTypes, StreamTypes
<1>5. todo' = [todo EXCEPT ![t] = todo'[t]] /\ todo'[t] \in Seq(Call)
  BY <1>1, <1>2, BeginFacts DEF IInv, Protocol
<1>6. stream'[s] = [stream[s] EXCEPT !.done = TRUE] /\ stream' = [stream EXCEPT ![s] = stream'[s]]
  BY <1>2, <1>4
<1>7. /\ stream'[s].queue = stream[s].queue
      /\ stream'[s].finished = stream[s].finished /\ stream'[s] \in Stream
  BY <1>4, <1>6 DEF Stream
<1> HIDE DEF s
<1>8. /\ StreamTypes' /\ \A x \in Streams \ {s} : stream'[x] = stream[x]
      /\ TurnInv' /\ Unused'
  <2>1. TurnOf(stream[s].queue, stream[s].finished)
    BY <1>4 DEF IInv, TurnInv
  <2> QED BY <1>2, <1>4, <1>6, <1>7, <2>1, OneStream DEF IInv
<1>9. BufInv'
  <2>1. \A x \in Streams : stream'[x].queue = stream[x].queue
    BY <1>7, <1>8
  <2> QED BY <1>2, <2>1, QueuesKept DEF IInv
<1>10. CallTypes'
  <2>1. calls' = calls \/ (calls < MaxCalls /\ calls' = calls + 1)
    BY <1>2 DEF Begins, AppBegins
  <2>2. calls' \in 0 .. MaxCalls
    BY <2>1, MixerConstants DEF IInv, CallTypes
  <2>3. todo' \in [Threads -> Seq(Call)] /\ pc' \in [Threads -> Places]
    BY <1>2, <1>5 DEF IInv, CallTypes, Places
  <2>4. \A u \in Threads : lock' = u <=> pc'[u] \in Owns
    BY <1>2, NoneIsNobody DEF IInv, CallTypes, Owns
  <2>5. /\ table' \in [Slots -> Streams \cup {None}] /\ ptr' \in [Threads -> Streams \cup {None}]
        /\ handles' \subseteq Slots
    BY <1>2, <1>4 DEF IInv, CallTypes
  <2> QED BY <1>2, <2>2, <2>3, <2>4, <2>5 DEF IInv, CallTypes
<1> QED BY <1>3, <1>8, <1>9, <1>10 DEF IInv

\* A thread that holds mixer_lock lets go of it.
LEMMA LetsGo ==
  ASSUME CallTypes, NEW t \in Threads, pc[t] \in Owns, Returns(t), lock' = None
  PROVE  /\ pc' \in [Threads -> Places] /\ ptr' \in [Threads -> Streams \cup {None}]
         /\ lock' \in Threads \cup {Device, None}
         /\ \A u \in Threads : lock' = u <=> pc'[u] \in Owns
<1>1. /\ pc' = [pc EXCEPT ![t] = "idle"] /\ ptr' = [ptr EXCEPT ![t] = None]
      /\ pc \in [Threads -> Places] /\ ptr \in [Threads -> Streams \cup {None}]
  BY DEF Returns, CallTypes
<1>2. pc' \in [Threads -> Places] /\ ptr' \in [Threads -> Streams \cup {None}]
  BY <1>1 DEF Places
<1>3. \A u \in Threads : pc'[u] \notin Owns /\ lock' # u
  BY <1>1, NoneIsNobody DEF CallTypes, Owns
<1> QED BY <1>2, <1>3

LEMMA CloseFreesStep ==
  ASSUME IInv, NEW t \in Threads, CloseFrees(t)
  PROVE  IInv'
<1>1. /\ pc[t] = "free" /\ pc[t] \in Owns /\ FreeStream(ptr[t]) /\ lock' = None /\ Returns(t)
      /\ UNCHANGED <<table, slot, given, todo, walker, handles, fresh, calls>>
  BY DEF CloseFrees, Owns
<1>2. ptr[t] \in live /\ ptr[t] \in Streams /\ todo[t] = <<>>
  BY <1>1 DEF IInv, CallTypes, Protocol, TableInv, PlaceInv
<1>3. TypeOK
  BY TypesSplit DEF IInv
<1>4. /\ StreamTypes' /\ Unused' /\ BufInv' /\ TurnInv'
      /\ live' = live \ {ptr[t]} /\ stream' = [stream EXCEPT ![ptr[t]] = NewStream]
      /\ freed' \subseteq Bufs /\ live' \subseteq Streams
  BY <1>1, <1>2, FreedStream
<1>5. Protocol'
  BY <1>1, <1>2, <1>3, <1>4, FreeKeeps DEF IInv
<1>6. CallTypes'
  <2>1. /\ pc' \in [Threads -> Places] /\ ptr' \in [Threads -> Streams \cup {None}]
        /\ lock' \in Threads \cup {Device, None}
        /\ \A u \in Threads : lock' = u <=> pc'[u] \in Owns
    BY <1>1, LetsGo DEF IInv
  <2> QED BY <1>1, <1>4, <2>1 DEF IInv, CallTypes
<1> QED BY <1>4, <1>5, <1>6 DEF IInv

LEMMA OpenFailsStep ==
  ASSUME IInv, NEW t \in Threads, OpenFails(t)
  PROVE  IInv'
<1>1. /\ pc[t] = "place" /\ pc[t] \in Owns /\ FreeStream(ptr[t]) /\ lock' = None /\ Returns(t)
      /\ todo' = [todo EXCEPT ![t] = <<>>] /\ slot' = 1
      /\ UNCHANGED <<table, given, walker, handles, fresh, calls>>
  BY DEF OpenFails, Owns
<1>2. ptr[t] \in live /\ ptr[t] \in Streams
  BY <1>1 DEF IInv, CallTypes, Protocol, TableInv
<1>3. TypeOK
  BY TypesSplit DEF IInv
<1>4. /\ StreamTypes' /\ Unused' /\ BufInv' /\ TurnInv'
      /\ live' = live \ {ptr[t]} /\ stream' = [stream EXCEPT ![ptr[t]] = NewStream]
      /\ freed' \subseteq Bufs /\ live' \subseteq Streams
  BY <1>1, <1>2, FreedStream
<1>5. /\ todo' \in [Threads -> Seq(Call)] /\ todo'[t] = <<>>
      /\ \A u \in Threads \ {t} : todo'[u] = todo[u]
  BY <1>1 DEF IInv, CallTypes
<1>6. Protocol'
  BY <1>1, <1>2, <1>3, <1>4, <1>5, FreeKeeps DEF IInv
<1>7. CallTypes'
  <2>1. /\ pc' \in [Threads -> Places] /\ ptr' \in [Threads -> Streams \cup {None}]
        /\ lock' \in Threads \cup {Device, None}
        /\ \A u \in Threads : lock' = u <=> pc'[u] \in Owns
    BY <1>1, LetsGo DEF IInv
  <2> QED BY <1>1, <1>4, <1>5, <2>1, SlotFacts DEF IInv, CallTypes
<1> QED BY <1>4, <1>6, <1>7 DEF IInv

LEMMA OpenBeginsStep ==
  ASSUME IInv, NEW t \in Threads, NEW plan \in DOMAIN Plans, OpenBegins(t, plan)
  PROVE  IInv'
<1> DEFINE s == CHOOSE s \in Streams \ live : TRUE
<1>1. TypeOK
  BY TypesSplit DEF IInv
<1>2. /\ AppBegins(t) /\ s \in Streams /\ lock = None /\ lock' = t /\ slot' = 1 /\ live' = live \cup {s}
      /\ ptr' = [ptr EXCEPT ![t] = s] /\ pc' = [pc EXCEPT ![t] = "reap"]
      /\ todo' = [todo EXCEPT ![t] = On(Plans[plan], NoHandle)]
      /\ UNCHANGED <<table, stream, given, walker, handles, fresh, freed>>
  BY DEF OpenBegins
<1> HIDE DEF s
<1>3. Protocol'
  BY <1>1, OpenBeginsKeeps DEF IInv
<1>4. CallTypes'
  <2>1. On(Plans[plan], NoHandle) \in Seq(Call)
    BY PlannedCalls
  <2>2. todo' \in [Threads -> Seq(Call)] /\ pc' \in [Threads -> Places]
    BY <1>2, <2>1 DEF IInv, CallTypes, Places
  <2>3. \A u \in Threads : lock' = u <=> pc'[u] \in Owns
    BY <1>2, NoneIsNobody DEF IInv, CallTypes, Owns
  <2>4. calls' \in 0 .. MaxCalls
    BY <1>2, MixerConstants DEF AppBegins, IInv, CallTypes
  <2>5. ptr' \in [Threads -> Streams \cup {None}] /\ live' \subseteq Streams
    BY <1>2 DEF IInv, CallTypes
  <2> QED BY <1>2, <2>2, <2>3, <2>4, <2>5, SlotFacts DEF IInv, CallTypes
<1> QED BY <1>2, <1>3, <1>4, StreamsKept DEF IInv

LEMMA ReapStep ==
  ASSUME IInv, NEW t \in Threads, Reap(t)
  PROVE  IInv'
<1>1. TypeOK
  BY TypesSplit DEF IInv
<1>2. /\ pc[t] = "reap" /\ pc[t] \in Owns /\ slot' = slot + 1
      /\ pc' = [pc EXCEPT ![t] = IF slot = LastSlot THEN "place" ELSE "reap"]
      /\ UNCHANGED <<lock, ptr, given, todo, walker, handles, fresh, calls>>
  BY DEF Reap, Owns
<1>3. slot \in Slots
  BY <1>2 DEF IInv, Protocol, PlaceInv
<1>4. /\ StreamTypes' /\ Unused' /\ BufInv' /\ TurnInv'
      /\ freed' \subseteq Bufs /\ live' \subseteq Streams /\ table' \in [Slots -> Streams \cup {None}]
  <2>1. CASE table[slot] # None /\ Reapable(table[slot])
    <3>1. FreeStream(table[slot]) /\ table' = [table EXCEPT ![slot] = None]
      BY <2>1 DEF Reap
    <3>2. table[slot] \in Streams /\ table' \in [Slots -> Streams \cup {None}]
      BY <1>3, <2>1, <3>1 DEF IInv, CallTypes
    <3> QED BY <1>2, <3>1, <3>2, FreedStream
  <2>2. CASE ~(table[slot] # None /\ Reapable(table[slot]))
    <3>1. UNCHANGED <<live, stream, freed, table>>
      BY <2>2 DEF Reap
    <3> QED BY <1>2, <3>1, StreamsKept DEF IInv, CallTypes
  <2> QED BY <2>1, <2>2
<1>5. Protocol'
  BY <1>1, ReapKeeps DEF IInv
<1>6. CallTypes'
  <2>1. pc' \in [Threads -> Places] /\ \A u \in Threads : lock' = u <=> pc'[u] \in Owns
    <3>1. (IF slot = LastSlot THEN "place" ELSE "reap") \in Places \cap Owns
      BY DEF Places, Owns
    <3> QED BY <1>2, <3>1 DEF IInv, CallTypes
  <2>2. slot' \in Slots \cup {LastSlot + 1}
    BY <1>2, <1>3, SlotFacts
  <2> QED BY <1>2, <1>4, <2>1, <2>2 DEF IInv, CallTypes
<1> QED BY <1>4, <1>5, <1>6 DEF IInv

LEMMA PlaceStep ==
  ASSUME IInv, NEW t \in Threads, NEW h \in Slots, Place(t, h)
  PROVE  IInv'
<1>1. TypeOK
  BY TypesSplit DEF IInv
<1> DEFINE moved == [i \in DOMAIN todo[t] |-> [todo[t][i] EXCEPT !.handle = h]]
<1>2. /\ pc[t] = "place" /\ pc[t] \in Owns /\ lock' = None /\ slot' = 1 /\ Returns(t)
      /\ table' = [table EXCEPT ![h] = ptr[t]]
      /\ todo' = [todo EXCEPT ![t] = moved]
      /\ UNCHANGED <<live, stream, given, walker, handles, fresh, freed, calls>>
  BY DEF Place, Owns
<1>3. moved \in Seq(Call)
  <2>1. todo[t] \in Seq(Call) /\ Len(todo[t]) \in Nat /\ DOMAIN todo[t] = 1 .. Len(todo[t])
    BY <1>1, CallFacts
  <2>2. \A i \in 1 .. Len(todo[t]) : [todo[t][i] EXCEPT !.handle = h] \in Call
    <3> TAKE i \in 1 .. Len(todo[t])
    <3>1. todo[t][i] \in Call
      BY <2>1
    <3> QED BY <3>1 DEF Call, Handles
  <2>3. moved \in [1 .. Len(todo[t]) -> Call]
    BY <2>1, <2>2
  <2> HIDE DEF moved
  <2> QED BY <2>1, <2>3, FunctionIsSeq
<1> HIDE DEF moved
<1>4. Protocol'
  BY <1>1, PlaceKeeps DEF IInv
<1>5. CallTypes'
  <2>1. /\ pc' \in [Threads -> Places] /\ ptr' \in [Threads -> Streams \cup {None}]
        /\ lock' \in Threads \cup {Device, None}
        /\ \A u \in Threads : lock' = u <=> pc'[u] \in Owns
    BY <1>2, LetsGo DEF IInv
  <2>2. table' \in [Slots -> Streams \cup {None}] /\ todo' \in [Threads -> Seq(Call)]
    BY <1>2, <1>3 DEF IInv, CallTypes
  <2> QED BY <1>2, <2>1, <2>2, SlotFacts DEF IInv, CallTypes
<1> QED BY <1>2, <1>4, <1>5, StreamsKept DEF IInv

LEMMA GiveStep ==
  ASSUME IInv, NEW t \in Threads, Give(t)
  PROVE  IInv'
<1>1. TypeOK
  BY TypesSplit DEF IInv
<1>2. /\ pc[t] = "idle" /\ todo[t] # <<>> /\ Head(todo[t]).op = "give"
      /\ handles' = handles \cup {Head(todo[t]).handle} /\ todo' = [todo EXCEPT ![t] = Tail(@)]
      /\ UNCHANGED <<table, live, stream, lock, slot, pc, ptr, given, walker, fresh, freed, calls>>
  BY DEF Give
<1>3. Protocol'
  BY <1>1, GiveKeeps DEF IInv
<1>4. CallTypes'
  <2>1. Tail(todo[t]) \in Seq(Call) /\ 1 \in DOMAIN todo[t] /\ Head(todo[t]) = todo[t][1]
    BY <1>1, <1>2, CallFacts
  <2>2. todo' \in [Threads -> Seq(Call)]
    BY <1>2, <2>1 DEF IInv, CallTypes
  <2>3. walker # t
    BY <1>2, <2>1 DEF IInv, Protocol, WalkInv
  <2>4. \E h \in Slots : Head(todo[t]).handle = h
    BY <1>1, <1>2, <2>3, PlanFacts DEF IInv, Protocol, Opens
  <2> QED BY <1>2, <2>2, <2>4 DEF IInv, CallTypes
<1> QED BY <1>2, <1>3, <1>4, StreamsKept DEF IInv

LEMMA CompleteBeginsStep ==
  ASSUME IInv, NEW t \in Threads, CompleteBegins(t)
  PROVE  IInv'
<1>1. TypeOK
  BY TypesSplit DEF IInv
<1> DEFINE all == [h \in Slots |-> [op |-> "sync", handle |-> h]]
<1>2. /\ AppBegins(t) /\ walker' = t /\ todo' = [todo EXCEPT ![t] = all]
      /\ UNCHANGED <<table, live, stream, lock, slot, pc, ptr, given, handles, fresh, freed>>
  BY DEF CompleteBegins
<1>3. all \in Seq(Call)
  <2>1. \A h \in Slots : [op |-> "sync", handle |-> h] \in Call
    BY DEF Call, Ops, Handles
  <2>2. all \in [1 .. LastSlot -> Call]
    BY <2>1, SlotFacts
  <2> HIDE DEF all
  <2> QED BY <2>2, SlotFacts, FunctionIsSeq
<1> HIDE DEF all
<1>4. Protocol'
  BY <1>1, CompleteBeginsKeeps DEF IInv
<1>5. CallTypes'
  <2>1. calls' \in 0 .. MaxCalls
    BY <1>2, MixerConstants DEF AppBegins, IInv, CallTypes
  <2>2. todo' \in [Threads -> Seq(Call)]
    BY <1>2, <1>3 DEF IInv, CallTypes
  <2> QED BY <1>2, <2>1, <2>2 DEF IInv, CallTypes
<1> QED BY <1>2, <1>4, <1>5, StreamsKept DEF IInv

LEMMA CompleteEndsStep ==
  ASSUME IInv, NEW t \in Threads, CompleteEnds(t)
  PROVE  IInv'
<1>1. TypeOK
  BY TypesSplit DEF IInv
<1>2. /\ walker' = None
      /\ UNCHANGED <<table, live, stream, lock, slot, pc, ptr, given, todo, handles, fresh, freed, calls>>
  BY DEF CompleteEnds
<1>3. Protocol'
  BY <1>1, CompleteEndsKeeps DEF IInv
<1>4. CallTypes'
  BY <1>2 DEF IInv, CallTypes
<1> QED BY <1>2, <1>3, <1>4, StreamsKept DEF IInv

LEMMA PullTypes ==
  ASSUME CallTypes, NEW h \in Slots, PullsAt(h), freed' \subseteq Bufs,
         UNCHANGED <<table, live, pc, ptr, given, todo, walker, handles, fresh, calls>>
  PROVE  CallTypes'
<1>1. slot' \in Slots
  BY SlotFacts DEF PullsAt
<1>2. lock' \in {Device, None} /\ lock \in {Device, None}
  BY DEF PullsAt
<1>3. \A t \in Threads : lock' = t <=> pc'[t] \in Owns
  BY <1>2, NoneIsNobody DEF CallTypes
<1> QED BY <1>1, <1>2, <1>3 DEF CallTypes

LEMMA PullStreamStep ==
  ASSUME IInv, NEW h \in Slots, PullStream(h)
  PROVE  IInv'
<1> DEFINE s == table[h]
           q == stream[s].queue
           r == Play[q][Chunk]
           new == [queue |-> r, finished |-> stream[s].finished,
                   done |-> stream[s].finished /\ r = <<>>, auto_close |-> stream[s].auto_close]
<1>1. TypeOK
  BY TypesSplit DEF IInv
<1>2. /\ PullsAt(h) /\ s # None /\ stream' = [stream EXCEPT ![s] = new]
      /\ freed' = freed \cup (Ids(q) \ Ids(r))
      /\ UNCHANGED <<table, live, pc, ptr, given, todo, walker, handles, fresh, calls>>
  BY DEF PullStream, Plays, Pulled
<1>3. /\ s \in Streams /\ s \in live /\ stream[s] \in Stream /\ Sound(q) /\ stream \in [Streams -> Stream]
  BY <1>2 DEF IInv, CallTypes, StreamTypes, Protocol, TableInv
<1>4. NoDup(q) /\ TurnOf(q, stream[s].finished)
  BY <1>3 DEF IInv, BufInv, TurnInv
<1>5. Leaves(q, r)
  BY <1>3, MixerConstants, PlayLeaves
<1>6. stream'[s] = new /\ stream' = [stream EXCEPT ![s] = stream'[s]]
  BY <1>2, <1>3
<1> HIDE DEF r, q
<1>7. /\ Sound(r) /\ r \in Queue /\ Ids(r) \subseteq Ids(q) /\ NoDup(r)
      /\ TurnOf(r, stream[s].finished)
  BY <1>3, <1>4, <1>5, LeavesConsequences DEF TurnOf
<1>8. /\ new \in Stream /\ new.queue = r /\ new.finished = stream[s].finished
      /\ new.auto_close = stream[s].auto_close
  BY <1>3, <1>7 DEF Stream
<1> HIDE DEF s, new
<1>9. /\ StreamTypes' /\ \A x \in Streams \ {s} : stream'[x] = stream[x]
      /\ TurnInv' /\ Unused'
  BY <1>2, <1>3, <1>6, <1>7, <1>8, OneStream DEF IInv
<1>10. BufInv'
  <2>1. \A x \in Streams \ {s} : stream'[x].queue = stream[x].queue
    BY <1>9
  <2> QED BY <1>2, <1>3, <1>6, <1>7, <1>8, <2>1, QueueReplaced DEF IInv, q
<1>11. CallTypes'
  <2>1. Ids(q) \subseteq Bufs
    BY <1>3, QueueIds DEF Sound
  <2> QED BY <1>2, <2>1, PullTypes DEF IInv, CallTypes
<1>12. Protocol'
  <2>1. \A x \in Streams : stream'[x].auto_close = stream[x].auto_close
    BY <1>6, <1>8, <1>9
  <2> QED BY <1>1, <1>2, <2>1, PullKeeps DEF IInv
<1> QED BY <1>9, <1>10, <1>11, <1>12 DEF IInv

LEMMA PullSkipsStep ==
  ASSUME IInv, NEW h \in Slots, PullSkips(h)
  PROVE  IInv'
<1>1. TypeOK
  BY TypesSplit DEF IInv
<1>2. /\ PullsAt(h)
      /\ UNCHANGED <<table, live, stream, pc, ptr, given, todo, walker, handles, fresh, freed, calls>>
  BY DEF PullSkips
<1>3. Protocol'
  BY <1>1, <1>2, PullKeeps DEF IInv
<1>4. CallTypes'
  BY <1>2, PullTypes DEF IInv, CallTypes
<1> QED BY <1>2, <1>3, <1>4, StreamsKept DEF IInv

LEMMA Starts == Init => IInv
<1> SUFFICES ASSUME Init PROVE IInv
  OBVIOUS
<1> USE DEF Init
<1>1. StreamTypes
  BY NothingQueued DEF StreamTypes, NewStream, Stream, Sound
<1>2. CallTypes
  <2>1. <<>> \in Seq(Call)
    BY EmptySeq
  <2> QED BY <2>1, SlotFacts, NoneIsNobody, MixerConstants DEF CallTypes, Places, Owns
<1>3. PlaceInv
  BY DEF PlaceInv, Opens
<1>4. TableInv
  BY DEF TableInv, Sections, Owns
<1>5. PlanInv
  BY EmptySeq DEF PlanInv, PlanOf, Opens
<1>6. WalkInv
  BY NoneIsNobody DEF WalkInv
<1>7. AutoInv
  BY DEF AutoInv
<1>8. Unused
  BY DEF Unused
<1>9. BufInv /\ TurnInv
  <2>1. \A s \in Streams : stream[s].queue = <<>>
    BY DEF NewStream
  <2> QED BY <2>1, NothingQueued DEF BufInv, TurnInv
<1> QED BY <1>1, <1>2, <1>3, <1>4, <1>5, <1>6, <1>7, <1>8, <1>9 DEF IInv, Protocol

LEMMA Steps == ASSUME ClosersWait PROVE IInv /\ [Next]_vars => IInv'
<1> SUFFICES ASSUME IInv, [Next]_vars PROVE IInv'
  OBVIOUS
<1>1. ASSUME NEW t \in Threads, Begin(t) PROVE IInv'
  BY <1>1, LookupStep, LookupForAppendStep, CloseBeginsStep, OpenBeginsStep, CompleteBeginsStep DEF Begin
<1>2. ASSUME NEW t \in Threads, Section(t) PROVE IInv'
  BY <1>2, AppendLinkStep, AppendRefusedStep, FinishStep, StopStep, ClearStep, AutoCloseStep, SyncReturnsStep
     DEF Section
<1>3. ASSUME NEW t \in Threads, Owning(t) PROVE IInv'
  BY <1>3, CloseFreesStep, ReapStep, OpenFailsStep, PlaceStep DEF Owning
<1>4. ASSUME NEW t \in Threads, Give(t) \/ CompleteEnds(t) PROVE IInv'
  BY <1>4, GiveStep, CompleteEndsStep
<1>5. ASSUME Pull PROVE IInv'
  BY <1>5, PullStreamStep, PullSkipsStep DEF Pull
<1>6. ASSUME UNCHANGED vars PROVE IInv'
  BY <1>6 DEF vars, IInv, StreamTypes, CallTypes, Protocol, PlaceInv, TableInv, PlanInv, PlanOf, WalkInv,
     AutoInv, Private, Concerns, Unused, BufInv, TurnInv
<1> QED BY <1>1, <1>2, <1>3, <1>4, <1>5, <1>6 DEF Next
-----------------------------------------------------------------------------
(* What follows *)

LEMMA QueueFits ==
  ASSUME NEW q \in Queue, NoDup(q)
  PROVE  Len(q) <= Cardinality(Bufs)
<1> DEFINE ids == [i \in 1 .. Len(q) |-> q[i].id]
<1>1. Len(q) \in Nat /\ DOMAIN q = 1 .. Len(q)
  BY LenProperties DEF Queue
<1>2. \A i \in 1 .. Len(q) : q[i].id \in Bufs
  BY QueueIds, <1>1 DEF Ids
<1>3. ids \in [1 .. Len(q) -> Bufs]
  BY <1>2
<1>4. ids \in Injection(1 .. Len(q), Bufs)
  <2>1. \A i, j \in 1 .. Len(q) : ids[i] = ids[j] => i = j
    BY <1>1 DEF NoDup
  <2> HIDE DEF ids
  <2> QED BY <1>3, <2>1, Fun_IsInj
<1> HIDE DEF ids
<1>5. Cardinality(1 .. Len(q)) <= Cardinality(Bufs)
  BY <1>4, FS_Injection, MixerConstants
<1> QED BY <1>1, <1>5, FS_Interval

LEMMA OwnedOnce ==
  IInv => BufOwnedOnce
<1> SUFFICES ASSUME IInv, NEW b \in Bufs
             PROVE  LET queued == {p \in Streams \X (1 .. Cardinality(Bufs)) :
                                     /\ p[2] \in DOMAIN stream[p[1]].queue
                                     /\ stream[p[1]].queue[p[2]].id = b}
                        holders == {t \in Threads : given[t] # None /\ given[t].id = b}
                        states == (IF b \in fresh THEN 1 ELSE 0) + (IF b \in freed THEN 1 ELSE 0)
                    IN /\ Cardinality(queued) + Cardinality(holders) + states = 1
                       /\ \A p \in queued : p[1] \in live
  BY DEF BufOwnedOnce
<1> DEFINE queued == {p \in Streams \X (1 .. Cardinality(Bufs)) :
                        /\ p[2] \in DOMAIN stream[p[1]].queue
                        /\ stream[p[1]].queue[p[2]].id = b}
           holders == {t \in Threads : given[t] # None /\ given[t].id = b}
           states == (IF b \in fresh THEN 1 ELSE 0) + (IF b \in freed THEN 1 ELSE 0)
<1>1. \A p \in queued : p[1] \in Streams /\ b \in Ids(stream[p[1]].queue)
  BY DEF Ids
<1>2. \A p \in queued : p[1] \in live
  BY <1>1, NothingQueued DEF IInv, Unused, NewStream
<1>4. ASSUME b \in fresh \cup freed PROVE queued = {} /\ holders = {} /\ states = 1
  <2>1. queued = {} /\ holders = {}
    BY <1>1, <1>4 DEF IInv, BufInv
  <2>2. states = 1
    BY <1>4 DEF IInv, BufInv
  <2> QED BY <2>1, <2>2
<1>5. ASSUME NEW t \in Threads, given[t] # None, given[t].id = b
      PROVE  queued = {} /\ holders = {t} /\ states = 0
  <2>1. queued = {} /\ b \notin fresh \cup freed
    BY <1>1, <1>5 DEF IInv, BufInv
  <2>2. holders = {t}
    BY <1>5 DEF IInv, BufInv
  <2>3. states = 0
    BY <2>1
  <2> QED BY <2>1, <2>2, <2>3
<1>6. ASSUME NEW s \in Streams, b \in Ids(stream[s].queue)
      PROVE  (\E p : queued = {p}) /\ holders = {} /\ states = 0
  <2>1. holders = {} /\ b \notin fresh \cup freed
    BY <1>6 DEF IInv, BufInv
  <2>2. states = 0
    BY <2>1
  <2>3. stream[s].queue \in Queue /\ NoDup(stream[s].queue)
    BY DEF IInv, StreamTypes, Stream, Sound, BufInv
  <2>4. PICK i \in DOMAIN stream[s].queue : stream[s].queue[i].id = b
    BY <1>6 DEF Ids
  <2>5. i \in 1 .. Cardinality(Bufs)
    <3>1. Cardinality(Bufs) \in Nat
      BY MixerConstants, FS_CardinalityType
    <3>2. Len(stream[s].queue) \in Nat /\ i \in 1 .. Len(stream[s].queue)
      BY <2>3, <2>4, LenProperties DEF Queue
    <3> QED BY <2>3, <3>1, <3>2, QueueFits
  <2>6. ASSUME NEW p \in queued PROVE p = <<s, i>>
    <3>1. p \in Streams \X (1 .. Cardinality(Bufs)) /\ p = <<p[1], p[2]>>
      OBVIOUS
    <3>2. p[1] = s
      BY <1>1, <1>6 DEF IInv, BufInv
    <3>3. p[2] = i
      BY <2>3, <2>4, <3>2 DEF NoDup
    <3> QED BY <3>1, <3>2, <3>3
  <2>7. <<s, i>> \in queued
    BY <2>4, <2>5
  <2>8. queued = {<<s, i>>}
    <3> HIDE DEF queued
    <3> QED BY <2>6, <2>7
  <2> QED BY <2>1, <2>2, <2>8
<1> HIDE DEF queued, holders, states
<1>7. \/ b \in fresh \cup freed
      \/ \E t \in Threads : given[t] # None /\ given[t].id = b
      \/ \E s \in Streams : b \in Ids(stream[s].queue)
  BY DEF IInv, BufInv
<1>8. Cardinality(queued) + Cardinality(holders) + states = 1
  <2>1. Cardinality({}) = 0 /\ \A x : Cardinality({x}) = 1
    BY FS_EmptySet, FS_Singleton
  <2>2. CASE b \in fresh \cup freed
    BY <1>4, <2>1, <2>2
  <2>3. CASE \E t \in Threads : given[t] # None /\ given[t].id = b
    <3>1. queued = {} /\ (\E t : holders = {t}) /\ states = 0
      BY <1>5, <2>3
    <3>2. Cardinality(queued) = 0 /\ Cardinality(holders) = 1
      BY <2>1, <3>1
    <3> QED BY <3>1, <3>2
  <2>4. CASE \E s \in Streams : b \in Ids(stream[s].queue)
    <3>1. (\E p : queued = {p}) /\ holders = {} /\ states = 0
      BY <1>6, <2>4
    <3>2. Cardinality(queued) = 1 /\ Cardinality(holders) = 0
      BY <2>1, <3>1
    <3> QED BY <3>1, <3>2
  <2> QED BY <1>7, <2>2, <2>3, <2>4
<1> QED BY <1>2, <1>8 DEF queued, holders, states

LEMMA Consequences == IInv => TypeOK /\ NoUseAfterFree /\ PlaysInTurn
<1> SUFFICES ASSUME IInv PROVE TypeOK /\ NoUseAfterFree /\ PlaysInTurn
  OBVIOUS
<1>1. TypeOK
  BY TypesSplit DEF IInv
<1>2. ASSUME NEW t \in Threads, ptr[t] # None PROVE ptr[t] \in live
  <2>1. pc[t] \in Sections \/ pc[t] \in Owns
    BY <1>2 DEF IInv, Protocol, PlaceInv, CallTypes, Places, Sections, Owns
  <2> QED BY <1>2, <2>1 DEF IInv, Protocol, TableInv
<1>3. NoUseAfterFree
  BY <1>2 DEF IInv, Protocol, TableInv, NoUseAfterFree
<1>4. PlaysInTurn
  BY <1>1 DEF IInv, TurnInv, TurnOf, InTurn, CallTypes, PlaysInTurn
<1> QED BY <1>1, <1>3, <1>4

\* The variables of the mixer keep their types, the cursors of buffers stay within
\* them and mixer_lock is held by whoever opens, frees or pulls.
THEOREM MixerTypes == ASSUME ClosersWait PROVE Spec => []TypeOK
<1>1. Init => IInv
  BY Starts
<1>2. IInv /\ [Next]_vars => IInv'
  BY Steps
<1>3. IInv => TypeOK
  BY Consequences
<1> QED BY <1>1, <1>2, <1>3, PTL DEF Spec

\* xpbeep.c follows no pointer to a stream that was freed, and a handle that the
\* application holds stands for a stream, if no handle is closed in use.
THEOREM StreamsOutliveTheirUsers == ASSUME ClosersWait PROVE Spec => []NoUseAfterFree
<1>1. Init => IInv
  BY Starts
<1>2. IInv /\ [Next]_vars => IInv'
  BY Steps
<1>3. IInv => NoUseAfterFree
  BY Consequences
<1> QED BY <1>1, <1>2, <1>3, PTL DEF Spec

\* xp_audio_append owns its buffer on every path, and a buffer is freed once: when
\* it was played, dropped or refused.
THEOREM BuffersAreOwnedOnce == ASSUME ClosersWait PROVE Spec => []BufOwnedOnce
<1>1. Init => IInv
  BY Starts
<1>2. IInv /\ [Next]_vars => IInv'
  BY Steps
<1>3. IInv => BufOwnedOnce
  BY OwnedOnce
<1> QED BY <1>1, <1>2, <1>3, PTL DEF Spec

\* Buffers begin one after the other except under a crossfade, and a stream that is
\* finished has no loop that would keep it from its end.
THEOREM BuffersPlayInTurn == ASSUME ClosersWait PROVE Spec => []PlaysInTurn
<1>1. Init => IInv
  BY Starts
<1>2. IInv /\ [Next]_vars => IInv'
  BY Steps
<1>3. IInv => PlaysInTurn
  BY Consequences
<1> QED BY <1>1, <1>2, <1>3, PTL DEF Spec
-----------------------------------------------------------------------------
(* No gaps *)

ToComeWith(f, q) == IF q = <<>> THEN 0 ELSE Head(q).nframes - Head(q).consumed + f[Tail(q)]

\* f is ToCome on the queues of up to n buffers.
Counts(f, n) == f = [q \in Short(n) |-> ToComeWith(f, q)]

LEMMA Countable == \A n \in Nat : \E f : Counts(f, n)
<1> DEFINE T == {n \in Nat : ~ \E f : Counts(f, n)}
<1> SUFFICES ASSUME T # {} PROVE FALSE
  OBVIOUS
<1>1. PICK m \in T : \A k \in T : m <= k
  <2>1. T \in SUBSET Nat
    OBVIOUS
  <2> HIDE DEF T
  <2> QED BY LeastMember, <2>1
<1>2. CASE m = 0
  <2> DEFINE f == [q \in Short(0) |-> ToComeWith(<<>>, q)]
  <2>1. \A q \in Short(0) : ToComeWith(<<>>, q) = ToComeWith(f, q)
    BY TailShorter DEF ToComeWith
  <2>2. f = [q \in Short(0) |-> ToComeWith(f, q)]
    <3> HIDE DEF f
    <3> QED BY <2>1 DEF f
  <2> QED BY <2>2, <1>2, <1>1 DEF Counts
<1>3. CASE m > 0
  <2>1. PICK g : Counts(g, m - 1)
    BY <1>1, <1>3
  <2> DEFINE f == [q \in Short(m) |-> ToComeWith(g, q)]
  <2>2. \A q \in Short(m) : ToComeWith(g, q) = ToComeWith(f, q)
    <3> TAKE q \in Short(m)
    <3>1. ASSUME q # <<>> PROVE g[Tail(q)] = f[Tail(q)]
      <4>1. Tail(q) \in Short(m - 1) /\ Tail(q) \in Short(m)
        BY TailShorter, <3>1, <1>1 DEF Short, Queue
      <4>2. g[Tail(q)] = ToComeWith(g, Tail(q))
        BY <4>1, <2>1 DEF Counts
      <4>3. f[Tail(q)] = ToComeWith(g, Tail(q))
        BY <4>1
      <4> QED BY <4>2, <4>3
    <3> HIDE DEF f
    <3> QED BY <3>1 DEF ToComeWith
  <2>3. f = [q \in Short(m) |-> ToComeWith(f, q)]
    <3> HIDE DEF f
    <3> QED BY <2>2 DEF f
  <2> QED BY <2>3, <1>1 DEF Counts
<1> QED BY <1>1, <1>2, <1>3

LEMMA CountsAgree ==
  ASSUME NEW f, NEW g, NEW m \in Nat, NEW n \in Nat, Counts(f, m), Counts(g, n)
  PROVE  \A q \in Short(m) \cap Short(n) : f[q] = g[q]
<1> DEFINE T == {k \in Nat : \E q \in Short(m) \cap Short(n) : Len(q) = k /\ f[q] # g[q]}
<1>1. \A q \in Short(m) \cap Short(n) : f[q] # g[q] => Len(q) \in T
  BY LenProperties DEF Short, Queue
<1>2. SUFFICES ASSUME T # {} PROVE FALSE
  BY <1>1
<1>3. PICK k \in T : \A l \in T : k <= l
  <2>1. T \in SUBSET Nat
    OBVIOUS
  <2> HIDE DEF T
  <2> QED BY LeastMember, <2>1, <1>2
<1>4. PICK q \in Short(m) \cap Short(n) : Len(q) = k /\ f[q] # g[q]
  BY <1>3
<1>5. ASSUME q # <<>> PROVE f[Tail(q)] = g[Tail(q)]
  <2>1. Tail(q) \in Short(m) \cap Short(n) /\ Len(Tail(q)) < k /\ Len(Tail(q)) \in Nat
    BY <1>4, <1>5, HeadTailProperties, LenProperties, EmptySeq DEF Short, Queue
  <2>2. Len(Tail(q)) \notin T
    BY <2>1, <1>3
  <2> QED BY <2>1, <2>2
<1>6. f[q] = ToComeWith(f, q) /\ g[q] = ToComeWith(g, q)
  BY DEF Counts
<1> QED BY <1>4, <1>5, <1>6 DEF ToComeWith

LEMMA ToComeIsDefined == ToCome = [q \in Queue |-> ToComeWith(ToCome, q)]
<1> DEFINE S(n) == CHOOSE f : Counts(f, n)
           F == [q \in Queue |-> S(Len(q))[q]]
<1>1. \A n \in Nat : Counts(S(n), n)
  BY Countable
<1>2. ASSUME NEW q \in Queue PROVE F[q] = ToComeWith(F, q)
  <2>1. Len(q) \in Nat /\ q \in Short(Len(q))
    BY LenProperties DEF Short, Queue
  <2>2. F[q] = ToComeWith(S(Len(q)), q)
    BY <2>1, <1>1 DEF Counts
  <2>3. ASSUME q # <<>> PROVE F[Tail(q)] = S(Len(q))[Tail(q)]
    <3>1. Tail(q) \in Short(Len(q)) /\ Tail(q) \in Short(Len(Tail(q))) /\ Len(Tail(q)) \in Nat
      BY <2>1, <2>3, HeadTailProperties, LenProperties, EmptySeq DEF Short, Queue
    <3>2. F[Tail(q)] = S(Len(Tail(q)))[Tail(q)]
      BY <3>1 DEF Short
    <3> HIDE DEF S
    <3> QED BY <3>1, <3>2, <1>1, <2>1, CountsAgree
  <2> HIDE DEF S, F
  <2> QED BY <2>2, <2>3 DEF ToComeWith
<1>3. F = [q \in Queue |-> ToComeWith(F, q)]
  <2>1. F = [q \in Queue |-> F[q]]
    OBVIOUS
  <2> HIDE DEF F
  <2> QED BY <1>2, <2>1
<1>4. ToCome = CHOOSE f : f = [q \in Queue |-> ToComeWith(f, q)]
  BY DEF ToCome, ToComeWith
<1> HIDE DEF F
<1> QED BY <1>3, <1>4

LEMMA ToComeStep ==
  ASSUME NEW q \in Queue
  PROVE  ToCome[q] = IF q = <<>> THEN 0 ELSE q[1].nframes - q[1].consumed + ToCome[Tail(q)]
<1>1. ToCome[q] = ToComeWith(ToCome, q)
  BY ToComeIsDefined
<1> QED BY <1>1, QueueFacts DEF ToComeWith

LEMMA TailSound ==
  ASSUME NEW q, Sound(q), q # <<>>
  PROVE  Sound(Tail(q)) /\ Len(q) \in Nat /\ Len(Tail(q)) = Len(q) - 1 /\ Len(Tail(q)) \in Nat
<1>1. /\ q \in Queue /\ Len(q) \in Nat /\ DOMAIN q = 1 .. Len(q) /\ Len(q) # 0
      /\ Tail(q) \in Queue /\ Len(Tail(q)) = Len(q) - 1
      /\ \A i \in 1 .. Len(q) - 1 : Tail(q)[i] = q[i + 1]
  BY QueueFacts DEF Sound
<1>2. DOMAIN Tail(q) = 1 .. Len(q) - 1
  BY <1>1, QueueFacts
<1>3. ASSUME NEW i \in 1 .. Len(q) - 1 PROVE WellFormed(Tail(q)[i])
  BY <1>1 DEF Sound
<1> QED BY <1>1, <1>2, <1>3 DEF Sound

LEMMA ToComeType ==
  \A q : Sound(q) => ToCome[q] \in Nat
<1> DEFINE Fails(q) == Sound(q) /\ ToCome[q] \notin Nat
           T == {n \in Nat : \E q : Fails(q) /\ Len(q) = n}
<1>1. SUFFICES ASSUME NEW q0, Fails(q0) PROVE FALSE
  OBVIOUS
<1>2. PICK n \in T : \A k \in T : n <= k
  <2>1. T \in SUBSET Nat
    OBVIOUS
  <2>2. Len(q0) \in T
    BY <1>1, QueueFacts DEF Sound
  <2> HIDE DEF T
  <2> QED BY LeastMember, <2>1, <2>2
<1>3. PICK q : Fails(q) /\ Len(q) = n
  BY <1>2
<1>4. q \in Queue /\ n \in Nat
  BY <1>3 DEF Sound
<1>5. q # <<>>
  BY <1>3, <1>4, ToComeStep
<1>6. q[1].nframes - q[1].consumed \in Nat
  <2>1. 1 \in DOMAIN q /\ q[1] \in Buffer
    BY <1>4, <1>5, QueueFacts
  <2>2. WellFormed(q[1])
    BY <1>3, <2>1 DEF Sound
  <2> QED BY <2>1, <2>2 DEF WellFormed, Buffer
<1>7. ToCome[Tail(q)] \notin Nat
  <2>1. ToCome[q] = q[1].nframes - q[1].consumed + ToCome[Tail(q)]
    BY <1>4, <1>5, ToComeStep
  <2> QED BY <2>1, <1>3, <1>6
<1>8. Sound(Tail(q)) /\ Len(Tail(q)) = n - 1 /\ n - 1 \in Nat
  BY <1>3, <1>5, TailSound
<1>9. n - 1 \in T
  BY <1>7, <1>8
<1> HIDE DEF T
<1> QED BY <1>2, <1>4, <1>9

\* Buffers that play one after the other, each to its end.
Straight(q) == \A i \in DOMAIN q : ~q[i].loop /\ ~FadesUnder(q[i])

\* The buffers of r are the last of q.
Ends(q, r) ==
  /\ Len(r) <= Len(q)
  /\ \A i \in 1 .. Len(r) : r[i].id = q[i + Len(q) - Len(r)].id

LEMMA MixedStraight ==
  ASSUME NEW b \in Buffer, WellFormed(b), ~b.loop, ~FadesUnder(b), NEW room \in Nat
  PROVE  LET left == b.nframes - b.consumed IN
         /\ Written(b, room) = Least(room, left)
         /\ MixOne(b, room) = <<>> <=> room >= left
         /\ room < left => Mixed(b, room).consumed = b.consumed + room
<1> DEFINE left == b.nframes - b.consumed
           n == Written(b, room)
           m == Mixed(b, room)
<1>1. left \in Nat /\ n = Least(room, left) /\ n \in Nat /\ n <= left
  BY DEF Written, Least, WellFormed, Buffer
<1>2. CursorAfter(b, n) = b.consumed + n
  <2> HIDE DEF n
  <2>1. CASE n = 0
    BY <2>1 DEF CursorAfter, Buffer
  <2>2. CASE n # 0
    <3>1. b.consumed + n - 1 \in 0 .. b.nframes - 1 /\ b.nframes \in Nat \ {0}
      BY <1>1, <2>2 DEF Buffer
    <3> DEFINE last == b.consumed + n - 1
    <3>2. CursorAfter(b, n) = (last % b.nframes) + 1
      BY <2>2 DEF CursorAfter
    <3>3. last + 1 = b.consumed + n
      BY <1>1 DEF Buffer
    <3> HIDE DEF last
    <3>4. last % b.nframes = last
      BY <3>1 DEF last
    <3> QED BY <3>2, <3>3, <3>4
  <2> QED BY <2>1, <2>2
<1>3. m = [b EXCEPT !.consumed = CursorAfter(b, n)]
  BY DEF Mixed
<1> HIDE DEF n
<1>4. m.consumed = b.consumed + n /\ m.loop = b.loop /\ m.nframes = b.nframes /\ ~FadesUnder(m)
  BY <1>2, <1>3 DEF Buffer, FadesUnder
<1> HIDE DEF m
<1>5. UsedUp(m) <=> n >= left
  BY <1>1, <1>4 DEF UsedUp, Buffer
<1>6. n >= left <=> room >= left
  BY <1>1 DEF Least
<1>7. MixOne(b, room) = IF UsedUp(m) THEN <<>> ELSE <<m>>
  BY DEF MixOne, m
<1> QED BY <1>1, <1>4, <1>5, <1>6, <1>7 DEF n, m, Least

\* A pull takes from a queue that plays straight on what it has room for.
Exact(q, room) ==
  LET r == Play[q][room] IN
  /\ ToCome[r] = IF ToCome[q] > room THEN ToCome[q] - room ELSE 0
  /\ Ends(q, r)

LEMMA PlayIsExact ==
  \A q : Sound(q) /\ Straight(q) => \A room \in Nat : Exact(q, room)
<1> DEFINE Fails(q) == Sound(q) /\ Straight(q) /\ \E room \in Nat : ~Exact(q, room)
           T == {n \in Nat : \E q : Fails(q) /\ Len(q) = n}
<1>1. SUFFICES ASSUME NEW q0, Fails(q0) PROVE FALSE
  OBVIOUS
<1>2. PICK n \in T : \A k \in T : n <= k
  <2>1. T \in SUBSET Nat
    OBVIOUS
  <2>2. Len(q0) \in T
    BY <1>1, QueueFacts DEF Sound
  <2> HIDE DEF T
  <2> QED BY LeastMember, <2>1, <2>2
<1>3. PICK q : Fails(q) /\ Len(q) = n
  BY <1>2
<1>4. PICK room \in Nat : ~Exact(q, room)
  BY <1>3
<1>5. /\ Sound(q) /\ Straight(q) /\ q \in Queue /\ n \in Nat /\ ToCome[q] \in Nat
      /\ DOMAIN q = 1 .. n
  BY <1>3, ToComeType, QueueFacts DEF Sound
<1>6. q # <<>> /\ room # 0
  <2>1. ASSUME q = <<>> \/ room = 0 PROVE Exact(q, room)
    <3>1. Play[q][room] = q
      BY <2>1, <1>5, PlayStep
    <3>2. q = <<>> => ToCome[q] = 0
      BY <1>5, ToComeStep
    <3>3. Ends(q, q)
      BY <1>3, <1>5 DEF Ends
    <3> QED BY <2>1, <3>1, <3>2, <3>3, <1>5 DEF Exact
  <2> QED BY <2>1, <1>4
<1> DEFINE b == q[1]
           left == b.nframes - b.consumed
<1>7. /\ Head(q) = b /\ Tail(q) \in Queue /\ Len(Tail(q)) = n - 1 /\ n > 0
      /\ b \in Buffer /\ WellFormed(b) /\ ~b.loop /\ ~FadesUnder(b)
      /\ \A i \in 1 .. n - 1 : Tail(q)[i] = q[i + 1]
  BY <1>3, <1>5, <1>6, QueueFacts DEF Sound, Straight
<1>8. /\ Sound(Tail(q)) /\ n - 1 \in Nat /\ ToCome[Tail(q)] \in Nat /\ left \in Nat
      /\ ToCome[q] = left + ToCome[Tail(q)]
  BY <1>3, <1>5, <1>6, <1>7, TailSound, ToComeType, ToComeStep DEF WellFormed, Buffer
<1>9. Straight(Tail(q))
  <2>1. DOMAIN Tail(q) = 1 .. n - 1
    BY <1>7, QueueFacts
  <2> QED BY <2>1, <1>5, <1>7 DEF Straight
<1>10. CASE room >= left
  <2> DEFINE r == Play[Tail(q)][room - left]
  <2>1. Written(b, room) = left /\ MixOne(b, room) = <<>>
    BY <1>7, <1>8, <1>10, MixedStraight DEF Least
  <2>2. Play[q][room] = r
    BY <2>1, <1>5, <1>6, <1>7, PlayStep
  <2>3. room - left \in Nat
    BY <1>8, <1>10
  <2>4. Exact(Tail(q), room - left)
    <3>1. ~Fails(Tail(q))
      <4>1. n - 1 \notin T
        <5> HIDE DEF T
        <5> QED BY <1>2, <1>5
      <4> HIDE DEF Fails
      <4> QED BY <4>1, <1>7, <1>8
    <3> QED BY <3>1, <2>3, <1>8, <1>9
  <2>5. Sound(r)
    BY <2>3, <1>8, PlayLeaves DEF Leaves
  <2> HIDE DEF r
  <2>6. /\ ToCome[r] = IF ToCome[Tail(q)] > room - left THEN ToCome[Tail(q)] - (room - left) ELSE 0
        /\ Ends(Tail(q), r)
    BY <2>4 DEF Exact, r
  <2>7. Len(r) \in Nat /\ Len(r) <= n - 1 /\ \A i \in 1 .. Len(r) : r[i].id = Tail(q)[i + (n - 1) - Len(r)].id
    <3>1. Len(r) \in Nat
      BY <2>5, QueueFacts DEF Sound
    <3>2. Len(r) <= Len(Tail(q)) /\ \A i \in 1 .. Len(r) : r[i].id = Tail(q)[i + Len(Tail(q)) - Len(r)].id
      BY <2>6 DEF Ends
    <3> QED BY <3>1, <3>2, <1>7
  <2>8. ASSUME NEW i \in 1 .. Len(r) PROVE r[i].id = q[i + n - Len(r)].id
    <3>1. i + (n - 1) - Len(r) \in 1 .. n - 1 /\ i + (n - 1) - Len(r) + 1 = i + n - Len(r)
      BY <2>7, <1>8
    <3>2. Tail(q)[i + (n - 1) - Len(r)] = q[i + n - Len(r)]
      BY <3>1, <1>7
    <3> QED BY <3>2, <2>7
  <2>9. Ends(q, r)
    BY <2>7, <2>8, <1>3, <1>5 DEF Ends
  <2>10. ToCome[r] = IF ToCome[q] > room THEN ToCome[q] - room ELSE 0
    BY <2>6, <2>3, <1>8
  <2> QED BY <2>2, <2>9, <2>10, <1>4 DEF Exact
<1>11. CASE room < left
  <2> DEFINE m == Mixed(b, room)
             r == <<m>> \o Tail(q)
  <2>1. MixOne(b, room) # <<>> /\ m.consumed = b.consumed + room
    BY <1>7, <1>8, <1>11, MixedStraight
  <2>2. MixOne(b, room) = <<m>>
    BY <2>1, <1>7, MixOneCases
  <2>3. m \in Buffer /\ m.nframes = b.nframes /\ m.id = b.id
    BY <1>7, MixedBuffer
  <2>4. Play[q][room] = r
    <3>1. Play[q][room] = MixOne(b, room) \o Tail(q)
      BY <2>1, <1>5, <1>6, <1>7, PlayStep
    <3> QED BY <2>2, <3>1
  <2> HIDE DEF m
  <2>5. /\ r \in Queue /\ Len(r) = n
        /\ \A i \in 1 .. n : r[i] = IF i <= 1 THEN m ELSE Tail(q)[i - 1]
    <3>1. <<m>> \in Seq(Buffer) /\ Len(<<m>>) = 1 /\ <<m>>[1] = m
      BY <2>3
    <3>2. /\ r \in Seq(Buffer) /\ Len(r) = 1 + (n - 1)
          /\ \A i \in 1 .. 1 + (n - 1) : r[i] = IF i <= 1 THEN <<m>>[i] ELSE Tail(q)[i - 1]
      BY <3>1, <1>7, ConcatProperties DEF Queue
    <3> HIDE DEF r
    <3> QED BY <3>1, <3>2, <1>5 DEF Queue
  <2>6. r[1] = m /\ Tail(r) = Tail(q) /\ r # <<>>
    <3> HIDE DEF r
    <3>1. r # <<>> /\ Len(Tail(r)) = n - 1 /\ Tail(r) \in Queue /\ \A i \in 1 .. n - 1 : Tail(r)[i] = r[i + 1]
      BY <2>5, <1>7, QueueFacts
    <3>2. \A i \in 1 .. n - 1 : Tail(r)[i] = Tail(q)[i]
      <4> TAKE i \in 1 .. n - 1
      <4> DEFINE j == i + 1
      <4>1. j \in 1 .. n /\ ~(j <= 1) /\ j - 1 = i
        BY <1>5
      <4>2. Tail(r)[i] = r[j]
        BY <3>1
      <4> HIDE DEF j
      <4>3. r[j] = Tail(q)[j - 1]
        BY <4>1, <2>5
      <4> QED BY <4>1, <4>2, <4>3
    <3>3. Tail(r) = Tail(q)
      BY <3>1, <3>2, <1>7, SeqEqual DEF Queue
    <3> QED BY <3>1, <3>3, <2>5, <1>5, <1>7
  <2> HIDE DEF r
  <2>7. ToCome[r] = left - room + ToCome[Tail(q)]
    <3>1. ToCome[r] = r[1].nframes - r[1].consumed + ToCome[Tail(r)]
      BY <2>5, <2>6, ToComeStep
    <3>2. m.nframes - m.consumed = left - room
      BY <2>1, <2>3, <1>7 DEF Buffer
    <3> QED BY <2>6, <3>1, <3>2
  <2>8. ToCome[r] = IF ToCome[q] > room THEN ToCome[q] - room ELSE 0
    BY <2>7, <1>8, <1>11
  <2>9. ASSUME NEW i \in 1 .. n PROVE r[i].id = q[i].id
    <3>1. CASE i = 1
      BY <3>1, <2>3, <2>6
    <3>2. CASE i # 1
      <4>1. i - 1 \in 1 .. n - 1 /\ ~(i <= 1) /\ i - 1 + 1 = i
        BY <3>2, <1>5
      <4> QED BY <4>1, <2>5, <1>7
    <3> QED BY <3>1, <3>2
  <2>10. Ends(q, r)
    BY <2>5, <2>9, <1>3, <1>5 DEF Ends
  <2> QED BY <2>4, <2>8, <2>10, <1>4 DEF Exact
<1> QED BY <1>8, <1>10, <1>11

LEMMA LastIds ==
  ASSUME NEW q \in Queue, NEW r \in Queue, Ends(q, r)
  PROVE  Ids(r) = Ids(SubSeq(q, Len(q) - Len(r) + 1, Len(q)))
<1> DEFINE m == Len(q) - Len(r) + 1
           n == Len(q)
           last == SubSeq(q, m, n)
<1>1. /\ Len(q) \in Nat /\ Len(r) \in Nat /\ Len(r) <= Len(q) /\ DOMAIN r = 1 .. Len(r)
      /\ \A i \in 1 .. Len(q) : q[i] \in Buffer
      /\ \A i \in 1 .. Len(r) : r[i].id = q[i + Len(q) - Len(r)].id
  BY QueueFacts DEF Ends
<1>2. m \in Int /\ n \in Int /\ n - m + 1 = Len(r) /\ (\A i \in m .. n : q[i] \in Buffer)
      /\ \A i \in 1 .. Len(r) : m + i - 1 = i + Len(q) - Len(r)
  BY <1>1
<1> HIDE DEF m, n
<1>3. /\ last \in Seq(Buffer)
      /\ Len(last) = IF m <= n THEN n - m + 1 ELSE 0
      /\ \A i \in 1 .. n - m + 1 : last[i] = q[m + i - 1]
  BY <1>2, SubSeqProperties
<1> HIDE DEF last
<1>4. Len(last) = Len(r) /\ DOMAIN last = 1 .. Len(r)
  BY <1>1, <1>2, <1>3, QueueFacts DEF Queue
<1>5. \A i \in 1 .. Len(r) : last[i].id = r[i].id
  BY <1>1, <1>2, <1>3
<1>6. Ids(last) = Ids(r)
  BY <1>1, <1>4, <1>5 DEF Ids
<1> QED BY <1>6 DEF last, m, n

LEMMA PullsTake ==
  ASSUME IInv, NEW s \in live
  PROVE  PullTakes(s)
<1> DEFINE q == stream[s].queue
           r == stream'[s].queue
<1> SUFFICES ASSUME PullStream(slot), table[slot] = s, \A i \in DOMAIN q : ~q[i].loop /\ ~FadesUnder(q[i])
             PROVE  /\ ToCome[r] = IF ToCome[q] > Chunk THEN ToCome[q] - Chunk ELSE 0
                    /\ Ids(r) = Ids(SubSeq(q, Len(q) - Len(r) + 1, Len(q)))
  BY DEF PullTakes
<1>1. s \in Streams /\ stream \in [Streams -> Stream] /\ Sound(q) /\ Straight(q)
  BY DEF IInv, CallTypes, StreamTypes, Straight
<1>2. r = Play[q][Chunk]
  BY <1>1 DEF PullStream, Pulled
<1> HIDE DEF q, r
<1>3. Exact(q, Chunk)
  BY <1>1, PlayIsExact, MixerConstants
<1>4. q \in Queue /\ r \in Queue
  BY <1>1, <1>2, PlayLeaves, MixerConstants DEF Leaves, Sound
<1> QED BY <1>2, <1>3, <1>4, LastIds DEF Exact

\* xp_mixer_pull takes from buffers that play straight exactly the frames it has room
\* for, across the ends of buffers.
THEOREM PullsAreGapless == ASSUME ClosersWait PROVE Spec => Gapless
<1>1. Init => IInv
  BY Starts
<1>2. IInv /\ [Next]_vars => IInv'
  BY Steps
<1>3. IInv /\ [Next]_vars => [\A s \in live : PullTakes(s)]_vars
  BY PullsTake
<1> QED BY <1>1, <1>2, <1>3, PTL DEF Spec, Gapless
====
