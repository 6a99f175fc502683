-------------------------- MODULE SequentialProofs --------------------------
(***************************************************************************)
(* What the components that one thread uses at a time keep, for any sizes  *)
(* and any number of sockets, lists, strings, sections and bytes:          *)
(*   - a buffer (Stbuf) holds what was put into it;                        *)
(*   - every open socket (MultiSock) has one owner;                        *)
(*   - every string that was allocated (StrList) has one owner;            *)
(*   - a section (IniFast) is found by its name until it is cut.           *)
(***************************************************************************)
EXTENDS Sequential, FunctionTheorems, FiniteSetTheorems, SequenceTheorems, WellFoundedInduction, TLAPS
-----------------------------------------------------------------------------
(* Buffers: the inductive invariant *)

Memory == Bytes \cup {Uninitialized}

Buffers ==
  [sz : Nat, len : Nat, dynamic : BOOLEAN, buf : UNION {[0 .. n -> Memory] : n \in Nat}]

\* What the model takes for a pointer to nothing is not a buffer.
NullIsNoBuffer == NULL \notin Buffers

\* A buffer and what is said of it.
Holds(b, s) ==
  /\ b \in Buffers
  /\ b.len <= b.sz /\ b.sz <= STBUF_MAX
  /\ b.buf \in [0 .. b.sz -> Memory]
  /\ s \in Seq(Bytes) /\ Len(s) = b.len
  /\ \A i \in 1 .. b.len : s[i] = b.buf[i - 1]
  /\ b.buf[b.len] = Nul \/ (b.len = 0 /\ b.buf[0] = Uninitialized)

IInv == IF stb = NULL THEN said = <<>> ELSE Holds(stb, said)
-----------------------------------------------------------------------------
(* Arithmetic and sequences *)

\* Sums that fit do not wrap.
LEMMA SumFits ==
  ASSUME StbufConstants, NEW m \in Nat, NEW n \in Nat, m + n <= SIZE_MAX
  PROVE  Sum2(m, n) = m + n
  BY SMT DEF Sum2, StbufConstants

Splice(s, start, rlen, mem) == SubSeq(s, 1, start) \o mem \o SubSeq(s, start + rlen + 1, Len(s))

\* Each member of r comes from where it should.
IsSplice(r, s, start, rlen, mem) ==
  /\ Len(r) = Len(s) - rlen + Len(mem)
  /\ \A i \in 1 .. Len(s) - rlen + Len(mem) :
       r[i] = IF i <= start THEN s[i]
              ELSE IF i <= start + Len(mem) THEN mem[i - start]
              ELSE s[i - Len(mem) + rlen]

\* What becomes of a sequence of which a part is replaced.
LEMMA Spliced ==
  ASSUME NEW B, NEW s \in Seq(B), NEW mem \in Seq(B),
         NEW start \in 0 .. Len(s), NEW rlen \in 0 .. Len(s) - start
  PROVE  /\ Splice(s, start, rlen, mem) \in Seq(B)
         /\ IsSplice(Splice(s, start, rlen, mem), s, start, rlen, mem)
  <1> DEFINE head == SubSeq(s, 1, start)
             tail == SubSeq(s, start + rlen + 1, Len(s))
             both == head \o mem
  <1>1. head \in Seq(B) /\ Len(head) = start /\ \A i \in 1 .. start : head[i] = s[i]
    BY SMT
  <1>2. /\ tail \in Seq(B) /\ Len(tail) = Len(s) - start - rlen
        /\ \A i \in 1 .. Len(s) - start - rlen : tail[i] = s[i + start + rlen]
    BY SMT
  <1> HIDE DEF head, tail
  <1>3. /\ both \in Seq(B) /\ Len(both) = start + Len(mem)
        /\ \A i \in 1 .. start + Len(mem) : both[i] = IF i <= start THEN s[i] ELSE mem[i - start]
    BY <1>1, SMT
  <1> HIDE DEF both
  <1>4. /\ both \o tail \in Seq(B)
        /\ Len(both \o tail) = Len(both) + Len(tail)
        /\ \A i \in 1 .. Len(both) + Len(tail) :
             (both \o tail)[i] = IF i <= Len(both) THEN both[i] ELSE tail[i - Len(both)]
    BY <1>2, <1>3, ConcatProperties
  <1>5. /\ Len(both \o tail) = Len(s) - rlen + Len(mem)
        /\ \A i \in 1 .. Len(s) - rlen + Len(mem) :
             (both \o tail)[i] = IF i <= start + Len(mem) THEN both[i] ELSE tail[i - start - Len(mem)]
    <2>1. Len(s) \in Nat /\ Len(mem) \in Nat
      OBVIOUS
    <2>2. Len(both) + Len(tail) = Len(s) - rlen + Len(mem)
      BY <1>2, <1>3, <2>1, SMT
    <2>3. \A i \in 1 .. Len(s) - rlen + Len(mem) : i - Len(both) = i - start - Len(mem)
      BY <1>3, <2>1, SMT
    <2> QED BY <1>3, <1>4, <2>2, <2>3
  <1>6. ASSUME NEW i \in 1 .. Len(s) - rlen + Len(mem)
        PROVE  (both \o tail)[i] = IF i <= start THEN s[i]
                                   ELSE IF i <= start + Len(mem) THEN mem[i - start]
                                   ELSE s[i - Len(mem) + rlen]
    <2>3. Len(s) \in Nat /\ Len(mem) \in Nat
      OBVIOUS
    <2>1. CASE i <= start + Len(mem)
      BY <1>3, <1>5, <2>1, <2>3, SMT
    <2>2. CASE ~(i <= start + Len(mem))
      <3> DEFINE j == i - start - Len(mem)
      <3>1. j \in 1 .. Len(s) - start - rlen /\ j + start + rlen = i - Len(mem) + rlen
        BY <2>2, <2>3, SMT
      <3>2. ~(i <= start)
        BY <2>2, <2>3, SMT
      <3>3. (both \o tail)[i] = tail[j]
        BY <1>5, <2>2
      <3> HIDE DEF j
      <3>4. tail[j] = s[j + start + rlen]
        BY <1>2, <3>1
      <3> QED BY <2>2, <3>1, <3>2, <3>3, <3>4
    <2> QED BY <2>1, <2>2
  <1> QED BY <1>4, <1>5, <1>6 DEF both, head, tail, Splice, IsSplice
-----------------------------------------------------------------------------
(* The pieces of a call *)

\* Whether there is a buffer or not, its length is that of what is said.
LEMMA OldLength ==
  ASSUME StbufConstants, IInv
  PROVE  /\ STBUF_MAX \in Nat
         /\ olen \in 0 .. STBUF_MAX
         /\ said \in Seq(Bytes) /\ Len(said) = olen
         /\ stb # NULL => /\ stb.len = olen /\ stb.sz \in Nat
                         /\ \A i \in 1 .. olen : said[i] = stb.buf[i - 1]
  <1>1. STBUF_MAX \in Nat
    BY SMT DEF StbufConstants, STBUF_MAX
  <1>2. CASE stb = NULL
    BY <1>1, <1>2, SMT DEF IInv, olen
  <1>3. CASE stb # NULL
    BY <1>1, <1>3, SMT DEF IInv, Holds, Buffers, olen
  <1> QED BY <1>2, <1>3

\* stbuf_atleast makes room, and keeps the contents with their NUL.
LEMMA GrownKeeps ==
  ASSUME StbufConstants, IInv, NEW n \in Nat, AtLeast(n), olen <= n \/ stb # NULL
  PROVE  /\ GrownSize(n) \in Nat /\ n <= GrownSize(n) /\ GrownSize(n) <= STBUF_MAX
         /\ Grown(n) \in [0 .. GrownSize(n) -> Memory]
         /\ stb # NULL => /\ olen <= GrownSize(n)
                         /\ \A i \in 0 .. olen : Grown(n)[i] = stb.buf[i]
  <1>1. CASE Enough(n)
    <2>1. stb # NULL /\ n <= stb.sz
      BY <1>1 DEF Enough
    <2>2. GrownSize(n) = stb.sz /\ Grown(n) = stb.buf
      BY <1>1 DEF GrownSize, Grown
    <2> QED
      BY <2>1, <2>2, OldLength, SMT DEF IInv, Holds, Buffers
  <1>2. CASE ~Enough(n)
    <2>1. /\ STBUF_OFFSET \in Nat /\ SIZE_MAX \in Nat /\ n <= STBUF_MAX
          /\ Sum2(n, STBUF_OFFSET + 1) = n + (STBUF_OFFSET + 1)
      <3>1. n + (STBUF_OFFSET + 1) <= SIZE_MAX /\ STBUF_OFFSET + 1 \in Nat
        BY SMT DEF AtLeast, STBUF_MAX, StbufConstants
      <3> QED BY <3>1, SumFits DEF StbufConstants, AtLeast
    <2>2. GrownSize(n) = n
      BY <1>2, <2>1, SMT DEF GrownSize
    <2>3. Grown(n) = [i \in 0 .. n |->
            IF stb # NULL /\ i \in DOMAIN stb.buf THEN stb.buf[i] ELSE Uninitialized]
      <3>1. n + (STBUF_OFFSET + 1) - STBUF_OFFSET - 1 = n
        BY <2>1, SMT
      <3> QED BY <1>2, <2>1, <3>1 DEF Grown, stbuf_realloc
    <2>4. stb # NULL => olen <= n
      BY <1>2, <2>1, OldLength, SMT DEF AtLeast, Reallocatable
    <2>5. CASE stb = NULL
      BY <2>1, <2>2, <2>3, <2>5 DEF Memory
    <2>6. CASE stb # NULL
      <3>1. stb.buf \in [0 .. stb.sz -> Memory] /\ stb.sz \in Nat /\ olen \in Nat /\ olen <= stb.sz
        BY <2>6, OldLength DEF IInv, Holds
      <3>2. \A i \in 0 .. olen : i \in DOMAIN stb.buf /\ i \in 0 .. n
        BY <2>4, <2>6, <3>1, SMT
      <3>3. \A i \in 0 .. olen : Grown(n)[i] = stb.buf[i]
        BY <2>3, <2>6, <3>2
      <3>4. Grown(n) \in [0 .. n -> Memory]
        BY <2>3, <2>6, <3>1 DEF Memory
      <3> QED BY <2>1, <2>2, <2>4, <3>3, <3>4, SMT
    <2> QED BY <2>5, <2>6
  <1> QED BY <1>1, <1>2

\* The cells that stbuf_memrepl leaves are those of a buffer that holds what was
\* spliced together.
LEMMA ReplacedHolds ==
  ASSUME StbufConstants, IInv,
         NEW start \in 0 .. olen, NEW rlen \in 0 .. olen - start, NEW mem \in Seq(Bytes),
         AtLeast(olen - rlen + Len(mem)), NEW dynamic \in BOOLEAN
  PROVE  LET nlen == olen - rlen + Len(mem)
         IN Holds([sz |-> GrownSize(nlen), len |-> nlen, dynamic |-> dynamic,
                   buf |-> Copied(Moved(Grown(nlen), start, rlen, Len(mem), nlen), start, mem)],
                  Splice(said, start, rlen, mem))
  <1> DEFINE ilen == Len(mem)
             nlen == olen - rlen + ilen
             size == GrownSize(nlen)
             G == Grown(nlen)
             M == Moved(G, start, rlen, ilen, nlen)
             C == Copied(M, start, mem)
             new == Splice(said, start, rlen, mem)
  <1>1. /\ STBUF_MAX \in Nat /\ olen \in Nat /\ said \in Seq(Bytes) /\ Len(said) = olen
        /\ ilen \in Nat /\ start \in Nat /\ rlen \in Nat /\ nlen \in Nat
        /\ start + rlen <= olen /\ start + ilen <= nlen
    <2>1. olen \in Nat /\ ilen \in Nat
      BY OldLength
    <2> QED BY <2>1, OldLength, SMT
  <1>2. olen <= nlen \/ stb # NULL
    <2>1. CASE stb = NULL
      BY <1>1, <2>1, SMT DEF olen
    <2> QED BY <2>1
  <1>3. /\ size \in Nat /\ nlen <= size /\ size <= STBUF_MAX
        /\ G \in [0 .. size -> Memory]
        /\ stb # NULL => olen <= size /\ \A i \in 0 .. olen : G[i] = stb.buf[i]
    BY <1>1, <1>2, GrownKeeps
  <1>4. new \in Seq(Bytes) /\ Len(new) = nlen
        /\ \A i \in 1 .. nlen : new[i] = IF i <= start THEN said[i]
                                        ELSE IF i <= start + ilen THEN mem[i - start]
                                        ELSE said[i - ilen + rlen]
    <2>1. start \in 0 .. Len(said) /\ rlen \in 0 .. Len(said) - start
      BY <1>1
    <2>2. said \in Seq(Bytes)
      BY <1>1
    <2>3. new \in Seq(Bytes) /\ IsSplice(new, said, start, rlen, mem)
      BY <2>1, <2>2, Spliced, Zenon DEF new
    <2> HIDE DEF new
    <2>4. Len(said) - rlen + Len(mem) = nlen
      BY <1>1 DEF nlen, ilen
    <2> QED BY <2>3, <2>4 DEF ilen, IsSplice
  <1>5. M = [i \in 0 .. size |->
              IF olen - start - rlen = 0 THEN (IF i = nlen THEN Nul ELSE G[i])
              ELSE IF i \in start + ilen .. nlen THEN G[i - ilen + rlen] ELSE G[i]]
    BY <1>3 DEF Moved
  <1>6. C = [i \in 0 .. size |->
              IF i \in start .. start + ilen - 1 THEN mem[i - start + 1] ELSE M[i]]
    BY <1>5 DEF Copied
  <1> HIDE DEF ilen, nlen, size, G, M, C, new
  \* Where bytes remain behind, there was a buffer.
  <1>7. olen - start - rlen # 0 => stb # NULL
    <2>1. CASE stb = NULL
      <3>1. olen = 0
        BY <2>1 DEF olen
      <3> QED BY <1>1, <3>1, SMT
    <2> QED BY <2>1
  <1>8. M \in [0 .. size -> Memory]
    <2>1. ASSUME NEW i \in 0 .. size PROVE M[i] \in Memory
      <3>1. CASE olen - start - rlen = 0
        BY <1>3, <1>5, <3>1 DEF Memory, StbufConstants
      <3>2. CASE olen - start - rlen # 0 /\ i \in start + ilen .. nlen
        <4>1. i - ilen + rlen \in 0 .. size
          BY <1>1, <1>3, <1>7, <3>2, SMT DEF nlen
        <4> QED BY <1>3, <1>5, <3>2, <4>1
      <3>3. CASE olen - start - rlen # 0 /\ i \notin start + ilen .. nlen
        BY <1>3, <1>5, <3>3
      <3> QED BY <3>1, <3>2, <3>3
    <2> QED BY <1>5, <2>1
  <1>9. C \in [0 .. size -> Memory]
    <2>1. ASSUME NEW i \in 0 .. size PROVE C[i] \in Memory
      <3>1. CASE i \in start .. start + ilen - 1
        <4>1. i - start + 1 \in 1 .. Len(mem)
          BY <1>1, <3>1, SMT DEF ilen
        <4>2. mem[i - start + 1] \in Bytes
          BY <4>1
        <4> QED BY <1>6, <3>1, <4>2 DEF Memory
      <3>2. CASE i \notin start .. start + ilen - 1
        BY <1>6, <1>8, <3>2
      <3> QED BY <3>1, <3>2
    <2> QED BY <1>6, <2>1
  <1>10. ASSUME NEW i \in 1 .. nlen PROVE new[i] = C[i - 1]
    <2>1. i \in Nat /\ i - 1 \in 0 .. size /\ i - 1 # nlen
      BY <1>1, <1>3, SMT
    <2>2. CASE i <= start
      <3>1. i - 1 \notin start .. start + ilen - 1 /\ i - 1 \notin start + ilen .. nlen
        BY <1>1, <2>1, <2>2, SMT
      <3>2. C[i - 1] = G[i - 1]
        BY <1>5, <1>6, <2>1, <3>1
      <3>3. stb # NULL /\ i \in 1 .. olen /\ i - 1 \in 0 .. olen
        <4>1. i \in 1 .. olen /\ i - 1 \in 0 .. olen
          BY <1>1, <2>1, <2>2, SMT
        <4> QED BY <4>1, SMT DEF olen
      <3> QED BY <1>3, <1>4, <2>2, <3>2, <3>3, OldLength
    <2>3. CASE ~(i <= start) /\ i <= start + ilen
      <3>1. i - 1 \in start .. start + ilen - 1 /\ i - 1 - start + 1 = i - start
        BY <1>1, <2>1, <2>3, SMT
      <3> QED BY <1>4, <1>6, <2>1, <2>3, <3>1
    <2>4. CASE ~(i <= start) /\ ~(i <= start + ilen)
      <3>1. /\ i - 1 \notin start .. start + ilen - 1 /\ i - 1 \in start + ilen .. nlen
            /\ olen - start - rlen # 0
            /\ i - ilen + rlen \in 1 .. olen
            /\ i - 1 - ilen + rlen = (i - ilen + rlen) - 1
            /\ (i - ilen + rlen) - 1 \in 0 .. olen
        BY <1>1, <2>1, <2>4, SMT DEF nlen
      <3>2. C[i - 1] = G[(i - ilen + rlen) - 1]
        BY <1>5, <1>6, <2>1, <3>1
      <3>3. said[i - ilen + rlen] = stb.buf[(i - ilen + rlen) - 1]
        BY <1>7, <3>1, OldLength
      <3> QED BY <1>3, <1>4, <1>7, <2>4, <3>1, <3>2, <3>3
    <2> QED BY <2>2, <2>3, <2>4
  <1>11. C[nlen] = Nul
    <2>1. nlen \in 0 .. size /\ nlen \notin start .. start + ilen - 1 /\ nlen \in start + ilen .. nlen
      BY <1>1, <1>3, SMT
    <2>2. C[nlen] = M[nlen]
      BY <1>6, <2>1
    <2>3. CASE olen - start - rlen = 0
      BY <1>5, <2>1, <2>2, <2>3
    <2>4. CASE olen - start - rlen # 0
      <3>1. nlen - ilen + rlen = olen /\ olen \in 0 .. olen /\ olen # 0
        BY <1>1, <2>4, SMT DEF nlen
      <3>2. C[nlen] = G[olen]
        BY <1>5, <2>1, <2>2, <2>4, <3>1
      <3>3. stb.buf[olen] = Nul
        BY <1>7, <2>4, <3>1, OldLength DEF IInv, Holds
      <3> QED BY <1>3, <1>7, <2>4, <3>1, <3>2, <3>3
    <2> QED BY <2>3, <2>4
  <1> DEFINE b == [sz |-> size, len |-> nlen, dynamic |-> dynamic, buf |-> C]
  <1>12. b \in Buffers
    BY <1>1, <1>3, <1>9 DEF Buffers
  <1>13. b.sz = size /\ b.len = nlen /\ b.buf = C
    OBVIOUS
  <1> HIDE DEF b
  <1>14. Holds(b, new)
    BY <1>3, <1>4, <1>9, <1>10, <1>11, <1>12, <1>13 DEF Holds
  <1> QED BY <1>14 DEF b, new, C, M, G, size, nlen, ilen
-----------------------------------------------------------------------------
(* The invariant *)

LEMMA StepKeeps ==
  ASSUME StbufConstants, NullIsNoBuffer, IInv, [Next]_vars
  PROVE  IInv'
  <1>0. /\ STBUF_MAX \in Nat /\ STBUF_OFFSET \in Nat /\ SIZE_MAX \in Nat
        /\ olen \in 0 .. STBUF_MAX /\ said \in Seq(Bytes) /\ Len(said) = olen
    BY OldLength DEF StbufConstants
  \* What holds a buffer is not NULL.
  <1>1. ASSUME Holds(stb', said') PROVE IInv'
    BY <1>1 DEF NullIsNoBuffer, IInv, Holds
  <1>2. ASSUME NEW sz \in 0 .. STBUF_MAX, NEW dynamic \in BOOLEAN, NEW cells \in [0 .. sz -> Memory],
               cells[0] \in {Nul, Uninitialized}, Made(sz, dynamic, cells)
        PROVE  IInv'
    <2>1. stb' = [sz |-> sz, len |-> 0, dynamic |-> dynamic, buf |-> cells] /\ said' = <<>>
      BY <1>2 DEF Made
    <2>2. stb' \in Buffers
      BY <1>0, <2>1, SMT DEF Buffers
    <2>3. Holds(stb', said')
      BY <1>0, <1>2, <2>1, <2>2, SMT DEF Holds
    <2> QED BY <1>1, <2>3
  <1>3. ASSUME NEW n \in Sizes, stbuf_malloc(n) PROVE IInv'
    <2> DEFINE cells == [i \in 0 .. n |-> IF i = n THEN Nul ELSE Uninitialized]
    <2>1. n \in 0 .. STBUF_MAX /\ 0 \in 0 .. n
      BY <1>0, <1>3, SMT DEF Sizes, stbuf_malloc
    <2>2. cells \in [0 .. n -> Memory] /\ cells[0] \in {Nul, Uninitialized}
      BY <2>1 DEF Memory, StbufConstants
    <2>3. Made(n, TRUE, cells)
      BY <1>3 DEF stbuf_malloc
    <2> HIDE DEF cells
    <2> QED BY <1>2, <2>1, <2>2, <2>3
  <1>4. ASSUME NEW n \in Sizes, stbuf_zalloc(n) PROVE IInv'
    <2> DEFINE cells == [i \in 0 .. n |-> Nul]
    <2>1. n \in 0 .. STBUF_MAX /\ 0 \in 0 .. n
      BY <1>0, <1>4, SMT DEF Sizes, stbuf_zalloc
    <2>2. cells \in [0 .. n -> Memory] /\ cells[0] \in {Nul, Uninitialized}
      BY <2>1 DEF Memory, StbufConstants
    <2>3. Made(n, TRUE, cells)
      BY <1>4 DEF stbuf_zalloc
    <2> HIDE DEF cells
    <2> QED BY <1>2, <2>1, <2>2, <2>3
  <1>5. ASSUME NEW n \in Sizes, NEW allocated \in BOOLEAN, stbuf_frommem(n, allocated) PROVE IInv'
    <2> DEFINE sz == n - STBUF_OFFSET - 1
               cells == [i \in 0 .. sz |-> IF i = 0 THEN Nul ELSE Uninitialized]
    <2>1. sz \in 0 .. STBUF_MAX /\ 0 \in 0 .. sz
      BY <1>0, <1>5, SMT DEF Sizes, stbuf_frommem, STBUF_MAX
    <2>2. Made(sz, allocated, cells)
      BY <1>5 DEF stbuf_frommem
    <2> HIDE DEF sz
    <2>3. cells \in [0 .. sz -> Memory] /\ cells[0] \in {Nul, Uninitialized}
      BY <2>1 DEF Memory, StbufConstants
    <2> HIDE DEF cells
    <2> QED BY <1>2, <2>1, <2>2, <2>3
  \* Reallocation to any size that has room for the contents.
  <1>6. ASSUME NEW n \in Nat, n <= STBUF_MAX, stb # NULL, Resized(n + STBUF_OFFSET + 1)
        PROVE  IInv'
    <2> DEFINE cells == [i \in 0 .. n |->
                 IF stb # NULL /\ i \in DOMAIN stb.buf THEN stb.buf[i] ELSE Uninitialized]
    <2>1. stb \in Buffers /\ Holds(stb, said)
      BY <1>6 DEF IInv, Holds
    <2>2. stb.len \in Nat /\ stb.sz \in Nat /\ stb.len <= n /\ stb.len <= stb.sz
      BY <1>0, <1>6, <2>1, SMT DEF Resized, Reallocatable, Buffers, Holds
    <2>3. (n + STBUF_OFFSET + 1) - STBUF_OFFSET - 1 = n
      BY <1>0, SMT
    <2>4. stbuf_realloc(n + STBUF_OFFSET + 1) = cells
      BY <2>3 DEF stbuf_realloc
    <2>5. stb' = [stb EXCEPT !.sz = n, !.buf = cells] /\ said' = said
      BY <1>6, <2>3, <2>4 DEF Resized
    <2>6. cells \in [0 .. n -> Memory]
      BY <2>1 DEF Holds, Memory
    <2>7. \A i \in 0 .. stb.len : cells[i] = stb.buf[i]
      <3>1. \A i \in 0 .. stb.len : i \in 0 .. n /\ i \in 0 .. stb.sz
        BY <2>2, SMT
      <3> QED BY <1>6, <2>1, <3>1 DEF Holds
    <2> HIDE DEF cells
    <2>8. stb' \in Buffers /\ stb'.len = stb.len /\ stb'.sz = n /\ stb'.buf = cells
      BY <2>1, <2>5, <2>6 DEF Buffers
    <2>9. /\ \A i \in 1 .. stb.len : said[i] = cells[i - 1]
          /\ cells[stb.len] = stb.buf[stb.len]
      <3>1. /\ \A i \in 1 .. stb.len : i - 1 \in 0 .. stb.len
            /\ stb.len \in 0 .. stb.len
        BY <2>2, SMT
      <3> QED BY <2>1, <2>7, <3>1 DEF Holds
    <2>10. stb.len = 0 => cells[0] = stb.buf[0]
      BY <2>9
    <2> QED BY <1>1, <1>6, <2>1, <2>2, <2>5, <2>6, <2>8, <2>9, <2>10 DEF Holds
  <1>7. ASSUME NEW n \in Sizes, stbuf_atleast(n) PROVE IInv'
    <2>1. n \in Nat /\ n <= STBUF_MAX /\ stb # NULL
      BY <1>7, SMT DEF Sizes, stbuf_atleast
    <2>2. n + (STBUF_OFFSET + 1) <= SIZE_MAX /\ STBUF_OFFSET + 1 \in Nat
      BY <1>0, <2>1, SMT DEF STBUF_MAX
    <2>3. Sum2(n, STBUF_OFFSET + 1) = n + (STBUF_OFFSET + 1)
      BY <2>1, <2>2, SumFits
    <2>4. n + (STBUF_OFFSET + 1) = n + STBUF_OFFSET + 1
      BY <1>0, <2>1, SMT
    <2>5. Resized(n + STBUF_OFFSET + 1)
      BY <1>7, <2>3, <2>4 DEF stbuf_atleast
    <2> QED BY <1>6, <2>1, <2>5
  <1>8. ASSUME stbuf_lipo PROVE IInv'
    <2>1. stb # NULL /\ stb.len \in Nat /\ stb.len <= STBUF_MAX /\ Resized(stb.len + STBUF_OFFSET + 1)
      BY <1>0, <1>8, OldLength DEF stbuf_lipo
    <2> QED BY <1>6, <2>1
  <1>9. ASSUME NEW n \in Sizes, stbuf_truncate(n) PROVE IInv'
    <2>1. stb # NULL /\ stb \in Buffers /\ Holds(stb, said) /\ n < stb.len /\ n \in Nat /\ stb.len \in Nat /\ stb.sz \in Nat
      BY <1>0, <1>9, SMT DEF stbuf_truncate, IInv, Holds, Buffers, Sizes
    <2>2. n \in 0 .. stb.sz
      BY <2>1, SMT DEF Holds
    <2>3. stb' = [stb EXCEPT !.len = n, !.buf = [stb.buf EXCEPT ![n] = Nul]] /\ said' = SubSeq(said, 1, n)
      BY <1>9 DEF stbuf_truncate
    <2>4. [stb.buf EXCEPT ![n] = Nul] \in [0 .. stb.sz -> Memory]
      BY <2>1 DEF Holds, Memory, StbufConstants
    <2>5. stb' \in Buffers /\ stb'.len = n /\ stb'.sz = stb.sz /\ stb'.buf = [stb.buf EXCEPT ![n] = Nul]
      BY <2>1, <2>3, <2>4 DEF Buffers
    <2>6. said' \in Seq(Bytes) /\ Len(said') = n /\ \A i \in 1 .. n : said'[i] = said[i]
      BY <1>0, <2>1, <2>3, SMT DEF Holds
    <2>7. \A i \in 1 .. n : said[i] = stb'.buf[i - 1]
      <3>1. \A i \in 1 .. n : i \in 1 .. stb.len /\ i - 1 # n /\ i - 1 \in 0 .. stb.sz
        BY <2>1, <2>2, SMT
      <3>2. \A i \in 1 .. n : stb'.buf[i - 1] = stb.buf[i - 1]
        BY <2>1, <2>5, <3>1 DEF Holds
      <3>3. \A i \in 1 .. stb.len : said[i] = stb.buf[i - 1]
        BY <2>1 DEF Holds
      <3> QED BY <3>1, <3>2, <3>3
    <2>8. stb'.buf[n] = Nul
      BY <2>1, <2>2, <2>5 DEF Holds
    <2>9. n <= stb.sz /\ stb.sz <= STBUF_MAX
      BY <2>1, SMT DEF Holds
    <2>10. Holds(stb', said')
      BY <2>4, <2>5, <2>6, <2>7, <2>8, <2>9 DEF Holds
    <2> QED BY <1>1, <2>10
  <1>10. ASSUME NEW start \in Sizes, NEW most \in Sizes, NEW mem \in Seq(Bytes), stbuf_memrepl(start, most, mem)
         PROVE  IInv'
    <2> DEFINE rlen == Removed(start, most)
               nlen == olen - rlen + Len(mem)
               dynamic == IF stb = NULL THEN TRUE ELSE stb.dynamic
    <2>1. start \in 0 .. olen
      BY <1>0, <1>10, SMT DEF stbuf_memrepl, Sizes
    <2>2. rlen \in 0 .. olen - start
      BY <1>0, <2>1, SMT DEF Removed, Sizes
    <2>3. dynamic \in BOOLEAN
      BY DEF IInv, Holds, Buffers
    <2>4. AtLeast(nlen)
      BY <1>10 DEF stbuf_memrepl
    <2>5. /\ stb' = [sz |-> GrownSize(nlen), len |-> nlen, dynamic |-> dynamic,
                     buf |-> Copied(Moved(Grown(nlen), start, rlen, Len(mem), nlen), start, mem)]
          /\ said' = Splice(said, start, rlen, mem)
      BY <1>10 DEF stbuf_memrepl, Splice
    <2> HIDE DEF rlen, dynamic
    <2>6. Holds(stb', said')
      BY <2>1, <2>2, <2>3, <2>4, <2>5, ReplacedHolds
    <2> QED BY <1>1, <2>6
  <1>11. ASSUME stbuf_free PROVE IInv'
    BY <1>11 DEF stbuf_free, IInv
  <1>12. CASE UNCHANGED vars
    BY <1>12 DEF vars, IInv, Holds
  <1>13. ASSUME NEW k \in 0 .. MaxInsert PROVE [1 .. k -> Bytes] \subseteq Seq(Bytes)
    <2>1. k \in Nat
      BY <1>13, SMT DEF StbufConstants
    <2> QED BY <2>1, SMT
  <1> QED BY <1>3, <1>4, <1>5, <1>7, <1>8, <1>9, <1>10, <1>11, <1>12, <1>13 DEF Next

\* After any sequence of calls of stbuf.c, with any sizes of size_t and of the
\* header, a buffer holds what was put into it, ended by a NUL.
THEOREM BufferHolds ==
  ASSUME StbufConstants, NullIsNoBuffer
  PROVE  Spec => []HoldsWhatWasPut
  <1>1. Init => IInv
    BY DEF Init, IInv
  <1>2. IInv /\ [Next]_vars => IInv'
    BY StepKeeps
  <1>3. IInv => HoldsWhatWasPut
    <2> SUFFICES ASSUME IInv, stb # NULL PROVE HoldsWhatWasPut
      BY DEF HoldsWhatWasPut
    <2>1. Holds(stb, said)
      BY DEF IInv
    <2>2. Contents = said
      <3>1. said \in Seq(Bytes) /\ Len(said) = stb.len /\ \A i \in 1 .. stb.len : said[i] = stb.buf[i - 1]
        BY <2>1 DEF Holds
      <3>2. said = [i \in 1 .. Len(said) |-> said[i]]
        BY <3>1
      <3> QED BY <3>1, <3>2 DEF Contents
    <2> QED BY <2>1, <2>2 DEF HoldsWhatWasPut, Holds
  <1> QED BY <1>1, <1>2, <1>3, PTL DEF Spec
-----------------------------------------------------------------------------
(* Sockets: the inductive invariant *)

\* An instance has copies of the operators that its module extends.
LEMMA SockSets ==
  /\ \A S : Sock!IsFiniteSet(S) <=> IsFiniteSet(S)
  /\ \A S : Sock!Cardinality(S) = Cardinality(S)
<1>1. \A S : Sock!IsFiniteSet(S) <=> IsFiniteSet(S)
  BY DEF Sock!IsFiniteSet, IsFiniteSet
<1> QED BY <1>1 DEF Sock!Cardinality, Cardinality

\* The socket that is being set up.
SettingUp == IF pc \in {"bind", "listen"} THEN {sock} ELSE {}

SockTypes ==
  /\ socks \in Seq(Sockets \cup {Invalid})
  /\ open \subseteq Sockets
  /\ clients \subseteq Sockets /\ IsFiniteSet(clients)
  /\ privileged \in BOOLEAN
  /\ pc \in {"idle", "resolve", "socket", "bind", "listen"}
  /\ ifaces \in Seq(Ports)
  /\ addresses \in Nat /\ added \in Nat /\ one_good \in BOOLEAN /\ before \in Nat

\* What is open is of one of the three kinds, and of no two.
SockOwners ==
  /\ open = Sock!InSet(Sock!Entries) \cup SettingUp \cup clients
  /\ \A i, j \in Sock!Entries : socks[i] = socks[j] => i = j
  /\ \A i \in Sock!Entries : socks[i] \notin clients /\ socks[i] \notin SettingUp
  /\ SettingUp \cap clients = {}

\* Where xpms_add_list is, and what it will tell its caller.
SockCall ==
  /\ pc \in {"socket", "bind", "listen"} => ifaces # <<>>
  /\ pc \in {"bind", "listen"} => addresses > 0 /\ sock \in Sockets
  /\ privileged => pc = "bind" /\ Sock!Raises(Sock!port)
  /\ before <= Len(socks)
  /\ pc \in {"socket", "bind", "listen"} => (Len(socks) > before <=> one_good \/ added > 0)
  /\ pc \in {"idle", "resolve"} => (Len(socks) > before <=> one_good)

SockInv == SockTypes /\ SockOwners /\ SockCall

\* The entries of a set, which has holes where a socket was closed.
LEMMA EntriesAre ==
  ASSUME SockTypes
  PROVE  /\ Len(socks) \in Nat /\ DOMAIN socks = 1 .. Len(socks)
         /\ \A i \in 1 .. Len(socks) : socks[i] \in Sockets \cup {Invalid}
         /\ Sock!Entries = {i \in 1 .. Len(socks) : socks[i] # Invalid}
         /\ IsFiniteSet(Sock!Entries)
<1>1. /\ Len(socks) \in Nat /\ DOMAIN socks = 1 .. Len(socks)
      /\ \A i \in 1 .. Len(socks) : socks[i] \in Sockets \cup {Invalid}
  BY LenProperties, ElementOfSeq DEF SockTypes
<1>2. Sock!Entries = {i \in 1 .. Len(socks) : socks[i] # Invalid}
  BY <1>1 DEF Sock!Entries
<1>3. IsFiniteSet(1 .. Len(socks))
  BY <1>1, FS_Interval
<1>4. IsFiniteSet(Sock!Entries)
  BY <1>2, <1>3, FS_Subset
<1> QED BY <1>1, <1>2, <1>4

\* As many sockets as entries that hold one.
LEMMA SetIsFinite ==
  ASSUME SockTypes, \A i, j \in Sock!Entries : socks[i] = socks[j] => i = j
  PROVE  IsFiniteSet(Sock!InSet(Sock!Entries)) /\ Cardinality(Sock!InSet(Sock!Entries)) = Cardinality(Sock!Entries)
<1> DEFINE E == Sock!Entries
           T == Sock!InSet(Sock!Entries)
           f == [i \in E |-> socks[i]]
<1>1. f \in [E -> T]
  BY DEF Sock!InSet
<1>2. \A t \in T : \E i \in E : f[i] = t
  BY DEF Sock!InSet
<1>3. \A i, j \in E : f[i] = f[j] => i = j
  OBVIOUS
<1> HIDE DEF E, T, f
<1>4. f \in Bijection(E, T)
  BY <1>1, <1>2, <1>3, Fun_IsBij
<1>5. IsFiniteSet(E)
  BY EntriesAre DEF E
<1>6. ExistsBijection(E, T)
  BY <1>4 DEF ExistsBijection
<1>7. IsFiniteSet(T) /\ Cardinality(T) = Cardinality(E)
  BY <1>5, <1>6, FS_Bijection
<1> QED BY <1>7 DEF E, T

\* The sizes of three sets no two of which share an element.
LEMMA ThreeSizes ==
  ASSUME NEW A, NEW B, NEW C, IsFiniteSet(A), IsFiniteSet(B), IsFiniteSet(C),
         A \cap B = {}, A \cap C = {}, B \cap C = {}
  PROVE  Cardinality(A \cup B \cup C) = Cardinality(A) + Cardinality(B) + Cardinality(C)
<1>1. IsFiniteSet(A \cup B) /\ Cardinality(A \cup B) = Cardinality(A) + Cardinality(B) - Cardinality(A \cap B)
  BY FS_Union
<1>2. Cardinality((A \cup B) \cup C) = Cardinality(A \cup B) + Cardinality(C) - Cardinality((A \cup B) \cap C)
  BY <1>1, FS_Union
<1>3. (A \cup B) \cap C = {}
  OBVIOUS
<1>4. Cardinality({}) = 0
  BY FS_EmptySet
<1>5. Cardinality(A) \in Nat /\ Cardinality(B) \in Nat /\ Cardinality(C) \in Nat
  BY FS_CardinalityType
<1>6. Cardinality(A \cup B) = Cardinality(A) + Cardinality(B)
  <2>1. Cardinality(A \cap B) = 0
    BY <1>4
  <2>2. \A a, b, c \in Nat : c = 0 => a + b - c = a + b
    OBVIOUS
  <2> QED BY <1>1, <1>5, <2>1, <2>2
<1>7. Cardinality((A \cup B) \cup C) = Cardinality(A \cup B) + Cardinality(C) - 0
  BY <1>2, <1>3, <1>4
<1> QED BY <1>5, <1>6, <1>7

\* What the invariant says of owners is what the property counts.
LEMMA SockInvSuffices ==
  ASSUME SockInv
  PROVE  Sock!SocketsAccounted
<1> DEFINE setup == IF pc \in {"bind", "listen"} THEN {sock} ELSE {}
<1>1. setup = SettingUp
  BY DEF SettingUp
<1>2. open = Sock!InSet(Sock!Entries) \cup setup \cup clients
  BY <1>1 DEF SockInv, SockOwners
<1>3. IsFiniteSet(setup)
  BY FS_EmptySet, FS_Singleton
<1>4. /\ IsFiniteSet(Sock!InSet(Sock!Entries)) /\ Cardinality(Sock!InSet(Sock!Entries)) = Cardinality(Sock!Entries)
      /\ IsFiniteSet(clients)
  BY SetIsFinite DEF SockInv, SockOwners, SockTypes
<1>5. /\ Sock!InSet(Sock!Entries) \cap setup = {} /\ Sock!InSet(Sock!Entries) \cap clients = {}
      /\ setup \cap clients = {}
  BY <1>1 DEF SockInv, SockOwners, Sock!InSet
<1> HIDE DEF setup
<1>6. Cardinality(Sock!InSet(Sock!Entries) \cup setup \cup clients)
        = Cardinality(Sock!InSet(Sock!Entries)) + Cardinality(setup) + Cardinality(clients)
  BY <1>3, <1>4, <1>5, ThreeSizes
<1>7. Cardinality(open) = Cardinality(Sock!Entries) + Cardinality(setup) + Cardinality(clients)
  BY <1>2, <1>4, <1>6
<1>8. privileged => pc = "bind"
  BY DEF SockInv, SockCall
<1>9. Sock!Idle => (one_good <=> Len(socks) > before)
  BY DEF SockInv, SockCall, Sock!Idle
<1> QED BY <1>2, <1>7, <1>8, <1>9, SockSets DEF Sock!SocketsAccounted, setup

\* No socket is open.
LEMMA SockInit ==
  ASSUME Sock!SocketAssumption, Sock!Init
  PROVE  SockInv
<1>1. socks = <<>> /\ Len(socks) = 0 /\ DOMAIN socks = {} /\ Sock!Entries = {} /\ Sock!InSet(Sock!Entries) = {}
  BY DEF Sock!Init, Sock!Entries, Sock!InSet
<1>2. SockTypes
  BY <1>1, EmptySeq, FS_EmptySet DEF SockTypes, Sock!Init
<1>3. SockOwners
  BY <1>1 DEF SockOwners, Sock!Init, SettingUp
<1>4. SockCall
  BY <1>1 DEF SockCall, Sock!Init
<1> QED BY <1>2, <1>3, <1>4 DEF SockInv

\* A step that leaves the sockets alone leaves their owners.
LEMMA OwnersStay ==
  ASSUME SockOwners, UNCHANGED <<socks, open, clients>>, SettingUp' = SettingUp
  PROVE  SockOwners'
BY DEF SockOwners, Sock!InSet, Sock!Entries

\* The lists of interfaces are sequences of ports.
LEMMA BoundedSeqs ==
  ASSUME NEW S, NEW n \in Nat, NEW s \in Sock!SeqOf(S, n)
  PROVE  s \in Seq(S)
<1>1. PICK m \in 0 .. n : s \in [1 .. m -> S]
  BY DEF Sock!SeqOf
<1>2. m \in Nat
  OBVIOUS
<1> QED BY <1>1, <1>2

\* A call begins, with a list of interfaces.
LEMMA StartKeeps ==
  ASSUME Sock!SocketAssumption, SockInv, Sock!xpms_add_list
  PROVE  SockInv'
<1>1. /\ pc = "idle" /\ pc' = "resolve" /\ one_good' = FALSE /\ before' = Len(socks)
      /\ ifaces' \in Sock!SeqOf(Ports, MaxInterfaces)
      /\ UNCHANGED <<socks, open, clients, privileged, sock, addresses, added>>
  BY DEF Sock!xpms_add_list, Sock!Idle
<1>2. ifaces' \in Seq(Ports) /\ Len(socks) \in Nat
  BY <1>1, BoundedSeqs, EntriesAre DEF Sock!SocketAssumption, SockInv
<1>3. SockTypes'
  BY <1>1, <1>2 DEF SockInv, SockTypes
<1>4. SockOwners'
  BY <1>1, OwnersStay DEF SettingUp, SockInv
<1>5. SockCall'
  BY <1>1, <1>2 DEF SockInv, SockCall
<1> QED BY <1>3, <1>4, <1>5 DEF SockInv

\* The next interface, and its addresses.
LEMMA ResolveKeeps ==
  ASSUME Sock!SocketAssumption, SockInv, Sock!Resolve
  PROVE  SockInv'
<1>1. /\ pc = "resolve" /\ ifaces # <<>> /\ added' = 0
      /\ UNCHANGED <<socks, open, clients, privileged, sock, one_good, before>>
  BY DEF Sock!Resolve
<1>2. \/ addresses' \in 1 .. MaxAddresses /\ pc' = "socket" /\ ifaces' = ifaces
      \/ ifaces' = Tail(ifaces) /\ addresses' = addresses /\ pc' = pc
  BY DEF Sock!Resolve
<1>3. Tail(ifaces) \in Seq(Ports) /\ MaxAddresses \in Nat
  BY <1>1, HeadTailProperties DEF Sock!SocketAssumption, SockInv, SockTypes
<1>4. SockTypes'
  <2>1. ifaces' \in Seq(Ports) /\ addresses' \in Nat /\ pc' \in {"resolve", "socket"}
    BY <1>1, <1>2, <1>3 DEF SockInv, SockTypes
  <2> QED BY <1>1, <2>1 DEF SockInv, SockTypes
<1>5. SockOwners'
  BY <1>1, <1>2, OwnersStay DEF SettingUp, SockInv
<1>6. SockCall'
  BY <1>1, <1>2 DEF SockInv, SockCall
<1> QED BY <1>4, <1>5, <1>6 DEF SockInv

\* socket() gives a descriptor that nobody has, or fails.
LEMMA OpenSocketKeeps ==
  ASSUME Sock!SocketAssumption, SockInv, Sock!OpenSocket
  PROVE  SockInv'
<1>1. /\ pc = "socket" /\ addresses > 0
      /\ UNCHANGED <<socks, clients, ifaces, added, one_good, before>>
  BY DEF Sock!OpenSocket
<1>2. SettingUp = {} /\ ~privileged /\ addresses \in Nat
  BY <1>1 DEF SettingUp, SockInv, SockCall, SockTypes
<1>3. CASE /\ \E s \in Sockets \ open : open' = open \cup {s} /\ sock' = s
           /\ privileged' = (privileged \/ Sock!Raises(Sock!port))
           /\ pc' = "bind" /\ addresses' = addresses
  <2>1. PICK s \in Sockets \ open : open' = open \cup {s} /\ sock' = s
    BY <1>3
  <2>2. SettingUp' = {s}
    BY <1>3, <2>1 DEF SettingUp
  <2>3. SockTypes'
    BY <1>1, <1>2, <1>3, <2>1 DEF SockInv, SockTypes, Sock!Raises
  <2>4. SockOwners'
    <3>1. Sock!InSet(Sock!Entries)' = Sock!InSet(Sock!Entries) /\ Sock!Entries' = Sock!Entries
      BY <1>1 DEF Sock!InSet, Sock!Entries
    <3>2. \A i \in Sock!Entries : socks[i] \in open /\ socks[i] # s
      BY <2>1 DEF SockInv, SockOwners, Sock!InSet
    <3>3. s \notin clients /\ open = Sock!InSet(Sock!Entries) \cup clients
      BY <1>2, <2>1 DEF SockInv, SockOwners
    <3>4. /\ open' = Sock!InSet(Sock!Entries)' \cup SettingUp' \cup clients'
          /\ SettingUp' \cap clients' = {}
      BY <1>1, <2>1, <2>2, <3>1, <3>3
    <3>5. /\ \A i, j \in Sock!Entries' : socks'[i] = socks'[j] => i = j
          /\ \A i \in Sock!Entries' : socks'[i] \notin clients' /\ socks'[i] \notin SettingUp'
      BY <1>1, <2>2, <3>1, <3>2 DEF SockInv, SockOwners
    <3> QED BY <3>4, <3>5 DEF SockOwners
  <2>5. SockCall'
    <3>1. Sock!Raises(Sock!port)' = Sock!Raises(Sock!port)
      BY <1>1 DEF Sock!Raises, Sock!port
    <3> QED BY <1>1, <1>2, <1>3, <2>1, <3>1 DEF SockInv, SockCall
  <2> QED BY <2>3, <2>4, <2>5 DEF SockInv
<1>4. CASE /\ pc' = "socket" /\ addresses' \in {addresses - 1, 0}
           /\ UNCHANGED <<open, sock, privileged>>
  <2>1. SockTypes'
    BY <1>1, <1>2, <1>4 DEF SockInv, SockTypes
  <2>2. SockOwners'
    BY <1>1, <1>4, OwnersStay DEF SettingUp, SockInv
  <2>3. SockCall'
    BY <1>1, <1>2, <1>4 DEF SockInv, SockCall
  <2> QED BY <2>1, <2>2, <2>3 DEF SockInv
<1> QED BY <1>1, <1>3, <1>4 DEF Sock!OpenSocket, Sock!NextAddress

\* The socket that is being set up is closed.
LEMMA ClosedOwners ==
  ASSUME SockInv, pc \in {"bind", "listen"}, Sock!CloseSocket, pc' = "socket", UNCHANGED <<socks, clients>>
  PROVE  SockOwners' /\ open' \subseteq Sockets
<1>1. SettingUp = {sock} /\ SettingUp' = {} /\ open' = open \ {sock}
  BY DEF SettingUp, Sock!CloseSocket
<1>2. Sock!InSet(Sock!Entries)' = Sock!InSet(Sock!Entries) /\ Sock!Entries' = Sock!Entries
  BY DEF Sock!InSet, Sock!Entries
<1>3. sock \notin Sock!InSet(Sock!Entries) /\ sock \notin clients
  BY <1>1 DEF SockInv, SockOwners, Sock!InSet
<1>4. open' = Sock!InSet(Sock!Entries)' \cup SettingUp' \cup clients'
  BY <1>1, <1>2, <1>3 DEF SockInv, SockOwners
<1>5. /\ \A i, j \in Sock!Entries' : socks'[i] = socks'[j] => i = j
      /\ \A i \in Sock!Entries' : socks'[i] \notin clients' /\ socks'[i] \notin SettingUp'
  BY <1>1, <1>2 DEF SockInv, SockOwners
<1>6. open' \subseteq Sockets
  BY <1>1 DEF SockInv, SockTypes
<1> QED BY <1>1, <1>4, <1>5, <1>6 DEF SockOwners

\* bind() with or without privileges, or the socket is closed.
LEMMA BindKeeps ==
  ASSUME Sock!SocketAssumption, SockInv, Sock!Bind
  PROVE  SockInv'
<1>1. /\ pc = "bind" /\ UNCHANGED <<socks, clients, ifaces, added, one_good, before>>
  BY DEF Sock!Bind
<1>2. addresses > 0 /\ addresses \in Nat /\ ifaces # <<>> /\ sock \in Sockets
  BY <1>1 DEF SockInv, SockCall, SockTypes
<1>3. privileged => Sock!Raises(Sock!port)
  BY <1>1 DEF SockInv, SockCall
<1>4. Sock!port \in Nat /\ IPPORT_RESERVED \in Nat
  BY <1>2, HeadTailProperties DEF Sock!SocketAssumption, SockInv, SockTypes, Sock!port
<1>5. CASE pc' = "listen" /\ privileged' = (privileged /\ ~Sock!Raises(Sock!port)) /\ UNCHANGED <<open, sock, addresses>>
  <2>1. privileged' = FALSE
    BY <1>3, <1>5
  <2>2. SockTypes'
    BY <1>1, <1>5, <2>1 DEF SockInv, SockTypes
  <2>3. SockOwners'
    BY <1>1, <1>5, OwnersStay DEF SettingUp, SockInv
  <2>4. SockCall'
    BY <1>1, <1>2, <1>5, <2>1 DEF SockInv, SockCall
  <2> QED BY <2>2, <2>3, <2>4 DEF SockInv
<1>6. CASE Sock!CloseSocket /\ privileged' = (privileged /\ Sock!port >= IPPORT_RESERVED) /\ Sock!NextAddress
  <2>1. privileged' = FALSE
    <3>1. ~(privileged /\ Sock!port >= IPPORT_RESERVED)
      <4>1. Sock!Raises(Sock!port) => ~(Sock!port >= IPPORT_RESERVED)
        BY <1>4 DEF Sock!Raises
      <4> QED BY <1>3, <4>1
    <3> QED BY <1>6, <3>1
  <2>2. pc' = "socket" /\ addresses' = addresses - 1 /\ addresses' \in Nat
    BY <1>2, <1>6 DEF Sock!NextAddress
  <2>3. SockOwners' /\ open' \subseteq Sockets
    BY <1>1, <1>6, <2>2, ClosedOwners
  <2>4. SockTypes'
    BY <1>1, <2>1, <2>2, <2>3 DEF SockInv, SockTypes
  <2>5. SockCall'
    BY <1>1, <1>2, <2>1, <2>2 DEF SockInv, SockCall
  <2> QED BY <2>3, <2>4, <2>5 DEF SockInv
<1> QED BY <1>5, <1>6 DEF Sock!Bind

\* The socket becomes an entry, or is closed.
LEMMA ListenKeeps ==
  ASSUME Sock!SocketAssumption, SockInv, Sock!Listen
  PROVE  SockInv'
<1>1. /\ pc = "listen" /\ pc' = "socket" /\ addresses' = addresses - 1
      /\ UNCHANGED <<clients, privileged, ifaces, one_good, before>>
  BY DEF Sock!Listen, Sock!NextAddress
<1>2. addresses > 0 /\ addresses \in Nat /\ ifaces # <<>> /\ sock \in Sockets /\ ~privileged /\ addresses' \in Nat
  BY <1>1 DEF SockInv, SockCall, SockTypes
<1>3. CASE socks' = Append(socks, sock) /\ sock' = Invalid /\ added' = added + 1 /\ open' = open
  <2> DEFINE n == Len(socks)
             s == socks'
  <2>1. /\ n \in Nat /\ sock \in Sockets \cup {Invalid} /\ sock # Invalid
        /\ Sock!Entries = {i \in 1 .. n : socks[i] # Invalid}
    BY <1>2, EntriesAre DEF SockInv, Sock!SocketAssumption
  <2>2. /\ s \in Seq(Sockets \cup {Invalid}) /\ Len(s) = n + 1
        /\ \A i \in 1 .. n : s[i] = socks[i]
        /\ s[n + 1] = sock
    BY <1>3, <2>1, AppendProperties DEF SockInv, SockTypes
  <2>3. SockTypes'
    BY <1>1, <1>2, <1>3, <2>2 DEF SockInv, SockTypes
  <2>4. Sock!Entries' = Sock!Entries \cup {n + 1}
    <3>0. DOMAIN s = 1 .. Len(s)
      BY <2>2, LenProperties
    <3>1. Sock!Entries' = {i \in 1 .. Len(s) : s[i] # Invalid}
      BY <3>0 DEF Sock!Entries
    <3> HIDE DEF s, n
    <3> QED BY <2>1, <2>2, <3>1
  <2> HIDE DEF s
  <2>5. \A i \in Sock!Entries : s[i] = socks[i] /\ i # n + 1
    BY <2>1, <2>2
  <2>6. Sock!InSet(Sock!Entries)' = Sock!InSet(Sock!Entries) \cup {sock}
    BY <2>2, <2>4, <2>5 DEF Sock!InSet, s
  <2>7. SettingUp = {sock} /\ SettingUp' = {}
    BY <1>1 DEF SettingUp
  <2>8. SockOwners'
    <3>1. open' = Sock!InSet(Sock!Entries)' \cup SettingUp' \cup clients'
      BY <1>1, <1>3, <2>6, <2>7 DEF SockInv, SockOwners
    <3>2. sock \notin clients /\ \A i \in Sock!Entries : socks[i] # sock
      BY <2>7 DEF SockInv, SockOwners
    <3>3. \A i, j \in Sock!Entries' : s[i] = s[j] => i = j
      BY <2>2, <2>4, <2>5, <3>2 DEF SockInv, SockOwners
    <3>4. \A i \in Sock!Entries' : s[i] \notin clients' /\ s[i] \notin SettingUp'
      BY <1>1, <2>2, <2>4, <2>5, <2>7, <3>2 DEF SockInv, SockOwners
    <3> QED BY <2>7, <3>1, <3>3, <3>4 DEF SockOwners, s
  <2>9. SockCall'
    <3>1. before \in Nat /\ before <= n /\ added \in Nat
      BY DEF SockInv, SockCall, SockTypes
    <3>2. PICK k \in Nat : k = n
      BY <2>1
    <3>3. before <= k + 1 /\ k + 1 > before /\ added + 1 > 0
      BY <3>1, <3>2
    <3>4. Len(socks') = k + 1
      BY <2>2, <3>2 DEF s
    <3> QED BY <1>1, <1>2, <1>3, <3>3, <3>4 DEF SockCall
  <2> QED BY <2>3, <2>8, <2>9 DEF SockInv
<1>4. CASE Sock!CloseSocket /\ UNCHANGED <<socks, added>>
  <2>1. SockOwners' /\ open' \subseteq Sockets
    BY <1>1, <1>4, ClosedOwners
  <2>2. SockTypes'
    BY <1>1, <1>2, <1>4, <2>1 DEF SockInv, SockTypes
  <2>3. SockCall'
    BY <1>1, <1>2, <1>4 DEF SockInv, SockCall
  <2> QED BY <2>1, <2>2, <2>3 DEF SockInv
<1> QED BY <1>3, <1>4 DEF Sock!Listen

\* The call ends, and says whether it added an entry.
LEMMA EndsKeep ==
  ASSUME Sock!SocketAssumption, SockInv, Sock!EndAdd \/ Sock!EndAddList
  PROVE  SockInv'
<1>1. CASE Sock!EndAdd
  <2>1. /\ pc = "socket" /\ one_good' = (one_good \/ added > 0) /\ ifaces' = Tail(ifaces) /\ pc' = "resolve"
        /\ UNCHANGED <<socks, open, clients, privileged, sock, addresses, added, before>>
    BY <1>1 DEF Sock!EndAdd
  <2>2. Tail(ifaces) \in Seq(Ports) /\ added \in Nat /\ ~privileged
    BY <2>1, HeadTailProperties DEF SockInv, SockTypes, SockCall
  <2>3. SockTypes'
    BY <2>1, <2>2 DEF SockInv, SockTypes
  <2>4. SockOwners'
    BY <2>1, OwnersStay DEF SettingUp, SockInv
  <2>5. SockCall'
    BY <2>1, <2>2 DEF SockInv, SockCall
  <2> QED BY <2>3, <2>4, <2>5 DEF SockInv
<1>2. CASE Sock!EndAddList
  <2>1. /\ pc = "resolve" /\ pc' = "idle"
        /\ UNCHANGED <<socks, open, clients, privileged, sock, ifaces, addresses, added, one_good, before>>
    BY <1>2 DEF Sock!EndAddList, Sock!local
  <2>3. SockTypes'
    BY <2>1 DEF SockInv, SockTypes
  <2>4. SockOwners'
    BY <2>1, OwnersStay DEF SettingUp, SockInv
  <2>5. SockCall'
    BY <2>1 DEF SockInv, SockCall
  <2> QED BY <2>3, <2>4, <2>5 DEF SockInv
<1> QED BY <1>1, <1>2

\* A client's socket is nobody else's; a broken entry is closed once.
LEMMA AcceptKeeps ==
  ASSUME Sock!SocketAssumption, SockInv, Sock!xpms_accept
  PROVE  SockInv'
<1>1. pc = "idle" /\ pc' = pc /\ UNCHANGED <<privileged, sock, ifaces, addresses, added, one_good, before>>
  BY DEF Sock!xpms_accept, Sock!Idle, Sock!local
<1>2. PICK gone \in SUBSET Sock!Entries :
        /\ socks' = Sock!Mark(gone)
        /\ \/ open' = open \ Sock!InSet(gone) /\ UNCHANGED clients
           \/ \E c \in Sockets \ (open \ Sock!InSet(gone)) :
                open' = (open \ Sock!InSet(gone)) \cup {c} /\ clients' = clients \cup {c}
  <2>1. PICK bad \in SUBSET Sock!Entries, readable \in SUBSET Sock!Entries :
          LET taken == {i \in readable : \A j \in readable : i <= j}
              gone == {i \in bad : \A j \in taken : i < j}
          IN /\ socks' = Sock!Mark(gone)
             /\ \/ open' = open \ Sock!InSet(gone) /\ UNCHANGED clients
                \/ \E c \in Sockets \ (open \ Sock!InSet(gone)) :
                     open' = (open \ Sock!InSet(gone)) \cup {c} /\ clients' = clients \cup {c}
    BY DEF Sock!xpms_accept
  <2> DEFINE taken == {i \in readable : \A j \in readable : i <= j}
             gone == {i \in bad : \A j \in taken : i < j}
  <2>2. gone \in SUBSET Sock!Entries
    OBVIOUS
  <2> QED BY <2>1, <2>2
<1>3. /\ Len(socks) \in Nat /\ DOMAIN socks = 1 .. Len(socks)
      /\ \A i \in 1 .. Len(socks) : socks[i] \in Sockets \cup {Invalid}
      /\ Sock!Entries = {i \in 1 .. Len(socks) : socks[i] # Invalid}
  BY EntriesAre DEF SockInv
<1>4. /\ socks' = [i \in 1 .. Len(socks) |-> IF i \in gone THEN Invalid ELSE socks[i]]
      /\ socks' \in Seq(Sockets \cup {Invalid}) /\ Len(socks') = Len(socks) /\ DOMAIN socks' = 1 .. Len(socks)
  <2>1. socks' = [i \in 1 .. Len(socks) |-> IF i \in gone THEN Invalid ELSE socks[i]]
    BY <1>2, <1>3 DEF Sock!Mark
  <2>2. socks' \in [1 .. Len(socks) -> Sockets \cup {Invalid}]
    BY <1>3, <2>1
  <2> QED BY <1>3, <2>1, <2>2
<1>5. Sock!Entries' = Sock!Entries \ gone /\ \A i \in Sock!Entries' : socks'[i] = socks[i]
  BY <1>3, <1>4 DEF Sock!Entries
<1>6. SettingUp = {} /\ SettingUp' = {}
  BY <1>1 DEF SettingUp
<1>7. open = Sock!InSet(Sock!Entries) \cup clients
  BY <1>6 DEF SockInv, SockOwners
<1>8. Sock!InSet(Sock!Entries)' = Sock!InSet(Sock!Entries) \ Sock!InSet(gone)
  <2>1. \A i, j \in Sock!Entries : socks[i] = socks[j] => i = j
    BY DEF SockInv, SockOwners
  <2>2. Sock!InSet(Sock!Entries)' = {socks[i] : i \in Sock!Entries \ gone}
    BY <1>5 DEF Sock!InSet
  <2>3. ASSUME NEW i \in Sock!Entries \ gone, NEW j \in gone PROVE socks[i] # socks[j]
    BY <1>2, <2>1, <2>3
  <2>4. \A x \in Sock!InSet(Sock!Entries)' : x \in Sock!InSet(Sock!Entries) \ Sock!InSet(gone)
    BY <2>2, <2>3 DEF Sock!InSet
  <2>5. \A x \in Sock!InSet(Sock!Entries) \ Sock!InSet(gone) : x \in Sock!InSet(Sock!Entries)'
    BY <2>2 DEF Sock!InSet
  <2> QED BY <2>4, <2>5
<1>9. Sock!InSet(gone) \cap clients = {}
  BY <1>2 DEF SockInv, SockOwners, Sock!InSet
<1>10. SockCall'
  BY <1>1, <1>3, <1>4 DEF SockInv, SockCall, Sock!Raises, Sock!port
<1>11. CASE open' = open \ Sock!InSet(gone) /\ UNCHANGED clients
  <2>1. SockTypes'
    BY <1>1, <1>4, <1>11 DEF SockInv, SockTypes
  <2>2. open' = Sock!InSet(Sock!Entries)' \cup SettingUp' \cup clients'
    BY <1>6, <1>7, <1>8, <1>9, <1>11
  <2>3. SockOwners'
    BY <1>5, <1>6, <1>11, <2>2 DEF SockInv, SockOwners
  <2> QED BY <1>10, <2>1, <2>3 DEF SockInv
<1>12. CASE \E c \in Sockets \ (open \ Sock!InSet(gone)) :
              open' = (open \ Sock!InSet(gone)) \cup {c} /\ clients' = clients \cup {c}
  <2>1. PICK c \in Sockets \ (open \ Sock!InSet(gone)) :
               open' = (open \ Sock!InSet(gone)) \cup {c} /\ clients' = clients \cup {c}
    BY <1>12
  <2>2. SockTypes'
    <3>1. IsFiniteSet(clients')
      BY <2>1, FS_AddElement DEF SockInv, SockTypes
    <3> QED BY <1>1, <1>4, <2>1, <3>1 DEF SockInv, SockTypes
  <2>3. open' = Sock!InSet(Sock!Entries)' \cup SettingUp' \cup clients'
    BY <1>6, <1>7, <1>8, <1>9, <2>1
  <2>4. \A i \in Sock!Entries' : socks'[i] \notin clients'
    <3>1. ASSUME NEW i \in Sock!Entries' PROVE socks'[i] # c
      <4>1. socks'[i] \in Sock!InSet(Sock!Entries)'
        BY DEF Sock!InSet
      <4> QED BY <1>7, <1>8, <2>1, <4>1
    <3>2. ASSUME NEW i \in Sock!Entries' PROVE socks'[i] \notin clients
      BY <1>5, <3>2 DEF SockInv, SockOwners
    <3> QED BY <2>1, <3>1, <3>2
  <2>5. \A i, j \in Sock!Entries' : socks'[i] = socks'[j] => i = j
    BY <1>5 DEF SockInv, SockOwners
  <2>6. SockOwners'
    BY <1>6, <2>3, <2>4, <2>5 DEF SockOwners
  <2> QED BY <1>10, <2>2, <2>6 DEF SockInv
<1> QED BY <1>2, <1>11, <1>12

\* The caller closes a client.
LEMMA CloseClientKeeps ==
  ASSUME Sock!SocketAssumption, SockInv, NEW c, Sock!CloseClient(c)
  PROVE  SockInv'
<1>1. /\ c \in clients /\ open' = open \ {c} /\ clients' = clients \ {c}
      /\ UNCHANGED <<socks, privileged, pc, sock, ifaces, addresses, added, one_good, before>>
  BY DEF Sock!CloseClient, Sock!local
<1>2. SockTypes'
  <2>1. IsFiniteSet(clients')
    BY <1>1, FS_RemoveElement DEF SockInv, SockTypes
  <2> QED BY <1>1, <2>1 DEF SockInv, SockTypes
<1>3. SettingUp' = SettingUp /\ Sock!InSet(Sock!Entries)' = Sock!InSet(Sock!Entries) /\ Sock!Entries' = Sock!Entries
  BY <1>1 DEF SettingUp, Sock!InSet, Sock!Entries
<1>4. c \notin Sock!InSet(Sock!Entries) /\ c \notin SettingUp
  BY <1>1 DEF SockInv, SockOwners, Sock!InSet
<1>5. SockOwners'
  BY <1>1, <1>3, <1>4 DEF SockInv, SockOwners
<1>6. SockCall'
  BY <1>1 DEF SockInv, SockCall, Sock!Raises, Sock!port
<1> QED BY <1>2, <1>5, <1>6 DEF SockInv

\* Every entry that holds a socket is closed.
LEMMA DestroyKeeps ==
  ASSUME Sock!SocketAssumption, SockInv, Sock!xpms_destroy
  PROVE  SockInv'
<1>1. /\ pc = "idle" /\ open' = open \ Sock!InSet(Sock!Entries) /\ socks' = <<>> /\ before' = 0 /\ one_good' = FALSE
      /\ UNCHANGED <<clients, privileged, pc, sock, ifaces, addresses, added>>
  BY DEF Sock!xpms_destroy, Sock!Idle
<1>2. Len(socks') = 0 /\ Sock!Entries' = {} /\ Sock!InSet(Sock!Entries)' = {}
  <2>1. DOMAIN socks' = {} /\ Len(socks') = 0
    BY <1>1
  <2> QED BY <2>1 DEF Sock!Entries, Sock!InSet
<1>3. SettingUp = {} /\ SettingUp' = {}
  BY <1>1 DEF SettingUp
<1>4. SockTypes'
  BY <1>1, EmptySeq DEF SockInv, SockTypes
<1>5. SockOwners'
  <2>1. open' = clients
    <3>1. clients \cap Sock!InSet(Sock!Entries) = {}
      BY DEF SockInv, SockOwners, Sock!InSet
    <3> QED BY <1>1, <1>3, <3>1 DEF SockInv, SockOwners
  <2> QED BY <1>1, <1>2, <1>3, <2>1 DEF SockOwners
<1>6. SockCall'
  BY <1>1, <1>2 DEF SockInv, SockCall, Sock!Raises, Sock!port
<1> QED BY <1>4, <1>5, <1>6 DEF SockInv

\* Every step is one of those above.
LEMMA SockNext ==
  ASSUME Sock!SocketAssumption, SockInv, [Sock!Next]_(Sock!vars)
  PROVE  SockInv'
<1>1. CASE UNCHANGED Sock!vars
  <2>1. UNCHANGED <<socks, open, clients, privileged, pc, sock, ifaces, addresses, added, one_good, before>>
    BY <1>1 DEF Sock!vars, Sock!local
  <2>2. SettingUp' = SettingUp
    BY <2>1 DEF SettingUp
  <2>3. SockTypes' /\ SockCall'
    BY <2>1 DEF SockInv, SockTypes, SockCall, Sock!Raises, Sock!port
  <2>4. SockOwners'
    BY <2>1, <2>2, OwnersStay DEF SockInv
  <2> QED BY <2>3, <2>4 DEF SockInv
<1>2. CASE Sock!Next
  BY <1>2, StartKeeps, ResolveKeeps, OpenSocketKeeps, BindKeeps, ListenKeeps, EndsKeep, AcceptKeeps,
     CloseClientKeeps, DestroyKeeps DEF Sock!Next
<1> QED BY <1>1, <1>2

\* Whatever fails in whatever order: each open socket is one entry of the set, a
\* client's or the one being set up, and xpms_add_list tells its caller the truth.
THEOREM SocketsHaveOneOwner ==
  ASSUME Sock!SocketAssumption
  PROVE  Sock!Spec => []SocketsAccounted
<1>1. Sock!Init => SockInv
  BY SockInit
<1>2. SockInv /\ [Sock!Next]_(Sock!vars) => SockInv'
  BY SockNext
<1>3. SockInv => SocketsAccounted
  BY SockInvSuffices DEF SocketsAccounted
<1> QED BY <1>1, <1>2, <1>3, PTL DEF Sock!Spec
-----------------------------------------------------------------------------
(* Sequences *)

\* An instance has copies of the operators that its module extends.
LEMMA StrSets ==
  /\ \A S : Str!IsFiniteSet(S) <=> IsFiniteSet(S)
  /\ \A S : Str!Cardinality(S) = Cardinality(S)
<1>1. \A S : Str!IsFiniteSet(S) <=> IsFiniteSet(S)
  BY DEF Str!IsFiniteSet, IsFiniteSet
<1> QED BY <1>1 DEF Str!Cardinality, Cardinality

Below == {ss \in Nat \X Nat : ss[1] < ss[2]}

\* A set of naturals that is not empty has a least member.
LEMMA LeastMember ==
  ASSUME NEW T \in SUBSET Nat, T # {}
  PROVE  \E m \in T : \A k \in T : m <= k
<1>1. IsWellFoundedOn(Below, Nat)
  BY NatLessThanWellFounded DEF OpToRel, Below
<1>2. PICK m \in T : \A k \in T : ~(<<k, m>> \in Below)
  BY <1>1, WFMin
<1>3. \A k \in T : ~(k < m)
  BY <1>2 DEF Below
<1> QED BY <1>3

\* A sequence is a function on 1 .. Len.
LEMMA SeqFacts ==
  ASSUME NEW S, NEW s \in Seq(S)
  PROVE  /\ Len(s) \in Nat /\ DOMAIN s = 1 .. Len(s)
         /\ \A i \in 1 .. Len(s) : s[i] \in S
BY LenProperties, ElementOfSeq

\* What stands in a sequence, and whether each of it stands there once.
Els(s) == {s[i] : i \in 1 .. Len(s)}
Distinct(s) == \A i, j \in 1 .. Len(s) : s[i] = s[j] => i = j

\* Range of the community modules, of a sequence.
LEMMA RangeIsEls ==
  ASSUME NEW S, NEW s \in Seq(S)
  PROVE  Str!Range(s) = Els(s)
BY SeqFacts DEF Str!Range, Els

\* The beginning of a sequence, up to a place.
LEMMA HeadPart ==
  ASSUME NEW S, NEW s \in Seq(S), NEW p \in 0 .. Len(s)
  PROVE  LET b == SubSeq(s, 1, p)
         IN  b \in Seq(S) /\ Len(b) = p /\ \A i \in 1 .. p : i \in 1 .. Len(s) /\ b[i] = s[i]
<1> DEFINE b == SubSeq(s, 1, p)
<1>1. Len(s) \in Nat /\ p \in Int /\ 1 \in Int /\ p \in Nat
  BY SeqFacts
<1>2. \A i \in 1 .. p : i \in 1 .. Len(s)
  BY <1>1
<1>3. \A i \in 1 .. p : s[i] \in S
  BY <1>2, SeqFacts
<1>4. /\ b \in Seq(S)
      /\ Len(b) = IF 1 <= p THEN p - 1 + 1 ELSE 0
      /\ \A i \in 1 .. p - 1 + 1 : b[i] = s[1 + i - 1]
  BY <1>1, <1>3, SubSeqProperties
<1> HIDE DEF b
<1>5. p - 1 + 1 = p /\ (IF 1 <= p THEN p - 1 + 1 ELSE 0) = p /\ \A i \in 1 .. p : 1 + i - 1 = i
  BY <1>1
<1>6. Len(b) = p /\ \A i \in 1 .. p : b[i] = s[i]
  BY <1>4, <1>5
<1> QED BY <1>2, <1>4, <1>6 DEF b

\* A piece of a sequence, behind the place p and up to q.
LEMMA PartIs ==
  ASSUME NEW S, NEW s \in Seq(S), NEW q \in 0 .. Len(s), NEW p \in 0 .. q
  PROVE  LET b == SubSeq(s, p + 1, q)
         IN  /\ b \in Seq(S) /\ Len(b) = q - p
             /\ \A i \in 1 .. (q - p) : p + i \in 1 .. Len(s) /\ b[i] = s[p + i]
<1> DEFINE b == SubSeq(s, p + 1, q)
<1>1. PICK k \in Nat : k = Len(s)
  BY SeqFacts
<1>2. q \in Nat /\ p \in Nat /\ p <= q /\ q <= k /\ p + 1 \in Int /\ q \in Int
  BY <1>1
<1>3. \A i \in (p + 1) .. q : s[i] \in S
  <2>1. \A i \in (p + 1) .. q : i \in 1 .. k
    BY <1>1, <1>2
  <2> QED BY <1>1, <2>1, SeqFacts
<1>4. /\ b \in Seq(S)
      /\ Len(b) = IF p + 1 <= q THEN q - (p + 1) + 1 ELSE 0
      /\ \A i \in 1 .. q - (p + 1) + 1 : b[i] = s[(p + 1) + i - 1]
  BY <1>2, <1>3, SubSeqProperties
<1> HIDE DEF b
<1>5. /\ (IF p + 1 <= q THEN q - (p + 1) + 1 ELSE 0) = q - p /\ q - (p + 1) + 1 = q - p
      /\ \A i \in 1 .. q - p : (p + 1) + i - 1 = p + i /\ p + i \in 1 .. k
  BY <1>2
<1>6. Len(b) = q - p
  BY <1>4, <1>5
<1>7. \A i \in 1 .. (q - p) : p + i \in 1 .. Len(s) /\ b[i] = s[p + i]
  BY <1>1, <1>4, <1>5
<1> QED BY <1>4, <1>6, <1>7 DEF b

\* What is in two sequences, one behind the other.
LEMMA BothEls ==
  ASSUME NEW S, NEW s \in Seq(S), NEW t \in Seq(S)
  PROVE  /\ s \o t \in Seq(S) /\ Els(s \o t) = Els(s) \cup Els(t) /\ Len(s \o t) = Len(s) + Len(t)
         /\ Distinct(s) /\ Distinct(t) /\ Els(s) \cap Els(t) = {} => Distinct(s \o t)
<1> DEFINE b == s \o t
<1>1. PICK m \in Nat : m = Len(s)
  BY SeqFacts
<1>2. PICK n \in Nat : n = Len(t)
  BY SeqFacts
<1>3. b \in Seq(S) /\ Len(b) = Len(s) + Len(t)
      /\ \A i \in 1 .. (Len(s) + Len(t)) : b[i] = IF i <= Len(s) THEN s[i] ELSE t[i - Len(s)]
  BY ConcatProperties
<1> HIDE DEF b
<1>4. Len(b) = m + n /\ \A i \in 1 .. (m + n) : b[i] = IF i <= m THEN s[i] ELSE t[i - m]
  BY <1>1, <1>2, <1>3
<1>5. Els(b) = {b[i] : i \in 1 .. (m + n)} /\ Els(s) = {s[i] : i \in 1 .. m} /\ Els(t) = {t[i] : i \in 1 .. n}
  BY <1>1, <1>2, <1>4 DEF Els
<1>6. \A x \in Els(b) : x \in Els(s) \cup Els(t)
  <2> SUFFICES ASSUME NEW i \in 1 .. (m + n) PROVE b[i] \in Els(s) \cup Els(t)
    BY <1>5
  <2>1. CASE i <= m
    <3>1. i \in 1 .. m
      BY <2>1
    <3> QED BY <1>4, <1>5, <2>1, <3>1
  <2>2. CASE ~(i <= m)
    <3>1. i - m \in 1 .. n
      BY <2>2
    <3> QED BY <1>4, <1>5, <2>2, <3>1
  <2> QED BY <2>1, <2>2
<1>7. \A x \in Els(s) : x \in Els(b)
  <2> SUFFICES ASSUME NEW i \in 1 .. m PROVE s[i] \in Els(b)
    BY <1>5
  <2>1. i \in 1 .. (m + n) /\ i <= m
    OBVIOUS
  <2> QED BY <1>4, <1>5, <2>1
<1>8. \A x \in Els(t) : x \in Els(b)
  <2> SUFFICES ASSUME NEW i \in 1 .. n PROVE t[i] \in Els(b)
    BY <1>5
  <2>1. i + m \in 1 .. (m + n) /\ ~(i + m <= m) /\ (i + m) - m = i
    OBVIOUS
  <2>2. b[i + m] = t[i]
    BY <1>4, <2>1
  <2> QED BY <1>5, <2>1, <2>2
<1>9. ASSUME Distinct(s), Distinct(t), Els(s) \cap Els(t) = {} PROVE Distinct(b)
  <2> SUFFICES ASSUME NEW i \in 1 .. (m + n), NEW j \in 1 .. (m + n), b[i] = b[j] PROVE i = j
    BY <1>4 DEF Distinct
  <2>1. \A k \in 1 .. (m + n) : /\ k <= m => k \in 1 .. m /\ b[k] = s[k] /\ b[k] \in Els(s)
                                /\ ~(k <= m) => k - m \in 1 .. n /\ b[k] = t[k - m] /\ b[k] \in Els(t)
    <3> SUFFICES ASSUME NEW k \in 1 .. (m + n)
                 PROVE  /\ k <= m => k \in 1 .. m /\ b[k] = s[k] /\ b[k] \in Els(s)
                        /\ ~(k <= m) => k - m \in 1 .. n /\ b[k] = t[k - m] /\ b[k] \in Els(t)
      OBVIOUS
    <3>1. (k <= m => k \in 1 .. m) /\ (~(k <= m) => k - m \in 1 .. n)
      OBVIOUS
    <3> QED BY <1>4, <1>5, <3>1
  <2>2. CASE i <= m /\ j <= m
    BY <1>1, <1>9, <2>1, <2>2 DEF Distinct
  <2>3. CASE ~(i <= m) /\ ~(j <= m)
    <3>1. i - m \in 1 .. n /\ j - m \in 1 .. n /\ t[i - m] = t[j - m]
      BY <2>1, <2>3
    <3>2. i - m = j - m
      BY <1>2, <1>9, <3>1 DEF Distinct
    <3> QED BY <3>2
  <2>4. CASE (i <= m) # (j <= m)
    BY <1>9, <2>1, <2>4
  <2> QED BY <2>2, <2>3, <2>4
<1> QED BY <1>3, <1>6, <1>7, <1>8, <1>9 DEF b

\* A sequence whose members are all in a set is one over that set.
LEMMA SeqOfThese ==
  ASSUME NEW S, NEW s \in Seq(S), NEW R, \A i \in 1 .. Len(s) : s[i] \in R
  PROVE  s \in Seq(R)
<1>1. PICK n \in Nat : n = Len(s)
  BY SeqFacts
<1>2. s = [i \in 1 .. n |-> s[i]]
  BY <1>1
<1>3. \A i \in 1 .. n : s[i] \in R
  BY <1>1
<1>4. [i \in 1 .. n |-> s[i]] \in [1 .. n -> R]
  BY <1>3
<1> QED BY <1>2, <1>4, SeqDef

\* Two sequences with the same members in the same places are one.
LEMMA SameSeq ==
  ASSUME NEW S, NEW R, NEW s \in Seq(S), NEW t \in Seq(R), Len(s) = Len(t),
         \A i \in 1 .. Len(s) : s[i] = t[i]
  PROVE  s = t
BY SeqFacts

\* ExceptSeq of the library, for a length that has a name.
LEMMA ExceptIs ==
  ASSUME NEW S, NEW s \in Seq(S), NEW n \in Nat, n = Len(s), NEW i \in 1 .. n, NEW x \in S
  PROVE  LET t == [s EXCEPT ![i] = x]
         IN  t \in Seq(S) /\ Len(t) = n /\ \A j \in 1 .. n : t[j] = IF j = i THEN x ELSE s[j]
BY ExceptSeq, SeqFacts

-----------------------------------------------------------------------------
(* Vectors *)

\* A vector is ended by a NULL, unless the list itself is NULL.
Vector(v) ==
  /\ v \in Seq(Blocks \cup {NULL})
  /\ v # Str!None => \E i \in 1 .. Len(v) : v[i] = NULL

\* A vector whose strings are those of w.
Ended(v, w) ==
  /\ v \in Seq(Blocks \cup {NULL}) /\ Len(w) < Len(v)
  /\ \A i \in 1 .. Len(w) : v[i] = w[i]
  /\ v[Len(w) + 1] = NULL

\* The length that strListCount finds is the only one it could find.
LEMMA CountIs ==
  ASSUME NEW v, NEW k \in Nat, NEW n \in 0 .. k, Len(v) = k,
         \A i \in 1 .. n : v[i] # NULL, n < k => v[n + 1] = NULL
  PROVE  Str!strListCount(v) = n
<1> DEFINE P(m) == (\A i \in 1 .. m : v[i] # NULL) /\ (m < k => v[m + 1] = NULL)
<1>1. P(n)
  OBVIOUS
<1>2. \A m \in 0 .. k : P(m) => m = n
  <2> SUFFICES ASSUME NEW m \in 0 .. k, P(m) PROVE m = n
    OBVIOUS
  <2>1. CASE m < n
    <3>1. m + 1 \in 1 .. n /\ m < k
      BY <2>1
    <3> QED BY <3>1
  <2>2. CASE n < m
    <3>1. n + 1 \in 1 .. m /\ n < k
      BY <2>2
    <3> QED BY <3>1
  <2> QED BY <2>1, <2>2
<1>3. Str!strListCount(v) = CHOOSE m \in 0 .. k : P(m)
  BY DEF Str!strListCount
<1> HIDE DEF P
<1> QED BY <1>1, <1>2, <1>3

\* What a vector is ended behind is what strListCount and Strings find.
LEMMA EndedIs ==
  ASSUME Str!StrListAssumption, NEW w \in Seq(Blocks), NEW v, Ended(v, w)
  PROVE  Vector(v) /\ Str!strListCount(v) = Len(w) /\ Str!Strings(v) = w
<1>1. PICK n \in Nat : n = Len(w)
  BY SeqFacts
<1>2. v \in Seq(Blocks \cup {NULL})
  BY DEF Ended
<1>3. PICK k \in Nat : k = Len(v)
  BY <1>2, SeqFacts
<1>4. n < k /\ (\A i \in 1 .. n : v[i] = w[i]) /\ v[n + 1] = NULL
  BY <1>1, <1>3 DEF Ended
<1>5. \A i \in 1 .. n : v[i] # NULL
  BY <1>1, <1>4, SeqFacts DEF Str!StrListAssumption
<1>6. Str!strListCount(v) = n
  <2>1. n \in 0 .. k
    BY <1>4
  <2> QED BY <1>3, <1>4, <1>5, <2>1, CountIs
<1>7. Vector(v)
  <2>1. n + 1 \in 1 .. k
    BY <1>4
  <2> QED BY <1>2, <1>3, <1>4, <2>1 DEF Vector
<1>8. Str!Strings(v) = w
  <2> DEFINE b == SubSeq(v, 1, n)
  <2>1. n \in 0 .. Len(v)
    BY <1>3, <1>4
  <2>2. b \in Seq(Blocks \cup {NULL}) /\ Len(b) = n /\ \A i \in 1 .. n : b[i] = v[i]
    BY <1>2, <2>1, HeadPart
  <2> HIDE DEF b
  <2>3. \A i \in 1 .. n : b[i] = w[i]
    BY <1>4, <2>2
  <2>4. b = w
    BY <1>1, <2>2, <2>3, SameSeq
  <2> QED BY <1>6, <2>4 DEF Str!Strings, b
<1> QED BY <1>1, <1>6, <1>7, <1>8

\* Every vector is ended behind its strings, or its list is NULL.
LEMMA VectorFacts ==
  ASSUME Str!StrListAssumption, NEW v, Vector(v)
  PROVE  /\ Str!strListCount(v) \in 0 .. Len(v) /\ Str!strListCount(v) \in Nat /\ Len(v) \in Nat
         /\ Str!Strings(v) \in Seq(Blocks) /\ Len(Str!Strings(v)) = Str!strListCount(v)
         /\ \A i \in 1 .. Str!strListCount(v) :
              i \in 1 .. Len(v) /\ v[i] \in Blocks /\ Str!Strings(v)[i] = v[i]
         /\ v # Str!None => Ended(v, Str!Strings(v))
         /\ v = Str!None => Str!Strings(v) = <<>> /\ Str!strListCount(v) = 0
<1>1. v \in Seq(Blocks \cup {NULL})
  BY DEF Vector
<1>2. PICK k \in Nat : k = Len(v)
  BY <1>1, SeqFacts
<1>3. \A i \in 1 .. k : v[i] \in Blocks \cup {NULL}
  BY <1>1, <1>2, SeqFacts
<1>4. CASE v = Str!None
  <2>1. v = <<>> /\ k = 0
    BY <1>2, <1>4, EmptySeq DEF Str!None
  <2>2. Str!strListCount(v) = 0
    BY <1>2, <2>1, CountIs
  <2>3. Str!Strings(v) = <<>>
    BY <2>1, <2>2, <1>1, HeadPart, SeqFacts, EmptySeq DEF Str!Strings
  <2>4. Str!Strings(v) \in Seq(Blocks) /\ Len(Str!Strings(v)) = 0
    BY <2>3, EmptySeq
  <2> QED BY <1>2, <1>4, <2>1, <2>2, <2>3, <2>4
<1>5. CASE v # Str!None
  <2> DEFINE T == {i \in 1 .. k : v[i] = NULL}
  <2>1. T # {} /\ T \in SUBSET Nat
    BY <1>2, <1>5 DEF Vector
  <2>2. PICK m \in T : \A i \in T : m <= i
    <3> HIDE DEF T
    <3> QED BY <2>1, LeastMember
  <2>3. PICK n \in Nat : n + 1 = m
    <3>1. m \in 1 .. k
      BY <2>2
    <3>2. m - 1 \in Nat /\ m - 1 + 1 = m
      BY <3>1
    <3> QED BY <3>2
  <2>4. n < k /\ v[n + 1] = NULL
    BY <2>2, <2>3
  <2>5. \A i \in 1 .. n : i \in 1 .. k /\ v[i] # NULL
    <3> SUFFICES ASSUME NEW i \in 1 .. n PROVE i \in 1 .. k /\ v[i] # NULL
      OBVIOUS
    <3>1. i \in 1 .. k /\ ~(m <= i)
      BY <2>2, <2>3
    <3> QED BY <2>2, <3>1
  <2>6. Str!strListCount(v) = n
    <3>1. n \in 0 .. k
      BY <2>4
    <3> QED BY <1>2, <2>4, <2>5, <3>1, CountIs
  <2> DEFINE b == SubSeq(v, 1, n)
  <2>7. n \in 0 .. Len(v)
    BY <1>2, <2>4
  <2>8. b \in Seq(Blocks \cup {NULL}) /\ Len(b) = n /\ \A i \in 1 .. n : b[i] = v[i]
    BY <1>1, <2>7, HeadPart
  <2>9. b = Str!Strings(v)
    BY <2>6 DEF Str!Strings
  <2> HIDE DEF b
  <2>10. \A i \in 1 .. n : v[i] \in Blocks
    BY <1>3, <2>5
  <2>11. b \in Seq(Blocks)
    <3>1. \A i \in 1 .. Len(b) : b[i] \in Blocks
      BY <2>8, <2>10
    <3> QED BY <2>8, <3>1, SeqOfThese
  <2>12. Ended(v, b)
    BY <1>1, <1>2, <2>4, <2>8 DEF Ended
  <2> QED BY <1>2, <1>5, <2>5, <2>6, <2>7, <2>8, <2>9, <2>10, <2>11, <2>12
<1> QED BY <1>4, <1>5
-----------------------------------------------------------------------------
(* The strings that stay *)

\* The place that Picked puts a string at is its rank among the places, and each
\* rank is some place's.
LEMMA Ranks ==
  ASSUME NEW n \in Nat, NEW places \in SUBSET (1 .. n)
  PROVE  LET rank == [i \in places |-> Cardinality({k \in places : k <= i})]
         IN  /\ IsFiniteSet(places) /\ Cardinality(places) \in 0 .. n
             /\ rank \in Bijection(places, 1 .. Cardinality(places))
<1> DEFINE upto(i) == {k \in places : k <= i}
           rank == [i \in places |-> Cardinality(upto(i))]
           N == Cardinality(places)
<1>1. IsFiniteSet(places) /\ N \in Nat /\ N \in 0 .. n
  <2>1. IsFiniteSet(1 .. n) /\ Cardinality(1 .. n) = IF 1 > n THEN 0 ELSE n - 1 + 1
    BY FS_Interval
  <2>2. IsFiniteSet(places) /\ N <= Cardinality(1 .. n)
    BY <2>1, FS_Subset
  <2>3. N \in Nat
    BY <2>2, FS_CardinalityType
  <2> HIDE DEF N
  <2>4. Cardinality(1 .. n) = n
    BY <2>1
  <2> QED BY <2>2, <2>3, <2>4
<1>2. \A i \in places : IsFiniteSet(upto(i)) /\ Cardinality(upto(i)) \in 1 .. N
  <2> SUFFICES ASSUME NEW i \in places PROVE IsFiniteSet(upto(i)) /\ Cardinality(upto(i)) \in 1 .. N
    OBVIOUS
  <2>1. IsFiniteSet(upto(i)) /\ Cardinality(upto(i)) <= N /\ Cardinality(upto(i)) \in Nat
    BY <1>1, FS_Subset, FS_CardinalityType
  <2>2. i \in upto(i)
    OBVIOUS
  <2>3. Cardinality(upto(i)) # 0
    BY <2>1, <2>2, FS_EmptySet
  <2> HIDE DEF upto, N
  <2> QED BY <1>1, <2>1, <2>3
<1>3. \A i, j \in places : i < j => Cardinality(upto(i)) < Cardinality(upto(j))
  <2> SUFFICES ASSUME NEW i \in places, NEW j \in places, i < j
               PROVE  Cardinality(upto(i)) < Cardinality(upto(j))
    OBVIOUS
  <2>1. IsFiniteSet(upto(i)) /\ IsFiniteSet(upto(j))
        /\ Cardinality(upto(i)) \in Nat /\ Cardinality(upto(j)) \in Nat
    BY <1>2, FS_CardinalityType
  <2>2. \A k \in upto(i) : k \in upto(j)
    OBVIOUS
  <2>3. j \in upto(j) /\ ~(j \in upto(i))
    OBVIOUS
  <2> HIDE DEF upto
  <2>4. upto(i) \in SUBSET upto(j) /\ upto(i) # upto(j)
    BY <2>2, <2>3
  <2>5. Cardinality(upto(i)) <= Cardinality(upto(j)) /\ Cardinality(upto(i)) # Cardinality(upto(j))
    BY <2>1, <2>4, FS_Subset
  <2> QED BY <2>1, <2>5
<1>4. \A i, j \in places : rank[i] = rank[j] => i = j
  <2> SUFFICES ASSUME NEW i \in places, NEW j \in places, Cardinality(upto(i)) = Cardinality(upto(j))
               PROVE  i = j
    OBVIOUS
  <2>1. Cardinality(upto(i)) \in Nat /\ Cardinality(upto(j)) \in Nat /\ i \in Nat /\ j \in Nat
    BY <1>2, FS_CardinalityType
  <2>2. ~(i < j) /\ ~(j < i)
    <3> HIDE DEF upto
    <3> QED BY <1>3, <2>1
  <2> QED BY <2>1, <2>2
<1>5. rank \in [places -> 1 .. N]
  <2> HIDE DEF upto, N
  <2> QED BY <1>2
<1>6. IsFiniteSet(1 .. N) /\ Cardinality(1 .. N) = N
  <2> HIDE DEF N
  <2>1. IsFiniteSet(1 .. N) /\ Cardinality(1 .. N) = IF 1 > N THEN 0 ELSE N - 1 + 1
    BY <1>1, FS_Interval
  <2> QED BY <1>1, <2>1
<1> HIDE DEF rank, upto
<1>7. rank \in Injection(places, 1 .. N)
  BY <1>4, <1>5, Fun_IsInj
<1>8. rank \in Surjection(places, 1 .. N)
  BY <1>1, <1>6, <1>7, FS_Injection
<1>9. rank \in Bijection(places, 1 .. N)
  BY <1>7, <1>8 DEF Bijection
<1> QED BY <1>1, <1>9 DEF rank, upto

\* The strings at some places, and none of them twice if none was there twice.
LEMMA PickedIs ==
  ASSUME NEW s \in Seq(Blocks), NEW places \in SUBSET DOMAIN s
  PROVE  /\ Str!Picked(s, places) \in Seq(Blocks) /\ Len(Str!Picked(s, places)) \in 0 .. Len(s)
         /\ Els(Str!Picked(s, places)) = {s[i] : i \in places}
         /\ Distinct(s) => Distinct(Str!Picked(s, places))
<1> DEFINE rank == [i \in places |-> Str!Cardinality({k \in places : k <= i})]
           N == Str!Cardinality(places)
           nth(j) == CHOOSE i \in places : Str!Cardinality({k \in places : k <= i}) = j
           p == [j \in 1 .. N |-> s[nth(j)]]
<1>1. Len(s) \in Nat /\ places \in SUBSET (1 .. Len(s))
  BY SeqFacts
<1>2. N \in Nat /\ N \in 0 .. Len(s) /\ rank \in Bijection(places, 1 .. N)
  <2> DEFINE ranked == [i \in places |-> Cardinality({k \in places : k <= i})]
  <2>1. Cardinality(places) \in 0 .. Len(s) /\ ranked \in Bijection(places, 1 .. Cardinality(places))
    BY <1>1, Ranks
  <2>2. N = Cardinality(places) /\ rank = ranked
    BY StrSets
  <2> HIDE DEF N, rank, ranked
  <2> QED BY <1>1, <2>1, <2>2
<1>3. /\ rank \in [places -> 1 .. N]
      /\ \A j \in 1 .. N : \E i \in places : rank[i] = j
      /\ \A i, j \in places : rank[i] = rank[j] => i = j
  <2> HIDE DEF rank, N
  <2>1. rank \in Injection(places, 1 .. N) /\ rank \in Surjection(places, 1 .. N)
    BY <1>2 DEF Bijection
  <2> QED BY <2>1 DEF Injection, IsInjective, Surjection
<1>4. \A j \in 1 .. N : nth(j) \in places /\ rank[nth(j)] = j
  <2> SUFFICES ASSUME NEW j \in 1 .. N PROVE nth(j) \in places /\ rank[nth(j)] = j
    OBVIOUS
  <2>1. \E i \in places : Str!Cardinality({k \in places : k <= i}) = j
    BY <1>3
  <2>2. nth(j) \in places /\ Str!Cardinality({k \in places : k <= nth(j)}) = j
    BY <2>1
  <2> QED BY <2>2
<1>5. \A i \in places : rank[i] \in 1 .. N /\ nth(rank[i]) = i
  <2> HIDE DEF nth, rank, N
  <2> QED BY <1>3, <1>4
<1>6. Str!Picked(s, places) = p
  BY DEF Str!Picked
<1>7. \A i \in places : s[i] \in Blocks
  BY SeqFacts
<1> HIDE DEF nth, rank, N
<1>8. p \in Seq(Blocks) /\ Len(p) = N
  <2>1. p \in [1 .. N -> Blocks]
    BY <1>4, <1>7
  <2> HIDE DEF p
  <2>2. p \in Seq(Blocks)
    BY <1>2, <2>1, SeqDef
  <2>3. DOMAIN p = 1 .. N /\ DOMAIN p = 1 .. Len(p) /\ Len(p) \in Nat
    BY <2>1, <2>2, SeqFacts
  <2>4. Len(p) = N
    BY <1>2, <2>3
  <2> QED BY <2>2, <2>4
<1>9. \A j \in 1 .. N : p[j] = s[nth(j)]
  OBVIOUS
<1> HIDE DEF p
<1>10. Els(p) = {s[i] : i \in places}
  <2>1. \A b \in Els(p) : b \in {s[i] : i \in places}
    BY <1>4, <1>8, <1>9 DEF Els
  <2>2. \A i \in places : s[i] \in Els(p)
    BY <1>5, <1>8, <1>9 DEF Els
  <2> QED BY <2>1, <2>2
<1>11. ASSUME Distinct(s) PROVE Distinct(p)
  <2> SUFFICES ASSUME NEW i \in 1 .. N, NEW j \in 1 .. N, s[nth(i)] = s[nth(j)] PROVE i = j
    BY <1>8, <1>9 DEF Distinct
  <2>1. nth(i) \in 1 .. Len(s) /\ nth(j) \in 1 .. Len(s)
    BY <1>1, <1>4
  <2>2. nth(i) = nth(j)
    BY <1>11, <2>1 DEF Distinct
  <2> QED BY <1>4, <2>2
<1> QED BY <1>2, <1>6, <1>8, <1>10, <1>11
-----------------------------------------------------------------------------
(* The inductive invariant *)

InUse == Lists \ retired
Shown(v) == Els(Str!Strings(v))

StrTypes ==
  /\ DOMAIN vec = Lists /\ vec = [l \in Lists |-> vec[l]] /\ \A l \in Lists : Vector(vec[l])
  /\ told \in [Blocks -> Phrases \cup {NULL}]
  /\ held \subseteq Blocks
  /\ retired \subseteq Lists /\ \A l \in retired : vec[l] # Str!None

\* What is allocated has one owner: the caller, or one place of one list.
StrOwners ==
  /\ \A l \in InUse : Distinct(Str!Strings(vec[l])) /\ Shown(vec[l]) \cap held = {}
  /\ \A l, m \in InUse : l # m => Shown(vec[l]) \cap Shown(vec[m]) = {}
  /\ \A b \in Blocks : told[b] # NULL <=> b \in held \/ \E l \in InUse : b \in Shown(vec[l])

StrInv == StrTypes /\ StrOwners

\* What a list in use shows is allocated and is in no other hands.
LEMMA ShownFacts ==
  ASSUME Str!StrListAssumption, StrInv, NEW l \in Lists
  PROVE  /\ Vector(vec[l]) /\ Str!Strings(vec[l]) \in Seq(Blocks) /\ Shown(vec[l]) \subseteq Blocks
         /\ l \in InUse => \A b \in Shown(vec[l]) : told[b] # NULL
<1>1. Vector(vec[l])
  BY DEF StrInv, StrTypes
<1>2. Str!Strings(vec[l]) \in Seq(Blocks)
  BY <1>1, VectorFacts
<1>3. Shown(vec[l]) \subseteq Blocks
  BY <1>2, SeqFacts DEF Shown, Els
<1> QED BY <1>1, <1>2, <1>3 DEF StrInv, StrOwners

\* One list in use is given a vector of the strings w; the strings that come to it
\* or go from it were its own, the caller's or free.
LEMMA ListChange ==
  ASSUME Str!StrListAssumption, StrInv, NEW l \in Lists \ retired,
         NEW v, NEW w \in Seq(Blocks), Vector(v), Str!Strings(v) = w, Distinct(w),
         vec' = [vec EXCEPT ![l] = v], retired' = retired,
         told' \in [Blocks -> Phrases \cup {NULL}],
         LET mine == Shown(vec[l]) \cup held \cup Str!Free
         IN  /\ Els(w) \subseteq mine /\ held' \subseteq mine /\ Els(w) \cap held' = {}
             /\ \A b \in mine : told'[b] # NULL <=> b \in Els(w) \cup held'
             /\ \A b \in Blocks \ mine : told'[b] = told[b]
  PROVE  StrInv'
<1> DEFINE mine == Shown(vec[l]) \cup held \cup Str!Free
<1>1. /\ Els(w) \subseteq mine /\ held' \subseteq mine /\ Els(w) \cap held' = {}
      /\ \A b \in mine : told'[b] # NULL <=> b \in Els(w) \cup held'
      /\ \A b \in Blocks \ mine : told'[b] = told[b]
  OBVIOUS
<1>2. mine \subseteq Blocks /\ \A b \in Shown(vec[l]) \cup held : told[b] # NULL
  BY ShownFacts DEF StrInv, StrTypes, StrOwners, InUse, Str!Free
<1>3. /\ vec'[l] = v /\ DOMAIN vec' = Lists /\ vec' = [m \in Lists |-> vec'[m]]
      /\ \A m \in Lists \ {l} : vec'[m] = vec[m]
  BY DEF StrInv, StrTypes
<1>4. InUse' = InUse /\ l \in InUse
  BY DEF InUse
<1>5. Shown(vec'[l]) = Els(w) /\ \A m \in Lists \ {l} : Shown(vec'[m]) = Shown(vec[m])
  BY <1>3 DEF Shown
\* What the others show is none of this list's.
<1>6. \A m \in InUse \ {l} : Shown(vec[m]) \cap mine = {}
  <2> SUFFICES ASSUME NEW m \in InUse \ {l} PROVE Shown(vec[m]) \cap mine = {}
    OBVIOUS
  <2>1. Shown(vec[m]) \cap Shown(vec[l]) = {} /\ Shown(vec[m]) \cap held = {}
    BY <1>4 DEF StrInv, StrOwners
  <2>2. m \in Lists /\ \A b \in Shown(vec[m]) : told[b] # NULL
    BY ShownFacts DEF InUse
  <2> QED BY <2>1, <2>2 DEF Str!Free
<1>7. StrTypes'
  <2>1. \A m \in Lists : Vector(vec'[m])
    BY <1>3 DEF StrInv, StrTypes
  <2>2. held' \subseteq Blocks /\ retired' \subseteq Lists /\ \A m \in retired' : vec'[m] # Str!None
    BY <1>1, <1>2, <1>3 DEF StrInv, StrTypes
  <2> QED BY <1>3, <2>1, <2>2 DEF StrTypes
<1>8. \A m \in InUse' : Distinct(Str!Strings(vec'[m])) /\ Shown(vec'[m]) \cap held' = {}
  <2> SUFFICES ASSUME NEW m \in InUse PROVE Distinct(Str!Strings(vec'[m])) /\ Shown(vec'[m]) \cap held' = {}
    BY <1>4
  <2>1. CASE m = l
    BY <1>1, <1>3, <1>5, <2>1
  <2>2. CASE m # l
    <3>1. m \in Lists /\ Distinct(Str!Strings(vec[m])) /\ vec'[m] = vec[m]
      BY <1>3, <2>2 DEF StrInv, StrOwners, InUse
    <3>2. Shown(vec'[m]) \cap mine = {}
      BY <1>6, <2>2, <3>1
    <3> QED BY <1>1, <3>1, <3>2
  <2> QED BY <2>1, <2>2
<1>9. \A k, m \in InUse' : k # m => Shown(vec'[k]) \cap Shown(vec'[m]) = {}
  <2>1. \A m \in InUse \ {l} : Shown(vec'[m]) = Shown(vec[m]) /\ Shown(vec'[m]) \cap Els(w) = {}
    <3> HIDE DEF mine
    <3> QED BY <1>1, <1>5, <1>6 DEF InUse
  <2>2. \A k, m \in InUse \ {l} : k # m => Shown(vec'[k]) \cap Shown(vec'[m]) = {}
    BY <2>1 DEF StrInv, StrOwners
  <2> SUFFICES ASSUME NEW k \in InUse, NEW m \in InUse, k # m
               PROVE  Shown(vec'[k]) \cap Shown(vec'[m]) = {}
    BY <1>4
  <2>3. CASE k = l
    BY <1>5, <2>1, <2>3
  <2>4. CASE m = l
    BY <1>5, <2>1, <2>4
  <2> QED BY <2>2, <2>3, <2>4
<1>10. ASSUME NEW b \in Blocks
       PROVE  told'[b] # NULL <=> b \in held' \/ \E m \in InUse' : b \in Shown(vec'[m])
  <2>1. CASE b \in mine
    <3>1. (\E m \in InUse' : b \in Shown(vec'[m])) <=> b \in Els(w)
      <4>1. \A m \in InUse \ {l} : b \notin Shown(vec'[m])
        BY <1>5, <1>6, <2>1 DEF InUse
      <4> QED BY <1>4, <1>5, <4>1
    <3> QED BY <1>1, <2>1, <3>1
  <2>2. CASE b \notin mine
    <3>1. b \notin held' /\ b \notin Els(w) /\ told'[b] = told[b] /\ b \notin held /\ b \notin Shown(vec[l])
      BY <1>1, <2>2
    <3>2. (\E m \in InUse' : b \in Shown(vec'[m])) <=> \E m \in InUse : b \in Shown(vec[m])
      BY <1>4, <1>5, <3>1 DEF InUse
    <3>3. told[b] # NULL <=> \E m \in InUse : b \in Shown(vec[m])
      BY <3>1 DEF StrInv, StrOwners
    <3> QED BY <3>1, <3>2, <3>3
  <2> QED BY <2>1, <2>2
<1>11. StrOwners'
  BY <1>8, <1>9, <1>10 DEF StrOwners
<1> QED BY <1>7, <1>11 DEF StrInv

\* Only the caller's strings change: those it has, or that it allocates or frees.
LEMMA HeldChange ==
  ASSUME Str!StrListAssumption, StrInv, UNCHANGED <<vec, retired>>,
         told' \in [Blocks -> Phrases \cup {NULL}],
         held' \subseteq held \cup Str!Free,
         \A b \in held \cup Str!Free : told'[b] # NULL <=> b \in held',
         \A b \in Blocks \ (held \cup Str!Free) : told'[b] = told[b]
  PROVE  StrInv'
<1>1. InUse' = InUse /\ vec' = vec /\ retired' = retired
  BY DEF InUse
<1>2. \A l \in InUse : Distinct(Str!Strings(vec[l])) /\ Shown(vec[l]) \cap (held \cup Str!Free) = {}
  <2> SUFFICES ASSUME NEW l \in InUse
               PROVE  Distinct(Str!Strings(vec[l])) /\ Shown(vec[l]) \cap (held \cup Str!Free) = {}
    OBVIOUS
  <2>1. l \in Lists /\ \A b \in Shown(vec[l]) : told[b] # NULL
    BY ShownFacts DEF InUse
  <2> QED BY <2>1 DEF StrInv, StrOwners, Str!Free
<1>3. held \cup Str!Free \subseteq Blocks
  BY DEF StrInv, StrTypes, Str!Free
<1>4. StrTypes'
  BY <1>1, <1>3 DEF StrInv, StrTypes
<1>5. \A l \in InUse' : Distinct(Str!Strings(vec'[l])) /\ Shown(vec'[l]) \cap held' = {}
  BY <1>1, <1>2
<1>6. \A l, m \in InUse' : l # m => Shown(vec'[l]) \cap Shown(vec'[m]) = {}
  BY <1>1 DEF StrInv, StrOwners
<1>7. ASSUME NEW b \in Blocks
      PROVE  told'[b] # NULL <=> b \in held' \/ \E l \in InUse' : b \in Shown(vec'[l])
  <2>1. CASE b \in held \cup Str!Free
    BY <1>1, <1>2, <2>1
  <2>2. CASE b \notin held \cup Str!Free
    <3>1. told'[b] = told[b] /\ b \notin held' /\ b \notin held
      BY <2>2
    <3> QED BY <1>1, <3>1 DEF StrInv, StrOwners
  <2> QED BY <2>1, <2>2
<1>8. StrOwners'
  BY <1>5, <1>6, <1>7 DEF StrOwners
<1> QED BY <1>4, <1>8 DEF StrInv

Said(texts, bs, b) == texts[CHOOSE i \in DOMAIN bs : bs[i] = b]

\* What is allocated and written: blocks that were free, each once.
LEMMA WrittenIs ==
  ASSUME Str!StrListAssumption, StrInv, NEW texts \in Seq(Phrases), NEW A \in SUBSET Blocks, NEW bs,
         \E k \in 0 .. Len(texts) : bs \in [1 .. k -> A] /\ Str!IsInjective(bs)
  PROVE  /\ bs \in Seq(Blocks) /\ Len(bs) <= Len(texts) /\ Distinct(bs) /\ Els(bs) \subseteq A
         /\ Els(bs) = Str!Range(bs) /\ \A b \in Els(bs) : Said(texts, bs, b) \in Phrases
<1>0. PICK k \in 0 .. Len(texts) : bs \in [1 .. k -> A] /\ Str!IsInjective(bs)
  OBVIOUS
<1>1. PICK n \in Nat : n = Len(texts)
  BY SeqFacts
<1>2. k \in Nat /\ \A i \in 1 .. k : i \in 1 .. n
  BY <1>1
<1>3. bs \in [1 .. k -> Blocks]
  BY <1>0
<1>4. bs \in Seq(Blocks)
  BY <1>2, <1>3, SeqDef
<1>5. Len(bs) = k
  <2>1. DOMAIN bs = 1 .. k /\ DOMAIN bs = 1 .. Len(bs) /\ Len(bs) \in Nat
    BY <1>3, <1>4, SeqFacts
  <2> QED BY <1>2, <2>1
<1>6. Distinct(bs)
  BY <1>0, <1>5 DEF Str!IsInjective, Distinct
<1>7. Els(bs) \subseteq A
  BY <1>0, <1>5 DEF Els
<1>8. Els(bs) = Str!Range(bs)
  BY <1>4, RangeIsEls
<1>9. \A b \in Els(bs) : Said(texts, bs, b) \in Phrases
  <2> SUFFICES ASSUME NEW b \in Str!Range(bs) PROVE texts[CHOOSE i \in DOMAIN bs : bs[i] = b] \in Phrases
    BY <1>8 DEF Said
  <2>1. (CHOOSE i \in DOMAIN bs : bs[i] = b) \in 1 .. k
    BY <1>0 DEF Str!Range
  <2> QED BY <1>1, <1>2, <2>1, SeqFacts
<1>10. Len(bs) <= Len(texts)
  BY <1>1, <1>5
<1> QED BY <1>4, <1>6, <1>7, <1>8, <1>9, <1>10

\* What Allocations and Written do together: free blocks, each once, that say something.
LEMMA AllocatedIs ==
  ASSUME Str!StrListAssumption, StrInv, NEW texts \in Seq(Phrases),
         NEW bs \in Str!Allocations(texts), Str!Written(texts, bs)
  PROVE  /\ bs \in Seq(Blocks) /\ Distinct(bs) /\ Els(bs) \subseteq Str!Free
         /\ told' \in [Blocks -> Phrases \cup {NULL}]
         /\ \A b \in Els(bs) : told'[b] # NULL
         /\ \A b \in Blocks \ Els(bs) : told'[b] = told[b]
<1>1. \E k \in 0 .. Len(texts) : bs \in [1 .. k -> Str!Free] /\ Str!IsInjective(bs)
  BY DEF Str!Allocations
<1>2. Str!Free \in SUBSET Blocks
  BY DEF Str!Free
<1>3. /\ bs \in Seq(Blocks) /\ Distinct(bs) /\ Els(bs) \subseteq Str!Free /\ Els(bs) = Str!Range(bs)
      /\ \A b \in Els(bs) : Said(texts, bs, b) \in Phrases
  BY <1>1, <1>2, WrittenIs
<1>4. told' = [b \in Blocks |-> IF b \in Els(bs) THEN Said(texts, bs, b) ELSE told[b]]
  BY <1>3 DEF Str!Written, Said
<1>5. \A b \in Els(bs) : Said(texts, bs, b) \in Phrases
  BY <1>3
<1>6. \A b \in Blocks : told[b] \in Phrases \cup {NULL}
  BY DEF StrInv, StrTypes
<1>7. told' \in [Blocks -> Phrases \cup {NULL}]
  BY <1>4, <1>5, <1>6
<1>8. \A b \in Els(bs) : b \in Blocks /\ told'[b] # NULL
  BY <1>2, <1>3, <1>4, <1>5 DEF Str!StrListAssumption
<1>9. \A b \in Blocks \ Els(bs) : told'[b] = told[b]
  BY <1>4
<1> QED BY <1>3, <1>7, <1>8, <1>9

\* What is freed.
LEMMA FreedIs ==
  ASSUME Str!StrListAssumption, StrInv, NEW gone, Str!strListFreeString(gone)
  PROVE  /\ told' \in [Blocks -> Phrases \cup {NULL}]
         /\ \A b \in Blocks : told'[b] = IF b \in gone THEN NULL ELSE told[b]
BY DEF Str!strListFreeString, StrInv, StrTypes
-----------------------------------------------------------------------------
(* What the operations make of a vector *)

\* A vector that is reallocated to what its strings need.
LEMMA TerminatedIs ==
  ASSUME Str!StrListAssumption, NEW w \in Seq(Blocks)
  PROVE  Vector(Str!Terminated(w)) /\ Str!Strings(Str!Terminated(w)) = w
<1>1. PICK n \in Nat : n = Len(w)
  BY SeqFacts
<1> DEFINE v == Append(w, NULL)
<1>2. w \in Seq(Blocks \cup {NULL})
  BY SeqMonotonic
<1>3. /\ v \in Seq(Blocks \cup {NULL}) /\ Len(v) = Len(w) + 1
      /\ \A i \in 1 .. Len(w) : v[i] = w[i]
      /\ v[Len(w) + 1] = NULL
  BY <1>2, AppendProperties
<1> HIDE DEF v
<1>4. Ended(v, w)
  BY <1>1, <1>3 DEF Ended
<1> QED BY <1>4, EndedIs DEF Str!Terminated, v

\* The sequence without a piece: the two parts behind each other.
CutOut(s, p, q) == SubSeq(s, 1, p) \o SubSeq(s, q + 1, Len(s))
Piece(s, p, q) == {s[i] : i \in (p + 1) .. q}

\* Nothing is lost by a cut but the piece.
LEMMA CutOutIs ==
  ASSUME NEW s \in Seq(Blocks), NEW q \in 0 .. Len(s), NEW p \in 0 .. q, Distinct(s)
  PROVE  /\ CutOut(s, p, q) \in Seq(Blocks) /\ Distinct(CutOut(s, p, q))
         /\ Len(CutOut(s, p, q)) = p + (Len(s) - q)
         /\ \A i \in 1 .. p + (Len(s) - q) :
              CutOut(s, p, q)[i] = IF i <= p THEN s[i] ELSE s[i + (q - p)]
         /\ Els(s) = Els(CutOut(s, p, q)) \cup Piece(s, p, q)
         /\ Els(CutOut(s, p, q)) \cap Piece(s, p, q) = {}
<1> DEFINE a == SubSeq(s, 1, p)
           z == SubSeq(s, q + 1, Len(s))
           c == a \o z
<1>1. PICK n \in Nat : n = Len(s)
  BY SeqFacts
<1>2. q \in Nat /\ p \in Nat /\ p <= q /\ q <= n
  BY <1>1
<1>3. a \in Seq(Blocks) /\ Len(a) = p /\ \A i \in 1 .. p : i \in 1 .. n /\ a[i] = s[i]
  <2>1. p \in 0 .. Len(s)
    BY <1>1, <1>2
  <2> QED BY <1>1, <2>1, HeadPart
<1>4. z \in Seq(Blocks) /\ Len(z) = n - q /\ \A i \in 1 .. (n - q) : q + i \in 1 .. n /\ z[i] = s[q + i]
  <2>1. Len(s) \in 0 .. Len(s) /\ q \in 0 .. Len(s)
    BY <1>1, <1>2
  <2> QED BY <1>1, <2>1, PartIs
<1>5. c = CutOut(s, p, q)
  BY DEF CutOut
<1> HIDE DEF a, z
<1>6. /\ c \in Seq(Blocks) /\ Len(c) = Len(a) + Len(z)
      /\ \A i \in 1 .. (Len(a) + Len(z)) : c[i] = IF i <= Len(a) THEN a[i] ELSE z[i - Len(a)]
      /\ Els(c) = Els(a) \cup Els(z)
  BY <1>3, <1>4, ConcatProperties, BothEls
<1>7. Els(a) = {s[i] : i \in 1 .. p} /\ Els(z) = {s[i] : i \in (q + 1) .. n}
  <2>1. Els(a) = {s[i] : i \in 1 .. p}
    BY <1>3 DEF Els
  <2>2. \A x \in Els(z) : x \in {s[i] : i \in (q + 1) .. n}
    <3>1. Els(z) = {z[i] : i \in 1 .. (n - q)}
      BY <1>4 DEF Els
    <3> SUFFICES ASSUME NEW i \in 1 .. (n - q) PROVE z[i] \in {s[j] : j \in (q + 1) .. n}
      BY <3>1
    <3>2. q + i \in (q + 1) .. n /\ z[i] = s[q + i]
      BY <1>2, <1>4
    <3> QED BY <3>2
  <2>3. \A i \in (q + 1) .. n : s[i] \in Els(z)
    <3> SUFFICES ASSUME NEW i \in (q + 1) .. n PROVE s[i] \in Els(z)
      OBVIOUS
    <3>1. i - q \in 1 .. (n - q) /\ q + (i - q) = i
      BY <1>2
    <3>2. z[i - q] = s[i]
      BY <1>4, <3>1
    <3> QED BY <1>4, <3>1, <3>2 DEF Els
  <2> QED BY <2>1, <2>2, <2>3
<1>8. Len(c) = p + (n - q)
  BY <1>3, <1>4, <1>6
<1>9. \A i \in 1 .. p + (n - q) : c[i] = IF i <= p THEN s[i] ELSE s[i + (q - p)]
  <2> SUFFICES ASSUME NEW i \in 1 .. p + (n - q) PROVE c[i] = IF i <= p THEN s[i] ELSE s[i + (q - p)]
    OBVIOUS
  <2>1. c[i] = IF i <= p THEN a[i] ELSE z[i - p]
    BY <1>3, <1>4, <1>6
  <2>2. (i <= p => i \in 1 .. p) /\ (~(i <= p) => i - p \in 1 .. (n - q) /\ q + (i - p) = i + (q - p))
    BY <1>2
  <2> QED BY <1>3, <1>4, <2>1, <2>2
<1>10. Els(s) = Els(c) \cup Piece(s, p, q)
  <2>1. Els(s) = {s[i] : i \in 1 .. n}
    BY <1>1 DEF Els
  <2>2. \A i \in 1 .. n : i \in 1 .. p \/ i \in (q + 1) .. n \/ i \in (p + 1) .. q
    BY <1>2
  <2>3. \A x \in Els(s) : x \in Els(c) \cup Piece(s, p, q)
    BY <1>6, <1>7, <2>1, <2>2 DEF Piece
  <2>4. \A i : i \in 1 .. p \/ i \in (q + 1) .. n \/ i \in (p + 1) .. q => i \in 1 .. n
    BY <1>2
  <2>5. \A x \in Els(c) \cup Piece(s, p, q) : x \in Els(s)
    BY <1>6, <1>7, <2>1, <2>4 DEF Piece
  <2> QED BY <2>3, <2>5
<1>11. \A i, j \in 1 .. n : s[i] = s[j] => i = j
  BY <1>1 DEF Distinct
<1>12. Els(c) \cap Piece(s, p, q) = {}
  <2> SUFFICES ASSUME NEW i, i \in 1 .. p \/ i \in (q + 1) .. n, NEW j \in (p + 1) .. q, s[i] = s[j]
               PROVE  FALSE
    BY <1>6, <1>7 DEF Piece
  <2>1. i \in 1 .. n /\ j \in 1 .. n /\ i # j
    BY <1>2
  <2> QED BY <1>11, <2>1
<1>13. Distinct(c)
  <2>1. Distinct(a)
    BY <1>3, <1>11 DEF Distinct
  <2>2. Distinct(z)
    <3> SUFFICES ASSUME NEW i \in 1 .. (n - q), NEW j \in 1 .. (n - q), z[i] = z[j] PROVE i = j
      BY <1>4 DEF Distinct
    <3>1. q + i = q + j
      BY <1>4, <1>11
    <3> QED BY <1>2, <3>1
  <2>3. Els(a) \cap Els(z) = {}
    <3> SUFFICES ASSUME NEW i \in 1 .. p, NEW j \in (q + 1) .. n, s[i] = s[j] PROVE FALSE
      BY <1>7
    <3>1. i \in 1 .. n /\ j \in 1 .. n /\ i # j
      BY <1>2
    <3> QED BY <1>11, <3>1
  <2> QED BY <1>3, <1>4, <2>1, <2>2, <2>3, BothEls
<1> HIDE DEF c
<1> QED BY <1>1, <1>5, <1>6, <1>8, <1>9, <1>10, <1>12, <1>13

\* RemoveAt is a CutOut of one place.
LEMMA WithoutIs ==
  ASSUME Str!StrListAssumption, NEW v, Vector(v), Distinct(Str!Strings(v)),
         NEW index \in Nat, index < Str!strListCount(v)
  PROVE  /\ Vector(Str!Without(v, index)) /\ Str!Strings(Str!Without(v, index)) \in Seq(Blocks)
         /\ Distinct(Str!Strings(Str!Without(v, index)))
         /\ v[index + 1] \in Shown(v)
         /\ Shown(Str!Without(v, index)) = Shown(v) \ {v[index + 1]}
<1> DEFINE s == Str!Strings(v)
           w == CutOut(s, index, index + 1)
<1>1. PICK n \in Nat : n = Str!strListCount(v)
  BY VectorFacts
<1>2. s \in Seq(Blocks) /\ Len(s) = n /\ \A i \in 1 .. n : s[i] = v[i]
  BY <1>1, VectorFacts
<1> HIDE DEF s
<1>3. index + 1 \in 0 .. n /\ index \in 0 .. (index + 1) /\ index + 1 \in 1 .. n
      /\ index = index + 1 - 1 /\ (index + 1) .. (index + 1) = {index + 1}
  BY <1>1
<1>4. Str!Terminated(w) = Str!Without(v, index)
  BY <1>3 DEF Str!Without, Str!RemoveAt, CutOut, s
<1>5. /\ w \in Seq(Blocks) /\ Distinct(w) /\ Els(s) = Els(w) \cup Piece(s, index, index + 1)
      /\ Els(w) \cap Piece(s, index, index + 1) = {}
  BY <1>2, <1>3, CutOutIs DEF s
<1>6. Piece(s, index, index + 1) = {v[index + 1]}
  BY <1>2, <1>3 DEF Piece
<1> HIDE DEF w
<1>7. Vector(Str!Terminated(w)) /\ Str!Strings(Str!Terminated(w)) = w
  BY <1>5, TerminatedIs
<1>8. Shown(v) = Els(s) /\ Shown(Str!Without(v, index)) = Els(w)
  BY <1>4, <1>7 DEF Shown, s
<1>9. Els(w) = Els(s) \ {v[index + 1]} /\ v[index + 1] \in Els(s)
  BY <1>5, <1>6
<1> QED BY <1>4, <1>5, <1>7, <1>8, <1>9

\* What strListFastRemove leaves behind the NULL is not shown.
LEMMA FastRemoveIs ==
  ASSUME Str!StrListAssumption, NEW v, Vector(v), v # Str!None, Distinct(Str!Strings(v)),
         NEW index \in Nat, NEW count \in Nat, index + count <= Str!strListCount(v)
  PROVE  LET f == Str!strListFastRemove(v, index, count)
             gone == Str!Range(SubSeq(v, index + 1, index + count))
         IN  /\ Vector(f) /\ Str!Strings(f) \in Seq(Blocks) /\ Distinct(Str!Strings(f))
             /\ gone \subseteq Shown(v) /\ Shown(f) = Shown(v) \ gone
<1> DEFINE s == Str!Strings(v)
           f == Str!strListFastRemove(v, index, count)
           w == CutOut(s, index, index + count)
           b == SubSeq(v, index + 1, index + count)
<1>1. PICK n \in Nat : n = Str!strListCount(v)
  BY VectorFacts
<1>2. s \in Seq(Blocks) /\ Len(s) = n /\ Ended(v, s)
  BY <1>1, VectorFacts
<1> HIDE DEF s
<1>3. PICK k \in Nat : k = Len(v)
  BY VectorFacts
<1>4. /\ v \in Seq(Blocks \cup {NULL}) /\ n < k
      /\ \A i \in 1 .. n : v[i] = s[i]
      /\ v[n + 1] = NULL
  BY <1>2, <1>3 DEF Ended
<1>5. index + count \in 0 .. n /\ index \in 0 .. (index + count)
  BY <1>1
<1>6. /\ w \in Seq(Blocks) /\ Distinct(w) /\ Len(w) = index + (Len(s) - (index + count))
      /\ \A i \in 1 .. index + (Len(s) - (index + count)) :
           w[i] = IF i <= index THEN s[i] ELSE s[i + ((index + count) - index)]
      /\ Els(s) = Els(w) \cup Piece(s, index, index + count)
      /\ Els(w) \cap Piece(s, index, index + count) = {}
  BY <1>2, <1>5, CutOutIs DEF s
<1> HIDE DEF w
<1>7. /\ Len(w) = n - count
      /\ \A i \in 1 .. (n - count) : w[i] = IF i <= index THEN s[i] ELSE s[i + count]
  <2>1. index + (n - (index + count)) = n - count /\ (index + count) - index = count
    BY <1>1
  <2> QED BY <1>2, <1>6, <2>1
<1>8. f = [j \in 1 .. k |-> IF index < j /\ j <= n - count + 1 THEN v[j + count] ELSE v[j]]
  BY <1>1, <1>3, <1>4, SeqFacts DEF Str!strListFastRemove
<1> HIDE DEF f
<1>9. f \in Seq(Blocks \cup {NULL}) /\ Len(f) = k
  <2>1. \A j \in 1 .. k : v[j] \in Blocks \cup {NULL}
    BY <1>3, <1>4, SeqFacts
  <2>2. \A j \in 1 .. k : j <= n - count + 1 => j + count \in 1 .. k
    BY <1>1, <1>4
  <2>3. f \in [1 .. k -> Blocks \cup {NULL}]
    BY <1>8, <2>1, <2>2
  <2>4. f \in Seq(Blocks \cup {NULL})
    BY <2>3, SeqDef
  <2>5. DOMAIN f = 1 .. Len(f) /\ Len(f) \in Nat /\ DOMAIN f = 1 .. k
    BY <2>3, <2>4, SeqFacts
  <2>6. \A a, c \in Nat : 1 .. a = 1 .. c => a = c
    OBVIOUS
  <2>7. 1 .. Len(f) = 1 .. k
    BY <2>5
  <2>8. Len(f) = k
    BY <1>3, <2>5, <2>6, <2>7
  <2> QED BY <2>4, <2>8
<1>10. \A i \in 1 .. (n - count) : f[i] = w[i]
  <2> SUFFICES ASSUME NEW i \in 1 .. (n - count) PROVE f[i] = w[i]
    OBVIOUS
  <2>1. i \in 1 .. k /\ i \in 1 .. n /\ i + count \in 1 .. n /\ i <= n - count + 1
        /\ (index < i <=> ~(i <= index))
    BY <1>1, <1>4
  <2> QED BY <1>4, <1>7, <1>8, <2>1
<1>11. f[n - count + 1] = NULL
  <2>1. n - count + 1 \in 1 .. k /\ index < n - count + 1 /\ n - count + 1 + count = n + 1
    BY <1>1, <1>4
  <2> QED BY <1>4, <1>8, <2>1
<1>12. Ended(f, w)
  <2>1. n - count < k
    BY <1>1, <1>4
  <2> QED BY <1>7, <1>9, <1>10, <1>11, <2>1 DEF Ended
<1>13. Vector(f) /\ Str!Strings(f) = w
  BY <1>6, <1>12, EndedIs
<1>14. Str!Range(b) = Piece(s, index, index + count)
  <2>1. index + count \in 0 .. Len(v)
    BY <1>3, <1>4, <1>5
  <2>2. b \in Seq(Blocks \cup {NULL}) /\ Len(b) = (index + count) - index
        /\ \A i \in 1 .. ((index + count) - index) : b[i] = v[index + i]
    BY <1>4, <1>5, <2>1, PartIs
  <2>3. (index + count) - index = count
    OBVIOUS
  <2> HIDE DEF b
  <2>4. Str!Range(b) = {b[i] : i \in 1 .. count}
    BY <2>2, <2>3, RangeIsEls DEF Els
  <2>5. \A i \in 1 .. count : index + i \in (index + 1) .. (index + count) /\ b[i] = s[index + i]
    <3> SUFFICES ASSUME NEW i \in 1 .. count
                 PROVE  index + i \in (index + 1) .. (index + count) /\ b[i] = s[index + i]
      OBVIOUS
    <3>1. index + i \in (index + 1) .. (index + count) /\ index + i \in 1 .. n
      BY <1>1
    <3> QED BY <1>4, <2>2, <2>3, <3>1
  <2>6. \A x \in Str!Range(b) : x \in Piece(s, index, index + count)
    BY <2>4, <2>5 DEF Piece
  <2>7. \A j \in (index + 1) .. (index + count) : s[j] \in Str!Range(b)
    <3> SUFFICES ASSUME NEW j \in (index + 1) .. (index + count) PROVE s[j] \in Str!Range(b)
      OBVIOUS
    <3>1. j - index \in 1 .. count /\ index + (j - index) = j
      OBVIOUS
    <3> QED BY <2>4, <2>5, <3>1
  <2> QED BY <2>6, <2>7 DEF Piece
<1>15. Shown(v) = Els(s) /\ Shown(f) = Els(w)
  BY <1>13 DEF Shown, s
<1> HIDE DEF b
<1> QED BY <1>6, <1>13, <1>14, <1>15 DEF b, f

\* A string's place is given another block.
LEMMA ReplacedIs ==
  ASSUME Str!StrListAssumption, NEW v, Vector(v), Distinct(Str!Strings(v)),
         NEW i \in 1 .. Str!strListCount(v), NEW b \in Blocks, b \notin Shown(v) \ {v[i]}
  PROVE  LET f == [v EXCEPT ![i] = b]
         IN  /\ Vector(f) /\ Str!Strings(f) \in Seq(Blocks) /\ Distinct(Str!Strings(f))
             /\ v[i] \in Shown(v) /\ Shown(f) = (Shown(v) \ {v[i]}) \cup {b}
<1> DEFINE s == Str!Strings(v)
           f == [v EXCEPT ![i] = b]
           w == [s EXCEPT ![i] = b]
<1>1. PICK n \in Nat : n = Str!strListCount(v)
  BY VectorFacts
<1>2. v # Str!None /\ s \in Seq(Blocks) /\ Len(s) = n /\ Ended(v, s)
  <2>1. v # Str!None
    BY <1>1, VectorFacts
  <2> QED BY <1>1, <2>1, VectorFacts
<1> HIDE DEF s
<1>3. PICK k \in Nat : k = Len(v)
  BY VectorFacts
<1>4. /\ v \in Seq(Blocks \cup {NULL}) /\ n < k
      /\ \A j \in 1 .. n : v[j] = s[j]
      /\ v[n + 1] = NULL
  BY <1>2, <1>3 DEF Ended
<1>5. i \in 1 .. n /\ i \in 1 .. k /\ i # n + 1 /\ n + 1 \in 1 .. k
  BY <1>1, <1>3, <1>4
<1>6. w \in Seq(Blocks) /\ Len(w) = n /\ \A j \in 1 .. n : w[j] = IF j = i THEN b ELSE s[j]
  BY <1>2, <1>5, ExceptIs
<1>7. f \in Seq(Blocks \cup {NULL}) /\ Len(f) = k /\ \A j \in 1 .. k : f[j] = IF j = i THEN b ELSE v[j]
  BY <1>3, <1>4, <1>5, ExceptIs
<1> HIDE DEF w, f
<1>8. Ended(f, w)
  <2>1. \A j \in 1 .. n : j \in 1 .. k
    BY <1>1, <1>3, <1>4
  <2> QED BY <1>4, <1>5, <1>6, <1>7, <2>1 DEF Ended
<1>9. Vector(f) /\ Str!Strings(f) = w
  BY <1>6, <1>8, EndedIs
<1>10. Shown(v) = {s[j] : j \in 1 .. n} /\ Shown(f) = {w[j] : j \in 1 .. n}
  BY <1>2, <1>6, <1>9 DEF Shown, Els, s
<1>11. \A j, m \in 1 .. n : s[j] = s[m] => j = m
  BY <1>2 DEF Distinct, s
<1>12. v[i] = s[i]
  BY <1>4, <1>5
<1>13. \A j \in 1 .. n : j # i => s[j] # b /\ s[j] # s[i] /\ s[j] \in Shown(v)
  BY <1>5, <1>10, <1>11, <1>12
<1>14. Distinct(w)
  BY <1>6, <1>11, <1>13 DEF Distinct
<1>15. Shown(f) = (Shown(v) \ {s[i]}) \cup {b}
  <2>1. \A x \in Shown(f) : x \in (Shown(v) \ {s[i]}) \cup {b}
    BY <1>6, <1>10, <1>13
  <2>2. \A x \in (Shown(v) \ {s[i]}) \cup {b} : x \in Shown(f)
    BY <1>5, <1>6, <1>10
  <2> QED BY <2>1, <2>2
<1> QED BY <1>5, <1>6, <1>9, <1>10, <1>12, <1>14, <1>15 DEF f

\* Two strings of a list change places.
LEMMA SwappedIs ==
  ASSUME Str!StrListAssumption, NEW v, Vector(v), Distinct(Str!Strings(v)),
         NEW i \in 0 .. Str!strListCount(v) - 1, NEW j \in 0 .. Str!strListCount(v) - 1
  PROVE  LET f == Str!Swapped(v, i, j)
         IN  /\ Vector(f) /\ Str!Strings(f) \in Seq(Blocks) /\ Distinct(Str!Strings(f))
             /\ Shown(f) = Shown(v)
<1> DEFINE s == Str!Strings(v)
           f == Str!Swapped(v, i, j)
           w == [[s EXCEPT ![i + 1] = s[j + 1]] EXCEPT ![j + 1] = s[i + 1]]
<1>1. PICK n \in Nat : n = Str!strListCount(v)
  BY VectorFacts
<1>2. v # Str!None /\ s \in Seq(Blocks) /\ Len(s) = n /\ Ended(v, s)
  <2>1. v # Str!None
    BY <1>1, VectorFacts
  <2> QED BY <1>1, <2>1, VectorFacts
<1> HIDE DEF s
<1>3. PICK k \in Nat : k = Len(v)
  BY VectorFacts
<1>4. /\ v \in Seq(Blocks \cup {NULL}) /\ n < k
      /\ \A m \in 1 .. n : v[m] = s[m]
      /\ v[n + 1] = NULL
  BY <1>2, <1>3 DEF Ended
<1>5. /\ i + 1 \in 1 .. n /\ i + 1 \in 1 .. k /\ i + 1 # n + 1 /\ n + 1 \in 1 .. k
      /\ j + 1 \in 1 .. n /\ j + 1 \in 1 .. k /\ j + 1 # n + 1
  BY <1>1, <1>3, <1>4
<1> DEFINE other(m) == IF m = j + 1 THEN i + 1 ELSE IF m = i + 1 THEN j + 1 ELSE m
<1>6. w \in Seq(Blocks) /\ Len(w) = n /\ \A m \in 1 .. n : w[m] = s[other(m)]
  <2> DEFINE u == [s EXCEPT ![i + 1] = s[j + 1]]
  <2>1. s[i + 1] \in Blocks /\ s[j + 1] \in Blocks
    BY <1>2, <1>5, SeqFacts
  <2>2. u \in Seq(Blocks) /\ Len(u) = n /\ \A m \in 1 .. n : u[m] = IF m = i + 1 THEN s[j + 1] ELSE s[m]
    BY <1>2, <1>5, <2>1, ExceptIs
  <2> HIDE DEF u
  <2>3. LET x == [u EXCEPT ![j + 1] = s[i + 1]]
        IN  x \in Seq(Blocks) /\ Len(x) = n /\ \A m \in 1 .. n : x[m] = IF m = j + 1 THEN s[i + 1] ELSE u[m]
    BY <1>5, <2>1, <2>2, ExceptIs
  <2>4. w = [u EXCEPT ![j + 1] = s[i + 1]]
    BY DEF u
  <2> HIDE DEF w
  <2> QED BY <1>5, <2>2, <2>3, <2>4
<1>7. f \in Seq(Blocks \cup {NULL}) /\ Len(f) = k /\ \A m \in 1 .. k : f[m] = v[other(m)]
  <2> DEFINE u == [v EXCEPT ![i + 1] = v[j + 1]]
  <2>1. v[i + 1] \in Blocks \cup {NULL} /\ v[j + 1] \in Blocks \cup {NULL}
    BY <1>3, <1>4, <1>5, SeqFacts
  <2>2. u \in Seq(Blocks \cup {NULL}) /\ Len(u) = k
        /\ \A m \in 1 .. k : u[m] = IF m = i + 1 THEN v[j + 1] ELSE v[m]
    BY <1>3, <1>4, <1>5, <2>1, ExceptIs
  <2> HIDE DEF u
  <2>3. LET x == [u EXCEPT ![j + 1] = v[i + 1]]
        IN  x \in Seq(Blocks \cup {NULL}) /\ Len(x) = k
            /\ \A m \in 1 .. k : x[m] = IF m = j + 1 THEN v[i + 1] ELSE u[m]
    BY <1>5, <2>1, <2>2, ExceptIs
  <2>4. f = [u EXCEPT ![j + 1] = v[i + 1]]
    BY DEF u, Str!Swapped
  <2> HIDE DEF f
  <2> QED BY <1>5, <2>2, <2>3, <2>4
<1> HIDE DEF w, f
<1>8. \A m \in 1 .. n : other(m) \in 1 .. n /\ other(other(m)) = m /\ m \in 1 .. k
  BY <1>1, <1>3, <1>4, <1>5
<1>9. other(n + 1) = n + 1
  BY <1>1, <1>5
<1> HIDE DEF other
<1>10. Ended(f, w)
  <2>1. \A m \in 1 .. n : f[m] = w[m]
    <3> SUFFICES ASSUME NEW m \in 1 .. n PROVE f[m] = w[m]
      OBVIOUS
    <3>1. other(m) \in 1 .. n /\ m \in 1 .. k
      BY <1>8
    <3>2. v[other(m)] = s[other(m)]
      BY <1>4, <3>1
    <3> QED BY <1>6, <1>7, <3>1, <3>2
  <2>2. f[n + 1] = NULL
    BY <1>4, <1>5, <1>7, <1>9
  <2> QED BY <1>4, <1>6, <1>7, <2>1, <2>2 DEF Ended
<1>11. Vector(f) /\ Str!Strings(f) = w
  BY <1>6, <1>10, EndedIs
<1>12. Shown(v) = {s[m] : m \in 1 .. n} /\ Shown(f) = {w[m] : m \in 1 .. n}
  BY <1>2, <1>6, <1>11 DEF Shown, Els, s
<1>13. Shown(f) = Shown(v)
  <2>1. \A x \in Shown(f) : x \in Shown(v)
    BY <1>6, <1>8, <1>12
  <2>2. \A x \in Shown(v) : x \in Shown(f)
    BY <1>6, <1>8, <1>12
  <2> QED BY <2>1, <2>2
<1>14. Distinct(w)
  <2> SUFFICES ASSUME NEW a \in 1 .. n, NEW z \in 1 .. n, s[other(a)] = s[other(z)] PROVE a = z
    BY <1>6 DEF Distinct
  <2>1. other(a) = other(z)
    BY <1>2, <1>8 DEF Distinct, s
  <2> QED BY <1>8, <2>1
<1> QED BY <1>6, <1>11, <1>13, <1>14 DEF f

\* The empty sequence.
LEMMA NoneEls == Els(<<>>) = {} /\ Distinct(<<>>)
<1>1. Len(<<>>) = 0
  BY EmptySeq
<1>2. 1 .. 0 = {}
  OBVIOUS
<1> QED BY <1>1, <1>2 DEF Els, Distinct

\* strListAppend, of some strings or of none.
LEMMA AppendIs ==
  ASSUME Str!StrListAssumption, NEW v, Vector(v), Distinct(Str!Strings(v)),
         NEW bs \in Seq(Blocks), Distinct(bs), Els(bs) \cap Shown(v) = {}
  PROVE  LET f == Str!str_list_append(v, bs)
             g == IF bs = <<>> THEN v ELSE f
         IN  /\ Vector(f) /\ Str!Strings(f) \in Seq(Blocks) /\ Distinct(Str!Strings(f))
             /\ Shown(f) = Shown(v) \cup Els(bs)
             /\ Vector(g) /\ Str!Strings(g) \in Seq(Blocks) /\ Distinct(Str!Strings(g))
             /\ Shown(g) = Shown(v) \cup Els(bs)
<1> DEFINE f == Str!str_list_append(v, bs)
           w == Str!Strings(v) \o bs
<1>1. Str!Strings(v) \in Seq(Blocks)
  BY VectorFacts
<1>2. w \in Seq(Blocks) /\ Els(w) = Shown(v) \cup Els(bs) /\ Distinct(w)
  BY <1>1, BothEls DEF Shown
<1>3. f = Str!Terminated(w)
  BY DEF Str!str_list_append
<1> HIDE DEF f, w
<1>4. Vector(f) /\ Str!Strings(f) = w
  BY <1>2, <1>3, TerminatedIs
<1>5. Shown(f) = Shown(v) \cup Els(bs)
  BY <1>2, <1>4 DEF Shown
<1>6. CASE bs = <<>>
  <2>1. Els(bs) = {}
    BY <1>6, NoneEls
  <2> QED BY <1>1, <1>2, <1>4, <1>5, <1>6, <2>1 DEF f
<1>7. CASE bs # <<>>
  BY <1>2, <1>4, <1>5, <1>7 DEF f
<1> QED BY <1>6, <1>7

\* strListInsert, of some strings or of none.
LEMMA InsertIs ==
  ASSUME Str!StrListAssumption, NEW v, Vector(v), v # Str!None, Distinct(Str!Strings(v)),
         NEW index \in 0 .. Str!strListCount(v),
         NEW bs \in Seq(Blocks), Distinct(bs), Els(bs) \cap Shown(v) = {}
  PROVE  LET f == Str!str_list_insert(v, bs, index)
             g == IF bs = <<>> THEN v ELSE f
         IN  /\ Vector(g) /\ Str!Strings(g) \in Seq(Blocks) /\ Distinct(Str!Strings(g))
             /\ Shown(g) = Shown(v) \cup Els(bs)
<1> DEFINE s == Str!Strings(v)
           a == SubSeq(v, 1, index)
           z == SubSeq(v, index + 1, Str!strListCount(v))
           w == a \o bs \o z
           f == Str!str_list_insert(v, bs, index)
<1>1. PICK n \in Nat : n = Str!strListCount(v)
  BY VectorFacts
<1>2. s \in Seq(Blocks) /\ Len(s) = n /\ Ended(v, s)
  BY <1>1, VectorFacts
<1>3. Shown(v) = Els(s) /\ Distinct(s)
  BY DEF Shown
<1> HIDE DEF s
<1>4. PICK k \in Nat : k = Len(v)
  BY VectorFacts
<1>5. v \in Seq(Blocks \cup {NULL}) /\ n < k /\ \A j \in 1 .. n : v[j] = s[j] /\ s[j] \in Blocks
  BY <1>2, <1>4, SeqFacts DEF Ended
<1>6. index \in 0 .. n
  BY <1>1
<1>7. a \in Seq(Blocks) /\ Len(a) = index /\ \A i \in 1 .. index : i \in 1 .. n /\ a[i] = s[i]
  <2>1. index \in 0 .. Len(v) /\ \A i \in 1 .. index : i \in 1 .. n
    BY <1>4, <1>5, <1>6
  <2>2. a \in Seq(Blocks \cup {NULL}) /\ Len(a) = index /\ \A i \in 1 .. index : a[i] = v[i]
    BY <1>5, <2>1, HeadPart
  <2> HIDE DEF a
  <2> QED BY <1>5, <2>1, <2>2, SeqOfThese
<1>8. z \in Seq(Blocks) /\ Len(z) = n - index
      /\ \A i \in 1 .. (n - index) : index + i \in 1 .. n /\ z[i] = s[index + i]
  <2>1. n \in 0 .. Len(v) /\ \A i \in 1 .. (n - index) : index + i \in 1 .. n
    BY <1>1, <1>4, <1>5, <1>6
  <2>2. z \in Seq(Blocks \cup {NULL}) /\ Len(z) = n - index
        /\ \A i \in 1 .. (n - index) : z[i] = v[index + i]
    BY <1>1, <1>5, <1>6, <2>1, PartIs
  <2> HIDE DEF z
  <2>3. \A i \in 1 .. (n - index) : z[i] = s[index + i] /\ z[i] \in Blocks
    BY <1>5, <2>1, <2>2
  <2> QED BY <2>1, <2>2, <2>3, SeqOfThese
<1>9. f = Str!Terminated(w)
  BY DEF Str!str_list_insert
<1> HIDE DEF a, z, f
<1>10. Els(s) = Els(a) \cup Els(z)
  <2>1. \A x \in Els(s) : x \in Els(a) \cup Els(z)
    <3> SUFFICES ASSUME NEW i \in 1 .. n PROVE s[i] \in Els(a) \cup Els(z)
      BY <1>2 DEF Els
    <3>1. CASE i <= index
      <4>1. i \in 1 .. index
        BY <1>6, <3>1
      <4> QED BY <1>7, <4>1 DEF Els
    <3>2. CASE ~(i <= index)
      <4>1. i - index \in 1 .. (n - index) /\ index + (i - index) = i
        BY <1>6, <3>2
      <4>2. z[i - index] = s[i]
        BY <1>8, <4>1
      <4> QED BY <1>8, <4>1, <4>2 DEF Els
    <3> QED BY <3>1, <3>2
  <2>2. \A x \in Els(a) \cup Els(z) : x \in Els(s)
    BY <1>2, <1>7, <1>8 DEF Els
  <2> QED BY <2>1, <2>2
<1>11. \A i, j \in 1 .. n : s[i] = s[j] => i = j
  BY <1>2, <1>3 DEF Distinct
<1>12. Distinct(a) /\ Distinct(z) /\ Els(a) \cap Els(z) = {}
  <2>1. Distinct(a)
    BY <1>7, <1>11 DEF Distinct
  <2>2. Distinct(z)
    <3> SUFFICES ASSUME NEW i \in 1 .. (n - index), NEW j \in 1 .. (n - index), z[i] = z[j] PROVE i = j
      BY <1>8 DEF Distinct
    <3>1. index + i = index + j
      BY <1>8, <1>11
    <3> QED BY <1>6, <3>1
  <2>3. Els(a) \cap Els(z) = {}
    <3> SUFFICES ASSUME NEW i \in 1 .. index, NEW j \in 1 .. (n - index), a[i] = z[j] PROVE FALSE
      BY <1>7, <1>8 DEF Els
    <3>1. i = index + j
      BY <1>7, <1>8, <1>11
    <3> QED BY <1>6, <3>1
  <2> QED BY <2>1, <2>2, <2>3
<1>13. w \in Seq(Blocks) /\ Els(w) = Shown(v) \cup Els(bs) /\ Distinct(w)
  <2> DEFINE u == a \o bs
  <2>1. u \in Seq(Blocks) /\ Els(u) = Els(a) \cup Els(bs) /\ Distinct(u)
    BY <1>3, <1>7, <1>10, <1>12, BothEls
  <2>2. w = u \o z
    OBVIOUS
  <2> HIDE DEF u, w
  <2> QED BY <1>3, <1>8, <1>10, <1>12, <2>1, <2>2, BothEls
<1> HIDE DEF w
<1>14. Vector(f) /\ Str!Strings(f) = w
  BY <1>9, <1>13, TerminatedIs
<1>15. Shown(f) = Els(w)
  BY <1>14 DEF Shown
<1>16. bs = <<>> => Els(bs) = {}
  BY NoneEls
<1> QED BY <1>2, <1>3, <1>13, <1>14, <1>15, <1>16 DEF f, s

\* Only the strings in kept stay, ahead of the first NULL.
LEMMA FastKeptIs ==
  ASSUME Str!StrListAssumption, NEW v, Vector(v), v # Str!None,
         NEW kept \in Seq(Blocks), Len(kept) \in 0 .. Str!strListCount(v)
  PROVE  Vector(Str!FastKept(v, kept)) /\ Str!Strings(Str!FastKept(v, kept)) = kept
<1> DEFINE f == Str!FastKept(v, kept)
<1>1. PICK n \in Nat : n = Str!strListCount(v)
  BY VectorFacts
<1>2. PICK k \in Nat : k = Len(v)
  BY VectorFacts
<1>3. PICK m \in Nat : m = Len(kept)
  BY SeqFacts
<1>4. v \in Seq(Blocks \cup {NULL}) /\ n < k /\ v[n + 1] = NULL /\ m \in 0 .. n
  BY <1>1, <1>2, <1>3, VectorFacts DEF Ended
<1>5. f = [j \in 1 .. k |-> IF j <= m THEN kept[j] ELSE IF j <= n THEN NULL ELSE v[j]]
  BY <1>1, <1>2, <1>3, <1>4, SeqFacts DEF Str!FastKept
<1>6. f \in [1 .. k -> Blocks \cup {NULL}]
  <2>1. \A j \in 1 .. k : v[j] \in Blocks \cup {NULL}
    BY <1>2, <1>4, SeqFacts
  <2>2. \A j \in 1 .. k : j <= m => j \in 1 .. m
    BY <1>3
  <2>3. \A j \in 1 .. m : kept[j] \in Blocks
    BY <1>3, SeqFacts
  <2> HIDE DEF f
  <2> QED BY <1>5, <2>1, <2>2, <2>3
<1> HIDE DEF f
<1>7. f \in Seq(Blocks \cup {NULL}) /\ Len(f) = k
  <2>1. f \in Seq(Blocks \cup {NULL})
    BY <1>2, <1>6, SeqDef
  <2>2. 1 .. Len(f) = 1 .. k /\ Len(f) \in Nat
    BY <1>6, <2>1, SeqFacts
  <2>3. \A a, c \in Nat : 1 .. a = 1 .. c => a = c
    OBVIOUS
  <2>4. Len(f) = k
    BY <1>2, <2>2, <2>3
  <2> QED BY <2>1, <2>4
<1>8. \A i \in 1 .. m : f[i] = kept[i]
  <2>1. \A i \in 1 .. m : i \in 1 .. k /\ i <= m
    BY <1>1, <1>2, <1>3, <1>4
  <2> QED BY <1>5, <2>1
<1>9. f[m + 1] = NULL
  <2>1. m + 1 \in 1 .. k /\ ~(m + 1 <= m) /\ (~(m + 1 <= n) => m + 1 = n + 1)
    BY <1>1, <1>2, <1>3, <1>4
  <2> QED BY <1>4, <1>5, <2>1
<1>10. m < k
  BY <1>1, <1>2, <1>3, <1>4
<1>11. Ended(f, kept)
  BY <1>3, <1>7, <1>8, <1>9, <1>10 DEF Ended
<1> QED BY <1>11, EndedIs DEF f

\* NULL is put into the first cell, or into each that shows a string.
LEMMA EmptiedIs ==
  ASSUME Str!StrListAssumption, NEW v, Vector(v), v # Str!None
  PROVE  LET f == [v EXCEPT ![1] = NULL]
             g == [j \in DOMAIN v |-> IF j <= Str!strListCount(v) THEN NULL ELSE v[j]]
         IN  /\ Vector(f) /\ Str!Strings(f) = <<>>
             /\ Vector(g) /\ Str!Strings(g) = <<>>
<1> DEFINE f == [v EXCEPT ![1] = NULL]
           g == [j \in DOMAIN v |-> IF j <= Str!strListCount(v) THEN NULL ELSE v[j]]
<1>1. PICK n \in Nat : n = Str!strListCount(v)
  BY VectorFacts
<1>2. PICK k \in Nat : k = Len(v)
  BY VectorFacts
<1>3. v \in Seq(Blocks \cup {NULL}) /\ n < k /\ v[n + 1] = NULL
  BY <1>1, <1>2, VectorFacts DEF Ended
<1>4. <<>> \in Seq(Blocks) /\ Len(<<>>) = 0 /\ 0 \in 0 .. n /\ 1 \in 1 .. k /\ 0 < k
  BY <1>1, <1>2, <1>3, EmptySeq
<1>5. f \in Seq(Blocks \cup {NULL}) /\ Len(f) = k /\ f[1] = NULL
  BY <1>2, <1>3, <1>4, ExceptIs
<1> HIDE DEF f
<1>6. Ended(f, <<>>)
  <2>1. \A i \in 1 .. 0 : f[i] = <<>>[i]
    OBVIOUS
  <2> QED BY <1>4, <1>5, <2>1 DEF Ended
<1>7. Vector(f) /\ Str!Strings(f) = <<>>
  BY <1>4, <1>6, EndedIs
<1>8. g = Str!FastKept(v, <<>>)
  <2>1. \A j \in DOMAIN v : ~(j <= 0)
    <3>1. \A j \in 1 .. k : ~(j <= 0)
      OBVIOUS
    <3> QED BY <1>2, <1>3, <3>1, SeqFacts
  <2> QED BY <1>4, <2>1 DEF Str!FastKept
<1> HIDE DEF g
<1>9. Vector(g) /\ Str!Strings(g) = <<>>
  BY <1>1, <1>4, <1>8, FastKeptIs
<1> QED BY <1>7, <1>9 DEF f, g

\* An empty list, and a NULL one.
LEMMA InitIs ==
  ASSUME Str!StrListAssumption
  PROVE  Vector(Str!strListInit) /\ Str!Strings(Str!strListInit) = <<>> /\ Str!strListInit # Str!None
         /\ Vector(Str!None) /\ Str!Strings(Str!None) = <<>>
<1>1. <<>> \in Seq(Blocks) /\ <<>> \in Seq(Blocks \cup {NULL})
  BY EmptySeq
<1>2. Str!strListInit = Str!Terminated(<<>>) /\ Str!strListInit # Str!None
  BY DEF Str!Terminated, Str!strListInit, Str!None
<1>3. Vector(Str!None)
  BY <1>1 DEF Vector, Str!None
<1> QED BY <1>1, <1>2, <1>3, TerminatedIs, VectorFacts
-----------------------------------------------------------------------------
(* The operations keep the invariant *)

\* What the invariant says of one list that is in use.
LEMMA OwnFacts ==
  ASSUME Str!StrListAssumption, StrInv, NEW l \in Lists, Str!Usable(l)
  PROVE  /\ Vector(vec[l]) /\ Str!Strings(vec[l]) \in Seq(Blocks) /\ Distinct(Str!Strings(vec[l]))
         /\ Shown(vec[l]) \subseteq Blocks /\ held \subseteq Blocks /\ Str!Free \subseteq Blocks
         /\ Shown(vec[l]) \cap held = {}
         /\ \A b \in Shown(vec[l]) \cup held : told[b] # NULL
         /\ \A b \in Str!Free : told[b] = NULL
         /\ told \in [Blocks -> Phrases \cup {NULL}]
<1>1. l \in InUse
  BY DEF InUse, Str!Usable
<1> QED BY <1>1, ShownFacts DEF StrInv, StrTypes, StrOwners, Str!Free

\* ListChange, by what the new vector shows.
LEMMA ListGets ==
  ASSUME Str!StrListAssumption, StrInv, NEW l \in Lists, Str!Usable(l),
         NEW v, Vector(v), Distinct(Str!Strings(v)), Str!Is(l, v), retired' = retired,
         told' \in [Blocks -> Phrases \cup {NULL}],
         Shown(v) \cap held' = {},
         Shown(v) \cup held' \subseteq Shown(vec[l]) \cup held \cup Str!Free,
         \A b \in Shown(v) \cup held' : told'[b] # NULL,
         \A b \in (Shown(vec[l]) \cup held \cup Str!Free) \ (Shown(v) \cup held') : told'[b] = NULL,
         \A b \in Blocks \ (Shown(vec[l]) \cup held \cup Str!Free) : told'[b] = told[b]
  PROVE  StrInv'
<1> DEFINE w == Str!Strings(v)
<1>1. w \in Seq(Blocks)
  BY VectorFacts
<1>2. Els(w) = Shown(v) /\ Distinct(w) /\ Str!Strings(v) = w
  BY DEF Shown
<1>3. l \in Lists \ retired /\ vec' = [vec EXCEPT ![l] = v]
  BY DEF Str!Usable, Str!Is
<1> HIDE DEF w
<1>4. LET mine == Shown(vec[l]) \cup held \cup Str!Free
      IN  /\ Els(w) \subseteq mine /\ held' \subseteq mine /\ Els(w) \cap held' = {}
          /\ \A b \in mine : told'[b] # NULL <=> b \in Els(w) \cup held'
          /\ \A b \in Blocks \ mine : told'[b] = told[b]
  BY <1>2
<1> QED BY <1>1, <1>2, <1>3, <1>4, ListChange

\* A string that the caller makes is the caller's.
LEMMA AllocStringKeeps ==
  ASSUME Str!StrListAssumption, StrInv, Str!AllocString
  PROVE  StrInv'
<1>1. PICK b \in Str!Free, t \in Phrases : told' = [told EXCEPT ![b] = t] /\ held' = held \cup {b}
  BY DEF Str!AllocString
<1>2. told \in [Blocks -> Phrases \cup {NULL}] /\ b \in Blocks /\ t # NULL
  BY DEF StrInv, StrTypes, Str!Free, Str!StrListAssumption
<1>3. /\ told' \in [Blocks -> Phrases \cup {NULL}] /\ held' \subseteq held \cup Str!Free
      /\ told'[b] = t /\ \A c \in Blocks \ {b} : told'[c] = told[c]
  BY <1>1, <1>2
<1>4. \A c \in held : c \in Blocks /\ told[c] # NULL
  BY DEF StrInv, StrTypes, StrOwners
<1>5. \A c \in held \cup Str!Free : told'[c] # NULL <=> c \in held'
  BY <1>1, <1>2, <1>3, <1>4 DEF Str!Free
<1>6. \A c \in Blocks \ (held \cup Str!Free) : told'[c] = told[c]
  BY <1>3
<1>7. UNCHANGED <<vec, retired>>
  BY DEF Str!AllocString
<1> QED BY <1>3, <1>5, <1>6, <1>7, HeldChange

\* The caller frees only its own.
LEMMA FreeStringKeeps ==
  ASSUME Str!StrListAssumption, StrInv, NEW b \in Blocks, Str!FreeString(b)
  PROVE  StrInv'
<1>1. b \in held /\ held' = held \ {b} /\ Str!strListFreeString({b}) /\ UNCHANGED <<vec, retired>>
  BY DEF Str!FreeString
<1>2. /\ told' \in [Blocks -> Phrases \cup {NULL}]
      /\ \A c \in Blocks : told'[c] = IF c \in {b} THEN NULL ELSE told[c]
  BY <1>1, FreedIs
<1>3. \A c \in held : c \in Blocks /\ told[c] # NULL
  BY DEF StrInv, StrTypes, StrOwners
<1>4. \A c \in held \cup Str!Free : told'[c] # NULL <=> c \in held'
  BY <1>1, <1>2, <1>3 DEF Str!Free
<1>5. \A c \in Blocks \ (held \cup Str!Free) : told'[c] = told[c]
  BY <1>1, <1>2
<1>6. held' \subseteq held \cup Str!Free
  BY <1>1
<1> QED BY <1>1, <1>2, <1>4, <1>5, <1>6, HeldChange

\* Copies of texts come to a list that keeps its own.
LEMMA CopiesCome ==
  ASSUME Str!StrListAssumption, StrInv, NEW l \in Lists, Str!Usable(l), NEW texts \in Seq(Phrases),
         NEW bs \in Str!Allocations(texts), Str!Written(texts, bs), UNCHANGED <<held, retired>>,
         NEW v, Vector(v), Distinct(Str!Strings(v)), Str!Is(l, v), Shown(v) = Shown(vec[l]) \cup Els(bs)
  PROVE  StrInv'
<1>1. /\ bs \in Seq(Blocks) /\ Distinct(bs) /\ Els(bs) \subseteq Str!Free
      /\ told' \in [Blocks -> Phrases \cup {NULL}]
      /\ \A b \in Els(bs) : told'[b] # NULL
      /\ \A b \in Blocks \ Els(bs) : told'[b] = told[b]
  BY AllocatedIs
<1> DEFINE old == Shown(vec[l])
<1>2. /\ old \subseteq Blocks /\ held \subseteq Blocks /\ Str!Free \subseteq Blocks /\ old \cap held = {}
      /\ \A b \in old \cup held : told[b] # NULL
      /\ \A b \in Str!Free : told[b] = NULL
  BY OwnFacts
<1> HIDE DEF old
<1>3. Shown(v) = old \cup Els(bs)
  BY DEF old
<1>4. /\ Shown(v) \cap held' = {} /\ Shown(v) \cup held' \subseteq old \cup held \cup Str!Free
      /\ \A b \in Shown(v) \cup held' : told'[b] # NULL
      /\ \A b \in (old \cup held \cup Str!Free) \ (Shown(v) \cup held') : told'[b] = NULL
      /\ \A b \in Blocks \ (old \cup held \cup Str!Free) : told'[b] = told[b]
  <2>1. \A b \in old \cup held : b \notin Els(bs) /\ told'[b] = told[b]
    BY <1>1, <1>2
  <2>2. held' = held
    OBVIOUS
  <2>3. \A b \in Shown(v) \cup held' : told'[b] # NULL
    BY <1>1, <1>2, <1>3, <2>1, <2>2
  <2>4. \A b \in Str!Free : b \notin Els(bs) => told'[b] = NULL
    BY <1>1, <1>2
  <2>5. \A b \in (old \cup held \cup Str!Free) \ (Shown(v) \cup held') : told'[b] = NULL
    BY <1>3, <2>2, <2>4
  <2>6. \A b \in Blocks \ (old \cup held \cup Str!Free) : told'[b] = told[b]
    BY <1>1
  <2>7. Shown(v) \cap held' = {} /\ Shown(v) \cup held' \subseteq old \cup held \cup Str!Free
    BY <1>1, <1>2, <1>3, <2>1, <2>2
  <2> QED BY <2>3, <2>5, <2>6, <2>7
<1>5. retired' = retired
  OBVIOUS
<1> QED BY <1>1, <1>4, <1>5, ListGets DEF old

\* strListAppend, strListSplit, strListReadFile and strListAppendList.
LEMMA AppendTextsKeeps ==
  ASSUME Str!StrListAssumption, StrInv, NEW l \in Lists, NEW texts \in Seq(Phrases),
         Str!AppendTexts(l, texts) \/ Str!AppendAllTexts(l, texts)
  PROVE  StrInv'
<1>1. Str!Usable(l) /\ UNCHANGED <<held, retired>>
  BY DEF Str!AppendTexts, Str!AppendAllTexts
<1>2. PICK bs \in Str!Allocations(texts) :
        Str!Written(texts, bs) /\ Str!Is(l, IF bs = <<>> THEN vec[l] ELSE Str!str_list_append(vec[l], bs))
  BY DEF Str!AppendTexts, Str!AppendAllTexts
<1> DEFINE v == IF bs = <<>> THEN vec[l] ELSE Str!str_list_append(vec[l], bs)
<1>3. bs \in Seq(Blocks) /\ Distinct(bs) /\ Els(bs) \subseteq Str!Free
  BY <1>2, AllocatedIs
<1>4. Vector(vec[l]) /\ Distinct(Str!Strings(vec[l])) /\ Els(bs) \cap Shown(vec[l]) = {}
  BY <1>1, <1>3, OwnFacts
<1>5. Vector(v) /\ Distinct(Str!Strings(v)) /\ Shown(v) = Shown(vec[l]) \cup Els(bs)
  BY <1>3, <1>4, AppendIs
<1>6. Str!Is(l, v)
  BY <1>2
<1> HIDE DEF v
<1> QED BY <1>1, <1>2, <1>5, <1>6, CopiesCome

\* The caller's string becomes the list's.
LEMMA AnnexKeeps ==
  ASSUME Str!StrListAssumption, StrInv, NEW l \in Lists, NEW b \in Blocks, Str!strListAnnex(l, b)
  PROVE  StrInv'
<1> DEFINE v == Str!str_list_append(vec[l], <<b>>)
           old == Shown(vec[l])
<1>1. Str!Usable(l) /\ b \in held /\ Str!Is(l, v) /\ held' = held \ {b} /\ UNCHANGED <<told, retired>>
  BY DEF Str!strListAnnex
<1>2. <<b>> \in Seq(Blocks) /\ Els(<<b>>) = {b} /\ Distinct(<<b>>)
  BY DEF Els, Distinct
<1>3. /\ Vector(vec[l]) /\ Distinct(Str!Strings(vec[l])) /\ old \cap held = {}
      /\ old \subseteq Blocks /\ held \subseteq Blocks
      /\ \A c \in old \cup held : told[c] # NULL
      /\ \A c \in Str!Free : told[c] = NULL
      /\ told \in [Blocks -> Phrases \cup {NULL}]
  BY <1>1, OwnFacts
<1>4. Vector(v) /\ Distinct(Str!Strings(v)) /\ Shown(v) = old \cup {b}
  <2>1. Els(<<b>>) \cap Shown(vec[l]) = {}
    BY <1>1, <1>2, <1>3
  <2>2. Vector(v) /\ Distinct(Str!Strings(v)) /\ Shown(v) = old \cup Els(<<b>>)
    BY <1>2, <1>3, <2>1, AppendIs
  <2> QED BY <1>2, <2>2
<1> HIDE DEF v, old
<1>5. /\ Shown(v) \cap held' = {} /\ Shown(v) \cup held' = old \cup held
      /\ \A c \in Shown(v) \cup held' : told'[c] # NULL
      /\ \A c \in (old \cup held \cup Str!Free) \ (Shown(v) \cup held') : told'[c] = NULL
      /\ \A c \in Blocks \ (old \cup held \cup Str!Free) : told'[c] = told[c]
  BY <1>1, <1>3, <1>4
<1>6. told' \in [Blocks -> Phrases \cup {NULL}] /\ retired' = retired
  BY <1>1, <1>3
<1> QED BY <1>1, <1>4, <1>5, <1>6, ListGets DEF old

\* strListInsert, of a NULL list and behind the end too.
LEMMA InsertTextsKeeps ==
  ASSUME Str!StrListAssumption, ~InitRecovers,
         StrInv, NEW l \in Lists, NEW texts \in Seq(Phrases), NEW index \in Nat,
         Str!InsertTexts(l, texts, index)
  PROVE  StrInv'
<1>1. Str!Usable(l) /\ UNCHANGED <<held, retired>>
  BY DEF Str!InsertTexts
<1>2. /\ Vector(vec[l]) /\ Distinct(Str!Strings(vec[l])) /\ Shown(vec[l]) \cap held = {}
      /\ Shown(vec[l]) \subseteq Blocks /\ held \subseteq Blocks
      /\ \A c \in Shown(vec[l]) \cup held : told[c] # NULL
      /\ \A c \in Str!Free : told[c] = NULL
      /\ told \in [Blocks -> Phrases \cup {NULL}]
  BY <1>1, OwnFacts
<1> PICK u \in Str!MadeList(l) :
      \/ Str!Is(l, u) /\ UNCHANGED told
      \/ /\ index <= Str!strListCount(u)
         /\ \E bs \in Str!Allocations(texts) :
              /\ Str!Written(texts, bs) /\ bs # <<>>
              /\ u # Str!None /\ Str!Is(l, Str!str_list_insert(u, bs, index))
  BY DEF Str!InsertTexts, Str!InsertedUninitialized
<1>3. Vector(u) /\ Str!Strings(u) = Str!Strings(vec[l])
  <2>1. CASE vec[l] = Str!None
    BY <1>2, <2>1, InitIs DEF Str!MadeList
  <2>2. CASE vec[l] # Str!None
    BY <1>2, <2>2 DEF Str!MadeList
  <2> QED BY <2>1, <2>2
<1>4. Distinct(Str!Strings(u)) /\ Shown(u) = Shown(vec[l])
  BY <1>2, <1>3 DEF Shown
<1>6. CASE Str!Is(l, u) /\ UNCHANGED told
  <2>1. /\ Shown(u) \cap held' = {}
        /\ Shown(u) \cup held' \subseteq Shown(vec[l]) \cup held \cup Str!Free
        /\ \A b \in Shown(u) \cup held' : told'[b] # NULL
        /\ \A b \in (Shown(vec[l]) \cup held \cup Str!Free) \ (Shown(u) \cup held') : told'[b] = NULL
        /\ \A b \in Blocks \ (Shown(vec[l]) \cup held \cup Str!Free) : told'[b] = told[b]
        /\ told' \in [Blocks -> Phrases \cup {NULL}] /\ retired' = retired
    BY <1>1, <1>2, <1>4, <1>6
  <2> QED BY <1>1, <1>3, <1>4, <1>6, <2>1, ListGets
<1>7. CASE /\ index <= Str!strListCount(u)
           /\ \E bs \in Str!Allocations(texts) :
                /\ Str!Written(texts, bs) /\ bs # <<>>
                /\ u # Str!None /\ Str!Is(l, Str!str_list_insert(u, bs, index))
  <2>1. PICK bs \in Str!Allocations(texts) :
          Str!Written(texts, bs) /\ bs # <<>> /\ u # Str!None /\ Str!Is(l, Str!str_list_insert(u, bs, index))
    BY <1>7
  <2> DEFINE v == IF bs = <<>> THEN u ELSE Str!str_list_insert(u, bs, index)
  <2>2. bs \in Seq(Blocks) /\ Distinct(bs) /\ Els(bs) \subseteq Str!Free /\ bs # <<>>
    BY <2>1, AllocatedIs
  <2>3. Els(bs) \cap Shown(u) = {}
    BY <1>2, <1>4, <2>2
  <2>4. index \in 0 .. Str!strListCount(u)
    BY <1>3, <1>7, VectorFacts
  <2>5. Vector(v) /\ Distinct(Str!Strings(v)) /\ Shown(v) = Shown(u) \cup Els(bs)
    BY <1>3, <1>4, <2>1, <2>2, <2>3, <2>4, InsertIs
  <2>6. Str!Is(l, v)
    BY <2>1, <2>2
  <2> HIDE DEF v
  <2> QED BY <1>1, <1>4, <2>1, <2>5, <2>6, CopiesCome
<1> QED BY <1>6, <1>7

\* Strings leave a list: they are the caller's now, or they are freed.
LEMMA StringsLeave ==
  ASSUME Str!StrListAssumption, StrInv, NEW l \in Lists, Str!Usable(l), NEW gone \in SUBSET Shown(vec[l]),
         NEW v, Vector(v), Distinct(Str!Strings(v)), Str!Is(l, v), Shown(v) = Shown(vec[l]) \ gone,
         \/ UNCHANGED <<told, retired>> /\ held' = held \cup gone
         \/ Str!strListFreeString(gone) /\ UNCHANGED <<held, retired>>
  PROVE  StrInv'
<1> DEFINE old == Shown(vec[l])
<1>1. /\ old \subseteq Blocks /\ held \subseteq Blocks /\ Str!Free \subseteq Blocks /\ old \cap held = {}
      /\ \A b \in old \cup held : told[b] # NULL
      /\ \A b \in Str!Free : told[b] = NULL
      /\ told \in [Blocks -> Phrases \cup {NULL}]
  BY OwnFacts
<1>2. Shown(v) = old \ gone /\ gone \subseteq old
  OBVIOUS
<1>3. CASE UNCHANGED <<told, retired>> /\ held' = held \cup gone
  <2> HIDE DEF old
  <2>1. Shown(v) \cup held' = old \cup held /\ Shown(v) \cap held' = {}
    BY <1>1, <1>2, <1>3
  <2>2. /\ \A b \in Shown(v) \cup held' : told'[b] # NULL
        /\ \A b \in (old \cup held \cup Str!Free) \ (Shown(v) \cup held') : told'[b] = NULL
        /\ \A b \in Blocks \ (old \cup held \cup Str!Free) : told'[b] = told[b]
        /\ told' \in [Blocks -> Phrases \cup {NULL}] /\ retired' = retired
    BY <1>1, <1>3, <2>1
  <2> QED BY <2>1, <2>2, ListGets DEF old
<1>4. CASE Str!strListFreeString(gone) /\ UNCHANGED <<held, retired>>
  <2>1. /\ told' \in [Blocks -> Phrases \cup {NULL}]
        /\ \A b \in Blocks : told'[b] = IF b \in gone THEN NULL ELSE told[b]
    BY <1>4, FreedIs
  <2> HIDE DEF old
  <2>2. Shown(v) \cap held' = {} /\ Shown(v) \cup held' \subseteq old \cup held \cup Str!Free
    BY <1>1, <1>2, <1>4
  <2>3. \A b \in Shown(v) \cup held' : told'[b] # NULL
    BY <1>1, <1>2, <1>4, <2>1
  <2>4. \A b \in (old \cup held \cup Str!Free) \ (Shown(v) \cup held') : told'[b] = NULL
    BY <1>1, <1>2, <1>4, <2>1
  <2>5. \A b \in Blocks \ (old \cup held \cup Str!Free) : told'[b] = told[b]
    BY <1>2, <2>1
  <2> QED BY <1>4, <2>1, <2>2, <2>3, <2>4, <2>5, ListGets DEF old
<1> QED BY <1>3, <1>4

\* strListRemove gives a string to the caller, strListDelete frees it.
LEMMA RemoveKeeps ==
  ASSUME Str!StrListAssumption, StrInv, NEW l \in Lists, NEW index \in Nat,
         Str!strListRemove(l, index) \/ Str!strListDelete(l, index)
  PROVE  StrInv'
<1> DEFINE v == Str!Without(vec[l], index)
           gone == {vec[l][index + 1]}
<1>1. Str!Usable(l) /\ index < Str!strListCount(vec[l]) /\ Str!Is(l, v)
  BY DEF Str!strListRemove, Str!strListDelete
<1>2. Vector(vec[l]) /\ Distinct(Str!Strings(vec[l]))
  BY <1>1, OwnFacts
<1>3. Vector(v) /\ Distinct(Str!Strings(v)) /\ gone \in SUBSET Shown(vec[l]) /\ Shown(v) = Shown(vec[l]) \ gone
  BY <1>1, <1>2, WithoutIs
<1>4. \/ UNCHANGED <<told, retired>> /\ held' = held \cup gone
      \/ Str!strListFreeString(gone) /\ UNCHANGED <<held, retired>>
  BY DEF Str!strListRemove, Str!strListDelete
<1> HIDE DEF v, gone
<1> QED BY <1>1, <1>3, <1>4, StringsLeave

\* The same for a piece of a list, without reallocation.
LEMMA FastRemoveKeeps ==
  ASSUME Str!StrListAssumption, KnownCells, StrInv, NEW l \in Lists, NEW index \in Nat, NEW count \in Nat,
         Str!FastRemove(l, index, count) \/ Str!strListFastDelete(l, index, count)
  PROVE  StrInv'
<1> DEFINE v == Str!strListFastRemove(vec[l], index, count)
           gone == Str!Range(SubSeq(vec[l], index + 1, index + count))
<1>1. Str!Usable(l) /\ index + count <= Str!strListCount(vec[l]) /\ Str!Is(l, v)
  BY DEF Str!FastRemove, Str!strListFastDelete
<1>2. Vector(vec[l]) /\ Distinct(Str!Strings(vec[l]))
  BY <1>1, OwnFacts
<1>3. Vector(v) /\ Distinct(Str!Strings(v)) /\ gone \in SUBSET Shown(vec[l]) /\ Shown(v) = Shown(vec[l]) \ gone
  <2>1. CASE vec[l] # Str!None
    BY <1>1, <1>2, <2>1, FastRemoveIs
  <2>2. CASE vec[l] = Str!None
    <3>1. index = 0 /\ count = 0 /\ index + 1 = 1 /\ index + count = 0
      BY <1>1, <1>2, <2>2, VectorFacts
    <3>2. Str!None \in Seq(Blocks) /\ Len(Str!None) = 0 /\ 0 \in 0 .. Len(Str!None) /\ 1 .. 0 = {}
      BY EmptySeq DEF Str!None
    <3>3. SubSeq(Str!None, 1, 0) \in Seq(Blocks) /\ Len(SubSeq(Str!None, 1, 0)) = 0
      BY <3>2, HeadPart
    <3>4. gone = {}
      <4>1. gone = Str!Range(SubSeq(Str!None, 1, 0))
        BY <2>2, <3>1
      <4>2. Str!Range(SubSeq(Str!None, 1, 0)) = Els(SubSeq(Str!None, 1, 0))
        BY <3>3, RangeIsEls
      <4>3. Els(SubSeq(Str!None, 1, 0)) = {}
        BY <3>2, <3>3 DEF Els
      <4> QED BY <4>1, <4>2, <4>3
    <3>5. v = Str!None
      <4>1. DOMAIN Str!None = 1 .. 0
        BY <3>2, SeqFacts
      <4>2. v \in [1 .. 0 -> Blocks]
        BY <2>2, <3>2, <4>1 DEF Str!strListFastRemove
      <4> HIDE DEF v
      <4>3. v \in Seq(Blocks) /\ DOMAIN v = 1 .. 0
        BY <4>2, SeqDef
      <4>4. v = Str!None
        BY <3>2, <4>1, <4>3
      <4> QED BY <4>4
    <3> HIDE DEF v, gone
    <3> QED BY <1>2, <2>2, <3>4, <3>5
  <2> QED BY <2>1, <2>2
<1>4. \/ UNCHANGED <<told, retired>> /\ held' = held \cup gone
      \/ Str!strListFreeString(gone) /\ UNCHANGED <<held, retired>>
  BY DEF Str!FastRemove, Str!strListFastDelete
<1> HIDE DEF v, gone
<1> QED BY <1>1, <1>3, <1>4, StringsLeave

\* A place of a list is given a block that says t; the one that was there is freed.
LEMMA BlockReplaced ==
  ASSUME Str!StrListAssumption, StrInv, NEW l \in Lists, Str!Usable(l), UNCHANGED <<held, retired>>,
         NEW i \in 1 .. Str!strListCount(vec[l]), NEW b \in Str!Free \cup {vec[l][i]}, NEW t \in Phrases,
         Str!Is(l, [vec[l] EXCEPT ![i] = b]),
         told' = [told EXCEPT ![vec[l][i]] = NULL, ![b] = t]
  PROVE  StrInv'
<1> DEFINE v == [vec[l] EXCEPT ![i] = b]
           old == Shown(vec[l])
           was == vec[l][i]
<1>1. /\ old \subseteq Blocks /\ held \subseteq Blocks /\ Str!Free \subseteq Blocks /\ old \cap held = {}
      /\ \A c \in old \cup held : told[c] # NULL
      /\ \A c \in Str!Free : told[c] = NULL
      /\ told \in [Blocks -> Phrases \cup {NULL}]
  BY OwnFacts
<1>2. Vector(vec[l]) /\ Distinct(Str!Strings(vec[l])) /\ was \in Blocks /\ b \in Blocks
  BY <1>1, OwnFacts, VectorFacts
<1>3. b \notin old \ {was}
  BY <1>1
<1>4. Vector(v) /\ Distinct(Str!Strings(v)) /\ was \in old /\ Shown(v) = (old \ {was}) \cup {b}
  BY <1>2, <1>3, ReplacedIs
<1>5. /\ Str!Is(l, v) /\ b \in Str!Free \cup {was} /\ t # NULL
      /\ told' = [told EXCEPT ![was] = NULL, ![b] = t]
  BY DEF Str!StrListAssumption
<1> HIDE DEF v, old, was
<1>6. /\ told' \in [Blocks -> Phrases \cup {NULL}]
      /\ \A c \in Blocks : told'[c] = IF c = b THEN t ELSE IF c = was THEN NULL ELSE told[c]
  BY <1>1, <1>2, <1>5
<1>7. Shown(v) \cap held' = {} /\ Shown(v) \cup held' \subseteq old \cup held \cup Str!Free
  BY <1>1, <1>4, <1>5
<1>8. \A c \in Shown(v) \cup held' : told'[c] # NULL
  BY <1>1, <1>2, <1>4, <1>5, <1>6
<1>9. \A c \in (old \cup held \cup Str!Free) \ (Shown(v) \cup held') : told'[c] = NULL
  BY <1>1, <1>2, <1>4, <1>5, <1>6
<1>10. \A c \in Blocks \ (old \cup held \cup Str!Free) : told'[c] = told[c]
  BY <1>4, <1>5, <1>6
<1> QED BY <1>4, <1>5, <1>6, <1>7, <1>8, <1>9, <1>10, ListGets DEF old

\* realloc frees the block that it moves a string from.
LEMMA ReplaceKeeps ==
  ASSUME Str!StrListAssumption, StrInv, NEW l \in Lists, NEW index \in Nat, NEW t \in Phrases,
         Str!strListReplace(l, index, t)
  PROVE  StrInv'
<1>1. Str!Usable(l) /\ index < Str!strListCount(vec[l]) /\ UNCHANGED <<held, retired>>
  BY DEF Str!strListReplace
<1>2. PICK b \in Str!Free \cup {vec[l][index + 1]} :
        /\ Str!Is(l, [vec[l] EXCEPT ![index + 1] = b])
        /\ told' = [told EXCEPT ![vec[l][index + 1]] = NULL, ![b] = t]
  BY DEF Str!strListReplace
<1>3. index + 1 \in 1 .. Str!strListCount(vec[l])
  <2>1. Vector(vec[l])
    BY <1>1, OwnFacts
  <2> QED BY <1>1, <2>1, VectorFacts
<1> QED BY <1>1, <1>2, <1>3, BlockReplaced

\* The old string is freed once its copy stands in its place.
LEMMA ModifyEachKeeps ==
  ASSUME Str!StrListAssumption, StrInv, NEW l \in Lists, Str!strListModifyEach(l)
  PROVE  StrInv'
<1>1. Str!Usable(l) /\ UNCHANGED <<held, retired>>
  BY DEF Str!strListModifyEach
<1>2. PICK i \in 1 .. Str!strListCount(vec[l]), b \in Str!Free, t \in Phrases :
        /\ told' = [told EXCEPT ![vec[l][i]] = NULL, ![b] = t]
        /\ Str!Is(l, [vec[l] EXCEPT ![i] = b])
  BY DEF Str!strListModifyEach
<1> QED BY <1>1, <1>2, BlockReplaced

\* Two strings change places and stay the list's.
LEMMA SwapKeeps ==
  ASSUME Str!StrListAssumption, StrInv, NEW l \in Lists, NEW i \in Nat, NEW j \in Nat,
         Str!strListSwap(l, i, j)
  PROVE  StrInv'
<1> DEFINE v == Str!Swapped(vec[l], i, j)
<1>1. Str!Usable(l) /\ i < Str!strListCount(vec[l]) /\ j < i /\ Str!Is(l, v) /\ UNCHANGED <<told, held, retired>>
  BY DEF Str!strListSwap
<1>2. Vector(vec[l]) /\ Distinct(Str!Strings(vec[l]))
  BY <1>1, OwnFacts
<1>3. i \in 0 .. Str!strListCount(vec[l]) - 1 /\ j \in 0 .. Str!strListCount(vec[l]) - 1
  BY <1>1, <1>2, VectorFacts
<1>4. Vector(v) /\ Distinct(Str!Strings(v)) /\ Shown(v) = Shown(vec[l])
  BY <1>2, <1>3, SwappedIs
<1> DEFINE gone == {}
<1>5. gone \in SUBSET Shown(vec[l]) /\ Shown(v) = Shown(vec[l]) \ gone /\ held' = held \cup gone
  BY <1>1, <1>4
<1> HIDE DEF v, gone
<1> QED BY <1>1, <1>4, <1>5, StringsLeave

\* strListFree and strListFastDeleteAll free what the list shows.
LEMMA EmptyKeeps ==
  ASSUME Str!StrListAssumption, StrInv, NEW l \in Lists, Str!strListFastDeleteAll(l) \/ Str!strListFree(l)
  PROVE  StrInv'
<1> DEFINE gone == Str!Range(Str!Strings(vec[l]))
<1>1. /\ Str!Usable(l) /\ vec[l] # Str!None /\ Str!strListFreeString(gone) /\ UNCHANGED <<held, retired>>
      /\ Str!Is(l, [vec[l] EXCEPT ![1] = NULL]) \/ Str!Is(l, Str!None)
  BY DEF Str!strListFastDeleteAll, Str!strListFree
<1>2. Vector(vec[l]) /\ Str!Strings(vec[l]) \in Seq(Blocks)
  BY <1>1, OwnFacts
<1>3. PICK v : Str!Is(l, v) /\ Vector(v) /\ Str!Strings(v) = <<>>
  BY <1>1, <1>2, EmptiedIs, InitIs
<1>4. Shown(v) = {} /\ Distinct(Str!Strings(v))
  BY <1>3, NoneEls DEF Shown
<1>5. gone = Shown(vec[l])
  BY <1>2, RangeIsEls DEF Shown
<1> HIDE DEF gone
<1>6. gone \in SUBSET Shown(vec[l]) /\ Shown(v) = Shown(vec[l]) \ gone
  BY <1>4, <1>5
<1> QED BY <1>1, <1>3, <1>4, <1>6, StringsLeave

\* What the list showed is freed; the new strings may take the same blocks.
LEMMA SplitNewKeeps ==
  ASSUME Str!StrListAssumption, StrInv, NEW l \in Lists, NEW texts \in Seq(Phrases), Str!strListSplitNew(l, texts)
  PROVE  StrInv'
<1> DEFINE emptied == [j \in DOMAIN vec[l] |-> IF j <= Str!strListCount(vec[l]) THEN NULL ELSE vec[l][j]]
           freed == Str!Range(Str!Strings(vec[l]))
<1>1. Str!Usable(l) /\ vec[l] # Str!None /\ UNCHANGED <<held, retired>>
  BY DEF Str!strListSplitNew
<1>2. PICK bs \in UNION {{f \in [1 .. k -> Str!Free \cup freed] : Str!IsInjective(f)} : k \in 0 .. Len(texts)} :
        /\ Str!Is(l, IF bs = <<>> THEN emptied ELSE Str!str_list_append(emptied, bs))
        /\ told' = [b \in Blocks |->
             IF b \in Str!Range(bs) THEN texts[CHOOSE i \in DOMAIN bs : bs[i] = b]
             ELSE IF b \in freed THEN NULL ELSE told[b]]
  BY DEF Str!strListSplitNew
<1>3. /\ Vector(vec[l]) /\ Str!Strings(vec[l]) \in Seq(Blocks)
      /\ Shown(vec[l]) \subseteq Blocks /\ held \subseteq Blocks /\ Str!Free \subseteq Blocks
      /\ Shown(vec[l]) \cap held = {}
      /\ \A c \in Shown(vec[l]) \cup held : told[c] # NULL
      /\ \A c \in Str!Free : told[c] = NULL
      /\ told \in [Blocks -> Phrases \cup {NULL}]
  BY <1>1, OwnFacts
<1>4. freed = Shown(vec[l])
  BY <1>3, RangeIsEls DEF Shown
<1>5. Vector(emptied) /\ Str!Strings(emptied) = <<>>
  BY <1>1, <1>3, EmptiedIs
<1>6. Shown(emptied) = {} /\ Distinct(Str!Strings(emptied))
  BY <1>5, NoneEls DEF Shown
<1> DEFINE old == Shown(vec[l])
           v == IF bs = <<>> THEN emptied ELSE Str!str_list_append(emptied, bs)
           A == Str!Free \cup freed
<1>7. A \in SUBSET Blocks /\ \E k \in 0 .. Len(texts) : bs \in [1 .. k -> A] /\ Str!IsInjective(bs)
  BY <1>2, <1>3, <1>4
<1> HIDE DEF A, freed, emptied
<1>8. /\ bs \in Seq(Blocks) /\ Distinct(bs) /\ Els(bs) \subseteq A /\ Els(bs) = Str!Range(bs)
      /\ \A b \in Els(bs) : Said(texts, bs, b) \in Phrases
  BY <1>7, WrittenIs
<1>9. Vector(v) /\ Distinct(Str!Strings(v)) /\ Shown(v) = Els(bs)
  <2>1. Els(bs) \cap Shown(emptied) = {}
    BY <1>6
  <2>2. Vector(v) /\ Distinct(Str!Strings(v)) /\ Shown(v) = Shown(emptied) \cup Els(bs)
    BY <1>5, <1>6, <1>8, <2>1, AppendIs
  <2> QED BY <1>6, <2>2
<1>10. told' = [b \in Blocks |-> IF b \in Els(bs) THEN Said(texts, bs, b)
                                 ELSE IF b \in old THEN NULL ELSE told[b]]
  BY <1>2, <1>4, <1>8 DEF Said
<1>11. Els(bs) \subseteq Str!Free \cup old
  BY <1>4, <1>8 DEF A
<1>12. Str!Is(l, v)
  BY <1>2
<1> HIDE DEF old, v
<1>13. /\ told' \in [Blocks -> Phrases \cup {NULL}]
       /\ \A b \in Els(bs) : told'[b] # NULL
       /\ \A b \in Blocks \ Els(bs) : told'[b] = IF b \in old THEN NULL ELSE told[b]
  <2>1. \A b \in Els(bs) : b \in Blocks
    BY <1>3, <1>11 DEF old
  <2>2. \A b \in Blocks : told[b] \in Phrases \cup {NULL}
    BY <1>3
  <2> QED BY <1>8, <1>10, <2>1, <2>2 DEF Str!StrListAssumption
<1>14. Shown(v) \cap held' = {} /\ Shown(v) \cup held' \subseteq old \cup held \cup Str!Free
  BY <1>1, <1>3, <1>9, <1>11 DEF old
<1>15. \A b \in Shown(v) \cup held' : told'[b] # NULL
  BY <1>1, <1>3, <1>9, <1>13, <1>14 DEF old
<1>16. \A b \in (old \cup held \cup Str!Free) \ (Shown(v) \cup held') : told'[b] = NULL
  BY <1>1, <1>3, <1>9, <1>13 DEF old
<1>17. \A b \in Blocks \ (old \cup held \cup Str!Free) : told'[b] = told[b]
  BY <1>9, <1>13, <1>14
<1> QED BY <1>1, <1>9, <1>12, <1>13, <1>14, <1>15, <1>16, <1>17, ListGets DEF old

\* What a list in use says is a sequence of texts.
LEMMA OfIs ==
  ASSUME Str!StrListAssumption, StrInv, NEW l \in Lists, Str!Usable(l)
  PROVE  Str!Of(Str!Strings(vec[l])) \in Seq(Phrases)
<1> DEFINE s == Str!Strings(vec[l])
<1>1. s \in Seq(Blocks) /\ \A b \in Shown(vec[l]) : b \in Blocks /\ told[b] # NULL
  BY OwnFacts
<1>2. \A b \in Blocks : told[b] \in Phrases \cup {NULL}
  BY OwnFacts
<1>3. Shown(vec[l]) = Els(s)
  BY DEF Shown
<1> HIDE DEF s
<1>4. PICK n \in Nat : n = Len(s)
  BY <1>1, SeqFacts
<1>5. \A i \in 1 .. n : told[s[i]] \in Phrases
  BY <1>1, <1>2, <1>3, <1>4 DEF Els
<1>6. Str!Of(s) = [i \in 1 .. n |-> told[s[i]]]
  BY <1>1, <1>4, SeqFacts DEF Str!Of
<1>7. Str!Of(s) \in [1 .. n -> Phrases]
  BY <1>5, <1>6
<1> QED BY <1>4, <1>7, SeqDef DEF s

\* The copy's strings are new, and so is its list.
LEMMA DupKeeps ==
  ASSUME Str!StrListAssumption, StrInv, NEW l \in Lists, NEW dup \in Lists, Str!strListDup(l, dup)
  PROVE  StrInv'
<1> DEFINE texts == Str!Of(Str!Strings(vec[l]))
<1>1. Str!Usable(l) /\ vec[dup] = Str!None /\ UNCHANGED <<held, retired>>
  BY DEF Str!strListDup
<1>2. Str!Usable(dup)
  BY <1>1 DEF StrInv, StrTypes, Str!Usable
<1>3. PICK bs \in Str!Allocations(texts) : Str!Written(texts, bs) /\ Str!Is(dup, Str!Terminated(bs))
  BY DEF Str!strListDup
<1>4. texts \in Seq(Phrases)
  BY <1>1, OfIs
<1> HIDE DEF texts
<1>5. bs \in Seq(Blocks) /\ Distinct(bs)
  BY <1>3, <1>4, AllocatedIs
<1> DEFINE v == Str!Terminated(bs)
<1>6. Vector(v) /\ Str!Strings(v) = bs
  BY <1>5, TerminatedIs
<1>7. Shown(vec[dup]) = {}
  BY <1>1, InitIs, NoneEls DEF Shown
<1>8. Distinct(Str!Strings(v)) /\ Shown(v) = Shown(vec[dup]) \cup Els(bs) /\ Str!Is(dup, v)
  BY <1>3, <1>5, <1>6, <1>7 DEF Shown
<1> HIDE DEF v
<1> QED BY <1>1, <1>2, <1>3, <1>4, <1>6, <1>8, CopiesCome

\* What is freed and what stays are the strings there were.
LEMMA DedupeKeeps ==
  ASSUME Str!StrListAssumption, StrInv, NEW l \in Lists, Str!strListDedupe(l)
  PROVE  StrInv'
<1> DEFINE s == Str!Strings(vec[l])
           again == {i \in DOMAIN s : \E j \in 1 .. i - 1 : told[s[j]] = told[s[i]]}
           w == Str!Picked(s, DOMAIN s \ again)
           gone == {s[i] : i \in again}
           v == Str!Terminated(w)
<1>1. Str!Usable(l) /\ Str!Is(l, v) /\ Str!strListFreeString(gone) /\ UNCHANGED <<held, retired>>
  BY DEF Str!strListDedupe
<1>2. Vector(vec[l]) /\ s \in Seq(Blocks) /\ Distinct(s)
  BY <1>1, OwnFacts
<1>3. DOMAIN s = 1 .. Len(s) /\ again \in SUBSET DOMAIN s
  BY <1>2, SeqFacts
<1>4. Shown(vec[l]) = {s[i] : i \in DOMAIN s}
  BY <1>3 DEF Shown, Els
<1> HIDE DEF s, again
<1>5. w \in Seq(Blocks) /\ Els(w) = {s[i] : i \in DOMAIN s \ again} /\ Distinct(w)
  BY <1>2, PickedIs
<1> HIDE DEF w
<1>6. Vector(v) /\ Str!Strings(v) = w
  BY <1>5, TerminatedIs
<1>7. gone \in SUBSET Shown(vec[l]) /\ Shown(v) = Shown(vec[l]) \ gone
  <2>1. \A i, j \in DOMAIN s : s[i] = s[j] => i = j
    BY <1>2, <1>3 DEF Distinct
  <2>2. Shown(v) = {s[i] : i \in DOMAIN s \ again}
    BY <1>5, <1>6 DEF Shown
  <2>3. \A x \in Shown(v) : x \in Shown(vec[l]) \ gone
    BY <1>3, <1>4, <2>1, <2>2
  <2>4. \A x \in Shown(vec[l]) \ gone : x \in Shown(v)
    BY <1>4, <2>2
  <2>5. gone \in SUBSET Shown(vec[l])
    BY <1>3, <1>4
  <2> QED BY <2>3, <2>4, <2>5
<1> HIDE DEF gone, v
<1> QED BY <1>1, <1>5, <1>6, <1>7, StringsLeave

\* The same for the blank ones, in place or not.
LEMMA DeleteBlanksKeeps ==
  ASSUME Str!StrListAssumption, StrInv, NEW l \in Lists, NEW fast \in BOOLEAN, Str!DeleteBlanks(l, fast)
  PROVE  StrInv'
<1> DEFINE s == Str!Strings(vec[l])
           places == {i \in DOMAIN s : told[s[i]] # Blank}
           kept == Str!Picked(s, places)
           gone == Str!Range(s) \ Str!Range(kept)
<1>1. /\ Str!Usable(l) /\ vec[l] # Str!None /\ UNCHANGED <<held, retired>>
      /\ Str!Is(l, Str!FastKept(vec[l], kept)) \/ Str!Is(l, Str!Terminated(kept))
      /\ Str!strListFreeString(gone)
  BY DEF Str!DeleteBlanks
<1>2. Vector(vec[l]) /\ s \in Seq(Blocks) /\ Distinct(s) /\ Len(s) = Str!strListCount(vec[l])
  BY <1>1, OwnFacts, VectorFacts
<1>3. DOMAIN s = 1 .. Len(s) /\ places \in SUBSET DOMAIN s
  BY <1>2, SeqFacts
<1>4. Shown(vec[l]) = {s[i] : i \in DOMAIN s} /\ Shown(vec[l]) = Els(s)
  BY <1>3 DEF Shown, Els
<1> HIDE DEF s, places
<1>5. /\ kept \in Seq(Blocks) /\ Els(kept) = {s[i] : i \in places} /\ Distinct(kept)
      /\ Len(kept) \in 0 .. Str!strListCount(vec[l])
  BY <1>2, <1>3, PickedIs
<1>6. Str!Range(s) = Els(s) /\ Str!Range(kept) = Els(kept)
  BY <1>2, <1>5, RangeIsEls
<1> HIDE DEF kept
<1>7. PICK v : Str!Is(l, v) /\ Vector(v) /\ Str!Strings(v) = kept
  BY <1>1, <1>2, <1>5, TerminatedIs, FastKeptIs
<1>8. gone \in SUBSET Shown(vec[l]) /\ Shown(v) = Shown(vec[l]) \ gone
  <2>1. Shown(v) = Els(kept) /\ gone = Els(s) \ Els(kept) /\ Els(kept) \subseteq Els(s)
    BY <1>3, <1>4, <1>5, <1>6, <1>7 DEF Shown
  <2> QED BY <1>4, <2>1
<1> HIDE DEF gone
<1> QED BY <1>1, <1>5, <1>7, <1>8, StringsLeave

\* The strings of a list go to another, and the list is out of use.
LEMMA MergeKeeps ==
  ASSUME Str!StrListAssumption, StrInv, NEW l \in Lists, NEW src \in Lists, Str!strListMerge(l, src)
  PROVE  StrInv'
<1> DEFINE bs == Str!Strings(vec[src])
           v == IF Str!strListCount(vec[src]) = 0 THEN vec[l] ELSE Str!str_list_append(vec[l], bs)
<1>1. /\ Str!Usable(l) /\ Str!Usable(src) /\ l # src /\ vec[src] # Str!None /\ Str!Is(l, v)
      /\ retired' = retired \cup {src} /\ UNCHANGED <<told, held>>
  BY DEF Str!strListMerge
<1>2. /\ Vector(vec[l]) /\ Distinct(Str!Strings(vec[l])) /\ Shown(vec[l]) \cap held = {}
      /\ Vector(vec[src]) /\ Distinct(bs) /\ bs \in Seq(Blocks) /\ Els(bs) \cap held = {}
      /\ Shown(vec[src]) = Els(bs) /\ held \subseteq Blocks /\ told \in [Blocks -> Phrases \cup {NULL}]
  BY <1>1, OwnFacts DEF Shown
<1>3. l \in InUse /\ src \in InUse /\ InUse' = InUse \ {src} /\ InUse \subseteq Lists
  BY <1>1 DEF InUse, Str!Usable
<1>4. Els(bs) \cap Shown(vec[l]) = {}
  BY <1>1, <1>2, <1>3 DEF StrInv, StrOwners
<1>5. Str!strListCount(vec[src]) = 0 <=> bs = <<>>
  <2>1. Len(bs) = Str!strListCount(vec[src]) /\ Str!strListCount(vec[src]) \in Nat
    BY <1>2, VectorFacts
  <2>2. bs # <<>> => Len(bs) \in Nat \ {0}
    BY <1>2, EmptySeq
  <2>3. bs = <<>> => Len(bs) = 0
    BY EmptySeq
  <2> HIDE DEF bs
  <2> QED BY <2>1, <2>2, <2>3
<1>6. Vector(v) /\ Distinct(Str!Strings(v)) /\ Shown(v) = Shown(vec[l]) \cup Shown(vec[src])
  BY <1>2, <1>4, <1>5, AppendIs
<1> HIDE DEF v, bs
<1>7. /\ vec'[l] = v /\ DOMAIN vec' = Lists /\ vec' = [m \in Lists |-> vec'[m]]
      /\ \A m \in Lists \ {l} : vec'[m] = vec[m]
  BY <1>1 DEF StrInv, StrTypes, Str!Is
<1>8. StrTypes'
  <2>1. \A m \in Lists : Vector(vec'[m])
    BY <1>6, <1>7 DEF StrInv, StrTypes
  <2>2. \A m \in retired' : vec'[m] # Str!None
    BY <1>1, <1>7 DEF StrInv, StrTypes, Str!Usable
  <2>3. retired' \subseteq Lists /\ held' \subseteq Blocks /\ told' \in [Blocks -> Phrases \cup {NULL}]
    BY <1>1, <1>2 DEF StrInv, StrTypes
  <2> QED BY <1>7, <2>1, <2>2, <2>3 DEF StrTypes
\* What the lists that stay in use show: theirs, or theirs and the strings that came.
<1>9. \A m \in InUse' : m = l \/ (m # l /\ m # src /\ m \in InUse /\ vec'[m] = vec[m])
  BY <1>3, <1>7
<1>10. /\ \A m \in InUse : Distinct(Str!Strings(vec[m])) /\ Shown(vec[m]) \cap held = {}
       /\ \A k, m \in InUse : k # m => Shown(vec[k]) \cap Shown(vec[m]) = {}
       /\ \A b \in Blocks : told[b] # NULL <=> b \in held \/ \E m \in InUse : b \in Shown(vec[m])
  BY DEF StrInv, StrOwners
<1>11. \A m \in InUse' : Distinct(Str!Strings(vec'[m])) /\ Shown(vec'[m]) \cap held' = {}
  <2> SUFFICES ASSUME NEW m \in InUse' PROVE Distinct(Str!Strings(vec'[m])) /\ Shown(vec'[m]) \cap held' = {}
    OBVIOUS
  <2>1. CASE m = l
    BY <1>1, <1>3, <1>6, <1>7, <1>10, <2>1
  <2>2. CASE m # l
    BY <1>1, <1>9, <1>10, <2>2
  <2> QED BY <2>1, <2>2
<1>12. \A k, m \in InUse' : k # m => Shown(vec'[k]) \cap Shown(vec'[m]) = {}
  <2>1. \A m \in InUse' : m # l => Shown(vec'[m]) \cap Shown(vec'[l]) = {}
    <3> SUFFICES ASSUME NEW m \in InUse', m # l PROVE Shown(vec'[m]) \cap Shown(vec'[l]) = {}
      OBVIOUS
    <3>1. m # src /\ m \in InUse /\ vec'[m] = vec[m]
      BY <1>9
    <3> QED BY <1>3, <1>6, <1>7, <1>10, <3>1
  <2>2. \A k, m \in InUse' : k # l /\ m # l /\ k # m => Shown(vec'[k]) \cap Shown(vec'[m]) = {}
    BY <1>9, <1>10
  <2> SUFFICES ASSUME NEW k \in InUse', NEW m \in InUse', k # m
               PROVE  Shown(vec'[k]) \cap Shown(vec'[m]) = {}
    OBVIOUS
  <2>3. CASE k = l
    BY <2>1, <2>3
  <2>4. CASE m = l
    BY <2>1, <2>4
  <2> QED BY <2>2, <2>3, <2>4
<1>13. ASSUME NEW b \in Blocks
       PROVE  told'[b] # NULL <=> b \in held' \/ \E m \in InUse' : b \in Shown(vec'[m])
  <2>1. (\E m \in InUse' : b \in Shown(vec'[m])) => \E m \in InUse : b \in Shown(vec[m])
    BY <1>3, <1>6, <1>7, <1>9
  <2>2. ASSUME NEW m \in InUse, b \in Shown(vec[m]) PROVE \E k \in InUse' : b \in Shown(vec'[k])
    <3>1. CASE m = l \/ m = src
      <4>1. l \in InUse' /\ b \in Shown(vec'[l])
        BY <1>1, <1>3, <1>6, <1>7, <2>2, <3>1
      <4> QED BY <4>1
    <3>2. CASE m # l /\ m # src
      <4>1. m \in InUse' /\ b \in Shown(vec'[m])
        BY <1>3, <1>7, <2>2, <3>2
      <4> QED BY <4>1
    <3> QED BY <3>1, <3>2
  <2> QED BY <1>1, <1>10, <2>1, <2>2
<1>14. StrOwners'
  BY <1>11, <1>12, <1>13 DEF StrOwners
<1> QED BY <1>8, <1>14 DEF StrInv

\* The vector of a list out of use is freed, and the variable shows nothing.
LEMMA FreeContainerKeeps ==
  ASSUME Str!StrListAssumption, StrInv, NEW l \in Lists, Str!strListFreeContainer(l)
  PROVE  StrInv'
<1>1. l \in retired /\ Str!Is(l, Str!None) /\ retired' = retired \ {l} /\ UNCHANGED <<told, held>>
  BY DEF Str!strListFreeContainer, Str!Usable
<1>2. /\ vec'[l] = Str!None /\ DOMAIN vec' = Lists /\ vec' = [m \in Lists |-> vec'[m]]
      /\ \A m \in Lists \ {l} : vec'[m] = vec[m]
  BY <1>1 DEF StrInv, StrTypes, Str!Is
<1>3. Vector(Str!None) /\ Distinct(Str!Strings(Str!None)) /\ Shown(Str!None) = {}
  BY InitIs, NoneEls DEF Shown
<1>4. InUse' = InUse \cup {l} /\ l \notin InUse
  BY <1>1 DEF InUse
<1>5. \A m \in InUse : vec'[m] = vec[m]
  BY <1>2, <1>4 DEF InUse
<1>6. StrTypes'
  <2>1. \A m \in Lists : Vector(vec'[m])
    BY <1>2, <1>3 DEF StrInv, StrTypes
  <2>2. \A m \in retired' : vec'[m] # Str!None
    BY <1>1, <1>2 DEF StrInv, StrTypes
  <2>3. retired' \subseteq Lists /\ held' \subseteq Blocks /\ told' \in [Blocks -> Phrases \cup {NULL}]
    BY <1>1 DEF StrInv, StrTypes
  <2> QED BY <1>2, <2>1, <2>2, <2>3 DEF StrTypes
<1>7. /\ \A m \in InUse : Distinct(Str!Strings(vec[m])) /\ Shown(vec[m]) \cap held = {}
      /\ \A k, m \in InUse : k # m => Shown(vec[k]) \cap Shown(vec[m]) = {}
      /\ \A b \in Blocks : told[b] # NULL <=> b \in held \/ \E m \in InUse : b \in Shown(vec[m])
  BY DEF StrInv, StrOwners
<1>8. \A m \in InUse' : Distinct(Str!Strings(vec'[m])) /\ Shown(vec'[m]) \cap held' = {}
  BY <1>1, <1>2, <1>3, <1>4, <1>5, <1>7
<1>9. \A k, m \in InUse' : k # m => Shown(vec'[k]) \cap Shown(vec'[m]) = {}
  <2> SUFFICES ASSUME NEW k \in InUse', NEW m \in InUse', k # m
               PROVE  Shown(vec'[k]) \cap Shown(vec'[m]) = {}
    OBVIOUS
  <2>1. CASE k = l \/ m = l
    BY <1>2, <1>3, <2>1
  <2>2. CASE k # l /\ m # l
    BY <1>4, <1>5, <1>7, <2>2
  <2> QED BY <2>1, <2>2
<1>10. ASSUME NEW b \in Blocks
       PROVE  told'[b] # NULL <=> b \in held' \/ \E m \in InUse' : b \in Shown(vec'[m])
  <2>1. (\E m \in InUse' : b \in Shown(vec'[m])) <=> \E m \in InUse : b \in Shown(vec[m])
    BY <1>2, <1>3, <1>4, <1>5
  <2> QED BY <1>1, <1>7, <2>1
<1>11. StrOwners'
  BY <1>8, <1>9, <1>10 DEF StrOwners
<1> QED BY <1>6, <1>11 DEF StrInv

-----------------------------------------------------------------------------
(* Every step, and what the invariant says *)

\* No list has a vector yet, and nothing is allocated.
LEMMA StrInit ==
  ASSUME Str!StrListAssumption, Str!Init
  PROVE  StrInv
<1>1. vec = [l \in Lists |-> Str!None] /\ told = [b \in Blocks |-> NULL] /\ held = {} /\ retired = {}
  BY DEF Str!Init
<1>2. \A l \in Lists : vec[l] = Str!None
  BY <1>1
<1>3. Vector(Str!None) /\ Distinct(Str!Strings(Str!None)) /\ Shown(Str!None) = {}
  BY InitIs, NoneEls DEF Shown
<1>4. StrTypes
  <2>1. \A l \in Lists : Vector(vec[l])
    BY <1>2, <1>3
  <2>2. DOMAIN vec = Lists /\ vec = [l \in Lists |-> vec[l]]
    BY <1>1
  <2> QED BY <1>1, <2>1, <2>2 DEF StrTypes
<1>5. StrOwners
  BY <1>1, <1>2, <1>3 DEF StrOwners, InUse
<1> QED BY <1>4, <1>5 DEF StrInv

\* Every operation is one of those above.
LEMMA StrNext ==
  ASSUME Str!StrListAssumption, KnownCells, ~InitRecovers, StrInv, [Str!Next]_(Str!vars)
  PROVE  StrInv'
<1>1. \A i \in Str!Indices : i \in Nat
  <2>1. Cardinality(Blocks) \in Nat
    BY FS_CardinalityType, StrSets DEF Str!StrListAssumption
  <2> QED BY <2>1, StrSets DEF Str!Indices
<1>2. \A texts \in Str!Several : texts \in Seq(Phrases)
  <2>1. \A m \in 0 .. MaxTokens : m \in Nat
    BY DEF Str!StrListAssumption
  <2> QED BY <2>1, SeqDef DEF Str!Several, Str!SeqOf
<1>3. CASE Str!AllocString
  BY <1>3, AllocStringKeeps
<1>4. ASSUME NEW b \in Blocks, Str!FreeString(b) PROVE StrInv'
  BY <1>4, FreeStringKeeps
<1>5. ASSUME NEW l \in Lists, NEW texts \in Str!Several,
             \/ Str!AppendTexts(l, texts) \/ Str!AppendAllTexts(l, texts) \/ Str!strListSplitNew(l, texts)
             \/ \E i \in Str!Indices : Str!InsertTexts(l, texts, i)
      PROVE  StrInv'
  <2>1. texts \in Seq(Phrases)
    BY <1>2
  <2> QED BY <1>1, <1>5, <2>1, AppendTextsKeeps, SplitNewKeeps, InsertTextsKeeps
<1>6. ASSUME NEW l \in Lists, NEW b \in Blocks, Str!strListAnnex(l, b) PROVE StrInv'
  BY <1>6, AnnexKeeps
<1>7. ASSUME NEW l \in Lists, NEW i \in Str!Indices, Str!strListRemove(l, i) \/ Str!strListDelete(l, i) PROVE StrInv'
  BY <1>1, <1>7, RemoveKeeps
<1>8. ASSUME NEW l \in Lists, NEW i \in Str!Indices, NEW n \in Str!Indices,
             Str!FastRemove(l, i, n) \/ Str!strListFastDelete(l, i, n)
      PROVE  StrInv'
  BY <1>1, <1>8, FastRemoveKeeps
<1>9. ASSUME NEW l \in Lists, NEW i \in Str!Indices, NEW t \in Phrases, Str!strListReplace(l, i, t) PROVE StrInv'
  BY <1>1, <1>9, ReplaceKeeps
<1>10. ASSUME NEW l \in Lists, NEW i \in Str!Indices, NEW j \in Str!Indices, Str!strListSwap(l, i, j) PROVE StrInv'
  BY <1>1, <1>10, SwapKeeps
<1>11. ASSUME NEW l \in Lists, Str!strListModifyEach(l) \/ Str!strListFastDeleteAll(l) \/ Str!strListFree(l) PROVE StrInv'
  BY <1>11, ModifyEachKeeps, EmptyKeeps
<1>12. ASSUME NEW l \in Lists, NEW src \in Lists, Str!strListDup(l, src) \/ Str!strListMerge(l, src) PROVE StrInv'
  BY <1>12, DupKeeps, MergeKeeps
<1>13. ASSUME NEW l \in Lists, NEW add \in Lists, Str!Usable(add), Str!AppendAllTexts(l, Str!Of(Str!Strings(vec[add])))
       PROVE  StrInv'
  <2>1. Str!Of(Str!Strings(vec[add])) \in Seq(Phrases)
    BY <1>13, OfIs
  <2> QED BY <1>13, <2>1, AppendTextsKeeps
<1>14. ASSUME NEW l \in Lists, Str!strListFreeContainer(l) \/ Str!strListDedupe(l) PROVE StrInv'
  BY <1>14, FreeContainerKeeps, DedupeKeeps
<1>15. ASSUME NEW l \in Lists, NEW fast \in BOOLEAN, Str!DeleteBlanks(l, fast) PROVE StrInv'
  BY <1>15, DeleteBlanksKeeps
<1>16. CASE UNCHANGED Str!vars
  <2>1. UNCHANGED <<vec, told, held, retired>>
    BY <1>16 DEF Str!vars
  <2>2. StrTypes'
    BY <2>1 DEF StrInv, StrTypes
  <2>3. StrOwners'
    BY <2>1 DEF StrInv, StrOwners, InUse
  <2> QED BY <2>2, <2>3 DEF StrInv
<1> QED BY <1>3, <1>4, <1>5, <1>6, <1>7, <1>8, <1>9, <1>10, <1>11, <1>12, <1>13, <1>14, <1>15, <1>16
        DEF Str!Next

\* Where a block is: of an invariant state, in one place at most.
LEMMA PlacesAre ==
  ASSUME Str!StrListAssumption, StrInv, NEW b \in Blocks
  PROVE  /\ (\E l \in InUse : b \in Shown(vec[l])) => \E p : Str!Places(b) = {p}
         /\ ~(\E l \in InUse : b \in Shown(vec[l])) => Str!Places(b) = {}
<1>1. \A p : p \in Str!Places(b) <=>
        \E l \in InUse : \E i \in 1 .. Str!strListCount(vec[l]) : p = <<l, i>> /\ vec[l][i] = b
  BY DEF Str!Places, InUse
<1>2. \A l \in InUse : \A i \in 1 .. Str!strListCount(vec[l]) :
        /\ i \in 1 .. Len(Str!Strings(vec[l])) /\ Str!Strings(vec[l])[i] = vec[l][i]
        /\ vec[l][i] \in Shown(vec[l])
  <2> SUFFICES ASSUME NEW l \in InUse, NEW i \in 1 .. Str!strListCount(vec[l])
               PROVE  /\ i \in 1 .. Len(Str!Strings(vec[l])) /\ Str!Strings(vec[l])[i] = vec[l][i]
                      /\ vec[l][i] \in Shown(vec[l])
    OBVIOUS
  <2>1. Vector(vec[l])
    BY ShownFacts DEF InUse
  <2>2. i \in 1 .. Len(Str!Strings(vec[l])) /\ Str!Strings(vec[l])[i] = vec[l][i]
    BY <2>1, VectorFacts
  <2> QED BY <2>2 DEF Shown, Els
<1>3. ASSUME NEW l \in InUse, b \in Shown(vec[l]) PROVE \E p : Str!Places(b) = {p}
  <2>1. Vector(vec[l]) /\ Distinct(Str!Strings(vec[l]))
    BY ShownFacts DEF InUse, StrInv, StrOwners
  <2>2. PICK i \in 1 .. Len(Str!Strings(vec[l])) : Str!Strings(vec[l])[i] = b
    BY <1>3 DEF Shown, Els
  <2>3. i \in 1 .. Str!strListCount(vec[l]) /\ vec[l][i] = b
    BY <2>1, <2>2, VectorFacts
  <2>4. <<l, i>> \in Str!Places(b)
    BY <1>1, <2>3
  <2>5. ASSUME NEW p \in Str!Places(b) PROVE p = <<l, i>>
    <3>1. PICK m \in InUse : \E j \in 1 .. Str!strListCount(vec[m]) : p = <<m, j>> /\ vec[m][j] = b
      BY <1>1, <2>5
    <3>2. PICK j \in 1 .. Str!strListCount(vec[m]) : p = <<m, j>> /\ vec[m][j] = b
      BY <3>1
    <3>3. m = l
      BY <1>2, <1>3, <3>2 DEF StrInv, StrOwners
    <3>4. j = i
      BY <1>2, <2>1, <2>2, <3>2, <3>3 DEF Distinct
    <3> QED BY <3>2, <3>3, <3>4
  <2>6. Str!Places(b) = {<<l, i>>}
    BY <2>4, <2>5
  <2> QED BY <2>6
<1>4. ASSUME ~(\E l \in InUse : b \in Shown(vec[l])) PROVE Str!Places(b) = {}
  <2>1. \A p : p \notin Str!Places(b)
    BY <1>1, <1>2, <1>4
  <2> QED BY <2>1
<1> QED BY <1>3, <1>4

\* What the invariant says of owners is what the property counts.
LEMMA StrInvSuffices ==
  ASSUME Str!StrListAssumption, StrInv
  PROVE  Str!StringsAccounted
<1>1. ASSUME NEW l \in Lists, vec[l] # Str!None PROVE NULL \in Str!Range(vec[l])
  <2>1. vec[l] \in Seq(Blocks \cup {NULL}) /\ \E i \in 1 .. Len(vec[l]) : vec[l][i] = NULL
    BY <1>1 DEF StrInv, StrTypes, Vector
  <2>2. Str!Range(vec[l]) = Els(vec[l])
    BY <2>1, RangeIsEls
  <2> QED BY <2>1, <2>2 DEF Els
<1>2. ASSUME NEW b \in Blocks
      PROVE  Cardinality(Str!Places(b)) + (IF b \in held THEN 1 ELSE 0) = IF told[b] # NULL THEN 1 ELSE 0
  <2>1. told[b] # NULL <=> b \in held \/ \E l \in InUse : b \in Shown(vec[l])
    BY DEF StrInv, StrOwners
  <2>2. CASE \E l \in InUse : b \in Shown(vec[l])
    <3>1. Cardinality(Str!Places(b)) = 1
      BY <2>2, PlacesAre, FS_Singleton
    <3>2. b \notin held
      BY <2>2 DEF StrInv, StrOwners
    <3> QED BY <2>1, <2>2, <3>1, <3>2
  <2>3. CASE ~(\E l \in InUse : b \in Shown(vec[l]))
    <3>1. Cardinality(Str!Places(b)) = 0
      BY <2>3, PlacesAre, FS_EmptySet
    <3> QED BY <2>1, <2>3, <3>1
  <2> QED BY <2>2, <2>3
<1> QED BY <1>1, <1>2, StrSets DEF Str!StringsAccounted

\* In whatever order the functions of str_list.c are called, each string that was
\* allocated has one owner: the caller, or one place ahead of the NULL of one
\* list.  The callers of strListFastDelete are trusted to name strings of the list
\* (KnownCells): the code tests that cells are not NULL, and frees what stands
\* behind the end.  Allocations may fail but in two places that do not bear it:
\* memory is not back right after strListInit found none (~InitRecovers), and lasts
\* for the functions that go on after a failure (LossFree).
THEOREM StringsHaveOneOwner ==
  ASSUME Str!StrListAssumption, KnownCells, ~InitRecovers
  PROVE  Str!Spec => []StringsAccounted
<1>1. Str!Init => StrInv
  BY StrInit
<1>2. StrInv /\ [Str!Next]_(Str!vars) => StrInv'
  BY StrNext
<1>3. StrInv => StringsAccounted
  BY StrInvSuffices DEF StringsAccounted
<1> QED BY <1>1, <1>2, <1>3, PTL DEF Str!Spec
-----------------------------------------------------------------------------
(* Sections: operators *)

\* As StrSets, for IniFast.
LEMMA IniSets ==
  /\ \A S : Ini!IsFiniteSet(S) <=> IsFiniteSet(S)
  /\ \A S : Ini!Cardinality(S) = Cardinality(S)
<1>1. \A S : Ini!IsFiniteSet(S) <=> IsFiniteSet(S)
  BY DEF Ini!IsFiniteSet, IsFiniteSet
<1> QED BY <1>1 DEF Ini!Cardinality, Cardinality

\* As SeqFacts, to be cited of many sequences at once.
LEMMA SequenceFacts ==
  \A S : \A s \in Seq(S) :
    /\ Len(s) \in Nat /\ DOMAIN s = 1 .. Len(s)
    /\ \A i \in 1 .. Len(s) : s[i] \in S
  BY LenProperties, ElementOfSeq
-----------------------------------------------------------------------------
(* Sections: the order of their names *)

Spots == Nat \ {0}

\* The rank of a character, and less than any behind the end.
At(s, i) == IF i <= Len(s) THEN Rank[s[i]] ELSE -1

Alike(s, t) == \A i \in Spots : At(s, i) = At(t, i)
Precedes(s, t) == \E i \in Spots : At(s, i) < At(t, i) /\ \A j \in 1 .. i - 1 : At(s, j) = At(t, j)

NameCmp(s, t) ==
  LET c == Ini!strnicmp(s, t, Ini!Shorter(s, t)) IN IF c # 0 THEN c ELSE Len(s) - Len(t)

\* What At is: a number, and -1 exactly behind the end.
LEMMA AtFacts ==
  ASSUME Ini!FastAssumption, NEW s \in Seq(Chars), NEW i \in Spots
  PROVE  At(s, i) \in Int /\ At(s, i) >= -1 /\ (At(s, i) = -1 <=> i > Len(s))
<1>1. Len(s) \in Nat /\ (i <= Len(s) => s[i] \in Chars)
  BY SequenceFacts DEF Spots
<1>2. i <= Len(s) => Rank[s[i]] \in Nat
  BY <1>1 DEF Ini!FastAssumption
<1> QED BY <1>1, <1>2 DEF At, Spots

\* As LeastMember, of positions.
LEMMA LeastSpot ==
  ASSUME NEW T \in SUBSET Spots, T # {}
  PROVE  \E m \in T : \A k \in T : m <= k
BY LeastMember DEF Spots

\* Names that are alike are as long as each other.
LEMMA AlikeIs ==
  ASSUME Ini!FastAssumption, NEW s \in Seq(Chars), NEW t \in Seq(Chars)
  PROVE  /\ Alike(s, t) => Len(s) = Len(t)
         /\ Alike(s, t) <=> Alike(t, s)
         /\ Alike(s, s)
<1>1. ASSUME Alike(s, t), Len(s) < Len(t) PROVE FALSE
  <2>1. Len(s) \in Nat /\ Len(t) \in Nat /\ Len(t) \in Spots
    BY <1>1, SequenceFacts DEF Spots
  <2>2. At(s, Len(t)) = -1 /\ At(t, Len(t)) # -1
    BY <1>1, <2>1, AtFacts
  <2> QED BY <1>1, <2>1, <2>2 DEF Alike
<1>2. ASSUME Alike(s, t), Len(t) < Len(s) PROVE FALSE
  <2>1. Len(s) \in Nat /\ Len(t) \in Nat /\ Len(s) \in Spots
    BY <1>2, SequenceFacts DEF Spots
  <2>2. At(t, Len(s)) = -1 /\ At(s, Len(s)) # -1
    BY <1>2, <2>1, AtFacts
  <2> QED BY <1>2, <2>1, <2>2 DEF Alike
<1>3. Len(s) \in Nat /\ Len(t) \in Nat
  BY SequenceFacts
<1>4. Alike(s, t) => Len(s) = Len(t)
  BY <1>1, <1>2, <1>3
<1> QED BY <1>4 DEF Alike

\* Names are ordered: one is before the other unless they are alike.
LEMMA NamesOrdered ==
  ASSUME Ini!FastAssumption, NEW s \in Seq(Chars), NEW t \in Seq(Chars)
  PROVE  /\ Precedes(s, t) \/ Precedes(t, s) \/ Alike(s, t)
         /\ ~(Precedes(s, t) /\ Precedes(t, s))
         /\ ~(Precedes(s, t) /\ Alike(s, t))
         /\ ~Precedes(s, s)
<1>1. ASSUME ~Alike(s, t) PROVE Precedes(s, t) \/ Precedes(t, s)
  <2> DEFINE T == {i \in Spots : At(s, i) # At(t, i)}
  <2>1. T \in SUBSET Spots /\ T # {}
    BY <1>1 DEF Alike
  <2> HIDE DEF T
  <2>2. PICK m \in T : \A k \in T : m <= k
    BY <2>1, LeastSpot
  <2>3. m \in Spots /\ At(s, m) # At(t, m) /\ \A j \in 1 .. m - 1 : At(s, j) = At(t, j)
    BY <2>2 DEF T, Spots
  <2>4. At(s, m) \in Int /\ At(t, m) \in Int
    BY <2>3, AtFacts
  <2>5. At(s, m) < At(t, m) \/ At(t, m) < At(s, m)
    BY <2>3, <2>4
  <2>6. \A j \in 1 .. m - 1 : At(t, j) = At(s, j)
    BY <2>3
  <2> QED BY <2>3, <2>5, <2>6 DEF Precedes
<1>2. ASSUME Precedes(s, t), Precedes(t, s) PROVE FALSE
  <2>1. PICK i \in Spots : At(s, i) < At(t, i) /\ \A j \in 1 .. i - 1 : At(s, j) = At(t, j)
    BY <1>2 DEF Precedes
  <2>2. PICK k \in Spots : At(t, k) < At(s, k) /\ \A j \in 1 .. k - 1 : At(t, j) = At(s, j)
    BY <1>2 DEF Precedes
  <2>3. At(s, i) \in Int /\ At(t, i) \in Int /\ At(s, k) \in Int /\ At(t, k) \in Int
    BY AtFacts
  <2>4. i \in Nat /\ k \in Nat /\ i > 0 /\ k > 0
    BY DEF Spots
  <2>5. CASE i < k
    <3>1. i \in 1 .. k - 1
      BY <2>4, <2>5
    <3> QED BY <2>1, <2>2, <2>3, <3>1
  <2>6. CASE k < i
    <3>1. k \in 1 .. i - 1
      BY <2>4, <2>6
    <3> QED BY <2>1, <2>2, <2>3, <3>1
  <2>7. CASE i = k
    BY <2>1, <2>2, <2>3, <2>7
  <2> QED BY <2>4, <2>5, <2>6, <2>7
<1>3. ASSUME Precedes(s, t), Alike(s, t) PROVE FALSE
  <2>1. PICK i \in Spots : At(s, i) < At(t, i)
    BY <1>3 DEF Precedes
  <2> QED BY <1>3, <2>1, AtFacts DEF Alike
<1>4. ~Precedes(s, s)
  BY AtFacts DEF Precedes
<1> QED BY <1>1, <1>2, <1>3, <1>4

\* The order is one of names up to their case.
LEMMA PrecedesIsTransitive ==
  ASSUME Ini!FastAssumption, NEW s \in Seq(Chars), NEW t \in Seq(Chars), NEW u \in Seq(Chars)
  PROVE  /\ Precedes(s, t) /\ Precedes(t, u) => Precedes(s, u)
         /\ Precedes(s, t) /\ Alike(t, u) => Precedes(s, u)
         /\ Alike(s, t) /\ Precedes(t, u) => Precedes(s, u)
         /\ Alike(s, t) /\ Alike(t, u) => Alike(s, u)
<1>1. ASSUME Precedes(s, t), Precedes(t, u) PROVE Precedes(s, u)
  <2>1. PICK i \in Spots : At(s, i) < At(t, i) /\ \A j \in 1 .. i - 1 : At(s, j) = At(t, j)
    BY <1>1 DEF Precedes
  <2>2. PICK k \in Spots : At(t, k) < At(u, k) /\ \A j \in 1 .. k - 1 : At(t, j) = At(u, j)
    BY <1>1 DEF Precedes
  <2>3. \A p \in Spots : At(s, p) \in Int /\ At(t, p) \in Int /\ At(u, p) \in Int
    BY AtFacts
  <2>4. i \in Nat /\ k \in Nat /\ i > 0 /\ k > 0
    BY DEF Spots
  <2>5. CASE i < k
    <3>1. i \in 1 .. k - 1 /\ \A j \in 1 .. i - 1 : j \in 1 .. k - 1
      BY <2>4, <2>5
    <3>2. At(s, i) < At(u, i) /\ \A j \in 1 .. i - 1 : At(s, j) = At(u, j)
      BY <2>1, <2>2, <2>3, <3>1
    <3> QED BY <3>2 DEF Precedes
  <2>6. CASE k < i
    <3>1. k \in 1 .. i - 1 /\ \A j \in 1 .. k - 1 : j \in 1 .. i - 1
      BY <2>4, <2>6
    <3>2. At(s, k) < At(u, k) /\ \A j \in 1 .. k - 1 : At(s, j) = At(u, j)
      BY <2>1, <2>2, <2>3, <3>1
    <3> QED BY <3>2 DEF Precedes
  <2>7. CASE i = k
    <3>1. At(s, i) < At(u, i) /\ \A j \in 1 .. i - 1 : At(s, j) = At(u, j)
      BY <2>1, <2>2, <2>3, <2>7
    <3> QED BY <3>1 DEF Precedes
  <2> QED BY <2>4, <2>5, <2>6, <2>7
<1>2. \A i \in Spots : \A j \in 1 .. i - 1 : j \in Spots
  BY DEF Spots
<1>3. ASSUME Precedes(s, t), Alike(t, u) PROVE Precedes(s, u)
  <2>1. PICK i \in Spots : At(s, i) < At(t, i) /\ \A j \in 1 .. i - 1 : At(s, j) = At(t, j)
    BY <1>3 DEF Precedes
  <2>2. At(s, i) < At(u, i) /\ \A j \in 1 .. i - 1 : At(s, j) = At(u, j)
    BY <1>2, <1>3, <2>1 DEF Alike
  <2> QED BY <2>2 DEF Precedes
<1>4. ASSUME Alike(s, t), Precedes(t, u) PROVE Precedes(s, u)
  <2>1. PICK i \in Spots : At(t, i) < At(u, i) /\ \A j \in 1 .. i - 1 : At(t, j) = At(u, j)
    BY <1>4 DEF Precedes
  <2>2. At(s, i) < At(u, i) /\ \A j \in 1 .. i - 1 : At(s, j) = At(u, j)
    BY <1>2, <1>4, <2>1 DEF Alike
  <2> QED BY <2>2 DEF Precedes
<1>5. Alike(s, t) /\ Alike(t, u) => Alike(s, u)
  BY DEF Alike
<1> QED BY <1>1, <1>3, <1>4, <1>5

\* The comparisons of the code are this order.
LEMMA CmpIs ==
  ASSUME Ini!FastAssumption, NEW s \in Seq(Chars), NEW t \in Seq(Chars)
  PROVE  /\ NameCmp(s, t) \in Int
         /\ NameCmp(s, t) < 0 <=> Precedes(s, t)
         /\ NameCmp(s, t) > 0 <=> Precedes(t, s)
         /\ NameCmp(s, t) = 0 <=> Alike(s, t)
<1> DEFINE n == Ini!Shorter(s, t)
           differ == {i \in 1 .. n : Rank[s[i]] # Rank[t[i]]}
           first == CHOOSE k \in differ : \A j \in differ : k <= j
<1>1. /\ Len(s) \in Nat /\ Len(t) \in Nat /\ n \in Nat /\ n <= Len(s) /\ n <= Len(t)
      /\ n = Len(s) \/ n = Len(t)
  BY SequenceFacts DEF Ini!Shorter
<1>2. Ini!strnicmp(s, t, n) = IF differ = {} THEN 0 ELSE Rank[s[first]] - Rank[t[first]]
  BY DEF Ini!strnicmp
<1> HIDE DEF n
<1>3. \A i \in 1 .. n : i \in Spots /\ At(s, i) = Rank[s[i]] /\ At(t, i) = Rank[t[i]]
  BY <1>1 DEF At, Spots
<1>4. \A i \in Spots : At(s, i) \in Int /\ At(t, i) \in Int
  BY AtFacts
<1>5. NameCmp(s, t) = IF Ini!strnicmp(s, t, n) # 0 THEN Ini!strnicmp(s, t, n) ELSE Len(s) - Len(t)
  BY DEF NameCmp, n
<1>6. CASE differ # {}
  <2>1. differ \in SUBSET Spots
    BY <1>3
  <2>2. \E k \in differ : \A j \in differ : k <= j
    BY <1>6, <2>1, LeastSpot
  <2>3. first \in differ /\ \A j \in differ : first <= j
    <3> HIDE DEF differ
    <3> QED BY <2>2
  <2>4. /\ first \in 1 .. n /\ first \in Spots /\ At(s, first) # At(t, first)
        /\ Ini!strnicmp(s, t, n) = At(s, first) - At(t, first)
    <3>1. first \in 1 .. n /\ Rank[s[first]] # Rank[t[first]]
      BY <2>3
    <3> HIDE DEF first
    <3> QED BY <1>2, <1>3, <1>6, <3>1
  <2>5. \A j \in 1 .. first - 1 : At(s, j) = At(t, j)
    <3> TAKE j \in 1 .. first - 1
    <3>1. j \in 1 .. n /\ ~(first <= j)
      <4> HIDE DEF first
      <4> QED BY <1>1, <2>4
    <3>2. Rank[s[j]] = Rank[t[j]]
      BY <2>3, <3>1
    <3> QED BY <1>3, <3>1, <3>2
  <2> HIDE DEF first, differ
  <2>6. NameCmp(s, t) = At(s, first) - At(t, first) /\ At(s, first) \in Int /\ At(t, first) \in Int
    BY <1>4, <1>5, <2>4
  <2>7. CASE At(s, first) < At(t, first)
    <3>1. Precedes(s, t)
      BY <2>4, <2>5, <2>7 DEF Precedes
    <3> QED BY <2>6, <2>7, <3>1, NamesOrdered
  <2>8. CASE At(t, first) < At(s, first)
    <3>1. \A j \in 1 .. first - 1 : At(t, j) = At(s, j)
      BY <2>5
    <3>2. Precedes(t, s)
      BY <2>4, <2>8, <3>1 DEF Precedes
    <3>3. ~Alike(s, t)
      BY <3>2, NamesOrdered, AlikeIs
    <3> QED BY <2>6, <2>8, <3>2, <3>3, NamesOrdered
  <2> QED BY <2>4, <2>6, <2>7, <2>8
<1>7. CASE differ = {}
  <2>1. NameCmp(s, t) = Len(s) - Len(t)
    BY <1>2, <1>5, <1>7
  <2>2. \A i \in 1 .. n : At(s, i) = At(t, i)
    BY <1>3, <1>7
  <2> HIDE DEF differ, first
  <2>3. CASE Len(s) = Len(t)
    <3>1. Alike(s, t)
      <4> SUFFICES ASSUME NEW i \in Spots PROVE At(s, i) = At(t, i)
        BY DEF Alike
      <4>1. CASE i \in 1 .. n
        BY <2>2, <4>1
      <4>2. CASE i \notin 1 .. n
        <5>1. i > Len(s) /\ i > Len(t)
          BY <1>1, <2>3, <4>2 DEF Spots
        <5> QED BY <5>1, AtFacts
      <4> QED BY <4>1, <4>2
    <3>2. ~Precedes(s, t) /\ ~Precedes(t, s)
      BY <3>1, NamesOrdered, AlikeIs
    <3> QED BY <1>1, <2>1, <2>3, <3>1, <3>2
  <2>4. CASE Len(s) < Len(t)
    <3>1. n = Len(s) /\ n + 1 \in Spots /\ n + 1 > Len(s) /\ ~(n + 1 > Len(t))
      BY <1>1, <2>4 DEF Spots
    <3>2. At(s, n + 1) = -1 /\ At(t, n + 1) \in Int /\ At(t, n + 1) >= -1 /\ At(t, n + 1) # -1
      BY <3>1, AtFacts
    <3>3. At(s, n + 1) < At(t, n + 1)
      BY <3>2
    <3>4. \A j \in 1 .. (n + 1) - 1 : At(s, j) = At(t, j)
      BY <2>2, <1>1
    <3>5. Precedes(s, t)
      BY <3>1, <3>3, <3>4 DEF Precedes
    <3> QED BY <1>1, <2>1, <2>4, <3>5, NamesOrdered
  <2>5. CASE Len(t) < Len(s)
    <3>1. n = Len(t) /\ n + 1 \in Spots /\ n + 1 > Len(t) /\ ~(n + 1 > Len(s))
      BY <1>1, <2>5 DEF Spots
    <3>2. At(t, n + 1) = -1 /\ At(s, n + 1) \in Int /\ At(s, n + 1) >= -1 /\ At(s, n + 1) # -1
      BY <3>1, AtFacts
    <3>3. At(t, n + 1) < At(s, n + 1)
      BY <3>2
    <3>4. \A j \in 1 .. (n + 1) - 1 : At(t, j) = At(s, j)
      BY <2>2, <1>1
    <3>5. Precedes(t, s)
      BY <3>1, <3>3, <3>4 DEF Precedes
    <3>6. ~Alike(s, t)
      BY <3>5, NamesOrdered, AlikeIs
    <3> QED BY <1>1, <2>1, <2>5, <3>5, <3>6, NamesOrdered
  <2> QED BY <1>1, <2>3, <2>4, <2>5
<1> QED BY <1>6, <1>7

\* So is the comparison that removes duplicates.
LEMMA SameIs ==
  ASSUME Ini!FastAssumption, NEW s \in Seq(Chars), NEW t \in Seq(Chars)
  PROVE  Ini!SameName(s, t) <=> Alike(s, t)
<1>1. Len(s) = Len(t) => Ini!Shorter(s, t) = Len(s)
  BY DEF Ini!Shorter
<1>2. Len(s) \in Nat /\ Len(t) \in Nat
  BY SequenceFacts
<1>3. NameCmp(s, t) = 0 => Len(s) = Len(t)
  BY CmpIs, AlikeIs
<1>4. CASE Len(s) = Len(t)
  <2>1. NameCmp(s, t) = IF Ini!strnicmp(s, t, Len(s)) # 0 THEN Ini!strnicmp(s, t, Len(s)) ELSE 0
    BY <1>1, <1>2, <1>4 DEF NameCmp
  <2> QED BY <1>4, <2>1, CmpIs DEF Ini!SameName
<1>5. CASE Len(s) # Len(t)
  BY <1>5, AlikeIs DEF Ini!SameName
<1> QED BY <1>4, <1>5
-----------------------------------------------------------------------------
(* Sections: members of a set in an order *)

\* In a finite set that a relation orders, an element is known by how many come
\* before it.
LEMMA RanksInOrder ==
  ASSUME NEW N, IsFiniteSet(N), NEW R,
         \A a, b \in N : <<a, b>> \in R \/ <<b, a>> \in R \/ a = b,
         \A a \in N : <<a, a>> \notin R,
         \A a, b, c \in N : <<a, b>> \in R /\ <<b, c>> \in R => <<a, c>> \in R
  PROVE  /\ \A o \in N : Cardinality({p \in N : <<p, o>> \in R}) \in 0 .. Cardinality(N) - 1
         /\ \A a, b \in N : <<a, b>> \in R <=>
              Cardinality({p \in N : <<p, a>> \in R}) < Cardinality({p \in N : <<p, b>> \in R})
         /\ \A k \in 0 .. Cardinality(N) - 1 : \E o \in N : Cardinality({p \in N : <<p, o>> \in R}) = k
<1> DEFINE lower(o) == {p \in N : <<p, o>> \in R}
           rank == [o \in N |-> Cardinality(lower(o))]
<1>1. \A o \in N : IsFiniteSet(lower(o)) /\ Cardinality(lower(o)) \in Nat
  BY FS_Subset, FS_CardinalityType
<1>2. PICK c \in Nat : c = Cardinality(N)
  BY FS_CardinalityType
<1>3. ASSUME NEW o \in N PROVE rank[o] \in 0 .. c - 1
  <2>1. lower(o) \in SUBSET (N \ {o})
    OBVIOUS
  <2>2. IsFiniteSet(N \ {o}) /\ Cardinality(N \ {o}) = c - 1
    BY <1>2, FS_RemoveElement
  <2>3. Cardinality(lower(o)) <= c - 1
    <3> HIDE DEF lower
    <3> QED BY <2>1, <2>2, FS_Subset
  <2>4. rank[o] = Cardinality(lower(o))
    OBVIOUS
  <2> HIDE DEF lower, rank
  <2>5. PICK k \in Nat : k = Cardinality(lower(o))
    BY <1>1
  <2> QED BY <1>2, <2>3, <2>4, <2>5
<1>4. ASSUME NEW a \in N, NEW b \in N, <<a, b>> \in R PROVE rank[a] < rank[b]
  <2>1. lower(a) \in SUBSET lower(b)
    BY <1>4
  <2>2. a \in lower(b) /\ a \notin lower(a)
    BY <1>4
  <2>3. rank[a] = Cardinality(lower(a)) /\ rank[b] = Cardinality(lower(b))
    OBVIOUS
  <2> HIDE DEF lower, rank
  <2>4. Cardinality(lower(a)) <= Cardinality(lower(b)) /\ Cardinality(lower(a)) # Cardinality(lower(b))
    BY <1>1, <2>1, <2>2, FS_Subset
  <2>5. PICK k \in Nat : k = Cardinality(lower(a))
    BY <1>1
  <2>6. PICK l \in Nat : l = Cardinality(lower(b))
    BY <1>1
  <2> QED BY <2>3, <2>4, <2>5, <2>6
<1>5. \A o \in N : rank[o] = Cardinality({p \in N : <<p, o>> \in R})
  OBVIOUS
<1>6. rank \in [N -> 0 .. c - 1]
  BY <1>3
<1> HIDE DEF rank
<1>7. \A a, b \in N : rank[a] \in 0 .. c - 1 /\ rank[b] \in 0 .. c - 1
  BY <1>3
<1>8. \A a, b \in N : <<a, b>> \in R <=> rank[a] < rank[b]
  <2> TAKE a \in N, b \in N
  <2>1. rank[a] \in Int /\ rank[b] \in Int
    BY <1>2, <1>7
  <2>2. CASE <<a, b>> \in R
    BY <1>4, <2>2
  <2>3. CASE <<b, a>> \in R
    <3>1. rank[b] < rank[a]
      BY <1>4, <2>3
    <3>2. <<a, b>> \notin R
      BY <2>3
    <3> QED BY <2>1, <3>1, <3>2
  <2>4. CASE a = b
    BY <2>1, <2>4
  <2> QED BY <2>2, <2>3, <2>4
<1>9. rank \in Injection(N, 0 .. c - 1)
  <2>1. \A a, b \in N : rank[a] = rank[b] => a = b
    <3> TAKE a \in N, b \in N
    <3>1. rank[a] \in Int /\ rank[b] \in Int
      BY <1>2, <1>7
    <3>2. <<a, b>> \in R => rank[a] < rank[b]
      BY <1>4
    <3>3. <<b, a>> \in R => rank[b] < rank[a]
      BY <1>4
    <3> QED BY <3>1, <3>2, <3>3
  <2> QED BY <1>6, <2>1 DEF Injection, IsInjective
<1>10. IsFiniteSet(0 .. c - 1) /\ Cardinality(0 .. c - 1) = c
  <2>1. c - 1 \in Int /\ (IF 0 > c - 1 THEN 0 ELSE (c - 1) - 0 + 1) = c
    BY <1>2
  <2> QED BY <2>1, FS_Interval
<1>11. rank \in Surjection(N, 0 .. c - 1)
  BY <1>2, <1>9, <1>10, FS_Injection
<1>12. \A k \in 0 .. c - 1 : \E o \in N : rank[o] = k
  BY <1>11 DEF Surjection
<1>13. \A o \in N : Cardinality({p \in N : <<p, o>> \in R}) \in 0 .. Cardinality(N) - 1
  BY <1>2, <1>5, <1>7
<1>14. \A a, b \in N : <<a, b>> \in R <=>
         Cardinality({p \in N : <<p, a>> \in R}) < Cardinality({p \in N : <<p, b>> \in R})
  <2> TAKE a \in N, b \in N
  <2>1. /\ Cardinality({p \in N : <<p, a>> \in R}) = rank[a]
        /\ Cardinality({p \in N : <<p, b>> \in R}) = rank[b]
    BY <1>5
  <2> QED BY <1>8, <2>1
<1>15. \A k \in 0 .. Cardinality(N) - 1 : \E o \in N : Cardinality({p \in N : <<p, o>> \in R}) = k
  BY <1>2, <1>5, <1>12
<1> QED BY <1>13, <1>14, <1>15
-----------------------------------------------------------------------------
(* Sections: what is sorted *)

Headers == 0 .. Len(headers)

\* No three of the root and the headers have one name: the loop that removes
\* duplicates does not look at what moves up a second time.
FewTwins == MaxSame <= 2

Twins(a, b) == Alike(Ini!NameOf(a), Ini!NameOf(b))
Ahead(a, b) == Precedes(Ini!NameOf(a), Ini!NameOf(b)) \/ (Twins(a, b) /\ a < b)

\* The headers of a text, of which no three have one name.
LEMMA TextIs ==
  ASSUME Ini!FastAssumption, headers \in Ini!Texts
  PROVE  /\ Len(headers) \in Nat /\ DOMAIN headers = 1 .. Len(headers) /\ \A o \in Headers : Ini!NameOf(o) \in Seq(Chars)
         /\ FewTwins => \A a, b, c \in Headers :
              Twins(a, b) /\ Twins(b, c) => a = b \/ b = c \/ a = c
<1>1. MaxSections \in Nat /\ MaxSame \in Nat /\ \A s \in Names : s \in Seq(Chars)
  BY DEF Ini!FastAssumption
<1>2. PICK m \in 0 .. MaxSections : headers \in [1 .. m -> Names]
  BY DEF Ini!Texts, Ini!SeqOf
<1>3. Len(headers) = m /\ m \in Nat /\ DOMAIN headers = 1 .. m
  <2>1. m \in Nat
    BY <1>1
  <2>2. headers \in Seq(Names)
    BY <1>2, <2>1, SeqDef
  <2>3. DOMAIN headers = 1 .. m /\ DOMAIN headers = 1 .. Len(headers) /\ Len(headers) \in Nat
    BY <1>2, <2>2, SequenceFacts
  <2>4. PICK k \in Nat : k = Len(headers)
    BY <2>3
  <2>5. k = m
    BY <2>1, <2>3, <2>4
  <2> QED BY <2>1, <2>3, <2>4, <2>5
<1>4. \A o \in Headers : Ini!NameOf(o) \in Seq(Chars)
  <2> TAKE o \in Headers
  <2>1. CASE o = 0
    BY <2>1, EmptySeq DEF Ini!NameOf
  <2>2. CASE o # 0
    <3>1. o \in 1 .. m
      BY <1>3, <2>2 DEF Headers
    <3> QED BY <1>1, <1>2, <2>2, <3>1 DEF Ini!NameOf
  <2> QED BY <2>1, <2>2
<1>5. ASSUME FewTwins, NEW a \in Headers, NEW b \in Headers, NEW c \in Headers, Twins(a, b), Twins(b, c),
             a # b, b # c, a # c
      PROVE FALSE
  <2> DEFINE named(i) == {j \in DOMAIN headers \cup {0} :
               Ini!SameName(IF j = 0 THEN <<>> ELSE headers[j], IF i = 0 THEN <<>> ELSE headers[i])}
  <2>1. DOMAIN headers \cup {0} = Headers
    BY <1>3 DEF Headers
  <2>2. Cardinality(named(b)) <= MaxSame
    <3>1. Ini!Cardinality(named(b)) <= MaxSame
      BY <2>1 DEF Ini!Texts
    <3> QED BY <3>1, IniSets
  <2>3. \A j \in Headers : Ini!SameName(Ini!NameOf(j), Ini!NameOf(b)) <=> Twins(j, b)
    BY <1>4, SameIs DEF Twins
  <2>4. named(b) = {j \in Headers : Twins(j, b)}
    BY <2>1, <2>3 DEF Ini!NameOf
  <2>5. Twins(a, b) /\ Twins(b, b) /\ Twins(c, b)
    BY <1>4, <1>5, AlikeIs DEF Twins
  <2> HIDE DEF named
  <2>6. {a, b, c} \in SUBSET named(b) /\ named(b) \in SUBSET Headers
    BY <2>4, <2>5
  <2>7. IsFiniteSet(Headers)
    BY <1>3, FS_Interval DEF Headers
  <2>8. IsFiniteSet(named(b)) /\ Cardinality(named(b)) \in Nat
    BY <2>6, <2>7, FS_Subset, FS_CardinalityType
  <2>9. IsFiniteSet({a, b} \cup {c}) /\ Cardinality({a, b} \cup {c}) = 3
    <3>1. IsFiniteSet({a}) /\ Cardinality({a}) = 1
      BY FS_Singleton
    <3>2. IsFiniteSet({a} \cup {b}) /\ Cardinality({a} \cup {b}) = 2
      BY <1>5, <3>1, FS_AddElement
    <3>3. {a} \cup {b} = {a, b}
      OBVIOUS
    <3>4. c \notin {a, b} /\ 2 + 1 = 3
      BY <1>5
    <3> QED BY <3>2, <3>3, <3>4, FS_AddElement
  <2>10. {a, b} \cup {c} = {a, b, c}
    OBVIOUS
  <2>11. 3 <= Cardinality(named(b))
    BY <2>6, <2>8, <2>9, <2>10, FS_Subset
  <2>12. PICK k \in Nat : k = Cardinality(named(b))
    BY <2>8
  <2> QED BY <1>1, <1>5, <2>2, <2>11, <2>12 DEF FewTwins
<1> QED BY <1>3, <1>4, <1>5

\* iniFastParseCmp compares as Ahead does.
LEMMA ParseCmpIs ==
  ASSUME Ini!FastAssumption, headers \in Ini!Texts, NEW a \in Headers, NEW b \in Headers
  PROVE  Ini!iniFastParseCmp(a, b) < 0 <=> Ahead(a, b)
<1> DEFINE s == Ini!NameOf(a)
           t == Ini!NameOf(b)
           c == Ini!strnicmp(s, t, Ini!Shorter(s, t))
<1>1. s \in Seq(Chars) /\ t \in Seq(Chars) /\ Len(s) \in Nat /\ Len(t) \in Nat
  BY TextIs, SequenceFacts
<1>2. a \in Nat /\ b \in Nat
  BY TextIs DEF Headers
<1>3. NameCmp(s, t) = IF c # 0 THEN c ELSE Len(s) - Len(t)
  BY DEF NameCmp
<1>4. Ini!iniFastParseCmp(a, b) = IF c # 0 THEN c ELSE IF Len(s) = Len(t) THEN a - b ELSE Len(s) - Len(t)
  BY DEF Ini!iniFastParseCmp
<1> HIDE DEF s, t, c
<1>5. /\ NameCmp(s, t) \in Int /\ (NameCmp(s, t) < 0 <=> Precedes(s, t))
      /\ (NameCmp(s, t) = 0 <=> Alike(s, t))
  BY <1>1, CmpIs
<1>6. Ini!iniFastParseCmp(a, b) = IF NameCmp(s, t) # 0 THEN NameCmp(s, t) ELSE a - b
  BY <1>1, <1>3, <1>4
<1>7. Ahead(a, b) <=> Precedes(s, t) \/ (Alike(s, t) /\ a < b)
  BY DEF Ahead, Twins, s, t
<1>8. ~(Precedes(s, t) /\ Alike(s, t))
  BY <1>1, NamesOrdered
<1> QED BY <1>2, <1>5, <1>6, <1>7, <1>8

\* Headers are ordered by name and, of one name, by their place in the text.
LEMMA AheadOrders ==
  ASSUME Ini!FastAssumption, headers \in Ini!Texts
  PROVE  /\ \A a, b \in Headers : Ahead(a, b) \/ Ahead(b, a) \/ a = b
         /\ \A a \in Headers : ~Ahead(a, a)
         /\ \A a, b, c \in Headers : Ahead(a, b) /\ Ahead(b, c) => Ahead(a, c)
<1>1. \A o \in Headers : Ini!NameOf(o) \in Seq(Chars) /\ o \in Nat
  BY TextIs DEF Headers
<1>2. ASSUME NEW a \in Headers, NEW b \in Headers PROVE Ahead(a, b) \/ Ahead(b, a) \/ a = b
  <2>1. Twins(a, b) => Twins(b, a)
    BY <1>1, AlikeIs DEF Twins
  <2> QED BY <1>1, <2>1, NamesOrdered DEF Ahead, Twins
<1>3. \A a \in Headers : ~Ahead(a, a)
  BY <1>1, NamesOrdered DEF Ahead
<1>4. ASSUME NEW a \in Headers, NEW b \in Headers, NEW c \in Headers, Ahead(a, b), Ahead(b, c) PROVE Ahead(a, c)
  <2> DEFINE s == Ini!NameOf(a)
             t == Ini!NameOf(b)
             u == Ini!NameOf(c)
  <2>1. s \in Seq(Chars) /\ t \in Seq(Chars) /\ u \in Seq(Chars) /\ a \in Nat /\ b \in Nat /\ c \in Nat
    BY <1>1
  <2>2. /\ Precedes(s, t) \/ (Alike(s, t) /\ a < b)
        /\ Precedes(t, u) \/ (Alike(t, u) /\ b < c)
    BY <1>4 DEF Ahead, Twins
  <2>3. Ahead(a, c) <=> Precedes(s, u) \/ (Alike(s, u) /\ a < c)
    BY DEF Ahead, Twins
  <2> HIDE DEF s, t, u
  <2>4. /\ Precedes(s, t) /\ Precedes(t, u) => Precedes(s, u)
        /\ Precedes(s, t) /\ Alike(t, u) => Precedes(s, u)
        /\ Alike(s, t) /\ Precedes(t, u) => Precedes(s, u)
        /\ Alike(s, t) /\ Alike(t, u) => Alike(s, u)
    BY <2>1, PrecedesIsTransitive
  <2> QED BY <2>1, <2>2, <2>3, <2>4
<1> QED BY <1>2, <1>3, <1>4

\* Rising in that order.
Rises(list) == \A i, j \in 1 .. Len(list) : i < j => Ahead(list[i], list[j])

\* What qsort makes of the headers: all of them, in that order.
LEMMA SortedIs ==
  ASSUME Ini!FastAssumption, headers \in Ini!Texts
  PROVE  /\ Ini!Sorted \in Seq(Headers) /\ Len(Ini!Sorted) = Len(headers) + 1
         /\ Rises(Ini!Sorted)
         /\ \A o \in Headers : \E i \in 1 .. Len(Ini!Sorted) : Ini!Sorted[i] = o
<1> DEFINE R == {ab \in Headers \X Headers : Ini!iniFastParseCmp(ab[1], ab[2]) < 0}
           rank(o) == Cardinality({p \in Headers : <<p, o>> \in R})
           ahead(o) == {p \in 0 .. Len(headers) : Ini!iniFastParseCmp(p, o) < 0}
           nth(i) == CHOOSE o \in 0 .. Len(headers) : Ini!Cardinality(ahead(o)) = i - 1
<1>1. PICK n \in Nat : n = Len(headers)
  BY TextIs
<1>2. IsFiniteSet(Headers) /\ Cardinality(Headers) = n + 1
  BY <1>1, FS_Interval DEF Headers
<1>3. \A a, b \in Headers : <<a, b>> \in R <=> Ahead(a, b)
  BY ParseCmpIs
<1>4. \A o \in Headers : ahead(o) = {p \in Headers : <<p, o>> \in R}
  BY DEF Headers
<1>5. \A o \in Headers : Ini!Cardinality(ahead(o)) = rank(o)
  BY <1>4, IniSets
<1> HIDE DEF R, ahead
<1>6. /\ \A o \in Headers : rank(o) \in 0 .. n
      /\ \A a, b \in Headers : <<a, b>> \in R <=> rank(a) < rank(b)
      /\ \A k \in 0 .. n : \E o \in Headers : rank(o) = k
  <2>1. /\ \A a, b \in Headers : <<a, b>> \in R \/ <<b, a>> \in R \/ a = b
        /\ \A a \in Headers : <<a, a>> \notin R
        /\ \A a, b, c \in Headers : <<a, b>> \in R /\ <<b, c>> \in R => <<a, c>> \in R
    BY <1>3, AheadOrders
  <2>2. Cardinality(Headers) - 1 = n
    BY <1>1, <1>2
  <2> QED BY <1>2, <2>1, <2>2, RanksInOrder
<1> HIDE DEF rank
<1>7. ASSUME NEW i \in 1 .. n + 1 PROVE nth(i) \in Headers /\ rank(nth(i)) = i - 1
  <2>1. \E o \in Headers : Ini!Cardinality(ahead(o)) = i - 1
    BY <1>1, <1>5, <1>6
  <2>2. nth(i) \in Headers /\ Ini!Cardinality(ahead(nth(i))) = i - 1
    BY <2>1 DEF Headers
  <2> HIDE DEF nth
  <2> QED BY <1>5, <2>2
<1>8. Ini!Sorted = [i \in 1 .. n + 1 |-> nth(i)]
  BY <1>1 DEF Ini!Sorted, ahead
<1> HIDE DEF nth
<1>9. \A i \in 1 .. n + 1 : Ini!Sorted[i] = nth(i) /\ Ini!Sorted[i] \in Headers
  BY <1>7, <1>8
<1>10. Ini!Sorted \in Seq(Headers) /\ Len(Ini!Sorted) = n + 1
  <2>1. Ini!Sorted \in [1 .. n + 1 -> Headers] /\ n + 1 \in Nat
    BY <1>1, <1>7, <1>8
  <2>2. Ini!Sorted \in Seq(Headers)
    BY <2>1, SeqDef
  <2>3. PICK k \in Nat : k = Len(Ini!Sorted) /\ DOMAIN Ini!Sorted = 1 .. k
    BY <2>2, SequenceFacts
  <2>4. 1 .. k = 1 .. n + 1
    BY <2>1, <2>3
  <2>5. k = n + 1
    BY <1>1, <2>3, <2>4
  <2> QED BY <2>2, <2>3, <2>5
<1>11. Rises(Ini!Sorted)
  <2> SUFFICES ASSUME NEW i \in 1 .. n + 1, NEW j \in 1 .. n + 1, i < j PROVE Ahead(Ini!Sorted[i], Ini!Sorted[j])
    BY <1>10 DEF Rises
  <2>1. rank(nth(i)) < rank(nth(j))
    BY <1>1, <1>7
  <2> QED BY <1>3, <1>6, <1>7, <1>9, <2>1
<1>12. ASSUME NEW o \in Headers PROVE \E i \in 1 .. Len(Ini!Sorted) : Ini!Sorted[i] = o
  <2> DEFINE i == rank(o) + 1
  <2>1. i \in 1 .. n + 1 /\ i - 1 = rank(o)
    BY <1>1, <1>6
  <2> HIDE DEF i
  <2>2. rank(nth(i)) = rank(o) /\ nth(i) \in Headers
    BY <1>7, <2>1
  <2>3. rank(o) \in Int
    BY <1>1, <1>6
  <2>4. ~(<<nth(i), o>> \in R) /\ ~(<<o, nth(i)>> \in R)
    BY <1>6, <2>2, <2>3
  <2>5. nth(i) = o
    BY <1>3, <2>2, <2>4, AheadOrders
  <2> QED BY <1>9, <1>10, <2>1, <2>5
<1> QED BY <1>1, <1>10, <1>11, <1>12
-----------------------------------------------------------------------------
(* Sections: what is left without duplicates *)

\* A sequence without its entry i.
LEMMA RemoveAtIs ==
  ASSUME NEW S, NEW s \in Seq(S), NEW i \in 1 .. Len(s)
  PROVE  /\ Ini!RemoveAt(s, i) \in Seq(S) /\ Len(Ini!RemoveAt(s, i)) = Len(s) - 1
         /\ \A k \in 1 .. Len(s) - 1 : Ini!RemoveAt(s, i)[k] = IF k < i THEN s[k] ELSE s[k + 1]
<1>1. PICK n \in Nat : n = Len(s)
  BY SequenceFacts
<1> DEFINE a == SubSeq(s, 1, i - 1)
           b == SubSeq(s, i + 1, n)
<1>2. Ini!RemoveAt(s, i) = a \o b
  BY <1>1 DEF Ini!RemoveAt
<1>3. i \in 1 .. n
  BY <1>1
<1>4. a \in Seq(S) /\ Len(a) = i - 1 /\ \A k \in 1 .. i - 1 : a[k] = s[k]
  <2>1. \A k \in 1 .. i - 1 : s[k] \in S
    BY <1>1, <1>3, SequenceFacts
  <2> QED BY <1>1, <1>3, <2>1, SubSeqProperties
<1>5. b \in Seq(S) /\ Len(b) = n - i /\ \A k \in 1 .. n - i : b[k] = s[k + i]
  <2>1. \A k \in i + 1 .. n : s[k] \in S
    BY <1>1, <1>3, SequenceFacts
  <2> QED BY <1>1, <1>3, <2>1, SubSeqProperties
<1> HIDE DEF a, b
<1>6. a \o b \in Seq(S) /\ Len(a \o b) = n - 1
  <2>1. a \o b \in Seq(S) /\ Len(a \o b) = Len(a) + Len(b)
    BY <1>4, <1>5, ConcatProperties
  <2> QED BY <1>1, <1>3, <1>4, <1>5, <2>1
<1>7. ASSUME NEW k \in 1 .. n - 1 PROVE (a \o b)[k] = IF k < i THEN s[k] ELSE s[k + 1]
  <2>1. (a \o b)[k] = IF k <= Len(a) THEN a[k] ELSE b[k - Len(a)]
    <3>1. k \in 1 .. Len(a) + Len(b)
      BY <1>1, <1>3, <1>4, <1>5
    <3> QED BY <1>4, <1>5, <3>1, ConcatProperties
  <2>2. CASE k < i
    <3>1. k \in 1 .. i - 1 /\ k <= Len(a)
      BY <1>3, <1>4, <2>2
    <3> QED BY <1>4, <2>1, <2>2, <3>1
  <2>3. CASE ~(k < i)
    <3>1. k - (i - 1) \in 1 .. n - i /\ ~(k <= Len(a)) /\ k - (i - 1) + i = k + 1
      BY <1>1, <1>3, <1>4, <2>3
    <3>2. b[k - (i - 1)] = s[k + 1]
      BY <1>5, <3>1
    <3> QED BY <1>4, <2>1, <2>3, <3>1, <3>2
  <2> QED BY <2>2, <2>3
<1> QED BY <1>1, <1>2, <1>6, <1>7

\* One turn, with f for those before.
DedupedWith(f, i) == IF i = 1 THEN Ini!Sorted ELSE Ini!WithoutDuplicate(f[i - 1], i)

DedupedUpTo(f, m) == f = [i \in 1 .. m |-> DedupedWith(f, i)]

\* There is a function as Deduped says, so that each turn follows from the last.
LEMMA DedupedIsDefined ==
  ASSUME headers \in Ini!Texts, Ini!FastAssumption
  PROVE  Ini!Deduped = [i \in 1 .. Len(headers) + 1 |-> DedupedWith(Ini!Deduped, i)]
<1> DEFINE T == {m \in Nat : ~ \E f : DedupedUpTo(f, m)}
<1>1. ASSUME T # {} PROVE FALSE
  <2>1. PICK m \in T : \A k \in T : m <= k
    <3>1. T \in SUBSET Nat
      OBVIOUS
    <3> HIDE DEF T
    <3> QED BY <1>1, <3>1, LeastMember
  <2>2. m \in Nat /\ ~ \E f : DedupedUpTo(f, m)
    OBVIOUS
  <2>3. CASE m = 0
    <3> DEFINE f == [i \in {} |-> i]
    <3>1. f = [i \in 1 .. 0 |-> DedupedWith(f, i)]
      <4>1. 1 .. 0 = {}
        OBVIOUS
      <4> QED BY <4>1
    <3> QED BY <2>2, <2>3, <3>1 DEF DedupedUpTo
  <2>4. CASE m > 0
    <3>1. m - 1 \in Nat /\ m - 1 \notin T
      <4>1. m - 1 \in Nat /\ ~(m <= m - 1)
        BY <2>2, <2>4
      <4> HIDE DEF T
      <4> QED BY <2>1, <4>1
    <3>2. PICK g : DedupedUpTo(g, m - 1)
      BY <3>1
    <3> DEFINE f == [i \in 1 .. m |-> DedupedWith(g, i)]
    <3>3. \A i \in 1 .. m : i # 1 => f[i - 1] = g[i - 1]
      <4> TAKE i \in 1 .. m
      <4> HAVE i # 1
      <4>1. i - 1 \in 1 .. m - 1 /\ i - 1 \in 1 .. m
        BY <2>2
      <4>2. f[i - 1] = DedupedWith(g, i - 1)
        BY <4>1
      <4> HIDE DEF f
      <4> QED BY <3>2, <4>1, <4>2 DEF DedupedUpTo
    <3>4. \A i \in 1 .. m : DedupedWith(f, i) = DedupedWith(g, i)
      <4> HIDE DEF f
      <4> QED BY <3>3 DEF DedupedWith
    <3>5. f = [i \in 1 .. m |-> DedupedWith(f, i)]
      <4> HIDE DEF f
      <4> QED BY <3>4 DEF f
    <3> HIDE DEF f
    <3> QED BY <2>2, <3>5 DEF DedupedUpTo
  <2> QED BY <2>2, <2>3, <2>4
<1>2. Len(headers) + 1 \in Nat
  BY TextIs
<1>3. \E f : DedupedUpTo(f, Len(headers) + 1)
  BY <1>1, <1>2
<1>4. Ini!Deduped = CHOOSE f : f = [i \in 1 .. Len(headers) + 1 |-> DedupedWith(f, i)]
  BY DEF Ini!Deduped, DedupedWith
<1> QED BY <1>3, <1>4 DEF DedupedUpTo

\* The first of its name.
Leads(o) == \A p \in Headers : Twins(p, o) => o <= p

\* Of what the loop has looked at no two neighbours have one name.
Looked(list, i) ==
  /\ list \in Seq(Headers) /\ Len(list) <= Len(headers) + 1 /\ Rises(list)
  /\ \A o \in Headers : Leads(o) => \E k \in 1 .. Len(list) : list[k] = o
  /\ \A k \in 2 .. Len(list) : k <= i => ~Twins(list[k - 1], list[k])

\* A turn of the loop loses no first header, and leaves the part it has passed
\* without neighbours of one name.
LEMMA LoopTurns ==
  ASSUME Ini!FastAssumption, headers \in Ini!Texts, FewTwins, NEW list, NEW i \in Nat, i > 1, Looked(list, i - 1)
  PROVE  Looked(Ini!WithoutDuplicate(list, i), i)
<1>1. PICK n \in Nat : n = Len(list)
  BY SequenceFacts DEF Looked
<1>2. PICK m \in Nat : m = Len(headers)
  <2>1. Len(headers) \in Nat
    BY TextIs
  <2> QED BY <2>1
<1>3. \A k \in 1 .. n : list[k] \in Headers
  BY <1>1, SequenceFacts DEF Looked
<1>4. \A a, b \in Headers : Ini!SameName(Ini!NameOf(a), Ini!NameOf(b)) <=> Twins(a, b)
  BY TextIs, SameIs DEF Twins
<1>5. CASE i <= n /\ Twins(list[i - 1], list[i])
  <2>1. i - 1 \in 1 .. n /\ i \in 1 .. n /\ i - 1 < i
    BY <1>5
  <2>2. Ahead(list[i - 1], list[i])
    BY <1>1, <2>1 DEF Looked, Rises
  <2>3. list[i - 1] \in Nat /\ list[i] \in Nat /\ list[i - 1] \in Headers /\ list[i] \in Headers
    BY <1>2, <1>3, <2>1 DEF Headers
  <2>4. list[i] > list[i - 1]
    <3>1. ~Precedes(Ini!NameOf(list[i - 1]), Ini!NameOf(list[i]))
      <4> HIDE DEF Headers
      <4>1. Ini!NameOf(list[i - 1]) \in Seq(Chars) /\ Ini!NameOf(list[i]) \in Seq(Chars)
        BY <2>3, TextIs
      <4> QED BY <1>5, <4>1, NamesOrdered DEF Twins
    <3> QED BY <2>2, <2>3, <3>1 DEF Ahead
  <2> DEFINE r == Ini!RemoveAt(list, i)
  <2>5. Ini!WithoutDuplicate(list, i) = r
    BY <1>1, <1>4, <1>5, <2>3, <2>4 DEF Ini!WithoutDuplicate
  <2>6. /\ r \in Seq(Headers) /\ Len(r) = n - 1
        /\ \A k \in 1 .. n - 1 : r[k] = IF k < i THEN list[k] ELSE list[k + 1]
    BY <1>1, <2>1, RemoveAtIs DEF Looked
  <2> HIDE DEF r
  <2>7. Len(r) <= Len(headers) + 1
    BY <1>1, <1>2, <2>6 DEF Looked
  <2>8. Rises(r)
    <3> SUFFICES ASSUME NEW j \in 1 .. n - 1, NEW k \in 1 .. n - 1, j < k PROVE Ahead(r[j], r[k])
      BY <2>6 DEF Rises
    <3>1. /\ j \in 1 .. n /\ k \in 1 .. n /\ j + 1 \in 1 .. n /\ k + 1 \in 1 .. n
          /\ j < k + 1 /\ j + 1 < k + 1
      BY <1>1
    <3>2. Ahead(list[j], list[k]) /\ Ahead(list[j], list[k + 1]) /\ Ahead(list[j + 1], list[k + 1])
      BY <1>1, <3>1 DEF Looked, Rises
    <3>3. CASE k < i
      <4>1. j < i
        BY <3>3, <2>1
      <4> QED BY <2>6, <3>2, <3>3, <4>1
    <3>4. CASE ~(k < i)
      BY <2>6, <3>2, <3>4
    <3> QED BY <3>3, <3>4
  <2>9. ASSUME NEW o \in Headers, Leads(o) PROVE \E k \in 1 .. Len(r) : r[k] = o
    <3>1. PICK k \in 1 .. n : list[k] = o
      BY <1>1, <2>9 DEF Looked
    <3>2. k # i
      <4>1. k = i => o <= list[i - 1]
        BY <1>5, <2>3, <2>9, <3>1 DEF Leads
      <4> QED BY <2>3, <2>4, <3>1, <4>1
    <3>3. CASE k < i
      <4>1. k \in 1 .. n - 1
        BY <2>1, <3>3
      <4> QED BY <2>6, <3>1, <3>3, <4>1
    <3>4. CASE k > i
      <4>1. k - 1 \in 1 .. n - 1 /\ ~(k - 1 < i) /\ (k - 1) + 1 = k
        BY <2>1, <3>4
      <4>2. r[k - 1] = o
        BY <2>6, <3>1, <4>1
      <4> QED BY <2>6, <4>1, <4>2
    <3> QED BY <2>1, <3>2, <3>3, <3>4
  <2>10. ASSUME NEW k \in 2 .. n - 1, k <= i PROVE ~Twins(r[k - 1], r[k])
    <3>1. k - 1 \in 1 .. n - 1 /\ k \in 1 .. n - 1 /\ k - 1 < i
      BY <2>10, <1>1
    <3>2. CASE k < i
      <4>1. k <= i - 1 /\ k \in 2 .. n
        BY <3>2, <1>1
      <4>2. r[k - 1] = list[k - 1] /\ r[k] = list[k]
        BY <2>6, <3>1, <3>2
      <4> QED BY <1>1, <4>1, <4>2 DEF Looked
    <3>3. CASE k = i
      <4>1. r[i - 1] = list[i - 1] /\ r[i] = list[i + 1] /\ i + 1 \in 1 .. n
        BY <2>6, <3>1, <3>3, <1>1
      <4>2. Ahead(list[i - 1], list[i + 1]) /\ Ahead(list[i], list[i + 1])
        BY <1>1, <2>1, <4>1 DEF Looked, Rises
      <4>3. /\ list[i - 1] # list[i + 1] /\ list[i] # list[i + 1] /\ list[i - 1] # list[i]
            /\ list[i + 1] \in Headers
        BY <1>3, <2>2, <2>3, <4>1, <4>2, AheadOrders
      <4>4. ASSUME Twins(list[i - 1], list[i + 1]) PROVE FALSE
        <5> DEFINE a == list[i - 1]
                   b == list[i]
                   c == list[i + 1]
        <5>1. Ini!NameOf(a) \in Seq(Chars) /\ Ini!NameOf(b) \in Seq(Chars) /\ Ini!NameOf(c) \in Seq(Chars)
          BY <2>3, <4>3, TextIs
        <5>2. Twins(b, a)
          BY <1>5, <5>1, AlikeIs DEF Twins
        <5> QED BY <2>3, <4>3, <4>4, <5>2, TextIs
      <4> QED BY <3>3, <4>1, <4>4
    <3> QED BY <2>10, <3>2, <3>3
  <2> QED BY <2>5, <2>6, <2>7, <2>8, <2>9, <2>10 DEF Looked
<1>6. CASE ~(i <= n /\ Twins(list[i - 1], list[i]))
  <2>1. Ini!WithoutDuplicate(list, i) = list
    <3>1. CASE i <= n
      <4>1. i - 1 \in 1 .. n /\ i \in 1 .. n
        BY <3>1
      <4> QED BY <1>3, <1>4, <1>6, <3>1, <4>1 DEF Ini!WithoutDuplicate
    <3> QED BY <1>1, <3>1 DEF Ini!WithoutDuplicate
  <2>2. \A k \in 2 .. n : k <= i => ~Twins(list[k - 1], list[k])
    <3> TAKE k \in 2 .. n
    <3>1. CASE k <= i - 1
      BY <1>1, <3>1 DEF Looked
    <3>2. CASE k = i
      BY <1>6, <3>2
    <3> QED BY <3>1, <3>2
  <2> QED BY <1>1, <2>1, <2>2 DEF Looked
<1> QED BY <1>5, <1>6

\* The sections are the first of each name, in the order of their names.
ByName(list) ==
  /\ list \in Seq(Headers) /\ Len(list) > 0
  /\ \A i, j \in 1 .. Len(list) : i < j => Precedes(Ini!NameOf(list[i]), Ini!NameOf(list[j]))
  /\ \A i \in 1 .. Len(list) : Leads(list[i])
  /\ \A o \in Headers : Leads(o) => \E i \in 1 .. Len(list) : list[i] = o

\* Each name has a first header.
LEMMA OneLeads ==
  ASSUME Ini!FastAssumption, headers \in Ini!Texts, NEW o \in Headers
  PROVE  \E p \in Headers : Twins(p, o) /\ Leads(p)
<1> DEFINE T == {p \in Headers : Twins(p, o)}
<1>1. Headers \in SUBSET Nat /\ Ini!NameOf(o) \in Seq(Chars)
  BY TextIs DEF Headers
<1>2. T \in SUBSET Nat /\ o \in T
  BY <1>1, AlikeIs DEF Twins
<1>3. PICK p \in T : \A q \in T : p <= q
  <2> HIDE DEF T
  <2> QED BY <1>2, LeastMember
<1>4. p \in Headers /\ Twins(p, o)
  OBVIOUS
<1>5. ASSUME NEW q \in Headers, Twins(q, p) PROVE p <= q
  <2>1. Ini!NameOf(p) \in Seq(Chars) /\ Ini!NameOf(q) \in Seq(Chars)
    BY <1>4, TextIs
  <2>2. Twins(q, o)
    BY <1>1, <1>4, <1>5, <2>1, PrecedesIsTransitive DEF Twins
  <2>3. q \in T
    BY <2>2
  <2> HIDE DEF T
  <2> QED BY <1>3, <2>3
<1> QED BY <1>4, <1>5 DEF Leads

\* At its end the sections are the first of each name.
LEMMA DedupedIs ==
  ASSUME Ini!FastAssumption, headers \in Ini!Texts, FewTwins
  PROVE  ByName(Ini!Deduped[Len(headers) + 1])
<1>1. PICK m \in Nat : m = Len(headers)
  <2>1. Len(headers) \in Nat
    BY TextIs
  <2> QED BY <2>1
<1>2. \A i \in 1 .. m + 1 : Ini!Deduped[i] = DedupedWith(Ini!Deduped, i)
  BY <1>1, DedupedIsDefined
<1>3. Looked(Ini!Deduped[1], 1)
  <2>1. Ini!Deduped[1] = Ini!Sorted
    BY <1>1, <1>2 DEF DedupedWith
  <2>2. /\ Ini!Sorted \in Seq(Headers) /\ Len(Ini!Sorted) = Len(headers) + 1 /\ Rises(Ini!Sorted)
        /\ \A o \in Headers : \E i \in 1 .. Len(Ini!Sorted) : Ini!Sorted[i] = o
    BY SortedIs
  <2>3. Len(Ini!Sorted) <= Len(headers) + 1
    BY <1>1, <2>2
  <2>4. \A k \in 2 .. Len(Ini!Sorted) : ~(k <= 1)
    BY <1>1, <2>2
  <2> HIDE DEF Headers
  <2> QED BY <2>1, <2>2, <2>3, <2>4 DEF Looked
<1>4. ASSUME NEW i \in 1 .. m, Looked(Ini!Deduped[i], i) PROVE Looked(Ini!Deduped[i + 1], i + 1)
  <2>1. Ini!Deduped[i + 1] = Ini!WithoutDuplicate(Ini!Deduped[i], i + 1)
    <3>1. i + 1 \in 1 .. m + 1 /\ i + 1 # 1 /\ (i + 1) - 1 = i
      BY <1>1
    <3> QED BY <1>2, <3>1 DEF DedupedWith
  <2>2. i + 1 \in Nat /\ i + 1 > 1 /\ (i + 1) - 1 = i
    BY <1>1
  <2> QED BY <1>4, <2>1, <2>2, LoopTurns
<1>5. Looked(Ini!Deduped[m + 1], m + 1)
  <2> DEFINE T == {i \in Nat : i \in 1 .. m + 1 /\ ~Looked(Ini!Deduped[i], i)}
  <2>1. T \in SUBSET Nat
    OBVIOUS
  <2>2. ASSUME T # {} PROVE FALSE
    <3>1. PICK i \in T : \A k \in T : i <= k
      <4> HIDE DEF T
      <4> QED BY <2>1, <2>2, LeastMember
    <3>2. i \in 1 .. m + 1 /\ ~Looked(Ini!Deduped[i], i) /\ i # 1
      BY <1>3
    <3>3. i - 1 \in 1 .. m /\ i - 1 \in 1 .. m + 1 /\ i - 1 \in Nat /\ ~(i <= i - 1) /\ (i - 1) + 1 = i
      BY <1>1, <3>2
    <3>4. i - 1 \notin T
      <4> HIDE DEF T
      <4> QED BY <3>1, <3>3
    <3>5. Looked(Ini!Deduped[i - 1], i - 1)
      BY <3>3, <3>4
    <3> HIDE DEF T
    <3> QED BY <1>4, <3>2, <3>3, <3>5
  <2>3. m + 1 \in 1 .. m + 1 /\ m + 1 \in Nat
    BY <1>1
  <2> QED BY <2>2, <2>3
<1> DEFINE u == Ini!Deduped[m + 1]
<1>6. Looked(u, m + 1)
  BY <1>5
<1> HIDE DEF u
<1>7. PICK n \in Nat : n = Len(u) /\ n <= m + 1
  BY <1>1, <1>6, SequenceFacts DEF Looked
<1>8. \A k \in 1 .. n : u[k] \in Headers /\ Ini!NameOf(u[k]) \in Seq(Chars)
  BY <1>6, <1>7, SequenceFacts, TextIs DEF Looked
<1>9. \A k \in 2 .. n : Precedes(Ini!NameOf(u[k - 1]), Ini!NameOf(u[k]))
  <2> TAKE k \in 2 .. n
  <2>1. k - 1 \in 1 .. n /\ k \in 1 .. n /\ k - 1 < k /\ k <= m + 1
    BY <1>1, <1>7
  <2>2. Ahead(u[k - 1], u[k]) /\ ~Twins(u[k - 1], u[k])
    BY <1>6, <1>7, <2>1 DEF Looked, Rises
  <2> QED BY <2>2 DEF Ahead
<1>10. ASSUME NEW i \in 1 .. n, NEW j \in 1 .. n, i < j PROVE Precedes(Ini!NameOf(u[i]), Ini!NameOf(u[j]))
  <2>1. j \in 2 .. n /\ j - 1 \in 1 .. n
    BY <1>10
  <2>2. Precedes(Ini!NameOf(u[j - 1]), Ini!NameOf(u[j]))
    BY <1>9, <2>1
  <2>3. CASE i = j - 1
    BY <2>2, <2>3
  <2>4. CASE i < j - 1
    <3>1. Ahead(u[i], u[j - 1])
      BY <1>6, <1>7, <2>1, <2>4 DEF Looked, Rises
    <3> QED BY <1>8, <2>1, <2>2, <3>1, PrecedesIsTransitive DEF Ahead, Twins
  <2> QED BY <1>10, <2>3, <2>4
<1>11. ASSUME NEW i \in 1 .. n PROVE Leads(u[i])
  <2>1. PICK p \in Headers : Twins(p, u[i]) /\ Leads(p)
    BY <1>8, OneLeads
  <2>2. PICK k \in 1 .. n : u[k] = p
    BY <1>6, <1>7, <2>1 DEF Looked
  <2>3. Alike(Ini!NameOf(u[k]), Ini!NameOf(u[i])) /\ Alike(Ini!NameOf(u[i]), Ini!NameOf(u[k]))
    BY <1>8, <2>1, <2>2, AlikeIs DEF Twins
  <2>4. ~(k < i) /\ ~(i < k)
    BY <1>8, <1>10, <2>3, NamesOrdered
  <2>5. k = i
    BY <2>4
  <2> QED BY <2>1, <2>2, <2>5
<1>12. n > 0
  <2>1. 0 \in Headers
    BY <1>1 DEF Headers
  <2>2. PICK p \in Headers : Leads(p)
    BY <2>1, OneLeads
  <2>3. \E k \in 1 .. n : u[k] = p
    BY <1>6, <1>7, <2>2 DEF Looked
  <2> QED BY <2>3
<1>13. ByName(u)
  BY <1>6, <1>7, <1>10, <1>11, <1>12 DEF ByName, Looked
<1> QED BY <1>1, <1>13 DEF u
-----------------------------------------------------------------------------
(* Sections: bisection *)

\* One probe, with f for those of smaller parts.
ProbeWith(f, cmp, base, l, u) ==
  LET i == (l + u) \div 2
  IN IF l >= u THEN 0
     ELSE IF cmp[base + i] < 0 THEN f[l][i]
     ELSE IF cmp[base + i] > 0 THEN f[i + 1][u] ELSE base + i

\* f probes as it should, in parts of up to d.
ProbesUpTo(f, cmp, base, n, d) ==
  \A l, u \in 0 .. n : u - l <= d => f[l][u] = ProbeWith(f, cmp, base, l, u)

\* The middle of a part that is not empty lies in it.
LEMMA Halves ==
  ASSUME NEW l \in Nat, NEW u \in Nat, l < u
  PROVE  (l + u) \div 2 \in l .. u - 1
OBVIOUS

\* A probe asks only for the halves of its part.
LEMMA SameProbe ==
  ASSUME NEW f, NEW g, NEW cmp, NEW base, NEW l \in Nat, NEW u \in Nat,
         l < u => f[l][(l + u) \div 2] = g[l][(l + u) \div 2] /\ f[(l + u) \div 2 + 1][u] = g[(l + u) \div 2 + 1][u]
  PROVE  ProbeWith(f, cmp, base, l, u) = ProbeWith(g, cmp, base, l, u)
<1>1. CASE l < u
  BY <1>1 DEF ProbeWith
<1>2. CASE l >= u
  BY <1>2 DEF ProbeWith
<1> QED BY <1>1, <1>2

\* There is a function that probes as it should, in parts of any size.
LEMMA ProbesExist ==
  ASSUME NEW cmp, NEW base, NEW n \in Nat
  PROVE  \A d \in Nat : \E f : ProbesUpTo(f, cmp, base, n, d)
<1> DEFINE T == {d \in Nat : ~ \E f : ProbesUpTo(f, cmp, base, n, d)}
<1> SUFFICES ASSUME T # {} PROVE FALSE
  OBVIOUS
<1>1. PICK d \in T : \A k \in T : d <= k
  <2>1. T \in SUBSET Nat
    OBVIOUS
  <2> HIDE DEF T
  <2> QED BY <2>1, LeastMember
<1>2. d \in Nat /\ ~ \E f : ProbesUpTo(f, cmp, base, n, d)
  OBVIOUS
<1>3. CASE d = 0
  <2> DEFINE f == [l \in 0 .. n |-> [u \in 0 .. n |-> 0]]
  <2>1. ASSUME NEW l \in 0 .. n, NEW u \in 0 .. n, u - l <= 0 PROVE f[l][u] = ProbeWith(f, cmp, base, l, u)
    <3>1. l >= u /\ f[l][u] = 0
      BY <2>1
    <3> HIDE DEF f
    <3> QED BY <3>1 DEF ProbeWith
  <2> HIDE DEF f
  <2> QED BY <1>2, <1>3, <2>1 DEF ProbesUpTo
<1>4. CASE d > 0
  <2>1. d - 1 \in Nat /\ d - 1 \notin T
    <3>1. d - 1 \in Nat /\ ~(d <= d - 1)
      BY <1>2, <1>4
    <3> HIDE DEF T
    <3> QED BY <1>1, <3>1
  <2>2. PICK g : ProbesUpTo(g, cmp, base, n, d - 1)
    BY <2>1
  <2> DEFINE f == [l \in 0 .. n |-> [u \in 0 .. n |-> ProbeWith(g, cmp, base, l, u)]]
  <2>3. \A l, u \in 0 .. n : f[l][u] = ProbeWith(g, cmp, base, l, u)
    OBVIOUS
  <2> HIDE DEF f
  <2>4. \A l, u \in 0 .. n : u - l <= d - 1 => f[l][u] = g[l][u]
    BY <2>2, <2>3 DEF ProbesUpTo
  <2>5. ASSUME NEW l \in 0 .. n, NEW u \in 0 .. n, u - l <= d
        PROVE  ProbeWith(f, cmp, base, l, u) = ProbeWith(g, cmp, base, l, u)
    <3>1. ASSUME l < u
          PROVE  /\ f[l][(l + u) \div 2] = g[l][(l + u) \div 2]
                 /\ f[(l + u) \div 2 + 1][u] = g[(l + u) \div 2 + 1][u]
      <4>1. PICK i \in l .. u - 1 : i = (l + u) \div 2
        BY <3>1, Halves
      <4>2. i \in 0 .. n /\ i + 1 \in 0 .. n /\ i - l <= d - 1 /\ u - (i + 1) <= d - 1
        BY <1>2, <2>5
      <4>3. f[l][i] = g[l][i] /\ f[i + 1][u] = g[i + 1][u]
        BY <2>4, <4>2
      <4> QED BY <4>1, <4>3
    <3> QED BY <3>1, SameProbe
  <2>6. ProbesUpTo(f, cmp, base, n, d)
    BY <2>3, <2>5 DEF ProbesUpTo
  <2> QED BY <1>2, <2>6
<1> QED BY <1>2, <1>3, <1>4

\* bsearch is such a function's probe of the whole.
LEMMA bsearchIs ==
  ASSUME NEW cmp, NEW base, NEW n \in Nat, n > 0
  PROVE  \E f : /\ \A l, u \in 0 .. n : f[l][u] = ProbeWith(f, cmp, base, l, u)
                /\ Ini!bsearch(cmp, base, n) = f[0][n]
<1> DEFINE All(f) == [l \in 0 .. n |-> [u \in 0 .. n |-> ProbeWith(f, cmp, base, l, u)]]
           p == CHOOSE f : f = All(f)
<1>1. PICK g : ProbesUpTo(g, cmp, base, n, n)
  BY ProbesExist
<1>2. All(g) = All(All(g))
  <2>1. \A l, u \in 0 .. n : g[l][u] = ProbeWith(g, cmp, base, l, u)
    <3> TAKE l \in 0 .. n, u \in 0 .. n
    <3>1. u - l <= n
      OBVIOUS
    <3> QED BY <1>1, <3>1 DEF ProbesUpTo
  <2>2. \A l, u \in 0 .. n : All(g)[l][u] = g[l][u]
    BY <2>1
  <2>3. ASSUME NEW l \in 0 .. n, NEW u \in 0 .. n
        PROVE  ProbeWith(All(g), cmp, base, l, u) = ProbeWith(g, cmp, base, l, u)
    <3> DEFINE a == All(g)
    <3>1. \A k, m \in 0 .. n : a[k][m] = g[k][m]
      BY <2>2
    <3> HIDE DEF a
    <3>2. ASSUME l < u
          PROVE  /\ a[l][(l + u) \div 2] = g[l][(l + u) \div 2]
                 /\ a[(l + u) \div 2 + 1][u] = g[(l + u) \div 2 + 1][u]
      <4>1. PICK i \in l .. u - 1 : i = (l + u) \div 2
        BY <3>2, Halves
      <4>2. i \in 0 .. n /\ i + 1 \in 0 .. n
        OBVIOUS
      <4>3. a[l][i] = g[l][i] /\ a[i + 1][u] = g[i + 1][u]
        BY <3>1, <4>2
      <4> QED BY <4>1, <4>3
    <3>3. ProbeWith(a, cmp, base, l, u) = ProbeWith(g, cmp, base, l, u)
      BY <3>2, SameProbe
    <3> QED BY <3>3 DEF a
  <2> QED BY <2>3
<1>3. p = All(p)
  <2> HIDE DEF All
  <2> QED BY <1>2
<1>4. Ini!bsearch(cmp, base, n) = p[0][n]
  <2>1. ~(n <= 0)
    OBVIOUS
  <2> QED BY <2>1 DEF Ini!bsearch, ProbeWith
<1> HIDE DEF p
<1>5. \A l, u \in 0 .. n : p[l][u] = ProbeWith(p, cmp, base, l, u)
  <2> DEFINE q == All(p)
  <2>1. \A l, u \in 0 .. n : q[l][u] = ProbeWith(p, cmp, base, l, u)
    OBVIOUS
  <2>2. p = q
    BY <1>3
  <2> HIDE DEF q
  <2> QED BY <2>1, <2>2
<1> QED BY <1>4, <1>5

\* It finds nothing that does not compare equal, whatever the comparison.
LEMMA bsearchSound ==
  ASSUME NEW cmp, NEW base \in Nat, NEW n \in Int, \A i \in base .. base + n - 1 : cmp[i] \in Int
  PROVE  Ini!bsearch(cmp, base, n) = 0
         \/ (Ini!bsearch(cmp, base, n) \in base .. base + n - 1 /\ cmp[Ini!bsearch(cmp, base, n)] = 0)
<1>1. CASE n <= 0
  BY <1>1 DEF Ini!bsearch
<1>2. CASE n > 0
  <2>1. n \in Nat
    BY <1>2
  <2>2. PICK f : /\ \A l, u \in 0 .. n : f[l][u] = ProbeWith(f, cmp, base, l, u)
                 /\ Ini!bsearch(cmp, base, n) = f[0][n]
    BY <1>2, <2>1, bsearchIs
  <2> DEFINE Good(l, u) == f[l][u] = 0 \/ (f[l][u] \in base .. base + n - 1 /\ cmp[f[l][u]] = 0)
             T == {d \in Nat : \E l, u \in 0 .. n : u - l <= d /\ ~Good(l, u)}
  <2>3. ASSUME T # {} PROVE FALSE
    <3>1. PICK d \in T : \A k \in T : d <= k
      <4>1. T \in SUBSET Nat
        OBVIOUS
      <4> HIDE DEF T
      <4> QED BY <2>3, <4>1, LeastMember
    <3>2. PICK l \in 0 .. n, u \in 0 .. n : u - l <= d /\ ~Good(l, u)
      OBVIOUS
    <3>3. d \in Nat
      OBVIOUS
    <3>4. ASSUME NEW k \in 0 .. n, NEW m \in 0 .. n, m - k < u - l, u - l > 0 PROVE Good(k, m)
      <4>1. d - 1 \in Nat /\ ~(d <= d - 1) /\ m - k <= d - 1
        BY <3>2, <3>3, <3>4
      <4>2. d - 1 \notin T
        <5> HIDE DEF T
        <5> QED BY <3>1, <4>1
      <4> HIDE DEF Good
      <4> QED BY <4>1, <4>2
    <3>5. f[l][u] = ProbeWith(f, cmp, base, l, u)
      BY <2>2
    <3>6. l < u
      <4>1. ~(l >= u)
        BY <3>2, <3>5 DEF ProbeWith
      <4> QED BY <4>1
    <3>7. PICK i \in l .. u - 1 : i = (l + u) \div 2
      BY <3>6, Halves
    <3>8. i \in 0 .. n /\ i + 1 \in 0 .. n /\ i - l < u - l /\ u - (i + 1) < u - l /\ u - l > 0
      BY <3>6
    <3>9. Good(l, i) /\ Good(i + 1, u)
      <4> HIDE DEF Good
      <4> QED BY <3>4, <3>8
    <3>10. base + i \in base .. base + n - 1 /\ cmp[base + i] \in Int
      BY <2>1, <3>7
    <3>11. f[l][u] = IF cmp[base + i] < 0 THEN f[l][i]
                     ELSE IF cmp[base + i] > 0 THEN f[i + 1][u] ELSE base + i
      <4>1. ~(l >= u)
        BY <3>6
      <4> QED BY <3>5, <3>7, <4>1 DEF ProbeWith
    <3>12. CASE cmp[base + i] < 0
      BY <3>2, <3>9, <3>11, <3>12
    <3>13. CASE cmp[base + i] > 0
      BY <3>2, <3>9, <3>10, <3>11, <3>13
    <3>14. CASE cmp[base + i] = 0
      BY <3>2, <3>10, <3>11, <3>14
    <3> QED BY <3>10, <3>12, <3>13, <3>14
  <2>4. Good(0, n)
    <3>1. n \notin T
      BY <2>3
    <3>2. 0 \in 0 .. n /\ n \in 0 .. n /\ n - 0 <= n
      BY <2>1
    <3> HIDE DEF Good
    <3> QED BY <2>1, <3>1, <3>2
  <2> QED BY <2>2, <2>4
<1> QED BY <1>1, <1>2

\* It finds the one that does, if the others tell on which side of it they are.
LEMMA bsearchFinds ==
  ASSUME NEW cmp, NEW base \in Nat, NEW n \in Int, NEW k \in base .. base + n - 1,
         \A i \in base .. base + n - 1 : cmp[i] \in Int,
         cmp[k] = 0,
         \A i \in base .. base + n - 1 : (i < k => cmp[i] > 0) /\ (k < i => cmp[i] < 0)
  PROVE  Ini!bsearch(cmp, base, n) = k
<1>1. n \in Nat /\ n > 0
  OBVIOUS
<1>2. PICK f : /\ \A l, u \in 0 .. n : f[l][u] = ProbeWith(f, cmp, base, l, u)
               /\ Ini!bsearch(cmp, base, n) = f[0][n]
  BY <1>1, bsearchIs
<1> DEFINE Good(l, u) == l <= k - base /\ k - base < u => f[l][u] = k
           T == {d \in Nat : \E l, u \in 0 .. n : u - l <= d /\ ~Good(l, u)}
<1>3. ASSUME T # {} PROVE FALSE
  <2>1. PICK d \in T : \A m \in T : d <= m
    <3>1. T \in SUBSET Nat
      OBVIOUS
    <3> HIDE DEF T
    <3> QED BY <1>3, <3>1, LeastMember
  <2>2. PICK l \in 0 .. n, u \in 0 .. n : u - l <= d /\ ~Good(l, u)
    OBVIOUS
  <2>3. d \in Nat
    OBVIOUS
  <2>4. l <= k - base /\ k - base < u /\ f[l][u] # k /\ l < u
    BY <2>2
  <2>5. ASSUME NEW j \in 0 .. n, NEW m \in 0 .. n, m - j < u - l PROVE Good(j, m)
    <3>1. d - 1 \in Nat /\ ~(d <= d - 1) /\ m - j <= d - 1
      BY <2>2, <2>3, <2>4, <2>5
    <3>2. d - 1 \notin T
      <4> HIDE DEF T
      <4> QED BY <2>1, <3>1
    <3> HIDE DEF Good
    <3> QED BY <3>1, <3>2
  <2>6. PICK i \in l .. u - 1 : i = (l + u) \div 2
    BY <2>4, Halves
  <2>7. i \in 0 .. n /\ i + 1 \in 0 .. n /\ i - l < u - l /\ u - (i + 1) < u - l
    BY <2>4
  <2>8. Good(l, i) /\ Good(i + 1, u)
    <3> HIDE DEF Good
    <3> QED BY <2>5, <2>7
  <2>9. base + i \in base .. base + n - 1
    BY <1>1, <2>6
  <2>10. f[l][u] = IF cmp[base + i] < 0 THEN f[l][i]
                   ELSE IF cmp[base + i] > 0 THEN f[i + 1][u] ELSE base + i
    <3>1. ~(l >= u) /\ f[l][u] = ProbeWith(f, cmp, base, l, u)
      BY <1>2, <2>4
    <3> QED BY <2>6, <3>1 DEF ProbeWith
  <2>11. CASE base + i < k
    <3>1. cmp[base + i] > 0 /\ cmp[base + i] \in Int
      BY <2>9, <2>11
    <3>2. f[l][u] = f[i + 1][u]
      BY <2>10, <3>1
    <3> QED BY <2>4, <2>8, <2>11, <3>2
  <2>12. CASE k < base + i
    <3>1. cmp[base + i] < 0
      BY <2>9, <2>12
    <3>2. f[l][u] = f[l][i]
      BY <2>10, <3>1
    <3> QED BY <2>4, <2>8, <2>12, <3>2
  <2>13. CASE base + i = k
    <3>1. f[l][u] = base + i
      BY <2>10, <2>13
    <3> QED BY <2>4, <2>13, <3>1
  <2> QED BY <2>11, <2>12, <2>13
<1>4. Good(0, n)
  <2>1. n \notin T
    BY <1>3
  <2>2. 0 \in 0 .. n /\ n \in 0 .. n /\ n - 0 <= n
    BY <1>1
  <2> HIDE DEF Good
  <2> QED BY <1>1, <2>1, <2>2
<1>5. 0 <= k - base /\ k - base < n
  OBVIOUS
<1> QED BY <1>2, <1>4, <1>5
-----------------------------------------------------------------------------
(* Sections: the window, and the inductive invariant *)

\* What is outside has been cut.
Window(f, l) ==
  /\ f \in 1 .. Len(sections) + 1 /\ l \in 1 .. Len(sections)
  /\ \A i \in 1 .. Len(sections) : i < f \/ i > l => sections[i] \in cut

IniInv ==
  /\ headers \in Ini!Texts
  /\ sections # <<>> => ByName(sections) /\ Window(firstUncut, lastUncut)

\* adjustUncuts draws the window in, and leaves nothing uncut outside.
LEMMA AdjustedIs ==
  ASSUME ByName(sections), Window(firstUncut, lastUncut)
  PROVE  Window(Ini!adjustUncuts[1], Ini!adjustUncuts[2])
<1> DEFINE kept == {i \in firstUncut .. lastUncut : sections[i] \notin cut}
           least == CHOOSE i \in kept : \A j \in kept : i <= j
           most == CHOOSE i \in kept : \A j \in kept : j <= i
<1>1. PICK n \in Nat : n = Len(sections)
  BY SequenceFacts DEF ByName
<1>2. /\ firstUncut \in 1 .. n + 1 /\ lastUncut \in 1 .. n
      /\ \A i \in 1 .. n : i < firstUncut \/ i > lastUncut => sections[i] \in cut
  BY <1>1 DEF Window
<1>3. kept \in SUBSET (1 .. n) /\ \A i \in kept : i \in Nat /\ n - i \in Nat
  BY <1>1, <1>2
<1>4. Ini!adjustUncuts = IF firstUncut > lastUncut THEN <<firstUncut, lastUncut>>
                         ELSE IF kept = {} THEN <<lastUncut + 1, lastUncut>> ELSE <<least, most>>
  BY DEF Ini!adjustUncuts
<1>5. CASE firstUncut > lastUncut
  BY <1>4, <1>5
<1>6. CASE ~(firstUncut > lastUncut) /\ kept = {}
  <2>1. \A i \in 1 .. n : i < lastUncut + 1 \/ i > lastUncut => sections[i] \in cut
    BY <1>2, <1>6
  <2>2. lastUncut + 1 \in 1 .. n + 1
    BY <1>1, <1>2
  <2> HIDE DEF kept, least, most
  <2> QED BY <1>1, <1>2, <1>4, <1>6, <2>1, <2>2 DEF Window
<1>7. CASE ~(firstUncut > lastUncut) /\ kept # {}
  <2>1. least \in kept /\ \A j \in kept : least <= j
    <3> HIDE DEF kept
    <3>1. \E m \in kept : \A k \in kept : m <= k
      BY <1>3, <1>7, LeastMember
    <3> QED BY <3>1
  <2>2. most \in kept /\ \A j \in kept : j <= most
    <3> DEFINE above == {n - i : i \in kept}
    <3>1. above \in SUBSET Nat /\ above # {}
      BY <1>3, <1>7
    <3>2. PICK m \in above : \A k \in above : m <= k
      <4> HIDE DEF above
      <4> QED BY <3>1, LeastMember
    <3>3. PICK i \in kept : m = n - i
      OBVIOUS
    <3>4. \A j \in kept : n - j \in above
      OBVIOUS
    <3>5. \A j \in kept : j <= i
      <4> HIDE DEF above, kept
      <4> QED BY <1>1, <1>3, <3>2, <3>3, <3>4
    <3> HIDE DEF kept
    <3> QED BY <3>5
  <2>3. \A i \in 1 .. n : i \notin kept => sections[i] \in cut
    BY <1>1, <1>2
  <2> HIDE DEF kept, least, most
  <2>4. least \in 1 .. n /\ most \in 1 .. n
    BY <1>3, <2>1, <2>2
  <2>5. \A i \in 1 .. n : i < least \/ i > most => i \notin kept
    BY <1>1, <2>1, <2>2, <2>4
  <2>6. \A i \in 1 .. n : i < least \/ i > most => sections[i] \in cut
    BY <2>3, <2>5
  <2>7. least \in 1 .. n + 1
    BY <1>1, <2>4
  <2> QED BY <1>1, <1>4, <1>7, <2>4, <2>6, <2>7 DEF Window
<1> QED BY <1>5, <1>6, <1>7

\* A section that is found lies in the window, and may then be cut.
LEMMA FoundKeeps ==
  ASSUME IniInv, sections # <<>>, NEW f, NEW l, Window(f, l), NEW i \in {0} \cup (f .. l),
         NEW remove \in BOOLEAN, Ini!iniHandleFoundSection(i, f, l, remove)
  PROVE  IniInv'
<1> DEFINE found == i # 0 /\ sections[i] \notin cut
<1>1. PICK n \in Nat : n = Len(sections)
  BY SequenceFacts DEF IniInv, ByName
<1>2. /\ f \in 1 .. n + 1 /\ l \in 1 .. n
      /\ \A k \in 1 .. n : k < f \/ k > l => sections[k] \in cut
  BY <1>1 DEF Window
<1>3. /\ cut' = IF found /\ remove THEN cut \cup {sections[i]} ELSE cut
      /\ firstUncut' = IF found /\ remove THEN IF i = f THEN f + 1 ELSE f ELSE f
      /\ lastUncut' = IF found /\ remove /\ i = l /\ l > 1 THEN l - 1 ELSE l
      /\ headers' = headers /\ sections' = sections
  BY DEF Ini!iniHandleFoundSection, Ini!FirstAfter
<1>4. i # 0 => i \in f .. l
  OBVIOUS
<1> HIDE DEF found
<1>5. firstUncut' \in 1 .. n + 1 /\ lastUncut' \in 1 .. n
  BY <1>1, <1>2, <1>3, <1>4 DEF found
<1>6. \A k \in 1 .. n : k < firstUncut' \/ k > lastUncut' => sections[k] \in cut'
  <2> TAKE k \in 1 .. n
  <2>1. CASE found /\ remove
    <3>1. k < firstUncut' \/ k > lastUncut' => k < f \/ k > l \/ k = i
      BY <1>1, <1>2, <1>3, <2>1
    <3> QED BY <1>2, <1>3, <2>1, <3>1
  <2>2. CASE ~(found /\ remove)
    BY <1>2, <1>3, <2>2
  <2> QED BY <2>1, <2>2
<1>7. Window(firstUncut, lastUncut)'
  BY <1>1, <1>3, <1>5, <1>6 DEF Window
<1>8. headers \in Ini!Texts /\ ByName(sections)
  BY DEF IniInv
<1>9. ByName(sections)'
  BY <1>3, <1>8 DEF ByName, Leads, Twins, Headers, Ini!NameOf, Alike, Precedes, At
<1> QED BY <1>3, <1>7, <1>8, <1>9 DEF IniInv
-----------------------------------------------------------------------------
(* Sections: found by name *)

\* The root is the first section.
LEMMA RootIsFirst ==
  ASSUME Ini!FastAssumption, headers \in Ini!Texts, ByName(sections)
  PROVE  sections[1] = 0 /\ \A i \in 2 .. Len(sections) : sections[i] # 0
<1>1. PICK n \in Nat : n = Len(sections)
  BY SequenceFacts DEF ByName
<1>2. 0 \in Headers /\ Leads(0)
  BY TextIs DEF Headers, Leads
<1>3. PICK k \in 1 .. n : sections[k] = 0
  BY <1>1, <1>2 DEF ByName
<1>4. \A i \in 1 .. n : sections[i] \in Headers /\ Ini!NameOf(sections[i]) \in Seq(Chars)
  BY <1>1, SequenceFacts, TextIs DEF ByName
<1>5. Ini!NameOf(0) = <<>> /\ <<>> \in Seq(Chars) /\ Len(<<>>) = 0
  BY EmptySeq DEF Ini!NameOf
<1>6. \A s \in Seq(Chars) : ~Precedes(s, <<>>)
  <2> SUFFICES ASSUME NEW s \in Seq(Chars), NEW i \in Spots, At(s, i) < At(<<>>, i) PROVE FALSE
    BY DEF Precedes
  <2>1. At(s, i) \in Int /\ At(s, i) >= -1
    BY AtFacts
  <2>2. At(<<>>, i) = -1
    BY <1>5 DEF At, Spots
  <2> QED BY <2>1, <2>2
<1>7. k = 1
  <2>1. ASSUME k # 1 PROVE FALSE
    <3>1. 1 \in 1 .. n /\ 1 < k
      BY <1>1, <2>1
    <3>2. Precedes(Ini!NameOf(sections[1]), Ini!NameOf(sections[k]))
      BY <1>1, <3>1 DEF ByName
    <3> QED BY <1>3, <1>4, <1>5, <1>6, <3>1, <3>2
  <2> QED BY <2>1
<1>8. ASSUME NEW i \in 2 .. n, sections[i] = 0 PROVE FALSE
  <2>1. i \in 1 .. n /\ 1 \in 1 .. n /\ 1 < i
    BY <1>1
  <2>2. Precedes(Ini!NameOf(sections[1]), Ini!NameOf(sections[i]))
    BY <1>1, <2>1 DEF ByName
  <2> QED BY <1>4, <1>5, <1>6, <1>8, <2>1, <2>2
<1> QED BY <1>1, <1>3, <1>7, <1>8

\* The first of the root and the headers that a name is of.
LEMMA FirstNamedIs ==
  ASSUME Ini!FastAssumption, headers \in Ini!Texts, NEW name \in Seq(Chars)
  PROVE  \/ /\ Ini!FirstNamed(name) = NULL
            /\ \A o \in Headers : ~Alike(Ini!NameOf(o), name)
         \/ /\ Ini!FirstNamed(name) \in Headers /\ Leads(Ini!FirstNamed(name))
            /\ Alike(Ini!NameOf(Ini!FirstNamed(name)), name)
<1> DEFINE named == {o \in DOMAIN headers \cup {0} :
                       IF name = NULL THEN o = 0 ELSE Ini!SameName(Ini!NameOf(o), name)}
           least == CHOOSE o \in named : \A p \in named : o <= p
<1>1. name # NULL
  BY DEF Ini!FastAssumption
<1>2. DOMAIN headers \cup {0} = Headers /\ Headers \in SUBSET Nat
  BY TextIs DEF Headers
<1>3. \A o \in Headers : Ini!SameName(Ini!NameOf(o), name) <=> Alike(Ini!NameOf(o), name)
  BY TextIs, SameIs
<1>4. named = {o \in Headers : Alike(Ini!NameOf(o), name)}
  BY <1>1, <1>2, <1>3
<1>5. Ini!FirstNamed(name) = IF named = {} THEN NULL ELSE least
  BY DEF Ini!FirstNamed
<1> HIDE DEF named
<1>6. CASE named = {}
  BY <1>4, <1>5, <1>6
<1>7. CASE named # {}
  <2>1. named \in SUBSET Nat
    BY <1>2, <1>4
  <2>2. least \in named /\ \A p \in named : least <= p
    BY <1>7, <2>1, LeastMember
  <2> HIDE DEF least
  <2>3. least \in Headers /\ Alike(Ini!NameOf(least), name)
    BY <1>4, <2>2
  <2>4. ASSUME NEW p \in Headers, Twins(p, least) PROVE least <= p
    <3>1. Ini!NameOf(p) \in Seq(Chars) /\ Ini!NameOf(least) \in Seq(Chars)
      BY <2>3, TextIs
    <3>2. Alike(Ini!NameOf(p), name)
      BY <2>3, <2>4, <3>1, PrecedesIsTransitive DEF Twins
    <3> QED BY <1>4, <2>2, <3>2
  <2> QED BY <1>5, <1>7, <2>3, <2>4 DEF Leads
<1> QED BY <1>6, <1>7

\* By no name the root is asked for.
LEMMA FirstRoot ==
  ASSUME Ini!FastAssumption, headers \in Ini!Texts
  PROVE  Ini!FirstNamed(NULL) = 0
<1> DEFINE named == {o \in DOMAIN headers \cup {0} :
                       IF NULL = NULL THEN o = 0 ELSE Ini!SameName(Ini!NameOf(o), NULL)}
           least == CHOOSE o \in named : \A p \in named : o <= p
<1>1. Ini!FirstNamed(NULL) = IF named = {} THEN NULL ELSE least
  BY DEF Ini!FirstNamed
<1>2. named = {0}
  OBVIOUS
<1> HIDE DEF named
<1>3. least \in named
  BY <1>2
<1> QED BY <1>1, <1>2, <1>3

Got(i) == IF i # 0 /\ sections[i] \notin cut THEN sections[i] ELSE NULL

\* The comparisons of a bisection that looks for p by its name.
LooksFor(cmp, p, f, l) ==
  \A i \in f .. l : /\ cmp[i] \in Int
                    /\ cmp[i] = 0 <=> sections[i] = p
                    /\ cmp[i] > 0 <=> Precedes(Ini!NameOf(sections[i]), Ini!NameOf(p))

\* It ends at p, unless that has been cut.
LEMMA Bisected ==
  ASSUME Ini!FastAssumption, headers \in Ini!Texts, ByName(sections),
         NEW f, NEW l, Window(f, l), NEW p \in Headers, Leads(p), NEW cmp, LooksFor(cmp, p, f, l)
  PROVE  Got(Ini!bsearch(cmp, f, l - f + 1)) = IF p \in cut THEN NULL ELSE p
<1>1. PICK n \in Nat : n = Len(sections)
  BY SequenceFacts DEF ByName
<1>2. /\ f \in 1 .. n + 1 /\ l \in 1 .. n
      /\ \A i \in 1 .. n : i < f \/ i > l => sections[i] \in cut
  BY <1>1 DEF Window
<1>3. PICK k \in 1 .. n : sections[k] = p
  BY <1>1 DEF ByName
<1>4. f \in Nat /\ l - f + 1 \in Int /\ f + (l - f + 1) - 1 = l
  BY <1>1, <1>2
<1>5. \A i \in f .. l : i \in 1 .. n
  BY <1>1, <1>2
<1> DEFINE r == Ini!bsearch(cmp, f, l - f + 1)
<1>6. r = 0 \/ (r \in f .. l /\ cmp[r] = 0)
  BY <1>4, bsearchSound DEF LooksFor
<1>7. CASE k \in f .. l
  <2>1. \A i \in 1 .. n : Ini!NameOf(sections[i]) \in Seq(Chars)
    BY <1>1, SequenceFacts, TextIs DEF ByName
  <2>2. ASSUME NEW i \in f .. l, i < k PROVE cmp[i] > 0
    <3>1. Precedes(Ini!NameOf(sections[i]), Ini!NameOf(sections[k]))
      BY <1>1, <1>5, <2>2 DEF ByName
    <3> QED BY <1>3, <3>1 DEF LooksFor
  <2>3. ASSUME NEW i \in f .. l, k < i PROVE cmp[i] < 0
    <3>1. Precedes(Ini!NameOf(sections[k]), Ini!NameOf(sections[i]))
      BY <1>1, <1>5, <2>3 DEF ByName
    <3>2. ~Precedes(Ini!NameOf(sections[i]), Ini!NameOf(sections[k]))
      BY <1>5, <2>1, <3>1, NamesOrdered
    <3>3. sections[i] # sections[k]
      BY <1>5, <2>1, <3>1, NamesOrdered
    <3> QED BY <1>3, <3>2, <3>3 DEF LooksFor
  <2>4. cmp[k] = 0
    BY <1>3, <1>7 DEF LooksFor
  <2>5. r = k
    <3>1. PICK c \in Int : c = l - f + 1 /\ f + c - 1 = l
      BY <1>4
    <3>2. k \in f .. f + c - 1 /\ \A i \in f .. f + c - 1 : cmp[i] \in Int
      BY <1>7, <3>1 DEF LooksFor
    <3>3. \A i \in f .. f + c - 1 : (i < k => cmp[i] > 0) /\ (k < i => cmp[i] < 0)
      BY <2>2, <2>3, <3>1
    <3>4. Ini!bsearch(cmp, f, c) = k
      BY <1>4, <2>4, <3>2, <3>3, bsearchFinds
    <3> QED BY <3>1, <3>4
  <2> HIDE DEF r
  <2> QED BY <1>1, <1>3, <2>5 DEF Got, r
<1>8. CASE k \notin f .. l
  <2>1. p \in cut
    BY <1>1, <1>2, <1>3, <1>8
  <2>2. r # 0 => sections[r] = p
    BY <1>6 DEF LooksFor
  <2> HIDE DEF r
  <2> QED BY <2>1, <2>2 DEF Got, r
<1> QED BY <1>7, <1>8

\* What iniGetFastParsedSection finds by a name is the first of that name.
LEMMA FindIs ==
  ASSUME Ini!FastAssumption, headers \in Ini!Texts, ByName(sections),
         NEW f, NEW l, Window(f, l), NEW name \in Seq(Chars) \cup {NULL}
  PROVE  Got(Ini!Find(name, f, l)) = Ini!Promised(name)
<1> DEFINE cmp == [i \in f .. l |-> Ini!iniGetFastParsedSectionCmp(name, sections[i])]
<1>1. PICK n \in Nat : n = Len(sections)
  BY SequenceFacts DEF ByName
<1>2. f \in 1 .. n + 1 /\ l \in 1 .. n
  BY <1>1 DEF Window
<1>3. \A i \in f .. l : i \in 1 .. n
  BY <1>1, <1>2
<1>4. \A i \in 1 .. n : sections[i] \in Headers /\ Ini!NameOf(sections[i]) \in Seq(Chars)
  BY <1>1, SequenceFacts, TextIs DEF ByName
<1>5. Ini!Find(name, f, l) = Ini!bsearch(cmp, f, l - f + 1)
  BY DEF Ini!Find
<1>6. CASE name = NULL
  <2>1. 0 \in Headers /\ Leads(0)
    BY TextIs DEF Headers, Leads
  <2>2. \A i \in f .. l : cmp[i] = IF sections[i] = 0 THEN 0 ELSE -1
    BY <1>6 DEF Ini!iniGetFastParsedSectionCmp
  <2>3. ASSUME NEW i \in f .. l PROVE ~Precedes(Ini!NameOf(sections[i]), Ini!NameOf(0))
    <3>1. i \in 1 .. n /\ 1 \in 1 .. n /\ (i = 1 \/ 1 < i) /\ sections[1] = 0
      BY <1>1, <1>3, RootIsFirst
    <3>2. 1 < i => Precedes(Ini!NameOf(sections[1]), Ini!NameOf(sections[i]))
      BY <1>1, <3>1 DEF ByName
    <3> QED BY <1>4, <3>1, <3>2, NamesOrdered
  <2> HIDE DEF cmp
  <2>4. LooksFor(cmp, 0, f, l)
    BY <2>2, <2>3 DEF LooksFor
  <2>5. Got(Ini!Find(name, f, l)) = IF 0 \in cut THEN NULL ELSE 0
    BY <1>5, <2>1, <2>4, Bisected
  <2> QED BY <1>6, <2>5, FirstRoot DEF Ini!Promised
<1>7. CASE name \in Seq(Chars)
  <2>1. name # NULL
    BY <1>7 DEF Ini!FastAssumption
  <2>2. \A i \in f .. l : cmp[i] = NameCmp(name, Ini!NameOf(sections[i]))
    BY <2>1 DEF Ini!iniGetFastParsedSectionCmp, NameCmp
  <2> DEFINE p == Ini!FirstNamed(name)
  <2> HIDE DEF cmp
  <2>3. \A i \in f .. l :
          /\ cmp[i] \in Int
          /\ cmp[i] > 0 <=> Precedes(Ini!NameOf(sections[i]), name)
          /\ cmp[i] = 0 <=> Alike(name, Ini!NameOf(sections[i]))
    BY <1>3, <1>4, <1>7, <2>2, CmpIs
  <2>4. CASE p \in Headers /\ Leads(p) /\ Alike(Ini!NameOf(p), name)
    <3> HIDE DEF p
    <3>1. ASSUME NEW i \in f .. l
          PROVE  /\ cmp[i] \in Int
                 /\ cmp[i] = 0 <=> sections[i] = p
                 /\ cmp[i] > 0 <=> Precedes(Ini!NameOf(sections[i]), Ini!NameOf(p))
      <4> DEFINE s == Ini!NameOf(sections[i])
                 t == Ini!NameOf(p)
      <4>1. s \in Seq(Chars) /\ t \in Seq(Chars) /\ sections[i] \in Headers /\ Leads(sections[i])
        BY <1>1, <1>3, <1>4, <2>4, TextIs DEF ByName
      <4>2. Alike(t, name) /\ Alike(name, t)
        BY <1>7, <2>4, <4>1, AlikeIs
      <4>3. Precedes(s, name) <=> Precedes(s, t)
        <5> HIDE DEF s, t
        <5> QED BY <1>7, <4>1, <4>2, PrecedesIsTransitive
      <4>4. Alike(name, s) <=> Alike(s, t) /\ Alike(t, s)
        <5> HIDE DEF s, t
        <5> QED BY <1>7, <4>1, <4>2, PrecedesIsTransitive, AlikeIs
      <4>5. Alike(s, t) /\ Alike(t, s) <=> sections[i] = p
        <5>1. ASSUME Alike(s, t), Alike(t, s) PROVE sections[i] = p
          <6>1. Twins(sections[i], p) /\ Twins(p, sections[i])
            BY <5>1 DEF Twins
          <6>2. sections[i] <= p /\ p <= sections[i]
            BY <2>4, <4>1, <6>1 DEF Leads
          <6>3. sections[i] \in Nat /\ p \in Nat
            BY <2>4, <4>1, TextIs DEF Headers
          <6> QED BY <6>2, <6>3
        <5>2. sections[i] = p => s = t
          OBVIOUS
        <5>3. Alike(t, t)
          BY <4>1, AlikeIs
        <5> QED BY <5>1, <5>2, <5>3
      <4> QED BY <2>3, <4>3, <4>4, <4>5
    <3>2. LooksFor(cmp, p, f, l)
      BY <3>1 DEF LooksFor
    <3>3. Got(Ini!Find(name, f, l)) = IF p \in cut THEN NULL ELSE p
      BY <1>5, <2>4, <3>2, Bisected
    <3> QED BY <3>3 DEF Ini!Promised, p
  <2>5. CASE p = NULL /\ \A o \in Headers : ~Alike(Ini!NameOf(o), name)
    <3>1. f \in Nat /\ l - f + 1 \in Int /\ f + (l - f + 1) - 1 = l
      BY <1>1, <1>2
    <3> DEFINE r == Ini!bsearch(cmp, f, l - f + 1)
    <3>2. r = 0 \/ (r \in f .. l /\ cmp[r] = 0)
      BY <2>3, <3>1, bsearchSound
    <3> HIDE DEF r
    <3>3. ASSUME r # 0 PROVE FALSE
      <4>1. r \in 1 .. n /\ Alike(name, Ini!NameOf(sections[r]))
        BY <1>3, <2>3, <3>2, <3>3
      <4>2. Alike(Ini!NameOf(sections[r]), name)
        BY <1>4, <1>7, <4>1, AlikeIs
      <4> QED BY <1>4, <2>5, <4>1, <4>2
    <3>4. Got(Ini!Find(name, f, l)) = NULL
      BY <1>5, <3>3 DEF Got, r
    <3> QED BY <2>5, <3>4 DEF Ini!Promised
  <2> QED BY <1>7, <2>4, <2>5, FirstNamedIs
<1> QED BY <1>6, <1>7

\* The same of iniGetFastParsedSectionLV.
LEMMA FindLVIs ==
  ASSUME Ini!FastAssumption, headers \in Ini!Texts, ByName(sections),
         NEW f, NEW l, Window(f, l), NEW name \in Seq(Chars) \cup {NULL}
  PROVE  Got(Ini!FindLV(name, f, l)) = Ini!Promised(name)
<1>1. CASE name # NULL
  BY <1>1, FindIs DEF Ini!FindLV
<1>2. CASE name = NULL
  <2>1. PICK n \in Nat : n = Len(sections)
    BY SequenceFacts DEF ByName
  <2>2. /\ f \in 1 .. n + 1 /\ l \in 1 .. n
        /\ \A i \in 1 .. n : i < f \/ i > l => sections[i] \in cut
    BY <2>1 DEF Window
  <2>3. Ini!FindLV(name, f, l) = IF f <= l /\ sections[f] = 0 THEN f ELSE 0
    BY <1>2 DEF Ini!FindLV
  <2>4. Ini!Promised(name) = IF 0 \in cut THEN NULL ELSE 0
    BY <1>2, FirstRoot DEF Ini!Promised
  <2>5. sections[1] = 0 /\ \A i \in 2 .. n : sections[i] # 0
    BY <2>1, RootIsFirst
  <2>6. CASE f = 1
    BY <2>1, <2>2, <2>3, <2>4, <2>5, <2>6 DEF Got
  <2>7. CASE f # 1
    <3>1. 1 \in 1 .. n /\ 1 < f /\ (f <= l => f \in 2 .. n)
      BY <2>1, <2>2, <2>7
    <3>2. 0 \in cut
      BY <2>2, <2>5, <3>1
    <3>3. Ini!FindLV(name, f, l) = 0
      BY <2>3, <2>5, <3>1
    <3> QED BY <2>4, <3>2, <3>3 DEF Got
  <2> QED BY <2>6, <2>7
<1> QED BY <1>1, <1>2
-----------------------------------------------------------------------------
(* Sections: listed by prefix *)

\* What is listed: the sections at the places, each once and in their order.
LEMMA ListedIs ==
  ASSUME ByName(sections), NEW places \in SUBSET (1 .. Len(sections))
  PROVE  /\ Len(Ini!Listed(places)) \in Nat
         /\ DOMAIN Ini!Listed(places) = 1 .. Len(Ini!Listed(places))
         /\ \A k \in 1 .. Len(Ini!Listed(places)) : \E i \in places : Ini!Listed(places)[k] = sections[i]
         /\ \A i \in places : \E k \in 1 .. Len(Ini!Listed(places)) : Ini!Listed(places)[k] = sections[i]
         /\ \A k \in 2 .. Len(Ini!Listed(places)) : \E i, j \in places :
              i < j /\ Ini!Listed(places)[k - 1] = sections[i] /\ Ini!Listed(places)[k] = sections[j]
<1> DEFINE R == {ab \in places \X places : ab[1] < ab[2]}
           rank(o) == Cardinality({p \in places : <<p, o>> \in R})
           nth(k) == CHOOSE i \in places : Ini!Cardinality({j \in places : j < i}) = k - 1
           list == Ini!Listed(places)
<1>1. PICK n \in Nat : n = Len(sections)
  BY SequenceFacts DEF ByName
<1>2. IsFiniteSet(1 .. n) /\ \A i \in places : i \in Nat /\ i \in 1 .. n
  BY <1>1, FS_Interval
<1>3. IsFiniteSet(places) /\ Cardinality(places) \in Nat
  BY <1>1, <1>2, FS_Subset, FS_CardinalityType
<1>4. PICK c \in Nat : c = Cardinality(places)
  BY <1>3
<1>5. \A a, b \in places : <<a, b>> \in R <=> a < b
  OBVIOUS
<1>6. \A i \in places : Ini!Cardinality({j \in places : j < i}) = rank(i)
  <2> TAKE i \in places
  <2>1. {j \in places : j < i} = {p \in places : <<p, i>> \in R}
    BY <1>5
  <2> QED BY <2>1, IniSets
<1> HIDE DEF R
<1>7. /\ \A i \in places : rank(i) \in 0 .. c - 1
      /\ \A a, b \in places : <<a, b>> \in R <=> rank(a) < rank(b)
      /\ \A k \in 0 .. c - 1 : \E i \in places : rank(i) = k
  <2>1. /\ \A a, b \in places : <<a, b>> \in R \/ <<b, a>> \in R \/ a = b
        /\ \A a \in places : <<a, a>> \notin R
        /\ \A a, b, d \in places : <<a, b>> \in R /\ <<b, d>> \in R => <<a, d>> \in R
    BY <1>2, <1>5
  <2>2. /\ \A o \in places : Cardinality({p \in places : <<p, o>> \in R}) \in 0 .. Cardinality(places) - 1
        /\ \A a, b \in places : <<a, b>> \in R <=>
             Cardinality({p \in places : <<p, a>> \in R}) < Cardinality({p \in places : <<p, b>> \in R})
        /\ \A k \in 0 .. Cardinality(places) - 1 :
             \E o \in places : Cardinality({p \in places : <<p, o>> \in R}) = k
    <3> HIDE DEF rank
    <3> QED BY <1>3, <2>1, RanksInOrder
  <2> QED BY <1>4, <2>2
<1> HIDE DEF rank
<1>8. ASSUME NEW k \in 1 .. c PROVE nth(k) \in places /\ rank(nth(k)) = k - 1
  <2>1. k - 1 \in 0 .. c - 1
    BY <1>4
  <2>2. \E i \in places : Ini!Cardinality({j \in places : j < i}) = k - 1
    BY <1>6, <1>7, <2>1
  <2>3. nth(k) \in places /\ Ini!Cardinality({j \in places : j < nth(k)}) = k - 1
    BY <2>2
  <2> HIDE DEF nth
  <2> QED BY <1>6, <2>3
<1>9. list = [k \in 1 .. c |-> sections[nth(k)]]
  BY <1>4, IniSets DEF Ini!Listed
<1> HIDE DEF nth
<1>10. Len(list) = c /\ DOMAIN list = 1 .. c
  <2>1. \A k \in 1 .. c : sections[nth(k)] \in Headers
    BY <1>1, <1>2, <1>8, SequenceFacts DEF ByName
  <2>2. list \in [1 .. c -> Headers]
    BY <1>9, <2>1
  <2>3. list \in Seq(Headers)
    BY <2>2, SeqDef
  <2>4. PICK m \in Nat : m = Len(list) /\ DOMAIN list = 1 .. m
    BY <2>3, SequenceFacts
  <2>5. 1 .. m = 1 .. c
    BY <2>2, <2>4
  <2>6. m = c
    BY <2>5
  <2> QED BY <2>4, <2>6
<1>11. \A k \in 1 .. c : list[k] = sections[nth(k)]
  BY <1>9
<1> HIDE DEF list
<1>12. ASSUME NEW i \in places PROVE \E k \in 1 .. c : list[k] = sections[i]
  <2>1. PICK r \in 0 .. c - 1 : r = rank(i)
    BY <1>7
  <2>2. r + 1 \in 1 .. c /\ (r + 1) - 1 = r
    BY <1>4
  <2>3. nth(r + 1) \in places /\ rank(nth(r + 1)) = rank(i)
    BY <1>8, <2>1, <2>2
  <2>4. ~(nth(r + 1) < i) /\ ~(i < nth(r + 1))
    <3>1. ~(rank(nth(r + 1)) < rank(i)) /\ ~(rank(i) < rank(nth(r + 1)))
      BY <1>4, <2>1, <2>3
    <3>2. <<nth(r + 1), i>> \notin R /\ <<i, nth(r + 1)>> \notin R
      BY <1>7, <2>3, <3>1
    <3> QED BY <1>5, <2>3, <3>2
  <2>5. nth(r + 1) = i
    <3>1. nth(r + 1) \in Nat /\ i \in Nat
      BY <1>2, <2>3
    <3> QED BY <2>4, <3>1
  <2> QED BY <1>11, <2>2, <2>5
<1>13. ASSUME NEW k \in 2 .. c
       PROVE  \E i, j \in places : i < j /\ list[k - 1] = sections[i] /\ list[k] = sections[j]
  <2>1. k - 1 \in 1 .. c /\ k \in 1 .. c
    BY <1>4
  <2>2. /\ nth(k - 1) \in places /\ rank(nth(k - 1)) = (k - 1) - 1
        /\ nth(k) \in places /\ rank(nth(k)) = k - 1
    BY <1>8, <2>1
  <2>3. nth(k - 1) < nth(k)
    <3>1. rank(nth(k - 1)) < rank(nth(k))
      BY <1>4, <2>2
    <3>2. <<nth(k - 1), nth(k)>> \in R
      BY <1>7, <2>2, <3>1
    <3> QED BY <1>5, <2>2, <3>2
  <2> QED BY <1>11, <2>1, <2>2, <2>3
<1>14. \A k \in 1 .. c : \E i \in places : list[k] = sections[i]
  BY <1>8, <1>11
<1> QED BY <1>10, <1>12, <1>13, <1>14 DEF list

\* A comparison is a number.
LEMMA EachCompares ==
  ASSUME Ini!FastAssumption, NEW s \in Seq(Chars), NEW t \in Seq(Chars)
  PROVE  Ini!strnicmp(s, t, Ini!Shorter(s, t)) \in Int
<1>1. /\ NameCmp(s, t) \in Int
      /\ NameCmp(s, t) = IF Ini!strnicmp(s, t, Ini!Shorter(s, t)) # 0
                         THEN Ini!strnicmp(s, t, Ini!Shorter(s, t)) ELSE Len(s) - Len(t)
  BY CmpIs DEF NameCmp
<1> QED BY <1>1

\* Where a listing starts: at a place of the window, or nowhere.
LEMMA StartIs ==
  ASSUME Ini!FastAssumption, headers \in Ini!Texts, ByName(sections),
         NEW f, NEW l, Window(f, l), NEW prefix \in Seq(Chars)
  PROVE  LET start == Ini!iniGetFastPrefixStart(prefix, f, l)
         IN /\ start \in {0, f} \cup (f .. l)
            /\ prefix = <<>> /\ f <= Len(sections) => start = f
<1> DEFINE cmp == [i \in f .. l |-> Ini!iniGetFastPrefixStartCmp(prefix, i, f)]
           r == Ini!bsearch(cmp, f, l - f + 1)
<1>1. PICK n \in Nat : n = Len(sections)
  BY SequenceFacts DEF ByName
<1>2. f \in 1 .. n + 1 /\ l \in 1 .. n
  BY <1>1 DEF Window
<1>3. \A i \in f .. l : cmp[i] \in Int
  <2> TAKE i \in f .. l
  <2>1. i \in 1 .. n
    BY <1>1, <1>2
  <2>2. Ini!NameOf(sections[i]) \in Seq(Chars)
    BY <1>1, <2>1, SequenceFacts, TextIs DEF ByName
  <2>3. Ini!strnicmp(prefix, Ini!NameOf(sections[i]), Ini!Shorter(prefix, Ini!NameOf(sections[i]))) \in Int
    BY <2>2, EachCompares
  <2> QED BY <2>3 DEF Ini!iniGetFastPrefixStartCmp
<1> HIDE DEF cmp
<1>4. r \in {0} \cup (f .. l)
  <2>1. PICK c \in Int : c = l - f + 1 /\ f + c - 1 = l
    BY <1>1, <1>2
  <2>2. f \in Nat /\ \A i \in f .. f + c - 1 : cmp[i] \in Int
    BY <1>1, <1>2, <1>3, <2>1
  <2>3. Ini!bsearch(cmp, f, c) = 0 \/ Ini!bsearch(cmp, f, c) \in f .. f + c - 1
    BY <2>2, bsearchSound
  <2> QED BY <2>1, <2>3
<1>5. Ini!iniGetFastPrefixStart(prefix, f, l) = IF f > n THEN 0 ELSE IF prefix = <<>> THEN f ELSE r
  BY <1>1 DEF Ini!iniGetFastPrefixStart, Ini!totalSections, cmp
<1> HIDE DEF r
<1> QED BY <1>1, <1>2, <1>4, <1>5

\* What iniGetFastParsedSectionList lists: sections with the prefix that are not cut,
\* in order, and all of them if the prefix is empty.
LEMMA ListIs ==
  ASSUME Ini!FastAssumption, headers \in Ini!Texts, ByName(sections),
         NEW f, NEW l, Window(f, l), NEW prefix \in Seq(Chars)
  PROVE  LET list == Ini!SectionList(prefix, f, l)
         IN /\ Ini!ToSet(list) \subseteq Ini!Selected(prefix)
            /\ prefix = <<>> => Ini!Selected(prefix) \subseteq Ini!ToSet(list)
            /\ \A i \in 2 .. Len(list) : Ini!iniFastParseCmp(list[i - 1], list[i]) < 0
<1> DEFINE start == Ini!iniGetFastPrefixStart(prefix, f, l)
           ended == {i \in start .. l : /\ sections[i] # 0 /\ sections[i] \notin cut
                                        /\ ~Ini!HasPrefix(Ini!NameOf(sections[i]), prefix)}
           last == IF ended = {} THEN l ELSE (CHOOSE i \in ended : \A j \in ended : i <= j) - 1
           places == {i \in start .. last : sections[i] # 0 /\ sections[i] \notin cut}
           list == Ini!SectionList(prefix, f, l)
<1>1. PICK n \in Nat : n = Len(sections)
  BY SequenceFacts DEF ByName
<1>2. /\ f \in 1 .. n + 1 /\ l \in 1 .. n
      /\ \A i \in 1 .. n : i < f \/ i > l => sections[i] \in cut
  BY <1>1 DEF Window
<1>3. /\ start \in {0, f} \cup (f .. l) /\ start \in Nat /\ (start # 0 => start >= f)
      /\ prefix = <<>> /\ f <= n => start = f
  <2>1. start \in {0, f} \cup (f .. l) /\ (prefix = <<>> /\ f <= n => start = f)
    BY <1>1, StartIs
  <2> HIDE DEF start
  <2> QED BY <1>1, <1>2, <2>1
<1>4. list = IF start = 0 THEN <<>> ELSE Ini!Listed(places)
  BY DEF Ini!SectionList
<1>5. /\ \A i \in 1 .. n : sections[i] \in Headers /\ Leads(sections[i])
      /\ \A i \in 1 .. n : Ini!NameOf(sections[i]) \in Seq(Chars)
  BY <1>1, SequenceFacts, TextIs DEF ByName
<1>6. DOMAIN headers = Headers \ {0} /\ \A o \in DOMAIN headers : Ini!NameOf(o) = headers[o]
  BY TextIs DEF Headers, Ini!NameOf
<1>7. \A o \in DOMAIN headers : Leads(o) <=> Ini!FirstNamed(headers[o]) = o
  <2> TAKE o \in DOMAIN headers
  <2> DEFINE p == Ini!FirstNamed(headers[o])
  <2>1. o \in Headers /\ o \in Nat /\ headers[o] \in Seq(Chars) /\ Ini!NameOf(o) = headers[o]
    BY <1>6, TextIs DEF Headers
  <2>2. Alike(Ini!NameOf(o), headers[o])
    BY <2>1, AlikeIs
  <2>3. p \in Headers /\ Leads(p) /\ Alike(Ini!NameOf(p), headers[o])
    BY <2>1, <2>2, FirstNamedIs
  <2> HIDE DEF p
  <2>4. Twins(p, o) /\ Twins(o, p) /\ p \in Nat
    BY <2>1, <2>3, TextIs, AlikeIs DEF Twins, Headers
  <2>5. ASSUME Leads(o) PROVE p = o
    <3>1. o <= p /\ p <= o
      BY <2>1, <2>3, <2>4, <2>5 DEF Leads
    <3> QED BY <2>1, <2>4, <3>1
  <2> QED BY <2>3, <2>5 DEF p
<1> HIDE DEF start
<1>8. /\ last \in Int /\ last <= l /\ (prefix = <<>> /\ start # 0 => last = l)
      /\ \A i \in start .. last : i \in start .. l /\ i \notin ended
  <2>1. ended \in SUBSET Nat /\ \A i \in ended : i <= l
    BY <1>1, <1>2, <1>3
  <2>2. prefix = <<>> /\ start # 0 => ended = {}
    <3>1. ASSUME NEW s \in Seq(Chars) PROVE Ini!HasPrefix(s, <<>>)
      <4>1. Len(s) \in Nat /\ Len(<<>>) = 0
        BY SequenceFacts
      <4>2. 1 .. 0 = {}
        OBVIOUS
      <4>3. Ini!strnicmp(s, <<>>, 0) = 0
        BY <4>2 DEF Ini!strnicmp
      <4> QED BY <4>1, <4>3 DEF Ini!HasPrefix
    <3>2. ASSUME start # 0, prefix = <<>>, NEW i \in start .. l
          PROVE  Ini!HasPrefix(Ini!NameOf(sections[i]), prefix)
      <4>1. i \in 1 .. n
        BY <1>1, <1>2, <1>3, <3>2
      <4> QED BY <1>5, <3>1, <3>2, <4>1
    <3> QED BY <3>2
  <2>3. CASE ended = {}
    <3>1. last = l /\ \A i \in start .. last : i \notin ended
      BY <2>3
    <3> HIDE DEF last, ended
    <3> QED BY <1>1, <1>2, <3>1
  <2>4. CASE ended # {}
    <3> DEFINE m == CHOOSE i \in ended : \A j \in ended : i <= j
    <3>1. m \in ended /\ \A j \in ended : m <= j
      <4> HIDE DEF ended
      <4> QED BY <2>1, <2>4, LeastMember
    <3>2. last = m - 1
      BY <2>4
    <3> HIDE DEF m, ended, last
    <3>3. m \in Nat /\ m <= l
      BY <2>1, <3>1
    <3>4. \A i \in start .. last : i \in start .. l /\ i \notin ended
      BY <1>1, <1>2, <1>3, <3>1, <3>2, <3>3
    <3> QED BY <1>1, <1>2, <2>2, <2>4, <3>2, <3>3, <3>4
  <2> QED BY <2>3, <2>4
<1>9. CASE start = 0
  <2>1. list = <<>>
    BY <1>4, <1>9
  <2> HIDE DEF list
  <2>2. Ini!ToSet(list) = {} /\ Len(list) = 0
    BY <2>1 DEF Ini!ToSet
  <2>3. ASSUME prefix = <<>>, NEW o \in Ini!Selected(prefix) PROVE FALSE
    <3>1. o \in DOMAIN headers /\ o \notin cut /\ Ini!FirstNamed(headers[o]) = o
      BY DEF Ini!Selected
    <3>2. PICK i \in 1 .. n : sections[i] = o
      BY <1>1, <1>6, <1>7, <3>1 DEF ByName
    <3>3. i < f
      BY <1>1, <1>2, <1>3, <1>9, <2>3
    <3> QED BY <1>2, <3>1, <3>2, <3>3
  <2>4. \A i \in 2 .. Len(list) : FALSE
    BY <2>2
  <2> QED BY <2>2, <2>3, <2>4 DEF list
<1>10. CASE start # 0
  <2>1. list = Ini!Listed(places)
    BY <1>4, <1>10
  <2>2. \A i \in places : /\ i \in 1 .. n /\ sections[i] # 0 /\ sections[i] \notin cut
                          /\ Ini!HasPrefix(Ini!NameOf(sections[i]), prefix)
    <3> TAKE i \in places
    <3>1. i \in start .. last /\ sections[i] # 0 /\ sections[i] \notin cut
      OBVIOUS
    <3>2. i \in start .. l /\ i \notin ended
      BY <1>8, <3>1
    <3>3. Ini!HasPrefix(Ini!NameOf(sections[i]), prefix)
      BY <3>1, <3>2
    <3>4. i \in 1 .. n
      <4> HIDE DEF last, ended, places
      <4> QED BY <1>1, <1>2, <1>3, <1>10, <3>2
    <3> QED BY <3>1, <3>3, <3>4
  <2>3. \A i \in 1 .. n : prefix = <<>> /\ sections[i] # 0 /\ sections[i] \notin cut => i \in places
    <3> SUFFICES ASSUME NEW i \in 1 .. n, prefix = <<>>, sections[i] # 0, sections[i] \notin cut
                 PROVE  i \in start .. last
      OBVIOUS
    <3>1. f <= i /\ i <= l
      BY <1>1, <1>2
    <3>2. start = f /\ last = l
      <4> HIDE DEF last
      <4> QED BY <1>1, <1>2, <1>3, <1>8, <3>1
    <3> HIDE DEF last
    <3> QED BY <1>1, <1>2, <3>1, <3>2
  <2> HIDE DEF places, last, ended, list
  <2>4. places \in SUBSET (1 .. Len(sections))
    BY <1>1, <2>2
  <2>5. /\ Len(list) \in Nat /\ DOMAIN list = 1 .. Len(list)
        /\ \A k \in 1 .. Len(list) : \E i \in places : list[k] = sections[i]
        /\ \A i \in places : \E k \in 1 .. Len(list) : list[k] = sections[i]
        /\ \A k \in 2 .. Len(list) : \E i, j \in places :
             i < j /\ list[k - 1] = sections[i] /\ list[k] = sections[j]
    BY <2>1, <2>4, ListedIs
  <2>6. \A o : o \in Ini!ToSet(list) <=> \E i \in places : o = sections[i]
    BY <2>5 DEF Ini!ToSet
  <2>7. ASSUME NEW i \in places PROVE sections[i] \in Ini!Selected(prefix)
    <3>1. sections[i] \in DOMAIN headers /\ sections[i] \notin cut /\ Leads(sections[i])
      BY <1>5, <1>6, <2>2
    <3>2. Ini!FirstNamed(headers[sections[i]]) = sections[i]
      BY <1>7, <3>1
    <3>3. Ini!HasPrefix(headers[sections[i]], prefix)
      BY <1>6, <2>2, <3>1
    <3> QED BY <3>1, <3>2, <3>3 DEF Ini!Selected
  <2>8. ASSUME prefix = <<>>, NEW o \in Ini!Selected(prefix) PROVE o \in Ini!ToSet(list)
    <3>1. o \in DOMAIN headers /\ o \notin cut /\ Ini!FirstNamed(headers[o]) = o
      BY DEF Ini!Selected
    <3>2. PICK i \in 1 .. n : sections[i] = o
      BY <1>1, <1>6, <1>7, <3>1 DEF ByName
    <3> QED BY <1>6, <2>3, <2>6, <2>8, <3>1, <3>2
  <2>9. ASSUME NEW k \in 2 .. Len(list) PROVE Ini!iniFastParseCmp(list[k - 1], list[k]) < 0
    <3>1. PICK i \in places, j \in places : i < j /\ list[k - 1] = sections[i] /\ list[k] = sections[j]
      BY <2>5
    <3>2. i \in 1 .. n /\ j \in 1 .. n
      BY <2>2
    <3>3. Precedes(Ini!NameOf(sections[i]), Ini!NameOf(sections[j]))
      BY <1>1, <3>1, <3>2 DEF ByName
    <3>4. Ahead(sections[i], sections[j])
      BY <3>3 DEF Ahead
    <3> QED BY <1>5, <3>1, <3>2, <3>4, ParseCmpIs
  <2> QED BY <2>6, <2>7, <2>8, <2>9 DEF list
<1> QED BY <1>9, <1>10

\* The invariant is enough.
LEMMA LookupsFollow ==
  ASSUME Ini!FastAssumption, IniInv
  PROVE  LookupsExact
<1> SUFFICES ASSUME Ini!Parsed PROVE Ini!LookupsExact
  BY DEF LookupsExact, Ini!LookupsExact
<1> DEFINE f == Ini!adjustUncuts[1]
           l == Ini!adjustUncuts[2]
<1>1. headers \in Ini!Texts /\ ByName(sections) /\ Window(f, l)
  BY AdjustedIs DEF IniInv, Ini!Parsed
<1>2. Queries \subseteq Seq(Chars)
  BY DEF Ini!FastAssumption
<1> HIDE DEF f, l
<1>3. \A name \in Queries \cup {NULL} :
        Got(Ini!Find(name, f, l)) = Ini!Promised(name) /\ Got(Ini!FindLV(name, f, l)) = Ini!Promised(name)
  BY <1>1, <1>2, FindIs, FindLVIs
<1>4. \A prefix \in Queries :
        /\ Ini!ToSet(Ini!SectionList(prefix, f, l)) \subseteq Ini!Selected(prefix)
        /\ prefix = <<>> => Ini!Selected(prefix) \subseteq Ini!ToSet(Ini!SectionList(prefix, f, l))
        /\ \A i \in 2 .. Len(Ini!SectionList(prefix, f, l)) :
             Ini!iniFastParseCmp(Ini!SectionList(prefix, f, l)[i - 1], Ini!SectionList(prefix, f, l)[i]) < 0
  BY <1>1, <1>2, ListIs
<1> QED BY <1>3, <1>4 DEF Ini!LookupsExact, Got, f, l
-----------------------------------------------------------------------------
(* Sections: the steps *)

\* What a lookup compares with is in the window.
LEMMA FoundInside ==
  ASSUME Ini!FastAssumption, headers \in Ini!Texts, ByName(sections),
         NEW f, NEW l, Window(f, l), NEW name \in Seq(Chars) \cup {NULL}
  PROVE  Ini!Find(name, f, l) \in {0} \cup (f .. l) /\ Ini!FindLV(name, f, l) \in {0} \cup (f .. l)
<1> DEFINE cmp == [i \in f .. l |-> Ini!iniGetFastParsedSectionCmp(name, sections[i])]
<1>1. PICK n \in Nat : n = Len(sections)
  BY SequenceFacts DEF ByName
<1>2. f \in 1 .. n + 1 /\ l \in 1 .. n
  BY <1>1 DEF Window
<1>3. ASSUME NEW i \in f .. l PROVE cmp[i] \in Int
  <2>1. i \in 1 .. n
    BY <1>1, <1>2
  <2>2. Ini!NameOf(sections[i]) \in Seq(Chars)
    BY <1>1, <2>1, SequenceFacts, TextIs DEF ByName
  <2>3. CASE name = NULL
    BY <2>3 DEF Ini!iniGetFastParsedSectionCmp
  <2>4. CASE name \in Seq(Chars)
    <3>1. name # NULL
      BY <2>4 DEF Ini!FastAssumption
    <3>2. cmp[i] = NameCmp(name, Ini!NameOf(sections[i]))
      BY <3>1 DEF Ini!iniGetFastParsedSectionCmp, NameCmp
    <3> QED BY <2>2, <2>4, <3>2, CmpIs
  <2> QED BY <2>3, <2>4
<1> HIDE DEF cmp
<1>4. Ini!bsearch(cmp, f, l - f + 1) \in {0} \cup (f .. l)
  <2>1. PICK c \in Int : c = l - f + 1 /\ f + c - 1 = l
    BY <1>1, <1>2
  <2>2. f \in Nat /\ \A i \in f .. f + c - 1 : cmp[i] \in Int
    BY <1>1, <1>2, <1>3, <2>1
  <2>3. Ini!bsearch(cmp, f, c) = 0 \/ Ini!bsearch(cmp, f, c) \in f .. f + c - 1
    BY <2>2, bsearchSound
  <2> QED BY <2>1, <2>3
<1>5. Ini!Find(name, f, l) = Ini!bsearch(cmp, f, l - f + 1)
  BY DEF Ini!Find, cmp
<1>6. f <= l => f \in f .. l
  BY <1>1, <1>2
<1> QED BY <1>4, <1>5, <1>6 DEF Ini!FindLV

\* It holds before anything is parsed,
LEMMA IniInit ==
  Ini!Init => IniInv
BY DEF Ini!Init, IniInv

\* and each call keeps it.
LEMMA IniNext ==
  ASSUME Ini!FastAssumption, FewTwins, IniInv, [Ini!Next]_(Ini!vars)
  PROVE  IniInv'
<1> DEFINE f == Ini!adjustUncuts[1]
           l == Ini!adjustUncuts[2]
<1>1. headers \in Ini!Texts
  BY DEF IniInv
<1>2. Queries \subseteq Seq(Chars)
  BY DEF Ini!FastAssumption
<1>3. sections # <<>> => ByName(sections) /\ Window(f, l)
  BY AdjustedIs DEF IniInv
<1>4. ByName(sections) /\ UNCHANGED <<headers, sections>> => ByName(sections)'
  BY DEF ByName, Leads, Twins, Headers, Ini!NameOf, Alike, Precedes, At
<1>5. CASE Ini!iniFastParseSections
  <2> DEFINE unique == Ini!Deduped[Len(headers) + 1]
  <2>1. /\ sections' = unique /\ cut' = {} /\ firstUncut' = 1 /\ lastUncut' = Len(unique)
        /\ headers' = headers
    BY <1>5 DEF Ini!iniFastParseSections
  <2>2. ByName(unique)
    BY <1>1, DedupedIs
  <2> HIDE DEF unique
  <2>3. ByName(sections)'
    BY <2>1, <2>2 DEF ByName, Leads, Twins, Headers, Ini!NameOf, Alike, Precedes, At
  <2>4. PICK n \in Nat : n = Len(unique) /\ n > 0
    BY <2>2, SequenceFacts DEF ByName
  <2>5. /\ 1 \in 1 .. n + 1 /\ n \in 1 .. n
        /\ \A i \in 1 .. n : ~(i < 1 \/ i > n)
    BY <2>4
  <2>6. Window(firstUncut, lastUncut)'
    BY <2>1, <2>4, <2>5 DEF Window
  <2> QED BY <1>1, <2>1, <2>3, <2>6 DEF IniInv
<1>6. CASE Ini!iniFreeFastParse
  BY <1>1, <1>6 DEF Ini!iniFreeFastParse, IniInv
<1>7. ASSUME NEW name \in Queries \cup {NULL}, NEW remove \in BOOLEAN,
             Ini!iniGetFastParsedSection(name, remove) \/ Ini!iniGetFastParsedSectionLV(name, remove)
      PROVE  IniInv'
  <2>1. /\ sections # <<>>
        /\ \/ Ini!iniHandleFoundSection(Ini!Find(name, f, l), f, l, remove)
           \/ Ini!iniHandleFoundSection(Ini!FindLV(name, f, l), f, l, remove)
    BY <1>7 DEF Ini!iniGetFastParsedSection, Ini!iniGetFastParsedSectionLV, Ini!Parsed
  <2>2. name \in Seq(Chars) \cup {NULL}
    BY <1>2
  <2> HIDE DEF f, l
  <2>3. Ini!Find(name, f, l) \in {0} \cup (f .. l) /\ Ini!FindLV(name, f, l) \in {0} \cup (f .. l)
    BY <1>1, <1>3, <2>1, <2>2, FoundInside
  <2> QED BY <1>3, <2>1, <2>3, FoundKeeps
<1>8. ASSUME NEW prefix \in Queries, Ini!iniGetFastParsedSectionList(prefix) PROVE IniInv'
  <2>1. /\ sections # <<>> /\ UNCHANGED <<headers, sections, cut>>
        /\ \/ firstUncut' = firstUncut /\ lastUncut' = lastUncut
           \/ firstUncut' = f /\ lastUncut' = l
    BY <1>8 DEF Ini!iniGetFastParsedSectionList, Ini!Parsed
  <2>2. Window(f, l) /\ Window(firstUncut, lastUncut) /\ ByName(sections)'
    BY <1>3, <1>4, <2>1 DEF IniInv
  <2> HIDE DEF f, l
  <2>3. Window(firstUncut, lastUncut)'
    BY <2>1, <2>2 DEF Window
  <2> QED BY <1>1, <2>1, <2>2, <2>3 DEF IniInv
<1>9. CASE UNCHANGED Ini!vars
  <2>1. UNCHANGED <<headers, sections, cut, firstUncut, lastUncut>>
    BY <1>9 DEF Ini!vars
  <2>2. sections # <<>> => Window(firstUncut, lastUncut)'
    BY <2>1 DEF IniInv, Window
  <2> QED BY <1>1, <1>3, <1>4, <2>1, <2>2 DEF IniInv
<1> QED BY <1>5, <1>6, <1>7, <1>8, <1>9 DEF Ini!Next

\* Whatever names a text has, as long as no three are one name, and whichever
\* sections have been cut: a section of it is found by its name until it is cut.
THEOREM LookupsAreExact ==
  ASSUME Ini!FastAssumption, FewTwins
  PROVE  Ini!Spec => []LookupsExact
<1>1. Ini!Init => IniInv
  BY IniInit
<1>2. IniInv /\ [Ini!Next]_(Ini!vars) => IniInv'
  BY IniNext
<1>3. IniInv => LookupsExact
  BY LookupsFollow
<1> QED BY <1>1, <1>2, <1>3, PTL DEF Ini!Spec
=============================================================================
