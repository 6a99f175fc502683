------------------------------- MODULE Stbuf -------------------------------
(***************************************************************************)
(* stbuf.c: a buffer of bytes that grows as it is written to.  Sizes are   *)
(* of the width of size_t.  Any allocation may fail; a call that fails     *)
(* changes nothing.  One thread uses a buffer, and the bytes that are put  *)
(* into it are not its own (stbuf is a restrict pointer).                  *)
(***************************************************************************)
EXTENDS Naturals, Sequences

CONSTANTS Bytes,         \* what a buffer can hold ...
          Nul,           \* ... among it NUL
          Uninitialized, \* what memory holds before it is written
          SIZE_MAX, STBUF_OFFSET,
          MaxInsert,     \* bound on the bytes that a call inserts
          NULL

StbufConstants ==
  /\ Nul \in Bytes /\ Uninitialized \notin Bytes
  /\ SIZE_MAX \in Nat /\ STBUF_OFFSET \in Nat \ {0} /\ STBUF_OFFSET < SIZE_MAX
  /\ MaxInsert \in Nat

VARIABLES stb,   \* the stbuf_raw of the caller: its allocation has the cells buf[0] to buf[sz]
          said   \* what the calls have made of its contents

vars == <<stb, said>>

STBUF_MAX == SIZE_MAX - STBUF_OFFSET - 1

\* size_t wraps.
Sum2(m, n) == (m + n) % (SIZE_MAX + 1)

Init == stb = NULL /\ said = <<>>
-----------------------------------------------------------------------------
(* Allocation *)

Made(sz, dynamic, cells) ==
  /\ stb = NULL
  /\ stb' = [sz |-> sz, len |-> 0, dynamic |-> dynamic, buf |-> cells]
  /\ said' = <<>>

stbuf_malloc(bufsz) ==
  /\ bufsz <= STBUF_MAX
  /\ Made(bufsz, TRUE, [i \in 0 .. bufsz |-> IF i = bufsz THEN Nul ELSE Uninitialized])

stbuf_zalloc(bufsz) ==
  /\ bufsz <= STBUF_MAX
  /\ Made(bufsz, TRUE, [i \in 0 .. bufsz |-> Nul])

stbuf_frommem(size, allocated) ==
  /\ size >= STBUF_OFFSET + 1
  /\ LET sz == size - STBUF_OFFSET - 1
     IN Made(sz, allocated, [i \in 0 .. sz |-> IF i = 0 THEN Nul ELSE Uninitialized])

\* Of a buffer that is not dynamic the memory is its owner's.
stbuf_free == stb # NULL /\ stb' = NULL /\ said' = <<>>

olen == IF stb = NULL THEN 0 ELSE stb.len

\* The allocation that newsz bytes need, header and NUL included.
Reallocatable(newsz) ==
  /\ newsz >= STBUF_OFFSET + 1
  /\ stb # NULL => newsz >= stb.len + STBUF_OFFSET + 1 /\ stb.dynamic

\* The cells of a new allocation; those of a NULL buffer are all uninitialized.
stbuf_realloc(newsz) ==
  [i \in 0 .. newsz - STBUF_OFFSET - 1 |->
     IF stb # NULL /\ i \in DOMAIN stb.buf THEN stb.buf[i] ELSE Uninitialized]

Enough(newsz) == stb # NULL /\ newsz <= stb.sz

AtLeast(newsz) ==
  newsz <= STBUF_MAX /\ (Enough(newsz) \/ Reallocatable(Sum2(newsz, STBUF_OFFSET + 1)))

\* The cells after stbuf_atleast.
Grown(newsz) == IF Enough(newsz) THEN stb.buf ELSE stbuf_realloc(Sum2(newsz, STBUF_OFFSET + 1))
GrownSize(newsz) == IF Enough(newsz) THEN stb.sz ELSE Sum2(newsz, STBUF_OFFSET + 1) - STBUF_OFFSET - 1

Resized(newsz) ==
  /\ Reallocatable(newsz)
  /\ stb' = [stb EXCEPT !.sz = newsz - STBUF_OFFSET - 1, !.buf = stbuf_realloc(newsz)]
  /\ UNCHANGED said

\* The length of what is made from a NULL pointer would not be set.
stbuf_atleast(newsz) ==
  /\ stb # NULL
  /\ newsz <= STBUF_MAX /\ ~Enough(newsz)
  /\ Resized(Sum2(newsz, STBUF_OFFSET + 1))

stbuf_lipo ==
  /\ stb # NULL
  /\ Resized(stb.len + STBUF_OFFSET + 1)

stbuf_truncate(len) ==
  /\ stb # NULL /\ stb.len > len
  /\ stb' = [stb EXCEPT !.len = len, !.buf[len] = Nul]
  /\ said' = SubSeq(said, 1, len)
-----------------------------------------------------------------------------
(* stbuf_memrepl, which all that copy, append, insert and remove call *)

Removed(start, rlen) == IF rlen > olen - start THEN olen - start ELSE rlen

\* What is left of the room once rlen bytes have gone.
Room(rlen) == Sum2(STBUF_MAX - olen, rlen)

\* Mistake: the NUL behind the bytes that make way is left where it is.
MovedWithoutNul(cells, start, rlen, ilen, nlen) ==
  [i \in DOMAIN cells |->
     IF olen - start - rlen = 0 THEN (IF i = nlen THEN Nul ELSE cells[i])
     ELSE IF i \in start + ilen .. nlen - 1 THEN cells[i - ilen + rlen] ELSE cells[i]]

\* memmove of the bytes behind with their NUL, or a new NUL if there are none
Moved(cells, start, rlen, ilen, nlen) ==
  [i \in DOMAIN cells |->
     IF olen - start - rlen = 0 THEN (IF i = nlen THEN Nul ELSE cells[i])
     ELSE IF i \in start + ilen .. nlen THEN cells[i - ilen + rlen] ELSE cells[i]]

Copied(cells, start, mem) ==
  [i \in DOMAIN cells |-> IF i \in start .. start + Len(mem) - 1 THEN mem[i - start + 1] ELSE cells[i]]

stbuf_memrepl(start, most, mem) ==
  /\ start <= olen
  /\ LET rlen == Removed(start, most)
         ilen == Len(mem)
         nlen == olen - rlen + ilen
     IN /\ ilen <= Room(rlen)
        /\ AtLeast(nlen)
        /\ stb' = [sz |-> GrownSize(nlen), len |-> nlen,
                   dynamic |-> IF stb = NULL THEN TRUE ELSE stb.dynamic,
                   buf |-> Copied(Moved(Grown(nlen), start, rlen, ilen, nlen), start, mem)]
        /\ said' = SubSeq(said, 1, start) \o mem \o SubSeq(said, start + rlen + 1, Len(said))
-----------------------------------------------------------------------------
Sizes == 0 .. SIZE_MAX

Next ==
  \/ \E n \in Sizes : stbuf_malloc(n) \/ stbuf_zalloc(n) \/ stbuf_atleast(n) \/ stbuf_truncate(n)
  \/ \E n \in Sizes, allocated \in BOOLEAN : stbuf_frommem(n, allocated)
  \/ stbuf_free \/ stbuf_lipo
  \/ \E start, most \in Sizes, k \in 0 .. MaxInsert : \E mem \in [1 .. k -> Bytes] :
       stbuf_memrepl(start, most, mem)

Spec == Init /\ [][Next]_vars
-----------------------------------------------------------------------------
(* Properties *)

Contents == [i \in 1 .. stb.len |-> stb.buf[i - 1]]

\* After any sequence of calls, up to the largest size, a buffer holds the bytes
\* that the calls have made of it, within its allocation, and "there is always a
\* NUL after the last byte" (stbuf.h) -- unless stbuf_malloc has just made it.
HoldsWhatWasPut ==
  stb # NULL =>
    /\ stb.len <= stb.sz /\ stb.sz <= STBUF_MAX
    /\ DOMAIN stb.buf = 0 .. stb.sz
    /\ Contents = said
    /\ stb.buf[stb.len] = Nul \/ (stb.len = 0 /\ stb.buf[0] = Uninitialized)
=============================================================================
