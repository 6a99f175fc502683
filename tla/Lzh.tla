-------------------------------- MODULE Lzh --------------------------------
(***************************************************************************)
(* encode/lzh.c: lzh_encode writes a text as literals and as references to *)
(* the text before, each by its Huffman code; lzh_decode reads it back.    *)
(***************************************************************************)
EXTENDS Huffman

CONSTANTS Bytes,           \* number of literals
          Space,           \* what the window holds before the text
          LZH_STRBUF_SZ, LZH_LOOKAHD_SZ, LZH_THRESHOLD,
          LowBits,         \* of a position, written as they are
          PeekBits,        \* read at once for the upper ones
          lzh_p_len, lzh_p_code, lzh_d_len, lzh_d_code,
          Texts, OutSizes  \* what is encoded, and the room for the codes

LzhAssumption == LZH_N_CHAR = Bytes - LZH_THRESHOLD + LZH_LOOKAHD_SZ

VARIABLES text, outsz,     \* the arguments
          pc,              \* encode, decode, done or failed
          enc, dec,        \* lzh_encode_t and lzh_decode_t, with their locals
          packed           \* outbuf of the encoder

vars == <<text, outsz, pc, enc, dec, packed>>

S == LZH_STRBUF_SZ
LZH_NIL == S
Min2(a, b) == IF a < b THEN a ELSE b

-----------------------------------------------------------------------------
(* Bits in bytes.  Codes stand in the upper bits of 16. *)

Word == 65536

\* l bits of c; the putlen bits that wait are the upper ones of putbuf.
lzh_putcode(out, l, c) ==
  LET putbuf == out.putbuf + c \div 2 ^ out.putlen
      have == out.putlen + l
      rest == have - 16
  IN IF have < 8 THEN [out EXCEPT !.putbuf = putbuf, !.putlen = have]
     ELSE IF have < 16
     THEN [bytes |-> Append(out.bytes, putbuf \div 256),
           putbuf |-> (putbuf * 256) % Word, putlen |-> have - 8]
     ELSE [bytes |-> out.bytes \o <<putbuf \div 256, putbuf % 256>>,
           putbuf |-> (c * 2 ^ (l - rest)) % Word, putlen |-> rest]

lzh_encode_end(out) ==
  IF out.putlen = 0 THEN out ELSE [out EXCEPT !.bytes = Append(@, out.putbuf \div 256)]

Number(bits) == FoldLeft(LAMBDA n, b : 2 * n + b, 0, bits)

lzh_encode_char(out, huff, c) ==
  LET code == CodeOf(huff, c)
  IN lzh_putcode(out, Len(code), Number(code) * 2 ^ (16 - Len(code)))

lzh_encode_position(out, c) ==
  LET upper == c \div 2 ^ LowBits
  IN lzh_putcode(lzh_putcode(out, lzh_p_len[upper], lzh_p_code[upper] * 2 ^ (16 - PeekBits)),
                 LowBits, (c % 2 ^ LowBits) * 2 ^ (16 - LowBits))

\* Bits behind the end are zero.
Fill(in) ==
  LET byte(b) == IF b.incnt < Len(packed) THEN packed[b.incnt + 1] ELSE 0
      load(b, i) == IF b.getlen > 8 THEN b
                    ELSE [getbuf |-> b.getbuf + byte(b) * 2 ^ (8 - b.getlen),
                          getlen |-> b.getlen + 8,
                          incnt |-> Min2(b.incnt + 1, Len(packed))]
  IN FoldLeft(load, in, <<1, 2>>)

\* lzh_getbit and lzh_getbyte: n bits, as a number, and what is left.
GetBits(in, n) ==
  LET full == Fill(in)
  IN [bits |-> full.getbuf \div 2 ^ (16 - n),
      in |-> [full EXCEPT !.getbuf = (@ * 2 ^ n) % Word, !.getlen = @ - n]]

lzh_decode_char(in, huff) ==
  LET down(at, i) ==
        IF at.node >= LZH_TABLE_SZ THEN at
        ELSE LET got == GetBits(at.in, 1) IN [node |-> huff.child[at.node + got.bits], in |-> got.in]
      leaf == FoldLeft(down, [node |-> huff.child[LZH_ROOT], in |-> in], [i \in 1 .. LZH_N_CHAR |-> i])
  IN [c |-> leaf.node - LZH_TABLE_SZ, in |-> leaf.in]

\* What was read beyond the code of the upper bits are lower bits.
lzh_decode_position(in) ==
  LET peek == GetBits(in, PeekBits)
      more == lzh_d_len[peek.bits] - (PeekBits - LowBits)
      rest == FoldLeft(LAMBDA b, i : LET got == GetBits(b.in, 1)
                                     IN [bits |-> 2 * b.bits + got.bits, in |-> got.in],
                       peek, [i \in 1 .. more |-> i])
  IN [c |-> lzh_d_code[peek.bits] * 2 ^ LowBits + (rest.bits % 2 ^ LowBits), in |-> rest.in]

-----------------------------------------------------------------------------
(* The encoder's search trees over the window, one for each first byte *)

RootFor(byte) == S + 1 + byte

lzh_init_tree ==
  [lchild |-> [i \in 0 .. S |-> 0],
   rchild |-> [i \in 0 .. S + Bytes |-> IF i > S THEN LZH_NIL ELSE 0],
   eparent |-> [i \in 0 .. S |-> IF i < S THEN LZH_NIL ELSE 0]]

\* q takes the place of p below its parent.
Replace(t, p, q) ==
  LET up == t.eparent[p]
      at == [t EXCEPT !.eparent[q] = up]
  IN IF t.rchild[up] = p THEN [at EXCEPT !.rchild[up] = q] ELSE [at EXCEPT !.lchild[up] = q]

\* The first place at which two strings of the window differ, from 1 on.
Differ(buf, r, p) ==
  LET places == {i \in 1 .. LZH_LOOKAHD_SZ - 1 : buf[r + i] # buf[p + i]}
  IN IF places = {} THEN LZH_LOOKAHD_SZ ELSE CHOOSE i \in places : \A j \in places : i <= j

Distance(r, p) == ((r + S - p) % S) - 1

\* The longer match, of equal ones the nearer.
Better(m, i, d) ==
  IF i > LZH_THRESHOLD /\ (i > m.length \/ (i = m.length /\ d < m.position))
  THEN [length |-> i, position |-> d] ELSE m

lzh_insert_node(buf, tree, r) ==
  LET fresh == [tree EXCEPT !.lchild[r] = LZH_NIL, !.rchild[r] = LZH_NIL]
      down(at, step) ==
        LET p == IF at.right THEN at.tree.rchild[at.p] ELSE at.tree.lchild[at.p]
            i == Differ(buf, r, p)
            match == Better(at.match, i, Distance(r, p))
            attached == IF at.right THEN [at.tree EXCEPT !.rchild[at.p] = r, !.eparent[r] = at.p]
                        ELSE [at.tree EXCEPT !.lchild[at.p] = r, !.eparent[r] = at.p]
            children == [at.tree EXCEPT !.lchild[r] = at.tree.lchild[p], !.rchild[r] = at.tree.rchild[p]]
            adopted == [children EXCEPT !.eparent =
                          [@ EXCEPT ![at.tree.lchild[p]] = r, ![at.tree.rchild[p]] = r]]
        IN IF at.done THEN at
           ELSE IF p = LZH_NIL THEN [at EXCEPT !.tree = attached, !.done = TRUE]
           ELSE IF i = LZH_LOOKAHD_SZ
           THEN [at EXCEPT !.tree = [Replace(adopted, p, r) EXCEPT !.eparent[p] = LZH_NIL],
                           !.match = match, !.done = TRUE]
           ELSE [at EXCEPT !.p = p, !.match = match, !.right = buf[r + i] >= buf[p + i]]
      end == FoldLeft(down, [tree |-> fresh, p |-> RootFor(buf[r]), right |-> TRUE, done |-> FALSE,
                             match |-> [length |-> 0, position |-> 0]],
                      [step \in 1 .. S + 1 |-> step])
  IN [tree |-> end.tree, match |-> end.match]

\* Mistake: what is below the left child's right is forgotten.
lzh_delete_nodeForgetting(tree, p) ==
  LET left == tree.lchild[p]
      right == tree.rchild[p]
      joined == [tree EXCEPT !.rchild[left] = right, !.eparent[right] = left]
  IN IF tree.eparent[p] = LZH_NIL THEN tree
     ELSE IF left = LZH_NIL THEN [Replace(tree, p, right) EXCEPT !.eparent[p] = LZH_NIL]
     ELSE [Replace(IF right = LZH_NIL THEN tree ELSE joined, p, left) EXCEPT !.eparent[p] = LZH_NIL]

\* With two children, the last node of the left one takes the place.
lzh_delete_node(tree, p) ==
  LET left == tree.lchild[p]
      right == tree.rchild[p]
      last[q \in 0 .. S - 1] == IF tree.rchild[q] = LZH_NIL THEN q ELSE last[tree.rchild[q]]
      q == IF right = LZH_NIL THEN left ELSE IF left = LZH_NIL THEN right ELSE last[left]
      lifted == IF q = left THEN tree
                ELSE [tree EXCEPT !.rchild[tree.eparent[q]] = tree.lchild[q],
                                  !.eparent = [@ EXCEPT ![tree.lchild[q]] = tree.eparent[q], ![left] = q],
                                  !.lchild[q] = left]
      joined == IF right = LZH_NIL \/ left = LZH_NIL THEN tree
                ELSE [lifted EXCEPT !.rchild[q] = right, !.eparent[right] = q]
  IN IF tree.eparent[p] = LZH_NIL THEN tree
     ELSE [Replace(joined, p, q) EXCEPT !.eparent[p] = LZH_NIL]

-----------------------------------------------------------------------------
(* Encoding *)

Insert(e, r) ==
  LET in == lzh_insert_node(e.buf, e.tree, r) IN [e EXCEPT !.tree = in.tree, !.match = in.match]

\* The window with the first bytes of the text ahead of r.
Begun ==
  LET r == S - LZH_LOOKAHD_SZ
      len == Min2(LZH_LOOKAHD_SZ, Len(text))
      buf == [i \in 0 .. S + LZH_LOOKAHD_SZ - 2 |->
                IF i < r THEN Space ELSE IF i < r + len THEN text[i - r + 1] ELSE 0]
      e == [buf |-> buf, tree |-> lzh_init_tree, match |-> [length |-> 0, position |-> 0],
            huff |-> lzh_start_huff, out |-> [bytes |-> <<>>, putbuf |-> 0, putlen |-> 0],
            s |-> 0, r |-> r, len |-> len, incnt |-> len]
  IN FoldLeft(Insert, e, [i \in 1 .. LZH_LOOKAHD_SZ + 1 |-> IF i > LZH_LOOKAHD_SZ THEN r ELSE r - i])

\* Mistake: nothing is kept behind the end, where strings that wrap are compared.
SlideWithoutCopy(e, step) ==
  LET gone == [e EXCEPT !.tree = lzh_delete_node(@, e.s), !.s = (@ + 1) % S, !.r = (@ + 1) % S]
  IN IF e.incnt < Len(text)
     THEN Insert([gone EXCEPT !.buf[e.s] = text[e.incnt + 1], !.incnt = @ + 1], gone.r)
     ELSE IF e.len = 1 THEN [gone EXCEPT !.len = 0]
     ELSE Insert([gone EXCEPT !.len = @ - 1], gone.r)

\* One byte leaves the window and, while there are any, one comes in.  The
\* first bytes are kept a second time behind the end.
Slide(e, step) ==
  LET gone == [e EXCEPT !.tree = lzh_delete_node(@, e.s), !.s = (@ + 1) % S, !.r = (@ + 1) % S]
      c == text[e.incnt + 1]
      buf == [i \in DOMAIN e.buf |->
                IF i = e.s \/ (e.s < LZH_LOOKAHD_SZ - 1 /\ i = e.s + S) THEN c ELSE e.buf[i]]
  IN IF e.incnt < Len(text) THEN Insert([gone EXCEPT !.buf = buf, !.incnt = @ + 1], gone.r)
     ELSE IF e.len = 1 THEN [gone EXCEPT !.len = 0]
     ELSE Insert([gone EXCEPT !.len = @ - 1], gone.r)

Refers(length) == length > LZH_THRESHOLD
SymbolFor(e, length) ==
  IF Refers(length) THEN Bytes - 1 - LZH_THRESHOLD + length ELSE e.buf[e.r]

Coded(e, length) ==
  LET char == lzh_encode_char(e.out, e.huff, SymbolFor(e, length))
  IN [e EXCEPT !.out = IF Refers(length) THEN lzh_encode_position(char, e.match.position) ELSE char,
               !.huff = lzh_update(@, SymbolFor(e, length))]

\* One turn of the loop: a literal or a reference.
EncodeNext ==
  LET length == Min2(enc.match.length, enc.len)
      coded == Coded(enc, length)
      slid == FoldLeft(Slide, coded, [i \in 1 .. (IF Refers(length) THEN length ELSE 1) |-> i])
  IN /\ pc = "encode" /\ enc.len > 0
     /\ IF Len(coded.out.bytes) > outsz THEN pc' = "failed" /\ UNCHANGED enc
        ELSE enc' = slid /\ UNCHANGED pc
     /\ UNCHANGED <<text, outsz, dec, packed>>

DecodeStart ==
  [buf |-> [i \in 0 .. S - 1 |-> IF i < S - LZH_LOOKAHD_SZ THEN Space ELSE 0],
   huff |-> lzh_start_huff, in |-> [getbuf |-> 0, getlen |-> 0, incnt |-> 0],
   r |-> S - LZH_LOOKAHD_SZ, out |-> <<>>]

EncodeEnd ==
  LET out == lzh_encode_end(enc.out)
  IN /\ pc = "encode" /\ enc.len = 0
     /\ IF Len(out.bytes) > outsz THEN pc' = "failed" /\ UNCHANGED packed
        ELSE pc' = "decode" /\ packed' = out.bytes
     /\ UNCHANGED <<text, outsz, enc, dec>>

-----------------------------------------------------------------------------
(* Decoding *)

Emit(d, c) == [d EXCEPT !.out = Append(@, c), !.buf[d.r] = c, !.r = (@ + 1) % S]

Copy(d, i, k) == IF Len(d.out) = Len(text) THEN d ELSE Emit(d, d.buf[(i + k) % S])

DecodeNext ==
  LET char == lzh_decode_char(dec.in, dec.huff)
      d == [dec EXCEPT !.in = char.in, !.huff = lzh_update(@, char.c)]
      pos == lzh_decode_position(d.in)
      from == (d.r + S - pos.c - 1) % S
      copied == FoldLeft(LAMBDA e, k : Copy(e, from, k), [d EXCEPT !.in = pos.in],
                         [k \in 1 .. char.c - (Bytes - 1) + LZH_THRESHOLD |-> k - 1])
  IN /\ pc = "decode" /\ Len(dec.out) < Len(text)
     /\ dec' = IF char.c < Bytes THEN Emit(d, char.c) ELSE copied
     /\ UNCHANGED <<text, outsz, pc, enc, packed>>

DecodeEnd ==
  /\ pc = "decode" /\ Len(dec.out) = Len(text)
  /\ pc' = "done"
  /\ UNCHANGED <<text, outsz, enc, dec, packed>>

Init ==
  /\ text \in Texts /\ outsz \in OutSizes
  /\ pc = "encode"
  /\ enc = Begun
  /\ dec = DecodeStart
  /\ packed = <<>>

Next == EncodeNext \/ EncodeEnd \/ DecodeNext \/ DecodeEnd

Spec == Init /\ [][Next]_vars

-----------------------------------------------------------------------------
(* Properties *)

\* Both trees stay Huffman trees, when they are halved too: the order by
\* frequency is what lzh_update's search for the node to swap relies on.
TreesWellFormed == WellFormed(enc.huff) /\ WellFormed(dec.huff)

\* What is decoded is the text, from its first byte on; the end is reached in
\* step with the encoder's tree.
DecodesText ==
  /\ dec.out = SubSeq(text, 1, Len(dec.out))
  /\ pc = "done" => dec.out = text /\ dec.huff = enc.huff

\* The search trees find the longest string of the window that begins as the
\* text ahead does, and the match that is found is one.
Registered == {p \in 0 .. S - 1 : enc.tree.eparent[p] # LZH_NIL}

Common(r, p) == IF enc.buf[r] = enc.buf[p] THEN Differ(enc.buf, r, p) ELSE 0

MatchIsLongest ==
  pc = "encode" /\ enc.len > 0 =>
    /\ \A p \in Registered \ {enc.r} :
         Common(enc.r, p) > LZH_THRESHOLD => Common(enc.r, p) <= enc.match.length
    /\ Refers(enc.match.length) =>
         Common(enc.r, (enc.r + S - enc.match.position - 1) % S) >= enc.match.length
=============================================================================
