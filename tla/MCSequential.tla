---------------------------- MODULE MCSequential ----------------------------
(***************************************************************************)
(* Instances of the components that one thread uses at a time.  They share *)
(* nothing, so a behaviour moves one of them and leaves the others idle:   *)
(* the states are the sum, not the product, of theirs.                     *)
(*   - sockets (MultiSock) and strings (StrList) must have one owner each; *)
(*   - sections (IniFast) have names that are empty, that differ in case   *)
(*     only, and of which one begins another, in every order;              *)
(*   - bytes (Lzh, Huffman) are two literals, with a window of 16 that     *)
(*     every longer text wraps, references of three to six, and            *)
(*     frequencies that are halved after a few symbols;                    *)
(*   - lines (IniFile) are under two names, one of them in two spellings   *)
(*     and as an alternative of the other, with two keys and a value that  *)
(*     must be quoted to keep its blank;                                   *)
(*   - a buffer (Stbuf) is as large as a size_t of 0 to 8 can say.         *)
(***************************************************************************)
EXTENDS Sequential, TLC

CONSTANTS LZH_N_CHAR, MAX_FREQ, Literals, Space, LZH_STRBUF_SZ, LZH_LOOKAHD_SZ, LZH_THRESHOLD,
          LowBits, PeekBits, OutSizes, MaxLen,
          Parts, Keys, Values, Empty, MaxLines

VARIABLES moving,
          original, outsz, stage, enc, dec, packed,
          doc, ok, call, view

sockets == <<socks, open, clients, privileged, pc, sock, ifaces, addresses, added, one_good, before>>
strings == <<vec, told, held, retired>>
ini == <<headers, sections, cut, firstUncut, lastUncut, result>>
bytes == <<original, outsz, stage, enc, dec, packed>>
lines == <<doc, ok, call, view>>
allvars == <<moving, sockets, strings, ini, bytes, lines, vars>>

\* Neither the last call on lines nor its result takes part in what comes next.
MCState == <<moving, sockets, strings, ini, bytes, doc, view, vars>>
-----------------------------------------------------------------------------
MCRank == [c \in Chars |-> IF c \in {"a", "A"} THEN 1 ELSE 2]
MCNames == {<<>>, <<"a">>, <<"A">>, <<"a", "b">>, <<"b">>}
MCQueries == {<<>>, <<"A">>, <<"a", "b">>, <<"b">>, <<"b", "a">>}

MCWords(n) == [1 .. n -> 0 .. Literals - 1]
MCTexts == UNION {MCWords(n) : n \in 1 .. MaxLen}
           \cup {t \o u \o t : t \in MCWords(4), u \in {<<0, 0, 0, 0, 0, 1>>, <<1, 1, 0, 1, 0, 0, 1, 0, 1, 1>>}}

\* Upper bits of positions: the near ones have the short codes.
MCPLen == [i \in 0 .. 3 |-> <<1, 2, 3, 3>>[i + 1]]
MCPCode == [i \in 0 .. 3 |-> <<0, 4, 6, 7>>[i + 1]]
MCDCode == [b \in 0 .. 7 |-> <<0, 0, 0, 0, 1, 1, 2, 3>>[b + 1]]
MCDLen == [b \in 0 .. 7 |-> <<1, 1, 1, 1, 2, 2, 3, 3>>[b + 1]]

Code == INSTANCE Lzh WITH lzh_p_len <- MCPLen, lzh_p_code <- MCPCode, lzh_d_len <- MCDLen,
          lzh_d_code <- MCDCode, Bytes <- Literals, Texts <- MCTexts, text <- original, pc <- stage

\* A key twice, blank lines at odd places, a comment, an empty section.
MCFold == [p \in Parts |-> IF p = "A" THEN "a" ELSE p]
MCTrim == [v \in Values |-> IF v = " x" THEN "x" ELSE v]
Text == INSTANCE IniText WITH Fold <- MCFold, Trim <- MCTrim
MCBlank == <<Text!Bare("blank")>>
MCDocs == {<<>>,
           <<Text!KeyLine("k", "x", FALSE), Text!KeyLine("k", "", FALSE)>>,
           <<Text!Bare("blank"), Text!Bare("comment"), Text!Header({"a", "b"})>>,
           <<Text!Header({"A"}), Text!Bare("blank"), Text!Header({"b"}), Text!KeyLine("m", " x", FALSE)>>}

MCNameRank == [n \in Text!SectionNames |->
  CASE n = {"A"} -> 1 [] n = {"a"} -> 2 [] n = {"a", "b"} -> 3 [] OTHER -> 4]
MCKeyRank == [k \in Keys |-> IF k = "k" THEN 1 ELSE 2]

Edit == INSTANCE IniFile WITH Fold <- MCFold, Trim <- MCTrim, InitialDocs <- MCDocs,
          Queries <- {{"A"}, {"b"}}, Selections <- {Text!SectionNames, {{"b"}}}, Separator <- MCBlank,
          NameRank <- MCNameRank, KeyRank <- MCKeyRank

\* What the others ask of their constants.
ASSUME SequentialAssumption ==
  /\ StbufConstants /\ Sock!SocketAssumption /\ Str!StrListAssumption /\ Ini!FastAssumption
  /\ Code!HuffmanAssumption /\ Code!LzhAssumption /\ Edit!RankAssumption
-----------------------------------------------------------------------------
IdleIni ==
  /\ headers = NULL /\ sections = NULL /\ cut = NULL
  /\ firstUncut = NULL /\ lastUncut = NULL /\ result = NULL
IdleBytes ==
  /\ original = NULL /\ outsz = NULL /\ stage = NULL
  /\ enc = NULL /\ dec = NULL /\ packed = NULL

\* Nothing was read, and no line is there to be read.
IdleLines == doc = <<>> /\ ok = TRUE /\ call = [op |-> "add", section |-> {}] /\ view = [t \in {{}} |-> <<>>]

\* Sockets, strings and the buffer begin with a single state.
MCInit ==
  /\ Init /\ Sock!Init /\ Str!Init
  /\ \/ moving \in {"sockets", "strings", "buffer"} /\ IdleIni /\ IdleBytes /\ IdleLines
     \/ moving = "sections" /\ Ini!Init /\ IdleBytes /\ IdleLines
     \/ moving = "bytes" /\ Code!Init /\ IdleIni /\ IdleLines
     \/ moving = "lines" /\ Edit!Init /\ IdleIni /\ IdleBytes

MCNext ==
  \/ moving = "sockets" /\ Sock!Next /\ UNCHANGED <<moving, strings, ini, bytes, lines, vars>>
  \/ moving = "strings" /\ Str!Next /\ UNCHANGED <<moving, sockets, ini, bytes, lines, vars>>
  \/ moving = "sections" /\ Ini!Next /\ UNCHANGED <<moving, sockets, strings, bytes, lines, vars>>
  \/ moving = "bytes" /\ Code!Next /\ UNCHANGED <<moving, sockets, strings, ini, lines, vars>>
  \/ moving = "lines" /\ Edit!Next /\ UNCHANGED <<moving, sockets, strings, ini, bytes, vars>>
  \/ moving = "buffer" /\ Next /\ UNCHANGED <<moving, sockets, strings, ini, bytes, lines>>

MCSpec == MCInit /\ [][MCNext]_allvars
-----------------------------------------------------------------------------
\* The properties of Lzh, of lzh_update and lzh_reconst, of lzh_encode followed
\* by lzh_decode, and of lzh_insert_node and lzh_delete_node.
TreesWellFormed == moving = "bytes" => Code!TreesWellFormed
DecodesText == moving = "bytes" => Code!DecodesText
MatchIsLongest == moving = "bytes" => Code!MatchIsLongest

\* The ways to read INI lines agree: the property of IniFile, of the lookups, the
\* parsers and the readers of files in ini_file.c.
ReadersAgree == moving = "lines" => Edit!ReadersAgree

\* The calls that edit INI lines edit a map of values by section and key: the
\* property of IniFile, of ini_set_string and the other calls of ini_file.c.
ActsOnStore == Edit!ActsOnStore

\* The lists and the blocks are interchangeable.
MCSymmetry == Permutations(Lists) \cup Permutations(Blocks)
=============================================================================
