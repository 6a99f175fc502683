------------------------------ MODULE IniText ------------------------------
(***************************************************************************)
(* ini_file.c: reading INI data held as a list of lines.  A line is a      *)
(* record; its spelling is left out.  Positions are those of the code plus *)
(* one: the position behind the last line stands for the terminator.       *)
(***************************************************************************)
EXTENDS Naturals, FiniteSets, Sequences, SequencesExt

CONSTANTS Parts,      \* what section names are made of, between '|'
          Fold,       \* a part in lower case
          Keys,       \* as the code compares them, without case
          Values,     \* none begins with a quote
          Empty,      \* the blank value
          Trim        \* what is left of a value without blanks at its ends

SectionNames == (SUBSET Parts) \ {{}}
Root == {}                      \* ROOT_SECTION

\* A section header may be indented; a literal value is written key:"value".
Lines == [kind : {"section"}, name : SectionNames, indented : BOOLEAN]
    \cup [kind : {"key"}, key : Keys, value : Values, literal : BOOLEAN]
    \cup [kind : {"blank", "comment", "eof"}]

Header(n) == [kind |-> "section", name |-> n, indented |-> FALSE]
KeyLine(k, v, literal) == [kind |-> "key", key |-> k, value |-> v, literal |-> literal]
Bare(kind) == [kind |-> kind]

Is(line, kind) == line.kind = kind

\* *line == '[', which an indented header is not.
AtBracket(line) == Is(line, "section") /\ ~line.indented

End(list) == Len(list) + 1
FirstOf(S, list) == IF S = {} THEN End(list) ELSE CHOOSE i \in S : \A j \in S : i <= j

Lower(n) == {Fold[p] : p \in n}

\* Any alternative of one name is one of the other.
section_match(n, m, case_sensitive) ==
  IF case_sensitive THEN n \cap m # {} ELSE Lower(n) \cap Lower(m) # {}

\* The headers that count: those ahead of "!eof".
Headers(list) ==
  {i \in DOMAIN list : Is(list[i], "section") /\ \A j \in 1 .. i : ~Is(list[j], "eof")}

find_section_index(list, s) ==
  LET matching(cs) == {i \in Headers(list) : section_match(list[i].name, s, cs)}
      exact == matching(TRUE)
  IN FirstOf(IF exact # {} THEN exact ELSE matching(FALSE), list)

find_section(list, s) ==
  IF s = Root THEN 1
  ELSE LET i == find_section_index(list, s) IN IF i = End(list) THEN i ELSE i + 1

\* Where the lines of a section end: at a header, "!eof" or the end.
SectionEnd(list, from) ==
  FirstOf({i \in from .. Len(list) : Is(list[i], "section") \/ Is(list[i], "eof")}, list)

KeyAt(list, i, k) == i # End(list) /\ Is(list[i], "key") /\ list[i].key = k

\* The lines of the key, of which the first counts.
KeyLinesOf(list, s, k) ==
  LET from == find_section(list, s)
  IN {i \in from .. SectionEnd(list, from) - 1 : KeyAt(list, i, k)}

\* The line of the key, or where the search stopped.
get_value(list, s, k) ==
  LET from == find_section(list, s)
      end == SectionEnd(list, from)
  IN FirstOf({i \in from .. end - 1 : KeyAt(list, i, k)} \cup {end}, list)

ValueOf(line) == IF line.literal THEN line.value ELSE Trim[line.value]

iniGetString(list, s, k) ==
  LET i == get_value(list, s, k) IN IF KeyAt(list, i, k) THEN ValueOf(list[i]) ELSE Empty

iniSectionExists(list, s) == s = Root \/ find_section_index(list, s) # End(list)

iniKeyExists(list, s, k) ==
  LET i == get_value(list, s, k) IN i # End(list) /\ ~AtBracket(list[i])

\* The two quotes of a blank literal count as a value.
iniValueExists(list, s, k) ==
  LET i == get_value(list, s, k)
  IN KeyAt(list, i, k) /\ (list[i].literal \/ ValueOf(list[i]) # Empty)

\* Mistake: the first line is taken unseen; it may be the next header.
iniGetSectionUnseen(list, s) ==
  LET from == find_section(list, s)
  IN IF from = End(list) THEN <<>>
     ELSE <<list[from]>> \o SelectSeq(SubSeq(list, from + 1, SectionEnd(list, from + 1) - 1), LAMBDA l : ~Is(l, "blank"))

\* All but the first line of a section are taken only if they are not blank.
iniGetSection(list, s) ==
  LET from == find_section(list, s)
      next == FirstOf({i \in from .. Len(list) : Is(list[i], "section")}, list)
  IN IF next = from THEN <<>>
     ELSE <<list[from]>> \o SelectSeq(SubSeq(list, from + 1, next - 1), LAMBDA l : ~Is(l, "blank"))

\* iniGetKeyList and iniGetNamedStringList, which gives the values too.
iniGetNamedStringList(list, s) ==
  LET from == find_section(list, s)
      lines == SelectSeq(SubSeq(list, from, SectionEnd(list, from) - 1), LAMBDA l : Is(l, "key"))
  IN [i \in DOMAIN lines |-> <<lines[i].key, ValueOf(lines[i])>>]

\* The names that a prefix selects, of equal ones the first only.
iniGetSectionList(list, selected) ==
  LET add(names, i) ==
        IF /\ i \in Headers(list) /\ list[i].name \in selected
           /\ \A j \in DOMAIN names : Lower(names[j]) # Lower(list[i].name)
        THEN Append(names, list[i].name) ELSE names
  IN FoldLeft(add, <<>>, [i \in DOMAIN list |-> i])

\* With all that have a name twice.
iniGetSectionCount(list, selected) ==
  Cardinality({i \in Headers(list) : list[i].name \in selected})

-----------------------------------------------------------------------------
(* The same from a file, which is read from its beginning for each call *)

\* The line that is read next, unless there is no such section.
seek_section(file, s) ==
  LET text == SubSeq(file, 1, FirstOf({i \in DOMAIN file : Is(file[i], "eof")}, file) - 1)
      matching(cs) == {i \in DOMAIN text : Is(text[i], "section") /\ section_match(text[i].name, s, cs)}
      here == IF matching(TRUE) # {} THEN matching(TRUE) ELSE matching(FALSE)
  IN IF s = Root THEN {1} ELSE IF here = {} THEN {} ELSE {FirstOf(here, text) + 1}

\* The keys from there to the next header.
KeysRead(file, s) ==
  LET read(keys, i) ==
        IF keys.over \/ Is(file[i], "section") \/ Is(file[i], "eof") THEN [keys EXCEPT !.over = TRUE]
        ELSE IF Is(file[i], "key") THEN [keys EXCEPT !.lines = Append(@, file[i])] ELSE keys
      from(first) == FoldLeft(read, [over |-> FALSE, lines |-> <<>>],
                              [j \in 1 .. Len(file) + 1 - first |-> first + j - 1])
  IN IF seek_section(file, s) = {} THEN <<>> ELSE from(CHOOSE i \in seek_section(file, s) : TRUE).lines

read_value(file, s, k) ==
  LET lines == SelectSeq(KeysRead(file, s), LAMBDA l : l.key = k)
  IN IF lines = <<>> THEN Empty ELSE ValueOf(Head(lines))

\* And iniReadKeyList.
iniReadNamedStringList(file, s) ==
  LET lines == KeysRead(file, s) IN [i \in DOMAIN lines |-> <<lines[i].key, ValueOf(lines[i])>>]

-----------------------------------------------------------------------------
(* All sections at once *)

\* The sections in one pass, each with its lines but blanks and comments.
\* The root is one of them unless nothing but blanks is ahead of the first.
iniParseSections(list) ==
  LET text == SubSeq(list, 1, FirstOf({i \in DOMAIN list : Is(list[i], "eof")}, list) - 1)
      add(parsed, l) ==
        IF Is(l, "section") THEN Append(parsed, [name |-> l.name, list |-> <<>>])
        ELSE IF Is(l, "blank") THEN parsed
        ELSE LET begun == IF parsed = <<>> THEN <<[name |-> Root, list |-> <<>>]>> ELSE parsed
             IN IF Is(l, "comment") THEN begun
                ELSE [begun EXCEPT ![Len(begun)].list = Append(@, l)]
  IN FoldLeft(add, <<>>, text)

\* By its whole name, whatever the case.
iniGetParsedSection(parsed, n) ==
  LET found == {i \in DOMAIN parsed : Lower(parsed[i].name) = Lower(n)}
  IN IF found = {} THEN <<>> ELSE parsed[FirstOf(found, parsed)].list
=============================================================================
