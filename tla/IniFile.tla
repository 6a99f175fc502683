------------------------------ MODULE IniFile ------------------------------
(***************************************************************************)
(* ini_file.c: editing INI data held as a list of lines, one call after    *)
(* the other, as programs do between iniReadFile and iniWriteFile.         *)
(***************************************************************************)
EXTENDS IniText

CONSTANTS InitialDocs,   \* what the file held
          Queries,       \* names that callers use
          Selections,    \* what prefixes select, as sets of names
          Separator,     \* the section_separator of the style: a blank line, or none
          NameRank,      \* names and keys in the order of strcmp
          KeyRank,
          MaxLines       \* bound on the length of the list

VARIABLES doc,
          ok,            \* what the last call returned, as a truth value
          call, view     \* the call, and what callers can read: the program keeps
                         \* neither, and nothing depends on them

vars == <<doc, ok, call, view>>

RankAssumption == NameRank \in [SectionNames -> Nat] /\ KeyRank \in [Keys -> Nat]

\* What callers can read, by the names of each section in lower case.
Entries(list, s) ==
  [k \in {j \in Keys : KeyLinesOf(list, s, j) # {}} |-> iniGetString(list, s, k)]

HeaderNames(list) == {list[i].name : i \in Headers(list)}

View(list) ==
  LET names == HeaderNames(list) \cup {Root}
  IN [t \in {Lower(n) : n \in names} |-> Entries(list, CHOOSE n \in names : Lower(n) = t)]

Init ==
  /\ doc \in InitialDocs
  /\ ok = TRUE
  /\ call = [op |-> "add", section |-> Root]
  /\ view = View(doc)

Returns(list, result) ==
  /\ Len(list) <= MaxLines
  /\ doc' = list /\ ok' = result
  /\ view' = IF list = doc THEN view ELSE View(list)

OnSection(op, s) == call' = [op |-> op, section |-> Lower(s)]
OnKey(op, s, k) == call' = [op |-> op, section |-> Lower(s), key |-> k]
OnSelected(op, selected) ==
  call' = [op |-> op, section |-> Root, selected |-> {Lower(n) : n \in selected}]

Dropping(list, gone) ==
  LET kept == SelectSeq([i \in DOMAIN list |-> i], LAMBDA i : i \notin gone)
  IN [i \in DOMAIN kept |-> list[kept[i]]]

\* The first of the blank lines that lead up to i, or i.
BeforeBlanks(list, i) ==
  CHOOSE b \in 1 .. i : /\ \A j \in b .. i - 1 : Is(list[j], "blank")
                        /\ b = 1 \/ ~Is(list[b - 1], "blank")

-----------------------------------------------------------------------------
(* Adding and setting *)

AppendHeader(list, s) == list \o (IF list = <<>> THEN <<>> ELSE Separator) \o <<Header(s)>>

WithSection(list, s) == IF iniSectionExists(list, s) THEN list ELSE AppendHeader(list, s)

\* Mistake: a key of an empty section goes to the end of the list (GitLab #1168).
ini_set_stringMisfiled(list, s, k, v, literal) ==
  LET found == WithSection(list, s)
      i == get_value(found, s, k)
      line == KeyLine(k, v, literal)
  IN IF KeyAt(found, i, k) THEN [found EXCEPT ![i] = line]
     ELSE IF i = find_section(found, s) THEN Append(found, line)
     ELSE InsertAt(found, i, line)

\* Compares with what a reader gets who knows no literals.  Anything but a
\* header or the end is taken for the line of the key.
ini_set_string(list, s, k, v, literal) ==
  LET found == WithSection(list, s)
      i == get_value(found, s, k)
      curval == IF KeyAt(found, i, k) THEN Trim[found[i].value] ELSE Empty
      same == ~literal /\ curval = v /\ ~(KeyAt(found, i, k) /\ found[i].literal)
      line == KeyLine(k, v, literal)
  IN IF i = End(found) \/ AtBracket(found[i])
     THEN InsertAt(found, BeforeBlanks(found, i), line)
     ELSE IF same THEN found ELSE [found EXCEPT ![i] = line]

SetTo(s, k, v, literal) ==
  /\ call' = [op |-> "set", section |-> Lower(s), key |-> k, value |-> ValueOf(KeyLine(k, v, literal))]
  /\ Returns(ini_set_string(doc, s, k, v, literal), TRUE)

\* iniSetString is the first for a value with blanks at its ends, which only a
\* literal keeps, and the second for others.
iniSetStringLiteral(s, k, v) == SetTo(s, k, v, TRUE)
iniSetValue(s, k, v) == SetTo(s, k, v, FALSE)

iniAddSection(s) == OnSection("add", s) /\ Returns(WithSection(doc, s), TRUE)

\* A call that adds so many lines at least stays within the bound.
Room(n) == Len(doc) + n <= MaxLines

\* The caller appends sections that are not there yet.
IsNew(s) == ~iniSectionExists(doc, s)

Appends(s, keys, v) ==
  call' = [op |-> "append", section |-> Lower(s), entries |-> [k \in keys |-> Trim[v]]]

iniAppendSectionWithKeys(s, k, v) ==
  /\ Room(3) /\ IsNew(s)
  /\ Appends(s, {k}, v)
  /\ Returns(AppendHeader(doc, s) \o <<Bare("comment"), KeyLine(k, v, FALSE)>>, TRUE)

iniAppendSectionWithNamedStrings(s, j, k, v) ==
  LET set(list, key) == ini_set_string(list, s, key, v, FALSE)
  IN /\ Room(2) /\ IsNew(s)
     /\ Appends(s, {j, k}, v)
     /\ Returns(FoldLeft(set, AppendHeader(doc, s), <<j, k>>), TRUE)

-----------------------------------------------------------------------------
(* Removing *)

iniRemoveKey(s, k) ==
  LET gone == KeyLinesOf(doc, s, k)
  IN OnKey("remove", s, k) /\ Returns(Dropping(doc, gone), gone # {})

\* What is left is the key and its separator.
iniRemoveValue(s, k) ==
  LET i == get_value(doc, s, k)
  IN /\ OnKey("blank", s, k)
     /\ IF KeyAt(doc, i, k) THEN Returns([doc EXCEPT ![i] = KeyLine(k, Empty, FALSE)], TRUE)
        ELSE Returns(doc, FALSE)

\* The caller pops keys that are there.
iniPopKey(s, k) ==
  LET i == get_value(doc, s, k)
  IN KeyAt(doc, i, k) /\ OnKey("pop", s, k) /\ Returns(RemoveAt(doc, i), TRUE)

Removable(list, s) ==
  IF s = Root THEN list # <<>> /\ ~AtBracket(list[1]) ELSE iniSectionExists(list, s)

\* A section ends at the next '[' that begins a line.
UpToBracket(list, i) == FirstOf({j \in i + 1 .. Len(list) : AtBracket(list[j])}, list) - 1
FirstLine(list, s) == IF s = Root THEN 1 ELSE find_section_index(list, s)

WithoutSection(list, s) ==
  LET i == FirstLine(list, s) IN Dropping(list, BeforeBlanks(list, i) .. UpToBracket(list, i))

RemovesTo(s, list) ==
  /\ OnSection("removeSection", s)
  /\ IF Removable(doc, s) THEN Returns(list, TRUE) ELSE Returns(doc, FALSE)

iniRemoveSection(s) == RemovesTo(s, WithoutSection(doc, s))

\* Leaves the blank lines; iniCutSection too, which returns the section.
iniRemoveSectionFast(s) ==
  LET i == FirstLine(doc, s) IN RemovesTo(s, Dropping(doc, i .. UpToBracket(doc, i)))

WithoutSections(list, selected) ==
  FoldRight(LAMBDA n, rest : WithoutSection(rest, n), iniGetSectionList(list, selected), list)

iniRemoveSections(selected) ==
  OnSelected("removeSections", selected) /\ Returns(WithoutSections(doc, selected), TRUE)

-----------------------------------------------------------------------------
(* Renaming and sorting *)

iniRenameSection(s, n) ==
  LET i == find_section_index(doc, s)
  IN /\ call' = [op |-> "rename", section |-> Lower(s), name |-> Lower(n)]
     /\ IF i = End(doc) \/ (Lower(s) # Lower(n) /\ iniSectionExists(doc, n))
        THEN Returns(doc, FALSE)
        ELSE Returns([doc EXCEPT ![i] = Header(n)], TRUE)

\* Comments and blank lines come ahead of the keys.
LineRank(line) == IF Is(line, "key") THEN 1 + KeyRank[line.key] ELSE 0
Sorted(lines, sort_keys) ==
  IF sort_keys THEN SortSeq(lines, LAMBDA l, m : LineRank(l) < LineRank(m)) ELSE lines

\* With everything selected (no prefix) the root's lines are taken over too.
iniSortSections(selected, sort_keys) ==
  LET all == selected = SectionNames
      names == SortSeq(iniGetSectionList(doc, selected), LAMBDA n, m : NameRank[n] < NameRank[m])
      kept == IF all THEN Sorted(iniGetSection(doc, Root), sort_keys) ELSE WithoutSections(doc, selected)
      append(list, n) == AppendHeader(list, n) \o Sorted(iniGetSection(doc, n), sort_keys)
  IN OnSelected("sort", selected) /\ Returns(FoldLeft(append, kept, names), TRUE)

\* Sorting leaves a key that a section has twice in no order.
KeysOnce(list) ==
  \A s \in {Root} \cup {list[i].name : i \in Headers(list)}, k \in Keys :
    Cardinality(KeyLinesOf(list, s, k)) <= 1

Next ==
  \/ \E s \in Queries \cup {Root}, k \in Keys :
       \/ \E v \in Values : iniSetStringLiteral(s, k, v) \/ iniSetValue(s, k, v)
       \/ iniRemoveKey(s, k)
       \/ iniRemoveValue(s, k)
       \/ iniPopKey(s, k)
  \/ \E s \in Queries \cup {Root} : iniRemoveSection(s) \/ iniRemoveSectionFast(s)
  \/ \E s \in SectionNames :
       \/ iniAddSection(s)
       \/ \E k \in Keys, v \in Values :
            \/ iniAppendSectionWithKeys(s, k, v)
            \/ \E j \in Keys : iniAppendSectionWithNamedStrings(s, j, k, v)
  \/ \E s \in Queries, n \in SectionNames : iniRenameSection(s, n)
  \/ \E selected \in Selections :
       \/ iniRemoveSections(selected)
       \/ \E sort_keys \in BOOLEAN : (sort_keys => KeysOnce(doc)) /\ iniSortSections(selected, sort_keys)

Spec == Init /\ [][Next]_vars

-----------------------------------------------------------------------------
(* Properties *)

(***************************************************************************)
(* Lists of lines that a program can edit without surprises: no "!eof", no *)
(* indented header, and no name that two headers share whatever its case.  *)
(* The calls lead from such lists to such lists only.                      *)
(***************************************************************************)
Regular(list) ==
  /\ \A i \in DOMAIN list : ~Is(list[i], "eof")
  /\ \A i \in DOMAIN list : Is(list[i], "section") => ~list[i].indented
  /\ \A i, j \in Headers(list) : i # j => ~section_match(list[i].name, list[j].name, FALSE)

Store == INSTANCE IniStore WITH
  Names <- {Fold[p] : p \in Parts}, Keys <- Keys, Values <- Values, Empty <- Empty,
  store <- view, call <- call, ok <- ok

\* To set, remove, pop, rename and sort is to edit a map of values by section
\* and key: what was set is read back, and nothing else changes, however the
\* lines, blank lines and comments lie (GitLab #1168 was a key misfiled).
ActsOnStore == Store!Spec

\* The ways to read agree: the tests for existence, the lists of keys, the
\* list of sections, the parser of all sections and the functions that read a
\* file see the same keys.
ReadersAgree ==
  /\ Regular(doc)
  /\ Range(iniGetSectionList(doc, SectionNames)) = HeaderNames(doc)
  /\ iniGetSectionCount(doc, SectionNames) = Len(iniGetSectionList(doc, SectionNames))
  /\ \A s \in Queries, k \in Keys :
       /\ iniKeyExists(doc, s, k) <=> KeyLinesOf(doc, s, k) # {}
       /\ iniValueExists(doc, s, k) => iniKeyExists(doc, s, k)
       /\ iniGetString(doc, s, k) # Empty => iniValueExists(doc, s, k)
       /\ read_value(doc, s, k) = iniGetString(doc, s, k)
  /\ \A n \in HeaderNames(doc) \cup {Root} :
       LET pairs == iniGetNamedStringList(doc, n)
           list == iniGetParsedSection(iniParseSections(doc), n)
       IN /\ DOMAIN Entries(doc, n) = {pairs[i][1] : i \in DOMAIN pairs}
          /\ pairs = iniReadNamedStringList(doc, n)
          /\ pairs = [i \in DOMAIN list |-> <<list[i].key, ValueOf(list[i])>>]
          /\ list = SelectSeq(iniGetSection(doc, n), LAMBDA l : ~Is(l, "blank") /\ ~Is(l, "comment"))
=============================================================================
