------------------------------ MODULE IniFast ------------------------------
(***************************************************************************)
(* ini_file.c: the fast parse of INI data.  The sections are sorted by     *)
(* name once and then found by bisection; a section that is cut stays in   *)
(* the array, and a window over the array is drawn in from both ends.      *)
(* Positions are those of the code plus one.                               *)
(***************************************************************************)
EXTENDS Integers, FiniteSets, SequencesExt

CONSTANTS Chars,
          Rank,         \* the order of characters, the same for both cases
          Names,        \* of sections, as sequences of characters
          Queries,      \* names and prefixes that callers ask for
          Null,
          MaxSections,
          MaxSame       \* how often a name occurs

FastAssumption ==
  /\ Rank \in [Chars -> Nat]
  /\ Names \cup Queries \subseteq Seq(Chars)
  /\ Null \notin Seq(Chars)
  /\ MaxSections \in Nat /\ MaxSame \in Nat

VARIABLES text,      \* the names of the headers, in file order
          sections,  \* ini_fp_list_t.sections, by their originalOrder; 0 is the root
          cut,       \* those that have been removed
          firstUncut, lastUncut,
          result     \* of the last call

vars == <<text, sections, cut, firstUncut, lastUncut, result>>

Parsed == sections # <<>>
totalSections == Len(sections)

\* name.str is NULL for the root, and its length 0.
NameOf(o) == IF o = 0 THEN <<>> ELSE text[o]
Shorter(s, t) == IF Len(s) < Len(t) THEN Len(s) ELSE Len(t)

strnicmp(s, t, n) ==
  LET differ == {i \in 1 .. n : Rank[s[i]] # Rank[t[i]]}
      i == CHOOSE k \in differ : \A j \in differ : k <= j
  IN IF differ = {} THEN 0 ELSE Rank[s[i]] - Rank[t[i]]

SameName(s, t) == Len(s) = Len(t) /\ strnicmp(s, t, Len(s)) = 0
HasPrefix(s, p) == Len(s) >= Len(p) /\ strnicmp(s, p, Len(p)) = 0

\* Texts that callers parse.
Texts ==
  {t \in SeqOf(Names, MaxSections) :
     \A i \in DOMAIN t \cup {0} :
       Cardinality({j \in DOMAIN t \cup {0} :
         SameName(IF j = 0 THEN <<>> ELSE t[j], IF i = 0 THEN <<>> ELSE t[i])}) <= MaxSame}

Init ==
  /\ text \in Texts
  /\ sections = <<>> /\ cut = {} /\ firstUncut = 1 /\ lastUncut = 1
  /\ result = Null

-----------------------------------------------------------------------------
(* Parsing *)

iniFastParseCmp(a, b) ==
  LET s == NameOf(a)
      t == NameOf(b)
      c == strnicmp(s, t, Shorter(s, t))
  IN IF c # 0 THEN c ELSE IF Len(s) = Len(t) THEN a - b ELSE Len(s) - Len(t)

\* One turn of the loop that removes duplicates.  It goes on behind the section
\* that has moved up, which it does not compare with the one that stayed.
WithoutDuplicate(list, i) ==
  IF i <= Len(list) /\ SameName(NameOf(list[i - 1]), NameOf(list[i]))
  THEN RemoveAt(list, IF list[i] > list[i - 1] THEN i ELSE i - 1)
  ELSE list

\* What qsort makes of the root and the headers: each is behind as many as come
\* before it.
Sorted ==
  LET before(o) == {p \in 0 .. Len(text) : iniFastParseCmp(p, o) < 0}
  IN [i \in 1 .. Len(text) + 1 |-> CHOOSE o \in 0 .. Len(text) : Cardinality(before(o)) = i - 1]

\* What the loop has left when it has compared entry i.
Deduped[i \in 1 .. Len(text) + 1] ==
  IF i = 1 THEN Sorted ELSE WithoutDuplicate(Deduped[i - 1], i)

iniFastParseSections ==
  LET unique == Deduped[Len(text) + 1]
  IN /\ ~Parsed
     /\ sections' = unique
     /\ cut' = {}
     /\ firstUncut' = 1
     /\ lastUncut' = Len(unique)
     /\ result' = Null
     /\ UNCHANGED text

iniFreeFastParse ==
  /\ Parsed
  /\ sections' = <<>>
  /\ cut' = {} /\ firstUncut' = 1 /\ lastUncut' = 1
  /\ result' = Null
  /\ UNCHANGED text

-----------------------------------------------------------------------------
(* Finding *)

\* The window as it will be used: its ends are not cut, unless all is.
adjustUncuts ==
  LET kept == {i \in firstUncut .. lastUncut : sections[i] \notin cut}
  IN IF firstUncut > lastUncut THEN <<firstUncut, lastUncut>>
     ELSE IF kept = {} THEN <<lastUncut + 1, lastUncut>>
     ELSE <<CHOOSE i \in kept : \A j \in kept : i <= j, CHOOSE i \in kept : \A j \in kept : j <= i>>

\* bsearch of the C library over n sections from base on, of which cmp tells on
\* which side of the key they are; 0 if there is none.
bsearch(cmp, base, n) ==
  LET probe[l \in 0 .. n] ==
        [u \in 0 .. n |->
           LET i == (l + u) \div 2
           IN IF l >= u THEN 0
              ELSE IF cmp[base + i] < 0 THEN probe[l][i]
              ELSE IF cmp[base + i] > 0 THEN probe[i + 1][u] ELSE base + i]
  IN IF n <= 0 THEN 0 ELSE probe[0][n]

iniGetFastParsedSectionCmp(name, o) ==
  LET c == strnicmp(name, NameOf(o), Shorter(name, NameOf(o)))
  IN IF name = Null THEN IF o = 0 THEN 0 ELSE -1
     ELSE IF c = 0 THEN Len(name) - Len(NameOf(o)) ELSE c

\* 0 for a section that has the prefix while the one ahead of it has not.
iniGetFastPrefixStartCmp(prefix, i, base) ==
  LET name == NameOf(sections[i])
      c == strnicmp(prefix, name, Shorter(prefix, name))
  IN IF c # 0 THEN c
     ELSE IF Len(name) < Len(prefix) THEN 1
     ELSE IF i = base \/ ~HasPrefix(NameOf(sections[i - 1]), prefix) THEN 0
     ELSE 1

\* In the window from f to l; the root is asked for by no name, too.
Find(name, f, l) ==
  bsearch([i \in f .. l |-> iniGetFastParsedSectionCmp(name, sections[i])], f, l - f + 1)

FindLV(name, f, l) ==
  IF name = Null THEN IF f <= l /\ sections[f] = 0 THEN f ELSE 0 ELSE Find(name, f, l)

iniGetFastPrefixStart(prefix, f, l) ==
  IF f > totalSections THEN 0
  ELSE IF prefix = <<>> THEN f
  ELSE bsearch([i \in f .. l |-> iniGetFastPrefixStartCmp(prefix, i, f)], f, l - f + 1)

\* The sections at these places of the array, in its order.
Listed(places) ==
  LET nth(k) == CHOOSE i \in places : Cardinality({j \in places : j < i}) = k - 1
  IN [k \in 1 .. Cardinality(places) |-> sections[nth(k)]]

\* The sections from the start on that have the prefix, without those cut and
\* without the root.  The loop is left at the first that has not the prefix.
SectionList(prefix, f, l) ==
  LET start == iniGetFastPrefixStart(prefix, f, l)
      ended == {i \in start .. l : sections[i] # 0 /\ sections[i] \notin cut /\ ~HasPrefix(NameOf(sections[i]), prefix)}
      last == IF ended = {} THEN l ELSE (CHOOSE i \in ended : \A j \in ended : i <= j) - 1
  IN IF start = 0 THEN <<>>
     ELSE Listed({i \in start .. last : sections[i] # 0 /\ sections[i] \notin cut})

-----------------------------------------------------------------------------
(* Calls *)

\* Mistake: the window is drawn in to whatever is cut.
FirstAfterCut(i, f) == i + 1

\* if (found == &fp->sections[fp->firstUncut]) fp->firstUncut++;
FirstAfter(i, f) == IF i = f THEN f + 1 ELSE f

iniHandleFoundSection(i, f, l, remove) ==
  LET found == i # 0 /\ sections[i] \notin cut
  IN /\ result' = IF found THEN sections[i] ELSE Null
     /\ cut' = IF found /\ remove THEN cut \cup {sections[i]} ELSE cut
     /\ firstUncut' = IF found /\ remove THEN FirstAfter(i, f) ELSE f
     /\ lastUncut' = IF found /\ remove /\ i = l /\ l > 1 THEN l - 1 ELSE l
     /\ UNCHANGED <<text, sections>>

iniGetFastParsedSection(name, remove) ==
  LET f == adjustUncuts[1]
      l == adjustUncuts[2]
  IN Parsed /\ iniHandleFoundSection(Find(name, f, l), f, l, remove)

iniGetFastParsedSectionLV(name, remove) ==
  LET f == adjustUncuts[1]
      l == adjustUncuts[2]
  IN Parsed /\ iniHandleFoundSection(FindLV(name, f, l), f, l, remove)

\* Where all is cut the size of the list wraps and malloc fails.
iniGetFastParsedSectionList(prefix) ==
  LET f == adjustUncuts[1]
      l == adjustUncuts[2]
  IN /\ Parsed
     /\ IF lastUncut - firstUncut + 1 < 0
        THEN result' = <<>> /\ UNCHANGED <<firstUncut, lastUncut>>
        ELSE result' = SectionList(prefix, f, l) /\ firstUncut' = f /\ lastUncut' = l
     /\ UNCHANGED <<text, sections, cut>>

Next ==
  \/ iniFastParseSections
  \/ iniFreeFastParse
  \/ \E name \in Queries \cup {Null}, remove \in BOOLEAN :
       iniGetFastParsedSection(name, remove) \/ iniGetFastParsedSectionLV(name, remove)
  \/ \E prefix \in Queries : iniGetFastParsedSectionList(prefix)

Spec == Init /\ [][Next]_vars

-----------------------------------------------------------------------------
(* Properties *)

\* The first section of the text with the name.
FirstNamed(name) ==
  LET named == {o \in DOMAIN text \cup {0} : IF name = Null THEN o = 0 ELSE SameName(NameOf(o), name)}
  IN IF named = {} THEN Null ELSE CHOOSE o \in named : \A p \in named : o <= p

\* What a call about the name must return: its first section, unless it is cut.
Promised(name) == IF FirstNamed(name) \in cut THEN Null ELSE FirstNamed(name)

\* The sections that have the prefix, and have not been cut.
Selected(prefix) ==
  {o \in DOMAIN text \ cut : FirstNamed(text[o]) = o /\ HasPrefix(text[o], prefix)}

\* However many sections have been cut, and from wherever: a section is found
\* by its name exactly if the text has it and it has not been cut, and what a
\* prefix lists are such sections with the prefix, each once and in order.
LookupsExact ==
  Parsed =>
    LET f == adjustUncuts[1]
        l == adjustUncuts[2]
        Got(i) == IF i # 0 /\ sections[i] \notin cut THEN sections[i] ELSE Null
    IN /\ \A name \in Queries \cup {Null} :
            Got(Find(name, f, l)) = Promised(name) /\ Got(FindLV(name, f, l)) = Promised(name)
       /\ \A prefix \in Queries :
            LET list == SectionList(prefix, f, l)
            IN /\ ToSet(list) \subseteq Selected(prefix)
               /\ prefix = <<>> => Selected(prefix) \subseteq ToSet(list)
               /\ \A i \in 2 .. Len(list) : iniFastParseCmp(list[i - 1], list[i]) < 0

\* A section that begins with the prefix, be it the first or not, is listed: of
\* two with the prefix "previous is a better start".
PrefixListsAll ==
  Parsed => \A prefix \in Queries :
              Selected(prefix) \subseteq ToSet(SectionList(prefix, adjustUncuts[1], adjustUncuts[2]))
=============================================================================
