------------------------------ MODULE StrList ------------------------------
(***************************************************************************)
(* str_list.c: vectors of strings on the heap that a NULL ends.  A vector  *)
(* may have cells behind its NULL, where the functions that do not         *)
(* reallocate have left them.  Any allocation may fail, except inside the  *)
(* functions that go on after a failure and lose strings by it (LossFree). *)
(* One thread uses a list.  What callers and memory must do for the        *)
(* strings to be safe, and the code does not see to, is KnownCells and     *)
(* InitRecovers.                                                           *)
(***************************************************************************)
EXTENDS Naturals, FiniteSets, SequencesExt

CONSTANTS Lists,   \* variables of type str_list_t
          Blocks,  \* the blocks that strings are allocated in
          Texts,   \* what strings say ...
          Blank,   \* ... among them nothing
          MaxTokens, \* bound on the tokens of a string that is split
          KnownCells,   \* strListFastDelete is asked for strings of the list only
          InitRecovers, \* memory may be back right after strListInit found none
          Null

StrListAssumption ==
  /\ IsFiniteSet(Blocks)
  /\ Null \notin Blocks \cup Texts
  /\ MaxTokens \in Nat
  /\ KnownCells \in BOOLEAN /\ InitRecovers \in BOOLEAN

VARIABLES
  vec,     \* the cells of each vector; <<>> for a list that is NULL
  text,    \* what each block says, Null for one that is free
  held,    \* strings that are the caller's
  retired  \* lists that were merged into another: their strings are its own

vars == <<vec, text, held, retired>>

None == <<>>

Init ==
  /\ vec = [l \in Lists |-> None]
  /\ text = [b \in Blocks |-> Null]
  /\ held = {} /\ retired = {}

-----------------------------------------------------------------------------
(* Vectors; indices are those of the code, from 0 *)

strListCount(v) ==
  CHOOSE n \in 0 .. Len(v) : (\A i \in 1 .. n : v[i] # Null) /\ (n < Len(v) => v[n + 1] = Null)
Strings(v) == SubSeq(v, 1, strListCount(v))
strListInit == <<Null>>

\* The vector is reallocated to what the result needs.
Terminated(strings) == Append(strings, Null)
str_list_append(v, strings) == Terminated(Strings(v) \o strings)
str_list_insert(v, strings, index) ==
  Terminated(SubSeq(v, 1, index) \o strings \o SubSeq(v, index + 1, strListCount(v)))
Without(v, index) == Terminated(RemoveAt(Strings(v), index + 1))

\* Mistake: the cells move up, and the NULL stays where it was.
FastRemoveButNull(v, index, count) ==
  [j \in DOMAIN v |-> IF index < j /\ j <= strListCount(v) - count THEN v[j + count] ELSE v[j]]

\* Cells move up over those removed, the NULL last; the rest is left, and all of
\* it where the index is not one of a string: there is nothing to move then.
strListFastRemove(v, index, count) ==
  [j \in DOMAIN v |-> IF index < j /\ j <= strListCount(v) - count + 1 THEN v[j + count] ELSE v[j]]

\* Those that are not kept are removed one by one, and each moves the NULL up.
FastKept(v, kept) ==
  [j \in DOMAIN v |-> IF j <= Len(kept) THEN kept[j]
                      ELSE IF j <= strListCount(v) THEN Null ELSE v[j]]

\* The strings at these places, in their order.
Picked(s, places) ==
  LET nth(j) == CHOOSE i \in places : Cardinality({k \in places : k <= i}) = j
  IN  [j \in 1 .. Cardinality(places) |-> s[nth(j)]]

Swapped(v, i, j) == [v EXCEPT ![i + 1] = v[j + 1], ![j + 1] = v[i + 1]]

Of(strings) == [i \in DOMAIN strings |-> text[strings[i]]]
Free == {b \in Blocks : text[b] = Null}

\* Strings are allocated for texts, as many as there is memory for.
Allocations(texts) ==
  UNION {{bs \in [1 .. k -> Free] : IsInjective(bs)} : k \in 0 .. Len(texts)}
Written(texts, bs) ==
  text' = [b \in Blocks |-> IF b \in Range(bs) THEN texts[CHOOSE i \in DOMAIN bs : bs[i] = b] ELSE text[b]]

strListFreeString(blocks) == text' = [b \in Blocks |-> IF b \in blocks THEN Null ELSE text[b]]

Usable(l) == l \notin retired
Is(l, v) == vec' = [vec EXCEPT ![l] = v]

-----------------------------------------------------------------------------
(* One string *)

\* The caller makes a string to annex, or frees one of its own.
AllocString == \E b \in Free, t \in Texts :
  /\ text' = [text EXCEPT ![b] = t]
  /\ held' = held \cup {b}
  /\ UNCHANGED <<vec, retired>>

FreeString(b) ==
  /\ b \in held /\ held' = held \ {b}
  /\ strListFreeString({b})
  /\ UNCHANGED <<vec, retired>>

\* What is inserted or appended is a copy of each text; the first that cannot be
\* allocated ends it.  (strListAppend, strListSplit, strListReadFile)
AppendTexts(l, texts) ==
  /\ Usable(l)
  /\ \E bs \in Allocations(texts) :
       /\ Written(texts, bs)
       /\ Is(l, IF bs = <<>> THEN vec[l] ELSE str_list_append(vec[l], bs))
  /\ UNCHANGED <<held, retired>>

strListAnnex(l, b) ==
  /\ Usable(l) /\ b \in held
  /\ Is(l, str_list_append(vec[l], <<b>>))
  /\ held' = held \ {b}
  /\ UNCHANGED <<text, retired>>

\* A list that is NULL is made an empty one, if there is memory, even when the
\* index is behind the end and nothing is inserted.
MadeList(l) == IF vec[l] = None THEN {strListInit, None} ELSE {vec[l]}

\* realloc gives a list that is still NULL its first cells: the one behind the
\* string is read as it was found, and a second string needs a NULL there.
InsertedUninitialized(l, bs) ==
  /\ InitRecovers
  /\ \E cell \in Blocks \cup {Null} :
       /\ Len(bs) > 1 => cell = Null
       /\ Is(l, Append(bs, cell))

InsertTexts(l, texts, index) ==
  /\ Usable(l) /\ texts # <<>>
  /\ \E v \in MadeList(l) :
       \/ Is(l, v) /\ UNCHANGED text
       \/ /\ index <= strListCount(v)
          /\ \E bs \in Allocations(texts) :
               /\ bs # <<>>
               /\ Written(texts, bs)
               /\ IF v = None THEN InsertedUninitialized(l, bs) ELSE Is(l, str_list_insert(v, bs, index))
  /\ UNCHANGED <<held, retired>>

strListRemove(l, index) ==
  /\ Usable(l) /\ index < strListCount(vec[l])
  /\ Is(l, Without(vec[l], index))
  /\ held' = held \cup {vec[l][index + 1]}
  /\ UNCHANGED <<text, retired>>

\* What a call removes that does not return it must be in the caller's hands.
FastRemove(l, index, count) ==
  /\ Usable(l) /\ index + count <= strListCount(vec[l])
  /\ Is(l, strListFastRemove(vec[l], index, count))
  /\ held' = held \cup Range(SubSeq(vec[l], index + 1, index + count))
  /\ UNCHANGED <<text, retired>>

strListDelete(l, index) ==
  /\ Usable(l) /\ index < strListCount(vec[l])
  /\ Is(l, Without(vec[l], index))
  /\ strListFreeString({vec[l][index + 1]})
  /\ UNCHANGED <<held, retired>>

\* That no cell is NULL is all that is tested: it may be one behind the NULL of
\* the list, and then its string is freed before the index is found invalid.
strListFastDelete(l, index, count) ==
  /\ Usable(l) /\ index + count <= Len(vec[l])
  /\ KnownCells => index + count <= strListCount(vec[l])
  /\ LET cells == Range(SubSeq(vec[l], index + 1, index + count)) IN
     /\ Null \notin cells
     /\ strListFreeString(cells)
  /\ Is(l, strListFastRemove(vec[l], index, count))
  /\ UNCHANGED <<held, retired>>

\* realloc may move the string.
strListReplace(l, index, t) ==
  /\ Usable(l) /\ index < strListCount(vec[l])
  /\ LET old == vec[l][index + 1] IN
     \E b \in Free \cup {old} :
       /\ Is(l, [vec[l] EXCEPT ![index + 1] = b])
       /\ text' = [text EXCEPT ![old] = Null, ![b] = t]
  /\ UNCHANGED <<held, retired>>

strListSwap(l, i, j) ==
  /\ Usable(l) /\ i < strListCount(vec[l]) /\ j < i
  /\ Is(l, Swapped(vec[l], i, j))
  /\ UNCHANGED <<text, held, retired>>

-----------------------------------------------------------------------------
(* Whole lists *)

\* Each string is a text of the callback's or stays; without memory the strings
\* that follow stay.  The copy is made before the old string is freed.
strListModifyEach(l) ==
  /\ Usable(l) /\ vec[l] # None
  /\ \E i \in 1 .. strListCount(vec[l]), b \in Free, t \in Texts :
       /\ text' = [text EXCEPT ![vec[l][i]] = Null, ![b] = t]
       /\ Is(l, [vec[l] EXCEPT ![i] = b])
  /\ UNCHANGED <<held, retired>>

strListFastDeleteAll(l) ==
  /\ Usable(l) /\ vec[l] # None
  /\ strListFreeString(Range(Strings(vec[l])))
  /\ Is(l, [vec[l] EXCEPT ![1] = Null])
  /\ UNCHANGED <<held, retired>>

\* strListFreeStrings and then strListSplit.
strListSplitNew(l, texts) ==
  /\ Usable(l) /\ vec[l] # None
  /\ LET emptied == [j \in DOMAIN vec[l] |-> IF j <= strListCount(vec[l]) THEN Null ELSE vec[l][j]]
         freed == Range(Strings(vec[l]))
     IN \E bs \in UNION {{f \in [1 .. k -> Free \cup freed] : IsInjective(f)} : k \in 0 .. Len(texts)} :
          /\ Is(l, IF bs = <<>> THEN emptied ELSE str_list_append(emptied, bs))
          /\ text' = [b \in Blocks |->
               IF b \in Range(bs) THEN texts[CHOOSE i \in DOMAIN bs : bs[i] = b]
               ELSE IF b \in freed THEN Null ELSE text[b]]
  /\ UNCHANGED <<held, retired>>

\* strListAppendList, strListDup and strListDivide, while memory lasts: these
\* go on with the next string when one cannot be appended.
LossFree(texts, bs) == Len(bs) = Len(texts)

AppendAllTexts(l, texts) ==
  /\ Usable(l)
  /\ \E bs \in Allocations(texts) :
       /\ LossFree(texts, bs)
       /\ Written(texts, bs)
       /\ Is(l, IF bs = <<>> THEN vec[l] ELSE str_list_append(vec[l], bs))
  /\ UNCHANGED <<held, retired>>

strListDup(l, dup) ==
  /\ Usable(l) /\ vec[l] # None /\ vec[dup] = None
  /\ LET texts == Of(Strings(vec[l])) IN
     \E bs \in Allocations(texts) :
       /\ LossFree(texts, bs)
       /\ Written(texts, bs)
       /\ Is(dup, Terminated(bs))
  /\ UNCHANGED <<held, retired>>

\* The strings are the destination's from now on; of the source only the vector
\* may be used, and only to free it.
strListMerge(l, src) ==
  /\ Usable(l) /\ Usable(src) /\ l # src /\ vec[src] # None
  /\ Is(l, IF strListCount(vec[src]) = 0 THEN vec[l] ELSE str_list_append(vec[l], Strings(vec[src])))
  /\ retired' = retired \cup {src}
  /\ UNCHANGED <<text, held>>

strListFreeContainer(l) ==
  /\ ~Usable(l)
  /\ Is(l, None)
  /\ retired' = retired \ {l}
  /\ UNCHANGED <<text, held>>

\* The first of strings that are equal stays.
strListDedupe(l) ==
  /\ Usable(l) /\ vec[l] # None
  /\ LET s == Strings(vec[l])
         again == {i \in DOMAIN s : \E j \in 1 .. i - 1 : text[s[j]] = text[s[i]]}
     IN /\ again # {}
        /\ Is(l, Terminated(Picked(s, DOMAIN s \ again)))
        /\ strListFreeString({s[i] : i \in again})
  /\ UNCHANGED <<held, retired>>

DeleteBlanks(l, fast) ==
  /\ Usable(l) /\ vec[l] # None
  /\ LET s == Strings(vec[l])
         kept == Picked(s, {i \in DOMAIN s : text[s[i]] # Blank})
     IN /\ kept # s
        /\ Is(l, IF fast THEN FastKept(vec[l], kept) ELSE Terminated(kept))
        /\ strListFreeString(Range(s) \ Range(kept))
  /\ UNCHANGED <<held, retired>>

strListFree(l) ==
  /\ Usable(l) /\ vec[l] # None
  /\ strListFreeString(Range(Strings(vec[l])))
  /\ Is(l, None)
  /\ UNCHANGED <<held, retired>>

-----------------------------------------------------------------------------
Indices == 0 .. Cardinality(Blocks)
Several == SeqOf(Texts, MaxTokens)

Next ==
  \/ AllocString \/ \E b \in Blocks : FreeString(b)
  \/ \E l \in Lists :
       \/ \E texts \in Several : AppendTexts(l, texts)
       \/ \E texts \in Several, i \in Indices : InsertTexts(l, texts, i)
       \/ \E b \in Blocks : strListAnnex(l, b)
       \/ \E i \in Indices : strListRemove(l, i) \/ strListDelete(l, i)
       \/ \E i, n \in Indices : FastRemove(l, i, n)
       \/ \E i, n \in Indices : strListFastDelete(l, i, n)
       \/ \E i \in Indices, t \in Texts : strListReplace(l, i, t)
       \/ \E i, j \in Indices : strListSwap(l, i, j)
       \/ strListModifyEach(l) \/ strListFastDeleteAll(l)
       \/ \E texts \in Several : strListSplitNew(l, texts) \/ AppendAllTexts(l, texts)
       \/ \E src \in Lists : strListDup(l, src) \/ strListMerge(l, src)
       \/ \E add \in Lists \ {l} : Usable(add) /\ vec[add] # None /\ AppendAllTexts(l, Of(Strings(vec[add])))
       \/ strListFreeContainer(l) \/ strListDedupe(l)
       \/ \E fast \in BOOLEAN : DeleteBlanks(l, fast)
       \/ strListFree(l)

Spec == Init /\ [][Next]_vars

-----------------------------------------------------------------------------
(* Properties *)

\* Where lists that are in use show a block.
Places(b) ==
  {p \in UNION {{l} \X (1 .. strListCount(vec[l])) : l \in Lists \ retired} : vec[p[1]][p[2]] = b}

\* After any sequence of operations each vector is ended by a NULL of its own
\* and each string that was allocated is in one place: ahead of the NULL of one
\* list, where strListFree finds it, or in the caller's hands.  So none is freed
\* twice, none forgotten, and no list shows a string that is gone.
StringsAccounted ==
  /\ \A l \in Lists : vec[l] # None => Null \in Range(vec[l])
  /\ \A b \in Blocks :
       Cardinality(Places(b)) + (IF b \in held THEN 1 ELSE 0) = IF text[b] # Null THEN 1 ELSE 0
=============================================================================
