------------------------------ MODULE IniStore ------------------------------
(***************************************************************************)
(* What INI data promise to those who edit them: a value for some keys of  *)
(* some sections.  How the lines of the text are arranged does not show.   *)
(* A section has one or more names, no two sections the same.              *)
(***************************************************************************)
EXTENDS Functions, FiniteSets

CONSTANTS Names,      \* whatever their case
          Keys, Values, Empty

VARIABLES store,      \* store[s][k], for the sections and keys that exist
          call,       \* the last call
          ok          \* what it returned, as a truth value

storeVars == <<store, call, ok>>

Root == {}            \* the keys ahead of the first section
Sections == (SUBSET Names) \ {Root}
Entries == UNION {[K -> Values] : K \in SUBSET Keys}

Calls ==
  [op : {"set"}, section : SUBSET Names, key : Keys, value : Values]
  \cup [op : {"remove", "blank", "pop"}, section : SUBSET Names, key : Keys]
  \cup [op : {"append"}, section : Sections, entries : Entries]
  \cup [op : {"add", "removeSection"}, section : SUBSET Names]
  \cup [op : {"rename"}, section : Sections, name : Sections]
  \cup [op : {"removeSections", "sort"}, section : {Root}, selected : SUBSET Sections]

\* The section that a caller names, which may not be there.
Named(map, s) == IF \E t \in DOMAIN map : t \cap s # {}
                 THEN CHOOSE t \in DOMAIN map : t \cap s # {} ELSE s

Of(map, s) == IF s \in DOMAIN map THEN map[s] ELSE <<>>
With(map, s, entries) == [t \in DOMAIN map \cup {s} |-> IF t = s THEN entries ELSE map[t]]
Without(f, K) == Restrict(f, DOMAIN f \ K)
SetKey(e, k, v) == [j \in DOMAIN e \cup {k} |-> IF j = k THEN v ELSE e[j]]

\* The key of the call is there: next has the section with it changed to e.
Changed(map, next, s, k, e, result) ==
  /\ result = (k \in DOMAIN Of(map, s))
  /\ next = IF result THEN With(map, s, e) ELSE map

Step(map, next, c, result) ==
  LET s == Named(map, c.section)
      e == Of(map, s)
  IN \/ c.op = "set" /\ result /\ next = With(map, s, SetKey(e, c.key, c.value))
     \/ c.op = "remove" /\ Changed(map, next, s, c.key, Without(e, {c.key}), result)
     \/ c.op = "blank" /\ Changed(map, next, s, c.key, SetKey(e, c.key, Empty), result)
     \* One line of the key is taken; a second one that it hid shows.
     \/ /\ c.op = "pop" /\ result
        /\ \/ Changed(map, next, s, c.key, Without(e, {c.key}), result)
           \/ \E v \in Values : Changed(map, next, s, c.key, SetKey(e, c.key, v), result)
     \/ c.op = "add" /\ result /\ next = With(map, s, e)
     \/ c.op = "append" /\ result /\ s \notin DOMAIN map /\ next = With(map, s, c.entries)
     \/ /\ c.op = "removeSection" /\ s # Root
        /\ result = (s \in DOMAIN map) /\ next = Without(map, {s})
     \* The root stays, empty; whether it had lines is not told.
     \/ c.op = "removeSection" /\ s = Root /\ next = With(map, Root, <<>>)
     \/ c.op = "removeSections" /\ result /\ next = Without(map, c.selected)
     \/ c.op = "sort" /\ result /\ next = map
     \* A name of another section is refused, and so is a second one of its own.
     \/ /\ c.op = "rename"
        /\ result = (s \in DOMAIN map /\ (c.section = c.name \/ \A t \in DOMAIN map : t \cap c.name = {}))
        /\ next = IF result THEN With(Without(map, {s}), c.name, e) ELSE map

Init ==
  /\ Root \in DOMAIN store /\ DOMAIN store \subseteq SUBSET Names
  /\ \A s \in DOMAIN store : store[s] \in Entries
  /\ call \in Calls
  /\ ok = TRUE

Next == call' \in Calls /\ Step(store, store', call', ok')

Spec == Init /\ [][Next]_storeVars
=============================================================================
