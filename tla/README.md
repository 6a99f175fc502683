# xpdev in TLA+

TLA+ models of XPDev, the portability library of Synchronet: its model-checked
properties, and machine-checked proofs of the ones that matter most. The models
are written from the C sources in `src/`; `PROJECT.json` maps every definition
to the lines it stands for.

Run a model with `tlc -workers 2 -config MCXpSem.cfg MCXpSem.tla`, and the
proofs with `tlapm XpSemProofs.tla`.

## 1. The system

XPDev is a collection of C interfaces ("API families", `API-FAMILIES.md`). Most
of it wraps one system call each. The part with logic of its own is small
concurrent objects, containers, text formats, an audio mixer and pure encoders.

| Component | State | Operations | What is hard | What makes it correct |
| --- | --- | --- | --- | --- |
| Semaphores `xpsem.c`, `semwrap.c` | mutex, condition variable, `count`, `nwaiters` | init, post, wait, trywait, timedwait, destroy | wakeups, timeouts that race with posts, destroy while a post is on its way out | an atomic counting semaphore; no waiter beside a token; freed only when unused |
| Events `xpevent.c`, `eventwrap.h` | mutex, condition variable, `value`, `mreset`, `nwaiters` | set, reset, wait, close | two reset modes, timeouts that race with sets, close | one wait per set of an auto-reset event; a set releases everybody of a manual-reset one |
| Reader/writer locks `rwlockwrap.c` | two critical sections, two events, counters, a list of per-thread entries | rdlock, wrlock, the try forms, unlock, destroy | three mechanisms that must agree; recursion | exclusion; writers first; the events tell the counters |
| Linked lists `link_list.c` | nodes with `next`, `prev`, `list`, data, flags, tag; first, last, count; a mutex and a semaphore | add, remove, copy, extract, merge, swap, reverse, lock nodes, free | pointers under long sequences of operations, failing allocations, who frees data | they act as sequences; owned data has one owner |
| Message queues `msg_queue.c` | two lists with semaphores, a reference count, flags | attach, detach, write, wait, read, peek, find | a call is several critical sections; node pointers outside them; who frees | every message is delivered once, in order; freed once and alone |
| Audio mixer `xpbeep.c` | table of streams, each with a list of buffers, loop and fade; mixer and stream locks | open, append, stop, drain, close, pull | pointers that outlive the lock, handle reuse, loops and crossfades | no stream is used after close; what is appended is played once, in order; drain returns |
| Sound device `xpbeep.c` | the back end that is open, references to it, back ends that have failed, a thread that feeds it | open, play, complete, close | references and calls that open for themselves; a thread stopped under a mutex; back ends that fail | the device outlives its thread; what plays has a device; calls return |
| String lists `str_list.c`, `named_str_list.c` | vector of strings ended by NULL | insert, append, annex, remove, replace, delete, swap, sort, split, merge, join, blocks | the terminator, cells left behind it, strings that change hands, failing allocations | each string has one owner and is freed once; the vector is the sequence the calls describe |
| INI data `ini_file.c` | lines of text, of which some are sections and keys; sections parsed and sorted for fast lookup | get, set, add, rename, remove, sort, cut, read, write | empty sections, blank lines, alternative names, the root section, comments, several readers of the same, cuts in a sorted array | what is set is read back, and nothing else changes; all readers agree |
| Delimited data `dat_file.c` | none | parse and create CSV and tabs | quotes, escapes | parsing undoes creating |
| Growable buffers `stbuf.c` | length and size | set, append, trim, resize | sizes at their limit, failing allocations | length within size; content kept |
| Multi-socket listener `multisock.c` | list of sockets | add, add list, accept, destroy | some addresses fail, sockets go bad, privileges | what was added is listened on, nothing else is left open or closed twice |
| File semaphores `semfile.c` | time stamps | check, list check, signal, watch | signals within the resolution of the clock | a signal is seen once |
| Threads `threadwrap.c` | protected integers | adjust, adjust and fetch, once | atomicity | each adjustment counts once |
| Dates and times `xpdatetime.c`, `datewrap.c`, `xptime.c` | none | parse, format, convert | zone offsets, fields left out | parsing undoes formatting |
| Encoders `encode/` | window, search trees and Huffman tree of `lzh.c`; else none | base64, hex, UTF-8, lzh | ends of buffers, a window that wraps, trees that encoder and decoder keep in step | decoding undoes encoding |
| Hashes `hash/` | running state | crc, md5, sha, fnv | block boundaries | test vectors |
| Paths, files, sockets, serial ports, console, OS information, logging, loading | the operating system's | wrappers | errors | those of the operating system |

How they interact. A message queue is two linked lists; a linked list owns a
mutex (`pthreads` or a critical section) and, with `LINK_LIST_SEMAPHORE`, a
semaphore of `semwrap.h`, which is `xpsem.c` on POSIX systems; the reference
count of a queue is a protected integer of `threadwrap.c`. The reader/writer
lock of Windows uses events of the system. INI data are string lists. The
mixer uses mutexes of `threadwrap.c`, events and semaphores. Everything is
called directly: there are no messages between processes, and only the mixer
starts threads of its own. Nothing is persistent, so crashes and restarts play
no part; allocation failures do.

`PROJECT.json` lists the same components with what is modelled of each, and
under `hazards` the places of the code where things can go wrong that a test
would hardly reach, with the properties that cover them.

## 2. Modules

| Module | Models | State and actions |
| --- | --- | --- |
| `Semaphore` | what a semaphore promises | a count, and a pending call per thread that takes effect in one step |
| `XpSem` | `xpsem.c` | the fields of `struct xp_sem`; one step per critical section, per release of the mutex, per wakeup |
| `MCXpSem`, `XpSemProofs` | | instance for TLC; proofs |
| `Event` | what an event promises | set or not, and a pending call per thread |
| `XpEvent` | `xpevent.c` | the fields of `struct xpevent`; steps as in `XpSem` |
| `MCXpEvent`, `XpEventProofs` | | instance for TLC; proofs |
| `RWLock` | `rwlockwrap.c` for Windows | all members of `rwlock_t`, the inside of `wlk`; one step per critical section of `lk`, per entry to and exit from `wlk`, per wait for an event |
| `MCRWLock`, `RWLockProofs` | | instance; proofs |
| `LinkList` | `link_list.c`, one caller at a time | every pointer and flag of lists and nodes; one action per function, one per turn of the loop where a function loops |
| `MCLinkList`, `LinkListProofs` | | instance; proofs |
| `MsgQueue` | `msg_queue.c` over `link_list.c` and its semaphores, callers that interleave | contents of the two lists, tokens, reference count, the place and local variables of each thread |
| `MCMsgQueue`, `MsgQueueProofs` | | instances; proofs |
| `Playback` | `xpbeep.c`: the buffers queued on one stream | operators: what a pull, an append and a finish make of a queue; frames are counted, samples left out |
| `Mixer` | `xpbeep.c`: streams, handles, threads and the device that pulls | the table, the streams, `mixer_lock` with the loop index of its holder, and each thread's place, pointer and remaining calls; one step per section under a stream's mutex |
| `MCMixer`, `MixerProofs` | | instances; proofs |
| `Device` | `xpbeep.c`: the sound device | the back end, references, failed back ends, `handle_mutex`, the device thread with its flags and semaphore, each thread's place; of a stream the pulls it still sounds for |
| `MCDevice`, `DeviceProofs` | | instances; proofs |
| `IniStore` | what INI data promise | a value for some keys of some sections, and the last call with its result |
| `IniText` | `ini_file.c`: reading | operators: a line is a record, and the searches and readers, of lists, of files and of whole texts, are functions of a sequence of lines |
| `IniFile` | `ini_file.c`: editing | the list of lines; one action per function of the interface that changes it |
| `IniFast`, `MCIniFast` | `ini_file.c`: the fast parser | the sorted array of sections with their marks, and the window over it; one action per function; instance |
| `Huffman` | `encode/lzh.c`: the adaptive Huffman tree | operators on `huffman_t` |
| `Lzh` | `encode/lzh.c`: `lzh_encode`, `lzh_decode` | the window, search trees, Huffman tree and bit buffer of each; one step per literal or reference, so that a run walks through a text |
| `MultiSock` | `multisock.c` | the entries of a set, the open descriptors, who has them, the privilege, and where `xpms_add_list` is; one step per call to the system that can fail |
| `StrList` | `str_list.c` | the cells of each vector, what each block of memory says, the strings that are the caller's; one action per function |
| `Stbuf` | `stbuf.c` | the header and every byte of the allocation; one action per function |
| `Sequential` | | `MultiSock`, `StrList` and `IniFast` as instances beside `Stbuf`, and those of their properties that are both checked and proved |
| `MCSequential` | | instance of the six that one thread uses: those of `Sequential`, `IniFile` and `Lzh` |
| `SequentialProofs` | | proofs about what `Sequential` names |

What a step is. In `XpSem` and `XpEvent` a step is a critical section: nobody
else can see what happens while the mutex is held. `pthread_cond_wait` splits
it in two, *asleep* until a broadcast, a timeout or a spurious wakeup, *waking*
until the mutex is free and the condition is tested again. Releasing the
mutex is a step of its own, because a thread that is about to do so still uses
the object, and `destroy` may be the next one in. `RWLock` makes what is done
under `lk` one step (`lk` is never held across anything that blocks) and
everything that may block a separate one. `MsgQueue` takes the critical
sections of a list as atomic and its semaphore at the level of `Semaphore`,
which `XpSem` implements, so every place where `msg_queue.c` releases a list's
mutex is a place where others may come in: between linking a node and posting
its token (`link_list.c:588`), between taking a token and removing a node,
between finding a node and removing it (`msg_queue.c:211`).

`Mixer` has one step for each section under a stream's mutex and one for each
stream that a pull or the reaping in `xp_audio_open` visits, because
`mixer_lock` is held across the whole loop but appends, stops and drains that
already have their pointer go on meanwhile. `xp_audio_play` and
`xp_play_sample16s` are the sequences of calls they make (`Plans`), so other
threads come in between. A wait for the progress event has a time limit, and
whoever waits looks again at any time; so the event itself is left out. In
`Mixer` the sound device is open throughout. `Device` is the other half: what
is mixed is left out, but for how long it lasts, and the device is opened,
fed and closed. A step is a section under `handle_mutex`, or a part of one that
waits with the mutex held, for streams to fall silent or for the device thread
to end. Opening tries the back ends in order: with `OpenMayFail` each may fail and is then
left alone until the next close.

`IniFile` takes a call as a step: a list of lines is one thread's. `IniText`
leaves out how lines are spelled, but keeps what the code tells apart: a header
may be indented (only some functions take it for one then), a value may be
quoted, names have cases and alternatives (`[a|b]`), `!eof` ends a text.
`Lzh` has the arithmetic of the code, the 16 bits of `putbuf` and `getbuf` and
the in-place rebuilding of the tree, with the sizes as constants.

What callers see to. The code leaves some things to its users, and the models
do the same, in guards that are named for it: nobody begins a call on a
semaphore or event once it is being destroyed, and no call is on its way to the
mutex when that begins (`MayBegin`); callers of `rwlock_destroy` have no call on
its way out; a thread that holds a read lock does not ask for the write lock;
a list that has been merged into another is not used again; a list is freed
only when no node of it is locked. `MsgQueue` has the constant `SoleScanner`
for the one that matters most: with `TRUE` nobody removes from a list while
somebody else peeks or searches it. With `FALSE` the code does not keep its
promise (see the findings). `Mixer` has `ClosersWait` in the same way: with
`TRUE` nobody closes a handle while another thread is in a call on it. And
nobody opens or closes a stream while `xptone_complete` goes through them
(`Undisturbed`): it looks up streams it knows nothing of, and another
thread's open may reap one under it. A list that is merged into another has
one node (`MergeLimit`). `strListAppendList`, `strListDup` and `strListDivide`
are called with memory enough (`LossFree`), and an insertion that finds no memory for
the vector of a NULL list finds none a moment later either (`InitRecovers` is false).
With `KnownCells` callers of `strListFastDelete` name strings of the list, as
`ini_file.c:482` does; the code itself tests only that the cells are not NULL. INI data begin without `!eof`,
indented headers and sections that share a name (`Regular`, which no call undoes),
and callers append sections that are not there and pop keys that are. A section
name occurs twice at most in what the fast parser is given (`MaxSame`). With
`CallersHold` nobody plays on a device that another call has opened for itself;
and `MayClose` says that an application keeps its last reference while somebody plays
on it. A buffer is made before `stbuf_atleast` is called on it, and what is put into it is
not its own (`stbuf` is a `restrict` pointer).
Section 3 says what becomes of those that do otherwise.

Not modelled inside these components: errors of the system calls other than the
ones named, private data pointers, the node iterators and counters that change
nothing, splitting of strings into a linked list, and `listAttach`/`listDetach`;
styles, escapes and lengths of lines, conversions of the typed getters (they go
through the string ones), includes and file I/O of INI data; sorting, joining and blocks of string lists;
the parsing of interface names and of the proxy header in `multisock.c`; what
`lzh_decode` makes of input that `lzh_encode` did not write.

## 3. Runs

| Run | Instance | Properties |
| --- | --- | --- |
| `XpSem` | 3 threads, 3 calls each, overflow at 2, one token at first | `NoLostWakeup`, `NoUseAfterFree`, `Implements` |
| `XpEvent` | 3 threads, 4 calls in all, both reset modes, at most 2 waiters | `TypeOK`, `NoneSleepsThroughSet`, `NoUseAfterClose`, `Implements`, `SetReleases` |
| `RWLock` | 3 threads, 3 locking calls each, counters end at 2 | `MutualExclusion`, `EventsTellCounters`, `DestroyedUnused`, `ReadersGiveWay`, `EveryCallReturns` |
| `LinkList` | 2 lists, 4 nodes with borrowed data of 2 kinds, or 3 nodes and 1 block of owned data | `StructureOK`, `ActsOnSequences`, `CopiedInOrder`, `OwnedDataOnce` |
| `MsgQueue` | owner, client and a server that blocks in `msgQueueRead`, 2 messages, one- and two-way | `MessagesHaveTokens`, `OwnedOnce`, `PointersLive`, `FreedAlone`, `DeliveredAcrossInOrder`, `EveryMessageServed` |
| `Mixer` | 2 threads, 3 calls in all, 2 handles, 3 buffers of 3 kinds, pulls of 2 frames | `NoUseAfterFree`, `BufOwnedOnce`, `PlaysInTurn`, `Gapless`, `DrainReturns` |
| `Device` | 3 threads, 5 calls in all, 2 streams of 1 or 2 pulls, 4 back ends of the 4 kinds | `DeviceOutlivesFeeder`, `OpenForLife`, `PlayReturns` |
| `Sequential`: sockets | 4 descriptors, 2 interfaces of 2 addresses, 3 entries | `SocketsAccounted` |
| strings | 2 lists, 3 strings, `KnownCells` | `StringsAccounted` |
| sections | all texts of up to 4 sections, 5 names, each at most twice; 5 names or prefixes asked for | `LookupsExact` |
| lines | up to 4 lines over 2 names in two spellings, 2 keys, 3 values; 4 initial texts | `ReadersAgree`, `ActsOnStore` |
| bytes | 2 literals, a window of 16, references of 3 to 6, halving at 13; all texts up to 10 and some up to 18 | `TreesWellFormed`, `DecodesText`, `MatchIsLongest` |
| buffer | 2 bytes, `SIZE_MAX` of 8, a header of 2, up to 3 bytes inserted at once | `HoldsWhatWasPut` |
| `MixerClose` | `ClosersWait = FALSE` | violates `WaitersLeaveFirst` |
| `DeviceShared` | `CallersHold = FALSE`; back ends open when they are tried (`OpenMayFail = FALSE`) | violates `OpenForLife` |
| `StringsStale` | 1 list, 3 strings, `KnownCells = FALSE` | violates `StringsAccounted` |
| `IniFastPrefix` | as the sections of `Sequential` | violates `PrefixListsAll` |

Why the bounds are enough. A race in these objects is between a thread that
waits, one that wakes or takes, and one that comes between: three. Two tokens
or counters at two let a counter overflow and let two waiters be released by
one call. Two calls after a wait let an object be used again. Two messages
are what order and doubling need; two writers make them cross. Three nodes are
a list with a middle, four let two be copied into a list that has two; the
constraint `MCRoom` keeps to three where data are owned or lost, which multiplies the states. In the
mixer one buffer is shorter than a pull, one loops with a fade that may come too
late, and one crossfades over more than a pull; three are a pair that fades
and one behind it. A call of a thread may be a whole plan (open, append, finish,
drain, close), so three calls are up to a dozen operations; one handle is
reaped or closed and used again while the other plays. Four lines are two
sections with a key each, or one with a key, a blank and a comment. Five sections
with the root are enough for a bisection to turn both ways and for
cuts at both ends and in the middle. A window of 16 is wrapped by a text of 10,
and left behind by one of 18; halving at 13, the least that six symbols allow, comes
every few symbols. Lengths and positions then fit the code's 16 bits with
small tables of codes in the form of `lzh_p_code` and `lzh_d_code`. In
`Sequential` a behaviour moves one of the components and leaves the others
idle, so its states are the sum and not the product of theirs. A buffer of up to five
bytes is full, grows, and has bytes before and behind what is replaced. One back end of each
kind in `Device` (ends the search when it fails, is started apart, calls back, is fed)
leaves out only more of the same kind; two streams are one that plays and one that is
left behind in the background. Three strings are a list with
a middle, or two lists of which one has two. Every
property has a mutant in `PROJECT.json`, a plausible mistake in one mapped
definition, with which TLC finds it violated within the same bounds; the
mutants stand beside the definitions they replace, marked `Mistake:`.

The last call and its result in `IniFile` (`call`, `ok`) are there for the
refinement and hold back nothing, so the view of `Sequential` leaves them out; `view`,
`before` and the like are named as what the program does not keep.

Deadlock is checked in `LinkList`, whose callers never
run out of calls, and in `Mixer`, whose device never stops pulling. `Lzh` ends
with its text, so it is off in
`Sequential`. In the others the bound on calls ends every behaviour, and a wait
nobody answers is legal, so the check is off there and liveness is stated
instead where the code promises it.

### What the properties say

* `NoLostWakeup`, `NoneSleepsThroughSet`: the broadcast that is skipped when
  `nwaiters` is zero never leaves a thread asleep beside a token or a set event.
  The two-step count (`nwaiters++` in one critical section, `nwaiters--` in
  another, on four paths out) is exact: part of `XpEvent`'s `TypeOK`, which is
  checked, and of both proofs.
* `Implements`: `XpSem` refines `Semaphore` and `XpEvent` refines `Event`. A
  call takes effect in the critical section that decides it. So a timeout
  consumes nothing, a poll fails only if there is nothing, one wait passes for
  each set of an auto-reset event, and a refused destroy changes nothing.
* `SetReleases`: a waiter of an event that stays set leaves the wait.
* `MutualExclusion`, `EventsTellCounters`, `ReadersGiveWay`, `EveryCallReturns`,
  `DestroyedUnused`: the reader/writer lock excludes, prefers writers to new
  readers, keeps each event equal to its counter, loses no wakeup between the
  events and `wlk`, and can be destroyed only when unused.
* `StructureOK`: `listVerify` holds after every operation and every turn of every
  loop, and no node is lost. `ActsOnSequences`: as sequences, an addition inserts
  right behind the node that was named, a removal removes the node that was named, and
  everything else stays in order. `CopiedInOrder`: a copy made by `listAddNodeList`,
  which stops when an allocation fails, is a prefix of its source, in one piece; `listExtract`
  ignores what `listAddNode` returns (`link_list.c:735`) and any of its turns may fail, so what it
  makes has the nodes that found memory, each once and in the order of the source. `loop.added`
  tells which these were.
  `OwnedDataOnce`:
  copied data are owned by one node or by the caller they were returned to.
* `MessagesHaveTokens`: in each list there are at most as many messages as
  tokens, counting the tokens on their way. It is what keeps a blocking reader
  from sleeping beside a message, although polls remove messages without taking tokens
  and searches leave tokens behind. `OwnedOnce`, `DeliveredAcrossInOrder`,
  `PointersLive`, `FreedAlone` and `EveryMessageServed` are what users of a
  queue rely on.

* `NoUseAfterFree`: no thread and no pull follows a pointer to a freed stream, and
  a handle keeps its stream until it is closed, although finished background
  samples are reaped and their handles given out again. `BufOwnedOnce`: a buffer
  is freed exactly once on every path, as `HEAP-OWNERSHIP.md` says. `PlaysInTurn`,
  `Gapless`: a buffer begins when its turn comes or under a head that fades, and
  a pull takes as many frames as it has room for, however they are cut into
  buffers. `DrainReturns`: no drain waits for ever.
* `DeviceOutlivesFeeder`: the device thread is there only while a device is open that
  needs one, alone, and feeds that device; and outside of an open or a close there is a device exactly
  while somebody refers to it. `OpenForLife`: who plays has an open device until the end.
  `PlayReturns`: calls that play, complete or close return, although they
  wait for pulls that others make and for each other's mutex.
* `ActsOnStore`: `IniFile` refines `IniStore`. What was set is read back, a removal
  removes what was named, renaming and sorting lose nothing, and no call
  touches a key of another section, wherever blank lines, comments, empty sections
  and a second line of a key are. `ReadersAgree`: the ways to read (values and lists of
  keys from lists and from files, tests for existence, sections, their count,
  the parser of everything) tell the same of every text that the calls can make.
* `LookupsExact`: after cuts in any order a section is found by name exactly if it has
  not been cut, of equal names the first of the text, and no prefix lists a
  section that has not got it or has been cut.
* `TreesWellFormed`, `DecodesText`, `MatchIsLongest`: the Huffman trees stay ordered
  and linked through swaps and halvings, decoding undoes encoding for each text and
  ends with the same tree, and the search trees lose no string of the window.
* `HoldsWhatWasPut`: a buffer is what the calls have made of it, and within its
  allocation, when it is full, has just grown or is as large as can be.
* `SocketsAccounted`: every open descriptor is an entry of the set, the one being set
  up or a client's, whichever step of whichever address fails; privileges are
  raised only to bind; success is told exactly if there is a socket more.
  `StringsAccounted`: every string is in one place, ahead of the NULL of one list
  or in the caller's hands.

### Fairness

`MsgQueue` assumes that a thread that can take its next step inside a call does
(weak fairness), and that a server which may read again and again does (strong,
because other calls may stop it from beginning for a while). `RWLock` assumes
weak fairness of steps inside calls, and of unlocking by those that hold the
lock, without which no lock promises anything. The wait for a mutex inside
`XpEvent` needs strong fairness: the mutex is taken and released by others, and
POSIX promises only that a thread that keeps trying is scheduled. Weak fairness
of the timeout says that time passes. `Mixer` assumes that the device goes on
pulling, which its thread or callback does as long as the device is open, and
that a thread in the middle of a call goes on. `Device` assumes the same of
a device that is open, of its thread and of calls; that the mutex is handed on needs no
more, because only calls that have begun ask for it, and those are bounded. The other runs assume nothing: their code runs in one thread and each call ends.

### Findings

* `MixerClose`: `xp_audio_close` wakes those that wait on the stream and frees it
  at once (`xpbeep.c:2819`), while they still have to lock its mutex.
* `DeviceShared`: `xptone` and `xp_play_sample16s` take a reference only if they
  find the device closed (`xpbeep.c:3400`, `3514`), so one that plays on the device
  another has opened for itself loses it when that one ends. In the run back ends do not
  fail, so the close is that of the call that has opened the device; what becomes
  of the close after an open that failed is told below.
* `StringsStale`: `strListFastDelete` frees the strings of the cells it is asked for before
  `strListFastRemove` finds their index invalid (`str_list.c:210`). Behind the NULL there may be
  the pointers that an earlier `strListFastRemove` has left, of strings that are the caller's or have
  moved up in the list.
* `IniFastPrefix`: the comparison that looks for the first section with a prefix
  (`ini_file.c:3313`) sends the bisection the wrong way, and
  `iniGetFastParsedSectionList` leaves out sections that have the prefix, or all of them.

Other places where the code does not do what is written of it, found while
modelling. The models have the code's behaviour and a named guard that keeps callers
away from it, or the case is outside of them:

* `listMerge` reads `src_node->next` after `list_add_node` has overwritten it
  (`link_list.c:716`); with two nodes in the source it never ends (`MergeLimit`).
* `listRemoveNodes(..., free_data = TRUE)` takes the NULL that stands for freed
  data for a failure (`link_list.c:831`), stops after one node and returns 0.
* `msgQueueFind` searches and removes in two critical sections
  (`msg_queue.c:211`), so two readers may own the same message (`SoleScanner`).
* `xp_audio_append` leaves a tail that loops alone unless the new buffer
  crossfades (`xpbeep.c:2885`), so a plain buffer behind a loop never plays;
  `xpbeep.h:128` says that it ends the loop.
* `ini_set_string` takes a line `!eof`, or an indented header, at which the search stopped for
  the line of the key, and replaces it (`ini_file.c:686`; `Regular`).
* `iniGetNamedStringList` returns NULL for an empty section at the end of a text
  (`ini_file.c:1597`), though the comment below promises an array of one.
* Of three sections with one name the loop that removes duplicates (`ini_file.c:3237`) keeps two, because it
  goes on behind the section that has moved up without comparing it with the one that stayed; a
  lookup then finds either (`MaxSame`, and `FewTwins` in the proof). It does not free
  the list of a duplicate that is last in the array. `adjustUncuts` looks at a section before it tests the bound
  (`ini_file.c:3319`).
* `strListAppendList`, `strListDup` and others go on after a failed allocation and leave strings behind
  the NULL, where nobody frees them (`str_list.c:331`; `LossFree`). `str_list_insert` goes on after a
  failure of `strListInit` (`str_list.c:124`): if there is memory for the `realloc` that follows,
  the cell that should be the NULL is copied from one that was never written (`InitRecovers`). The loops of
  `strListDedupe` and `strListDeleteBlanks` do not end if the vector cannot be made smaller.
* `xptone` closes also when its own open has failed (`xpbeep.c:3518`), which drops a reference that another
  thread has opened meanwhile. If `Pa_StartStream` fails, `xptone_open` returns
  false but keeps its reference (`xpbeep.c:1759`), and the calls that play ignore it and drain for ever
  (`StartMayFail`, false in the runs). WASAPI or waveOut and OSS share one flag for having failed.
* `xpms_accept` polls nothing, for ever if it has no time limit, once all sockets
  of a set have gone bad.
* A code of `lzh_encode_char` is kept in 16 bits (`lzh.c:504`), while a tree whose root counts up to
  32768 can have leaves further down than that.
* `stbuf_realloc` of NULL leaves `len` unset, and `stbuf_malloc` leaves no NUL in
  the buffer, though `stbuf.h` promises one behind the last byte.

## 4. Proofs

All for any sets of threads and any values of the bounds, under the assumptions
named in the modules (`SemConstants`, `EventConstants`, `QueueConstants`, `RWConstants`, `DeviceConstants`, `StbufConstants`, `MixerConstants`,
`ListConstants`, `SocketAssumption`, `StrListAssumption`, `FastAssumption`: the sets are finite, the bounds are natural numbers, and the markers `None` and `NULL` are no members of what they stand beside).

* `XpSemProofs`: `TypeCorrect`, `WakeupsKept`, `FreedUnused` and
  `ImplementsAtomic`. The invariant `IInv` adds to the properties that the mutex is held
  exactly by the thread that is between its critical section and the release
  (`LockInv`), what a thread's place says of its call (`PlaceInv`), that
  `nwaiters` is the number of threads inside the wait (`WaitersCounted`) and who
  can be inside while the owner destroys (`DestroyInv`). `NoLostWakeup` alone is
  not inductive: a post broadcasts only if `nwaiters` is positive, so the count
  must be exact. The refinement has one lemma for each way a step maps: to
  a call, to the step that decides it, to a return, or to nothing.
* `XpEventProofs`: `TypeCorrect` (which says that `nwaiters` is exact),
  `SetWakesAll`, `ClosedUnused` and `ImplementsAtomic`, along the same argument.
  That a wait is refused only when as many as can wait do so needs the count
  in the refinement too.
* `MsgQueueProofs`: `TypeCorrect`, `TokensKept`, `FreeIsAlone` and, assuming
  `SoleScanner`, `NoStalePointer`. `IInv` says that the reference count is the
  number of attached and detaching threads (`RefInv`), that one thread at most
  frees (`FreeInv`), what a thread remembers at each place (`CallInv`) and that
  the callers' discipline, checked where calls begin, holds until they end
  (`ScanInv`). `OrderKept` and, again assuming `SoleScanner`, `MessagesAreOwnedOnce` speak of what
  threads have read, and are inductive only with what the lists still hold: messages are numbered
  as they are written (`NumberInv`), lists and what was read from them rise in these numbers
  (`OrderInv`), each list of a pair holds the messages of one side (`SideInv`), and what is
  linked, read or found are disjoint sets that together are all that was written (`OwnInv`).
* `MixerProofs`, all assuming `ClosersWait`, the callers' discipline without which `MixerClose` fails:
  `MixerTypes`, `StreamsOutliveTheirUsers`, `BuffersAreOwnedOnce`, `BuffersPlayInTurn` and the action
  property `PullsAreGapless`. `IInv` says what a thread's place tells of its pointer and its
  buffer (`PlaceInv`), that the table and every call name streams that live, and that one that is being opened or freed is
  named by nobody else (`TableInv`), that the handle of a plan is private until the plan gives it away (`PlanInv`), that nobody
  opens or frees a stream while all handles are being synced (`WalkInv`), that a stream that closes itself, and is reaped when it has
  played, is in nobody's hands (`AutoInv`), that streams not open are untouched
  (`Unused`), where each buffer is (`BufInv`) and which have begun (`TurnInv`). `Play` and `ToCome` recur along a
  queue; what they make of one of any length is shown from a least
  counterexample, which needs no induction theorem: if the lengths at which the statement fails have a least member,
  one step of the definition leads below it.
* `LinkListProofs`: `ListsStayWhole` (`StructureOK`), `CopiesKeepTheOrder`,
  `DataAreOwnedOnce` and the action property `ListsAreSequences` (`ActsOnSequences`), assuming `MergesEnd`: callers merge lists of one node at most, at the end of
  another, as they do in the run, because `listMerge` does not end otherwise (`link_list.c:716`; section 3). `IInv` says that each
  list in use is a sequence of different nodes that `next` and `prev` follow both ways, between `first`
  and `last`, `count` long (`ShapeInv`); that every allocated node is in one, but for
  the one a merge has in its hands (`HeapInv`); who owns data (`DataInv`); and how far a loop has
  come (`LoopInv`). `StructureOK` alone is not inductive: `listVerify` looks at one list, and the
  next call relies on the nodes of the others, and a turn of a loop on what the turns before it have
  left of the source. The model follows `next` with a function that stops one node past the size
  of the heap, and `ChainIs` shows that for a list this is the list. Then
  the assignments of `list_add_node`, `list_remove_node` and `listReverse` are shown to put a node
  into a sequence, take it out or turn the sequence round (`GoodWith`, `GoodWithout`, `GoodReversed`).
  `ListsAreSequences` needs no more of the invariant, but looks at every step twice: at the list it
  changes, and at the others, whose chains the model reads from the same pointers.
* `DeviceProofs`: `FeederOnOpenDevice` and, assuming `CallersHold`, `HeldForLife`. `IInv`
  ties the thread's flag to where the thread is, at most one of them alive, and to who
  holds `handle_mutex` and how far that one is with closing; the semaphore is posted
  at most once for each thread. `HoldInv` adds that the device is referred to
  by every call that has opened it and by the application, so that no close but the last
  takes it from a call that plays.
* `SequentialProofs`: the components that one thread uses, each by itself.
  `BufferHolds`, for any width of `size_t`, any header and any bytes that
  `StbufConstants` admits, provided `NULL` is not itself a buffer (`NullIsNoBuffer`). Lemmas say what
  splicing makes of a sequence, what a growing allocation keeps, and that moving the bytes behind
  and copying in those that are new is that splice.
  `SocketsHaveOneOwner` (`SocketsAccounted`), for any descriptors and ports: `SockInv` says of each open socket
  which entry, client or place in `xpms_add` has it, that no two entries have the same (`SockOwners`),
  and what the counters say at each place of `xpms_add_list` (`SockCall`); the property,
  which counts owners, follows because the three sets are disjoint.
  `StringsHaveOneOwner` (`StringsAccounted`), for any finite set of blocks and any lists and texts, assuming
  `KnownCells` and not `InitRecovers`, without which it does not hold (run `StringsStale`; section 3):
  `StrInv` says that every vector is ended, that the strings ahead of the NULL of one list are different, are in no
  other list in use and not the caller's (`StrOwners`), and that nothing else is allocated. What
  `strListCount` finds is the first NULL, because a set of numbers has a least member; each
  way to make a vector (append, insert, cut, the moves of `strListFastRemove`, the cells that
  `strListFastDeleteBlanks` leaves behind) is shown to hold a sequence without repetition (`CutOutIs`,
  `InsertIs`, `FastRemoveIs`, `PickedIs`); and one lemma (`ListGets`) says that a list may be given any
  such strings out of its own, the caller's and the free ones.
  `LookupsAreExact` (`LookupsExact`), for any characters and their order, any names, any number of sections and
  cuts in any order, provided that no name occurs three times (`FewTwins`; section 3 says
  why). `IniInv` says that the sections are the first of each name in the order of names (`ByName`),
  and that whatever lies outside of the window has been cut (`Window`); the property alone is not inductive, because
  what a lookup finds depends on what the window has left out. That `strnicmp` and the lengths make an order of names is shown
  from the first position where two names differ; what `qsort` makes of them from the number of those
  that come before each, which differs from one to the next (`RanksInOrder`); the loop over
  duplicates and the bisection, which recur, from least counterexamples (`DedupedIsDefined`, `bsearchIs`).
  `bsearchFinds` says that a bisection whose comparisons change their sign at one place ends there.
* `RWLockProofs`: `TypeCorrect`, `WriterAlone`, `EventsExact`, `DestroySafe` and
  `WritersFirst`. `IInv` ties `readers` to the sum of the entries' counts,
  `writers_waiting` to the threads inside `rwlock_wrlock`, `writers` to the thread
  that writes, and the depth of `wlk` to the places from which it is left; a
  reader is kept out of a writer's way by the counters, so exclusion needs them exact.

Only model-checked: liveness (`EveryCallReturns`, `EveryMessageServed`,
`SetReleases`, `DrainReturns`, `PlayReturns`), which needs fairness and ENABLED; and all of `IniFile`
(`ReadersAgree`, `ActsOnStore`) and `Lzh` (`TreesWellFormed`, `DecodesText`, `MatchIsLongest`). They are built
from folds and `RECURSIVE` operators over lines, bits and trees; what those compute for inputs of every size is
an induction over data, which is out of the provers' reach and stays with TLC.

## 5. Plan

In this order; later modules build on earlier ones only where it is said.

1. A model of two callers for the mutexes of `listSwapNodes`.
2. `Huffman`: that `Count` keeps the order of the frequencies and the links,
   for any alphabet.
3. Operators checked against reference definitions over bounded inputs: CSV fields,
   base64, UTF-8, ISO dates.

Not planned: hashes (bit arithmetic over tables, for which test vectors say
more), wrappers of system calls, device I/O, the sound back ends, and
formatting. They and data are most of the repository: `encode/lzh.c` has about
17600 lines of test data behind its 720 of code, and the Windows, serial and
sound code waits for devices, so the part of the lines that can be modelled
faithfully stays small.
