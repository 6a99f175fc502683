----------------------------- MODULE Sequential -----------------------------
(***************************************************************************)
(* Components that one thread uses at a time and that own what they hold:  *)
(* sockets (MultiSock), strings (StrList), sections (IniFast) and bytes    *)
(* (Stbuf).  They share nothing; each is a specification by itself.        *)
(***************************************************************************)
EXTENDS Stbuf

CONSTANTS Sockets, Ports, IPPORT_RESERVED, Invalid, MaxAddresses, MaxInterfaces, MaxEntries,
          Lists, Blocks, Phrases, Blank, MaxTokens, KnownCells, InitRecovers,
          Chars, Rank, Names, Queries, MaxSections, MaxSame

VARIABLES socks, open, clients, privileged, pc, sock, ifaces, addresses, added, one_good, before,
          vec, told, held, retired,
          headers, sections, cut, firstUncut, lastUncut, result

Sock == INSTANCE MultiSock

Str == INSTANCE StrList WITH Texts <- Phrases, text <- told, Null <- NULL

Ini == INSTANCE IniFast WITH text <- headers, Null <- NULL
-----------------------------------------------------------------------------
\* Each open socket is one entry, the caller's or being set up, whatever fails
\* (the property of MultiSock, of xpms_add_list, xpms_accept and xpms_destroy).
SocketsAccounted == Sock!SocketsAccounted

\* No string is lost, freed twice or kept in a list after it has been freed:
\* the property of StrList, of every list that goes through str_list.c.
StringsAccounted == Str!StringsAccounted

\* A section is found by its name exactly until it is cut (the property of
\* IniFast, of the lookups of ini_file.c over the sorted array).
LookupsExact == headers # NULL => Ini!LookupsExact
=============================================================================
