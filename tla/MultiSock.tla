----------------------------- MODULE MultiSock -----------------------------
(***************************************************************************)
(* multisock.c: a set of listening sockets.  One call adds a socket for    *)
(* each address of each interface of a list; every step of setting one up  *)
(* can fail, and the call goes on with the next.  One thread uses a set.   *)
(***************************************************************************)
EXTENDS Naturals, FiniteSets, Sequences, SequencesExt

CONSTANTS Sockets,        \* descriptors of the process, the lowest of which is used next
          Ports,          \* as lists of interfaces name them
          IPPORT_RESERVED,
          Invalid,        \* INVALID_SOCKET
          MaxAddresses,   \* addresses that an interface has at most
          MaxInterfaces,
          MaxEntries      \* bound on the entries of a set that is added to

SocketAssumption ==
  /\ Sockets \subseteq Nat
  /\ Ports \subseteq Nat /\ IPPORT_RESERVED \in Nat
  /\ Invalid \notin Sockets
  /\ MaxAddresses \in Nat /\ MaxInterfaces \in Nat /\ MaxEntries \in Nat

VARIABLES
  socks,       \* xpms_set.socks[0 .. sock_count - 1].sock
  open,        \* the descriptors that are open
  clients,     \* those of them that xpms_accept has returned
  privileged,  \* what bind_init has last been told is FALSE
  pc,          \* where xpms_add_list is; "idle" outside of it
  sock,        \* the socket that is being set up
  ifaces,      \* the ports of the interfaces that remain
  addresses,   \* of the interface, how many remain
  added, one_good,
  before       \* the length of socks when the call began; no code keeps it

local == <<ifaces, addresses, added, one_good, before>>
vars == <<socks, open, clients, privileged, pc, sock, local>>

Idle == pc = "idle"
port == Head(ifaces)
Entries == {i \in DOMAIN socks : socks[i] # Invalid}
InSet(entries) == {socks[i] : i \in entries}

Init ==
  /\ socks = <<>> /\ open = {} /\ clients = {}
  /\ privileged = FALSE
  /\ pc = "idle" /\ sock = Invalid
  /\ ifaces = <<>> /\ addresses = 0 /\ added = 0 /\ one_good = FALSE
  /\ before = 0

-----------------------------------------------------------------------------
(* Adding *)

xpms_add_list ==
  /\ Idle /\ Len(socks) < MaxEntries
  /\ ifaces' \in SeqOf(Ports, MaxInterfaces)
  /\ one_good' = FALSE
  /\ before' = Len(socks)
  /\ pc' = "resolve"
  /\ UNCHANGED <<socks, open, clients, privileged, sock, addresses, added>>

\* getaddrinfo; a local socket has one address and needs no name.
Resolve ==
  /\ pc = "resolve" /\ ifaces # <<>>
  /\ added' = 0
  /\ \/ addresses' \in 1 .. MaxAddresses /\ pc' = "socket" /\ UNCHANGED ifaces
     \/ ifaces' = Tail(ifaces) /\ UNCHANGED <<addresses, pc>>
  /\ UNCHANGED <<socks, open, clients, privileged, sock, one_good, before>>

\* A port that only the privileged can bind; 0 is for the system to choose.
Raises(p) == p < IPPORT_RESERVED /\ p > 0

NextAddress == addresses' = addresses - 1 /\ pc' = "socket"

\* realloc and socket(); then sock_init and bind_init(false).  Without memory
\* the other addresses are given up.
OpenSocket ==
  /\ pc = "socket" /\ addresses > 0
  /\ \/ /\ \E s \in Sockets \ open :
             /\ \A t \in Sockets \ open : s <= t
             /\ open' = open \cup {s}
             /\ sock' = s
        /\ privileged' = (privileged \/ Raises(port))
        /\ pc' = "bind"
        /\ UNCHANGED addresses
     \/ NextAddress /\ UNCHANGED <<open, sock, privileged>>
     \/ addresses' = 0 /\ UNCHANGED <<open, sock, privileged, pc>>
  /\ UNCHANGED <<socks, clients, ifaces, added, one_good, before>>

CloseSocket == open' = open \ {sock} /\ sock' = Invalid

\* retry_bind, which in the end succeeds, or gives up, or is told to terminate.
Bind ==
  /\ pc = "bind"
  /\ \/ pc' = "listen" /\ privileged' = (privileged /\ ~Raises(port)) /\ UNCHANGED <<open, sock, addresses>>
     \/ CloseSocket /\ privileged' = (privileged /\ port >= IPPORT_RESERVED) /\ NextAddress
  /\ UNCHANGED <<socks, clients, ifaces, added, one_good, before>>

\* A socket for datagrams does not listen, and cannot fail to.
Listen ==
  /\ pc = "listen"
  /\ NextAddress
  /\ \/ /\ socks' = Append(socks, sock) /\ sock' = Invalid /\ added' = added + 1
        /\ UNCHANGED open
     \/ CloseSocket /\ UNCHANGED <<socks, added>>
  /\ UNCHANGED <<clients, privileged, ifaces, one_good, before>>

\* xpms_add returns, for the next interface.
EndAdd ==
  /\ pc = "socket" /\ addresses = 0
  /\ one_good' = (one_good \/ added > 0)
  /\ ifaces' = Tail(ifaces)
  /\ pc' = "resolve"
  /\ UNCHANGED <<socks, open, clients, privileged, sock, addresses, added, before>>

EndAddList ==
  /\ pc = "resolve" /\ ifaces = <<>>
  /\ pc' = "idle"
  /\ UNCHANGED <<socks, open, clients, privileged, sock, local>>

-----------------------------------------------------------------------------
(* Accepting *)

\* Mistake: a socket that went bad is closed, and stays in the set.
MarkNone(bad) == socks

\* The bad sockets ahead of the one that is taken.
Mark(bad) == [i \in DOMAIN socks |-> IF i \in bad THEN Invalid ELSE socks[i]]

\* poll tells of each socket that it is bad, that it is readable or neither.
\* The first that is readable is taken; bad sockets behind it are left for the
\* next call.  accept may fail, or what a proxy must tell first be wrong: the
\* client is closed and none returned.
xpms_accept ==
  /\ Idle
  /\ \E bad, readable \in SUBSET Entries :
       /\ bad \cap readable = {}
       /\ bad \cup readable # {}
       /\ LET taken == {i \in readable : \A j \in readable : i <= j}
              gone == {i \in bad : \A j \in taken : i < j}
              left == open \ InSet(gone)
          IN /\ socks' = Mark(gone)
             /\ \/ open' = left /\ UNCHANGED clients
                \/ \E c \in Sockets \ left :
                     /\ taken # {}
                     /\ \A t \in Sockets \ left : c <= t
                     /\ open' = left \cup {c}
                     /\ clients' = clients \cup {c}
  /\ UNCHANGED <<privileged, pc, sock, local>>

CloseClient(c) ==
  /\ Idle /\ c \in clients
  /\ open' = open \ {c} /\ clients' = clients \ {c}
  /\ UNCHANGED <<socks, privileged, pc, sock, local>>

\* The program may begin with another set.
xpms_destroy ==
  /\ Idle /\ socks # <<>>
  /\ open' = open \ InSet(Entries)
  /\ socks' = <<>>
  /\ before' = 0 /\ one_good' = FALSE
  /\ UNCHANGED <<clients, privileged, pc, sock, ifaces, addresses, added>>

Next ==
  \/ xpms_add_list \/ Resolve \/ OpenSocket \/ Bind \/ Listen \/ EndAdd \/ EndAddList
  \/ xpms_accept \/ xpms_destroy
  \/ \E c \in Sockets : CloseClient(c)

Spec == Init /\ [][Next]_vars

-----------------------------------------------------------------------------
(* Properties *)

\* Whatever fails on the way, of some addresses of some interfaces: each socket
\* that is open is one entry of the set, or the one being set up, or the
\* caller's, and no two of them; the process is privileged only while it binds;
\* and the caller is told of success exactly if the set has got a socket more.
SocketsAccounted ==
  LET setup == IF pc \in {"bind", "listen"} THEN {sock} ELSE {}
  IN /\ open = InSet(Entries) \cup setup \cup clients
     /\ Cardinality(open) = Cardinality(Entries) + Cardinality(setup) + Cardinality(clients)
     /\ privileged => pc = "bind"
     /\ Idle => (one_good <=> Len(socks) > before)
=============================================================================
