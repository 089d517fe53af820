---------------------------- MODULE ServerSocket ----------------------------
(***************************************************************************)
(* The constructor of tcp::Server (src/net/tcp/server.cpp:12-88), system   *)
(* call by system call, and the listening socket's life until ~FD.         *)
(*                                                                         *)
(* The constructor walks the list of addresses with one local fd that each *)
(* failure path treats differently: socket() leaves -1 in it, a failed     *)
(* setsockopt() the number it has just closed, a failed bind() resets it.  *)
(* What it may do with that number afterwards depends on the kernel's      *)
(* descriptor table, which is therefore part of the state.  The thread     *)
(* does nothing else meanwhile; the rest of the program opens and closes   *)
(* descriptors before and after.                                           *)
(***************************************************************************)
EXTENDS Naturals

CONSTANTS
  MaxFd,    \* the process's descriptor limit
  MaxAddrs  \* the most addresses getaddrinfo returns

ASSUME LimitsAssumption == MaxFd \in Nat /\ MaxAddrs \in Nat

Fd   == 1..MaxFd
NoFd == 0      \* fd = -1, or an m_fd_result that is an Err

VARIABLES
  pc,           \* the system call that comes next
  n,            \* the length of the list getaddrinfo returned
  addrs,        \* the list: not there, held by the constructor, or freed
  addr,         \* the address in hand
  fd,           \* the local variable
  used_addr,    \* the address bind() accepted, or 0
  m_fd_result,
  open_count,   \* FD::_OPEN_COUNT
  table,        \* kernel: what each descriptor is
  refused       \* history: the addresses a system call failed for

socketVars ==
  <<pc, n, addrs, addr, fd, used_addr, m_fd_result, open_count, table, refused>>

FreeFds == {f \in Fd : table[f] = "free"}

\* POSIX hands out the lowest free descriptor; {} when the table is full.
Lowest(S) == {f \in S : \A g \in S : f <= g}

SocketInit ==
  /\ pc = "resolve" /\ n = 0 /\ addrs = "none" /\ addr = 0
  /\ fd = NoFd /\ used_addr = 0 /\ m_fd_result = NoFd /\ refused = {}
  /\ open_count = 0
  /\ table = [f \in Fd |-> "free"]

-----------------------------------------------------------------------------
ResolveFails ==
  /\ pc = "resolve"
  /\ pc' = "done"
  /\ UNCHANGED <<n, addrs, addr, fd, used_addr, m_fd_result, open_count, table,
                 refused>>

Resolved ==
  /\ pc = "resolve"
  /\ n' \in 1..MaxAddrs
  /\ addrs' = "held" /\ addr' = 1
  /\ pc' = "socket"
  /\ UNCHANGED <<fd, used_addr, m_fd_result, open_count, table, refused>>

\* Mutant: the loop is left when an address cannot be used.
Continue_Stops(f) ==
  /\ refused' = refused \cup {addr}
  /\ fd' = f
  /\ addr' = addr /\ pc' = IF f = NoFd THEN "done" ELSE "listen"
  /\ UNCHANGED <<n, addrs, used_addr, m_fd_result, open_count>>

\* Mutant: the end of the list is missed.
Continue_Beyond(f) ==
  /\ refused' = refused \cup {addr}
  /\ fd' = f
  /\ addr' = addr + 1 /\ pc' = "socket"
  /\ UNCHANGED <<n, addrs, used_addr, m_fd_result, open_count>>

\* Mutant: the address in hand is tried again.
Continue_Again(f) ==
  /\ refused' = refused \cup {addr}
  /\ fd' = f
  /\ addr' = addr /\ pc' = "socket"
  /\ UNCHANGED <<n, addrs, used_addr, m_fd_result, open_count>>

\* The loop over the addresses goes on with f in fd, or is over.
Continue(f) ==
  /\ refused' = refused \cup {addr}
  /\ fd' = f
  /\ \/ addr < n /\ addr' = addr + 1 /\ pc' = "socket"
     \/ addr = n /\ addr' = addr /\ pc' = IF f = NoFd THEN "done" ELSE "listen"
  /\ UNCHANGED <<n, addrs, used_addr, m_fd_result, open_count>>

SocketOpened ==
  /\ pc = "socket"
  /\ fd' \in Lowest(FreeFds)
  /\ table' = [table EXCEPT ![fd'] = "open"]
  /\ pc' = "setsockopt"
  /\ UNCHANGED <<n, addrs, addr, used_addr, m_fd_result, open_count, refused>>

SocketFails ==
  /\ pc = "socket"
  /\ Continue(NoFd)
  /\ UNCHANGED table

OptionSet ==
  /\ pc = "setsockopt"
  /\ pc' = "bind"
  /\ UNCHANGED <<n, addrs, addr, fd, used_addr, m_fd_result, open_count, table,
                 refused>>

Closed(f) == [table EXCEPT ![f] = "free"]

\* Mutant: the socket stays open.
OptionFails_Open ==
  /\ pc = "setsockopt"
  /\ Continue(fd)
  /\ UNCHANGED table

\* The socket is closed, but fd keeps its number.
OptionFails ==
  /\ pc = "setsockopt"
  /\ table' = Closed(fd)
  /\ Continue(fd)

Bound ==
  /\ pc = "bind"
  /\ table' = [table EXCEPT ![fd] = "bound"]
  /\ used_addr' = addr
  /\ pc' = "listen"
  /\ UNCHANGED <<n, addrs, addr, fd, m_fd_result, open_count, refused>>

\* Mutant: the socket that could not be bound stays open.
BindFails_Open ==
  /\ pc = "bind"
  /\ Continue(NoFd)
  /\ UNCHANGED table

BindFails ==
  /\ pc = "bind"
  /\ table' = Closed(fd)
  /\ Continue(NoFd)

\* The kernel takes any open socket, bound or not; it knows no closed number.
Listening ==
  /\ pc = "listen"
  /\ table[fd] # "free"
  /\ table' = [table EXCEPT ![fd] = "listening"]
  /\ addrs' = "freed"
  /\ open_count' = open_count + 1
  /\ m_fd_result' = fd
  /\ pc' = "done"
  /\ UNCHANGED <<n, addr, fd, used_addr, refused>>

\* Whatever fd is, it is closed (a second time, if setsockopt had failed).
ListenFails ==
  /\ pc = "listen"
  /\ table' = Closed(fd)
  /\ pc' = "done"
  /\ UNCHANGED <<n, addrs, addr, fd, used_addr, m_fd_result, open_count, refused>>

Constructor ==
  \/ ResolveFails \/ Resolved
  \/ SocketOpened \/ SocketFails
  \/ OptionSet \/ OptionFails
  \/ Bound \/ BindFails
  \/ Listening \/ ListenFails

\* The rest of the program opens or closes a descriptor of its own.
Elsewhere ==
  /\ pc \in {"resolve", "done", "destroyed"}
  /\ \E f \in Fd, t \in {"free", "other"} :
       /\ table[f] \in {"free", "other"}
       /\ table' = [table EXCEPT ![f] = t]
  /\ open_count' \in {open_count, open_count + 1}
  /\ UNCHANGED <<pc, n, addrs, addr, fd, used_addr, m_fd_result, refused>>

\* ~FD; the object is gone, and its descriptor if it has one.
Destroyed ==
  /\ pc = "done"
  /\ table' = [f \in Fd |-> IF f = m_fd_result THEN "free" ELSE table[f]]
  /\ m_fd_result' = NoFd
  /\ pc' = "destroyed"
  /\ UNCHANGED <<n, addrs, addr, fd, used_addr, open_count, refused>>

SocketNext == Constructor \/ Elsewhere \/ Destroyed

SocketSpec == SocketInit /\ [][SocketNext]_socketVars

-----------------------------------------------------------------------------
(* Properties *)

SocketTypeOK ==
  /\ pc \in {"resolve", "socket", "setsockopt", "bind", "listen", "done",
             "destroyed"}
  /\ n \in 0..MaxAddrs /\ addr \in 0..MaxAddrs /\ used_addr \in 0..MaxAddrs
  /\ addrs \in {"none", "held", "freed"}
  /\ fd \in Fd \cup {NoFd} /\ m_fd_result \in Fd \cup {NoFd}
  /\ open_count \in Nat
  /\ table \in [Fd -> {"free", "other", "open", "bound", "listening"}]
  /\ refused \subseteq 1..MaxAddrs

\* A server that reports a descriptor listens on the address it bound: the
\* number a failed setsockopt leaves in fd (server.cpp:44-49) is a closed one
\* when listen() gets it, so no unbound socket ends up listening on a port
\* nobody asked for.
ServesTheAddressItBound ==
  m_fd_result # NoFd =>
    /\ table[m_fd_result] = "listening"
    /\ used_addr \in 1..n /\ refused = 1..(used_addr - 1)

\* No path through the loop leaves a socket behind: outside the constructor
\* the only socket of this server is the one it reports.
NothingLeftOpen ==
  pc \in {"resolve", "done", "destroyed"} =>
    \A f \in Fd : table[f] \in {"open", "bound", "listening"} => f = m_fd_result

\* An error means that no address was left to try, unless it was listen()
\* that failed: no failure path gives up early (server.cpp:34-65).
GivesUpLast ==
  pc = "done" /\ addrs = "held" => used_addr # 0 \/ refused = 1..n
=============================================================================
