------------------------- MODULE ServerSocketProofs -------------------------
(***************************************************************************)
(* Proofs about ServerSocket, for every descriptor limit and every length  *)
(* of the address list.  The invariant says, place by place, what the      *)
(* local fd stands for and which of the table's descriptors are sockets.   *)
(***************************************************************************)
EXTENDS ServerSocket, Integers, TLAPS

SocketStates == {"open", "bound", "listening"}

\* The table holds no socket but f.
OnlySocket(f) == \A g \in Fd : table[g] \in SocketStates => g = f

Trying == {"socket", "setsockopt", "bind"}

\* The addresses before the one in hand could not be used.
Walking ==
  pc \in Trying => addr \in 1..n /\ used_addr = 0 /\ refused = 1..(addr - 1)

\* The socket in hand is open; no other is.
InHand ==
  /\ pc \in {"resolve", "socket"} => OnlySocket(NoFd)
  /\ pc \in {"setsockopt", "bind"} =>
       fd \in Fd /\ table[fd] = "open" /\ OnlySocket(fd)

\* At listen(), fd is the socket that was bound, or, after the last setsockopt
\* failed, a number nothing is open at.
AtListen ==
  pc = "listen" =>
    /\ fd \in Fd /\ OnlySocket(fd)
    /\ \/ /\ table[fd] = "bound" /\ used_addr \in 1..n
          /\ refused = 1..(used_addr - 1)
       \/ table[fd] = "free" /\ used_addr = 0 /\ refused = 1..n

\* The descriptor that is reported, if there is one.
Reported ==
  /\ pc \notin {"done"} => m_fd_result = NoFd
  /\ pc \in {"done", "destroyed"} => OnlySocket(m_fd_result)
  /\ m_fd_result # NoFd => /\ addrs = "freed" /\ table[m_fd_result] = "listening"
                           /\ used_addr \in 1..n /\ refused = 1..(used_addr - 1)

\* Who has the list, and what an error that kept it means.
ListKept ==
  /\ pc = "resolve" => addrs = "none" /\ used_addr = 0 /\ refused = {}
  /\ pc \in Trying \cup {"listen"} => addrs = "held"
  /\ pc = "done" /\ addrs = "held" => used_addr # 0 \/ refused = 1..n

SocketInv ==
  SocketTypeOK /\ Walking /\ InHand /\ AtListen /\ Reported /\ ListKept

\* The initial state.
LEMMA InitSocketInv == SocketInit => SocketInv
<1> SUFFICES ASSUME SocketInit PROVE SocketInv
  OBVIOUS
<1> USE LimitsAssumption DEF SocketInit
<1>1. SocketTypeOK
  BY DEF SocketTypeOK, NoFd
<1>2. Walking /\ InHand /\ AtListen /\ Reported /\ ListKept
  BY DEF Walking, InHand, AtListen, Reported, ListKept, Trying, OnlySocket, SocketStates,
         NoFd
<1> QED  BY <1>1, <1>2 DEF SocketInv

\* The address in hand could not be used, its socket is closed, and fd is f.
LEMMA ContinueKeepsInv ==
  ASSUME SocketInv, NEW f, Continue(f), pc \in Trying,
         f = NoFd \/ (f \in Fd /\ f = fd),
         table' \in [Fd -> {"free", "other", "open", "bound", "listening"}],
         \A g \in Fd : table'[g] \notin SocketStates,
         f \in Fd => table'[f] = "free"
  PROVE  SocketInv'
<1> USE LimitsAssumption
<1>1. /\ addr \in 1..n /\ used_addr = 0 /\ refused = 1..(addr - 1)
      /\ n \in 0..MaxAddrs /\ addrs = "held" /\ m_fd_result = NoFd
  BY DEF SocketInv, SocketTypeOK, Walking, Reported, ListKept, Trying
<1>2. refused' = 1..addr
  BY <1>1 DEF Continue
<1>3. \/ addr < n /\ addr' = addr + 1 /\ pc' = "socket"
      \/ /\ addr = n /\ addr' = addr
         /\ f = NoFd => pc' = "done"
         /\ f # NoFd => pc' = "listen"
  BY DEF Continue
<1>4. UNCHANGED <<n, addrs, used_addr, m_fd_result, open_count>> /\ fd' = f
  BY DEF Continue
<1>5. SocketTypeOK'
  BY <1>1, <1>2, <1>3, <1>4 DEF SocketInv, SocketTypeOK
<1>6. Walking'
  <2>1. CASE addr < n
    BY <1>1, <1>2, <1>3, <1>4, <2>1 DEF Walking
  <2>2. CASE ~(addr < n)
    BY <1>1, <1>3, <2>2 DEF Walking, Trying
  <2> QED  BY <2>1, <2>2
<1>7. InHand'
  BY <1>3 DEF InHand, OnlySocket
<1>8. AtListen'
  BY <1>1, <1>2, <1>3, <1>4 DEF AtListen, OnlySocket, NoFd, Fd
<1>9. Reported' /\ ListKept'
  BY <1>1, <1>2, <1>3, <1>4 DEF Reported, ListKept, OnlySocket, Trying
<1> QED  BY <1>5, <1>6, <1>7, <1>8, <1>9 DEF SocketInv

\* The steps that leave an address for the next one (server.cpp:37-60).
LEMMA FailuresKeepInv ==
  ASSUME SocketInv, SocketFails \/ OptionFails \/ BindFails
  PROVE  SocketInv'
<1> SocketTypeOK /\ InHand
  BY DEF SocketInv
<1>1. CASE SocketFails
  <2>1. \A g \in Fd : table[g] \notin SocketStates
    BY <1>1 DEF SocketFails, InHand, OnlySocket, Fd, NoFd
  <2>2. Continue(NoFd) /\ pc \in Trying /\ table' = table
    BY <1>1 DEF SocketFails, Trying
  <2> QED  BY <2>1, <2>2, ContinueKeepsInv DEF SocketTypeOK, Fd, NoFd
<1>2. CASE OptionFails \/ BindFails
  <2>1. fd \in Fd /\ OnlySocket(fd) /\ table' = Closed(fd) /\ pc \in Trying
    BY <1>2 DEF OptionFails, BindFails, InHand, Trying
  <2>2. /\ table' \in [Fd -> {"free", "other", "open", "bound", "listening"}]
        /\ \A g \in Fd : table'[g] \notin SocketStates
        /\ table'[fd] = "free"
    BY <2>1 DEF Closed, OnlySocket, SocketStates, SocketTypeOK
  <2>3. Continue(fd) \/ Continue(NoFd)
    BY <1>2 DEF OptionFails, BindFails
  <2> QED  BY <2>1, <2>2, <2>3, ContinueKeepsInv DEF Fd, NoFd
<1> QED  BY <1>1, <1>2

\* Every step preserves the invariant.
LEMMA StepKeepsSocketInv == SocketInv /\ [SocketNext]_socketVars => SocketInv'
<1> SUFFICES ASSUME SocketInv, [SocketNext]_socketVars PROVE SocketInv'
  OBVIOUS
<1> USE LimitsAssumption
<1> DEFINE Table == [Fd -> {"free", "other", "open", "bound", "listening"}]
<1> SocketTypeOK /\ Walking /\ InHand /\ AtListen /\ Reported /\ ListKept
  BY DEF SocketInv
<1>1. CASE ResolveFails
  BY <1>1 DEF ResolveFails, SocketInv, SocketTypeOK, Walking, InHand, AtListen, Reported,
              ListKept, Trying, OnlySocket, SocketStates, NoFd
<1>2. CASE Resolved
  <2>1. n' \in 1..MaxAddrs /\ addr' = 1 /\ pc' = "socket" /\ pc = "resolve"
    BY <1>2 DEF Resolved
  <2>2. used_addr = 0 /\ refused = {}
    BY <2>1 DEF ListKept
  <2> QED  BY <1>2, <2>1, <2>2 DEF Resolved, SocketInv, SocketTypeOK, Walking, InHand,
                AtListen, Reported, ListKept, Trying, OnlySocket, SocketStates, NoFd
<1>3. CASE SocketOpened
  <2>1. fd' \in Fd /\ table[fd'] = "free" /\ table' = [table EXCEPT ![fd'] = "open"]
    BY <1>3 DEF SocketOpened, Lowest, FreeFds
  <2>2. table' \in Table /\ table'[fd'] = "open" /\ OnlySocket(fd)'
    <3>1. OnlySocket(NoFd)
      BY <1>3 DEF SocketOpened, InHand
    <3> QED  BY <2>1, <3>1 DEF SocketTypeOK, OnlySocket, SocketStates, Fd, NoFd
  <2> QED  BY <1>3, <2>1, <2>2 DEF SocketOpened, SocketInv, SocketTypeOK, Walking, InHand,
                AtListen, Reported, ListKept, Trying
<1>4. CASE SocketFails \/ OptionFails \/ BindFails
  BY <1>4, FailuresKeepInv
<1>5. CASE OptionSet
  BY <1>5 DEF OptionSet, SocketInv, SocketTypeOK, Walking, InHand, AtListen, Reported,
              ListKept, Trying, OnlySocket
<1>6. CASE Bound
  <2>1. fd \in Fd /\ table' = [table EXCEPT ![fd] = "bound"] /\ OnlySocket(fd)
    BY <1>6 DEF Bound, InHand
  <2>2. table' \in Table /\ table'[fd] = "bound" /\ OnlySocket(fd)'
    BY <1>6, <2>1 DEF Bound, SocketTypeOK, OnlySocket, SocketStates
  <2>3. addr \in 1..n /\ used_addr' = addr /\ refused' = 1..(addr - 1)
    BY <1>6 DEF Bound, Walking, Trying
  <2> QED  BY <1>6, <2>2, <2>3 DEF Bound, SocketInv, SocketTypeOK, Walking, InHand,
                AtListen, Reported, ListKept, Trying
<1>7. CASE Listening
  <2>1. /\ fd \in Fd /\ OnlySocket(fd) /\ used_addr \in 1..n
        /\ refused = 1..(used_addr - 1)
    BY <1>7 DEF Listening, AtListen
  <2>2. table' \in Table /\ table'[fd] = "listening" /\ OnlySocket(fd)'
    BY <1>7, <2>1 DEF Listening, SocketTypeOK, OnlySocket, SocketStates
  <2> QED  BY <1>7, <2>1, <2>2 DEF Listening, SocketInv, SocketTypeOK, Walking, InHand,
                AtListen, Reported, ListKept, Trying, OnlySocket
<1>8. CASE ListenFails
  <2>1. /\ fd \in Fd /\ OnlySocket(fd) /\ m_fd_result = NoFd
        /\ used_addr # 0 \/ refused = 1..n
    <3>1. pc = "listen"
      BY <1>8 DEF ListenFails
    <3> QED  BY <3>1 DEF AtListen, Reported, SocketTypeOK
  <2>2. table' \in Table /\ OnlySocket(NoFd)'
    BY <1>8, <2>1 DEF ListenFails, Closed, SocketTypeOK, OnlySocket, SocketStates
  <2> QED  BY <1>8, <2>1, <2>2 DEF ListenFails, SocketInv, SocketTypeOK, Walking, InHand,
                AtListen, Reported, ListKept, Trying, OnlySocket
<1>9. CASE Elsewhere
  <2>1. PICK f \in Fd, t \in {"free", "other"} :
          table[f] \in {"free", "other"} /\ table' = [table EXCEPT ![f] = t]
    BY <1>9 DEF Elsewhere
  <2>2. /\ table' \in Table
        /\ \A g \in Fd : table[g] \in SocketStates => table'[g] = table[g]
        /\ \A g \in Fd : table'[g] \in SocketStates => table[g] \in SocketStates
    BY <2>1 DEF SocketTypeOK, SocketStates
  <2>3. m_fd_result # NoFd => table'[m_fd_result] = table[m_fd_result]
    BY <2>2 DEF Reported, SocketTypeOK, SocketStates
  <2> QED  BY <1>9, <2>2, <2>3 DEF Elsewhere, SocketInv, SocketTypeOK, Walking, InHand,
                AtListen, Reported, ListKept, Trying, OnlySocket
<1>10. CASE Destroyed
  <2>1. table' \in Table /\ OnlySocket(NoFd)'
    BY <1>10 DEF Destroyed, Reported, SocketTypeOK, OnlySocket, SocketStates
  <2> QED  BY <1>10, <2>1 DEF Destroyed, SocketInv, SocketTypeOK, Walking, InHand,
                AtListen, Reported, ListKept, Trying, OnlySocket
<1>11. CASE UNCHANGED socketVars
  BY <1>11 DEF socketVars, SocketInv, SocketTypeOK, Walking, InHand, AtListen, Reported,
               ListKept, Trying, OnlySocket
<1> QED  BY <1>1, <1>2, <1>3, <1>4, <1>5, <1>6, <1>7, <1>8, <1>9, <1>10, <1>11
         DEF SocketNext, Constructor

\* The properties at one state.
LEMMA SocketInvImplies ==
  SocketInv => SocketTypeOK /\ ServesTheAddressItBound /\ NothingLeftOpen /\ GivesUpLast
<1> SUFFICES ASSUME SocketInv
             PROVE  SocketTypeOK /\ ServesTheAddressItBound /\ NothingLeftOpen /\ GivesUpLast
  OBVIOUS
<1>1. SocketTypeOK /\ InHand /\ Reported /\ ListKept
  BY DEF SocketInv
<1>2. ServesTheAddressItBound
  BY <1>1 DEF ServesTheAddressItBound, Reported
<1>3. NothingLeftOpen
  BY <1>1 DEF NothingLeftOpen, InHand, Reported, OnlySocket, SocketStates
<1>4. GivesUpLast
  BY <1>1 DEF GivesUpLast, ListKept
<1> QED  BY <1>1, <1>2, <1>3, <1>4

-----------------------------------------------------------------------------
(* How many system calls the constructor has left *)

CallsLeft ==
  CASE pc = "resolve"    -> 4 * MaxAddrs + 2
    [] pc = "socket"     -> 4 * (n - addr) + 5
    [] pc = "setsockopt" -> 4 * (n - addr) + 4
    [] pc = "bind"       -> 4 * (n - addr) + 3
    [] pc = "listen"     -> 1
    [] OTHER             -> 0

LEMMA CallsAreBounded ==
  ASSUME SocketInv PROVE CallsLeft \in 0..(4 * MaxAddrs + 2)
<1>1. n \in 0..MaxAddrs /\ MaxAddrs \in Nat /\ addr \in Nat
  BY LimitsAssumption DEF SocketInv, SocketTypeOK
<1>2. pc \in Trying => addr \in 1..n
  BY DEF SocketInv, Walking
<1> QED  BY <1>1, <1>2 DEF CallsLeft, Trying

LEMMA CallsAreBoundedAfter ==
  ASSUME SocketInv' PROVE CallsLeft' \in Nat
<1>1. n' \in Nat /\ MaxAddrs \in Nat /\ addr' \in Nat
  BY LimitsAssumption DEF SocketInv, SocketTypeOK
<1>2. pc' \in Trying => addr' \in 1..n'
  BY DEF SocketInv, Walking
<1> QED  BY <1>1, <1>2 DEF CallsLeft, Trying

\* The next address costs less than what is left for the one in hand.
LEMMA ContinueShrinks ==
  ASSUME SocketInv, pc \in Trying, NEW f, Continue(f)
  PROVE  CallsLeft' < CallsLeft
<1>1. /\ n \in Nat /\ addr \in 1..n /\ n' = n
      /\ \/ addr < n /\ addr' = addr + 1 /\ pc' = "socket"
         \/ pc' \in {"done", "listen"}
  BY LimitsAssumption DEF SocketInv, SocketTypeOK, Walking, Continue
<1>2. CallsLeft >= 4 * (n - addr) + 3 /\ CallsLeft \in Int
  BY <1>1 DEF CallsLeft, Trying
<1>3. CallsLeft' <= 4 * (n - addr) + 1 /\ CallsLeft' \in Int
  BY <1>1 DEF CallsLeft
<1> QED  BY <1>1, <1>2, <1>3

LEMMA ConstructorShrinks ==
  ASSUME SocketInv, Constructor PROVE CallsLeft' < CallsLeft
<1>1. /\ n \in Nat /\ MaxAddrs \in Nat /\ addr \in Nat
      /\ pc \in Trying => addr \in 1..n
  BY LimitsAssumption DEF SocketInv, SocketTypeOK, Walking
<1>2. CASE ResolveFails \/ Resolved
  BY <1>1, <1>2 DEF ResolveFails, Resolved, CallsLeft
<1>3. CASE SocketFails \/ OptionFails \/ BindFails
  BY <1>3, ContinueShrinks DEF SocketFails, OptionFails, BindFails, Trying
<1>4. CASE SocketOpened \/ OptionSet \/ Bound
  BY <1>1, <1>4 DEF SocketOpened, OptionSet, Bound, CallsLeft, Trying
<1>5. CASE Listening \/ ListenFails
  BY <1>5 DEF Listening, ListenFails, CallsLeft
<1> QED  BY <1>2, <1>3, <1>4, <1>5 DEF Constructor

-----------------------------------------------------------------------------
(* The theorems *)

\* The invariant is inductive.
THEOREM SocketInvariance == SocketSpec => []SocketInv
BY InitSocketInv, StepKeepsSocketInv, PTL DEF SocketSpec

\* A tcp::Server with a descriptor listens on the address bind() took, whatever
\* failed for the addresses before it and however the descriptors fell: listen()
\* never succeeds on the number a failed setsockopt left (server.cpp:34-71).
THEOREM ServesBoundAddress == SocketSpec => []ServesTheAddressItBound
BY SocketInvariance, SocketInvImplies, PTL

\* The constructor leaves no socket open but the one it reports (server.cpp:34-88).
THEOREM NoSocketIsLost == SocketSpec => []NothingLeftOpen
BY SocketInvariance, SocketInvImplies, PTL

\* The constructor only gives up when every address was tried (server.cpp:34-65).
THEOREM EveryAddressIsTried == SocketSpec => []GivesUpLast
BY SocketInvariance, SocketInvImplies, PTL

\* The constructor returns: each system call, whether it succeeds or fails, uses
\* up some of at most four for each address and two more, and what the rest of
\* the program does gives none back (server.cpp:34-71).
THEOREM ConstructorReturns ==
  SocketSpec => /\ [](CallsLeft \in 0..(4 * MaxAddrs + 2))
                /\ [][/\ Constructor => CallsLeft' < CallsLeft
                      /\ CallsLeft' <= CallsLeft]_socketVars
<1>1. SocketInv => CallsLeft \in 0..(4 * MaxAddrs + 2)
  BY CallsAreBounded
<1>2. SocketInv /\ [SocketNext]_socketVars
        => [/\ Constructor => CallsLeft' < CallsLeft
            /\ CallsLeft' <= CallsLeft]_socketVars
  <2> SUFFICES ASSUME SocketInv, SocketNext
               PROVE  /\ Constructor => CallsLeft' < CallsLeft
                      /\ CallsLeft' <= CallsLeft
    OBVIOUS
  <2>1. CallsLeft \in Int
    BY CallsAreBounded, LimitsAssumption
  <2>2. Constructor => CallsLeft' < CallsLeft
    BY ConstructorShrinks
  <2>3. CallsLeft' \in Int
    BY StepKeepsSocketInv, CallsAreBoundedAfter
  <2>4. Elsewhere \/ Destroyed => CallsLeft' = CallsLeft
    BY DEF Elsewhere, Destroyed, CallsLeft
  <2> QED  BY <2>1, <2>2, <2>3, <2>4 DEF SocketNext
<1> QED  BY <1>1, <1>2, SocketInvariance, PTL DEF SocketSpec
=============================================================================
