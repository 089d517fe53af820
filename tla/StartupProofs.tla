---------------------------- MODULE StartupProofs ----------------------------
(***************************************************************************)
(* Proofs about Startup.  Start-up uses the server's constructor only as   *)
(* ServerSocket allows (every step of the one is a step of the other or    *)
(* does nothing to the sockets), so ServerSocket's invariant comes for     *)
(* free; what is added counts descriptors stage by stage.                  *)
(***************************************************************************)
EXTENDS Startup, ServerSocketProofs, SequenceTheorems

\* Epoll's descriptor is the only one besides the sockets.
EpollsDescriptor ==
  /\ epfd # NoFd => table[epfd] = "other"
  /\ \A f \in Fd : table[f] = "other" => f = epfd

HowMany(f) == IF f = NoFd THEN 0 ELSE 1

\* FD's two counters differ by the descriptors that FD objects own.
Counted == open_count = close_count + HowMany(epfd) + HowMany(m_fd_result)

\* Where main() is, against the constructor, the map and the status.
Stage ==
  /\ stage \in {"args", "config", "loop"} => pc = "resolve" /\ epfd = NoFd
  /\ stage = "server" => pc # "destroyed"
  /\ stage \in {"start", "serving"} =>
       /\ pc = "done" /\ epfd # NoFd /\ m_fd_result # NoFd
       /\ m_hdls = {m_fd_result}
  /\ stage \notin {"start", "serving"} => m_hdls = {}
  /\ stage = "failed" => pc = "destroyed"
  /\ stage \in {"exited", "aborted"} => pc \in {"resolve", "destroyed"} /\ epfd = NoFd
  /\ stage \in {"failed", "exited"} => status = "error"
  /\ stage \notin {"args", "exited"} => args.init \/ args.host # NoHost

StartupInv == TypeOK /\ SocketInv /\ EpollsDescriptor /\ Counted /\ Stage

\* The initial state.
LEMMA InitStartupInv == Init => StartupInv
<1> SUFFICES ASSUME Init PROVE StartupInv
  OBVIOUS
<1>1. SocketInv
  BY InitSocketInv DEF Init
<1>2. argv \in Seq(Arguments)
  <2>1. Seq(Arguments) = UNION {[1..k -> Arguments] : k \in Nat}
    BY SeqDef
  <2>2. PICK k \in 0..MaxArgs : argv \in [1..k -> Arguments]
    BY DEF Init, ArgVectors
  <2>3. k \in Nat
    BY ArgsAssumption
  <2> QED  BY <2>1, <2>2, <2>3, Zenon
<1>4. TypeOK
  <2>1. args \in [init : BOOLEAN, host : Hosts \cup {NoHost},
                  conf : Paths \cup {DefaultPath}]
    BY DEF Init
  <2>2. stage \in Stages /\ epfd \in Fd \cup {NoFd} /\ m_hdls \subseteq Fd
    BY DEF Init, Stages
  <2>3. close_count \in Nat /\ status \in {"none", "error"}
    BY DEF Init
  <2> QED  BY <1>1, <1>2, <2>1, <2>2, <2>3, Zenon DEF TypeOK, SocketInv
<1>5. EpollsDescriptor /\ Counted /\ Stage
  BY DEF Init, SocketInit, EpollsDescriptor, Counted, HowMany, Stage, NoFd
<1> QED  BY <1>1, <1>4, <1>5 DEF StartupInv

-----------------------------------------------------------------------------
(* Start-up uses ServerSocket *)

\* Every step of start-up is one of ServerSocket's or leaves the sockets alone.
LEMMA StepIsSocketStep ==
  ASSUME StartupInv, [Next]_vars
  PROVE  [SocketNext]_socketVars
<1> USE DEF socketVars, mainVars, loopVars
<1>1. CASE CreateLoop
  <2>1. CASE UNCHANGED <<epfd, table, open_count>>
    BY <1>1, <2>1 DEF CreateLoop, EpollOpened
  <2>2. CASE ~UNCHANGED <<epfd, table, open_count>>
    <3>1. /\ epfd' \in Fd /\ table[epfd'] = "free"
          /\ table' = [table EXCEPT ![epfd'] = "other"]
          /\ open_count' = open_count + 1
      BY <1>1, <2>2 DEF CreateLoop, EpollOpened, Lowest, FreeFds
    <3>2. pc = "resolve"
      BY <1>1 DEF CreateLoop, StartupInv, Stage
    <3>3. UNCHANGED <<pc, n, addrs, addr, fd, used_addr, m_fd_result, refused>>
      BY <1>1 DEF CreateLoop
    <3> QED  BY <3>1, <3>2, <3>3 DEF Elsewhere, SocketNext
  <2> QED  BY <2>1, <2>2
<1>2. CASE JdmbDestroyed
  <2>1. table \in [Fd -> {"free", "other", "open", "bound", "listening"}]
    BY DEF StartupInv, TypeOK, SocketTypeOK
  <2>2. CASE epfd = NoFd
    <3>1. table' = table
      BY <1>2, <2>1, <2>2 DEF JdmbDestroyed, Fd, NoFd
    <3> QED  BY <1>2, <3>1 DEF JdmbDestroyed
  <2>3. CASE epfd # NoFd
    <3>1. epfd \in Fd /\ table[epfd] = "other"
      BY <2>3 DEF StartupInv, TypeOK, EpollsDescriptor
    <3>2. table' = [table EXCEPT ![epfd] = "free"]
      BY <1>2, <2>1, <3>1 DEF JdmbDestroyed
    <3>3. pc = "destroyed"
      BY <1>2 DEF JdmbDestroyed, StartupInv, Stage
    <3>4. /\ UNCHANGED <<pc, n, addrs, addr, fd, used_addr, m_fd_result, refused>>
          /\ open_count' = open_count
      BY <1>2 DEF JdmbDestroyed
    <3> QED  BY <3>1, <3>2, <3>3, <3>4 DEF Elsewhere, SocketNext
  <2> QED  BY <2>2, <2>3
<1>3. CASE Construct
  BY <1>3 DEF Construct, SocketNext
<1>4. CASE AddFails
  BY <1>4 DEF AddFails, SocketNext
<1>5. CASE ReadArg \/ CheckArgs \/ ConfigAborts \/ AddServer \/ StartLoop
  BY <1>5 DEF ReadArg, CheckArgs, ConfigAborts, AddServer, StartLoop
<1>6. ASSUME NEW right \in SUBSET Required, ConfigLoaded(right)
      PROVE  UNCHANGED socketVars
  BY <1>6 DEF ConfigLoaded
<1>7. CASE UNCHANGED vars
  BY <1>7 DEF vars
<1> QED  BY <1>1, <1>2, <1>3, <1>4, <1>5, <1>6, <1>7 DEF Next, Main, Over

-----------------------------------------------------------------------------
(* The stages *)

\* What an argument sets is of the right kind (main.cpp:23-33, 38-48).
LEMMA ParsedIsTyped ==
  ASSUME TypeOK, NEW arg \in Arguments
  PROVE  Parsed(arg) \in [init : BOOLEAN, host : Hosts \cup {NoHost},
                          conf : Paths \cup {DefaultPath}]
<1>1. ASSUME arg[1] = "host" PROVE Value(arg) \in Hosts \cup {NoHost}
  <2>1. \/ arg = <<"host">>
        \/ \E h \in Hosts : arg = <<"host", h>> \/ arg = <<"host", h, h>>
    BY <1>1 DEF Arguments
  <2>2. CASE arg = <<"host">>
    <3>1. Len(arg) = 1
      BY <2>2
    <3> QED  BY <3>1 DEF Value, NoHost
  <2>3. ASSUME NEW h \in Hosts, arg = <<"host", h>> \/ arg = <<"host", h, h>>
        PROVE  Value(arg) = h
    BY <2>3 DEF Value
  <2> QED  BY <2>1, <2>2, <2>3
<1>2. ASSUME arg[1] = "conf" PROVE Value(arg) \in Paths
  <2>1. \E p \in Paths : arg = <<"conf", p>>
    BY <1>2 DEF Arguments
  <2> QED  BY <2>1 DEF Value
<1>3. args \in [init : BOOLEAN, host : Hosts \cup {NoHost},
                conf : Paths \cup {DefaultPath}]
  BY DEF TypeOK
<1>4. CASE arg[1] = "init"
  BY <1>3, <1>4 DEF Parsed
<1>5. CASE arg[1] = "host"
  BY <1>1, <1>3, <1>5 DEF Parsed
<1>6. CASE arg[1] = "conf"
  BY <1>2, <1>3, <1>6 DEF Parsed
<1>7. CASE arg[1] \notin {"init", "host", "conf"}
  BY <1>3, <1>7 DEF Parsed
<1> QED  BY <1>4, <1>5, <1>6, <1>7

\* main() before the event loop exists.
LEMMA MainKeepsInv ==
  ASSUME StartupInv, SocketInv',
         \/ ReadArg \/ CheckArgs \/ ConfigAborts
         \/ \E right \in SUBSET Required : ConfigLoaded(right)
  PROVE  StartupInv'
<1> USE DEF mainVars, loopVars, socketVars
<1> TypeOK /\ EpollsDescriptor /\ Counted /\ Stage /\ SocketTypeOK'
  BY DEF StartupInv, SocketInv
<1>1. UNCHANGED <<epfd, m_hdls, close_count, socketVars>>
  BY DEF ReadArg, CheckArgs, ConfigAborts, ConfigLoaded
<1>2. EpollsDescriptor' /\ Counted'
  BY <1>1 DEF EpollsDescriptor, Counted
<1>3. CASE ReadArg
  <2>1. Head(argv) \in Arguments /\ argv' \in Seq(Arguments)
    BY <1>3, HeadTailProperties DEF ReadArg, TypeOK
  <2>3. args' \in [init : BOOLEAN, host : Hosts \cup {NoHost},
                   conf : Paths \cup {DefaultPath}]
    BY <1>3, <2>1, ParsedIsTyped DEF ReadArg
  <2>4. stage = "args" /\ UNCHANGED <<stage, status>>
    BY <1>3 DEF ReadArg
  <2>5. TypeOK'
    BY <1>1, <2>1, <2>3, <2>4 DEF TypeOK
  <2>6. Stage'
    BY <1>1, <2>4 DEF Stage
  <2> QED  BY <1>2, <2>5, <2>6 DEF StartupInv
<1>4. CASE CheckArgs
  <2>1. TypeOK' /\ Stage'
    BY <1>4 DEF CheckArgs, GivesUp, TypeOK, Stages, Stage
  <2> QED  BY <1>2, <2>1 DEF StartupInv
<1>5. CASE ConfigAborts
  <2>1. TypeOK' /\ Stage'
    BY <1>5 DEF ConfigAborts, TypeOK, Stages, Stage
  <2> QED  BY <1>2, <2>1 DEF StartupInv
<1>6. ASSUME NEW right \in SUBSET Required, ConfigLoaded(right)
      PROVE  StartupInv'
  <2>1. TypeOK' /\ Stage'
    BY <1>6 DEF ConfigLoaded, GivesUp, TypeOK, Stages, Stage
  <2> QED  BY <1>2, <2>1 DEF StartupInv
<1> QED  BY <1>3, <1>4, <1>5, <1>6

\* JDMB::start and the way out of it.
LEMMA StartKeepsInv ==
  ASSUME StartupInv, SocketInv',
         CreateLoop \/ Construct \/ AddServer \/ AddFails \/ StartLoop \/ JdmbDestroyed
  PROVE  StartupInv'
<1> USE DEF mainVars, loopVars, socketVars
<1> TypeOK /\ SocketInv /\ EpollsDescriptor /\ Counted /\ Stage
  BY DEF StartupInv
<1> SocketTypeOK /\ SocketTypeOK'
  BY DEF SocketInv
<1>1. CASE CreateLoop
  <2>1. \/ UNCHANGED <<epfd, table, open_count>>
        \/ /\ epfd' \in Fd /\ table[epfd'] = "free"
           /\ table' = [table EXCEPT ![epfd'] = "other"]
           /\ open_count' = open_count + 1
    BY <1>1 DEF CreateLoop, EpollOpened, Lowest, FreeFds
  <2>2. stage = "loop" /\ stage' = "server" /\ epfd = NoFd /\ pc = "resolve"
    BY <1>1 DEF CreateLoop, Stage
  <2>3. TypeOK'
    BY <1>1, <2>1 DEF CreateLoop, EpollOpened, TypeOK, Stages
  <2>4. EpollsDescriptor'
    BY <2>1, <2>2 DEF EpollsDescriptor, SocketTypeOK, NoFd, Fd
  <2>5. Counted'
    BY <1>1, <2>1, <2>2 DEF CreateLoop, EpollOpened, Counted, HowMany, TypeOK,
                                  SocketTypeOK, NoFd, Fd
  <2>6. Stage'
    BY <1>1, <2>2 DEF CreateLoop, Stage
  <2> QED  BY <2>3, <2>4, <2>5, <2>6 DEF StartupInv
<1>2. CASE Construct
  <2>1. stage = "server" /\ UNCHANGED <<stage, mainVars, loopVars, close_count, status>>
    BY <1>2 DEF Construct
  <2>2. \/ ResolveFails \/ Resolved \/ SocketOpened \/ SocketFails \/ OptionSet
        \/ OptionFails \/ Bound \/ BindFails \/ Listening \/ ListenFails
    BY <1>2 DEF Construct, Constructor
  <2>3. TypeOK'
    BY <2>1 DEF TypeOK
  <2>4. EpollsDescriptor'
    <3>1. \A f \in Fd : table[f] = "other" <=> table'[f] = "other"
      <4>1. \/ UNCHANGED table
            \/ \E f \in Fd, t \in {"free"} \cup SocketStates :
                 table[f] # "other" /\ table' = [table EXCEPT ![f] = t]
        <5>1. pc \in {"setsockopt", "bind", "listen"} =>
                fd \in Fd /\ table[fd] # "other"
          BY DEF SocketInv, InHand, AtListen
        <5>2. CASE SocketOpened
          BY <5>2 DEF SocketOpened, Lowest, FreeFds, SocketStates
        <5>3. CASE ~SocketOpened
          BY <2>2, <5>1, <5>3 DEF ResolveFails, Resolved, SocketFails, OptionSet,
             OptionFails, Bound, BindFails, Listening, ListenFails, Closed, SocketStates
        <5> QED  BY <5>2, <5>3
      <4> QED  BY <4>1 DEF SocketTypeOK, SocketStates
    <3> QED  BY <2>1, <3>1 DEF EpollsDescriptor, TypeOK
  <2>5. Counted'
    <3>1. \/ UNCHANGED <<open_count, m_fd_result>>
          \/ Listening /\ open_count' = open_count + 1 /\ m_fd_result' = fd
      BY <2>2 DEF ResolveFails, Resolved, SocketOpened, SocketFails, OptionSet,
         OptionFails, Bound, BindFails, Listening, ListenFails, Continue
    <3>2. Listening => fd # NoFd /\ m_fd_result = NoFd
      BY DEF Listening, SocketInv, AtListen, Reported, Fd, NoFd
    <3> QED  BY <2>1, <3>1, <3>2 DEF Counted, HowMany, TypeOK, SocketTypeOK
  <2>6. pc' # "destroyed"
    BY <2>1, <2>2 DEF Stage, ResolveFails, Resolved, SocketOpened, SocketFails, OptionSet,
       OptionFails, Bound, BindFails, Listening, ListenFails, Continue
  <2>7. Stage'
    BY <2>1, <2>6 DEF Stage
  <2> QED  BY <2>3, <2>4, <2>5, <2>7 DEF StartupInv
<1>3. CASE AddServer
  <2>1. TypeOK' /\ Stage'
    BY <1>3 DEF AddServer, TypeOK, SocketTypeOK, Stages, Stage
  <2>2. EpollsDescriptor' /\ Counted'
    BY <1>3 DEF AddServer, EpollsDescriptor, Counted
  <2> QED  BY <2>1, <2>2 DEF StartupInv
<1>4. CASE AddFails
  <2>1. /\ table' = [f \in Fd |-> IF f = m_fd_result THEN "free" ELSE table[f]]
        /\ m_fd_result' = NoFd /\ pc' = "destroyed" /\ open_count' = open_count
    BY <1>4 DEF AddFails, Destroyed
  <2>2. m_fd_result # NoFd => table[m_fd_result] = "listening"
    BY DEF SocketInv, Reported
  <2>3. TypeOK' /\ Stage'
    BY <1>4, <2>1 DEF AddFails, TypeOK, Stages, Stage
  <2>4. EpollsDescriptor'
    BY <1>4, <2>1, <2>2 DEF AddFails, EpollsDescriptor, TypeOK, Fd, NoFd
  <2>5. Counted'
    BY <1>4, <2>1 DEF AddFails, Counted, HowMany, TypeOK, SocketTypeOK
  <2> QED  BY <2>3, <2>4, <2>5 DEF StartupInv
<1>5. CASE StartLoop
  <2>1. TypeOK' /\ Stage' /\ EpollsDescriptor' /\ Counted'
    BY <1>5 DEF StartLoop, TypeOK, Stages, Stage, EpollsDescriptor, Counted
  <2> QED  BY <2>1 DEF StartupInv
<1>6. CASE JdmbDestroyed
  <2>1. m_fd_result = NoFd /\ pc = "destroyed"
    BY <1>6 DEF JdmbDestroyed, Stage, SocketInv, Reported
  <2>2. TypeOK' /\ Stage'
    BY <1>6, <2>1 DEF JdmbDestroyed, TypeOK, Stages, Stage, Fd, NoFd
  <2>3. EpollsDescriptor'
    BY <1>6 DEF JdmbDestroyed, EpollsDescriptor, NoFd
  <2>4. Counted'
    BY <1>6, <2>1 DEF JdmbDestroyed, Counted, HowMany, TypeOK, SocketTypeOK
  <2> QED  BY <2>2, <2>3, <2>4 DEF StartupInv
<1> QED  BY <1>1, <1>2, <1>3, <1>4, <1>5, <1>6

\* Every step preserves the invariant.
LEMMA StepKeepsStartupInv == StartupInv /\ [Next]_vars => StartupInv'
<1> SUFFICES ASSUME StartupInv, [Next]_vars PROVE StartupInv'
  OBVIOUS
<1>1. SocketInv'
  BY StepIsSocketStep, StepKeepsSocketInv DEF StartupInv
<1>2. CASE UNCHANGED vars
  BY <1>1, <1>2 DEF vars, mainVars, loopVars, socketVars, StartupInv, SocketInv, TypeOK,
     EpollsDescriptor, Counted, Stage
<1> QED  BY <1>1, <1>2, MainKeepsInv, StartKeepsInv DEF Next, Main, Over

-----------------------------------------------------------------------------
(* How many steps start-up has left *)

StageRank ==
  CASE stage = "args"   -> 6
    [] stage = "config" -> 5
    [] stage = "loop"   -> 4
    [] stage = "server" -> 3
    [] stage = "start"  -> 2
    [] stage = "failed" -> 1
    [] OTHER            -> 0

StepsLeft == StageRank + Len(argv) + CallsLeft

LEMMA StepsAreCounted ==
  ASSUME StartupInv
  PROVE  Len(argv) \in Nat /\ CallsLeft \in Nat /\ StageRank \in Nat /\ StepsLeft \in Nat
<1>1. Len(argv) \in Nat
  BY LenProperties DEF StartupInv, TypeOK
<1>2. CallsLeft \in Nat
  BY CallsAreBounded, LimitsAssumption DEF StartupInv
<1>3. StageRank \in Nat
  BY DEF StageRank
<1> QED  BY <1>1, <1>2, <1>3 DEF StepsLeft

LEMMA StepsAreCountedAfter ==
  ASSUME StartupInv'
  PROVE  StepsLeft' \in Nat
<1>1. argv' \in Seq(Arguments)
  BY DEF StartupInv, TypeOK
<1>2. Len(argv') \in Nat
  BY <1>1, LenProperties
<1>3. CallsLeft' \in Nat
  BY CallsAreBoundedAfter DEF StartupInv
<1>4. StageRank' \in Nat
  BY DEF StageRank
<1> QED  BY <1>2, <1>3, <1>4 DEF StepsLeft

LEMMA MainShrinks ==
  ASSUME StartupInv, StartupInv', Main PROVE StepsLeft' < StepsLeft
<1> USE DEF mainVars, loopVars, socketVars
<1>1. Len(argv) \in Nat /\ CallsLeft \in Nat
  BY StepsAreCounted
<1>2. CASE ReadArg
  <2>1. argv \in Seq(Arguments) /\ argv # <<>> /\ argv' = Tail(argv)
    BY <1>2 DEF ReadArg, StartupInv, TypeOK
  <2>2. Len(argv') = Len(argv) - 1
    BY <2>1, HeadTailProperties
  <2>3. StageRank' = StageRank /\ CallsLeft' = CallsLeft /\ StageRank \in Nat
    BY <1>2 DEF ReadArg, StageRank, CallsLeft
  <2> QED  BY <1>1, <2>2, <2>3 DEF StepsLeft
<1>3. ASSUME UNCHANGED <<argv, pc, n, addr>>, StageRank' < StageRank
      PROVE  StepsLeft' < StepsLeft
  <2>1. CallsLeft' = CallsLeft
    BY <1>3 DEF CallsLeft
  <2>2. StageRank \in Nat /\ StageRank' \in Nat
    BY DEF StageRank
  <2> QED  BY <1>1, <1>3, <2>1, <2>2 DEF StepsLeft
<1>4. CASE CheckArgs \/ ConfigAborts \/ CreateLoop \/ AddServer \/ StartLoop \/ JdmbDestroyed
  <2>1. UNCHANGED <<argv, pc, n, addr>>
    BY <1>4 DEF CheckArgs, ConfigAborts, CreateLoop, AddServer, StartLoop, JdmbDestroyed
  <2>2. StageRank' < StageRank
    BY <1>4 DEF CheckArgs, GivesUp, ConfigAborts, CreateLoop, AddServer, StartLoop,
                JdmbDestroyed, StageRank
  <2> QED  BY <1>3, <2>1, <2>2
<1>5. ASSUME NEW right \in SUBSET Required, ConfigLoaded(right)
      PROVE  StepsLeft' < StepsLeft
  <2>1. UNCHANGED <<argv, pc, n, addr>>
    BY <1>5 DEF ConfigLoaded
  <2>2. StageRank' < StageRank
    BY <1>5 DEF ConfigLoaded, GivesUp, StageRank
  <2> QED  BY <1>3, <2>1, <2>2
<1>6. CASE Construct
  <2>1. CallsLeft' < CallsLeft
    BY <1>6, ConstructorShrinks DEF Construct, StartupInv
  <2>2. CallsLeft' \in Int
    BY CallsAreBoundedAfter DEF StartupInv
  <2>3. StageRank' = StageRank /\ argv' = argv /\ StageRank \in Nat
    BY <1>6 DEF Construct, StageRank
  <2> QED  BY <1>1, <2>1, <2>2, <2>3 DEF StepsLeft
<1>7. CASE AddFails
  <2>1. CallsLeft' = CallsLeft /\ argv' = argv
    BY <1>7 DEF AddFails, Destroyed, CallsLeft
  <2>2. StageRank = 3 /\ StageRank' = 1
    BY <1>7 DEF AddFails, StageRank
  <2> QED  BY <1>1, <2>1, <2>2 DEF StepsLeft
<1> QED  BY <1>2, <1>4, <1>5, <1>6, <1>7 DEF Main

-----------------------------------------------------------------------------
(* The theorems *)

\* The invariant is inductive.
THEOREM StartupInvariance == Spec => []StartupInv
BY InitStartupInv, StepKeepsStartupInv, PTL DEF Spec

\* Start-up, seen through the variables of the server's constructor, is a run
\* of ServerSocket: the rest of the program never touches its descriptors.
THEOREM UsesServerSocket == Spec => SocketSpec
<1>1. Init => SocketInit
  BY DEF Init
<1> QED  BY <1>1, StartupInvariance, StepIsSocketStep, PTL DEF Spec, SocketSpec

\* The types of Startup's variables.
THEOREM StartupTypes == Spec => []TypeOK
<1>1. StartupInv => TypeOK
  BY DEF StartupInv
<1> QED  BY <1>1, StartupInvariance, PTL

\* When JDMB::start runs the loop, it waits for one handle, a socket that is
\* bound and listening, and nothing else is open but epoll (jdmb.cpp:13-31,
\* node/server.cpp:58-71, net/tcp/server.cpp:12-88).
THEOREM ServingListens == Spec => []ServingMeansListening
<1>1. StartupInv => ServingMeansListening
  <2> SUFFICES ASSUME StartupInv, stage = "serving" PROVE ServingMeansListening
    BY DEF ServingMeansListening
  <2>1. /\ pc = "done" /\ epfd # NoFd /\ m_fd_result # NoFd
        /\ m_hdls = {m_fd_result} /\ (args.init \/ args.host # NoHost)
    BY DEF StartupInv, Stage
  <2>2. /\ table \in [Fd -> {"free", "other", "open", "bound", "listening"}]
        /\ table[m_fd_result] = "listening" /\ OnlySocket(m_fd_result)
        /\ table[epfd] = "other" /\ \A f \in Fd : table[f] = "other" => f = epfd
    BY <2>1 DEF StartupInv, TypeOK, SocketTypeOK, SocketInv, Reported, EpollsDescriptor
  <2>3. table = [f \in Fd |-> IF f = m_fd_result THEN "listening"
                              ELSE IF f = epfd THEN "other" ELSE "free"]
    BY <2>2 DEF OnlySocket, SocketStates
  <2> QED  BY <2>1, <2>3 DEF ServingMeansListening
<1> QED  BY <1>1, StartupInvariance, PTL

\* A start-up that fails returns an error with every descriptor closed, and the
\* two counts main() prints agree (main.cpp:70-95, 105-106, fd.cpp:10-15).
THEOREM FailedStartIsClean == Spec => []ExitIsClean
<1>1. StartupInv => ExitIsClean
  <2> SUFFICES ASSUME StartupInv, stage = "exited" PROVE ExitIsClean
    BY DEF ExitIsClean
  <2>1. pc \in {"resolve", "destroyed"} /\ epfd = NoFd /\ status = "error"
    BY DEF StartupInv, Stage
  <2>2. m_fd_result = NoFd /\ OnlySocket(NoFd)
    BY <2>1 DEF StartupInv, SocketInv, InHand, Reported
  <2>3. \A f \in Fd : table[f] = "free"
    BY <2>1, <2>2 DEF StartupInv, TypeOK, SocketTypeOK, EpollsDescriptor, OnlySocket,
                      SocketStates, Fd, NoFd
  <2>4. open_count = close_count
    BY <2>1, <2>2 DEF StartupInv, Counted, HowMany, TypeOK
  <2> QED  BY <2>1, <2>3, <2>4 DEF ExitIsClean
<1> QED  BY <1>1, StartupInvariance, PTL

\* Start-up cannot go on for ever: whatever the arguments, the configuration and
\* the system calls give, each step uses up some of one for each argument, four
\* for each address and eight more; then main serves or has ended
\* (main.cpp:51-108, jdmb.cpp:13-35, net/tcp/server.cpp:34-71).
THEOREM StartupIsFinite ==
  Spec => /\ [](StepsLeft \in 0..(MaxArgs + 4 * MaxAddrs + 8))
          /\ [][StepsLeft' < StepsLeft]_vars
<1> DEFINE Bounded == StepsLeft \in 0..(MaxArgs + 4 * MaxAddrs + 8)
<1>1. Init => Bounded
  <2> SUFFICES ASSUME Init PROVE Bounded
    OBVIOUS
  <2>1. StageRank = 6 /\ CallsLeft = 4 * MaxAddrs + 2
    BY DEF Init, SocketInit, StageRank, CallsLeft
  <2>2. PICK k \in 0..MaxArgs : argv \in [1..k -> Arguments]
    BY DEF Init, ArgVectors
  <2>3. Len(argv) = k /\ k \in Nat
    BY <2>2, ArgsAssumption, LenProperties
  <2> QED  BY <2>1, <2>2, <2>3, ArgsAssumption, LimitsAssumption DEF StepsLeft
<1>2. StartupInv /\ StartupInv' /\ [Next]_vars => [StepsLeft' < StepsLeft]_vars
  BY MainShrinks DEF Next, Over
<1>3. Bounded /\ StartupInv /\ StartupInv' /\ [Next]_vars /\ [StepsLeft' < StepsLeft]_vars
        => Bounded'
  <2>1. ASSUME UNCHANGED vars PROVE StepsLeft' = StepsLeft
    BY <2>1 DEF vars, mainVars, socketVars, StepsLeft, StageRank, CallsLeft
  <2>2. StartupInv' => StepsLeft' \in Nat
    BY StepsAreCountedAfter
  <2>3. StartupInv => StepsLeft \in Nat
    BY StepsAreCounted
  <2> HIDE DEF StepsLeft
  <2> QED  BY <2>1, <2>2, <2>3, ArgsAssumption, LimitsAssumption
<1> QED  BY <1>1, <1>2, <1>3, StartupInvariance, PTL DEF Spec
=============================================================================
