------------------------------- MODULE Startup ------------------------------
(***************************************************************************)
(* From main() to the running event loop: src/main.cpp, Config::load,      *)
(* JDMB::start, node::Server::create and, through module ServerSocket, the *)
(* constructor of tcp::Server; and back from the first step that fails to  *)
(* main's exit status, with the destructors that run on the way.           *)
(*                                                                         *)
(* stage is where main is; pc is where the constructor is, which runs in   *)
(* stage "server".  An argument is the sequence of tokens split at '='.    *)
(***************************************************************************)
EXTENDS ServerSocket, Sequences

CONSTANTS
  Hosts,   \* values of --discover-host, other than the empty string
  Empty,   \* the empty string
  Paths,   \* values of --conf-path
  MaxArgs  \* bound: the number of arguments

ASSUME ArgsAssumption == MaxArgs \in Nat
ASSUME EmptyAssumption == Empty \notin Hosts

NoHost == Empty
DefaultPath == "conf/conf.json"

\* What argv may hold: a flag without a value, with one, with two tokens too
\* many, an unknown one.
Arguments == {<<"init">>, <<"init", "false">>, <<"init", "true">>, <<"host">>,
              <<"unknown", "x">>}
             \cup {<<"host", h>> : h \in Hosts}
             \cup {<<"host", h, h>> : h \in Hosts}
             \cup {<<"conf", p>> : p \in Paths}

Required == {"log_level", "jdmb_host", "jdmb_port", "jdmb_queue_len",
             "node_host", "node_queue_len"}

VARIABLES
  stage,        \* where main() is
  argv,         \* the arguments still to be read
  args,         \* CommandLineArgs
  epfd,         \* m_event_loop's descriptor, or NoFd
  m_hdls,       \* the descriptors registered with the loop
  close_count,  \* FD::_CLOSE_COUNT
  status        \* what main() returns

mainVars == <<argv, args>>
loopVars == <<epfd, m_hdls>>
vars == <<stage, mainVars, loopVars, close_count, status, socketVars>>

ArgVectors == UNION {[1..k -> Arguments] : k \in 0..MaxArgs}

Init ==
  /\ SocketInit
  /\ stage = "args"
  /\ argv \in ArgVectors
  /\ args = [init |-> FALSE, host |-> NoHost, conf |-> DefaultPath]
  /\ epfd = NoFd /\ m_hdls = {}
  /\ close_count = 0 /\ status = "none"

-----------------------------------------------------------------------------
(* main() *)

\* The token behind the first '='.
Value(arg) == IF Len(arg) > 1 THEN arg[2] ELSE Empty

\* parse_map: the setter of each known argument.
Parsed(arg) ==
  CASE arg[1] = "init" -> [args EXCEPT !.init = Value(arg) # "false"]
    [] arg[1] = "host" -> [args EXCEPT !.host = Value(arg)]
    [] arg[1] = "conf" -> [args EXCEPT !.conf = Value(arg)]
    [] OTHER -> args

ReadArg ==
  /\ stage = "args" /\ argv # <<>>
  /\ args' = Parsed(Head(argv))
  /\ argv' = Tail(argv)
  /\ UNCHANGED <<stage, loopVars, close_count, status, socketVars>>

\* main() on its way out: fatal(), return.
GivesUp == stage' = "exited" /\ status' = "error"

CheckArgs ==
  /\ stage = "args" /\ argv = <<>>
  /\ IF ~args.init /\ args.host = NoHost
     THEN GivesUp
     ELSE stage' = "config" /\ UNCHANGED status
  /\ UNCHANGED <<mainVars, loopVars, close_count, socketVars>>

\* Config::load of a file that cannot be opened or parsed, or of an object
\* whose members right have the type that is asked for.
ConfigLoaded(right) ==
  /\ stage = "config"
  /\ IF right = Required THEN stage' = "loop" /\ UNCHANGED status ELSE GivesUp
  /\ UNCHANGED <<mainVars, loopVars, close_count, socketVars>>

\* A document that is not an object fails rapidjson's assertion in HasMember.
ConfigAborts ==
  /\ stage = "config"
  /\ stage' = "aborted"
  /\ UNCHANGED <<mainVars, loopVars, close_count, status, socketVars>>

-----------------------------------------------------------------------------
(* JDMB::start *)

\* EpollFD's constructor, whose Err nobody looks at yet.
EpollOpened ==
  \/ UNCHANGED <<epfd, table, open_count>>
  \/ /\ epfd' \in Lowest(FreeFds)
     /\ table' = [table EXCEPT ![epfd'] = "other"]
     /\ open_count' = open_count + 1

\* EventLoop::create.  perform_discovery, for a new cluster, does nothing and
\* returns true.
CreateLoop ==
  /\ stage = "loop"
  /\ stage' = "server"
  /\ EpollOpened
  /\ UNCHANGED <<mainVars, m_hdls, close_count, status, pc, n, addrs, addr, fd,
                 used_addr, m_fd_result, refused>>

\* node::Server's constructor makes the tcp::Server.
Construct ==
  /\ stage = "server"
  /\ Constructor
  /\ UNCHANGED <<stage, mainVars, loopVars, close_count, status>>

\* Mutant: only the listening socket is looked at.
AddServer_NoEpoll ==
  /\ stage = "server" /\ pc = "done"
  /\ m_fd_result # NoFd
  /\ m_hdls' = m_hdls \cup {m_fd_result}
  /\ stage' = "start"
  /\ UNCHANGED <<mainVars, epfd, close_count, status, socketVars>>

\* event_loop->add: epoll, the socket and epoll_ctl are all needed.
AddServer ==
  /\ stage = "server" /\ pc = "done"
  /\ epfd # NoFd /\ m_fd_result # NoFd
  /\ m_hdls' = m_hdls \cup {m_fd_result}
  /\ stage' = "start"
  /\ UNCHANGED <<mainVars, epfd, close_count, status, socketVars>>

\* Mutant: the failed server is not destroyed.
AddFails_Leaks ==
  /\ stage = "server" /\ pc = "done"
  /\ stage' = "failed"
  /\ status' = "error"
  /\ UNCHANGED <<mainVars, loopVars, close_count, socketVars>>

\* node::Server::create returns an Err, and the server is destroyed.
AddFails ==
  /\ stage = "server" /\ pc = "done"
  /\ stage' = "failed"
  /\ Destroyed
  /\ close_count' = close_count + IF m_fd_result = NoFd THEN 0 ELSE 1
  /\ status' = "error"
  /\ UNCHANGED <<mainVars, loopVars>>

\* EventLoop::start, whose loop runs as long as a handle is left (module
\* EventLoop; the listening socket never leaves it).
StartLoop ==
  /\ stage = "start" /\ m_hdls # {}
  /\ stage' = "serving"
  /\ UNCHANGED <<mainVars, loopVars, close_count, status, socketVars>>

\* The JDMB object goes, and the event loop with it.
JdmbDestroyed ==
  /\ stage = "failed"
  /\ stage' = "exited"
  /\ epfd' = NoFd /\ m_hdls' = {}
  /\ table' = [f \in Fd |-> IF f = epfd THEN "free" ELSE table[f]]
  /\ close_count' = close_count + IF epfd = NoFd THEN 0 ELSE 1
  /\ UNCHANGED <<mainVars, status, pc, n, addrs, addr, fd, used_addr,
                 m_fd_result, open_count, refused>>

\* The loop runs (module EventLoop), or the process has ended.
Over == stage \in {"serving", "exited", "aborted"} /\ UNCHANGED vars

Main ==
  \/ ReadArg \/ CheckArgs
  \/ \E right \in SUBSET Required : ConfigLoaded(right)
  \/ ConfigAborts
  \/ CreateLoop \/ Construct
  \/ AddServer \/ AddFails \/ StartLoop \/ JdmbDestroyed

Next == Main \/ Over

Spec == Init /\ [][Next]_vars

-----------------------------------------------------------------------------
(* Properties *)

Stages == {"args", "config", "loop", "server", "start", "failed",
           "serving", "exited", "aborted"}

\* Type invariant.
TypeOK ==
  /\ SocketTypeOK
  /\ stage \in Stages
  /\ argv \in Seq(Arguments)
  /\ args \in [init : BOOLEAN, host : Hosts \cup {NoHost},
               conf : Paths \cup {DefaultPath}]
  /\ epfd \in Fd \cup {NoFd} /\ m_hdls \subseteq Fd
  /\ close_count \in Nat /\ status \in {"none", "error"}

\* Once the loop runs, the listening socket is the handle it waits for: bound,
\* listening, registered, and besides epoll's the only descriptor there is
\* (jdmb.cpp:21-35, node/server.cpp:58-71, net/tcp/server.cpp:12-88).
ServingMeansListening ==
  stage = "serving" =>
    /\ m_hdls = {m_fd_result} /\ m_fd_result # NoFd
    /\ table = [f \in Fd |-> IF f = m_fd_result THEN "listening"
                             ELSE IF f = epfd THEN "other" ELSE "free"]
    /\ epfd # NoFd
    /\ args.init \/ args.host # NoHost

\* Whatever start-up fails at, main() returns an error, every descriptor is
\* closed, and the two counts main() prints (main.cpp:105-106) agree; the
\* graceful exit (main.cpp:97) is not reached by start-up.
ExitIsClean ==
  stage = "exited" =>
    /\ status = "error"
    /\ \A f \in Fd : table[f] = "free"
    /\ open_count = close_count

-----------------------------------------------------------------------------
(* Fairness and liveness: the thread runs, and the system calls return. *)

FairSpec == Spec /\ WF_vars(Main)

\* Start-up comes to an end: the loop over the addresses too.
StartupEnds == <>(stage \in {"serving", "exited", "aborted"})
=============================================================================
