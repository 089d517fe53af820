--------------------------- MODULE ClientAttempts ---------------------------
(***************************************************************************)
(* One call of tcp::Client::get_conn_hdl and everything that follows from  *)
(* it (src/net/tcp/client.cpp): the attempts at the addresses of one list, *)
(* each with a Timer of its own, until the last of them is destroyed.      *)
(*                                                                         *)
(* Attempt i is the Client::Connection at the i-th address.  The attempts  *)
(* share the list getaddrinfo returned by raw pointers, and each of them   *)
(* may free it when it is destroyed.  Module EventLoop has the loop and    *)
(* its descriptors; here the loop is the set of attempts it lists, and     *)
(* what matters is who keeps which attempt for how long.                   *)
(***************************************************************************)
EXTENDS TimerFd

CONSTANTS
  MaxAddrs,  \* the most addresses getaddrinfo returns
  Timeouts   \* what applications give EventLoop::add as timeout_ms

ASSUME ChainAssumption == MaxAddrs \in Nat /\ Timeouts \subseteq Int

Attempt == 1..MaxAddrs
NoValue == [sec |-> 0, nsec |-> 0]

VARIABLES
  pc,         \* "resolve", "made", "run" or "crashed"
  n,          \* the length of the address list
  timeout,    \* the timeout_ms the application asks for
  made,       \* attempts 1..made have been constructed
  sock,       \* those whose m_fd_result is Ok
  listed,     \* those in m_hdls
  connected,  \* those with m_connected set
  held,       \* those the application holds a shared_ptr of
  tmr,        \* attempt -> its Timer: "none", "armed", "disabled" or "gone"
  it_value,   \* attempt -> what its Timer was set to
  freed,      \* the attempts whose destructor freed the list
  touched,    \* history: the list was used after it had been freed
  leaked,     \* the attempts whose Timer left its descriptor open
  connects,   \* calls of connect_cb
  fails,      \* calls of fail_cb
  refused,    \* history: attempts that got a connection error
  unanswered, \* history: attempts whose getsockopt failed
  unadded,    \* history: attempts that EventLoop::add returned an Err for
  untimed,    \* history: attempts whose Timer could not be made or added
  expired     \* history: attempts whose armed Timer expired

objectVars  == <<made, sock, listed, connected, held, tmr, it_value>>
listVars    == <<freed, touched>>
callVars    == <<connects, fails>>
historyVars == <<refused, unanswered, unadded, untimed, expired>>
vars == <<pc, n, timeout, objectVars, listVars, leaked, callVars, historyVars>>

Init ==
  /\ pc = "resolve" /\ n = 0 /\ timeout \in Timeouts
  /\ made = 0 /\ sock = {} /\ listed = {} /\ connected = {} /\ held = {}
  /\ tmr = [i \in Attempt |-> "none"]
  /\ it_value = [i \in Attempt |-> NoValue]
  /\ freed = {} /\ touched = FALSE /\ leaked = {}
  /\ connects = 0 /\ fails = 0
  /\ refused = {} /\ unanswered = {} /\ unadded = {} /\ untimed = {}
  /\ expired = {}

-----------------------------------------------------------------------------
(* Lifetimes *)

\* Some shared_ptr refers to i: the map's, the application's, or the one that
\* the callback of its armed Timer captured.
Referenced(i) == i \in listed \/ i \in held \/ tmr[i] = "armed"

Alive == {i \in 1..made : Referenced(i)}

\* Mutant: one address too many.
HasNext_Beyond(i, gone) == IF gone THEN {i <= n, FALSE} ELSE {i <= n}

\* m_curr_addr->ai_next # nullptr: what attempt i may read when gone says
\* whether the list has been freed (the old value, or whatever is there now).
HasNext(i, gone) == IF gone THEN {i < n, FALSE} ELSE {i < n}

\* The attempts of D are destroyed, the later one first (next_conn is a local
\* of the earlier one's handler), each reading ai_next and freeing the list; read
\* says whether the handler itself has read the list after it was freed.
Destroy(D, read) ==
  \E has \in [D -> BOOLEAN] :
    LET Gone(i) == freed # {} \/ \E j \in D : j > i /\ has[j] IN
    /\ \A i \in D : has[i] \in HasNext(i, Gone(i))
    /\ freed' = freed \cup {i \in D : has[i]}
    /\ touched' = (touched \/ read \/ \E i \in D : Gone(i))

\* The end of every handler: what lost its last reference is destroyed.
Settle(born, read) == Destroy({i \in Alive \cup born : ~Referenced(i)'}, read)

-----------------------------------------------------------------------------
(* EventLoop::add *)

\* Timer's constructor and its own add, for attempt i.  With a value the kernel
\* refuses, the descriptor is neither kept nor closed.
SetTimer(i, ms) ==
  \/ /\ ms <= 0
     /\ UNCHANGED <<tmr, it_value, leaked, untimed>>
  \/ /\ ms > 0 /\ Accepted(ItValue(ms))
     /\ tmr' = [tmr EXCEPT ![i] = "armed"]
     /\ it_value' = [it_value EXCEPT ![i] = ItValue(ms)]
     /\ UNCHANGED <<leaked, untimed>>
  \/ /\ ms > 0
     /\ leaked' \in {leaked} \cup IF Accepted(ItValue(ms)) THEN {}
                                  ELSE {leaked \cup {i}}
     /\ untimed' = untimed \cup {i}
     /\ UNCHANGED <<tmr, it_value>>

\* add(i, ms), where rest is what the map lists besides; the Timer is made
\* before anybody looks at whether i has a socket.
Add(i, ms, rest) ==
  /\ SetTimer(i, ms)
  /\ \/ i \in sock' /\ listed' = rest \cup {i} /\ UNCHANGED unadded
     \/ listed' = rest /\ unadded' = unadded \cup {i}

\* The constructor of attempt i: socket, O_NONBLOCK and connect, each of which
\* may fail, connect at once or later.
Construct(i) ==
  /\ made' = i
  /\ sock' \in {sock, sock \cup {i}}

-----------------------------------------------------------------------------
(* The application *)

ResolveFails ==
  /\ pc = "resolve"
  /\ pc' = "run"
  /\ UNCHANGED <<n, timeout, objectVars, listVars, leaked, callVars, historyVars>>

\* get_conn_hdl
GetConnHdl ==
  /\ pc = "resolve"
  /\ pc' = "made"
  /\ n' \in 1..MaxAddrs
  /\ Construct(1)
  /\ held' = {1}
  /\ UNCHANGED <<timeout, listed, connected, tmr, it_value, listVars, leaked,
                 callVars, historyVars>>

FirstAdd ==
  /\ pc = "made" /\ 1 \in held
  /\ pc' = "run"
  /\ UNCHANGED <<n, timeout, made, sock, connected, held, listVars, callVars,
                 refused, unanswered, expired>>
  /\ Add(1, timeout, listed)

\* The application lets go of a connection.
Release(i) ==
  /\ pc # "crashed"
  /\ i \in held
  /\ held' = held \ {i}
  /\ UNCHANGED <<pc, n, timeout, made, sock, listed, connected, tmr, it_value,
                 leaked, callVars, historyVars>>
  /\ Settle({}, FALSE)

-----------------------------------------------------------------------------
(* Client::Connection::is_connected and connect_next, for the event of an     *)
(* attempt that is not connected                                              *)

\* disable_timeout
Disabled(i) == IF tmr[i] = "armed" THEN [tmr EXCEPT ![i] = "disabled"] ELSE tmr

Connecting(i) == pc = "run" /\ i \in listed \ connected

\* SO_ERROR = 0: connect_cb, which may keep the connection; the rest of on_data
\* leaves it in the map or, if the peer has closed already, does not.
Established(i) ==
  /\ Connecting(i)
  /\ connects' = connects + 1
  /\ connected' = connected \cup {i}
  /\ tmr' = Disabled(i)
  /\ held' \in {held, held \cup {i}}
  /\ listed' \in {listed, listed \ {i}}
  /\ UNCHANGED <<pc, n, timeout, made, sock, it_value, leaked, fails, historyVars>>
  /\ Settle({}, FALSE)

\* getsockopt fails: fail_cb.
NoAnswer(i) ==
  /\ Connecting(i)
  /\ fails' = fails + 1
  /\ unanswered' = unanswered \cup {i}
  /\ tmr' = Disabled(i)
  /\ listed' = listed \ {i}
  /\ UNCHANGED <<pc, n, timeout, made, sock, connected, held, it_value, leaked,
                 connects, refused, unadded, untimed, expired>>
  /\ Settle({}, FALSE)

\* Mutant: nobody is told.
Exhausted_Silent(i) ==
  /\ listed' = listed \ {i}
  /\ tmr' = Disabled(i)
  /\ UNCHANGED <<made, sock, it_value, leaked, callVars, unadded, untimed>>
  /\ Settle({}, freed # {})

\* No address after this one: fail_cb.
Exhausted(i) ==
  /\ fails' = fails + 1
  /\ tmr' = Disabled(i)
  /\ listed' = listed \ {i}
  /\ UNCHANGED <<made, sock, it_value, leaked, connects, unadded, untimed>>
  /\ Settle({}, freed # {})

\* Mutant: the next attempt has no timeout.
Inherited_Not(i) == -1

\* timer ? timer->get_timeout_ms() : -1
Inherited(i) == IF tmr[i] = "armed" THEN timeout ELSE -1

\* Mutant: the timeout of the attempt that was refused is disabled as well.
TryNext_Disables(i) ==
  /\ Construct(i + 1)
  /\ listed' = (listed \ {i}) \cup {i + 1} /\ i + 1 \in sock'
  /\ tmr' = [Disabled(i) EXCEPT ![i + 1] =
               IF tmr[i] = "armed" THEN "armed" ELSE "none"]
  /\ it_value' = [it_value EXCEPT ![i + 1] = it_value[i]]
  /\ UNCHANGED <<leaked, callVars, unadded, untimed>>
  /\ Settle({i + 1}, freed # {})

\* Mutant: the old attempt stays in the map beside the new one.
TryNext_Both(i) ==
  /\ Construct(i + 1)
  /\ Add(i + 1, Inherited(i), listed)
  /\ UNCHANGED callVars
  /\ Settle({i + 1}, freed # {})

\* A connection at the next address; the result of add is not looked at, and
\* the old attempt's Timer stays armed.
TryNext(i) ==
  /\ Construct(i + 1)
  /\ Add(i + 1, Inherited(i), listed \ {i})
  /\ UNCHANGED callVars
  /\ Settle({i + 1}, freed # {})

\* A connection error: connect_next reads ai_next, from whatever is there.
Refused(i) ==
  /\ Connecting(i)
  /\ refused' = refused \cup {i}
  /\ UNCHANGED <<pc, n, timeout, connected, held, unanswered, expired>>
  /\ \E has \in HasNext(i, freed # {}) : IF has THEN TryNext(i) ELSE Exhausted(i)

\* on_data of a connected attempt meets the end of the connection.
Closed(i) ==
  /\ pc = "run" /\ i \in listed \cap connected
  /\ listed' = listed \ {i}
  /\ UNCHANGED <<pc, n, timeout, made, sock, connected, held, tmr, it_value,
                 leaked, callVars, historyVars>>
  /\ Settle({}, FALSE)

-----------------------------------------------------------------------------
(* Timer::on_data *)

\* Mutant: on_data returns true, and the Timer stays.
ExpireArmed_Stays(i) ==
  /\ pc = "run"
  /\ tmr[i] = "armed" /\ Arms(it_value[i])
  /\ listed' = listed \ {i}
  /\ expired' = expired \cup {i}
  /\ UNCHANGED <<pc, n, timeout, made, sock, connected, held, tmr, it_value,
                 leaked, callVars, refused, unanswered, unadded, untimed>>
  /\ Settle({}, FALSE)

\* The callback removes attempt i, if the map still has it, and is released.
ExpireArmed(i) ==
  /\ pc = "run"
  /\ tmr[i] = "armed" /\ Arms(it_value[i])
  /\ tmr' = [tmr EXCEPT ![i] = "gone"]
  /\ listed' = listed \ {i}
  /\ expired' = expired \cup {i}
  /\ UNCHANGED <<pc, n, timeout, made, sock, connected, held, it_value, leaked,
                 callVars, refused, unanswered, unadded, untimed>>
  /\ Settle({}, FALSE)

ExpireDisabled(i) ==
  /\ pc = "run"
  /\ tmr[i] = "disabled"
  /\ tmr' = [tmr EXCEPT ![i] = "gone"]
  /\ UNCHANGED <<pc, n, timeout, made, sock, listed, connected, held, it_value,
                 listVars, leaked, callVars, historyVars>>

-----------------------------------------------------------------------------
\* Once freed memory has been used, the process may die of it at any time.
Crash ==
  /\ touched /\ pc # "crashed"
  /\ pc' = "crashed"
  /\ UNCHANGED <<n, timeout, objectVars, listVars, leaked, callVars, historyVars>>

\* Nothing of the chain is left.
Over ==
  /\ pc \in {"run", "crashed", "made"}
  /\ pc = "crashed" \/ \A i \in Attempt : ~Referenced(i) /\ tmr[i] # "disabled"
  /\ UNCHANGED vars

Event(i) == Established(i) \/ NoAnswer(i) \/ Refused(i) \/ Closed(i)

Next ==
  \/ ResolveFails \/ GetConnHdl \/ FirstAdd
  \/ \E i \in Attempt : \/ Release(i) \/ Event(i)
                        \/ ExpireArmed(i) \/ ExpireDisabled(i)
  \/ Crash
  \/ Over

Spec == Init /\ [][Next]_vars

-----------------------------------------------------------------------------
(* Properties *)

\* Type invariant.
TypeOK ==
  /\ pc \in {"resolve", "made", "run", "crashed"}
  /\ n \in 0..MaxAddrs /\ timeout \in Timeouts /\ made \in 0..n
  /\ sock \subseteq 1..made /\ listed \subseteq sock
  /\ connected \subseteq sock /\ held \subseteq 1..made
  /\ tmr \in [Attempt -> {"none", "armed", "disabled", "gone"}]
  /\ it_value \in [Attempt -> [sec : Int, nsec : Int]]
  /\ freed \subseteq 1..made /\ touched \in BOOLEAN /\ leaked \subseteq 1..made
  /\ connects \in Nat /\ fails \in Nat
  /\ refused \subseteq 1..made /\ unanswered \subseteq 1..made
  /\ unadded \subseteq 1..made /\ untimed \subseteq 1..made
  /\ expired \subseteq 1..made

\* What the application learns is explained.  fail_cb means that every address
\* was tried and refused, in turn, unless getsockopt failed or the list had
\* been freed under the chain.  Silence, once the loop has forgotten every
\* attempt, means that a timeout expired or that EventLoop::add failed for some
\* attempt, a result connect_next does not look at (client.cpp:139-158).
OutcomeIsExplained ==
  /\ fails > 0 /\ ~touched => refused = 1..n \/ unanswered # {}
  /\ pc = "run" /\ made > 0 /\ listed = {} /\ connects + fails = 0 =>
       expired # {} \/ unadded # {}

\* The timeout is handed down the chain: an attempt that is connecting without
\* an armed Timer, though the application asked for a timeout, comes after one
\* whose Timer could not be set (event_loop.cpp:66-69, client.cpp:156).
TimeoutIsInherited ==
  \A i \in 1..made :
    Connecting(i) /\ timeout > 0 /\ tmr[i] # "armed" => untimed \cap 1..i # {}

\* The list is not used after it was freed (client.cpp:85-90) in a chain of one
\* attempt, nor in one where every attempt got its Timer, until one of the Timers
\* has expired: so long they keep the earlier attempts alive.  Other chains may use
\* it, those without a timeout from the second attempt on.  As long as it was not,
\* a list of several addresses is freed once, by the first attempt to go that is
\* not at the last address; one of a single address never.
TimersKeepTheList ==
  /\ touched => made > 1 /\ (timeout > 0 /\ untimed = {} => expired # {})
  /\ ~touched =>
       /\ \A i, j \in freed : i = j
       /\ freed # {} => n > 1
       /\ pc = "run" /\ n > 1 /\ 1 \notin Alive => freed # {}

\* A timeout is cut to its whole seconds: a Timer the loop watches does expire,
\* but less than a microsecond after the whole seconds of timeout_ms, because the
\* rest counts as nanoseconds (timer.cpp:30-31).  It is on time for whole
\* seconds only, up to 999 ms early otherwise, and an attempt with less than a
\* second has practically no time.  No value is one for which timerfd_settime
\* fails and the descriptor is lost (timer.cpp:33-37).
TimeoutIsCutShort ==
  /\ \A i \in Attempt : tmr[i] = "armed" =>
       /\ Arms(it_value[i])
       /\ CutShort(it_value[i], timeout)
       /\ Exact(it_value[i], timeout) <=> timeout % 1000 = 0
  /\ leaked = {}

\* What has become of attempt i, for module ConnRequest.
FateOf(i) ==
  IF i > made THEN "untried"
  ELSE IF i \in connected THEN "connected"
  ELSE IF i \in refused THEN "refused"
  ELSE IF i \in unanswered THEN "unanswered"
  ELSE IF i \in listed \/ (pc = "made" /\ i \in held) THEN "trying"
  ELSE IF i \in unadded THEN "unadded"
  ELSE IF i \in expired THEN "timedout"
  ELSE "dropped"

Fates == [i \in Attempt |-> FateOf(i)]

\* A chain of attempts keeps the promise of get_conn_hdl: one address at a time
\* and in order, each once; connect_cb for the attempt that was established,
\* fail_cb for one without an answer or after the last refusal; no call but one
\* (client.cpp:15-33, 109-159, event_loop.cpp:58-74).
Request == INSTANCE ConnRequest WITH
             total  <- n,
             fate   <- Fates,
             broken <- touched
RequestSpec == Request!Spec

-----------------------------------------------------------------------------
(* Fairness and liveness: an armed timerfd expires, the loop sees it.  Nothing *)
(* is assumed of peers, of the network or of the application.                  *)

FairSpec ==
  Spec /\ \A i \in Attempt : WF_vars(ExpireArmed(i)) /\ WF_vars(ExpireDisabled(i))

\* A chain in which every attempt got its Timer comes to an end by itself: no
\* attempt is left connecting.
ChainEnds ==
  (pc = "run" /\ timeout > 0) ~>
    (pc = "crashed" \/ untimed # {} \/ listed \subseteq connected)

\* An attempt that has left the loop is destroyed, and its descriptor closed,
\* as soon as the application lets go of it and its Timer has expired.
AttemptsAreReleased ==
  \A i \in Attempt :
    (i \in 1..made /\ i \notin listed) ~>
      (pc = "crashed" \/ i \in held \/ i \notin Alive)
=============================================================================
