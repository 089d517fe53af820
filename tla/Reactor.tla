------------------------------ MODULE Reactor ------------------------------
(***************************************************************************)
(* What EventLoop promises the handles it was given, without descriptors,   *)
(* batches or epoll: a listed handle is called once for each time it was    *)
(* signalled, nobody is called otherwise, and only its own call takes a     *)
(* handle out of the list, or its own timeout until it is connected.        *)
(*                                                                          *)
(* One exception is part of the promise.  A timeout can leave a call behind *)
(* whose handle it has just removed.  Such a stray is dropped, or a handle  *)
(* that joins meanwhile takes it for its own and is called once too often.  *)
(***************************************************************************)
EXTENDS Naturals, FiniteSets

CONSTANTS
  Sockets,   \* the handles that are called for each edge
  Attempts,  \* the sockets that can be bounded by a Timer
  Timers,    \* the handles that are called once and then removed
  Nobody     \* what a Timer without a callback bounds

Handles == Sockets \cup Timers

VARIABLES
  listed,     \* the handles in the loop's list
  due,        \* Handles -> the calls it can expect
  bounds,     \* Timers -> the attempt it removes when it is called, or Nobody
  connected,  \* the attempts that were established and have not left
  strays      \* calls whose handle has left

reactorVars == <<listed, due, bounds, connected, strays>>

Init ==
  /\ listed = {} /\ connected = {} /\ strays = 0
  /\ due = [h \in Handles |-> 0]
  /\ bounds = [t \in Timers |-> Nobody]

\* Two signals are not told apart while neither has been handed out; a Timer is
\* called once.
Pending(h) == IF h \in Timers THEN 1 ELSE 2

Signal(h) ==
  /\ h \in listed /\ due[h] < Pending(h)
  /\ due' = [due EXCEPT ![h] = @ + 1]
  /\ UNCHANGED <<listed, bounds, connected, strays>>

\* The list becomes stay and new.  Who joins has calls due, and one more if a
\* stray is taken for its own.
Join(stay, new, calls) ==
  \E met \in SUBSET new :
    /\ Cardinality(met) <= strays
    /\ strays' = strays - Cardinality(met)
    /\ listed' = stay \cup new
    /\ due' = [h \in Handles |-> IF h \in met THEN calls + 1
                                 ELSE IF h \in new THEN calls
                                 ELSE IF h \in stay THEN due[h] ELSE 0]

\* An attempt is added, with a Timer or without; each of the two can fail to
\* be listed.
Attempt(stay) ==
  \E c \in Attempts \ listed, T \in SUBSET (Timers \ listed) :
    /\ Cardinality(T) <= 1
    /\ bounds' = [t \in Timers |-> IF t \in T THEN c ELSE bounds[t]]
    /\ Join(stay, T, 0) \/ Join(stay, T \cup {c}, 0)
    /\ UNCHANGED connected

\* The application adds a socket, or the listening socket's handler one that is
\* ready at once.
Enter(h, calls) ==
  /\ h \in Sockets \ listed
  /\ Join(listed, {h}, calls)
  /\ UNCHANGED <<bounds, connected>>

\* The attempt h is bounded no longer.
Released(h) == [t \in Timers |-> IF bounds[t] = h THEN Nobody ELSE bounds[t]]

Called(h) == h \in Sockets \cap listed /\ due[h] > 0

\* A socket is called and stays.
Stay(h) ==
  /\ Called(h)
  /\ due' = [due EXCEPT ![h] = @ - 1]
  /\ UNCHANGED <<listed, strays>>

Serve(h) == Stay(h) /\ UNCHANGED <<bounds, connected>>

\* From now on no timeout can remove the attempt h.
Establish(h) ==
  /\ Stay(h)
  /\ h \in Attempts \ connected
  /\ connected' = connected \cup {h}
  /\ bounds' = Released(h)

Leave(h) ==
  /\ Called(h)
  /\ Join(listed \ {h}, {}, 0)
  /\ connected' = connected \ {h}
  /\ bounds' \in {bounds, Released(h)}

\* An attempt is followed by another one; its Timer is not touched.
Retry(h) == Called(h) /\ h \in Attempts \ connected /\ Attempt(listed \ {h})

\* A Timer is called: it leaves, and so does the attempt it bounds, whose own
\* call may be on its way already.
Timeout(t) ==
  LET gone == {t, bounds[t]} IN
  /\ t \in Timers \cap listed /\ due[t] > 0
  /\ bounds[t] \notin connected
  /\ listed' = listed \ gone
  /\ due' = [h \in Handles |-> IF h \in gone THEN 0 ELSE due[h]]
  /\ bounds' = [bounds EXCEPT ![t] = Nobody]
  /\ \/ strays' = strays
     \/ bounds[t] \in listed /\ due[bounds[t]] > 0 /\ strays' = strays + 1
  /\ UNCHANGED connected

\* A stray finds no handle.
Drop ==
  /\ strays > 0 /\ strays' = strays - 1
  /\ UNCHANGED <<listed, due, bounds, connected>>

Next ==
  \/ \E h \in Handles : Signal(h)
  \/ \E h \in Sockets, calls \in {0, 1} : Enter(h, calls)
  \/ \E h \in Sockets : Serve(h) \/ Establish(h) \/ Leave(h) \/ Retry(h)
  \/ Attempt(listed)
  \/ \E t \in Timers : Timeout(t)
  \/ Drop

Spec == Init /\ [][Next]_reactorVars
=============================================================================
