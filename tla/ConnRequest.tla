---------------------------- MODULE ConnRequest ----------------------------
(***************************************************************************)
(* What a call of tcp::Client::get_conn_hdl promises the application       *)
(* (src/net/tcp/client.cpp), without the loop, the descriptors, the Timers *)
(* and the shared pointers that keep the promise: the addresses of the     *)
(* name are tried one at a time and in order, each of them once, and every *)
(* attempt that ends, ends in one of a few ways, with the callback that    *)
(* belongs to it.  What is not promised has a name of its own: three ways  *)
(* in which a request ends without a callback, and the list of addresses   *)
(* being used after it was freed.                                          *)
(***************************************************************************)
EXTENDS Naturals

CONSTANT MaxAddrs  \* the most addresses a name has

Addr == 1..MaxAddrs

VARIABLES
  total,     \* how many addresses the name has; 0 before it is resolved
  fate,      \* address -> what has become of the attempt at it
  connects,  \* calls of connect_cb
  fails,     \* calls of fail_cb
  broken     \* was the list of addresses used after it was freed?

requestVars == <<total, fate, connects, fails, broken>>

\* Timeouts, failures of EventLoop::add and an application that drops the
\* attempt before it has added it make no call.
SilentEnd == {"timedout", "unadded", "dropped"}
Fate == {"untried", "trying", "connected", "refused", "unanswered"} \cup SilentEnd

Init ==
  /\ total = 0 /\ fate = [i \in Addr |-> "untried"]
  /\ connects = 0 /\ fails = 0 /\ broken = FALSE

Begin ==
  /\ total = 0 /\ total' \in Addr
  /\ fate[1] = "untried"
  /\ fate' = [fate EXCEPT ![1] = "trying"]
  /\ UNCHANGED <<connects, fails>>

\* The attempt in hand ends as what.
Ends(i, what) == fate[i] = "trying" /\ fate' = [fate EXCEPT ![i] = what]

Connect(i) ==
  /\ Ends(i, "connected")
  /\ connects' = connects + 1 /\ UNCHANGED <<total, fails>>

\* The error of the attempt could not be read.
Unanswered(i) ==
  /\ Ends(i, "unanswered")
  /\ fails' = fails + 1 /\ UNCHANGED <<total, connects>>

\* Refused, and there is no other address, or none that can be seen.
Exhausted(i) ==
  /\ i = total \/ broken'
  /\ Ends(i, "refused")
  /\ fails' = fails + 1 /\ UNCHANGED <<total, connects>>

\* Refused, and the next address is tried, or would have been.
TryNext(i) ==
  /\ i < total
  /\ fate[i] = "trying" /\ fate[i + 1] = "untried"
  /\ \E what \in {"trying", "unadded"} :
       fate' = [fate EXCEPT ![i] = "refused", ![i + 1] = what]
  /\ UNCHANGED <<total, connects, fails>>

Silent(i) ==
  /\ \E what \in SilentEnd : Ends(i, what)
  /\ UNCHANGED <<total, connects, fails>>

\* The list can be misused at any time after it was freed.
Misused == UNCHANGED <<total, fate, connects, fails>>

Step ==
  \/ Begin
  \/ \E i \in Addr : \/ Connect(i) \/ Unanswered(i) \/ Exhausted(i)
                     \/ TryNext(i) \/ Silent(i)
  \/ Misused

Next == broken' \in {broken, TRUE} /\ Step

Spec == Init /\ [][Next]_requestVars

-----------------------------------------------------------------------------
(* What the application can rely on *)

\* The addresses are tried in order, each after the one before it was refused,
\* and nothing is tried beyond the last (client.cpp:139-158).
InOrder ==
  \A i \in Addr : fate[i] # "untried" =>
    i <= total /\ \A j \in Addr : j < i => fate[j] = "refused"

\* At most one call, and the right one: connect_cb exactly if an attempt was
\* established; fail_cb only if all addresses were refused, the last of those
\* tried gave no answer, or the list was misused; and none only as long as an
\* attempt is under way or if the last one ended silently (client.cpp:117-158).
RightCall ==
  /\ connects + fails <= 1
  /\ connects = 1 <=> \E i \in Addr : fate[i] = "connected"
  /\ fails = 1 =>
       \/ broken
       \/ total > 0 /\ \A i \in 1..total : fate[i] = "refused"
       \/ \E i \in Addr : fate[i] = "unanswered"
  /\ total > 0 =>
       (connects + fails = 0 <=>
          \E i \in Addr : fate[i] \in {"trying"} \cup SilentEnd)
=============================================================================
