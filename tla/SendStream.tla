---------------------------- MODULE SendStream ----------------------------
(***************************************************************************)
(* What tcp::Connection::send promises its callers, without saying how:    *)
(* bytes go to the socket once each, in the order of the calls, some time  *)
(* after they were accepted.  Bytes are numbered in the order in which the *)
(* application hands them over.  After the socket has reported an error    *)
(* nothing is promised.                                                    *)
(***************************************************************************)
EXTENDS Naturals, Sequences

VARIABLES
  accepted,  \* how many bytes send() has taken over so far
  wire,      \* the bytes the socket took, in order
  broken     \* did the socket ever report an error?

streamVars == <<accepted, wire, broken>>

UpTo(n) == [i \in 1..n |-> i]

Init == accepted = 0 /\ wire = <<>> /\ broken = FALSE

Write ==
  /\ accepted' \in Nat /\ accepted' >= accepted
  /\ UNCHANGED <<wire, broken>>

Transmit ==
  /\ ~broken
  /\ \E n \in Len(wire)..accepted : wire' = UpTo(n)
  /\ UNCHANGED <<accepted, broken>>

Break == broken' = TRUE /\ UNCHANGED <<accepted, wire>>

Broken == broken /\ broken'

Next == Write \/ Transmit \/ Break \/ Broken

Spec == Init /\ [][Next]_streamVars
=============================================================================
