------------------------------ MODULE TimerFd -------------------------------
(***************************************************************************)
(* What Timer's constructor (src/event/timer.cpp:10-41) asks of a timerfd: *)
(* the conversion of timeout_ms to an itimerspec, and which of them the    *)
(* kernel takes.                                                           *)
(***************************************************************************)
EXTENDS Integers

\* Mutant: rounded up to a whole second.
ItValue_Up(ms) == [sec |-> (ms + 999) \div 1000, nsec |-> 0]

\* Mutant: whole seconds only.
ItValue_Whole(ms) == [sec |-> ms \div 1000, nsec |-> 0]

\* timeout.it_value: the remainder in milliseconds is stored in tv_nsec as is.
ItValue(ms) == [sec |-> ms \div 1000, nsec |-> ms % 1000]

\* timerfd_settime refuses any other value with EINVAL.
Accepted(v) == v.sec >= 0 /\ v.nsec >= 0 /\ v.nsec < 1000000000

\* A zero it_value disarms the timer instead of arming it.
Arms(v) == v.sec > 0 \/ v.nsec > 0

\* No later than ms milliseconds, both sides split into seconds and the rest.
NoLater(v, ms) ==
  \/ v.sec < ms \div 1000
  \/ v.sec = ms \div 1000 /\ v.nsec <= (ms % 1000) * 1000000

\* The whole seconds of ms and less than a microsecond: up to 999 ms are cut off.
CutShort(v, ms) == v.sec = ms \div 1000 /\ v.nsec < 1000

\* Exactly ms milliseconds.
Exact(v, ms) == v.sec = ms \div 1000 /\ v.nsec = (ms % 1000) * 1000000
=============================================================================
