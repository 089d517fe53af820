-------------------------- MODULE EventLoopProofs --------------------------
(***************************************************************************)
(* Proofs about EventLoop, for every number of descriptors, objects, events *)
(* per batch and backlog.  Inv is inductive: Registry says which object an  *)
(* entry belongs to, which TimeoutsAreForAttempts needs to know that a      *)
(* timeout's epoll_del can only find the attempt it was made for; the       *)
(* latter in turn keeps the connected connections registered.               *)
(***************************************************************************)
EXTENDS EventLoop, Integers, FiniteSetTheorems, TLAPS

Inv == TypeOK /\ Registry /\ TimeoutsAreForAttempts

\* Whoever has a descriptor is referred to, the listening socket by the map;
\* a weak_ptr that still locks leads to the Timer of the entry's own handle.
Owned == \A o \in Obj : m_fd_result[o] # NoFd => Referenced(o)
ListenerListed == m_fd_result[Listener] # NoFd => Registered(Listener)
WeakRefs ==
  \A f \in Fd : m_timer_hdl[f] # NoObj =>
    /\ m_hdls[f] # NoObj
    /\ Registered(m_timer_hdl[f])
    /\ m_timeout_cb[m_timer_hdl[f]] \in {NoObj, m_hdls[f]}

\* The initial state: no object owns a descriptor.
LEMMA InitInv == Init => Inv
<1> SUFFICES ASSUME Init PROVE Inv
  OBVIOUS
<1> USE NatAssumption DEF Init
<1>1. TypeOK
  BY ObjAssumption DEF TypeOK, OptObj, Fd, NoFd
<1>2. Registry
  BY DEF Registry, OwnersDistinct
<1>3. TimeoutsAreForAttempts
  BY DEF TimeoutsAreForAttempts
<1> QED  BY <1>1, <1>2, <1>3 DEF Inv

\* What the destructors leave behind: if the handler left the map consistent
\* with the descriptors it opened and with what it told epoll, the map is still
\* consistent once everything unreferenced has been closed.
LEMMA SettleKeepsRegistry ==
  ASSUME NEW fds \in [Obj -> Fd \cup {NoFd}], NEW listed, NEW rdy \in SUBSET Fd,
         NEW conds \in SUBSET Conn,
         m_hdls' \in [Fd -> OptObj(Obj)],
         OwnersDistinct(fds),
         \A f \in Fd : m_hdls'[f] # NoObj => fds[m_hdls'[f]] = f,
         \A f \in Fd : m_hdls'[f] # NoObj <=> f \in listed,
         Settle(fds, listed, rdy, conds)
  PROVE  /\ m_fd_result' \in [Obj -> Fd \cup {NoFd}]
         /\ interest' \subseteq Fd /\ ready' \subseteq Fd /\ pending' \subseteq Conn
         /\ \A f \in Fd : m_hdls'[f] # NoObj <=> f \in interest'
         /\ \A f \in Fd : m_hdls'[f] # NoObj => m_fd_result'[m_hdls'[f]] = f
         /\ OwnersDistinct(m_fd_result')
         /\ \A o \in Obj : m_fd_result'[o] \in {fds[o], NoFd}
<1> USE DEF NoFd
<1>1. /\ m_fd_result' = [o \in Obj |-> IF Referenced(o)' THEN fds[o] ELSE NoFd]
      /\ interest' = listed \cap OpenFds(m_fd_result')
      /\ ready' = rdy \cap interest'
      /\ pending' = {c \in conds : Registered(c)'}
  BY DEF Settle
<1>2. \A o \in Obj : m_fd_result'[o] \in {fds[o], NoFd}
  BY <1>1
<1>3. m_fd_result' \in [Obj -> Fd \cup {NoFd}]
  BY <1>1
<1>4. OwnersDistinct(m_fd_result')
  BY <1>2, <1>3 DEF OwnersDistinct
<1>5. ASSUME NEW f \in Fd, m_hdls'[f] # NoObj
      PROVE  m_fd_result'[m_hdls'[f]] = f /\ m_hdls'[f] \in Obj
  <2>1. PICK o \in Obj : m_hdls'[f] = o
    BY <1>5 DEF OptObj
  <2>2. Referenced(o)'
    BY <2>1 DEF Referenced, Registered
  <2> QED  BY <1>1, <1>5, <2>1, <2>2
<1>6. \A f \in Fd : m_hdls'[f] # NoObj <=> f \in interest'
  <2> SUFFICES ASSUME NEW f \in Fd, m_hdls'[f] # NoObj
               PROVE  f \in OpenFds(m_fd_result')
    BY <1>1
  <2> QED  BY <1>5, NatAssumption DEF OpenFds, Fd
<1>7. interest' \subseteq Fd
  BY <1>1, <1>3 DEF OpenFds
<1> QED  BY <1>1, <1>2, <1>3, <1>4, <1>5, <1>6, <1>7

-----------------------------------------------------------------------------
(* The map and the timers, one lemma per way a step changes them *)

LEMMA SameMap ==
  ASSUME Inv, UNCHANGED <<m_fd_result, loopVars, m_connected, interest>>
  PROVE  Registry' /\ TimeoutsAreForAttempts'
<1>1. Registry'
  BY DEF Inv, Registry, OwnersDistinct, Registered, loopVars
<1>2. TimeoutsAreForAttempts'
  BY DEF Inv, TimeoutsAreForAttempts, Registered, Connecting, loopVars
<1> QED  BY <1>1, <1>2

\* A handle that just opened a free descriptor is entered in the map; nobody
\* referred to it before, so no timer and no connected flag is about it.
LEMMA EnterKeeps ==
  ASSUME Inv, NEW o \in Obj, NEW f \in Fd, f \in FreeFds,
         o \notin Timer, ~Registered(o), o \notin CConn,
         m_hdls' = [m_hdls EXCEPT ![f] = o],
         \A g \in Fd : g # f => m_timer_hdl'[g] = m_timer_hdl[g],
         m_fd_result' = [m_fd_result EXCEPT ![o] = f],
         interest' = interest \cup {f},
         UNCHANGED <<m_timeout_cb, m_connected>>
  PROVE  Registry' /\ TimeoutsAreForAttempts'
<1> USE NatAssumption, ObjAssumption DEF NoFd, Fd
<1>1. /\ m_hdls \in [Fd -> OptObj(Obj)]
      /\ m_fd_result \in [Obj -> Fd \cup {NoFd}]
      /\ m_timeout_cb \in [Timer -> OptObj(CConn)]
      /\ interest \subseteq Fd
  BY DEF Inv, TypeOK
<1>2. \A p \in Obj : m_fd_result[p] # f
  BY DEF FreeFds, OpenFds
<1>3. m_hdls[f] = NoObj
  BY <1>1, <1>2 DEF Inv, Registry, OptObj
<1>4. \A g \in Fd : m_hdls'[g] = IF g = f THEN o ELSE m_hdls[g]
  BY <1>1
<1>5. \A p \in Obj : m_fd_result'[p] = IF p = o THEN f ELSE m_fd_result[p]
  BY <1>1
<1>6. \A g \in Fd : m_hdls[g] # NoObj => m_hdls[g] \in Obj /\ m_hdls[g] # o
  BY <1>1 DEF Registered, OptObj
<1>7. \A p \in Obj : Registered(p) => Registered(p)'
  BY <1>3, <1>4 DEF Registered
<1>8. Registry'
  <2>1. \A g \in Fd : m_hdls'[g] # NoObj <=> g \in interest'
    BY <1>4 DEF Inv, Registry
  <2>2. \A g \in Fd : m_hdls'[g] # NoObj => m_fd_result'[m_hdls'[g]] = g
    BY <1>4, <1>5, <1>6 DEF Inv, Registry
  <2>3. OwnersDistinct(m_fd_result')
    BY <1>2, <1>5 DEF Inv, Registry, OwnersDistinct
  <2>4. \A c \in m_connected' : Registered(c)'
    BY <1>7 DEF Inv, Registry, TypeOK, Obj, Conn
  <2> QED  BY <2>1, <2>2, <2>3, <2>4 DEF Registry
<1>9. TimeoutsAreForAttempts'
  <2> SUFFICES ASSUME NEW t \in Timer, m_timeout_cb[t] # NoObj
               PROVE  /\ Registered(t)'
                      /\ \A g \in Fd : m_hdls'[g] = m_timeout_cb[t] =>
                           /\ Connecting(m_hdls'[g])
                           /\ m_timer_hdl'[g] = t
    BY DEF TimeoutsAreForAttempts, Connecting
  <2>1. m_timeout_cb[t] \in CConn
    BY <1>1 DEF OptObj
  <2>2. Registered(t)'
    BY <1>7 DEF Inv, TimeoutsAreForAttempts, Obj
  <2>3. \A g \in Fd : m_hdls'[g] = m_timeout_cb[t] => g # f
    BY <1>4, <2>1
  <2> QED  BY <1>4, <2>2, <2>3 DEF Inv, TimeoutsAreForAttempts
<1> QED  BY <1>8, <1>9

\* Entries are erased, some timers lose their callback, and the destructors
\* run: no armed timer and no connected connection may be among them.
LEMMA EraseKeeps ==
  ASSUME Inv, NEW gone \in SUBSET Fd,
         m_hdls' = Erase(m_hdls, gone),
         m_timer_hdl' \in [Fd -> OptObj(Timer)],
         \A t \in Timer : m_timeout_cb'[t] \in {m_timeout_cb[t], NoObj},
         \A t \in Timer : m_timeout_cb'[t] # NoObj =>
           /\ \A f \in gone : m_hdls[f] # t
           /\ \A f \in Fd \ gone : m_timer_hdl[f] = t => m_timer_hdl'[f] = t,
         m_connected' \subseteq m_connected,
         \A f \in gone : m_hdls[f] \notin m_connected',
         Settle(m_fd_result, interest \ gone, ready, pending)
  PROVE  /\ Registry' /\ TimeoutsAreForAttempts'
         /\ m_hdls' \in [Fd -> OptObj(Obj)]
         /\ m_fd_result' \in [Obj -> Fd \cup {NoFd}]
         /\ interest' \subseteq Fd /\ ready' \subseteq Fd /\ pending' \subseteq Conn
<1>1. /\ m_hdls \in [Fd -> OptObj(Obj)]
      /\ m_fd_result \in [Obj -> Fd \cup {NoFd}]
      /\ ready \in SUBSET Fd /\ pending \in SUBSET Conn
      /\ m_connected \subseteq CConn
  BY DEF Inv, TypeOK
<1>2. \A f \in Fd : m_hdls'[f] = IF f \in gone THEN NoObj ELSE m_hdls[f]
  BY DEF Erase
<1>3. m_hdls' \in [Fd -> OptObj(Obj)]
  BY <1>1 DEF Erase, OptObj
<1>4. \A f \in Fd : m_hdls'[f] # NoObj => m_fd_result[m_hdls'[f]] = f
  BY <1>2 DEF Inv, Registry
<1>5. \A f \in Fd : m_hdls'[f] # NoObj <=> f \in interest \ gone
  BY <1>2 DEF Inv, Registry
<1>6. OwnersDistinct(m_fd_result)
  BY DEF Inv, Registry
<1>7. /\ m_fd_result' \in [Obj -> Fd \cup {NoFd}]
      /\ interest' \subseteq Fd /\ ready' \subseteq Fd /\ pending' \subseteq Conn
      /\ \A f \in Fd : m_hdls'[f] # NoObj <=> f \in interest'
      /\ \A f \in Fd : m_hdls'[f] # NoObj => m_fd_result'[m_hdls'[f]] = f
      /\ OwnersDistinct(m_fd_result')
  BY <1>1, <1>3, <1>4, <1>5, <1>6, SettleKeepsRegistry
<1>8. \A o \in Obj : Registered(o) /\ (\A f \in gone : m_hdls[f] # o)
                      => Registered(o)'
  BY <1>2 DEF Registered
<1>9. Registry'
  <2>1. ASSUME NEW c \in m_connected' PROVE Registered(c)'
    BY <1>1, <1>8 DEF Inv, Registry, Obj, Conn
  <2> QED  BY <1>7, <2>1 DEF Registry
<1>10. TimeoutsAreForAttempts'
  <2> SUFFICES ASSUME NEW t \in Timer, m_timeout_cb'[t] # NoObj
               PROVE  /\ Registered(t)'
                      /\ \A f \in Fd : m_hdls'[f] = m_timeout_cb'[t] =>
                           /\ m_hdls'[f] \in CConn \ m_connected'
                           /\ m_timer_hdl'[f] = t
    BY DEF TimeoutsAreForAttempts, Connecting
  <2>1. m_timeout_cb[t] # NoObj /\ m_timeout_cb'[t] = m_timeout_cb[t]
    OBVIOUS
  <2>2. Registered(t)'
    BY <1>8, <2>1 DEF Inv, TimeoutsAreForAttempts, Obj
  <2>3. ASSUME NEW f \in Fd, m_hdls'[f] = m_timeout_cb'[t]
        PROVE  m_hdls'[f] \in CConn \ m_connected' /\ m_timer_hdl'[f] = t
    <3>1. f \notin gone /\ m_hdls'[f] = m_hdls[f]
      BY <1>2, <2>3
    <3>2. Connecting(m_hdls[f]) /\ m_timer_hdl[f] = t
      BY <2>1, <2>3, <3>1 DEF Inv, TimeoutsAreForAttempts
    <3> QED  BY <3>1, <3>2 DEF Connecting
  <2> QED  BY <2>2, <2>3
<1> QED  BY <1>3, <1>7, <1>9, <1>10

\* EventLoop::add: whatever fails on the way, the map stays consistent, and the
\* new timer is armed only for the attempt it was made for.
LEMMA AddKeeps ==
  ASSUME Inv, NEW c \in Fresh(CConn), NEW t \in Fresh(Timer) \cup {NoObj},
         NEW gone \in SUBSET Fd,
         \A f \in gone : Connecting(m_hdls[f]),
         Add(c, t, Erase(m_hdls, gone), Erase(m_timer_hdl, gone),
             interest \ gone),
         UNCHANGED m_connected
  PROVE  /\ Registry' /\ TimeoutsAreForAttempts'
         /\ m_hdls' \in [Fd -> OptObj(Obj)]
         /\ m_timer_hdl' \in [Fd -> OptObj(Timer)]
         /\ m_timeout_cb' \in [Timer -> OptObj(CConn)]
         /\ m_fd_result' \in [Obj -> Fd \cup {NoFd}]
         /\ interest' \subseteq Fd /\ ready' \subseteq Fd /\ pending' \subseteq Conn
         /\ \A o \in Obj : Registered(o) /\ ~Connecting(o) => Registered(o)'
         /\ \A f \in Fd \ gone : m_hdls[f] # NoObj => m_hdls'[f] = m_hdls[f]
         /\ Owned' /\ (ListenerListed => ListenerListed') /\ (WeakRefs => WeakRefs')
<1> USE ObjAssumption
<1>1. /\ m_hdls \in [Fd -> OptObj(Obj)]
      /\ m_timer_hdl \in [Fd -> OptObj(Timer)]
      /\ m_timeout_cb \in [Timer -> OptObj(CConn)]
      /\ m_fd_result \in [Obj -> Fd \cup {NoFd}]
      /\ ready \in SUBSET Fd /\ pending \in SUBSET Conn
      /\ m_connected \subseteq CConn
      /\ interest \subseteq Fd
  BY DEF Inv, TypeOK
<1>2. /\ c \in CConn /\ c \in Obj /\ ~Registered(c)
      /\ \A u \in Timer : m_timeout_cb[u] # c
  BY DEF Fresh, Referenced, Obj, Conn
<1>3. t # NoObj => t \in Timer /\ t \in Obj /\ ~Registered(t)
  BY DEF Fresh, Referenced, Obj
<1>4. c # t
  BY <1>2, <1>3 DEF Conn, Obj
<1>5. PICK co \in Opened(m_fd_result) :
        \E to \in IF t = NoObj THEN {NoFd}
                  ELSE Opened([m_fd_result EXCEPT ![c] = co]) :
          \E cr \in {NoFd, co}, tr \in {NoFd, to} :
            /\ m_hdls' = [f \in Fd |-> IF f = cr THEN c
                            ELSE IF f = tr THEN t ELSE Erase(m_hdls, gone)[f]]
            /\ m_timer_hdl' = [f \in Fd |-> IF f = cr /\ tr # NoFd THEN t
                                            ELSE Erase(m_timer_hdl, gone)[f]]
            /\ m_timeout_cb' = [u \in Timer |-> IF u = t /\ tr # NoFd THEN c
                                                ELSE m_timeout_cb[u]]
            /\ Settle([o \in Obj |-> IF o = t THEN to
                         ELSE [m_fd_result EXCEPT ![c] = co][o]],
                      (interest \ gone) \cup ({cr, tr} \ {NoFd}), ready, pending)
  BY DEF Add, Captured
<1> DEFINE fds1 == [m_fd_result EXCEPT ![c] = co]
<1>6. PICK to \in IF t = NoObj THEN {NoFd} ELSE Opened(fds1) :
          \E cr \in {NoFd, co}, tr \in {NoFd, to} :
            /\ m_hdls' = [f \in Fd |-> IF f = cr THEN c
                            ELSE IF f = tr THEN t ELSE Erase(m_hdls, gone)[f]]
            /\ m_timer_hdl' = [f \in Fd |-> IF f = cr /\ tr # NoFd THEN t
                                            ELSE Erase(m_timer_hdl, gone)[f]]
            /\ m_timeout_cb' = [u \in Timer |-> IF u = t /\ tr # NoFd THEN c
                                                ELSE m_timeout_cb[u]]
            /\ Settle([o \in Obj |-> IF o = t THEN to ELSE fds1[o]],
                      (interest \ gone) \cup ({cr, tr} \ {NoFd}), ready, pending)
  BY <1>5
<1>7. PICK cr \in {NoFd, co}, tr \in {NoFd, to} :
            /\ m_hdls' = [f \in Fd |-> IF f = cr THEN c
                            ELSE IF f = tr THEN t ELSE Erase(m_hdls, gone)[f]]
            /\ m_timer_hdl' = [f \in Fd |-> IF f = cr /\ tr # NoFd THEN t
                                            ELSE Erase(m_timer_hdl, gone)[f]]
            /\ m_timeout_cb' = [u \in Timer |-> IF u = t /\ tr # NoFd THEN c
                                                ELSE m_timeout_cb[u]]
            /\ Settle([o \in Obj |-> IF o = t THEN to ELSE fds1[o]],
                      (interest \ gone) \cup ({cr, tr} \ {NoFd}), ready, pending)
  BY <1>6
<1> DEFINE fds == [o \in Obj |-> IF o = t THEN to ELSE fds1[o]]
           listed == (interest \ gone) \cup ({cr, tr} \ {NoFd})
\* The two descriptors are different and were owned by nobody.
<1>8. /\ co \in Fd \cup {NoFd} /\ (co # NoFd => \A o \in Obj : m_fd_result[o] # co)
      /\ to \in Fd \cup {NoFd} /\ (to # NoFd => t # NoObj /\ to # co
                                     /\ \A o \in Obj : o # c => m_fd_result[o] # to)
  <2>1. /\ co \in Fd \cup {NoFd}
        /\ co # NoFd => \A o \in Obj : m_fd_result[o] # co
    BY DEF Opened, Lowest, OpenFds
  <2>2. fds1 \in [Obj -> Fd \cup {NoFd}] /\ fds1[c] = co
    BY <1>1, <1>2, <2>1
  <2>3. ASSUME to # NoFd
        PROVE  t # NoObj /\ to \in Fd /\ to # co
               /\ \A o \in Obj : o # c => m_fd_result[o] # to
    <3>1. t # NoObj /\ to \in Opened(fds1)
      BY <2>3
    <3>2. to \in Fd /\ \A o \in Obj : fds1[o] # to
      BY <2>3, <3>1 DEF Opened, Lowest, OpenFds
    <3> QED  BY <1>1, <1>2, <2>2, <3>1, <3>2
  <2> QED  BY <2>1, <2>3
<1>9. /\ fds \in [Obj -> Fd \cup {NoFd}]
      /\ fds[c] = co /\ (t # NoObj => fds[t] = to)
      /\ \A o \in Obj : o # c /\ o # t => fds[o] = m_fd_result[o]
  BY <1>1, <1>2, <1>3, <1>4, <1>8
<1>10. OwnersDistinct(fds)
  BY <1>8, <1>9, <1>2, <1>3, <1>4 DEF Inv, Registry, OwnersDistinct
\* An entry that was there stays, unless erased: its descriptor is not free.
<1>11. \A f \in Fd : m_hdls[f] # NoObj /\ f \notin gone =>
         /\ f # cr /\ f # tr /\ m_hdls'[f] = m_hdls[f]
         /\ m_timer_hdl'[f] = m_timer_hdl[f]
         /\ m_hdls[f] # c /\ m_hdls[f] # t /\ m_hdls[f] \in Obj
  <2> SUFFICES ASSUME NEW f \in Fd, m_hdls[f] # NoObj, f \notin gone
               PROVE  /\ f # cr /\ f # tr /\ m_hdls'[f] = m_hdls[f]
                      /\ m_timer_hdl'[f] = m_timer_hdl[f]
                      /\ m_hdls[f] # c /\ m_hdls[f] # t /\ m_hdls[f] \in Obj
    OBVIOUS
  <2>1. m_hdls[f] \in Obj /\ m_hdls[f] # c /\ m_hdls[f] # t
    BY <1>1, <1>2, <1>3 DEF OptObj, Registered
  <2>2. m_fd_result[m_hdls[f]] = f
    BY DEF Inv, Registry
  <2>3. f # cr /\ f # tr
    BY <1>7, <1>8, <2>1, <2>2, NatAssumption DEF NoFd, Fd
  <2> QED  BY <1>7, <2>1, <2>3 DEF Erase
<1>12. \A f \in Fd : m_hdls'[f] # NoObj =>
         \/ f = cr /\ cr # NoFd /\ m_hdls'[f] = c
         \/ f = tr /\ tr # NoFd /\ f # cr /\ m_hdls'[f] = t /\ t # NoObj
         \/ m_hdls[f] # NoObj /\ f \notin gone
  BY <1>7, NatAssumption DEF Erase, NoFd, Fd
<1>13. /\ m_hdls' \in [Fd -> OptObj(Obj)]
       /\ m_timer_hdl' \in [Fd -> OptObj(Timer)]
       /\ m_timeout_cb' \in [Timer -> OptObj(CConn)]
  BY <1>1, <1>2, <1>3, <1>7 DEF Erase, OptObj
<1>14. \A f \in Fd : m_hdls'[f] # NoObj => fds[m_hdls'[f]] = f
  BY <1>7, <1>9, <1>11, <1>12 DEF Inv, Registry
<1>15. \A f \in Fd : m_hdls'[f] # NoObj <=> f \in listed
  <2>1. \A f \in Fd : f \in {cr, tr} \ {NoFd} => m_hdls'[f] # NoObj
    BY <1>2, <1>3, <1>7, <1>8
  <2> QED  BY <1>11, <1>12, <2>1 DEF Inv, Registry
<1>16. /\ m_fd_result' \in [Obj -> Fd \cup {NoFd}]
       /\ interest' \subseteq Fd /\ ready' \subseteq Fd /\ pending' \subseteq Conn
       /\ \A f \in Fd : m_hdls'[f] # NoObj <=> f \in interest'
       /\ \A f \in Fd : m_hdls'[f] # NoObj => m_fd_result'[m_hdls'[f]] = f
       /\ OwnersDistinct(m_fd_result')
  BY <1>1, <1>7, <1>9, <1>10, <1>13, <1>14, <1>15, SettleKeepsRegistry
<1>17. \A o \in Obj : Registered(o) /\ ~Connecting(o) => Registered(o)'
  BY <1>11, ObjAssumption DEF Registered
<1>18. Registry'
  BY <1>16, <1>1, <1>17 DEF Inv, Registry, Connecting, Obj, Conn
<1>19. TimeoutsAreForAttempts'
  <2> SUFFICES ASSUME NEW u \in Timer, m_timeout_cb'[u] # NoObj
               PROVE  /\ Registered(u)'
                      /\ \A f \in Fd : m_hdls'[f] = m_timeout_cb'[u] =>
                           /\ m_hdls'[f] \in CConn \ m_connected
                           /\ m_timer_hdl'[f] = u
    BY DEF TimeoutsAreForAttempts, Connecting
  <2>1. CASE u = t /\ tr # NoFd
    <3>1. m_timeout_cb'[u] = c
      BY <1>7, <2>1
    <3>2. tr \in Fd /\ tr # cr /\ m_hdls'[tr] = t
      BY <1>7, <1>8, <2>1
    <3>3. c \notin m_connected
      BY <1>2 DEF Inv, Registry
    <3>4. \A f \in Fd : m_hdls'[f] = c => f = cr
      BY <1>2, <1>4, <1>11, <1>12 DEF OptObj
    <3> QED  BY <1>2, <1>7, <2>1, <3>1, <3>2, <3>3, <3>4 DEF Registered
  <2>2. CASE ~(u = t /\ tr # NoFd)
    <3>1. m_timeout_cb'[u] = m_timeout_cb[u] /\ m_timeout_cb[u] # c
      BY <1>2, <1>7, <2>2
    <3>2. Registered(u)'
      <4>1. Registered(u) /\ u \in Obj /\ ~Connecting(u)
        BY <3>1 DEF Inv, TimeoutsAreForAttempts, Obj, Conn, Connecting
      <4> QED  BY <1>17, <4>1
    <3>3. ASSUME NEW f \in Fd, m_hdls'[f] = m_timeout_cb'[u]
          PROVE  m_hdls'[f] \in CConn \ m_connected /\ m_timer_hdl'[f] = u
      <4>1. m_timeout_cb[u] \in CConn
        BY <1>1, <3>1 DEF OptObj
      <4>2. m_hdls[f] = m_timeout_cb[u] /\ m_timer_hdl'[f] = m_timer_hdl[f]
        BY <1>3, <1>11, <1>12, <3>1, <3>3, <4>1 DEF Conn
      <4> QED  BY <3>1, <3>3, <4>2 DEF Inv, TimeoutsAreForAttempts, Connecting
    <3> QED  BY <3>2, <3>3
  <2> QED  BY <2>1, <2>2
<1>20. \A o \in Obj : m_fd_result'[o] # NoFd => Referenced(o)' /\ fds[o] # NoFd
  BY <1>7 DEF Settle
<1>21. Owned' /\ (ListenerListed => ListenerListed')
  <2>1. Listener \in Obj /\ Listener # c /\ Listener # t /\ ~Connecting(Listener)
    BY <1>2, <1>3 DEF Obj, Conn, Connecting
  <2> QED  BY <1>9, <1>17, <1>20, <2>1 DEF Owned, ListenerListed
<1>22. ASSUME WeakRefs PROVE WeakRefs'
  <2> SUFFICES ASSUME NEW f \in Fd, m_timer_hdl'[f] # NoObj
               PROVE  /\ m_hdls'[f] # NoObj
                      /\ \E h \in Fd : m_hdls'[h] = m_timer_hdl'[f]
                      /\ m_timeout_cb'[m_timer_hdl'[f]] \in {NoObj, m_hdls'[f]}
    BY DEF WeakRefs, Registered
  <2>1. CASE f = cr /\ tr # NoFd
    <3>1. m_timer_hdl'[f] = t /\ m_hdls'[f] = c /\ t # NoObj
      BY <1>7, <1>8, <2>1
    <3>2. tr \in Fd /\ tr # cr /\ m_hdls'[tr] = t
      BY <1>7, <1>8, <2>1
    <3>3. m_timeout_cb'[t] = c
      BY <1>3, <1>7, <2>1, <3>1
    <3> QED  BY <1>2, <3>1, <3>2, <3>3 DEF Registered
  <2>2. CASE ~(f = cr /\ tr # NoFd)
    <3>1. f \notin gone /\ m_timer_hdl'[f] = m_timer_hdl[f]
      BY <1>7, <2>2 DEF Erase
    <3>2. /\ m_hdls[f] # NoObj /\ Registered(m_timer_hdl[f])
          /\ m_timeout_cb[m_timer_hdl[f]] \in {NoObj, m_hdls[f]}
      BY <1>22, <3>1 DEF WeakRefs
    <3>3. m_timer_hdl[f] \in Timer /\ m_timer_hdl[f] # t
      BY <1>1, <1>3, <3>1, <3>2 DEF OptObj
    <3>4. \E h \in Fd : m_hdls'[h] = m_timer_hdl[f]
      BY <1>17, <3>2, <3>3 DEF Obj, Conn, Connecting, Registered
    <3>5. m_timeout_cb'[m_timer_hdl[f]] = m_timeout_cb[m_timer_hdl[f]]
      BY <1>7, <3>3
    <3> QED  BY <1>11, <3>1, <3>2, <3>4, <3>5
  <2> QED  BY <2>1, <2>2
<1> QED  BY <1>11, <1>13, <1>16, <1>17, <1>18, <1>19, <1>21, <1>22

-----------------------------------------------------------------------------
(* The inductive step, one lemma per action that changes the map *)

LEMMA ListenKeeps == ASSUME Inv, Listen PROVE Inv'
<1> USE ObjAssumption, NatAssumption
<1>1. PICK f \in Lowest(FreeFds) :
        /\ m_hdls' = [m_hdls EXCEPT ![f] = Listener]
        /\ m_fd_result' = [m_fd_result EXCEPT ![Listener] = f]
        /\ interest' = interest \cup {f}
  BY DEF Listen
<1>2. f \in Fd /\ f \in FreeFds /\ Listener \in Obj
      /\ Listener \notin Timer /\ Listener \notin CConn
  BY DEF Lowest, FreeFds, Obj, Conn
<1>3. ~Registered(Listener)
  BY <1>2 DEF Listen, Inv, Registry, Registered, Fd, NoFd, Obj
<1>4. Registry' /\ TimeoutsAreForAttempts'
  BY <1>1, <1>2, <1>3, EnterKeeps DEF Listen
<1>5. TypeOK'
  BY <1>1, <1>2 DEF Listen, Inv, TypeOK, OptObj
<1> QED  BY <1>4, <1>5 DEF Inv

LEMMA ConnectKeeps == ASSUME Inv, NEW timed \in BOOLEAN, Connect(timed) PROVE Inv'
<1>1. PICK c \in Fresh(CConn), t \in NewTimer(timed) :
        Add(c, t, m_hdls, m_timer_hdl, interest)
  BY DEF Connect
<1>2. t \in Fresh(Timer) \cup {NoObj}
  BY DEF NewTimer
<1>3. /\ Erase(m_hdls, {}) = m_hdls
      /\ Erase(m_timer_hdl, {}) = m_timer_hdl
      /\ interest \ {} = interest
  BY DEF Inv, TypeOK, Erase
<1>4. Add(c, t, Erase(m_hdls, {}), Erase(m_timer_hdl, {}), interest \ {})
  BY <1>1, <1>3, Zenon
<1>5. /\ Registry' /\ TimeoutsAreForAttempts'
      /\ m_hdls' \in [Fd -> OptObj(Obj)]
      /\ m_timer_hdl' \in [Fd -> OptObj(Timer)]
      /\ m_timeout_cb' \in [Timer -> OptObj(CConn)]
      /\ m_fd_result' \in [Obj -> Fd \cup {NoFd}]
      /\ interest' \subseteq Fd /\ ready' \subseteq Fd /\ pending' \subseteq Conn
  BY <1>2, <1>4, AddKeeps DEF Connect
<1> QED  BY <1>5 DEF Connect, Inv, TypeOK

LEMMA RetryKeeps == ASSUME Inv, NEW f \in Fd, Retry(f) PROVE Inv'
<1>1. PICK c \in Fresh(CConn), t \in NewTimer(m_timer_hdl[f] # NoObj) :
        Add(c, t, Erase(m_hdls, {f}), Erase(m_timer_hdl, {f}), interest \ {f})
  BY DEF Retry
<1>2. t \in Fresh(Timer) \cup {NoObj}
  BY DEF NewTimer
<1>3. \A g \in {f} : Connecting(m_hdls[g])
  BY DEF Retry
<1>4. /\ Registry' /\ TimeoutsAreForAttempts'
      /\ m_hdls' \in [Fd -> OptObj(Obj)]
      /\ m_timer_hdl' \in [Fd -> OptObj(Timer)]
      /\ m_timeout_cb' \in [Timer -> OptObj(CConn)]
      /\ m_fd_result' \in [Obj -> Fd \cup {NoFd}]
      /\ interest' \subseteq Fd /\ ready' \subseteq Fd /\ pending' \subseteq Conn
  BY <1>1, <1>2, <1>3, AddKeeps DEF Retry
<1> QED  BY <1>4 DEF Retry, Take, Inv, TypeOK, OptObj

LEMMA AcceptOneKeeps == ASSUME Inv, AcceptOne PROVE Inv'
<1> USE ObjAssumption, NatAssumption
<1>1. PICK c \in Fresh(SConn), f \in Lowest(FreeFds) :
        /\ m_hdls' = [m_hdls EXCEPT ![f] = c]
        /\ m_timer_hdl' = [m_timer_hdl EXCEPT ![f] = NoObj]
        /\ m_fd_result' = [m_fd_result EXCEPT ![c] = f]
        /\ interest' = interest \cup {f}
        /\ ready' = ready \cup {f}
        /\ pending' = pending \cup {c}
        /\ kept' = IF Keeps THEN kept \cup {c} ELSE kept
  BY DEF AcceptOne, Dequeue, Stored
<1>2. f \in Fd /\ f \in FreeFds
  BY DEF Lowest, FreeFds
<1>3. c \in SConn /\ c \in Obj /\ c \notin Timer /\ c \notin CConn /\ ~Registered(c)
  BY DEF Fresh, Referenced, Obj, Conn
<1>4. \A g \in Fd : g # f => m_timer_hdl'[g] = m_timer_hdl[g]
  BY <1>1 DEF Inv, TypeOK
<1>5. UNCHANGED <<m_timeout_cb, m_connected>>
  BY DEF AcceptOne, Dequeue, Stored
<1>6. Registry' /\ TimeoutsAreForAttempts'
  BY <1>1, <1>2, <1>3, <1>4, <1>5, EnterKeeps
<1>7. backlog' \in 0..MaxBacklog
  BY DEF AcceptOne, Dequeue, Stored, Inv, TypeOK
<1>8. kept' \subseteq SConn
  BY <1>1, <1>3 DEF Inv, TypeOK
<1>9. /\ m_fd_result' \in [Obj -> Fd \cup {NoFd}]
      /\ m_hdls' \in [Fd -> OptObj(Obj)]
      /\ m_timer_hdl' \in [Fd -> OptObj(Timer)]
      /\ interest' \subseteq Fd /\ ready' \subseteq Fd /\ pending' \subseteq Conn
  BY <1>1, <1>2, <1>3 DEF Inv, TypeOK, OptObj, Conn
<1>10. TypeOK'
  BY <1>5, <1>7, <1>8, <1>9 DEF AcceptOne, Dequeue, Stored, Inv, TypeOK
<1> QED  BY <1>6, <1>10 DEF Inv

\* The timeout's epoll_del finds the attempt the callback captured, or nothing:
\* the captured handle keeps its descriptor open, so no other handle has it.
LEMMA TimeoutFindsItsAttempt ==
  ASSUME Inv, NEW t \in Timer
  PROVE  \A g \in TimeoutEntry(t) :
           /\ g \in Fd
           /\ m_hdls[g] = NoObj \/ (m_hdls[g] = m_timeout_cb[t] /\ Connecting(m_hdls[g]))
<1> USE ObjAssumption
<1> SUFFICES ASSUME m_timeout_cb[t] # NoObj,
                    NEW g, g = m_fd_result[m_timeout_cb[t]], g # NoFd
             PROVE  /\ g \in Fd
                    /\ m_hdls[g] # NoObj =>
                         m_hdls[g] = m_timeout_cb[t] /\ Connecting(m_hdls[g])
  BY DEF TimeoutEntry
<1>1. m_timeout_cb[t] \in CConn /\ m_timeout_cb[t] \in Obj
  BY DEF Inv, TypeOK, OptObj, Obj, Conn
<1>2. g \in Fd
  BY <1>1 DEF Inv, TypeOK
<1>3. ASSUME m_hdls[g] # NoObj PROVE m_hdls[g] = m_timeout_cb[t]
  <2>1. m_hdls[g] \in Obj
    BY <1>2, <1>3 DEF Inv, TypeOK, OptObj
  <2>2. m_fd_result[m_hdls[g]] = g
    BY <1>2, <1>3 DEF Inv, Registry
  <2> QED  BY <1>1, <2>1, <2>2 DEF Inv, Registry, OwnersDistinct
<1>4. m_hdls[g] = m_timeout_cb[t] => Connecting(m_hdls[g])
  BY <1>2 DEF Inv, TimeoutsAreForAttempts
<1> QED  BY <1>2, <1>3, <1>4

\* So the timeout erases its attempt, which is not connected, and its own entry.
LEMMA OnTimerKeeps == ASSUME Inv, NEW f \in Fd, OnTimer(f) PROVE Inv'
<1> USE ObjAssumption, NatAssumption
<1> DEFINE t == m_hdls[f]
           gone == {f} \cup TimeoutEntry(t)
<1>1. /\ t \in Timer
      /\ m_hdls' = Erase(m_hdls, gone)
      /\ m_timer_hdl' = Erase(m_timer_hdl,
                              gone \cup {g \in Fd : m_timer_hdl[g] = t})
      /\ m_timeout_cb' = [m_timeout_cb EXCEPT ![t] = NoObj]
      /\ UNCHANGED <<m_connected, kept, backlog, pc>>
      /\ Settle(m_fd_result, interest \ gone, ready, pending)
      /\ events' = [events EXCEPT ![f] = NoObj]
  BY DEF OnTimer, Take
<1>2. /\ m_hdls \in [Fd -> OptObj(Obj)]
      /\ m_timer_hdl \in [Fd -> OptObj(Timer)]
      /\ m_timeout_cb \in [Timer -> OptObj(CConn)]
      /\ m_fd_result \in [Obj -> Fd \cup {NoFd}]
  BY DEF Inv, TypeOK
<1>3. \A g \in TimeoutEntry(t) :
        /\ g \in Fd
        /\ m_hdls[g] = NoObj \/ (m_hdls[g] = m_timeout_cb[t] /\ Connecting(m_hdls[g]))
  BY <1>1, TimeoutFindsItsAttempt
<1>4. gone \in SUBSET Fd
  BY <1>3
<1>5. /\ \A u \in Timer : m_timeout_cb'[u] \in {m_timeout_cb[u], NoObj}
      /\ m_timeout_cb'[t] = NoObj
  BY <1>1, <1>2
<1>6. ASSUME NEW u \in Timer, m_timeout_cb'[u] # NoObj
      PROVE  /\ \A g \in gone : m_hdls[g] # u
             /\ \A g \in Fd \ gone : m_timer_hdl[g] = u => m_timer_hdl'[g] = u
  <2>1. u # t
    BY <1>5, <1>6
  <2>2. \A g \in gone : m_hdls[g] # u
    BY <1>3, <2>1 DEF Connecting, Conn, Obj
  <2> QED  BY <1>1, <2>1, <2>2 DEF Erase
<1>7. \A g \in gone : m_hdls[g] \notin m_connected'
  BY <1>1, <1>3 DEF Connecting, Inv, TypeOK, Conn, Obj
<1>8. m_timer_hdl' \in [Fd -> OptObj(Timer)]
  BY <1>1, <1>2 DEF Erase, OptObj
<1>9. /\ Registry' /\ TimeoutsAreForAttempts'
      /\ m_hdls' \in [Fd -> OptObj(Obj)]
      /\ m_fd_result' \in [Obj -> Fd \cup {NoFd}]
      /\ interest' \subseteq Fd /\ ready' \subseteq Fd /\ pending' \subseteq Conn
  BY <1>1, <1>4, <1>5, <1>6, <1>7, <1>8, EraseKeeps
<1> QED  BY <1>1, <1>8, <1>9 DEF Inv, TypeOK, OptObj

LEMMA RemoveKeeps ==
  ASSUME Inv, NEW f \in Fd, NEW cbs, Remove(f, cbs), m_hdls[f] \in Conn,
         cbs = m_timeout_cb \/ cbs = Disabled(f),
         m_connected' \subseteq m_connected, m_hdls[f] \notin m_connected',
         UNCHANGED <<kept, backlog, pc>>, Take(f)
  PROVE  Inv'
<1> USE ObjAssumption
<1>1. /\ m_hdls' = Erase(m_hdls, {f})
      /\ m_timer_hdl' = Erase(m_timer_hdl, {f})
      /\ m_timeout_cb' = cbs
      /\ Settle(m_fd_result, interest \ {f}, ready, pending)
  BY DEF Remove
<1>2. /\ m_timer_hdl' \in [Fd -> OptObj(Timer)]
      /\ m_timeout_cb' \in [Timer -> OptObj(CConn)]
  BY <1>1 DEF Inv, TypeOK, Erase, OptObj, Disabled
<1>3. \A t \in Timer : m_timeout_cb'[t] \in {m_timeout_cb[t], NoObj}
  BY <1>1 DEF Disabled
<1>4. \A t \in Timer : m_timeout_cb'[t] # NoObj =>
        /\ \A g \in {f} : m_hdls[g] # t
        /\ \A g \in Fd \ {f} : m_timer_hdl[g] = t => m_timer_hdl'[g] = t
  BY <1>1 DEF Erase
<1>5. \A g \in {f} : m_hdls[g] \notin m_connected'
  OBVIOUS
<1>6. /\ Registry' /\ TimeoutsAreForAttempts'
      /\ m_hdls' \in [Fd -> OptObj(Obj)]
      /\ m_fd_result' \in [Obj -> Fd \cup {NoFd}]
      /\ interest' \subseteq Fd /\ ready' \subseteq Fd /\ pending' \subseteq Conn
  BY <1>1, <1>2, <1>3, <1>4, <1>5, EraseKeeps, SMTT(60)
<1> QED  BY <1>2, <1>6 DEF Take, Inv, TypeOK, OptObj

LEMMA EstablishedKeeps == ASSUME Inv, NEW f \in Fd, Established(f) PROVE Inv'
<1> USE ObjAssumption
<1>1. m_hdls[f] \in CConn \ m_connected /\ m_hdls[f] \in Conn
  BY DEF Established, Connecting, Conn
<1>2. CASE Remove(f, Disabled(f)) /\ UNCHANGED m_connected
  BY <1>1, <1>2, RemoveKeeps DEF Established
<1>3. CASE /\ m_connected' = m_connected \cup {m_hdls[f]}
           /\ m_timeout_cb' = Disabled(f)
           /\ pending' = Seen(f)
           /\ UNCHANGED <<m_fd_result, m_hdls, m_timer_hdl, interest, ready>>
  <2>1. TypeOK'
    BY <1>1, <1>3 DEF Established, Take, Inv, TypeOK, OptObj, Disabled, Seen
  <2>2. Registry'
    BY <1>1, <1>3 DEF Inv, Registry, OwnersDistinct, Registered
  <2>3. ASSUME NEW t \in Timer, m_timeout_cb'[t] # NoObj
        PROVE  /\ Registered(t)'
               /\ \A g \in Fd : m_hdls[g] = m_timeout_cb'[t] =>
                    /\ m_hdls[g] \in CConn \ m_connected'
                    /\ m_timer_hdl[g] = t
    <3>1. t # m_timer_hdl[f] /\ m_timeout_cb'[t] = m_timeout_cb[t]
      BY <1>3, <2>3 DEF Disabled
    <3>2. Registered(t)'
      BY <1>3, <2>3, <3>1 DEF Inv, TimeoutsAreForAttempts, Registered
    <3>3. ASSUME NEW g \in Fd, m_hdls[g] = m_timeout_cb'[t]
          PROVE  m_hdls[g] \in CConn \ m_connected' /\ m_timer_hdl[g] = t
      <4>1. m_hdls[g] \in CConn \ m_connected /\ m_timer_hdl[g] = t
        BY <2>3, <3>1, <3>3 DEF Inv, TimeoutsAreForAttempts, Connecting
      <4>2. m_hdls[g] # m_hdls[f]
        BY <2>3, <3>1, <3>3, <4>1 DEF Inv, TimeoutsAreForAttempts
      <4> QED  BY <1>3, <4>1, <4>2
    <3> QED  BY <3>2, <3>3
  <2>4. TimeoutsAreForAttempts'
    BY <1>3, <2>3 DEF TimeoutsAreForAttempts, Connecting
  <2> QED  BY <2>1, <2>2, <2>4 DEF Inv
<1> QED  BY <1>2, <1>3 DEF Established

\* The steps that leave the map, the owners and the interest list alone.
LEMMA QuietKeeps ==
  ASSUME Inv,
         \/ StartLoop \/ Kernel \/ BatchDone \/ AcceptDropped \/ AcceptDone
         \/ \E batch \in SUBSET Fd : EpollWait(batch)
         \/ \E f \in Fd : NotInList(f) \/ OnListener(f) \/ Served(f)
         \/ UNCHANGED vars
  PROVE  Inv'
<1> USE ObjAssumption, NatAssumption
<1>1. Registry' /\ TimeoutsAreForAttempts'
  <2>1. UNCHANGED <<m_fd_result, loopVars, m_connected, interest>>
    BY DEF StartLoop, Kernel, Arrive, Raise, Expire, BatchDone, AcceptDropped, Dequeue,
           AcceptDone, EpollWait, NotInList, OnListener, Served, vars, kernelVars
  <2> QED  BY <2>1, SameMap
<1>2. TypeOK'
  <2>1. CASE StartLoop \/ BatchDone
    BY <2>1 DEF StartLoop, BatchDone, LoopTest, Inv, TypeOK, loopVars, kernelVars
  <2>2. CASE AcceptDropped \/ AcceptDone
    BY <2>2 DEF AcceptDropped, Dequeue, AcceptDone, Inv, TypeOK, loopVars, kernelVars
  <2>3. CASE Kernel
    <3>1. CASE Arrive
      <4>1. m_fd_result[Listener] \in Fd
        BY <3>1 DEF Arrive, Registered, Inv, Registry, Obj
      <4> QED  BY <3>1, <4>1 DEF Arrive, Inv, TypeOK, loopVars
    <3>2. ASSUME NEW c \in Conn, Raise(c) PROVE TypeOK'
      <4>1. m_fd_result[c] \in Fd
        BY <3>2 DEF Raise, Registered, Inv, Registry, Obj
      <4> QED  BY <3>2, <4>1 DEF Raise, Inv, TypeOK, loopVars
    <3>3. ASSUME NEW t \in Timer, Expire(t) PROVE TypeOK'
      <4>1. m_fd_result[t] \in Fd
        BY <3>3 DEF Expire, Registered, Inv, Registry, Obj
      <4> QED  BY <3>3, <4>1 DEF Expire, Inv, TypeOK, loopVars
    <3> QED  BY <2>3, <3>1, <3>2, <3>3 DEF Kernel
  <2>4. ASSUME NEW batch \in SUBSET Fd, EpollWait(batch) PROVE TypeOK'
    BY <2>4 DEF EpollWait, Inv, TypeOK, OptObj, loopVars
  <2>5. ASSUME NEW f \in Fd, NotInList(f) \/ OnListener(f) \/ Served(f)
        PROVE  TypeOK'
    BY <2>5 DEF NotInList, OnListener, Served, Take, Seen, Inv, TypeOK, OptObj,
                loopVars, kernelVars
  <2>6. CASE UNCHANGED vars
    BY <2>6 DEF vars, Inv, TypeOK, loopVars, kernelVars
  <2> QED  BY <2>1, <2>2, <2>3, <2>4, <2>5, <2>6
<1> QED  BY <1>1, <1>2 DEF Inv

LEMMA NextInv == Inv /\ [Next]_vars => Inv'
<1> SUFFICES ASSUME Inv, [Next]_vars PROVE Inv'
  OBVIOUS
<1>1. CASE Listen
  BY <1>1, ListenKeeps
<1>2. ASSUME NEW timed \in BOOLEAN, Connect(timed) PROVE Inv'
  BY <1>2, ConnectKeeps
<1>3. CASE AcceptOne
  BY <1>3, AcceptOneKeeps
<1>4. ASSUME NEW f \in Fd, OnTimer(f) PROVE Inv'
  BY <1>4, OnTimerKeeps
<1>5. ASSUME NEW f \in Fd, OnConnection(f), ~Served(f) PROVE Inv'
  <2>1. CASE Closed(f)
    BY <2>1, RemoveKeeps DEF Closed
  <2>2. CASE Established(f)
    BY <2>2, EstablishedKeeps
  <2>3. CASE Failed(f)
    BY <2>3, RemoveKeeps DEF Failed, Connecting, Conn
  <2>4. CASE Retry(f)
    BY <2>4, RetryKeeps
  <2> QED  BY <1>5, <2>1, <2>2, <2>3, <2>4 DEF OnConnection
<1>6. CASE \/ StartLoop \/ Kernel \/ BatchDone \/ AcceptDropped \/ AcceptDone
           \/ \E batch \in SUBSET Fd : EpollWait(batch)
           \/ \E f \in Fd : NotInList(f) \/ OnListener(f) \/ Served(f)
           \/ UNCHANGED vars
  BY <1>6, QuietKeeps
<1> QED  BY <1>1, <1>2, <1>3, <1>4, <1>5, <1>6
         DEF Next, Dispatch, Accept, AcceptExhausted, Terminated, OnConnection

-----------------------------------------------------------------------------
(* Theorems *)

THEOREM Invariance == Spec => []Inv
<1>1. Init => Inv
  BY InitInv
<1>2. Inv /\ [Next]_vars => Inv'
  BY NextInv
<1> QED  BY <1>1, <1>2, PTL DEF Spec

\* Every variable keeps its type, for every bound.
THEOREM TypeCorrect == Spec => []TypeOK
<1>1. Inv => TypeOK
  BY DEF Inv
<1> QED  BY <1>1, Invariance, PTL

\* The loop's map, the epoll interest list and the ownership of descriptors
\* never come apart: no entry of a closed descriptor, no descriptor with two
\* owners, no watched descriptor without a handle (event_loop.cpp:75-130).
THEOREM RegistryConsistent == Spec => []Registry
<1>1. Inv => Registry
  BY DEF Inv
<1> QED  BY <1>1, Invariance, PTL

\* An armed Timer is watched, and the registered connection it would remove is
\* the attempt whose entry points back to it: an established connection is
\* never removed by a timeout (event_loop.cpp:58-72, client.cpp:109-166).
THEOREM TimeoutsOnlyHitAttempts == Spec => []TimeoutsAreForAttempts
<1>1. Inv => TimeoutsAreForAttempts
  BY DEF Inv
<1> QED  BY <1>1, Invariance, PTL

-----------------------------------------------------------------------------
(* No readiness is lost.  What has to be known besides Inv: what is pending  *)
(* is registered, and between batches no event is left over, so that         *)
(* epoll_wait overwrites none.                                               *)

EdgeInv ==
  /\ \A c \in pending : Registered(c)
  /\ backlog > 0 => Registered(Listener)
  /\ pc \notin {"batch", "accept"} => \A f \in Fd : events[f] = NoObj
  /\ NoLostEdge

LEMMA InitEdge == Init => EdgeInv
  BY DEF Init, EdgeInv, NoLostEdge

\* A registered handle has a descriptor, and the entry there is its own.
LEMMA RegisteredAt ==
  ASSUME Inv, NEW o \in Obj, Registered(o)
  PROVE  /\ m_fd_result[o] \in Fd /\ m_hdls[m_fd_result[o]] = o
         /\ m_fd_result[o] \in interest
  BY ObjAssumption DEF Registered, Inv, Registry

\* Handlers that end with destructors: a pending connection that is still
\* registered kept its descriptor, and the event taken from the batch was that
\* of a handle which is no longer registered.
LEMMA SettleKeepsEdges ==
  ASSUME Inv, Inv', EdgeInv, NEW fds, NEW listed,
         Settle(fds, listed, ready, pending),
         \A o \in Obj : Registered(o) => fds[o] = m_fd_result[o],
         \A g \in Fd : events'[g] \in {events[g], NoObj},
         \A g \in Fd : \A o \in Obj :
           m_hdls[g] = o /\ Registered(o)' => events'[g] = events[g],
         Registered(Listener) => Registered(Listener)',
         UNCHANGED <<backlog, pc>>
  PROVE  EdgeInv'
<1> USE ObjAssumption
<1>1. ASSUME NEW o \in Obj, Registered(o), Registered(o)',
             LET f == m_fd_result[o] IN f \in ready \/ events[f] = o
      PROVE  LET f == m_fd_result'[o] IN f \in ready' \/ events'[f] = o
  <2>1. m_fd_result[o] \in Fd /\ m_hdls[m_fd_result[o]] = o
    BY <1>1, RegisteredAt
  <2>2. m_fd_result'[o] = m_fd_result[o]
    BY <1>1 DEF Settle, Referenced
  <2>3. m_fd_result'[o] \in interest'
    BY <1>1 DEF Registered, Inv, Registry
  <2>4. CASE m_fd_result[o] \in ready
    BY <2>2, <2>3, <2>4 DEF Settle
  <2>5. CASE events[m_fd_result[o]] = o
    BY <1>1, <2>1, <2>2, <2>5
  <2> QED  BY <1>1, <2>4, <2>5
<1>2. \A c \in pending' : c \in pending /\ c \in Obj /\ Registered(c) /\ Registered(c)'
  BY DEF Settle, EdgeInv, Inv, TypeOK, Obj
<1>3. ASSUME NEW c \in pending'
      PROVE  LET f == m_fd_result'[c] IN f \in ready' \/ events'[f] = c
  BY <1>1, <1>2 DEF EdgeInv, NoLostEdge
<1>4. backlog' > 0 => /\ Registered(Listener)'
                      /\ LET f == m_fd_result'[Listener] IN
                           f \in ready' \/ events'[f] = Listener \/ pc' = "accept"
  BY <1>1 DEF EdgeInv, NoLostEdge, Obj
<1> QED  BY <1>2, <1>3, <1>4 DEF EdgeInv, NoLostEdge

\* Taking the event of a handle whose on_data returns false.
LEMMA RemoveKeepsEdges ==
  ASSUME Inv, Inv', EdgeInv, NEW f \in Fd, NEW cbs, Take(f), Remove(f, cbs),
         m_hdls[f] \in Conn, UNCHANGED <<backlog, pc>>
  PROVE  EdgeInv'
<1> USE ObjAssumption
<1>1. Settle(m_fd_result, interest \ {f}, ready, pending)
      /\ \A g \in Fd : m_hdls'[g] = IF g = f THEN NoObj ELSE m_hdls[g]
  BY DEF Remove, Erase
<1>2. \A g \in Fd : events'[g] = IF g = f THEN NoObj ELSE events[g]
  BY DEF Take, Inv, TypeOK
<1>3. \A o \in Obj : m_hdls[f] = o => ~Registered(o)'
  BY <1>1 DEF Registered, Inv, Registry
<1>4. Registered(Listener) => Registered(Listener)'
  BY <1>1 DEF Registered
<1> QED  BY <1>1, <1>2, <1>3, <1>4, SettleKeepsEdges

LEMMA OnTimerKeepsEdges ==
  ASSUME Inv, Inv', EdgeInv, NEW f \in Fd, OnTimer(f) PROVE EdgeInv'
<1> USE ObjAssumption
<1> DEFINE gone == {f} \cup TimeoutEntry(m_hdls[f])
<1>1. /\ Settle(m_fd_result, interest \ gone, ready, pending)
      /\ \A g \in Fd : m_hdls'[g] = IF g \in gone THEN NoObj ELSE m_hdls[g]
      /\ m_hdls[f] \in Timer
  BY DEF OnTimer, Erase
<1>2. \A g \in Fd : events'[g] = IF g = f THEN NoObj ELSE events[g]
  BY DEF OnTimer, Take, Inv, TypeOK
<1>3. \A o \in Obj : m_hdls[f] = o => ~Registered(o)'
  BY <1>1 DEF Registered, Inv, Registry
<1>4. ASSUME Registered(Listener) PROVE Registered(Listener)'
  <2>1. PICK g \in Fd : m_hdls[g] = Listener
    BY <1>4 DEF Registered
  <2>2. m_fd_result[Listener] = g
    BY <2>1 DEF Inv, Registry, Obj
  <2>3. g \notin TimeoutEntry(m_hdls[f])
    <3>1. m_timeout_cb[m_hdls[f]] # NoObj =>
            m_timeout_cb[m_hdls[f]] \in Obj \ {Listener}
      BY <1>1 DEF Inv, TypeOK, OptObj, Obj, Conn
    <3>2. m_timeout_cb[m_hdls[f]] # NoObj =>
            m_fd_result[m_timeout_cb[m_hdls[f]]] # g
      BY <2>2, <3>1, NatAssumption DEF Inv, Registry, OwnersDistinct, Obj, Fd, NoFd
    <3> QED  BY <3>2 DEF TimeoutEntry
  <2>4. g # f
    BY <1>1, <2>1
  <2> QED  BY <1>1, <2>1, <2>3, <2>4 DEF Registered
<1> QED  BY <1>1, <1>2, <1>3, <1>4, SettleKeepsEdges DEF OnTimer

\* Connect and Retry: what is fresh is not registered, so nothing registered
\* changes its descriptor; gone is the entry whose event was taken, if any.
LEMMA AddKeepsEdges ==
  ASSUME Inv, Inv', EdgeInv, NEW c \in Fresh(CConn),
         NEW t \in Fresh(Timer) \cup {NoObj}, NEW gone \in SUBSET Fd,
         Add(c, t, Erase(m_hdls, gone), Erase(m_timer_hdl, gone),
             interest \ gone),
         \A f \in gone : m_hdls[f] \in CConn,
         \A g \in Fd : events'[g] = events[g] \/ (g \in gone /\ events'[g] = NoObj),
         UNCHANGED <<backlog, pc>>
  PROVE  EdgeInv'
<1> USE ObjAssumption
<1>1. ~Registered(c) /\ (t # NoObj => ~Registered(t)) /\ c \in CConn
      /\ t \in Timer \cup {NoObj}
  BY DEF Fresh, Referenced
<1>2. PICK co \in Opened(m_fd_result) :
        \E to \in IF t = NoObj THEN {NoFd}
                  ELSE Opened([m_fd_result EXCEPT ![c] = co]) :
          \E cr \in {NoFd, co}, tr \in {NoFd, to} :
            /\ m_hdls' = [f \in Fd |-> IF f = cr THEN c
                            ELSE IF f = tr THEN t ELSE Erase(m_hdls, gone)[f]]
            /\ m_timer_hdl' = [f \in Fd |-> IF f = cr /\ tr # NoFd THEN t
                                            ELSE Erase(m_timer_hdl, gone)[f]]
            /\ m_timeout_cb' = [u \in Timer |-> IF u = t /\ tr # NoFd THEN c
                                                ELSE m_timeout_cb[u]]
            /\ Settle([o \in Obj |-> IF o = t THEN to
                         ELSE [m_fd_result EXCEPT ![c] = co][o]],
                      (interest \ gone) \cup ({cr, tr} \ {NoFd}), ready, pending)
  BY DEF Add, Captured
<1>3. PICK to \in IF t = NoObj THEN {NoFd}
                 ELSE Opened([m_fd_result EXCEPT ![c] = co]) :
          \E cr \in {NoFd, co}, tr \in {NoFd, to} :
            /\ m_hdls' = [f \in Fd |-> IF f = cr THEN c
                            ELSE IF f = tr THEN t ELSE Erase(m_hdls, gone)[f]]
            /\ m_timer_hdl' = [f \in Fd |-> IF f = cr /\ tr # NoFd THEN t
                                            ELSE Erase(m_timer_hdl, gone)[f]]
            /\ m_timeout_cb' = [u \in Timer |-> IF u = t /\ tr # NoFd THEN c
                                                ELSE m_timeout_cb[u]]
            /\ Settle([o \in Obj |-> IF o = t THEN to
                         ELSE [m_fd_result EXCEPT ![c] = co][o]],
                      (interest \ gone) \cup ({cr, tr} \ {NoFd}), ready, pending)
  BY <1>2
<1>4. PICK cr \in {NoFd, co}, tr \in {NoFd, to} :
            /\ m_hdls' = [f \in Fd |-> IF f = cr THEN c
                            ELSE IF f = tr THEN t ELSE Erase(m_hdls, gone)[f]]
            /\ m_timer_hdl' = [f \in Fd |-> IF f = cr /\ tr # NoFd THEN t
                                            ELSE Erase(m_timer_hdl, gone)[f]]
            /\ m_timeout_cb' = [u \in Timer |-> IF u = t /\ tr # NoFd THEN c
                                                ELSE m_timeout_cb[u]]
            /\ Settle([o \in Obj |-> IF o = t THEN to
                         ELSE [m_fd_result EXCEPT ![c] = co][o]],
                      (interest \ gone) \cup ({cr, tr} \ {NoFd}), ready, pending)
  BY <1>3
<1> DEFINE fds == [o \in Obj |-> IF o = t THEN to
                                ELSE [m_fd_result EXCEPT ![c] = co][o]]
           listed == (interest \ gone) \cup ({cr, tr} \ {NoFd})
<1>5. \A o \in Obj : Registered(o) => fds[o] = m_fd_result[o]
  BY <1>1 DEF Inv, TypeOK
<1>6. \A g \in gone : \A o \in Obj : m_hdls[g] = o => ~Registered(o)'
  <2> SUFFICES ASSUME NEW g \in gone, NEW o \in Obj, m_hdls[g] = o,
                      NEW h \in Fd, m_hdls'[h] = o
               PROVE  FALSE
    BY DEF Registered
  <2>1. o # c /\ o # t
    BY <1>1 DEF Registered
  <2>2. h \notin gone /\ m_hdls[h] = o
    BY <1>4, <2>1 DEF Erase, Obj
  <2> QED  BY <2>2 DEF Inv, Registry
<1>7. ASSUME Registered(Listener) PROVE Registered(Listener)'
  <2>1. PICK g \in Fd : m_hdls[g] = Listener
    BY <1>7 DEF Registered
  <2>2. m_fd_result[Listener] = g /\ g # NoFd /\ g \notin gone
    BY <2>1, NatAssumption DEF Inv, Registry, Obj, Conn, Fd, NoFd
  <2>3. g # cr
    BY <1>2, <1>4, <2>2 DEF Opened, Lowest, OpenFds, Obj
  <2>4. g # tr
    <3>1. [m_fd_result EXCEPT ![c] = co][Listener] = g
      BY <1>1, <2>2 DEF Inv, TypeOK, Obj, Conn
    <3> QED  BY <1>3, <1>4, <2>2, <3>1 DEF Opened, Lowest, OpenFds, Obj
  <2> QED  BY <1>4, <2>1, <2>2, <2>3, <2>4 DEF Registered, Erase
<1>8. Settle(fds, listed, ready, pending)
  BY <1>4
<1> QED  BY <1>5, <1>6, <1>7, <1>8, SettleKeepsEdges

LEMMA ListenKeepsEdges == ASSUME Inv, Inv', EdgeInv, Listen PROVE EdgeInv'
<1> USE ObjAssumption, NatAssumption
<1>1. PICK f \in Lowest(FreeFds) :
        /\ m_hdls' = [m_hdls EXCEPT ![f] = Listener]
        /\ m_fd_result' = [m_fd_result EXCEPT ![Listener] = f]
  BY DEF Listen
<1>2. f \in FreeFds
  BY DEF Lowest
<1>3. m_hdls[f] = NoObj
  BY <1>2 DEF FreeFds, OpenFds, Inv, Registry, TypeOK, OptObj, Fd, NoFd
<1>4. ~Registered(Listener)
  BY DEF Listen, Inv, Registry, Registered, Fd, NoFd, Obj
<1>5. \A c \in pending : m_fd_result'[c] = m_fd_result[c] /\ Registered(c)'
  BY <1>1, <1>3 DEF EdgeInv, Registered, Inv, TypeOK, Obj, Conn
<1> QED  BY <1>4, <1>5 DEF Listen, EdgeInv, NoLostEdge, Inv, TypeOK

LEMMA AcceptOneKeepsEdges == ASSUME Inv, Inv', EdgeInv, AcceptOne PROVE EdgeInv'
<1> USE ObjAssumption, NatAssumption
<1>1. PICK c \in Fresh(SConn), f \in Lowest(FreeFds) :
        /\ m_hdls' = [m_hdls EXCEPT ![f] = c]
        /\ m_fd_result' = [m_fd_result EXCEPT ![c] = f]
        /\ ready' = ready \cup {f}
        /\ pending' = pending \cup {c}
  BY DEF AcceptOne, Dequeue, Stored
<1>2. f \in Fd /\ f \in FreeFds
  BY DEF Lowest, FreeFds
<1>3. m_hdls[f] = NoObj
  BY <1>2 DEF FreeFds, OpenFds, Inv, Registry, TypeOK, OptObj, Fd, NoFd
<1>4. ~Registered(c) /\ c \in Conn /\ c \in Obj
  BY DEF Fresh, Referenced, Obj, Conn
<1>5. \A d \in pending : d # c /\ m_fd_result'[d] = m_fd_result[d] /\ Registered(d)'
  BY <1>1, <1>3, <1>4 DEF EdgeInv, Registered, Inv, TypeOK, Obj
<1>6. Registered(c)' /\ m_fd_result'[c] = f
  BY <1>1, <1>2, <1>4 DEF Registered, Inv, TypeOK
<1>7. Registered(Listener) => Registered(Listener)'
  BY <1>1, <1>3, <1>2 DEF Registered, Inv, TypeOK, Obj
<1>8. backlog' > 0 => backlog > 0
  BY DEF AcceptOne, Dequeue, Stored, Inv, TypeOK
<1> QED  BY <1>1, <1>5, <1>6, <1>7, <1>8 DEF AcceptOne, Dequeue, Stored, EdgeInv, NoLostEdge

LEMMA EpollWaitKeepsEdges ==
  ASSUME Inv, Inv', EdgeInv, NEW batch \in SUBSET Fd, EpollWait(batch)
  PROVE  EdgeInv'
<1> USE ObjAssumption
<1>1. ASSUME NEW o \in Conn \cup {Listener}, Registered(o),
             LET f == m_fd_result[o] IN f \in ready \/ events[f] = o
      PROVE  LET f == m_fd_result[o] IN f \in ready' \/ events'[f] = o
  <2>1. m_fd_result[o] \in Fd /\ m_hdls[m_fd_result[o]] = o
    BY <1>1, RegisteredAt DEF Obj
  <2>2. m_fd_result[o] \in ready
    BY <1>1, <2>1 DEF EpollWait, EdgeInv, Obj
  <2>3. o \notin Timer
    OBVIOUS
  <2> QED  BY <2>1, <2>2, <2>3 DEF EpollWait
<1>2. \A o \in Obj : Registered(o) => Registered(o)'
  BY DEF EpollWait, Registered, loopVars
<1> QED  BY <1>1, <1>2 DEF EpollWait, EdgeInv, NoLostEdge, Inv, TypeOK, Obj

\* Steps that leave the map alone and take at most the event of a handle that
\* sees what is pending on its socket.
LEMMA TakeKeepsEdges ==
  ASSUME Inv, Inv', EdgeInv, NEW f \in Fd, Take(f),
         UNCHANGED <<m_fd_result, m_hdls, ready, backlog>>,
         \/ m_hdls[f] = NoObj /\ pending' = pending /\ pc' = pc
         \/ m_hdls[f] = Listener /\ pending' = pending /\ pc' = "accept"
         \/ m_hdls[f] \in Conn /\ pending' = Seen(f) /\ pc' = pc
  PROVE  EdgeInv'
<1> USE ObjAssumption
<1>1. \A g \in Fd : events'[g] = IF g = f THEN NoObj ELSE events[g]
  BY DEF Take, Inv, TypeOK
<1>2. \A o \in Obj : Registered(o) <=> Registered(o)'
  BY DEF Registered
<1>3. ASSUME NEW c \in pending'
      PROVE  LET g == m_fd_result[c] IN g \in ready \/ events'[g] = c
  <2>1. c \in pending /\ c \in Obj /\ Registered(c) /\ c # Listener /\ c \in Conn
    BY <1>3 DEF Seen, EdgeInv, Inv, TypeOK, Obj
  <2>2. m_fd_result[c] \in Fd /\ m_hdls[m_fd_result[c]] = c
    BY <2>1, RegisteredAt
  <2>3. m_fd_result[c] = f /\ events[f] = c => c \notin pending'
    BY <2>1, <2>2 DEF Seen, Obj
  <2> QED  BY <1>1, <1>3, <2>1, <2>2, <2>3 DEF EdgeInv, NoLostEdge
<1>4. ASSUME backlog > 0
      PROVE  LET g == m_fd_result[Listener] IN
               g \in ready \/ events'[g] = Listener \/ pc' = "accept"
  <2>1. Registered(Listener) /\ pc # "accept"
    BY <1>4 DEF EdgeInv, Take
  <2>2. m_fd_result[Listener] \in Fd /\ m_hdls[m_fd_result[Listener]] = Listener
    BY <2>1, RegisteredAt DEF Obj
  <2> QED  BY <1>1, <1>4, <2>1, <2>2 DEF EdgeInv, NoLostEdge, Obj
<1>5. \A c \in pending' : Registered(c)'
  BY <1>2 DEF EdgeInv, Seen, Inv, TypeOK, Obj
<1> QED  BY <1>2, <1>3, <1>4, <1>5 DEF EdgeInv, NoLostEdge, Take, Obj

LEMMA KernelKeepsEdges == ASSUME Inv, EdgeInv, Kernel PROVE EdgeInv'
<1> USE ObjAssumption
<1>1. /\ UNCHANGED <<m_fd_result, m_hdls, events, pc>>
      /\ ready \subseteq ready'
  BY DEF Kernel, Arrive, Raise, Expire, loopVars
<1>2. \A o \in Obj : Registered(o) <=> Registered(o)'
  BY <1>1 DEF Registered
<1>3. CASE Arrive
  BY <1>1, <1>2, <1>3 DEF Arrive, EdgeInv, NoLostEdge, Inv, TypeOK, Obj
<1>4. ASSUME NEW c \in Conn, Raise(c) PROVE EdgeInv'
  BY <1>1, <1>2, <1>4 DEF Raise, EdgeInv, NoLostEdge, Inv, TypeOK, Obj
<1>5. ASSUME NEW t \in Timer, Expire(t) PROVE EdgeInv'
  BY <1>1, <1>2, <1>5 DEF Expire, EdgeInv, NoLostEdge, Inv, TypeOK, Obj
<1> QED  BY <1>3, <1>4, <1>5 DEF Kernel

\* The steps that only move the program counter or drop a queued connection.
LEMMA QuietKeepsEdges ==
  ASSUME Inv, EdgeInv,
         StartLoop \/ BatchDone \/ AcceptDropped \/ AcceptDone \/ UNCHANGED vars
  PROVE  EdgeInv'
<1> USE ObjAssumption
<1>1. UNCHANGED <<m_fd_result, m_hdls, ready, pending, events>>
  BY DEF StartLoop, BatchDone, AcceptDropped, Dequeue, AcceptDone, vars, loopVars, kernelVars
<1>2. \A o \in Obj : Registered(o) <=> Registered(o)'
  BY <1>1 DEF Registered
<1>3. backlog' > 0 => backlog > 0 /\ (pc = "accept" => pc' = "accept")
  BY DEF StartLoop, BatchDone, AcceptDropped, Dequeue, AcceptDone, vars, kernelVars,
         Inv, TypeOK
<1>4. pc' \notin {"batch", "accept"} => \A f \in Fd : events[f] = NoObj
  BY DEF StartLoop, BatchDone, AcceptDropped, Dequeue, AcceptDone, vars, EdgeInv
<1> QED  BY <1>1, <1>2, <1>3, <1>4 DEF EdgeInv, NoLostEdge, Inv, TypeOK, Obj

LEMMA NextEdge == Inv /\ Inv' /\ EdgeInv /\ [Next]_vars => EdgeInv'
<1> SUFFICES ASSUME Inv, Inv', EdgeInv, [Next]_vars PROVE EdgeInv'
  OBVIOUS
<1>1. CASE Listen
  BY <1>1, ListenKeepsEdges
<1>2. ASSUME NEW timed \in BOOLEAN, Connect(timed) PROVE EdgeInv'
  <2>1. PICK c \in Fresh(CConn), t \in NewTimer(timed) :
          Add(c, t, m_hdls, m_timer_hdl, interest)
    BY <1>2 DEF Connect
  <2>2. t \in Fresh(Timer) \cup {NoObj}
    BY DEF NewTimer
  <2>3. /\ Erase(m_hdls, {}) = m_hdls
        /\ Erase(m_timer_hdl, {}) = m_timer_hdl
        /\ interest \ {} = interest
    BY DEF Inv, TypeOK, Erase
  <2>4. Add(c, t, Erase(m_hdls, {}), Erase(m_timer_hdl, {}), interest \ {})
    BY <2>1, <2>3, Zenon
  <2> QED  BY <1>2, <2>2, <2>4, AddKeepsEdges DEF Connect
<1>3. ASSUME NEW f \in Fd, Retry(f) PROVE EdgeInv'
  <2>1. PICK c \in Fresh(CConn), t \in NewTimer(m_timer_hdl[f] # NoObj) :
          Add(c, t, Erase(m_hdls, {f}), Erase(m_timer_hdl, {f}), interest \ {f})
    BY <1>3 DEF Retry
  <2>2. t \in Fresh(Timer) \cup {NoObj}
    BY DEF NewTimer
  <2>3. \A g \in Fd : events'[g] = events[g] \/ (g \in {f} /\ events'[g] = NoObj)
    BY <1>3 DEF Retry, Take, Inv, TypeOK
  <2> QED  BY <1>3, <2>1, <2>2, <2>3, AddKeepsEdges DEF Retry, Connecting
<1>4. CASE AcceptOne
  BY <1>4, AcceptOneKeepsEdges
<1>5. ASSUME NEW f \in Fd, OnTimer(f) PROVE EdgeInv'
  BY <1>5, OnTimerKeepsEdges
<1>6. ASSUME NEW f \in Fd, OnConnection(f), ~Retry(f) PROVE EdgeInv'
  <2>1. CASE Served(f)
    BY <2>1, TakeKeepsEdges DEF Served, loopVars
  <2>2. CASE Closed(f)
    BY <2>2, RemoveKeepsEdges DEF Closed
  <2>3. CASE Failed(f)
    BY <2>3, RemoveKeepsEdges DEF Failed, Connecting, Conn
  <2>4. CASE Established(f)
    <3>1. CASE Remove(f, Disabled(f))
      BY <2>4, <3>1, RemoveKeepsEdges DEF Established, Connecting, Conn
    <3>2. CASE ~Remove(f, Disabled(f))
      BY <2>4, <3>2, TakeKeepsEdges DEF Established, Connecting, Conn
    <3> QED  BY <3>1, <3>2
  <2> QED  BY <1>6, <2>1, <2>2, <2>3, <2>4 DEF OnConnection
<1>7. ASSUME NEW f \in Fd, NotInList(f) \/ OnListener(f) PROVE EdgeInv'
  BY <1>7, TakeKeepsEdges DEF NotInList, OnListener, loopVars, kernelVars
<1>8. ASSUME NEW batch \in SUBSET Fd, EpollWait(batch) PROVE EdgeInv'
  BY <1>8, EpollWaitKeepsEdges
<1>9. CASE Kernel
  BY <1>9, KernelKeepsEdges
<1>10. CASE StartLoop \/ BatchDone \/ AcceptDropped \/ AcceptDone \/ UNCHANGED vars
  BY <1>10, QuietKeepsEdges
<1> QED  BY <1>1, <1>2, <1>3, <1>4, <1>5, <1>6, <1>7, <1>8, <1>9, <1>10
         DEF Next, Dispatch, Accept, AcceptExhausted, Terminated, OnConnection

\* Edge-triggered readiness is never dropped, whatever the number of ready
\* descriptors, the size of a batch and the moments at which the kernel raises
\* them (event_loop.cpp:22-42, server.cpp:102-130).
THEOREM EdgesAreKept == Spec => []NoLostEdge
<1>1. Init => EdgeInv
  BY InitEdge
<1>2. Inv /\ Inv' /\ EdgeInv /\ [Next]_vars => EdgeInv'
  BY NextEdge
<1>3. EdgeInv => NoLostEdge
  BY DEF EdgeInv
<1> QED  BY <1>1, <1>2, <1>3, Invariance, PTL DEF Spec

-----------------------------------------------------------------------------
(* What is left when the loop returns *)

OwnInv ==
  /\ Owned /\ ListenerListed /\ WeakRefs
  /\ pc = "exited" => \A f \in Fd : m_hdls[f] = NoObj

LEMMA EnterOwns ==
  ASSUME Inv, Owned, ListenerListed, WeakRefs,
         NEW o \in Obj, NEW f \in Fd, f \in FreeFds,
         m_hdls' = [m_hdls EXCEPT ![f] = o],
         m_fd_result' = [m_fd_result EXCEPT ![o] = f],
         m_timer_hdl' \in {m_timer_hdl, [m_timer_hdl EXCEPT ![f] = NoObj]},
         m_timeout_cb' = m_timeout_cb, kept \subseteq kept'
  PROVE  Owned' /\ ListenerListed' /\ WeakRefs'
<1> USE ObjAssumption, NatAssumption
<1>1. /\ m_hdls \in [Fd -> OptObj(Obj)] /\ m_timer_hdl \in [Fd -> OptObj(Timer)]
      /\ m_fd_result \in [Obj -> Fd \cup {NoFd}]
  BY DEF Inv, TypeOK
<1>2. m_hdls[f] = NoObj
  <2>1. \A p \in Obj : m_fd_result[p] # f
    BY DEF FreeFds, OpenFds, Fd, NoFd
  <2> QED  BY <1>1, <2>1 DEF Inv, Registry, OptObj
<1>3. \A p \in Obj : Registered(p) => Registered(p)'
  BY <1>1, <1>2 DEF Registered
<1>4. Registered(o)'
  BY <1>1 DEF Registered
<1>5. \A p \in Obj : Referenced(p) => Referenced(p)'
  BY <1>3 DEF Referenced
<1>6. Owned'
  BY <1>1, <1>4, <1>5 DEF Owned, Referenced
<1>7. ListenerListed'
  BY <1>1, <1>3, <1>4 DEF ListenerListed, Obj
<1>8. WeakRefs'
  <2> SUFFICES ASSUME NEW g \in Fd, m_timer_hdl'[g] # NoObj
               PROVE  /\ m_hdls'[g] # NoObj
                      /\ \E h \in Fd : m_hdls'[h] = m_timer_hdl'[g]
                      /\ m_timeout_cb'[m_timer_hdl'[g]] \in {NoObj, m_hdls'[g]}
    BY DEF WeakRefs, Registered
  <2>1. m_timer_hdl'[g] = m_timer_hdl[g] /\ m_timer_hdl[g] \in Timer
    BY <1>1 DEF OptObj
  <2>2. /\ m_hdls[g] # NoObj /\ Registered(m_timer_hdl[g])
        /\ m_timeout_cb[m_timer_hdl[g]] \in {NoObj, m_hdls[g]}
    BY <2>1 DEF WeakRefs
  <2>3. m_hdls'[g] = m_hdls[g]
    BY <1>1, <1>2, <2>2
  <2>4. \E h \in Fd : m_hdls'[h] = m_timer_hdl[g]
    BY <1>3, <2>1, <2>2 DEF Obj, Registered
  <2> QED  BY <2>1, <2>2, <2>3, <2>4
<1> QED  BY <1>6, <1>7, <1>8

LEMMA EraseOwns ==
  ASSUME Inv, ListenerListed, WeakRefs, NEW gone \in SUBSET Fd,
         m_hdls' = Erase(m_hdls, gone),
         \A f \in Fd : m_timer_hdl'[f] # NoObj =>
           /\ f \notin gone /\ m_timer_hdl'[f] = m_timer_hdl[f]
           /\ \A g \in gone : m_hdls[g] # m_timer_hdl[f],
         \A t \in Timer : m_timeout_cb'[t] \in {m_timeout_cb[t], NoObj},
         \A g \in gone : m_hdls[g] # Listener,
         Settle(m_fd_result, interest \ gone, ready, pending)
  PROVE  Owned' /\ ListenerListed' /\ WeakRefs'
<1>1. /\ m_hdls \in [Fd -> OptObj(Obj)] /\ m_timer_hdl \in [Fd -> OptObj(Timer)]
  BY DEF Inv, TypeOK
<1>2. \A f \in Fd : m_hdls'[f] = IF f \in gone THEN NoObj ELSE m_hdls[f]
  BY DEF Erase
<1>3. \A o \in Obj : Registered(o) /\ (\A f \in gone : m_hdls[f] # o) => Registered(o)'
  BY <1>2 DEF Registered
<1>4. \A o \in Obj : m_fd_result'[o] # NoFd => Referenced(o)' /\ m_fd_result[o] # NoFd
  BY DEF Settle
<1>5. Owned' /\ ListenerListed'
  BY <1>3, <1>4 DEF Owned, ListenerListed, Obj
<1>6. WeakRefs'
  <2> SUFFICES ASSUME NEW f \in Fd, m_timer_hdl'[f] # NoObj
               PROVE  /\ m_hdls'[f] # NoObj
                      /\ \E h \in Fd : m_hdls'[h] = m_timer_hdl'[f]
                      /\ m_timeout_cb'[m_timer_hdl'[f]] \in {NoObj, m_hdls'[f]}
    BY DEF WeakRefs, Registered
  <2>1. /\ f \notin gone /\ m_timer_hdl'[f] = m_timer_hdl[f] /\ m_timer_hdl[f] \in Timer
        /\ \A g \in gone : m_hdls[g] # m_timer_hdl[f]
    BY <1>1 DEF OptObj
  <2>2. /\ m_hdls[f] # NoObj /\ Registered(m_timer_hdl[f])
        /\ m_timeout_cb[m_timer_hdl[f]] \in {NoObj, m_hdls[f]}
    BY <2>1 DEF WeakRefs
  <2>3. m_timeout_cb'[m_timer_hdl[f]] \in {NoObj, m_hdls[f]}
    BY <2>1, <2>2
  <2>4. \E h \in Fd : m_hdls'[h] = m_timer_hdl[f]
    BY <1>3, <2>1, <2>2 DEF Obj, Registered
  <2> QED  BY <1>2, <2>1, <2>2, <2>3, <2>4
<1> QED  BY <1>5, <1>6

LEMMA NextOwns == Inv /\ OwnInv /\ [Next]_vars => OwnInv'
<1> SUFFICES ASSUME Inv, OwnInv, [Next]_vars PROVE OwnInv'
  OBVIOUS
<1> USE ObjAssumption, NatAssumption
<1> Owned /\ ListenerListed /\ WeakRefs
  BY DEF OwnInv
<1>1. CASE Listen
  <2>1. PICK f \in Lowest(FreeFds) :
          /\ m_hdls' = [m_hdls EXCEPT ![f] = Listener]
          /\ m_fd_result' = [m_fd_result EXCEPT ![Listener] = f]
    BY <1>1 DEF Listen
  <2>2. f \in Fd /\ f \in FreeFds /\ Listener \in Obj
    BY DEF Lowest, FreeFds, Obj
  <2>3. UNCHANGED <<m_timer_hdl, m_timeout_cb, kept>> /\ pc' = "setup"
    BY <1>1 DEF Listen
  <2>4. Owned' /\ ListenerListed' /\ WeakRefs'
    BY <2>1, <2>2, <2>3, EnterOwns
  <2> QED  BY <2>3, <2>4 DEF OwnInv
<1>2. CASE AcceptOne
  <2>1. PICK c \in Fresh(SConn), f \in Lowest(FreeFds) :
          /\ m_hdls' = [m_hdls EXCEPT ![f] = c]
          /\ m_timer_hdl' = [m_timer_hdl EXCEPT ![f] = NoObj]
          /\ m_fd_result' = [m_fd_result EXCEPT ![c] = f]
          /\ kept' = Stored(c)
    BY <1>2 DEF AcceptOne
  <2>2. f \in Fd /\ f \in FreeFds /\ c \in Obj
    BY DEF Lowest, FreeFds, Fresh, Obj, Conn
  <2>3. m_timeout_cb' = m_timeout_cb /\ kept \subseteq kept' /\ pc' = "accept"
    BY <1>2, <2>1 DEF AcceptOne, Dequeue, Stored
  <2>4. Owned' /\ ListenerListed' /\ WeakRefs'
    BY <2>1, <2>2, <2>3, EnterOwns
  <2> QED  BY <2>3, <2>4 DEF OwnInv
<1>3. ASSUME NEW timed \in BOOLEAN, Connect(timed) PROVE OwnInv'
  <2>1. PICK c \in Fresh(CConn), t \in NewTimer(timed) :
          Add(c, t, m_hdls, m_timer_hdl, interest)
    BY <1>3 DEF Connect
  <2>2. t \in Fresh(Timer) \cup {NoObj}
    BY DEF NewTimer
  <2>3. /\ Erase(m_hdls, {}) = m_hdls /\ Erase(m_timer_hdl, {}) = m_timer_hdl
        /\ interest \ {} = interest
    BY DEF Inv, TypeOK, Erase
  <2>4. Add(c, t, Erase(m_hdls, {}), Erase(m_timer_hdl, {}), interest \ {})
    BY <2>1, <2>3, Zenon
  <2>5. Owned' /\ ListenerListed' /\ WeakRefs'
    BY <1>3, <2>2, <2>4, AddKeeps DEF Connect
  <2> QED  BY <1>3, <2>5 DEF Connect, OwnInv
<1>4. ASSUME NEW f \in Fd, Retry(f) PROVE OwnInv'
  <2>1. PICK c \in Fresh(CConn), t \in NewTimer(m_timer_hdl[f] # NoObj) :
          Add(c, t, Erase(m_hdls, {f}), Erase(m_timer_hdl, {f}), interest \ {f})
    BY <1>4 DEF Retry
  <2>2. t \in Fresh(Timer) \cup {NoObj}
    BY DEF NewTimer
  <2>3. \A g \in {f} : Connecting(m_hdls[g])
    BY <1>4 DEF Retry
  <2>4. Owned' /\ ListenerListed' /\ WeakRefs'
    BY <1>4, <2>1, <2>2, <2>3, AddKeeps DEF Retry
  <2> QED  BY <1>4, <2>4 DEF Retry, Take, OwnInv
<1>5. ASSUME NEW f \in Fd, OnTimer(f) PROVE OwnInv'
  <2> DEFINE t == m_hdls[f]
             gone == {f} \cup TimeoutEntry(t)
  <2>1. /\ t \in Timer /\ m_hdls' = Erase(m_hdls, gone)
        /\ m_timer_hdl' = Erase(m_timer_hdl, gone \cup {g \in Fd : m_timer_hdl[g] = t})
        /\ m_timeout_cb' = [m_timeout_cb EXCEPT ![t] = NoObj]
        /\ Settle(m_fd_result, interest \ gone, ready, pending)
        /\ pc' = "batch"
    BY <1>5 DEF OnTimer, Take
  <2>2. \A g \in TimeoutEntry(t) :
          g \in Fd /\ (m_hdls[g] = NoObj \/ Connecting(m_hdls[g]))
    BY <2>1, TimeoutFindsItsAttempt
  <2>3. gone \in SUBSET Fd /\ \A g \in gone : m_hdls[g] # Listener
    BY <2>1, <2>2 DEF Obj, Conn, Connecting
  <2>4. \A g \in Fd : m_timer_hdl'[g] # NoObj =>
          /\ g \notin gone /\ m_timer_hdl'[g] = m_timer_hdl[g]
          /\ \A h \in gone : m_hdls[h] # m_timer_hdl[g]
    <3> SUFFICES ASSUME NEW g \in Fd, m_timer_hdl'[g] # NoObj
                 PROVE  /\ g \notin gone /\ m_timer_hdl'[g] = m_timer_hdl[g]
                        /\ \A h \in gone : m_hdls[h] # m_timer_hdl[g]
      OBVIOUS
    <3>1. g \notin gone /\ m_timer_hdl'[g] = m_timer_hdl[g] /\ m_timer_hdl[g] # t
      BY <2>1 DEF Erase
    <3>2. m_timer_hdl[g] \in Timer
      BY <3>1 DEF Inv, TypeOK, OptObj
    <3> QED  BY <2>2, <3>1, <3>2 DEF Obj, Conn, Connecting
  <2>5. \A u \in Timer : m_timeout_cb'[u] \in {m_timeout_cb[u], NoObj}
    BY <2>1 DEF Inv, TypeOK
  <2> HIDE DEF gone, t
  <2>6. Owned' /\ ListenerListed' /\ WeakRefs'
    BY <2>1, <2>3, <2>4, <2>5, EraseOwns
  <2> QED  BY <2>1, <2>6 DEF OwnInv
<1>6. ASSUME NEW f \in Fd, NEW cbs, Remove(f, cbs), m_hdls[f] \in Conn, Take(f), pc' = pc,
             cbs = m_timeout_cb \/ cbs = Disabled(f)
      PROVE  OwnInv'
  <2>1. /\ m_hdls' = Erase(m_hdls, {f}) /\ m_timer_hdl' = Erase(m_timer_hdl, {f})
        /\ m_timeout_cb' = cbs /\ Settle(m_fd_result, interest \ {f}, ready, pending)
        /\ pc' = "batch"
    BY <1>6 DEF Remove, Take
  <2>2. \A g \in Fd : m_timer_hdl'[g] # NoObj =>
          /\ g \notin {f} /\ m_timer_hdl'[g] = m_timer_hdl[g]
          /\ \A h \in {f} : m_hdls[h] # m_timer_hdl[g]
    <3>1. \A g \in Fd : m_timer_hdl[g] \in Timer \cup {NoObj}
      BY DEF Inv, TypeOK, OptObj
    <3> QED  BY <1>6, <2>1, <3>1 DEF Erase, Obj
  <2>3. \A t \in Timer : m_timeout_cb'[t] \in {m_timeout_cb[t], NoObj}
    BY <1>6, <2>1 DEF Disabled
  <2>4. {f} \in SUBSET Fd /\ \A g \in {f} : m_hdls[g] # Listener
    BY <1>6
  <2>5. Owned' /\ ListenerListed' /\ WeakRefs'
    BY <2>1, <2>2, <2>3, <2>4, EraseOwns
  <2> QED  BY <2>1, <2>5 DEF OwnInv
<1>7. ASSUME NEW f \in Fd, Established(f) PROVE OwnInv'
  <2>1. m_hdls[f] \in Conn /\ Take(f) /\ pc' = pc
    BY <1>7 DEF Established, Connecting, Conn
  <2>2. CASE Remove(f, Disabled(f))
    BY <1>6, <2>1, <2>2
  <2>3. CASE /\ m_timeout_cb' = Disabled(f)
             /\ UNCHANGED <<m_fd_result, m_hdls, m_timer_hdl, kept>>
    <3>1. \A t \in Timer : m_timeout_cb'[t] \in {m_timeout_cb[t], NoObj}
      BY <2>3 DEF Disabled
    <3>2. \A o \in Obj : Registered(o)' <=> Registered(o)
      BY <2>3 DEF Registered
    <3>3. ASSUME NEW o \in Obj, Referenced(o) PROVE Referenced(o)'
      <4>1. ASSUME NEW t \in Timer, m_timeout_cb[t] = o, m_timeout_cb'[t] # o
            PROVE  Registered(o)
        <5>1. m_timer_hdl[f] = t
          BY <2>3, <4>1 DEF Disabled
        <5>2. m_hdls[f] = o
          BY <4>1, <5>1 DEF WeakRefs, Obj
        <5> QED  BY <5>2 DEF Registered
      <4> QED  BY <2>3, <3>2, <3>3, <4>1 DEF Referenced
    <3>4. Owned' /\ ListenerListed'
      BY <2>3, <3>2, <3>3 DEF Owned, ListenerListed, Obj
    <3>5. WeakRefs'
      <4>1. \A g \in Fd : m_timer_hdl[g] \in Timer \cup {NoObj}
        BY DEF Inv, TypeOK, OptObj
      <4> QED  BY <2>3, <3>1, <3>2, <4>1 DEF WeakRefs, Obj
    <3> QED  BY <2>1, <3>4, <3>5 DEF Take, OwnInv
  <2> QED  BY <1>7, <2>2, <2>3 DEF Established
<1>8. ASSUME NEW f \in Fd, Closed(f) PROVE OwnInv'
  BY <1>6, <1>8 DEF Closed
<1>9. ASSUME NEW f \in Fd, Failed(f) PROVE OwnInv'
  BY <1>6, <1>9 DEF Failed, Connecting, Conn
<1>10. CASE \/ StartLoop \/ Kernel \/ BatchDone \/ AcceptDropped \/ AcceptDone
            \/ \E batch \in SUBSET Fd : EpollWait(batch)
            \/ \E f \in Fd : NotInList(f) \/ OnListener(f) \/ Served(f)
            \/ UNCHANGED vars
  <2>1. UNCHANGED <<m_fd_result, m_hdls, m_timer_hdl, m_timeout_cb, kept>>
    BY <1>10 DEF StartLoop, Kernel, Arrive, Raise, Expire, BatchDone, AcceptDropped, Dequeue,
       AcceptDone, EpollWait, NotInList, OnListener, Served, vars, loopVars
  <2>2. pc' = "exited" => pc = "exited" \/ \A f \in Fd : m_hdls[f] = NoObj
    BY <1>10 DEF StartLoop, LoopTest, Kernel, Arrive, Raise, Expire, BatchDone, AcceptDropped,
       Dequeue, AcceptDone, EpollWait, NotInList, OnListener, Served, Take, vars
  <2>3. Owned' /\ ListenerListed' /\ WeakRefs'
    BY <2>1 DEF Owned, ListenerListed, WeakRefs, Referenced, Registered
  <2> QED  BY <2>1, <2>2, <2>3 DEF OwnInv
<1> QED  BY <1>1, <1>2, <1>3, <1>4, <1>5, <1>7, <1>8, <1>9, <1>10
         DEF Next, Dispatch, Accept, AcceptExhausted, Terminated, OnConnection

LEMMA OwnersStay == Spec => []OwnInv
<1>1. Init => OwnInv
  BY ObjAssumption DEF Init, OwnInv, Owned, ListenerListed, WeakRefs, Obj
<1> QED  BY <1>1, NextOwns, Invariance, PTL DEF Spec

\* When start() returns, every descriptor is closed but those of connections an
\* application map still holds: no Timer, weak_ptr or entry keeps one open
\* (event_loop.cpp:9-47, fd.cpp:10-15).
THEOREM NothingStaysOpen == Spec => []ExitLeavesNothing
<1>1. Inv /\ OwnInv => ExitLeavesNothing
  <2> SUFFICES ASSUME Inv, OwnInv, pc = "exited", NEW o \in Obj, m_fd_result[o] # NoFd
               PROVE  o \in kept
    BY DEF ExitLeavesNothing
  <2>1. \A p \in Obj : ~Registered(p)
    BY ObjAssumption DEF OwnInv, Registered
  <2>2. \A t \in Timer : m_timeout_cb[t] = NoObj
    BY <2>1 DEF Inv, TimeoutsAreForAttempts, Obj
  <2> QED  BY <2>1, <2>2, ObjAssumption DEF OwnInv, Owned, ListenerListed, Referenced, Obj
<1> QED  BY <1>1, OwnersStay, Invariance, PTL

-----------------------------------------------------------------------------
(* Who can remove a connection *)

RemovedByOwn ==
  \A c \in Conn : Usable(c) /\ ~Registered(c)' =>
    events[m_fd_result[c]] # NoObj /\ events'[m_fd_result[c]] = NoObj

\* on_data returned false: the erased entry is that of the event just taken.
LEMMA RemoveOwn ==
  ASSUME Inv, NEW f \in Fd, NEW cbs, Take(f), Remove(f, cbs) PROVE RemovedByOwn
<1> SUFFICES ASSUME NEW c \in Conn, Registered(c), ~Registered(c)'
             PROVE  events[m_fd_result[c]] # NoObj /\ events'[m_fd_result[c]] = NoObj
  BY DEF RemovedByOwn, Usable
<1>1. m_fd_result[c] \in Fd /\ m_hdls[m_fd_result[c]] = c
  BY RegisteredAt DEF Obj
<1>2. m_fd_result[c] = f
  BY <1>1 DEF Remove, Erase, Registered
<1> QED  BY <1>2 DEF Take, Inv, TypeOK

LEMMA NextRemovesOwn == Inv /\ [Next]_vars => RemovedByOwn
<1> SUFFICES ASSUME Inv, [Next]_vars PROVE RemovedByOwn
  OBVIOUS
<1> USE ObjAssumption
<1>1. CASE Listen
  <2>1. PICK f \in Lowest(FreeFds) : m_hdls' = [m_hdls EXCEPT ![f] = Listener]
    BY <1>1 DEF Listen
  <2>2. m_hdls[f] = NoObj
    BY NatAssumption DEF Lowest, FreeFds, OpenFds, Inv, Registry, TypeOK, OptObj, Fd, NoFd
  <2> QED  BY <2>1, <2>2 DEF RemovedByOwn, Usable, Registered, Inv, TypeOK, Obj
<1>2. ASSUME NEW timed \in BOOLEAN, Connect(timed) PROVE RemovedByOwn
  <2>1. PICK c \in Fresh(CConn), t \in NewTimer(timed) :
          Add(c, t, m_hdls, m_timer_hdl, interest)
    BY <1>2 DEF Connect
  <2>2. t \in Fresh(Timer) \cup {NoObj}
    BY DEF NewTimer
  <2>3. /\ Erase(m_hdls, {}) = m_hdls
        /\ Erase(m_timer_hdl, {}) = m_timer_hdl
        /\ interest \ {} = interest
    BY DEF Inv, TypeOK, Erase
  <2>4. Add(c, t, Erase(m_hdls, {}), Erase(m_timer_hdl, {}), interest \ {})
    BY <2>1, <2>3, Zenon
  <2>5. UNCHANGED m_connected
    BY <1>2 DEF Connect
  <2> QED  BY <2>2, <2>4, <2>5, AddKeeps DEF RemovedByOwn, Usable, Obj
<1>3. ASSUME NEW f \in Fd, Retry(f) PROVE RemovedByOwn
  <2>1. PICK c \in Fresh(CConn), t \in NewTimer(m_timer_hdl[f] # NoObj) :
          Add(c, t, Erase(m_hdls, {f}), Erase(m_timer_hdl, {f}), interest \ {f})
    BY <1>3 DEF Retry
  <2>2. t \in Fresh(Timer) \cup {NoObj}
    BY DEF NewTimer
  <2>3. UNCHANGED m_connected /\ \A g \in {f} : Connecting(m_hdls[g])
    BY <1>3 DEF Retry
  <2> QED  BY <2>1, <2>2, <2>3, AddKeeps DEF RemovedByOwn, Usable, Obj
<1>4. CASE AcceptOne
  <2>1. PICK c \in Fresh(SConn), f \in Lowest(FreeFds) :
          m_hdls' = [m_hdls EXCEPT ![f] = c]
    BY <1>4 DEF AcceptOne, Dequeue, Stored
  <2>2. m_hdls[f] = NoObj
    BY NatAssumption DEF Lowest, FreeFds, OpenFds, Inv, Registry, TypeOK, OptObj, Fd, NoFd
  <2> QED  BY <2>1, <2>2 DEF RemovedByOwn, Usable, Registered, Inv, TypeOK, Obj
<1>5. ASSUME NEW f \in Fd, OnTimer(f) PROVE RemovedByOwn
  <2> SUFFICES ASSUME NEW c \in Conn, Usable(c) PROVE Registered(c)'
    BY DEF RemovedByOwn
  <2>1. PICK g \in Fd : m_hdls[g] = c
    BY DEF Usable, Registered
  <2>2. m_hdls[f] \in Timer /\ g # f
    BY <1>5, <2>1 DEF OnTimer
  <2>3. g \notin TimeoutEntry(m_hdls[f])
    BY <2>1, <2>2, TimeoutFindsItsAttempt DEF Usable, Obj
  <2> QED  BY <1>5, <2>1, <2>2, <2>3 DEF OnTimer, Erase, Registered
<1>6. ASSUME NEW f \in Fd, Closed(f) \/ Failed(f) \/ Established(f) PROVE RemovedByOwn
  <2>1. CASE \E cbs : Remove(f, cbs)
    BY <1>6, <2>1, RemoveOwn DEF Closed, Failed, Established
  <2>2. CASE UNCHANGED m_hdls
    BY <2>2 DEF RemovedByOwn, Usable, Registered
  <2> QED  BY <1>6, <2>1, <2>2 DEF Closed, Failed, Established
<1>7. CASE UNCHANGED m_hdls
  BY <1>7 DEF RemovedByOwn, Usable, Registered
<1>8. CASE \/ StartLoop \/ Kernel \/ BatchDone \/ AcceptDropped \/ AcceptDone
           \/ \E batch \in SUBSET Fd : EpollWait(batch)
           \/ \E f \in Fd : NotInList(f) \/ OnListener(f) \/ Served(f)
           \/ UNCHANGED vars
  <2>1. UNCHANGED m_hdls
    BY <1>8 DEF StartLoop, Kernel, Arrive, Raise, Expire, BatchDone, AcceptDropped, Dequeue,
           AcceptDone, EpollWait, NotInList, OnListener, Served, vars, loopVars
  <2> QED  BY <1>7, <2>1
<1> QED  BY <1>1, <1>2, <1>3, <1>4, <1>5, <1>6, <1>8
         DEF Next, Dispatch, Accept, AcceptExhausted, Terminated, OnConnection

\* A usable connection leaves the loop only through an event of its own: for
\* any number of handles, no timeout, retry or accept takes another's entry.
THEOREM OnlyOwnEventRemoves == Spec => RemovedByItsOwnEvent
<1>1. Inv /\ [Next]_vars => [RemovedByOwn]_vars
  BY NextRemovesOwn
<1> QED  BY <1>1, Invariance, PTL DEF Spec, RemovedByItsOwnEvent, RemovedByOwn

-----------------------------------------------------------------------------
(* Running out of descriptors *)

\* With a full table accept() fails before it looks at its queue, the code asks
\* again, and no other code of the thread runs that could close a descriptor.
THEOREM ExhaustionIsPermanent == Spec => ExhaustionIsForGood
<1>1. [Next]_vars =>
        [pc = "accept" /\ FreeFds = {} => pc' = "accept" /\ FreeFds' = {}]_vars
  <2> SUFFICES ASSUME [Next]_vars, pc = "accept", FreeFds = {}
               PROVE  pc' = "accept" /\ FreeFds' = {}
    OBVIOUS
  <2>1. UNCHANGED <<pc, m_fd_result>>
    BY DEF Next, Listen, Connect, StartLoop, Kernel, Arrive, Raise, Expire,
           EpollWait, Dispatch, NotInList, OnTimer, OnListener, OnConnection,
           Served, Closed, Established, Failed, Retry, Take, BatchDone, Accept,
           AcceptOne, Dequeue, Stored, AcceptDropped, Dequeue, AcceptDone, AcceptExhausted, Terminated,
           Lowest, vars
  <2> QED  BY <2>1 DEF FreeFds
<1> QED  BY <1>1, PTL DEF Spec, ExhaustionIsForGood

-----------------------------------------------------------------------------
(* A batch is finite *)

\* The events of the batch that are still to be looked at.
EventsLeft == {f \in Fd : events[f] # NoObj}

\* The steps the thread can take before it is back in epoll_wait, while nobody
\* connects: an event may start the accept loop, which ends.
BatchWork ==
  2 * Cardinality(EventsLeft) + backlog
    + (CASE pc = "accept" -> 2 [] pc = "batch" -> 1 [] OTHER -> 0)

AtMostMaxEvents == Cardinality(EventsLeft) <= MAX_EVENTS

LEMMA EventsAreCounted ==
  /\ IsFiniteSet(EventsLeft) /\ Cardinality(EventsLeft) \in Nat
<1>1. IsFiniteSet(Fd)
  BY FS_Interval, NatAssumption DEF Fd
<1>2. IsFiniteSet(EventsLeft)
  BY <1>1, FS_Subset DEF EventsLeft
<1> QED  BY <1>2, FS_CardinalityType

LEMMA TakenIsGone ==
  ASSUME Inv, NEW f \in Fd, Take(f)
  PROVE  Cardinality(EventsLeft') = Cardinality(EventsLeft) - 1
<1>1. EventsLeft' = EventsLeft \ {f} /\ f \in EventsLeft
  BY DEF Take, EventsLeft, Inv, TypeOK
<1> QED  BY <1>1, EventsAreCounted, FS_RemoveElement

\* What one step of the loop makes of it.
BatchProgress ==
  /\ (\E f \in Fd : Dispatch(f)) \/ Accept \/ BatchDone => BatchWork' < BatchWork
  /\ \/ BatchWork' <= BatchWork
     \/ backlog' > backlog
     \/ \E batch \in SUBSET Fd : EpollWait(batch)

LEMMA StepProgresses ==
  ASSUME Inv, AtMostMaxEvents, [Next]_vars
  PROVE  BatchProgress /\ AtMostMaxEvents'
<1> USE NatAssumption DEF BatchProgress, AtMostMaxEvents
<1>1. backlog \in Nat /\ Cardinality(EventsLeft) \in Nat
  BY EventsAreCounted DEF Inv, TypeOK
<1>2. ASSUME NEW f \in Fd, Dispatch(f)
      PROVE  /\ BatchWork' < BatchWork /\ BatchWork' <= BatchWork
             /\ AtMostMaxEvents'
  <2>1. Take(f) /\ backlog' = backlog /\ pc' \in {"batch", "accept"}
    BY <1>2 DEF Dispatch, NotInList, OnTimer, OnListener, OnConnection, Served, Closed,
                Established, Failed, Retry, kernelVars, Take
  <2>2. Cardinality(EventsLeft') = Cardinality(EventsLeft) - 1 /\ pc = "batch"
    BY <2>1, TakenIsGone DEF Take
  <2> QED  BY <1>1, <2>1, <2>2 DEF BatchWork
<1>3. ASSUME Accept \/ BatchDone
      PROVE  /\ BatchWork' < BatchWork /\ BatchWork' <= BatchWork
             /\ AtMostMaxEvents'
  <2>1. EventsLeft' = EventsLeft
    BY <1>3 DEF Accept, AcceptOne, AcceptDropped, AcceptDone, BatchDone, EventsLeft
  <2>2. \/ pc = "accept" /\ pc' = "accept" /\ backlog' = backlog - 1
        \/ pc = "accept" /\ pc' = "batch" /\ backlog' = backlog
        \/ pc = "batch" /\ pc' \notin {"batch", "accept"} /\ backlog' = backlog
    BY <1>3 DEF Accept, AcceptOne, AcceptDropped, AcceptDone, BatchDone, Dequeue, LoopTest,
                kernelVars
  <2> QED  BY <1>1, <2>1, <2>2 DEF BatchWork
<1>4. ASSUME NEW batch \in SUBSET Fd, EpollWait(batch) PROVE AtMostMaxEvents'
  <2>1. EventsLeft' \subseteq batch
    BY <1>4 DEF EpollWait, EventsLeft
  <2>2. IsFiniteSet(batch)
    <3>1. IsFiniteSet(Fd)
      BY FS_Interval DEF Fd
    <3> QED  BY <3>1, FS_Subset
  <2>3. Cardinality(EventsLeft') <= Cardinality(batch)
    BY <2>1, <2>2, FS_Subset
  <2>4. Cardinality(EventsLeft') \in Nat /\ Cardinality(batch) \in Nat
    BY <2>1, <2>2, FS_Subset, FS_CardinalityType
  <2> QED  BY <1>4, <2>3, <2>4 DEF EpollWait
<1>5. ASSUME \/ Listen \/ StartLoop \/ Kernel \/ AcceptExhausted \/ Terminated
             \/ \E timed \in BOOLEAN : Connect(timed)
             \/ UNCHANGED vars
      PROVE  (BatchWork' <= BatchWork \/ backlog' > backlog) /\ AtMostMaxEvents'
  <2>1. EventsLeft' = EventsLeft
    BY <1>5 DEF Listen, StartLoop, Kernel, Arrive, Raise, Expire, AcceptExhausted,
                Terminated, Connect, vars, EventsLeft
  <2>2. \/ backlog' = backlog /\ pc' = pc
        \/ backlog' = backlog /\ pc = "setup" /\ pc' \in {"wait", "exited"}
        \/ backlog' > backlog
    BY <1>1, <1>5 DEF Listen, StartLoop, LoopTest, Kernel, Arrive, Raise, Expire,
                AcceptExhausted, Terminated, Connect, vars, kernelVars
  <2>3. BatchWork' <= BatchWork \/ backlog' > backlog
    BY <1>1, <2>1, <2>2 DEF BatchWork
  <2> QED  BY <2>1, <2>3
<1>6. (\E f \in Fd : Dispatch(f)) \/ Accept \/ BatchDone => BatchWork' < BatchWork
  BY <1>2, <1>3
<1> QED  BY <1>2, <1>3, <1>4, <1>5, <1>6 DEF Next

\* A batch is finite: at most MAX_EVENTS events, each handled once, and an accept
\* loop between them that ends unless somebody connects meanwhile or the
\* descriptor table is full.  Every step decreases BatchWork, which only
\* epoll_wait and new connections raise (event_loop.cpp:22-42, server.cpp:104-130).
THEOREM BatchesAreFinite ==
  Spec => /\ [](BatchWork \in Nat /\ AtMostMaxEvents)
          /\ [][BatchProgress]_vars
<1>1. Init => AtMostMaxEvents
  <2> SUFFICES ASSUME Init PROVE AtMostMaxEvents
    OBVIOUS
  <2>1. EventsLeft = {}
    BY DEF Init, EventsLeft
  <2> QED  BY <2>1, FS_EmptySet, NatAssumption DEF AtMostMaxEvents
<1>2. Inv /\ AtMostMaxEvents /\ [Next]_vars => AtMostMaxEvents' /\ BatchProgress
  BY StepProgresses
<1>3. Inv => BatchWork \in Nat
  BY EventsAreCounted, NatAssumption DEF Inv, TypeOK, BatchWork
<1> QED  BY <1>1, <1>2, <1>3, Invariance, PTL DEF Spec

-----------------------------------------------------------------------------
(* Which events lose their handle *)

\* Between two batches no event is left over.
BatchIsOver == pc \notin {"batch", "accept"} => \A f \in Fd : events[f] = NoObj

\* An event is raised for the handle that is listed at that time.
Begins == \A f \in Fd : events[f] = NoObj /\ events'[f] # NoObj => Meets(f)'

Strands ==
  \A f \in Fd : Meets(f) /\ events'[f] # NoObj /\ ~Meets(f)' =>
    /\ Connecting(events[f])
    /\ \E g \in Fd : /\ events[g] # NoObj /\ events'[g] = NoObj
                    /\ m_hdls[g] \in Timer
                    /\ m_timeout_cb[m_hdls[g]] = events[f]

\* A step that takes no event of another descriptor and keeps the entries of
\* all other descriptors strands nothing.
LEMMA TakeMeets ==
  ASSUME Inv, BatchIsOver, NEW f \in Fd, Take(f), pc' \in {"batch", "accept"},
         \A g \in Fd \ {f} : m_hdls[g] # NoObj => m_hdls'[g] = m_hdls[g]
  PROVE  Strands /\ Begins /\ BatchIsOver'
BY ObjAssumption DEF Take, Strands, Begins, BatchIsOver, Meets, Inv, TypeOK

\* A Timer's event: what it erases besides itself is the attempt it captured.
LEMMA TimerStrands ==
  ASSUME Inv, BatchIsOver, NEW f \in Fd, OnTimer(f)
  PROVE  Strands /\ Begins /\ BatchIsOver'
<1> USE ObjAssumption
<1> DEFINE t == m_hdls[f]
<1>1. /\ pc = "batch" /\ pc' = "batch" /\ t \in Timer
      /\ events[f] # NoObj /\ events' = [events EXCEPT ![f] = NoObj]
      /\ m_hdls' = Erase(m_hdls, {f} \cup TimeoutEntry(t))
  BY DEF OnTimer, Take
<1>2. events \in [Fd -> OptObj(Obj)]
  BY DEF Inv, TypeOK
<1>3. ASSUME NEW g \in Fd, Meets(g), events'[g] # NoObj, ~Meets(g)'
      PROVE  Connecting(events[g]) /\ m_timeout_cb[t] = events[g]
  <2>1. g # f /\ events'[g] = events[g]
    BY <1>1, <1>2, <1>3
  <2>2. m_hdls[g] # NoObj /\ m_hdls[g] = events[g]
    BY <1>3 DEF Meets
  <2>3. g \in TimeoutEntry(t)
    BY <1>1, <1>3, <2>1, <2>2 DEF Meets, Erase
  <2> QED  BY <1>1, <2>2, <2>3, TimeoutFindsItsAttempt
<1>4. events'[f] = NoObj
  BY <1>1, <1>2
<1>5. Strands
  BY <1>1, <1>3, <1>4 DEF Strands
<1>6. Begins /\ BatchIsOver'
  BY <1>1, <1>2 DEF Begins, BatchIsOver
<1> QED  BY <1>5, <1>6

LEMMA NextStrands ==
  ASSUME Inv, BatchIsOver, [Next]_vars PROVE Strands /\ Begins /\ BatchIsOver'
<1> USE ObjAssumption
<1>1. CASE Listen \/ \E timed \in BOOLEAN : Connect(timed)
  <2>1. pc = "setup" /\ UNCHANGED <<pc, events>>
    BY <1>1 DEF Listen, Connect
  <2> QED  BY <2>1 DEF Strands, Begins, BatchIsOver, Meets
<1>2. ASSUME NEW f \in Fd, Retry(f) PROVE Strands /\ Begins /\ BatchIsOver'
  <2>1. PICK c \in Fresh(CConn), t \in NewTimer(m_timer_hdl[f] # NoObj) :
          Add(c, t, Erase(m_hdls, {f}), Erase(m_timer_hdl, {f}), interest \ {f})
    BY <1>2 DEF Retry
  <2>2. t \in Fresh(Timer) \cup {NoObj}
    BY DEF NewTimer
  <2>3. UNCHANGED m_connected /\ \A g \in {f} : Connecting(m_hdls[g])
    BY <1>2 DEF Retry
  <2>4. \A g \in Fd \ {f} : m_hdls[g] # NoObj => m_hdls'[g] = m_hdls[g]
    BY <2>1, <2>2, <2>3, AddKeeps, SMTT(30)
  <2>5. Take(f) /\ pc' = "batch"
    BY <1>2 DEF Retry, Take
  <2> QED  BY <2>4, <2>5, TakeMeets
<1>3. CASE AcceptOne
  <2>1. PICK c \in Fresh(SConn), f \in Lowest(FreeFds) :
          m_hdls' = [m_hdls EXCEPT ![f] = c]
    BY <1>3 DEF AcceptOne, Dequeue, Stored
  <2>2. m_hdls[f] = NoObj
    BY NatAssumption DEF Lowest, FreeFds, OpenFds, Inv, Registry, TypeOK, OptObj, Fd, NoFd
  <2>3. \A g \in Fd : m_hdls[g] # NoObj => m_hdls'[g] = m_hdls[g]
    BY <2>1, <2>2 DEF Inv, TypeOK
  <2>4. UNCHANGED <<pc, events>>
    BY <1>3 DEF AcceptOne, Dequeue
  <2> QED  BY <2>3, <2>4 DEF Strands, Begins, BatchIsOver, Meets
<1>4. ASSUME NEW f \in Fd, Closed(f) \/ Failed(f) \/ Established(f)
      PROVE  Strands /\ Begins /\ BatchIsOver'
  <2>1. Take(f) /\ pc' = "batch" /\ \A g \in Fd \ {f} : m_hdls'[g] = m_hdls[g]
    BY <1>4 DEF Closed, Failed, Established, Remove, Erase, Take
  <2> QED  BY <2>1, TakeMeets
<1>5. ASSUME NEW f \in Fd, NotInList(f) \/ OnListener(f) \/ Served(f)
      PROVE  Strands /\ Begins /\ BatchIsOver'
  <2>1. Take(f) /\ pc' \in {"batch", "accept"} /\ m_hdls' = m_hdls
    BY <1>5 DEF NotInList, OnListener, Served, Take, loopVars
  <2> QED  BY <2>1, TakeMeets
<1>6. ASSUME NEW batch \in SUBSET Fd, EpollWait(batch)
      PROVE  Strands /\ Begins /\ BatchIsOver'
  BY <1>6 DEF EpollWait, BatchIsOver, Strands, Begins, Meets, loopVars
<1>7. CASE StartLoop \/ Kernel \/ BatchDone \/ AcceptDropped \/ AcceptDone \/ UNCHANGED vars
  <2>1. UNCHANGED <<m_hdls, events>>
    BY <1>7 DEF StartLoop, Kernel, Arrive, Raise, Expire, BatchDone, AcceptDropped, Dequeue,
                AcceptDone, vars, loopVars
  <2>2. BatchIsOver'
    BY <1>7 DEF StartLoop, Kernel, Arrive, Raise, Expire, BatchDone, AcceptDropped, Dequeue,
                AcceptDone, vars, BatchIsOver
  <2> QED  BY <2>1, <2>2 DEF Strands, Begins, Meets
<1> QED  BY <1>1, <1>2, <1>3, <1>4, <1>5, <1>6, <1>7, TimerStrands
         DEF Next, Dispatch, Accept, AcceptExhausted, Terminated, OnConnection

\* An event that is not the one in hand stays as it is.
LEMMA EventsStay ==
  ASSUME Inv, BatchIsOver, [Next]_vars, NEW f \in Fd, events[f] # NoObj, events'[f] # NoObj
  PROVE  events'[f] = events[f]
<1>1. CASE UNCHANGED events
  BY <1>1
<1>2. ASSUME NEW g \in Fd, Take(g) PROVE events'[f] = events[f]
  BY <1>2 DEF Take, Inv, TypeOK
<1>3. ASSUME NEW batch \in SUBSET Fd, EpollWait(batch) PROVE FALSE
  BY <1>3 DEF EpollWait, BatchIsOver
<1>4. \/ UNCHANGED events
      \/ \E g \in Fd : Take(g)
      \/ \E batch \in SUBSET Fd : EpollWait(batch)
  BY DEF Next, Listen, Connect, StartLoop, Kernel, Arrive, Raise, Expire, Dispatch,
         NotInList, OnTimer, OnListener, OnConnection, Served, Closed, Established,
         Failed, Retry, BatchDone, Accept, AcceptOne, AcceptDropped, AcceptDone, AcceptExhausted,
         Terminated, vars
<1> QED  BY <1>1, <1>2, <1>3, <1>4

LEMMA BatchesEnd == Spec => []BatchIsOver
<1>1. Init => BatchIsOver
  BY DEF Init, BatchIsOver
<1>2. Inv /\ BatchIsOver /\ [Next]_vars => BatchIsOver'
  BY NextStrands
<1> QED  BY <1>1, <1>2, Invariance, PTL DEF Spec

\* An event of the batch is dispatched to the handle it was raised for, unless a
\* Timer earlier in the batch removed the connection attempt it was for: the
\* lookup by number (event_loop.cpp:28) goes wrong in no other way, however
\* many handles, Timers and events there are.
THEOREM OnlyTimeoutsStrand == Spec => StrandedByItsTimeout
<1>1. Inv /\ BatchIsOver /\ [Next]_vars => [Strands]_vars
  BY NextStrands
<1> QED  BY <1>1, BatchesEnd, Invariance, PTL DEF Spec, StrandedByItsTimeout, Strands

\* So the events of the listener, of accepted connections and of Timers always
\* meet their handles, whatever the client does (event_loop.cpp:24-41).
OnlyAttemptsAreStranded ==
  \A f \in Fd : events[f] \in SConn \cup Timer \cup {Listener} => Meets(f)

THEOREM OtherEventsMeet == Spec => []OnlyAttemptsAreStranded
<1> USE ObjAssumption
<1>1. Init => OnlyAttemptsAreStranded
  BY DEF Init, OnlyAttemptsAreStranded, Obj, Conn
<1>2. ASSUME Inv, BatchIsOver, OnlyAttemptsAreStranded, [Next]_vars
      PROVE  OnlyAttemptsAreStranded'
  <2> SUFFICES ASSUME NEW f \in Fd, events'[f] \in SConn \cup Timer \cup {Listener}
               PROVE  Meets(f)'
    BY DEF OnlyAttemptsAreStranded
  <2>1. Strands /\ Begins /\ events'[f] # NoObj
    BY <1>2, NextStrands DEF Obj, Conn
  <2>2. CASE events[f] = NoObj
    BY <2>1, <2>2 DEF Begins
  <2>3. CASE events[f] # NoObj
    <3>1. events'[f] = events[f]
      BY <1>2, <2>1, <2>3, EventsStay
    <3>2. Meets(f) /\ ~Connecting(events[f])
      BY <1>2, <3>1 DEF OnlyAttemptsAreStranded, Connecting, Conn
    <3> QED  BY <2>1, <3>2 DEF Strands
  <2> QED  BY <2>2, <2>3
<1> QED  BY <1>1, <1>2, BatchesEnd, Invariance, PTL DEF Spec

\* In a process that uses no timeouts, such as the node server alone, every
\* event is handled by the handle it was raised for: a descriptor closes only
\* while its own event is handled, so a batch never names a reused one
\* (event_loop.cpp:24-41).  The run EventLoop_stale shows a timeout breaks it.
THEOREM NoStaleEventWithoutTimers ==
  ASSUME Timer = {}
  PROVE  Spec => []EventReachesItsHandle
<1> DEFINE AllMeet == \A f \in Fd : events[f] # NoObj => Meets(f)
<1>1. Init => AllMeet
  BY DEF Init
<1>2. ASSUME Inv, BatchIsOver, AllMeet, [Next]_vars PROVE AllMeet'
  <2> SUFFICES ASSUME NEW f \in Fd, events'[f] # NoObj PROVE Meets(f)'
    OBVIOUS
  <2>1. Strands /\ Begins
    BY <1>2, NextStrands
  <2>2. CASE events[f] = NoObj
    BY <2>1, <2>2 DEF Begins
  <2>3. CASE events[f] # NoObj
    BY <1>2, <2>1, <2>3 DEF Strands
  <2> QED  BY <2>2, <2>3
<1>3. AllMeet => EventReachesItsHandle
  BY DEF Meets, EventReachesItsHandle
<1> HIDE DEF AllMeet
<1> QED  BY <1>1, <1>2, <1>3, BatchesEnd, Invariance, PTL DEF Spec
=============================================================================
