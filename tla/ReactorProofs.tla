--------------------------- MODULE ReactorProofs ---------------------------
(***************************************************************************)
(* EventLoop implements Reactor, for every number of descriptors, objects,  *)
(* events per batch and backlog.  What a step does to the calls under way   *)
(* is read off the one descriptor whose event is taken and those that are   *)
(* opened; nothing else changes, because what stays listed keeps its number *)
(* and what is raised is listed.                                            *)
(***************************************************************************)
EXTENDS EventLoopProofs, Integers, FiniteSetTheorems

-----------------------------------------------------------------------------
(* What is raised is watched *)

ReadyIsWatched == ready \subseteq interest

LEMMA SettledReady ==
  ASSUME NEW fds, NEW listed, NEW rdy, NEW conds, Settle(fds, listed, rdy, conds)
  PROVE  ReadyIsWatched'
BY DEF Settle, ReadyIsWatched

LEMMA NextReady == ASSUME Inv, ReadyIsWatched, [Next]_vars PROVE ReadyIsWatched'
<1> USE ObjAssumption
<1>1. CASE Listen \/ AcceptOne
  BY <1>1 DEF Listen, AcceptOne, ReadyIsWatched
<1>2. ASSUME NEW c \in CConn, NEW t, NEW hdls, NEW weak, NEW listed,
             Add(c, t, hdls, weak, listed)
      PROVE  ReadyIsWatched'
  BY <1>2, SettledReady DEF Add
<1>3. CASE \/ \E timed \in BOOLEAN : Connect(timed)
           \/ \E f \in Fd : Retry(f)
  <2>1. \E c \in CConn : \E t, hdls, weak, listed : Add(c, t, hdls, weak, listed)
    BY <1>3 DEF Connect, Retry, Fresh
  <2> QED  BY <1>2, <2>1
<1>4. ASSUME NEW f \in Fd, OnTimer(f) PROVE ReadyIsWatched'
  BY <1>4, SettledReady DEF OnTimer
<1>5. ASSUME NEW f \in Fd, Closed(f) \/ Failed(f) \/ Established(f)
      PROVE  ReadyIsWatched'
  <2>1. CASE \E cbs : Remove(f, cbs)
    BY <2>1, SettledReady DEF Remove
  <2>2. CASE UNCHANGED <<ready, interest>>
    BY <2>2 DEF ReadyIsWatched
  <2> QED  BY <1>5, <2>1, <2>2 DEF Closed, Failed, Established
<1>6. CASE Kernel
  <2>1. CASE Arrive
    <3>1. m_fd_result[Listener] \in interest
      BY <2>1, RegisteredAt DEF Arrive, Obj
    <3> QED  BY <2>1, <3>1 DEF Arrive, ReadyIsWatched
  <2>2. ASSUME NEW o \in Conn \cup Timer, Registered(o),
               ready' = ready \cup {m_fd_result[o]}, UNCHANGED interest
        PROVE  ReadyIsWatched'
    BY <2>2, RegisteredAt DEF Obj, ReadyIsWatched
  <2> QED  BY <1>6, <2>1, <2>2 DEF Kernel, Raise, Expire
<1>7. ASSUME NEW batch \in SUBSET Fd, EpollWait(batch) PROVE ReadyIsWatched'
  BY <1>7 DEF EpollWait, ReadyIsWatched
<1>8. CASE \/ StartLoop \/ BatchDone \/ AcceptDropped \/ AcceptDone
           \/ \E f \in Fd : NotInList(f) \/ OnListener(f) \/ Served(f)
           \/ UNCHANGED vars
  <2>1. UNCHANGED <<ready, interest>>
    BY <1>8 DEF StartLoop, BatchDone, AcceptDropped, AcceptDone, NotInList, OnListener,
                Served, vars, kernelVars
  <2> QED  BY <2>1 DEF ReadyIsWatched
<1> QED  BY <1>1, <1>3, <1>4, <1>5, <1>6, <1>7, <1>8
         DEF Next, Dispatch, Accept, AcceptExhausted, Terminated, OnConnection

LEMMA ReadyStaysWatched == Spec => []ReadyIsWatched
<1>1. Init => ReadyIsWatched
  BY DEF Init, ReadyIsWatched
<1>2. Inv /\ ReadyIsWatched /\ [Next]_vars => ReadyIsWatched'
  BY NextReady
<1> QED  BY <1>1, <1>2, Invariance, PTL DEF Spec

-----------------------------------------------------------------------------
(* Counting calls and strays *)

\* What the steps need to know of the state they start from.
Known == Inv /\ BatchIsOver /\ ReadyIsWatched /\ WeakRefs

LEMMA StraysAreCounted ==
  IsFiniteSet(StrayFds) /\ Strays \in Nat
<1>1. IsFiniteSet(Fd)
  BY FS_Interval, NatAssumption DEF Fd
<1>2. IsFiniteSet(StrayFds)
  BY <1>1, FS_Subset DEF StrayFds
<1> QED  BY <1>2, FS_CardinalityType DEF Strays

\* A handle that stays listed under its number expects the calls it expected, if
\* neither its event nor its readiness was touched.
LEMMA SameCalls ==
  ASSUME NEW o \in Obj, Registered(o), Registered(o)',
         m_fd_result'[o] = m_fd_result[o],
         m_fd_result[o] \in ready' <=> m_fd_result[o] \in ready,
         events'[m_fd_result[o]] = NoObj <=> events[m_fd_result[o]] = NoObj
  PROVE  Due'[o] = Due[o]
BY DEF Due

\* Reactor's sizes of sets are those of this module.
LEMMA SameSizes == \A S : Loop!Cardinality(S) = Cardinality(S)
BY DEF Loop!Cardinality, Cardinality, Loop!IsFiniteSet, IsFiniteSet

\* The handles of the abstract reactor are the objects.
LEMMA HandlesAreObjects == Loop!Handles = Obj
BY DEF Loop!Handles, Obj

\* After the destructors ran, whoever is listed still has the number it had
\* before, and is in the ready list as before.
LEMMA SettledPlace ==
  ASSUME Inv', NEW fds, NEW listed, NEW conds, Settle(fds, listed, ready, conds),
         NEW o \in Obj, NEW f \in Fd, m_hdls'[f] = o
  PROVE  /\ Registered(o)' /\ m_fd_result'[o] = f /\ fds[o] = f
         /\ f \in ready' <=> f \in ready
<1>1. Registered(o)' /\ m_fd_result'[o] = f /\ f \in interest'
  BY ObjAssumption DEF Registered, Inv, Registry
<1>2. Referenced(o)'
  BY <1>1 DEF Referenced
<1> QED  BY <1>1, <1>2 DEF Settle

-----------------------------------------------------------------------------
(* Joining *)

\* Who joins takes the strays at the numbers it was given.
LEMMA MetAreTaken ==
  ASSUME Inv', NEW new \in SUBSET Obj, IsFiniteSet(new), \A o \in new : Registered(o)',
         StrayFds' = StrayFds \ {m_fd_result'[o] : o \in new},
         NEW met, met = {o \in new : m_fd_result'[o] \in StrayFds}
  PROVE  /\ Cardinality(met) <= Strays
         /\ Strays' = Strays - Cardinality(met)
<1> DEFINE nums == {m_fd_result'[o] : o \in met}
           num  == [o \in met |-> m_fd_result'[o]]
<1>1. IsFiniteSet(met)
  BY FS_Subset
<1>2. \A o, p \in met : m_fd_result'[o] = m_fd_result'[p] => o = p
  BY NatAssumption DEF Inv, Registry, OwnersDistinct, StrayFds, Fd, NoFd
<1>3. num \in [met -> nums]
  OBVIOUS
<1>4. ExistsBijection(met, nums)
  <2>1. \A o, p \in met : num[o] = num[p] => o = p
    BY <1>2
  <2>2. \A x \in nums : \E o \in met : num[o] = x
    OBVIOUS
  <2>3. num \in Bijection(met, nums)
    BY <1>3, <2>1, <2>2 DEF Bijection, Injection, Surjection, IsInjective
  <2> QED  BY <2>3 DEF ExistsBijection
<1>5. Cardinality(nums) = Cardinality(met)
  BY <1>1, <1>4, FS_Bijection
<1>6. nums \subseteq StrayFds /\ StrayFds \cap nums = nums /\ StrayFds' = StrayFds \ nums
  OBVIOUS
<1>7. Cardinality(StrayFds \ nums) = Strays - Cardinality(nums)
  <2> HIDE DEF nums
  <2>1. Cardinality(StrayFds \ nums) = Cardinality(StrayFds) - Cardinality(StrayFds \cap nums)
    BY StraysAreCounted, FS_Difference
  <2> QED  BY <1>6, <2>1 DEF Strays
<1>8. Cardinality(nums) <= Strays
  BY <1>6, StraysAreCounted, FS_Subset DEF Strays
<1>9. Strays' = Cardinality(StrayFds')
  BY DEF Strays
<1> QED  BY <1>5, <1>6, <1>7, <1>8, <1>9

LEMMA Joined ==
  ASSUME Inv', NEW stay \in SUBSET Obj, NEW new \in SUBSET Obj, NEW calls \in {0, 1},
         IsFiniteSet(new), stay \cap new = {}, Listed' = stay \cup new,
         StrayFds' = StrayFds \ {m_fd_result'[o] : o \in new},
         \A o \in stay : Due'[o] = Due[o],
         \A o \in new : Due'[o] = calls + (IF m_fd_result'[o] \in StrayFds THEN 1 ELSE 0)
  PROVE  Loop!Join(stay, new, calls)
<1> DEFINE met == {o \in new : m_fd_result'[o] \in StrayFds}
<1>1. \A o \in new : Registered(o)'
  BY DEF Listed
<1>2. Cardinality(met) <= Strays /\ Strays' = Strays - Cardinality(met)
  <2> HIDE DEF met
  <2>1. met = {o \in new : m_fd_result'[o] \in StrayFds}
    BY DEF met
  <2> QED  BY <1>1, <2>1, MetAreTaken
<1>3. \A o \in Obj : Due'[o] = IF o \in met THEN calls + 1
                               ELSE IF o \in new THEN calls
                               ELSE IF o \in stay THEN Due[o] ELSE 0
  <2>1. ASSUME NEW o \in Obj, o \notin stay \cup new PROVE Due'[o] = 0
    BY <2>1 DEF Listed, Due
  <2> QED  BY <2>1
<1>4. Due' = [h \in Obj |-> IF h \in met THEN calls + 1
                            ELSE IF h \in new THEN calls
                            ELSE IF h \in stay THEN Due[h] ELSE 0]
  BY <1>3 DEF Due
<1>5. met \in SUBSET new
  OBVIOUS
<1> HIDE DEF met
<1>6. Due' = [h \in Loop!Handles |-> IF h \in met THEN calls + 1
                                     ELSE IF h \in new THEN calls
                                     ELSE IF h \in stay THEN Due[h] ELSE 0]
  BY <1>4, HandlesAreObjects, Zenon
<1> QED  BY <1>2, <1>5, <1>6, SameSizes DEF Loop!Join

\* A socket gets a free descriptor, which nobody listed has and nothing raised.
LEMMA Entered ==
  ASSUME Known, Inv', NEW o \in Conn \cup {Listener}, ~Registered(o),
         NEW f \in Lowest(FreeFds), NEW calls \in {0, 1},
         m_hdls' = [m_hdls EXCEPT ![f] = o],
         m_fd_result' = [m_fd_result EXCEPT ![o] = f],
         ready' = IF calls = 1 THEN ready \cup {f} ELSE ready,
         UNCHANGED events
  PROVE  o \notin Listed /\ Loop!Join(Listed, {o}, calls)
<1> USE ObjAssumption
<1>1. /\ m_hdls \in [Fd -> OptObj(Obj)] /\ m_fd_result \in [Obj -> Fd \cup {NoFd}]
      /\ o \in Obj /\ o \notin Timer
  BY DEF Known, Inv, TypeOK, Obj
<1>2. f \in Fd /\ f # NoFd /\ \A p \in Obj : m_fd_result[p] # f
  BY NatAssumption DEF Lowest, FreeFds, OpenFds, Fd, NoFd
<1>3. m_hdls[f] = NoObj /\ f \notin ready
  BY <1>1, <1>2 DEF Known, Inv, Registry, OptObj, ReadyIsWatched
<1>4. \A g \in Fd : m_hdls'[g] = IF g = f THEN o ELSE m_hdls[g]
  BY <1>1
<1>5. Listed' = Listed \cup {o} /\ o \notin Listed
  BY <1>1, <1>2, <1>3, <1>4 DEF Listed, Registered
<1>6. m_fd_result'[o] = f /\ \A p \in Listed : m_fd_result'[p] = m_fd_result[p]
  BY <1>1, <1>5 DEF Listed
<1>7. StrayFds' = StrayFds \ {m_fd_result'[p] : p \in {o}}
  BY <1>1, <1>2, <1>3, <1>4, <1>6 DEF StrayFds
<1>8. ASSUME NEW p \in Listed PROVE Due'[p] = Due[p]
  <2>1. p \in Obj /\ Registered(p) /\ Registered(p)'
    BY <1>5, <1>8 DEF Listed
  <2>2. m_fd_result[p] # f
    BY <1>2, <2>1
  <2> QED  BY <1>6, <2>1, <2>2, SameCalls
<1>9. Due'[o] = calls + (IF m_fd_result'[o] \in StrayFds THEN 1 ELSE 0)
  <2>1. Registered(o)'
    BY <1>5 DEF Listed
  <2>2. m_fd_result'[o] \in StrayFds <=> events'[f] # NoObj
    BY <1>2, <1>3, <1>6 DEF StrayFds
  <2>3. f \in ready' <=> calls = 1
    BY <1>3
  <2> QED  BY <1>1, <1>6, <2>1, <2>2, <2>3 DEF Due
<1>10. Listed \in SUBSET Obj /\ Listed \cap {o} = {} /\ IsFiniteSet({o})
  BY <1>5, FS_Singleton DEF Listed
<1> QED  BY <1>1, <1>5, <1>7, <1>8, <1>9, <1>10, Joined

-----------------------------------------------------------------------------
(* Being called *)

\* The handle found for an event is listed and expects the call.
LEMMA CalledIsDue ==
  ASSUME Inv, NEW f \in Fd, Take(f), NEW o \in Obj, m_hdls[f] = o
  PROVE  /\ o \in Listed /\ m_fd_result[o] = f /\ Due[o] > 0
         /\ \A g \in Fd : events'[g] = IF g = f THEN NoObj ELSE events[g]
<1>1. o \in Listed /\ Registered(o) /\ m_fd_result[o] = f
  BY ObjAssumption DEF Listed, Registered, Inv, Registry
<1>2. \A g \in Fd : events'[g] = IF g = f THEN NoObj ELSE events[g]
  BY DEF Take, Inv, TypeOK
<1>3. Due[o] > 0
  BY <1>1 DEF Due, Take
<1> QED  BY <1>1, <1>2, <1>3

\* A socket that was called and stays in the list.
LEMMA CalledAndStays ==
  ASSUME Known, NEW f \in Fd, Take(f), NEW o \in Conn \cup {Listener}, m_hdls[f] = o,
         UNCHANGED <<m_fd_result, m_hdls, ready>>
  PROVE  /\ Due' = [Due EXCEPT ![o] = @ - 1]
         /\ Listed' = Listed /\ Strays' = Strays
<1> USE ObjAssumption
<1>1. o \in Obj /\ o \notin Timer /\ Inv
  BY DEF Obj, Known
<1>2. /\ o \in Listed /\ m_fd_result[o] = f
      /\ \A g \in Fd : events'[g] = IF g = f THEN NoObj ELSE events[g]
  BY <1>1, CalledIsDue
<1>3. \A p \in Obj : Registered(p)' <=> Registered(p)
  BY DEF Registered
<1>4. Listed' = Listed
  BY <1>3 DEF Listed
<1>5. StrayFds' = StrayFds
  BY <1>1, <1>2 DEF StrayFds
<1>6. ASSUME NEW p \in Obj, p # o PROVE Due'[p] = Due[p]
  <2>1. CASE ~Registered(p)
    BY <1>3, <2>1 DEF Due
  <2>2. CASE Registered(p)
    <3>1. m_fd_result[p] \in Fd /\ m_hdls[m_fd_result[p]] = p
      BY <1>1, <2>2, RegisteredAt
    <3> QED  BY <1>2, <1>3, <1>6, <2>2, <3>1, SameCalls
  <2> QED  BY <2>1, <2>2
<1>7. Due'[o] = Due[o] - 1
  <2>1. Registered(o) /\ Registered(o)'
    BY <1>2, <1>3 DEF Listed
  <2>2. events[f] # NoObj /\ events'[f] = NoObj
    BY <1>2 DEF Take
  <2> QED  BY <1>1, <1>2, <2>1, <2>2 DEF Due
<1>8. Due' = [Due EXCEPT ![o] = @ - 1]
  <2>1. Due \in [Obj -> 0..2] /\ Due' = [p \in Obj |-> Due'[p]]
    BY DEF Due
  <2> QED  BY <1>1, <1>6, <1>7, <2>1
<1> QED  BY <1>4, <1>5, <1>8 DEF Strays

\* Entries are erased, that of the handle that was called among them: whoever
\* is still listed expects what it expected, and an event of the others that
\* were erased has become a stray.
LEMMA CalledAndErased ==
  ASSUME Known, Inv', NEW f \in Fd, Take(f), m_hdls[f] # NoObj,
         NEW gone \in SUBSET Fd, f \in gone, m_hdls' = Erase(m_hdls, gone),
         Settle(m_fd_result, interest \ gone, ready, pending)
  PROVE  /\ Listed' = Listed \ {m_hdls[g] : g \in gone}
         /\ \A o \in Obj : Due'[o] = IF o \in Listed' THEN Due[o] ELSE 0
         /\ StrayFds' = StrayFds \cup {g \in gone \ {f} : events[g] # NoObj}
<1> USE ObjAssumption
<1>1. \A g \in Fd : m_hdls'[g] = IF g \in gone THEN NoObj ELSE m_hdls[g]
  BY DEF Erase
<1>2. \A g \in Fd : events'[g] = IF g = f THEN NoObj ELSE events[g]
  BY DEF Take, Known, Inv, TypeOK
<1>3. \A g, h \in Fd : m_hdls[g] = m_hdls[h] /\ m_hdls[g] # NoObj => g = h
  BY DEF Known, Inv, Registry
<1>4. Listed' = Listed \ {m_hdls[g] : g \in gone}
  <2>1. ASSUME NEW o \in Obj
        PROVE  Registered(o)' <=> Registered(o) /\ \A g \in gone : m_hdls[g] # o
    BY <1>1, <1>3 DEF Registered
  <2> QED  BY <2>1 DEF Listed
<1>5. ASSUME NEW o \in Obj, o \in Listed' PROVE Due'[o] = Due[o]
  <2>1. PICK g \in Fd : m_hdls'[g] = o
    BY <1>5 DEF Listed, Registered
  <2>2. g \notin gone /\ g # f /\ m_hdls[g] = o
    BY <1>1, <2>1
  <2>3. /\ Registered(o)' /\ m_fd_result'[o] = g /\ m_fd_result[o] = g
        /\ g \in ready' <=> g \in ready
    BY <2>1, SettledPlace
  <2>4. Registered(o)
    BY <2>2 DEF Registered
  <2> QED  BY <1>2, <2>2, <2>3, <2>4, SameCalls
<1>6. ASSUME NEW o \in Obj, o \notin Listed' PROVE Due'[o] = 0
  BY <1>6 DEF Listed, Due
<1>7. StrayFds' = StrayFds \cup {g \in gone \ {f} : events[g] # NoObj}
  BY <1>1, <1>2 DEF StrayFds, Take
<1> QED  BY <1>4, <1>5, <1>6, <1>7

\* A handle leaves when its on_data has returned false.
LEMMA CalledAndLeaves ==
  ASSUME Known, Inv', NEW f \in Fd, Take(f), NEW cbs, Remove(f, cbs),
         NEW o \in Obj, m_hdls[f] = o
  PROVE  Loop!Join(Listed \ {o}, {}, 0)
<1>1. /\ m_hdls' = Erase(m_hdls, {f})
      /\ Settle(m_fd_result, interest \ {f}, ready, pending)
      /\ m_hdls[f] # NoObj
  BY ObjAssumption DEF Remove
<1>2. /\ Listed' = Listed \ {m_hdls[g] : g \in {f}}
      /\ \A p \in Obj : Due'[p] = IF p \in Listed' THEN Due[p] ELSE 0
      /\ StrayFds' = StrayFds \cup {g \in {f} \ {f} : events[g] # NoObj}
  BY <1>1, CalledAndErased
<1>3. Listed' = (Listed \ {o}) \cup {} /\ StrayFds' = StrayFds \ {m_fd_result'[p] : p \in {}}
  BY <1>2
<1>4. IsFiniteSet({}) /\ Listed \ {o} \in SUBSET Obj
  BY FS_EmptySet DEF Listed
<1> QED  BY <1>2, <1>3, <1>4, Joined

-----------------------------------------------------------------------------
(* EventLoop::add *)

\* Connect and Retry: the handles that were listed get free descriptors, and
\* with them the strays of those numbers; gone are the entries erased before.
LEMMA Attempted ==
  ASSUME Known, Inv', NEW c \in Fresh(CConn), NEW t \in Fresh(Timer) \cup {NoObj},
         NEW gone \in SUBSET Fd,
         \A g \in gone : m_hdls[g] # NoObj /\ events'[g] = NoObj,
         \A g \in Fd \ gone : events'[g] = events[g],
         Add(c, t, Erase(m_hdls, gone), Erase(m_timer_hdl, gone), interest \ gone),
         UNCHANGED m_connected
  PROVE  Loop!Attempt(Listed \ {m_hdls[g] : g \in gone})
<1> USE ObjAssumption
<1>1. /\ c \in CConn /\ c \in Obj /\ c \notin Timer /\ c # t /\ c # NoObj
      /\ t \in Timer \cup {NoObj}
      /\ ~Registered(c) /\ (t # NoObj => ~Registered(t) /\ t \in Obj)
  BY DEF Fresh, Referenced, Obj, Conn
<1>2. PICK co \in Opened(m_fd_result) :
        \E to \in IF t = NoObj THEN {NoFd}
                  ELSE Opened([m_fd_result EXCEPT ![c] = co]) :
          \E cr \in {NoFd, co}, tr \in {NoFd, to} :
            /\ m_hdls' = [f \in Fd |-> IF f = cr THEN c
                            ELSE IF f = tr THEN t ELSE Erase(m_hdls, gone)[f]]
            /\ m_timer_hdl' = [f \in Fd |-> IF f = cr /\ tr # NoFd THEN t
                                            ELSE Erase(m_timer_hdl, gone)[f]]
            /\ m_timeout_cb' = [u \in Timer |-> IF u = t /\ tr # NoFd THEN c
                                                ELSE m_timeout_cb[u]]
            /\ Settle([o \in Obj |-> IF o = t THEN to
                         ELSE [m_fd_result EXCEPT ![c] = co][o]],
                      (interest \ gone) \cup ({cr, tr} \ {NoFd}), ready, pending)
  BY DEF Add, Captured
<1>3. PICK to \in IF t = NoObj THEN {NoFd} ELSE Opened([m_fd_result EXCEPT ![c] = co]) :
          \E cr \in {NoFd, co}, tr \in {NoFd, to} :
            /\ m_hdls' = [f \in Fd |-> IF f = cr THEN c
                            ELSE IF f = tr THEN t ELSE Erase(m_hdls, gone)[f]]
            /\ m_timer_hdl' = [f \in Fd |-> IF f = cr /\ tr # NoFd THEN t
                                            ELSE Erase(m_timer_hdl, gone)[f]]
            /\ m_timeout_cb' = [u \in Timer |-> IF u = t /\ tr # NoFd THEN c
                                                ELSE m_timeout_cb[u]]
            /\ Settle([o \in Obj |-> IF o = t THEN to
                         ELSE [m_fd_result EXCEPT ![c] = co][o]],
                      (interest \ gone) \cup ({cr, tr} \ {NoFd}), ready, pending)
  BY <1>2
<1>4. PICK cr \in {NoFd, co}, tr \in {NoFd, to} :
            /\ m_hdls' = [f \in Fd |-> IF f = cr THEN c
                            ELSE IF f = tr THEN t ELSE Erase(m_hdls, gone)[f]]
            /\ m_timer_hdl' = [f \in Fd |-> IF f = cr /\ tr # NoFd THEN t
                                            ELSE Erase(m_timer_hdl, gone)[f]]
            /\ m_timeout_cb' = [u \in Timer |-> IF u = t /\ tr # NoFd THEN c
                                                ELSE m_timeout_cb[u]]
            /\ Settle([o \in Obj |-> IF o = t THEN to
                         ELSE [m_fd_result EXCEPT ![c] = co][o]],
                      (interest \ gone) \cup ({cr, tr} \ {NoFd}), ready, pending)
  BY <1>3
<1> DEFINE stay == Listed \ {m_hdls[g] : g \in gone}
           T    == IF tr = NoFd THEN {} ELSE {t}
           new  == IF cr = NoFd THEN T ELSE T \cup {c}
           nums == {cr, tr} \ {NoFd}
           fds  == [o \in Obj |-> IF o = t THEN to ELSE [m_fd_result EXCEPT ![c] = co][o]]
<1>5. m_hdls \in [Fd -> OptObj(Obj)] /\ m_fd_result \in [Obj -> Fd \cup {NoFd}]
  BY DEF Known, Inv, TypeOK
<1>6. tr # NoFd => t \in Timer /\ t \in Obj /\ ~Registered(t)
  BY <1>1, <1>3, <1>4
<1>7. \A p \in Obj : Registered(p) => m_fd_result[p] \notin nums
  <2> SUFFICES ASSUME NEW p \in Obj, Registered(p) PROVE m_fd_result[p] \notin nums
    OBVIOUS
  <2>1. p # c
    BY <1>1
  <2>2. m_fd_result[p] = [m_fd_result EXCEPT ![c] = co][p]
    BY <1>1, <1>5, <2>1
  <2>3. cr = NoFd \/ m_fd_result[p] # cr
    BY <1>2, <1>4 DEF Opened, Lowest, OpenFds
  <2>4. tr = NoFd \/ m_fd_result[p] # tr
    BY <1>3, <1>4, <2>2 DEF Opened, Lowest, OpenFds
  <2> QED  BY <2>3, <2>4
<1>8. nums \subseteq Fd /\ (cr # NoFd => cr # tr)
  <2>1. [m_fd_result EXCEPT ![c] = co][c] = co
    BY <1>1, <1>5
  <2>2. cr \in Fd \cup {NoFd} /\ tr \in Fd \cup {NoFd}
    BY <1>2, <1>3, <1>4 DEF Opened, Lowest
  <2>3. cr # NoFd => cr # tr
    BY <1>1, <1>2, <1>3, <1>4, <2>1 DEF Opened, Lowest, OpenFds
  <2> QED  BY <2>2, <2>3
<1>9. \A g \in nums : m_hdls[g] = NoObj /\ g \notin ready /\ g \notin gone
  <2> SUFFICES ASSUME NEW g \in nums, m_hdls[g] # NoObj PROVE FALSE
    BY <1>8 DEF Known, Inv, Registry, ReadyIsWatched
  <2>1. m_hdls[g] \in Obj /\ Registered(m_hdls[g]) /\ m_fd_result[m_hdls[g]] = g
    BY <1>5, <1>8 DEF OptObj, Registered, Known, Inv, Registry
  <2> QED  BY <1>7, <2>1
<1>10. \A g \in Fd : m_hdls'[g] = IF g = cr THEN c ELSE IF g = tr THEN t
                                  ELSE IF g \in gone THEN NoObj ELSE m_hdls[g]
  BY <1>4 DEF Erase
<1>11. \A g, h \in Fd : m_hdls[g] = m_hdls[h] /\ m_hdls[g] # NoObj => g = h
  BY DEF Known, Inv, Registry
<1>12. /\ \A p \in new : p \in Obj /\ ~Registered(p)
       /\ cr # NoFd => m_hdls'[cr] = c
       /\ tr # NoFd => m_hdls'[tr] = t
  BY <1>1, <1>6, <1>8, <1>10
<1>13. Listed' = stay \cup new
  <2>1. ASSUME NEW p \in Obj, Registered(p)' PROVE p \in stay \cup new
    <3>1. PICK g \in Fd : m_hdls'[g] = p
      BY <2>1 DEF Registered
    <3>2. CASE g \in nums
      BY <1>10, <3>1, <3>2
    <3>3. CASE g \notin nums
      <4>1. NoFd \notin Fd
        BY DEF Fd, NoFd
      <4>2. g \notin gone /\ m_hdls[g] = p
        BY <1>10, <3>1, <3>3, <4>1
      <4>3. \A h \in gone : m_hdls[h] # p
        BY <1>11, <4>2
      <4> QED  BY <4>2, <4>3 DEF Listed, Registered
    <3> QED  BY <3>2, <3>3
  <2>2. ASSUME NEW p \in stay PROVE p \in Listed'
    <3>1. PICK g \in Fd : m_hdls[g] = p /\ g \notin gone
      BY <2>2 DEF Listed, Registered
    <3>2. p \in Obj /\ g \notin nums /\ NoFd \notin Fd
      BY <1>9, <2>2, <3>1 DEF Listed, Fd, NoFd
    <3> QED  BY <1>10, <3>1, <3>2 DEF Listed, Registered
  <2>3. ASSUME NEW p \in new PROVE p \in Listed'
    BY <1>8, <1>12, <2>3 DEF Listed, Registered
  <2> QED  BY <2>1, <2>2, <2>3 DEF Listed
<1>14. Settle(fds, (interest \ gone) \cup nums, ready, pending)
  BY <1>4
<1>15. (cr # NoFd => m_fd_result'[c] = cr) /\ (tr # NoFd => m_fd_result'[t] = tr)
  BY <1>8, <1>12 DEF Inv, Registry
<1>16. {m_fd_result'[p] : p \in new} = nums
  BY <1>15
<1>17. StrayFds' = StrayFds \ nums
  <2>1. NoFd \notin Fd
    BY DEF Fd, NoFd
  <2>2. \A g \in nums : m_hdls'[g] # NoObj
    BY <1>1, <1>6, <1>8, <1>12
  <2>3. \A g \in Fd \ nums : m_hdls'[g] = IF g \in gone THEN NoObj ELSE m_hdls[g]
    BY <1>10, <2>1
  <2>4. ASSUME NEW g \in Fd PROVE g \in StrayFds' <=> g \in StrayFds \ nums
    <3> HIDE DEF nums
    <3> QED  BY <1>9, <2>2, <2>3 DEF StrayFds
  <2>5. StrayFds' \subseteq Fd /\ StrayFds \subseteq Fd
    BY DEF StrayFds
  <2> QED  BY <2>4, <2>5
<1>18. ASSUME NEW p \in stay PROVE Due'[p] = Due[p]
  <2>1. PICK g \in Fd : m_hdls[g] = p /\ g \notin gone
    BY <1>18 DEF Listed, Registered
  <2>2. p \in Obj /\ g \notin nums /\ NoFd \notin Fd
    BY <1>9, <1>18, <2>1 DEF Listed, Fd, NoFd
  <2>3. m_hdls'[g] = p
    BY <1>10, <2>1, <2>2
  <2>4. Registered(p) /\ m_fd_result[p] = g
    BY <2>1, <2>2 DEF Registered, Known, Inv, Registry
  <2> HIDE DEF fds
  <2>5. /\ Registered(p)' /\ m_fd_result'[p] = g /\ (g \in ready' <=> g \in ready)
    BY <1>14, <2>2, <2>3, SettledPlace
  <2> QED  BY <2>1, <2>2, <2>4, <2>5, SameCalls
<1>19. ASSUME NEW p \in new
       PROVE  Due'[p] = 0 + (IF m_fd_result'[p] \in StrayFds THEN 1 ELSE 0)
  <2>1. m_fd_result'[p] \in nums
    BY <1>16, <1>19
  <2>2. m_fd_result'[p] \in StrayFds <=> events'[m_fd_result'[p]] # NoObj
    BY <1>8, <1>9, <2>1 DEF StrayFds
  <2>3. m_fd_result'[p] \notin ready'
    BY <1>9, <1>14, <2>1 DEF Settle
  <2>4. p \in Obj /\ Registered(p)'
    BY <1>12, <1>13, <1>19 DEF Listed
  <2> HIDE DEF new, nums
  <2> QED  BY <2>2, <2>3, <2>4 DEF Due
<1>20. /\ IsFiniteSet(new) /\ Cardinality(T) <= 1
       /\ new = T \/ new = T \cup {c}
  <2>1. IsFiniteSet(T) /\ Cardinality(T) <= 1
    <3>1. CASE tr = NoFd
      BY <3>1, FS_EmptySet
    <3>2. CASE tr # NoFd
      <4>1. T = {t}
        BY <3>2
      <4>2. IsFiniteSet({t}) /\ Cardinality({t}) = 1
        BY FS_Singleton
      <4> HIDE DEF T
      <4> QED  BY <4>1, <4>2
    <3> QED  BY <3>1, <3>2
  <2> HIDE DEF T
  <2> QED  BY <2>1, FS_AddElement
<1>21. stay \in SUBSET Obj /\ new \in SUBSET Obj /\ stay \cap new = {}
  BY <1>12 DEF Listed
<1>22. Loop!Join(stay, new, 0)
  <2> HIDE DEF stay, new, nums
  <2> QED  BY <1>13, <1>16, <1>17, <1>18, <1>19, <1>20, <1>21, Joined
<1>23. c \in CConn \ Listed /\ T \in SUBSET (Timer \ Listed)
  BY <1>1, <1>6 DEF Listed
<1>24. m_timeout_cb' = [u \in Timer |-> IF u \in T THEN c ELSE m_timeout_cb[u]]
  BY <1>4
<1> HIDE DEF stay, T, new
<1>25. Loop!Attempt(stay)
  BY <1>20, <1>22, <1>23, <1>24, SameSizes DEF Loop!Attempt
<1> QED  BY <1>25 DEF stay

-----------------------------------------------------------------------------
(* Each step is a step of Reactor, or none *)

\* A step that touches neither map nor events nor ready list.
LEMMA Invisible ==
  ASSUME UNCHANGED <<m_fd_result, m_hdls, m_timeout_cb, m_connected, ready, events>>
  PROVE  UNCHANGED Loop!reactorVars
<1>1. \A o \in Obj : Registered(o)' <=> Registered(o)
  BY DEF Registered
<1>2. Listed' = Listed /\ Due' = Due
  BY <1>1 DEF Listed, Due
<1>3. StrayFds' = StrayFds
  BY DEF StrayFds
<1> QED  BY <1>2, <1>3 DEF Loop!reactorVars, Strays

\* The kernel raises a descriptor: one more call, unless it was raised already.
LEMMA Signalled ==
  ASSUME Known, NEW o \in Obj, Registered(o), ready' = ready \cup {m_fd_result[o]},
         UNCHANGED <<m_fd_result, m_hdls, m_timeout_cb, m_connected, events>>
  PROVE  Loop!Signal(o) \/ UNCHANGED Loop!reactorVars
<1> USE ObjAssumption
<1> DEFINE f == m_fd_result[o]
<1>1. \A p \in Obj : Registered(p)' <=> Registered(p)
  BY DEF Registered
<1>2. Listed' = Listed /\ Strays' = Strays /\ o \in Listed
  <2>1. StrayFds' = StrayFds
    BY DEF StrayFds
  <2> QED  BY <1>1, <2>1 DEF Listed, Strays
<1>3. ASSUME NEW p \in Obj, p # o PROVE Due'[p] = Due[p]
  <2>1. CASE ~Registered(p)
    BY <1>1, <2>1 DEF Due
  <2>2. CASE Registered(p)
    <3>1. m_fd_result[p] # f
      BY <1>3, <2>2, RegisteredAt DEF Known
    <3> QED  BY <1>1, <2>2, <3>1, SameCalls
  <2> QED  BY <2>1, <2>2
<1>4. Due \in [Obj -> 0..2] /\ Due' = [p \in Obj |-> Due'[p]]
  BY DEF Due
<1>5. CASE Due'[o] = Due[o]
  <2>1. Due' = Due
    BY <1>3, <1>4, <1>5
  <2> QED  BY <1>2, <2>1 DEF Loop!reactorVars
<1>6. CASE Due'[o] # Due[o]
  <2>1. f \notin ready /\ f \in ready' /\ Registered(o)'
    <3>1. f \in ready => ready' = ready
      OBVIOUS
    <3>2. f \in ready => Due'[o] = Due[o]
      BY <1>1, <3>1, SameCalls
    <3> QED  BY <1>1, <1>6, <3>2
  <2>2. Due'[o] = Due[o] + 1 /\ Due[o] < Loop!Pending(o)
    BY <1>6, <2>1 DEF Due, Loop!Pending
  <2>3. Due' = [Due EXCEPT ![o] = @ + 1]
    BY <1>3, <1>4, <2>2
  <2> QED  BY <1>2, <2>2, <2>3 DEF Loop!Signal
<1> QED  BY <1>5, <1>6

\* epoll_wait only moves calls from the ready list to the batch.
LEMMA WaitIsInvisible ==
  ASSUME Known, NEW batch \in SUBSET Fd, EpollWait(batch)
  PROVE  UNCHANGED Loop!reactorVars
<1> USE ObjAssumption
<1>1. \A g \in Fd : events[g] = NoObj
  BY DEF Known, BatchIsOver, EpollWait
<1>2. /\ \A g \in Fd : events'[g] = IF g \in batch THEN m_hdls[g] ELSE NoObj
      /\ ready' = {g \in ready : g \in batch => m_hdls[g] \in Timer}
      /\ batch \subseteq ready
      /\ UNCHANGED <<m_fd_result, m_hdls, m_timeout_cb, m_connected>>
  BY DEF EpollWait, loopVars
<1>3. \A g \in batch : m_hdls[g] # NoObj
  BY <1>2 DEF Known, ReadyIsWatched, Inv, Registry
<1>4. \A p \in Obj : Registered(p)' <=> Registered(p)
  BY <1>2 DEF Registered
<1>5. ASSUME NEW p \in Obj PROVE Due'[p] = Due[p]
  <2>1. CASE ~Registered(p)
    BY <1>4, <2>1 DEF Due
  <2>2. CASE Registered(p)
    <3>1. m_fd_result[p] \in Fd /\ m_hdls[m_fd_result[p]] = p
      BY <2>2, RegisteredAt DEF Known
    <3>2. m_fd_result'[p] = m_fd_result[p] /\ Registered(p)'
      BY <1>2, <1>4, <2>2
    <3>3. CASE m_fd_result[p] \notin batch
      <4>1. events'[m_fd_result[p]] = NoObj /\ events[m_fd_result[p]] = NoObj
        BY <1>1, <1>2, <3>1, <3>3
      <4>2. m_fd_result[p] \in ready' <=> m_fd_result[p] \in ready
        BY <1>2, <3>3
      <4> QED  BY <2>2, <3>2, <4>1, <4>2, SameCalls
    <3>4. CASE m_fd_result[p] \in batch
      <4>1. /\ events[m_fd_result[p]] = NoObj /\ events'[m_fd_result[p]] # NoObj
            /\ m_fd_result[p] \in ready
            /\ m_fd_result[p] \in ready' <=> p \in Timer
        BY <1>1, <1>2, <1>3, <3>1, <3>4
      <4> QED  BY <2>2, <3>2, <4>1 DEF Due
    <3> QED  BY <3>3, <3>4
  <2> QED  BY <2>1, <2>2
<1>6. Due' = Due /\ Listed' = Listed
  <2>1. Due = [p \in Obj |-> Due[p]] /\ Due' = [p \in Obj |-> Due'[p]]
    BY DEF Due
  <2> QED  BY <1>4, <1>5, <2>1 DEF Listed
<1>7. StrayFds = {} /\ StrayFds' = {}
  BY <1>1, <1>2, <1>3 DEF StrayFds
<1>8. Strays' = Strays
  BY <1>7 DEF Strays
<1> QED  BY <1>2, <1>6, <1>8 DEF Loop!reactorVars

\* "not in epoll list": a stray is dropped.
LEMMA NotInListDrops == ASSUME Known, NEW f \in Fd, NotInList(f) PROVE Loop!Drop
<1>1. /\ m_hdls[f] = NoObj /\ events[f] # NoObj
      /\ UNCHANGED <<m_fd_result, m_hdls, m_timeout_cb, m_connected, ready>>
      /\ \A g \in Fd : events'[g] = IF g = f THEN NoObj ELSE events[g]
  BY DEF NotInList, Take, loopVars, kernelVars, Known, Inv, TypeOK
<1>2. StrayFds' = StrayFds \ {f} /\ f \in StrayFds
  BY <1>1 DEF StrayFds
<1>3. Strays' = Strays - 1
  <2>1. Cardinality(StrayFds \ {f}) = Cardinality(StrayFds) - 1
    BY <1>2, StraysAreCounted, FS_RemoveElement
  <2> QED  BY <1>2, <2>1 DEF Strays
<1>4. Strays > 0
  <2>1. StrayFds # {} /\ IsFiniteSet(StrayFds) /\ Strays \in Nat
    BY <1>2, StraysAreCounted
  <2>2. Strays # 0
    BY <2>1, FS_EmptySet DEF Strays
  <2> QED  BY <2>1, <2>2
<1>5. \A p \in Obj : Registered(p)' <=> Registered(p)
  BY <1>1 DEF Registered
<1>6. ASSUME NEW p \in Obj PROVE Due'[p] = Due[p]
  <2>1. CASE ~Registered(p)
    BY <1>5, <2>1 DEF Due
  <2>2. CASE Registered(p)
    <3>1. m_fd_result[p] \in Fd /\ m_hdls[m_fd_result[p]] = p
      BY <2>2, RegisteredAt DEF Known
    <3>2. m_fd_result[p] # f
      BY <1>1, <3>1, ObjAssumption
    <3> QED  BY <1>1, <1>5, <2>2, <3>1, <3>2, SameCalls
  <2> QED  BY <2>1, <2>2
<1>7. Due' = Due /\ Listed' = Listed
  <2>1. Due = [p \in Obj |-> Due[p]] /\ Due' = [p \in Obj |-> Due'[p]]
    BY DEF Due
  <2> QED  BY <1>5, <1>6, <2>1 DEF Listed
<1> QED  BY <1>1, <1>3, <1>4, <1>7 DEF Loop!Drop

\* A Timer is called: its callback finds the attempt it captured or nothing.
LEMMA OnTimerTimesOut ==
  ASSUME Known, Inv', NEW f \in Fd, OnTimer(f) PROVE Loop!Timeout(m_hdls[f])
<1> USE ObjAssumption
<1> DEFINE t == m_hdls[f]
           c == m_timeout_cb[t]
           gone == {f} \cup TimeoutEntry(t)
<1>1. /\ t \in Timer /\ t \in Obj /\ Take(f) /\ Inv
      /\ m_hdls' = Erase(m_hdls, gone)
      /\ m_timeout_cb' = [m_timeout_cb EXCEPT ![t] = NoObj]
      /\ Settle(m_fd_result, interest \ gone, ready, pending)
      /\ UNCHANGED m_connected
  BY DEF OnTimer, Obj, Known
<1>2. \A g \in TimeoutEntry(t) : g \in Fd /\ m_hdls[g] \in {NoObj, c}
  BY <1>1, TimeoutFindsItsAttempt
<1>3. /\ Listed' = Listed \ {m_hdls[g] : g \in gone}
      /\ \A o \in Obj : Due'[o] = IF o \in Listed' THEN Due[o] ELSE 0
      /\ StrayFds' = StrayFds \cup {g \in gone \ {f} : events[g] # NoObj}
  <2>1. gone \in SUBSET Fd /\ f \in gone /\ m_hdls[f] # NoObj
    BY <1>1, <1>2
  <2> HIDE DEF gone
  <2> QED  BY <1>1, <2>1, CalledAndErased
<1>4. c \in Listed => c \in Obj /\ m_fd_result[c] \in Fd /\ m_hdls[m_fd_result[c]] = c
  BY <1>1, RegisteredAt DEF Listed
<1>5. c \in Listed => TimeoutEntry(t) = {m_fd_result[c]}
  <2>1. c \in Listed => c # NoObj /\ m_fd_result[c] # NoFd
    BY <1>4 DEF Fd, NoFd
  <2> QED  BY <2>1 DEF TimeoutEntry
<1>6. Listed' = Listed \ {t, c}
  <2>1. NoObj \notin Listed
    BY DEF Listed
  <2>2. \A o \in Listed : o \in {m_hdls[g] : g \in gone} <=> o \in {t, c}
    BY <1>2, <1>4, <1>5, <2>1
  <2> QED  BY <1>3, <2>2
<1>7. t \in Listed /\ Due[t] > 0
  BY <1>1, CalledIsDue
<1>8. Due' = [h \in Loop!Handles |-> IF h \in {t, c} THEN 0 ELSE Due[h]]
  <2>1. \A o \in Obj : Due'[o] = IF o \in {t, c} THEN 0 ELSE Due[o]
    <3>1. \A o \in Obj : o \notin Listed => Due[o] = 0
      BY DEF Listed, Due
    <3> QED  BY <1>3, <1>6, <3>1
  <2>2. Due' = [o \in Obj |-> IF o \in {t, c} THEN 0 ELSE Due[o]]
    BY <2>1 DEF Due
  <2> QED  BY <2>2, HandlesAreObjects, Zenon
<1>9. \/ Strays' = Strays
      \/ c \in Listed /\ Due[c] > 0 /\ Strays' = Strays + 1
  <2>1. CASE c \in Listed /\ events[m_fd_result[c]] # NoObj /\ m_fd_result[c] # f
    <3>1. StrayFds' = StrayFds \cup {m_fd_result[c]} /\ m_fd_result[c] \notin StrayFds
      BY <1>3, <1>4, <1>5, <2>1 DEF StrayFds, Listed
    <3>2. Strays' = Strays + 1
      <4>1. Cardinality(StrayFds \cup {m_fd_result[c]}) = Cardinality(StrayFds) + 1
        BY <3>1, StraysAreCounted, FS_AddElement
      <4> QED  BY <3>1, <4>1 DEF Strays
    <3>3. Due[c] > 0
      BY <1>4, <2>1 DEF Due, Listed
    <3> QED  BY <2>1, <3>2, <3>3
  <2>2. CASE ~(c \in Listed /\ events[m_fd_result[c]] # NoObj /\ m_fd_result[c] # f)
    <3>1. \A g \in gone \ {f} : events[g] # NoObj => g \in StrayFds
      <4> SUFFICES ASSUME NEW g \in TimeoutEntry(t), g # f, events[g] # NoObj,
                          m_hdls[g] # NoObj
                   PROVE  FALSE
        BY <1>2 DEF StrayFds
      <4>1. g \in Fd /\ m_hdls[g] = c /\ c # NoObj
        BY <1>2
      <4>2. c \in Obj /\ m_fd_result[c] = g /\ c \in Listed
        BY <4>1 DEF Known, Inv, TypeOK, OptObj, Registry, Listed, Registered
      <4> QED  BY <2>2, <4>2
    <3>2. StrayFds' = StrayFds
      BY <1>3, <3>1
    <3> QED  BY <3>2 DEF Strays
  <2> QED  BY <2>1, <2>2
<1>10. c \notin m_connected
  <2> SUFFICES ASSUME c \in m_connected PROVE FALSE
    OBVIOUS
  <2>1. PICK g \in Fd : m_hdls[g] = c
    BY <1>1 DEF Inv, Registry, Registered
  <2>2. c # NoObj
    BY <1>1 DEF Inv, TypeOK, Obj, Conn
  <2> QED  BY <1>1, <2>1, <2>2 DEF Inv, TimeoutsAreForAttempts, Connecting
<1> QED  BY <1>1, <1>6, <1>7, <1>8, <1>9, <1>10 DEF Loop!Timeout

\* disable_timeout: the entry's weak_ptr leads to the one Timer that captured the
\* entry's handle, or to none.
LEMMA DisabledIsReleased ==
  ASSUME Known, NEW f \in Fd, m_hdls[f] \in Conn
  PROVE  Disabled(f) = Loop!Released(m_hdls[f])
<1> USE ObjAssumption
<1>1. ASSUME NEW t \in Timer, t = m_timer_hdl[f]
      PROVE  m_timeout_cb[t] \in {NoObj, m_hdls[f]}
  BY <1>1 DEF Known, WeakRefs, Obj
<1>2. ASSUME NEW t \in Timer, m_timeout_cb[t] = m_hdls[f] PROVE t = m_timer_hdl[f]
  BY <1>2 DEF Known, Inv, TimeoutsAreForAttempts, Obj
<1>3. \A t \in Timer : (IF t = m_timer_hdl[f] THEN NoObj ELSE m_timeout_cb[t])
                       = (IF m_timeout_cb[t] = m_hdls[f] THEN NoObj ELSE m_timeout_cb[t])
  BY <1>1, <1>2
<1> QED  BY <1>3 DEF Disabled, Loop!Released

\* The outcomes of tcp::Connection::on_data.
Calls(h) == Loop!Serve(h) \/ Loop!Establish(h) \/ Loop!Leave(h) \/ Loop!Retry(h)

LEMMA OnConnectionCalls ==
  ASSUME Known, Inv', NEW f \in Fd, OnConnection(f) PROVE Calls(m_hdls[f])
<1> USE ObjAssumption
<1> DEFINE h == m_hdls[f]
<1>1. h \in Conn /\ h \in Obj /\ Take(f) /\ Inv
  BY DEF OnConnection, Served, Closed, Established, Failed, Retry, Connecting, Conn, Obj,
         Known
<1>2. /\ Loop!Called(h)
      /\ \A g \in Fd : events'[g] = IF g = f THEN NoObj ELSE events[g]
  BY <1>1, CalledIsDue DEF Loop!Called
<1>3. Disabled(f) = Loop!Released(h)
  BY <1>1, DisabledIsReleased
<1>4. ASSUME UNCHANGED <<m_fd_result, m_hdls, ready>> PROVE Loop!Stay(h)
  BY <1>1, <1>2, <1>4, CalledAndStays DEF Loop!Stay
<1>5. ASSUME NEW cbs \in {m_timeout_cb, Disabled(f)}, Remove(f, cbs),
             m_connected' = m_connected \ {h}
      PROVE  Loop!Leave(h)
  <2>1. Loop!Join(Listed \ {h}, {}, 0)
    BY <1>1, <1>5, CalledAndLeaves
  <2>2. m_timeout_cb' \in {m_timeout_cb, Loop!Released(h)}
    BY <1>3, <1>5 DEF Remove
  <2> QED  BY <1>2, <1>5, <2>1, <2>2 DEF Loop!Leave
<1>6. CASE Served(f)
  <2>1. UNCHANGED <<m_fd_result, m_hdls, ready, m_timeout_cb, m_connected>>
    BY <1>6 DEF Served, loopVars
  <2> QED  BY <1>4, <2>1 DEF Loop!Serve, Calls
<1>7. CASE Closed(f)
  BY <1>5, <1>7 DEF Closed, Calls
<1>8. CASE Failed(f)
  <2>1. m_connected' = m_connected \ {h}
    BY <1>8 DEF Failed, Connecting
  <2> QED  BY <1>5, <1>8, <2>1 DEF Failed, Calls
<1>9. CASE Established(f)
  <2>1. h \in CConn \ m_connected
    BY <1>9 DEF Established, Connecting
  <2>2. CASE /\ m_connected' = m_connected \cup {h}
             /\ m_timeout_cb' = Disabled(f)
             /\ UNCHANGED <<m_fd_result, m_hdls, ready>>
    BY <1>3, <1>4, <2>1, <2>2 DEF Loop!Establish, Calls
  <2>3. CASE UNCHANGED m_connected /\ Remove(f, Disabled(f))
    <3>1. m_connected' = m_connected \ {h}
      BY <2>1, <2>3
    <3> QED  BY <1>5, <2>3, <3>1 DEF Calls
  <2> QED  BY <1>9, <2>2, <2>3 DEF Established
<1>10. CASE Retry(f)
  <2>1. PICK c \in Fresh(CConn), t \in NewTimer(m_timer_hdl[f] # NoObj) :
          Add(c, t, Erase(m_hdls, {f}), Erase(m_timer_hdl, {f}), interest \ {f})
    BY <1>10 DEF Retry
  <2>2. t \in Fresh(Timer) \cup {NoObj}
    BY DEF NewTimer
  <2>3. /\ \A g \in {f} : m_hdls[g] # NoObj /\ events'[g] = NoObj
        /\ \A g \in Fd \ {f} : events'[g] = events[g]
        /\ UNCHANGED m_connected
    BY <1>1, <1>2, <1>10 DEF Retry
  <2>4. Loop!Attempt(Listed \ {m_hdls[g] : g \in {f}})
    BY <2>1, <2>2, <2>3, Attempted
  <2>5. {m_hdls[g] : g \in {f}} = {h} /\ h \in CConn \ m_connected
    BY <1>10 DEF Retry, Connecting
  <2>6. Loop!Attempt(Listed \ {h})
    BY <2>4, <2>5, Zenon
  <2> QED  BY <1>2, <2>5, <2>6 DEF Loop!Retry, Calls
<1> QED  BY <1>6, <1>7, <1>8, <1>9, <1>10 DEF OnConnection

LEMMA ConnectAttempts ==
  ASSUME Known, Inv', NEW timed \in BOOLEAN, Connect(timed) PROVE Loop!Attempt(Listed)
<1>1. PICK c \in Fresh(CConn), t \in NewTimer(timed) :
        Add(c, t, m_hdls, m_timer_hdl, interest)
  BY DEF Connect
<1>2. t \in Fresh(Timer) \cup {NoObj}
  BY DEF NewTimer
<1>3. /\ Erase(m_hdls, {}) = m_hdls
      /\ Erase(m_timer_hdl, {}) = m_timer_hdl
      /\ interest \ {} = interest
  BY DEF Known, Inv, TypeOK, Erase
<1>4. Add(c, t, Erase(m_hdls, {}), Erase(m_timer_hdl, {}), interest \ {})
  BY <1>1, <1>3, Zenon
<1>5. /\ \A g \in {} : m_hdls[g] # NoObj /\ events'[g] = NoObj
      /\ \A g \in Fd \ {} : events'[g] = events[g]
      /\ UNCHANGED m_connected
  BY DEF Connect
<1>6. Loop!Attempt(Listed \ {m_hdls[g] : g \in {}})
  BY <1>2, <1>4, <1>5, Attempted
<1>7. Listed \ {m_hdls[g] : g \in {}} = Listed
  OBVIOUS
<1> QED  BY <1>6, <1>7, Zenon

LEMMA StepImplementsReactor ==
  ASSUME Known, Inv', [Next]_vars PROVE [Loop!Next]_Loop!reactorVars
<1> USE ObjAssumption
<1>1. CASE Listen
  <2>1. PICK f \in Lowest(FreeFds) :
          /\ m_hdls' = [m_hdls EXCEPT ![f] = Listener]
          /\ m_fd_result' = [m_fd_result EXCEPT ![Listener] = f]
    BY <1>1 DEF Listen
  <2>2. ~Registered(Listener)
    <3>1. m_fd_result[Listener] = NoFd
      BY <1>1 DEF Listen
    <3> QED  BY <3>1, RegisteredAt DEF Known, Obj, Fd, NoFd
  <2>3. ready' = (IF 0 = 1 THEN ready \cup {f} ELSE ready) /\ UNCHANGED events
    BY <1>1 DEF Listen
  <2>4. Listener \notin Listed /\ Loop!Join(Listed, {Listener}, 0)
    BY <2>1, <2>2, <2>3, Entered
  <2>5. Loop!Enter(Listener, 0)
    BY <1>1, <2>4 DEF Loop!Enter, Listen
  <2> QED  BY <2>5 DEF Loop!Next
<1>2. ASSUME NEW timed \in BOOLEAN, Connect(timed) PROVE Loop!Next
  BY <1>2, ConnectAttempts DEF Loop!Next
<1>3. CASE AcceptOne
  <2>1. PICK c \in Fresh(SConn), f \in Lowest(FreeFds) :
          /\ m_hdls' = [m_hdls EXCEPT ![f] = c]
          /\ m_fd_result' = [m_fd_result EXCEPT ![c] = f]
          /\ ready' = ready \cup {f}
    BY <1>3 DEF AcceptOne
  <2>2. ~Registered(c) /\ c \in Conn \cup {Listener}
    BY DEF Fresh, Referenced, Conn
  <2>3. ready' = (IF 1 = 1 THEN ready \cup {f} ELSE ready) /\ UNCHANGED events
    BY <1>3, <2>1 DEF AcceptOne
  <2>4. c \notin Listed /\ Loop!Join(Listed, {c}, 1)
    BY <2>1, <2>2, <2>3, Entered
  <2>5. Loop!Enter(c, 1)
    BY <1>3, <2>2, <2>4 DEF Loop!Enter, AcceptOne
  <2> QED  BY <2>2, <2>5 DEF Loop!Next
<1>4. CASE Kernel
  <2>1. ASSUME NEW o \in Obj, Registered(o), ready' = ready \cup {m_fd_result[o]},
               UNCHANGED <<m_fd_result, m_hdls, m_timeout_cb, m_connected, events>>
        PROVE  [Loop!Next]_Loop!reactorVars
    BY <2>1, Signalled, HandlesAreObjects DEF Loop!Next
  <2>2. CASE Arrive
    BY <2>1, <2>2 DEF Arrive, Obj, loopVars
  <2>3. ASSUME NEW c \in Conn, Raise(c) PROVE [Loop!Next]_Loop!reactorVars
    BY <2>1, <2>3 DEF Raise, Obj, loopVars
  <2>4. ASSUME NEW t \in Timer, Expire(t) PROVE [Loop!Next]_Loop!reactorVars
    BY <2>1, <2>4 DEF Expire, Obj, loopVars
  <2> QED  BY <1>4, <2>2, <2>3, <2>4 DEF Kernel
<1>5. ASSUME NEW f \in Fd, OnListener(f) PROVE Loop!Next
  <2>1. /\ Take(f) /\ m_hdls[f] = Listener
        /\ UNCHANGED <<m_fd_result, m_hdls, ready, m_timeout_cb, m_connected>>
    BY <1>5 DEF OnListener, loopVars, kernelVars
  <2>2. /\ Due' = [Due EXCEPT ![Listener] = @ - 1]
        /\ Listed' = Listed /\ Strays' = Strays
    BY <2>1, CalledAndStays
  <2>3. Listener \in Listed /\ Due[Listener] > 0
    BY <2>1, CalledIsDue DEF Known, Obj
  <2>4. Loop!Serve(Listener)
    BY <2>1, <2>2, <2>3 DEF Loop!Serve, Loop!Stay, Loop!Called
  <2> QED  BY <2>4 DEF Loop!Next
<1>6. ASSUME NEW f \in Fd, OnConnection(f) PROVE Loop!Next
  <2>1. m_hdls[f] \in Conn
    BY <1>6 DEF OnConnection, Served, Closed, Established, Failed, Retry, Connecting, Conn
  <2>2. Calls(m_hdls[f])
    BY <1>6, OnConnectionCalls
  <2> QED  BY <2>1, <2>2 DEF Loop!Next, Calls
<1>7. ASSUME NEW f \in Fd, OnTimer(f) PROVE Loop!Next
  <2>1. m_hdls[f] \in Timer
    BY <1>7 DEF OnTimer
  <2>2. Loop!Timeout(m_hdls[f])
    BY <1>7, OnTimerTimesOut
  <2> QED  BY <2>1, <2>2 DEF Loop!Next
<1>8. ASSUME NEW f \in Fd, NotInList(f) PROVE Loop!Next
  BY <1>8, NotInListDrops DEF Loop!Next
<1>9. ASSUME NEW batch \in SUBSET Fd, EpollWait(batch)
      PROVE  [Loop!Next]_Loop!reactorVars
  BY <1>9, WaitIsInvisible
<1>10. CASE StartLoop \/ BatchDone \/ AcceptDropped \/ AcceptDone \/ UNCHANGED vars
  <2>1. UNCHANGED <<m_fd_result, m_hdls, m_timeout_cb, m_connected, ready, events>>
    BY <1>10 DEF StartLoop, BatchDone, AcceptDropped, AcceptDone, vars, loopVars, kernelVars
  <2> QED  BY <2>1, Invisible
<1> QED  BY <1>1, <1>2, <1>3, <1>4, <1>5, <1>6, <1>7, <1>8, <1>9, <1>10
         DEF Next, Dispatch, Accept, AcceptExhausted, Terminated

-----------------------------------------------------------------------------
(* The theorem *)

\* The loop implements Reactor: a handle is called once for each time it was
\* signalled, and otherwise only if a timeout left a call behind; only its own
\* call takes it out of the list, or its own timeout until it is connected
\* (event_loop.cpp:22-70, timer.cpp:45-54, client.cpp:109-165).
THEOREM ImplementsReactor == Spec => ReactorSpec
<1>1. Init => Loop!Init
  <2> SUFFICES ASSUME Init PROVE Loop!Init
    OBVIOUS
  <2>1. Listed = {} /\ StrayFds = {} /\ \A o \in Obj : Due[o] = 0
    BY ObjAssumption DEF Init, Listed, Registered, StrayFds, Due
  <2>2. Due = [h \in Loop!Handles |-> 0]
    <3>1. Due = [h \in Obj |-> 0]
      BY <2>1 DEF Due
    <3> QED  BY <3>1, HandlesAreObjects, Zenon
  <2>3. Strays = 0
    BY <2>1, FS_EmptySet DEF Strays
  <2> QED  BY <2>1, <2>2, <2>3 DEF Init, Loop!Init
<1>2. Inv /\ BatchIsOver /\ ReadyIsWatched /\ OwnInv /\ Inv' /\ [Next]_vars
        => [Loop!Next]_Loop!reactorVars
  BY StepImplementsReactor DEF Known, OwnInv
<1>3. Spec => []OwnInv
  BY OwnersStay
<1> QED  BY <1>1, <1>2, <1>3, Invariance, BatchesEnd, ReadyStaysWatched, PTL
         DEF Spec, ReactorSpec, Loop!Spec
=============================================================================
