------------------------- MODULE ClientAttemptsProofs -------------------------
(***************************************************************************)
(* Proofs about TimerFd and ClientAttempts.  First what the conversion of  *)
(* a timeout gives for every number of milliseconds; then an inductive     *)
(* invariant of the chain of attempts, from which all its safety           *)
(* invariants follow.                                                      *)
(***************************************************************************)
EXTENDS ClientAttempts, FiniteSetTheorems, TLAPS

-----------------------------------------------------------------------------
(* The conversion *)

\* A positive timeout gives a value that the kernel takes, that arms the timer,
\* that is the timeout cut to its whole seconds, so never late, and exact for
\* whole seconds only (timer.cpp:27-37).
THEOREM TimeoutConversion ==
  ASSUME NEW ms \in Nat \ {0}
  PROVE  /\ Accepted(ItValue(ms)) /\ Arms(ItValue(ms))
         /\ CutShort(ItValue(ms), ms) /\ NoLater(ItValue(ms), ms)
         /\ Exact(ItValue(ms), ms) <=> ms % 1000 = 0
<1>1. ms % 1000 \in 0..999 /\ ms \div 1000 \in Nat
  BY SMT
<1>2. ms = 1000 * (ms \div 1000) + (ms % 1000)
  BY SMT
<1>3. ItValue(ms).sec = ms \div 1000 /\ ItValue(ms).nsec = ms % 1000
  BY SMT DEF ItValue
<1> HIDE DEF ItValue
<1> DEFINE s == ms \div 1000
           r == ms % 1000
<1>4. s \in Nat /\ r \in 0..999 /\ ms = 1000 * s + r
  BY <1>1, <1>2, SMT
<1> HIDE DEF s, r
<1>5. ItValue(ms).sec = s /\ ItValue(ms).nsec = r
  BY <1>3, SMT DEF s, r
<1>6. Accepted(ItValue(ms)) /\ Arms(ItValue(ms))
  <2>1. s > 0 \/ r > 0
    BY <1>4, SMT
  <2>2. s >= 0 /\ r >= 0 /\ r < 1000000000
    BY <1>4, SMT
  <2>3. Accepted(ItValue(ms))
    BY <1>5, <2>2, SMT DEF Accepted
  <2>4. Arms(ItValue(ms))
    BY <1>5, <2>1, SMT DEF Arms
  <2> QED  BY <2>3, <2>4, SMT
<1>7. CutShort(ItValue(ms), ms) /\ NoLater(ItValue(ms), ms)
  BY <1>4, <1>5, SMT DEF CutShort, NoLater, s, r
<1>8. Exact(ItValue(ms), ms) <=> ms % 1000 = 0
  BY <1>4, <1>5, SMT DEF Exact, s, r
<1> QED  BY <1>6, <1>7, <1>8, SMT

-----------------------------------------------------------------------------
(* The invariant *)

\* At most one callback is made, and none while an attempt is connecting,
\* which is always the latest; those before it have been refused.
OneCaller ==
  /\ connects + fails <= 1
  /\ connected # {} => connects = 1
  /\ \A i \in listed \ connected :
       i = made /\ connects = 0 /\ fails = 0 /\ refused = 1..(i - 1)

\* Before the loop has seen the chain.
Beginning ==
  /\ pc = "resolve" => made = 0 /\ n = 0 /\ connects = 0 /\ fails = 0
  /\ pc = "made" =>
       /\ made = 1 /\ listed = {} /\ connected = {} /\ refused = {}
       /\ connects = 0 /\ fails = 0 /\ expired = {} /\ tmr[1] = "none"
  /\ pc = "run" /\ made = 0 => n = 0
  /\ \A i \in Attempt : i > made => tmr[i] = "none"

\* The application keeps the attempt it was given, and those it was told of.
Keeps == held \subseteq {1} \cup connected

\* What an armed Timer was set to.
Timers ==
  /\ \A i \in Attempt :
       tmr[i] = "armed" => timeout > 0 /\ it_value[i] = ItValue(timeout)
  /\ leaked = {}

\* TimeoutIsInherited, also after a crash.
Inherits ==
  \A i \in listed \ connected :
    timeout > 0 /\ tmr[i] # "armed" => untimed \cap 1..i # {}

\* A list is freed by attempts that are gone.
Forgotten == \A i \in freed : ~Referenced(i)

\* No attempt but the latest can be gone.
Orderly == made <= 1 \/ (timeout > 0 /\ untimed = {} /\ expired = {})
Armed == \A i \in 1..made : i < made => tmr[i] = "armed"
Intact == Orderly => Armed /\ touched = FALSE

\* The second half of TimersKeepTheList.
Freed ==
  touched = FALSE =>
    /\ \A i, j \in freed : i = j
    /\ freed # {} => n > 1
    /\ pc = "run" /\ n > 1 /\ 1 \notin Alive => freed # {}

ChainInv ==
  /\ TypeOK /\ OneCaller /\ Beginning /\ Keeps /\ Timers /\ Inherits
  /\ OutcomeIsExplained /\ Forgotten /\ Intact /\ Freed

LEMMA InitChainInv == Init => ChainInv
<1> SUFFICES ASSUME Init PROVE ChainInv
  OBVIOUS
<1> USE DEF Init
<1>1. TypeOK
  <2>1. NoValue \in [sec : Int, nsec : Int]
    BY DEF NoValue
  <2>2. /\ tmr \in [Attempt -> {"none", "armed", "disabled", "gone"}]
        /\ it_value \in [Attempt -> [sec : Int, nsec : Int]]
    BY <2>1
  <2>3. n \in 0..MaxAddrs /\ made \in 0..n
    BY ChainAssumption
  <2> QED  BY <2>2, <2>3 DEF TypeOK
<1>2. OneCaller /\ Beginning /\ Keeps /\ Timers /\ Inherits
  BY DEF OneCaller, Beginning, Keeps, Timers, Inherits
<1>3. OutcomeIsExplained /\ Forgotten /\ Intact /\ Freed
  BY DEF OutcomeIsExplained, Forgotten, Intact, Orderly, Armed, Freed
<1> QED  BY <1>1, <1>2, <1>3 DEF ChainInv

-----------------------------------------------------------------------------
(* What the end of a handler does *)

\* Who frees the list, and whether they use it afterwards.
LEMMA DestroyFacts ==
  ASSUME n \in Nat, NEW D \in SUBSET Nat, NEW read \in BOOLEAN, Destroy(D, read)
  PROVE  /\ freed' \subseteq freed \cup D /\ touched' \in BOOLEAN
         /\ freed \subseteq freed' /\ (touched = TRUE => touched' = TRUE)
         /\ D = {} => freed' = freed
         /\ (D = {} \/ freed = {}) /\ (\A i, j \in D : i = j) /\ touched = FALSE
              /\ ~read => touched' = FALSE
         /\ (read => touched' = TRUE)
         /\ D # {} /\ touched' = FALSE =>
              /\ freed = {} /\ \A i, j \in freed' : i = j
              /\ \A i \in freed' : i < n
              /\ \A i \in D : i < n => freed' # {}
<1>1. PICK has \in [D -> BOOLEAN] :
        LET Gone(i) == freed # {} \/ \E j \in D : j > i /\ has[j] IN
        /\ \A i \in D : has[i] \in HasNext(i, Gone(i))
        /\ freed' = freed \cup {i \in D : has[i]}
        /\ touched' = (touched \/ read \/ \E i \in D : Gone(i))
  BY DEF Destroy
<1> DEFINE Gone(i) == freed # {} \/ \E j \in D : j > i /\ has[j]
<1>2. /\ \A i \in D : has[i] \in HasNext(i, Gone(i))
      /\ freed' = freed \cup {i \in D : has[i]}
      /\ touched' = (touched \/ read \/ \E i \in D : Gone(i))
  BY <1>1
<1>3. touched' \in BOOLEAN /\ (touched = TRUE => touched' = TRUE) /\ (read => touched' = TRUE)
  BY <1>2, Zenon
<1>4. (D = {} \/ freed = {}) /\ (\A i, j \in D : i = j) => \A i \in D : ~Gone(i)
  OBVIOUS
<1>5. (D = {} \/ freed = {}) /\ (\A i, j \in D : i = j) /\ touched = FALSE /\ ~read
        => touched' = FALSE
  BY <1>2, <1>4, Zenon
<1>6. ASSUME D # {}, touched' = FALSE
      PROVE  /\ freed = {} /\ \A i, j \in freed' : i = j
             /\ \A i \in freed' : i < n
             /\ \A i \in D : i < n => freed' # {}
  <2>1. \A i \in D : ~Gone(i)
    BY <1>2, <1>6, Zenon
  <2>2. \A i \in D : has[i] <=> i < n
    BY <1>2, <2>1 DEF HasNext
  <2>3. freed = {}
    BY <1>6, <2>1
  <2>4. \A i, j \in D : j > i => ~has[j]
    BY <2>1
  <2>5. \A i : i \in freed' <=> i \in D /\ has[i]
    BY <1>2, <2>3
  <2>6. ASSUME NEW i \in freed', NEW j \in freed' PROVE i = j
    <3>1. i \in D /\ j \in D /\ has[i] /\ has[j]
      BY <2>5
    <3>2. ~(j > i) /\ ~(i > j) /\ i \in Nat /\ j \in Nat
      BY <2>4, <3>1
    <3> QED  BY <3>2
  <2> QED  BY <2>2, <2>3, <2>5, <2>6
<1> QED  BY <1>2, <1>3, <1>5, <1>6

\* The handlers that end with Settle: what it destroys is unreferenced, and
\* the invariant's parts about the list hold again.
LEMMA SettleKeeps ==
  ASSUME ChainInv, TypeOK', NEW born, NEW read \in BOOLEAN, Settle(born, read),
         read => freed # {} /\ made \in Alive,
         \/ born = {} /\ made' = made
         \/ born = {made + 1} /\ made' = made + 1 /\ made \in Alive,
         n' = n, pc' = pc, timeout' = timeout,
         \A i \in 1..made : Referenced(i)' => Referenced(i),
         untimed \subseteq untimed', expired \subseteq expired',
         Orderly' => Armed'
  PROVE  Forgotten' /\ Intact' /\ Freed'
<1> DEFINE D == {i \in Alive \cup born : ~Referenced(i)'}
<1>t. /\ made \in Nat /\ made' \in Nat /\ n \in Nat /\ n' \in Nat /\ freed \subseteq 1..made
      /\ touched \in BOOLEAN
  BY ChainAssumption DEF ChainInv, TypeOK
<1>d. D \in SUBSET Nat /\ Destroy(D, read) /\ D \subseteq 1..made'
  BY <1>t DEF Settle, Alive
<1>f. /\ freed' \subseteq freed \cup D /\ touched' \in BOOLEAN
      /\ freed \subseteq freed' /\ (touched = TRUE => touched' = TRUE)
      /\ D = {} => freed' = freed
      /\ (D = {} \/ freed = {}) /\ (\A i, j \in D : i = j) /\ touched = FALSE
           /\ ~read => touched' = FALSE
      /\ D # {} /\ touched' = FALSE =>
           /\ freed = {} /\ \A i, j \in freed' : i = j
           /\ \A i \in freed' : i < n
           /\ \A i \in D : i < n => freed' # {}
  <2> HIDE DEF D
  <2> QED  BY <1>t, <1>d, DestroyFacts
<1>1. Forgotten'
  BY <1>t, <1>f DEF ChainInv, Forgotten
<1>2. Intact'
  <2> SUFFICES ASSUME Orderly' PROVE touched' = FALSE
    BY DEF Intact
  <2>1. Orderly
    BY <1>t DEF Orderly
  <2>2. Armed /\ touched = FALSE
    BY <2>1 DEF ChainInv, Intact
  <2>3. \A i \in D : i = made'
    BY <1>t, <1>d DEF Armed, Referenced
  <2>4. freed # {} => made \notin Alive
    <3> SUFFICES ASSUME NEW j \in freed PROVE made \notin Alive
      OBVIOUS
    <3>1. j = made
      BY <1>t, <2>2 DEF ChainInv, Forgotten, Armed, Referenced
    <3> QED  BY <3>1 DEF ChainInv, Forgotten, Alive
  <2>5. ~read /\ (D = {} \/ freed = {})
    BY <1>t, <2>3, <2>4
  <2> QED  BY <1>f, <2>2, <2>3, <2>5
<1>3. Freed'
  <2> SUFFICES ASSUME touched' = FALSE PROVE Freed'
    BY DEF Freed
  <2>1. /\ \A i, j \in freed : i = j
        /\ freed # {} => n > 1
        /\ pc = "run" /\ n > 1 /\ 1 \notin Alive => freed # {}
    BY <1>t, <1>f DEF ChainInv, Freed
  <2>2. CASE D = {}
    <3>1. freed' = freed
      BY <1>f, <2>2
    <3>2. 1 \in Alive => 1 \in Alive'
      BY <1>t, <2>2 DEF Alive
    <3> QED  BY <2>1, <3>1, <3>2 DEF Freed
  <2>3. CASE D # {}
    <3>1. ASSUME NEW i \in freed' PROVE n > 1
      <4>1. i \in 1..made' /\ i < n
        BY <1>d, <1>f, <2>3
      <4> QED  BY <1>t, <4>1
    <3>2. ASSUME pc = "run", n > 1, 1 \notin Alive' PROVE freed' # {}
      <4>1. made >= 1
        BY <1>t, <3>2 DEF ChainInv, Beginning
      <4>2. CASE 1 \in Alive
        <5>1. 1 \in D
          BY <1>t, <3>2, <4>1, <4>2 DEF Alive
        <5> QED  BY <1>f, <2>3, <3>2, <5>1
      <4>3. CASE 1 \notin Alive
        BY <1>f, <2>1, <3>2, <4>3
      <4> QED  BY <4>2, <4>3
    <3> QED  BY <1>f, <2>3, <3>1, <3>2 DEF Freed
  <2> QED  BY <2>2, <2>3
<1> QED  BY <1>1, <1>2, <1>3

\* The list's variables keep their types.
LEMMA SettleTypes ==
  ASSUME ChainInv, NEW born \in SUBSET Nat, NEW read \in BOOLEAN, Settle(born, read)
  PROVE  freed' \subseteq 1..made \cup born /\ touched' \in BOOLEAN
<1> DEFINE D == {i \in Alive \cup born : ~Referenced(i)'}
<1>1. n \in Nat /\ made \in Nat
  BY ChainAssumption DEF ChainInv, TypeOK
<1>2. D \subseteq Alive \cup born
  OBVIOUS
<1>a. Alive \subseteq 1..made /\ Alive \subseteq Nat
  BY <1>1 DEF Alive
<1>3. Destroy(D, read)
  BY DEF Settle
<1>4. freed' \subseteq freed \cup D /\ touched' \in BOOLEAN
  <2> HIDE DEF D
  <2>1. D \in SUBSET Nat
    BY <1>2, <1>a
  <2> QED  BY <1>1, <1>3, <2>1, DestroyFacts
<1> QED  BY <1>2, <1>a, <1>4 DEF ChainInv, TypeOK

\* disable_timeout touches one Timer, and arms none.
LEMMA DisabledFacts ==
  ASSUME TypeOK, NEW i \in Attempt
  PROVE  /\ Disabled(i) \in [Attempt -> {"none", "armed", "disabled", "gone"}]
         /\ \A j \in Attempt : j # i => Disabled(i)[j] = tmr[j]
         /\ Disabled(i)[i] # "armed"
         /\ tmr[i] = "none" => Disabled(i)[i] = "none"
BY DEF TypeOK, Disabled

\* Timer's constructor for the attempt that has none yet.
LEMMA SetTimerFacts ==
  ASSUME ChainInv, NEW i \in Attempt, tmr[i] = "none",
         NEW ms \in Int, ms = timeout \/ ms <= 0, SetTimer(i, ms)
  PROVE  /\ tmr' \in [Attempt -> {"none", "armed", "disabled", "gone"}]
         /\ it_value' \in [Attempt -> [sec : Int, nsec : Int]]
         /\ \A j \in Attempt : j # i => tmr'[j] = tmr[j] /\ it_value'[j] = it_value[j]
         /\ tmr'[i] = "armed" => timeout > 0 /\ it_value'[i] = ItValue(timeout)
         /\ ms > 0 => tmr'[i] = "armed" \/ i \in untimed'
         /\ untimed \subseteq untimed' /\ untimed' \subseteq untimed \cup {i}
         /\ leaked' = {}
<1>1. /\ tmr \in [Attempt -> {"none", "armed", "disabled", "gone"}]
      /\ it_value \in [Attempt -> [sec : Int, nsec : Int]]
      /\ leaked = {}
  BY DEF ChainInv, TypeOK, Timers
<1>2. CASE ms <= 0 /\ UNCHANGED <<tmr, it_value, leaked, untimed>>
  BY <1>1, <1>2
<1>3. ASSUME ms > 0 PROVE Accepted(ItValue(ms)) /\ ms = timeout
  BY <1>3, TimeoutConversion
<1>4. CASE /\ ms > 0
           /\ tmr' = [tmr EXCEPT ![i] = "armed"]
           /\ it_value' = [it_value EXCEPT ![i] = ItValue(ms)]
           /\ UNCHANGED <<leaked, untimed>>
  <2>1. ItValue(ms) \in [sec : Int, nsec : Int]
    <3>1. ms \div 1000 \in Int /\ ms % 1000 \in Int
      BY SMT
    <3> QED  BY <3>1, SMT DEF ItValue
  <2> HIDE DEF ItValue
  <2> QED  BY <1>1, <1>3, <1>4, <2>1
<1>5. CASE /\ ms > 0
           /\ leaked' \in {leaked} \cup IF Accepted(ItValue(ms)) THEN {}
                                        ELSE {leaked \cup {i}}
           /\ untimed' = untimed \cup {i}
           /\ UNCHANGED <<tmr, it_value>>
  BY <1>1, <1>3, <1>5
<1> QED  BY <1>2, <1>4, <1>5 DEF SetTimer

-----------------------------------------------------------------------------
(* The steps *)

\* The two ways a connection error goes.
RefusedLast(i) ==
  /\ Connecting(i) /\ FALSE \in HasNext(i, freed # {})
  /\ refused' = refused \cup {i}
  /\ UNCHANGED <<pc, n, timeout, connected, held, unanswered, expired>>
  /\ Exhausted(i)

RefusedNext(i) ==
  /\ Connecting(i) /\ TRUE \in HasNext(i, freed # {})
  /\ refused' = refused \cup {i}
  /\ UNCHANGED <<pc, n, timeout, connected, held, unanswered, expired>>
  /\ TryNext(i)

LEMMA RefusedCases ==
  ASSUME NEW i, Refused(i) PROVE RefusedLast(i) \/ RefusedNext(i)
<1>1. PICK has \in HasNext(i, freed # {}) : IF has THEN TryNext(i) ELSE Exhausted(i)
  BY DEF Refused
<1>2. has \in BOOLEAN
  <2>1. (i < n) \in BOOLEAN
    OBVIOUS
  <2>2. has = (i < n) \/ has = FALSE
    BY <1>1, Zenon DEF HasNext
  <2> QED  BY <2>1, <2>2, Zenon
<1>3. CASE has = TRUE
  BY <1>1, <1>3 DEF Refused, RefusedNext
<1>4. CASE has = FALSE
  BY <1>1, <1>4 DEF Refused, RefusedLast
<1> QED  BY <1>2, <1>3, <1>4

\* The handlers that make no attempt and arm no Timer.
Quiet(i) ==
  \/ Release(i) \/ Established(i) \/ NoAnswer(i) \/ RefusedLast(i) \/ Closed(i)
  \/ ExpireArmed(i)

\* Their end; only an attempt that is still there reads the list.
Settled ==
  \E read \in BOOLEAN : Settle({}, read) /\ (read => freed # {} /\ made \in Alive)

LEMMA QuietFrame ==
  ASSUME ChainInv, NEW i \in Attempt, Quiet(i)
  PROVE  /\ UNCHANGED <<pc, n, timeout, made, sock, it_value, leaked, unadded, untimed>>
         /\ Settled
         /\ listed' \subseteq listed /\ connected \subseteq connected'
         /\ listed' \ connected' \subseteq listed \ connected
         /\ held' \subseteq held \cup (listed \cap connected')
         /\ tmr' \in [Attempt -> {"none", "armed", "disabled", "gone"}]
         /\ \A j \in Attempt : tmr'[j] = "armed" => tmr[j] = "armed"
         /\ \A j \in Attempt : tmr[j] = "none" => tmr'[j] = "none"
         /\ \A j \in listed' \ connected' : tmr'[j] = tmr[j]
         /\ expired \subseteq expired' /\ expired' \subseteq 1..made
         /\ \A j \in 1..made :
              j < made /\ tmr'[j] # tmr[j] => expired' # {} /\ made > 1
<1> USE DEF objectVars, listVars, callVars, historyVars
<1>1. /\ tmr \in [Attempt -> {"none", "armed", "disabled", "gone"}]
      /\ made \in Nat /\ listed \subseteq 1..made /\ made \in 0..MaxAddrs
      /\ expired \subseteq 1..made
  BY ChainAssumption DEF ChainInv, TypeOK
<1>2. CASE Release(i)
  BY <1>1, <1>2 DEF Release, Settled
<1>3. CASE Closed(i)
  BY <1>1, <1>3 DEF Closed, Settled
<1>4. CASE ExpireArmed(i)
  <2>1. i \in 1..made
    BY <1>1, <1>4 DEF ExpireArmed, ChainInv, Beginning, Attempt
  <2>2. Settled /\ made \in 0..MaxAddrs
    BY <1>1, <1>4 DEF ExpireArmed, Settled
  <2> QED  BY <1>1, <1>4, <2>1, <2>2 DEF ExpireArmed, Attempt
<1>5. ASSUME Connecting(i), tmr' = Disabled(i), i \notin listed' \ connected',
             listed' \ connected' \subseteq listed \ connected
      PROVE  /\ tmr' \in [Attempt -> {"none", "armed", "disabled", "gone"}]
             /\ \A j \in Attempt : tmr'[j] = "armed" => tmr[j] = "armed"
             /\ \A j \in Attempt : tmr[j] = "none" => tmr'[j] = "none"
             /\ \A j \in listed' \ connected' : tmr'[j] = tmr[j]
             /\ \A j \in 1..made : j < made => tmr'[j] = tmr[j]
  <2>1. /\ tmr' \in [Attempt -> {"none", "armed", "disabled", "gone"}]
        /\ \A j \in Attempt : j # i => tmr'[j] = tmr[j]
        /\ tmr'[i] # "armed" /\ (tmr[i] = "none" => tmr'[i] = "none")
    BY <1>5, DisabledFacts DEF ChainInv
  <2>2. i = made
    BY <1>5 DEF ChainInv, OneCaller, Connecting
  <2>3. 1..made \subseteq Attempt
    BY <1>1, ChainAssumption DEF Attempt
  <2>4. \A j \in listed' \ connected' : tmr'[j] = tmr[j]
    BY <1>1, <1>5, <2>1, <2>3
  <2>5. \A j \in 1..made : j < made => tmr'[j] = tmr[j]
    BY <1>1, <2>1, <2>2, <2>3
  <2> QED  BY <2>1, <2>4, <2>5, Zenon
<1>6. CASE Established(i)
  <2>1. /\ UNCHANGED <<pc, n, timeout, made, sock, it_value, leaked, unadded, untimed,
                       expired>>
        /\ Settled /\ Connecting(i) /\ tmr' = Disabled(i)
    BY <1>6 DEF Established, Settled
  <2>2. /\ listed' \subseteq listed /\ connected \subseteq connected'
        /\ listed' \ connected' \subseteq (listed \ connected) \ {i}
        /\ held' \subseteq held \cup (listed \cap connected')
    BY <1>6 DEF Established, Connecting
  <2> HIDE DEF objectVars, listVars, callVars, historyVars
  <2> QED  BY <1>1, <1>5, <2>1, <2>2
<1>7. CASE NoAnswer(i)
  <2>1. /\ UNCHANGED <<pc, n, timeout, made, sock, it_value, leaked, unadded, untimed,
                       expired>>
        /\ Settled /\ Connecting(i) /\ tmr' = Disabled(i)
    BY <1>7 DEF NoAnswer, Settled
  <2>2. /\ listed' \subseteq listed /\ connected \subseteq connected'
        /\ listed' \ connected' \subseteq (listed \ connected) \ {i}
        /\ held' \subseteq held \cup (listed \cap connected')
    BY <1>7 DEF NoAnswer, Connecting
  <2> HIDE DEF objectVars, listVars, callVars, historyVars
  <2> QED  BY <1>1, <1>5, <2>1, <2>2
<1>8. CASE RefusedLast(i)
  <2>1. /\ UNCHANGED <<pc, n, timeout, made, sock, it_value, leaked, unadded, untimed,
                       expired>>
        /\ Settled /\ Connecting(i) /\ tmr' = Disabled(i)
    <3>1. Settle({}, freed # {}) /\ (freed # {}) \in BOOLEAN
      BY <1>8 DEF RefusedLast, Exhausted
    <3>2. Connecting(i) /\ made \in Alive
      BY <1>1, <1>8 DEF RefusedLast, Connecting, ChainInv, OneCaller, Alive, Referenced
    <3> QED  BY <1>8, <3>1, <3>2 DEF RefusedLast, Exhausted, Settled
  <2>2. /\ listed' \subseteq listed /\ connected \subseteq connected'
        /\ listed' \ connected' \subseteq (listed \ connected) \ {i}
        /\ held' \subseteq held \cup (listed \cap connected')
    BY <1>8 DEF RefusedLast, Exhausted, Connecting
  <2> HIDE DEF objectVars, listVars, callVars, historyVars
  <2> QED  BY <1>1, <1>5, <2>1, <2>2
<1> QED  BY <1>2, <1>3, <1>4, <1>6, <1>7, <1>8 DEF Quiet

\* fail_cb at the end of the list is not a mistake, unless the list was freed.
LEMMA LastMeansExhausted ==
  ASSUME ChainInv, NEW i \in Attempt, RefusedLast(i), touched' = FALSE
  PROVE  refused' = 1..n
<1>1. /\ n \in Nat /\ made \in 0..n /\ i = made /\ i \in listed \ connected
      /\ refused = 1..(i - 1) /\ Settle({}, freed # {})
      /\ listed' = listed \ {i} /\ held' = held /\ tmr' = Disabled(i)
      /\ listed \subseteq 1..made /\ freed \subseteq 1..made
  BY ChainAssumption DEF RefusedLast, Exhausted, Connecting, ChainInv, OneCaller, TypeOK
<1>2. freed = {}
  <2> DEFINE D == {j \in Alive \cup {} : ~Referenced(j)'}
  <2>1. D \in SUBSET Nat /\ Destroy(D, freed # {}) /\ (freed # {}) \in BOOLEAN
    BY <1>1 DEF Alive, Settle
  <2> HIDE DEF D
  <2> QED  BY <1>1, <2>1, DestroyFacts
<1>3. ~(i < n)
  BY <1>2 DEF RefusedLast, HasNext
<1>4. i = n /\ refused' = 1..(i - 1) \cup {i} /\ i \in Nat \ {0}
  BY <1>1, <1>3 DEF RefusedLast, Attempt
<1> QED  BY <1>4

\* What such a handler reports, and what it knows when it does.
LEMMA QuietCalls ==
  ASSUME ChainInv, NEW i \in Attempt, Quiet(i), touched' = FALSE => touched = FALSE,
         touched \in BOOLEAN, touched' \in BOOLEAN
  PROVE  /\ OneCaller' /\ OutcomeIsExplained'
         /\ connects' \in Nat /\ fails' \in Nat
         /\ refused' \subseteq 1..made /\ unanswered' \subseteq 1..made
         /\ connected' \subseteq sock
<1> USE DEF objectVars, listVars, callVars, historyVars
<1>1. /\ OneCaller /\ OutcomeIsExplained /\ connects \in Nat /\ fails \in Nat
      /\ refused \subseteq 1..made /\ unanswered \subseteq 1..made
      /\ listed \subseteq sock /\ sock \subseteq 1..made /\ connected \subseteq sock
  BY DEF ChainInv, TypeOK
<1>2. /\ UNCHANGED <<pc, n, made, unadded>>
      /\ listed' \subseteq listed /\ listed' \ connected' \subseteq listed \ connected
      /\ expired \subseteq expired'
  BY QuietFrame
<1>3. CASE Release(i) \/ Closed(i) \/ ExpireArmed(i)
  <2>1. UNCHANGED <<connects, fails, refused, unanswered, connected>>
    BY <1>3 DEF Release, Closed, ExpireArmed
  <2>2. OneCaller'
    BY <1>1, <1>2, <2>1 DEF OneCaller
  <2>3. connects' + fails' = 0 => expired' # {} \/ listed' = listed
    <3>1. CASE Release(i) \/ ExpireArmed(i)
      BY <3>1 DEF Release, ExpireArmed
    <3>2. CASE Closed(i)
      <4>1. connected # {}
        BY <3>2 DEF Closed
      <4>2. connects' = 1
        BY <1>1, <2>1, <4>1 DEF OneCaller
      <4> QED  BY <1>1, <2>1, <4>2
    <3> QED  BY <1>3, <3>1, <3>2
  <2>4. OutcomeIsExplained'
    BY <1>1, <1>2, <2>1, <2>3 DEF OutcomeIsExplained
  <2> QED  BY <1>1, <2>1, <2>2, <2>4
<1>4. ASSUME Connecting(i), i \notin listed' \ connected'
      PROVE  connects = 0 /\ fails = 0 /\ listed' \ connected' = {} /\ connected = {}
             /\ i \in sock /\ i \in 1..made
  <2>1. i \in listed \ connected /\ \A j \in listed \ connected : j = i
    BY <1>1, <1>4 DEF Connecting, OneCaller
  <2>2. connects = 0 /\ fails = 0 /\ connected = {}
    BY <1>1, <2>1 DEF OneCaller
  <2> QED  BY <1>1, <1>2, <1>4, <2>1, <2>2
<1>5. CASE Established(i)
  <2>1. /\ Connecting(i) /\ i \notin listed' \ connected'
        /\ connects' = connects + 1 /\ UNCHANGED <<fails, refused, unanswered>>
        /\ connected' = connected \cup {i}
    BY <1>5 DEF Established
  <2>2. connects' = 1 /\ fails' = 0
    BY <1>4, <2>1
  <2>3. OneCaller' /\ OutcomeIsExplained'
    BY <1>4, <2>1, <2>2 DEF OneCaller, OutcomeIsExplained
  <2>5. connected' \subseteq sock
    BY <1>1, <1>4, <2>1
  <2> QED  BY <1>1, <2>1, <2>2, <2>3, <2>5
<1>6. CASE NoAnswer(i)
  <2>1. /\ Connecting(i) /\ i \notin listed' \ connected'
        /\ fails' = fails + 1 /\ UNCHANGED <<connects, refused, connected>>
        /\ unanswered' = unanswered \cup {i}
    BY <1>6 DEF NoAnswer
  <2>2. fails' = 1 /\ connects' = 0 /\ connected' = {}
    BY <1>4, <2>1
  <2>3. OneCaller' /\ OutcomeIsExplained'
    BY <1>4, <2>1, <2>2 DEF OneCaller, OutcomeIsExplained
  <2>5. unanswered' \subseteq 1..made
    BY <1>1, <1>4, <2>1
  <2> QED  BY <1>1, <2>1, <2>2, <2>3, <2>5
<1>7. CASE RefusedLast(i)
  <2>1. /\ Connecting(i) /\ i \notin listed' \ connected'
        /\ fails' = fails + 1 /\ UNCHANGED <<connects, connected, unanswered>>
        /\ refused' = refused \cup {i}
    BY <1>7 DEF RefusedLast, Exhausted
  <2>2. fails' = 1 /\ connects' = 0 /\ connected' = {}
    BY <1>4, <2>1
  <2>3. touched' = FALSE => refused' = 1..n'
    BY <1>2, <1>7, LastMeansExhausted
  <2>4. OneCaller' /\ OutcomeIsExplained'
    BY <1>4, <2>1, <2>2, <2>3 DEF OneCaller, OutcomeIsExplained
  <2>5. refused' \subseteq 1..made
    BY <1>1, <1>4, <2>1
  <2> QED  BY <1>1, <2>1, <2>2, <2>4, <2>5
<1> QED  BY <1>3, <1>5, <1>6, <1>7 DEF Quiet

\* They keep the invariant.
LEMMA QuietKeepsInv ==
  ASSUME ChainInv, NEW i \in Attempt, Quiet(i)
  PROVE  ChainInv'
<1>1. /\ UNCHANGED <<pc, n, timeout, made, sock, it_value, leaked, unadded, untimed>>
      /\ Settled
      /\ listed' \subseteq listed /\ connected \subseteq connected'
      /\ listed' \ connected' \subseteq listed \ connected
      /\ held' \subseteq held \cup (listed \cap connected')
      /\ tmr' \in [Attempt -> {"none", "armed", "disabled", "gone"}]
      /\ \A j \in Attempt : tmr'[j] = "armed" => tmr[j] = "armed"
      /\ \A j \in Attempt : tmr[j] = "none" => tmr'[j] = "none"
      /\ \A j \in listed' \ connected' : tmr'[j] = tmr[j]
      /\ expired \subseteq expired' /\ expired' \subseteq 1..made
      /\ \A j \in 1..made :
           j < made /\ tmr'[j] # tmr[j] => expired' # {} /\ made > 1
  BY QuietFrame
<1>2. /\ freed' \subseteq 1..made /\ touched' \in BOOLEAN
      /\ touched' = FALSE => touched = FALSE
  <2> DEFINE D == {j \in Alive \cup {} : ~Referenced(j)'}
  <2>1. n \in Nat /\ made \in Nat /\ touched \in BOOLEAN
    BY ChainAssumption DEF ChainInv, TypeOK
  <2>2. PICK read \in BOOLEAN : Settle({}, read)
    BY <1>1 DEF Settled
  <2>3. D \in SUBSET Nat /\ Destroy(D, read)
    BY <2>1, <2>2 DEF Alive, Settle
  <2>4. touched = TRUE => touched' = TRUE
    <3> HIDE DEF D
    <3> QED  BY <2>1, <2>3, DestroyFacts
  <2>5. freed' \subseteq 1..made \cup {} /\ touched' \in BOOLEAN
    BY <2>2, SettleTypes
  <2> QED  BY <2>1, <2>4, <2>5
<1>3. /\ OneCaller' /\ OutcomeIsExplained'
      /\ connects' \in Nat /\ fails' \in Nat
      /\ refused' \subseteq 1..made /\ unanswered' \subseteq 1..made
      /\ connected' \subseteq sock
  BY <1>2, QuietCalls DEF ChainInv, TypeOK
<1>4. TypeOK'
  <2>1. held' \subseteq 1..made
    BY <1>1, <1>3 DEF ChainInv, TypeOK
  <2> QED  BY <1>1, <1>2, <1>3, <2>1 DEF ChainInv, TypeOK
<1>5. Keeps' /\ Timers' /\ Inherits'
  BY <1>1 DEF ChainInv, Keeps, Timers, Inherits
<1>6. Beginning'
  <2>1. CASE pc \in {"made", "resolve"}
    <3>1. Release(i)
      BY <2>1 DEF Quiet, Established, NoAnswer, RefusedLast, Closed, ExpireArmed, Connecting
    <3>2. UNCHANGED <<listed, connected, tmr, connects, fails, refused, expired>>
      BY <3>1 DEF Release, callVars, historyVars
    <3> QED  BY <1>1, <3>2 DEF ChainInv, Beginning
  <2>2. CASE pc \notin {"made", "resolve"}
    BY <1>1, <2>2 DEF ChainInv, Beginning
  <2> QED  BY <2>1, <2>2
<1>7. Orderly' => Armed'
  <2> SUFFICES ASSUME Orderly' PROVE Armed'
    OBVIOUS
  <2>1. Orderly
    BY <1>1 DEF Orderly
  <2>2. Armed
    BY <2>1 DEF ChainInv, Intact
  <2>3. \A j \in 1..made : j < made => tmr'[j] = tmr[j]
    <3>1. made \in Nat
      BY ChainAssumption DEF ChainInv, TypeOK
    <3>2. made <= 1 \/ expired' = {}
      BY <1>1 DEF Orderly
    <3> SUFFICES ASSUME NEW j \in 1..made, j < made, tmr'[j] # tmr[j] PROVE FALSE
      BY Zenon
    <3>3. expired' # {} /\ made > 1
      BY <1>1, Zenon
    <3> QED  BY <3>1, <3>2, <3>3
  <2> QED  BY <1>1, <2>2, <2>3 DEF Armed
<1>8. \A j \in 1..made : Referenced(j)' => Referenced(j)
  BY <1>1, ChainAssumption DEF Referenced, ChainInv, TypeOK, Attempt
<1>9. Forgotten' /\ Intact' /\ Freed'
  BY <1>1, <1>4, <1>7, <1>8, SettleKeeps DEF Settled
<1> QED  BY <1>3, <1>4, <1>5, <1>6, <1>9 DEF ChainInv

\* A refused attempt is replaced by one at the next address, which inherits the
\* Timer's value.
LEMMA NextKeepsInv ==
  ASSUME ChainInv, NEW i \in Attempt, RefusedNext(i)
  PROVE  ChainInv'
<1> DEFINE k == i + 1
<1> USE DEF callVars
<1>1. /\ n \in Nat /\ n <= MaxAddrs /\ MaxAddrs \in Nat /\ made \in 0..n /\ made \in Nat
      /\ i = made /\ i \in listed /\ i \notin connected
      /\ listed \ connected = {i} /\ connected = {}
      /\ connects = 0 /\ fails = 0 /\ refused = 1..(i - 1) /\ timeout \in Int
      /\ sock \subseteq 1..made /\ listed \subseteq sock /\ held \subseteq 1..made
      /\ pc = "run"
  <2>1. /\ i \in listed \ connected /\ pc = "run"
        /\ \A j \in listed \ connected :
             j = made /\ connects = 0 /\ fails = 0 /\ refused = 1..(j - 1)
        /\ connected # {} => connects = 1
    BY DEF RefusedNext, Connecting, ChainInv, OneCaller
  <2>2. /\ n \in 0..MaxAddrs /\ made \in 0..n /\ timeout \in Int
        /\ sock \subseteq 1..made /\ listed \subseteq sock /\ held \subseteq 1..made
    BY ChainAssumption DEF ChainInv, TypeOK
  <2>3. i = made /\ connects = 0 /\ fails = 0 /\ refused = 1..(i - 1) /\ connected = {}
    BY <2>1
  <2>4. listed \ connected = {i}
    BY <2>1, <2>3
  <2>5. n \in Nat /\ n <= MaxAddrs /\ MaxAddrs \in Nat /\ made \in Nat
    BY <2>2, ChainAssumption
  <2> QED  BY <2>1, <2>2, <2>3, <2>4, <2>5
<1>2. i < n /\ k \in 1..n /\ k \in Attempt /\ k \notin 1..made /\ 1..k = 1..made \cup {k}
  <2>1. i < n
    BY DEF RefusedNext, HasNext
  <2> QED  BY <1>1, <2>1 DEF Attempt
<1>3. /\ made' = k /\ sock' \in {sock, sock \cup {k}}
      /\ SetTimer(k, Inherited(i))
      /\ \/ k \in sock' /\ listed' = {k} /\ unadded' = unadded
         \/ listed' = {} /\ unadded' = unadded \cup {k}
      /\ UNCHANGED <<pc, n, timeout, connected, held, unanswered, expired, connects, fails>>
      /\ refused' = refused \cup {i} /\ Settle({k}, freed # {})
  <2>1. listed \ {i} = {}
    BY <1>1
  <2> QED  BY <2>1 DEF RefusedNext, TryNext, Construct, Add
<1> HIDE DEF k
<1>4. tmr[k] = "none"
  BY <1>1, <1>2 DEF ChainInv, Beginning
<1>5. /\ tmr' \in [Attempt -> {"none", "armed", "disabled", "gone"}]
      /\ it_value' \in [Attempt -> [sec : Int, nsec : Int]]
      /\ \A j \in Attempt : j # k => tmr'[j] = tmr[j] /\ it_value'[j] = it_value[j]
      /\ tmr'[k] = "armed" => timeout > 0 /\ it_value'[k] = ItValue(timeout)
      /\ Inherited(i) > 0 => tmr'[k] = "armed" \/ k \in untimed'
      /\ untimed \subseteq untimed' /\ untimed' \subseteq untimed \cup {k}
      /\ leaked' = {}
  <2>1. Inherited(i) \in Int /\ (Inherited(i) = timeout \/ Inherited(i) <= 0)
    BY <1>1 DEF Inherited
  <2> QED  BY <1>2, <1>3, <1>4, <2>1, SetTimerFacts
<1>6. /\ freed' \subseteq 1..k /\ touched' \in BOOLEAN
      /\ touched' = FALSE => touched = FALSE
  <2> DEFINE D == {j \in Alive \cup {k} : ~Referenced(j)'}
  <2>1. {k} \in SUBSET Nat /\ touched \in BOOLEAN
    BY <1>2 DEF ChainInv, TypeOK
  <2>2. D \in SUBSET Nat /\ Destroy(D, freed # {}) /\ (freed # {}) \in BOOLEAN
    BY <1>1, <1>3, <2>1 DEF Alive, Settle
  <2>3. touched = TRUE => touched' = TRUE
    <3> HIDE DEF D
    <3> QED  BY <1>1, <2>2, DestroyFacts
  <2>4. freed' \subseteq 1..made \cup {k} /\ touched' \in BOOLEAN
    BY <1>3, <2>1, <2>2, SettleTypes
  <2> QED  BY <1>2, <2>1, <2>3, <2>4
<1>7. TypeOK'
  <2>1. /\ refused \subseteq 1..made /\ unanswered \subseteq 1..made /\ untimed \subseteq 1..made
        /\ unadded \subseteq 1..made /\ expired \subseteq 1..made
        /\ pc \in {"resolve", "made", "run", "crashed"} /\ timeout \in Timeouts
    BY DEF ChainInv, TypeOK
  <2>2. /\ sock' \subseteq 1..k /\ listed' \subseteq sock' /\ held' \subseteq 1..k
        /\ refused' \subseteq 1..k /\ unanswered' \subseteq 1..k /\ untimed' \subseteq 1..k
        /\ unadded' \subseteq 1..k /\ expired' \subseteq 1..k /\ connected' = {}
    BY <1>1, <1>2, <1>3, <1>5, <2>1
  <2>3. n' \in 0..MaxAddrs /\ made' \in 0..n' /\ connects' = 0 /\ fails' = 0
    BY <1>1, <1>2, <1>3
  <2> QED  BY <1>3, <1>5, <1>6, <2>1, <2>2, <2>3 DEF TypeOK
<1>8. OneCaller' /\ Beginning' /\ Keeps'
  <2>1. refused' = 1..(k - 1)
    BY <1>1, <1>3 DEF k
  <2>2. OneCaller'
    BY <1>1, <1>3, <2>1 DEF OneCaller
  <2>3. Beginning'
    BY <1>1, <1>2, <1>3, <1>5, <1>7 DEF ChainInv, Beginning, TypeOK
  <2>4. Keeps'
    BY <1>3 DEF ChainInv, Keeps
  <2> QED  BY <2>2, <2>3, <2>4
<1>9. Timers'
  BY <1>3, <1>5 DEF ChainInv, Timers
<1>10. timeout > 0 /\ tmr'[k] # "armed" => untimed' \cap 1..k # {}
  <2> SUFFICES ASSUME timeout > 0, tmr'[k] # "armed" PROVE untimed' \cap 1..k # {}
    OBVIOUS
  <2>1. CASE tmr[i] = "armed"
    <3>1. k \in untimed'
      BY <1>5, <2>1 DEF Inherited
    <3> QED  BY <1>2, <3>1
  <2>2. CASE tmr[i] # "armed"
    <3>1. untimed \cap 1..i # {}
      BY <1>1, <2>2 DEF ChainInv, Inherits
    <3> QED  BY <1>1, <1>2, <1>5, <3>1
  <2> QED  BY <2>1, <2>2
<1>11. Inherits'
  BY <1>3, <1>10 DEF Inherits
<1>12. OutcomeIsExplained'
  <2>1. fails' = 0
    BY <1>1, <1>3
  <2>2. listed' = {} => unadded' # {}
    BY <1>3
  <2> QED  BY <2>1, <2>2 DEF OutcomeIsExplained
<1>13. Orderly' => Armed'
  <2> SUFFICES ASSUME Orderly', NEW j \in 1..k, j < k PROVE tmr'[j] = "armed"
    BY <1>3 DEF Armed
  <2>0. j # k /\ j \in 1..MaxAddrs
    BY <1>1, <1>2
  <2>1. j \in 1..made /\ j \in Attempt /\ j # k
    <3>1. j \in 1..made
      BY <1>2, <2>0, Zenon
    <3> QED  BY <2>0, <3>1 DEF Attempt
  <2>2. k > 1
    BY <1>1, <1>2, <2>1
  <2>3. timeout > 0 /\ untimed' = {} /\ expired' = {}
    BY <1>1, <1>2, <1>3, <2>2 DEF Orderly
  <2>4. untimed = {} /\ expired = {}
    BY <1>3, <1>5, <2>3
  <2>5. Armed
    BY <2>3, <2>4 DEF ChainInv, Intact, Orderly
  <2>6. tmr[made] = "armed"
    BY <1>1, <2>3, <2>4 DEF ChainInv, Inherits
  <2> QED  BY <1>1, <1>5, <2>1, <2>5, <2>6 DEF Armed
<1>14. \A j \in 1..made : Referenced(j)' => Referenced(j)
  <2> SUFFICES ASSUME NEW j \in 1..made, Referenced(j)' PROVE Referenced(j)
    OBVIOUS
  <2>1. j # k /\ j \in Attempt
    BY <1>1, <1>2 DEF Attempt
  <2>2. tmr'[j] = tmr[j] /\ j \notin listed' /\ held' = held
    BY <1>3, <1>5, <2>1
  <2> QED  BY <2>2 DEF Referenced
<1>15. Forgotten' /\ Intact' /\ Freed'
  <2>1. made \in Alive
    BY <1>1, <1>2 DEF Alive, Referenced
  <2>2. {k} = {made + 1} /\ made' = made + 1
    BY <1>1, <1>3 DEF k
  <2>3. untimed \subseteq untimed' /\ expired \subseteq expired'
    BY <1>3, <1>5
  <2>4. (freed # {}) \in BOOLEAN
    OBVIOUS
  <2> QED  BY <1>3, <1>7, <1>13, <1>14, <2>1, <2>2, <2>3, <2>4, SettleKeeps
<1> QED  BY <1>7, <1>8, <1>9, <1>11, <1>12, <1>15 DEF ChainInv

\* The application's calls at the beginning.
LEMMA BeginningKeepsInv ==
  ASSUME ChainInv, ResolveFails \/ GetConnHdl \/ FirstAdd
  PROVE  ChainInv'
<1> USE DEF objectVars, listVars, callVars, historyVars
<1>1. CASE ResolveFails
  <2>1. made = 0 /\ n = 0 /\ made' = 0 /\ pc' = "run"
    BY <1>1 DEF ResolveFails, ChainInv, Beginning
  <2>2. TypeOK'
    BY <1>1 DEF ResolveFails, ChainInv, TypeOK
  <2>3. OneCaller' /\ Beginning' /\ Keeps' /\ Timers' /\ Inherits'
    BY <1>1, <2>1 DEF ResolveFails, ChainInv, OneCaller, Beginning, Keeps, Timers, Inherits
  <2>4. OutcomeIsExplained' /\ Forgotten' /\ Intact' /\ Freed'
    BY <1>1, <2>1 DEF ResolveFails, ChainInv, OutcomeIsExplained, Forgotten, Referenced,
                      Intact, Orderly, Armed, Freed
  <2> QED  BY <2>2, <2>3, <2>4 DEF ChainInv
<1>2. CASE GetConnHdl
  <2>1. /\ made = 0 /\ made' = 1 /\ n' \in 1..MaxAddrs /\ pc' = "made" /\ held' = {1}
        /\ UNCHANGED <<timeout, listed, connected, tmr, it_value, listVars, leaked,
                       callVars, historyVars>>
        /\ sock' \in {sock, sock \cup {1}}
    BY <1>2 DEF GetConnHdl, Construct, ChainInv, Beginning
  <2>2. 1..0 = {} /\ MaxAddrs \in Nat
    BY ChainAssumption
  <2>3. /\ sock = {} /\ listed = {} /\ connected = {} /\ freed = {} /\ refused = {}
        /\ unanswered = {} /\ unadded = {} /\ untimed = {} /\ expired = {}
        /\ connects \in Nat /\ fails \in Nat /\ leaked = {} /\ touched \in BOOLEAN
    BY <2>1, <2>2 DEF ChainInv, TypeOK
  <2>4. connects = 0 /\ fails = 0 /\ touched = FALSE
    BY <1>2, <2>1 DEF GetConnHdl, ChainInv, Beginning, Intact, Orderly
  <2>5. TypeOK'
    BY <2>1, <2>2, <2>3 DEF ChainInv, TypeOK
  <2>6. OneCaller' /\ Beginning' /\ Keeps' /\ Timers' /\ Inherits'
    <3>1. OneCaller' /\ Keeps' /\ Timers' /\ Inherits'
      BY <2>1, <2>3, <2>4 DEF ChainInv, OneCaller, Keeps, Timers, Inherits
    <3>2. \A j \in Attempt : tmr[j] = "none"
      BY <2>1 DEF ChainInv, Beginning, Attempt
    <3>3. Beginning'
      BY <2>1, <2>2, <2>3, <2>4, <3>2 DEF Beginning, Attempt
    <3> QED  BY <3>1, <3>3
  <2>7. OutcomeIsExplained' /\ Forgotten' /\ Intact' /\ Freed'
    BY <2>1, <2>3, <2>4 DEF OutcomeIsExplained, Forgotten, Intact, Orderly, Armed, Freed
  <2> QED  BY <2>5, <2>6, <2>7 DEF ChainInv
<1>3. CASE FirstAdd
  <2>1. /\ pc = "made" /\ pc' = "run" /\ 1 \in held /\ made = 1 /\ made' = 1
        /\ listed = {} /\ connected = {} /\ refused = {} /\ connects = 0 /\ fails = 0
        /\ expired = {} /\ tmr[1] = "none"
        /\ UNCHANGED <<n, timeout, sock, connected, held, listVars, callVars, refused,
                       unanswered, expired>>
        /\ SetTimer(1, timeout)
        /\ \/ 1 \in sock' /\ listed' = {1} /\ unadded' = unadded
           \/ listed' = {} /\ unadded' = unadded \cup {1}
    BY <1>3 DEF FirstAdd, Add, ChainInv, Beginning
  <2>2. 1 \in Attempt /\ n \in Nat /\ 1..1 = {1} /\ timeout \in Int /\ n >= 1
    BY <2>1, ChainAssumption DEF ChainInv, TypeOK, Attempt
  <2>3. /\ tmr' \in [Attempt -> {"none", "armed", "disabled", "gone"}]
        /\ it_value' \in [Attempt -> [sec : Int, nsec : Int]]
        /\ \A j \in Attempt : j # 1 => tmr'[j] = tmr[j] /\ it_value'[j] = it_value[j]
        /\ tmr'[1] = "armed" => timeout > 0 /\ it_value'[1] = ItValue(timeout)
        /\ timeout > 0 => tmr'[1] = "armed" \/ 1 \in untimed'
        /\ untimed \subseteq untimed' /\ untimed' \subseteq untimed \cup {1}
        /\ leaked' = {}
    BY <2>1, <2>2, SetTimerFacts
  <2>4. TypeOK'
    BY <2>1, <2>2, <2>3 DEF ChainInv, TypeOK
  <2>5. OneCaller' /\ Beginning' /\ Keeps' /\ Timers' /\ Inherits'
    <3>1. OneCaller' /\ Keeps'
      BY <2>1, <2>2 DEF ChainInv, OneCaller, Keeps
    <3>2. Beginning' /\ Timers'
      BY <2>1, <2>2, <2>3 DEF ChainInv, Beginning, Timers
    <3>3. Inherits'
      BY <2>1, <2>2, <2>3 DEF Inherits
    <3> QED  BY <3>1, <3>2, <3>3
  <2>6. OutcomeIsExplained' /\ Intact'
    BY <2>1, <2>2, <2>3 DEF ChainInv, OutcomeIsExplained, Intact, Orderly, Armed
  <2>7. freed = {}
    <3>1. freed \subseteq {1} /\ 1 \notin freed
      BY <2>1, <2>2 DEF ChainInv, TypeOK, Forgotten, Referenced
    <3> QED  BY <3>1
  <2>8. Forgotten' /\ Freed'
    BY <2>1, <2>2, <2>7 DEF Forgotten, Freed, Alive, Referenced
  <2> QED  BY <2>4, <2>5, <2>6, <2>8 DEF ChainInv
<1> QED  BY <1>1, <1>2, <1>3

\* The rest: a disabled Timer expires, and a crash.
LEMMA RestKeepsInv ==
  ASSUME ChainInv, Crash \/ \E i \in Attempt : ExpireDisabled(i)
  PROVE  ChainInv'
<1> USE DEF objectVars, listVars, callVars, historyVars
<1>1. /\ UNCHANGED <<n, timeout, made, sock, listed, connected, held, it_value, freed, touched,
                     leaked, connects, fails, refused, unanswered, unadded, untimed, expired>>
      /\ pc' = pc \/ pc' = "crashed"
      /\ tmr' \in [Attempt -> {"none", "armed", "disabled", "gone"}]
      /\ \A j \in Attempt : (tmr'[j] = "armed" <=> tmr[j] = "armed")
                         /\ (tmr[j] = "none" => tmr'[j] = "none")
  BY DEF Crash, ExpireDisabled, ChainInv, TypeOK
<1>2. 1..made \subseteq Attempt /\ listed \subseteq 1..made
  BY ChainAssumption DEF ChainInv, TypeOK, Attempt
<1>3. TypeOK'
  BY <1>1 DEF ChainInv, TypeOK
<1>4. OneCaller' /\ Keeps' /\ Timers' /\ Inherits' /\ OutcomeIsExplained'
  BY <1>1, <1>2 DEF ChainInv, OneCaller, Keeps, Timers, Inherits, OutcomeIsExplained
<1>5. Beginning'
  BY <1>1, <1>2 DEF ChainInv, Beginning, Attempt
<1>6. \A j \in 1..made : Referenced(j)' <=> Referenced(j)
  BY <1>1, <1>2 DEF Referenced
<1>7. Forgotten' /\ Intact'
  BY <1>1, <1>2, <1>6 DEF ChainInv, TypeOK, Forgotten, Intact, Orderly, Armed
<1>8. Freed'
  <2>1. 1 \in Alive' <=> 1 \in Alive
    BY <1>1, <1>6 DEF Alive
  <2> QED  BY <1>1, <2>1 DEF ChainInv, Freed
<1> QED  BY <1>3, <1>4, <1>5, <1>7, <1>8 DEF ChainInv

LEMMA StepKeepsChainInv == ChainInv /\ [Next]_vars => ChainInv'
<1> SUFFICES ASSUME ChainInv, [Next]_vars PROVE ChainInv'
  OBVIOUS
<1>1. CASE UNCHANGED vars
  BY <1>1 DEF vars, objectVars, listVars, callVars, historyVars, ChainInv, TypeOK, OneCaller,
     Beginning, Keeps, Timers, Inherits, OutcomeIsExplained, Forgotten, Referenced, Intact,
     Orderly, Armed, Freed, Alive
<1>2. ASSUME NEW i \in Attempt, Release(i) \/ Event(i) \/ ExpireArmed(i)
      PROVE  Quiet(i) \/ RefusedNext(i)
  BY <1>2, RefusedCases DEF Event, Quiet
<1> QED  BY <1>1, <1>2, QuietKeepsInv, NextKeepsInv, BeginningKeepsInv, RestKeepsInv
         DEF Next, Over

\* The invariant is inductive.
THEOREM ChainInvariance == Spec => []ChainInv
BY InitChainInv, StepKeepsChainInv, PTL DEF Spec

-----------------------------------------------------------------------------
(* What becomes of every attempt *)

\* Every attempt that was made is still connecting or has ended in a way that
\* was recorded, and none that is listed has ended.
Accounted ==
  /\ unanswered # {} => fails > 0
  /\ listed \cap unadded = {}
  /\ pc = "made" => unadded = {} /\ unanswered = {}
  /\ pc \in {"run", "crashed"} =>
       1..made \subseteq listed \cup connected \cup refused \cup unanswered
                         \cup unadded \cup expired

\* The attempt in hand.
LEMMA InHand ==
  ASSUME ChainInv, Accounted, NEW i \in Attempt, Connecting(i)
  PROVE  /\ i = made /\ i \in 1..n /\ connects = 0 /\ fails = 0
         /\ connected = {} /\ unanswered = {} /\ refused = 1..(i - 1)
         /\ listed = {i} /\ i \notin unadded /\ pc = "run"
         /\ FateOf(i) = "trying" /\ n \in Nat
<1>1. i \in listed \ connected /\ pc = "run" /\ OneCaller /\ TypeOK
  BY DEF Connecting, ChainInv
<1>2. /\ i = made /\ connects = 0 /\ fails = 0 /\ refused = 1..(i - 1) /\ connected = {}
      /\ \A j \in listed : j = i
  BY <1>1 DEF OneCaller
<1>3. unanswered = {} /\ i \notin unadded
  BY <1>1, <1>2 DEF Accounted
<1>4. n \in Nat /\ i \in 1..n
  BY <1>1, <1>2, ChainAssumption DEF TypeOK
<1>5. FateOf(i) = "trying"
  BY <1>1, <1>2, <1>3, <1>4 DEF FateOf
<1> QED  BY <1>1, <1>2, <1>3, <1>4, <1>5

LEMMA QuietAccounts ==
  ASSUME ChainInv, Accounted, NEW i \in Attempt, Quiet(i) PROVE Accounted'
<1> USE DEF objectVars, listVars, callVars, historyVars
<1>1. /\ UNCHANGED <<pc, made, unadded>> /\ listed' \subseteq listed
      /\ connected \subseteq connected' /\ expired \subseteq expired'
  BY QuietFrame
<1>2. /\ refused \subseteq refused' /\ unanswered \subseteq unanswered'
      /\ listed \ listed' \subseteq {i}
      /\ i \in listed \ listed' =>
           i \in connected' \cup refused' \cup unanswered' \cup expired'
  BY DEF Quiet, Release, Established, NoAnswer, RefusedLast, Exhausted, Closed, ExpireArmed
<1>3. fails \in Nat
  BY DEF ChainInv, TypeOK
<1>4. unanswered' # {} => fails' > 0
  <2>1. fails' = fails + 1 \/ UNCHANGED <<fails, unanswered>>
    BY DEF Quiet, Release, Established, NoAnswer, RefusedLast, Exhausted, Closed, ExpireArmed
  <2> QED  BY <1>3, <2>1 DEF Accounted
<1>5. pc = "made" => unanswered' = unanswered
  BY DEF Quiet, Release, Established, NoAnswer, RefusedLast, Exhausted, Closed, ExpireArmed,
         Connecting
<1> QED  BY <1>1, <1>2, <1>4, <1>5 DEF Accounted

LEMMA StepAccounts == ChainInv /\ Accounted /\ [Next]_vars => Accounted'
<1> SUFFICES ASSUME ChainInv, Accounted, [Next]_vars PROVE Accounted'
  OBVIOUS
<1> USE DEF objectVars, listVars, callVars, historyVars
<1>1. CASE ResolveFails
  <2>1. made = 0
    BY <1>1 DEF ResolveFails, ChainInv, Beginning
  <2> QED  BY <1>1, <2>1 DEF ResolveFails, Accounted
<1>2. CASE GetConnHdl
  <2>1. made = 0 /\ unadded \subseteq 1..0 /\ unanswered \subseteq 1..0
    BY <1>2 DEF GetConnHdl, ChainInv, Beginning, TypeOK
  <2> QED  BY <1>2, <2>1 DEF GetConnHdl, Accounted
<1>3. CASE FirstAdd
  <2>1. /\ made = 1 /\ made' = 1 /\ listed = {} /\ unadded = {} /\ unanswered = {}
        /\ pc' = "run" /\ unanswered' = unanswered
        /\ \/ listed' = {1} /\ unadded' = unadded
           \/ listed' = {} /\ unadded' = unadded \cup {1}
    BY <1>3 DEF FirstAdd, Add, ChainInv, Beginning, Accounted
  <2> QED  BY <2>1 DEF Accounted
<1>4. ASSUME NEW i \in Attempt, RefusedNext(i) PROVE Accounted'
  <2>1. /\ i = made /\ unanswered = {} /\ listed = {i} /\ pc = "run" /\ connected = {}
        /\ made \in Nat /\ unadded \subseteq 1..made
    BY <1>4, InHand DEF RefusedNext, ChainInv, TypeOK
  <2>2. /\ made' = i + 1 /\ pc' = pc /\ unanswered' = unanswered /\ refused' = refused \cup {i}
        /\ UNCHANGED <<connected, expired>>
        /\ \/ listed' = {i + 1} /\ unadded' = unadded
           \/ listed' = {} /\ unadded' = unadded \cup {i + 1}
    BY <1>4, <2>1 DEF RefusedNext, TryNext, Construct, Add
  <2>3. 1..(made + 1) = 1..made \cup {made + 1} /\ made + 1 \notin 1..made
    BY <2>1
  <2> QED  BY <2>1, <2>2, <2>3 DEF Accounted
<1>5. CASE Crash \/ \E i \in Attempt : ExpireDisabled(i)
  <2>1. /\ UNCHANGED <<made, listed, connected, fails, refused, unanswered, unadded, expired>>
        /\ pc' = pc \/ (pc' = "crashed" /\ touched)
    BY <1>5 DEF Crash, ExpireDisabled
  <2>2. touched => pc \in {"run", "crashed"}
    BY DEF ChainInv, TypeOK, Beginning, Intact, Orderly
  <2> QED  BY <2>1, <2>2 DEF Accounted
<1>6. CASE UNCHANGED vars
  BY <1>6 DEF vars, Accounted
<1>7. ASSUME NEW i \in Attempt, Release(i) \/ Event(i) \/ ExpireArmed(i)
      PROVE  Quiet(i) \/ RefusedNext(i)
  BY <1>7, RefusedCases DEF Event, Quiet
<1> QED  BY <1>1, <1>2, <1>3, <1>4, <1>5, <1>6, <1>7, QuietAccounts DEF Next, Over

LEMMA AllAccounted == Spec => []Accounted
<1>1. Init => Accounted
  BY DEF Init, Accounted
<1> QED  BY <1>1, StepAccounts, ChainInvariance, PTL DEF Spec

-----------------------------------------------------------------------------
(* The chain implements ConnRequest *)

\* What has been misused stays so.
LEMMA MisuseStays ==
  ASSUME ChainInv, [Next]_vars PROVE touched' \in {touched, TRUE}
<1> USE DEF objectVars, listVars, callVars, historyVars
<1>1. touched \in BOOLEAN /\ touched' \in BOOLEAN
  BY StepKeepsChainInv DEF ChainInv, TypeOK
<1>2. ASSUME NEW born, NEW read, Settle(born, read) PROVE touched => touched'
  BY <1>2 DEF Settle, Destroy
<1>3. ASSUME NEW i \in Attempt, Release(i) \/ Event(i) \/ ExpireArmed(i)
      PROVE  \E born, read : Settle(born, read)
  <2>1. ASSUME Refused(i) PROVE \E born, read : Settle(born, read)
    BY <2>1, RefusedCases DEF RefusedLast, RefusedNext, Exhausted, TryNext
  <2>2. ASSUME Release(i) \/ Established(i) \/ NoAnswer(i) \/ Closed(i) \/ ExpireArmed(i)
        PROVE  Settle({}, FALSE)
    BY <2>2 DEF Release, Established, NoAnswer, Closed, ExpireArmed
  <2> QED  BY <1>3, <2>1, <2>2 DEF Event
<1>4. CASE \/ ResolveFails \/ GetConnHdl \/ FirstAdd \/ Crash \/ UNCHANGED vars
           \/ \E i \in Attempt : ExpireDisabled(i)
  BY <1>4 DEF ResolveFails, GetConnHdl, FirstAdd, Crash, vars, ExpireDisabled
<1>5. touched => touched'
  BY <1>2, <1>3, <1>4 DEF Next, Over
<1> QED  BY <1>1, <1>5

\* The end of one attempt, as ConnRequest sees it.
LEMMA OneEnds ==
  ASSUME NEW i \in Attempt, NEW what, FateOf(i) = "trying", FateOf(i)' = what,
         \A j \in Attempt \ {i} : FateOf(j)' = FateOf(j)
  PROVE  Request!Ends(i, what)
<1>1. Fates[i] = "trying" /\ Fates' = [Fates EXCEPT ![i] = what]
  BY DEF Fates
<1> QED  BY <1>1 DEF Request!Ends

\* How the chain begins.
LEMMA BeginningImplements ==
  ASSUME ChainInv, Accounted, ResolveFails \/ GetConnHdl \/ FirstAdd
  PROVE  Request!Step
<1> USE DEF objectVars, listVars, callVars, historyVars
<1>1. CASE ResolveFails
  <2>1. made = 0 /\ made' = 0 /\ n' = n /\ UNCHANGED callVars
    BY <1>1 DEF ResolveFails, ChainInv, Beginning
  <2>2. Fates' = Fates
    BY <2>1 DEF Fates, FateOf, Attempt
  <2> QED  BY <2>1, <2>2 DEF Request!Step, Request!Misused
<1>2. CASE GetConnHdl
  <2>1. /\ made = 0 /\ n = 0 /\ made' = 1 /\ n' \in 1..MaxAddrs /\ pc' = "made"
        /\ held' = {1} /\ UNCHANGED <<listed, connected, callVars, historyVars>>
    BY <1>2 DEF GetConnHdl, Construct, ChainInv, Beginning
  <2>2. connected = {} /\ refused = {} /\ unanswered = {}
    BY <2>1 DEF ChainInv, TypeOK
  <2>3. \A j \in Attempt : FateOf(j) = "untried"
    BY <2>1 DEF FateOf, Attempt
  <2>4. \A j \in Attempt : FateOf(j)' = IF j = 1 THEN "trying" ELSE "untried"
    BY <2>1, <2>2 DEF FateOf, Attempt
  <2>5. 1 \in Attempt
    BY <2>1, ChainAssumption DEF Attempt
  <2>6. Fates[1] = "untried" /\ Fates' = [Fates EXCEPT ![1] = "trying"]
    BY <2>3, <2>4, <2>5 DEF Fates
  <2>7. Request!Begin
    BY <2>1, <2>6 DEF Request!Begin, Request!Addr
  <2> QED  BY <2>7 DEF Request!Step
<1>3. CASE FirstAdd
  <2>1. /\ made = 1 /\ made' = 1 /\ listed = {} /\ unadded = {} /\ unanswered = {}
        /\ connected = {} /\ refused = {} /\ 1 \in held /\ pc = "made" /\ pc' = "run"
        /\ UNCHANGED <<n, connected, refused, unanswered, callVars>>
        /\ \/ listed' = {1} /\ unadded' = unadded
           \/ listed' = {} /\ unadded' = unadded \cup {1}
    BY <1>3 DEF FirstAdd, Add, ChainInv, Beginning, Accounted
  <2>2. 1 \in Attempt
    BY <2>1, ChainAssumption DEF ChainInv, TypeOK, Attempt
  <2>3. FateOf(1) = "trying" /\ FateOf(1)' \in {"trying", "unadded"}
    BY <2>1 DEF FateOf
  <2>4. \A j \in Attempt \ {1} : FateOf(j)' = FateOf(j)
    BY <2>1 DEF FateOf, Attempt
  <2>5. CASE FateOf(1)' = "trying"
    <3>1. Fates' = Fates
      BY <2>2, <2>3, <2>4, <2>5 DEF Fates
    <3> QED  BY <2>1, <3>1 DEF Request!Step, Request!Misused
  <2>6. CASE FateOf(1)' = "unadded"
    <3>1. Request!Ends(1, "unadded")
      BY <2>2, <2>3, <2>4, <2>6, OneEnds
    <3>2. Request!Silent(1)
      BY <2>1, <3>1 DEF Request!Silent, Request!SilentEnd
    <3> QED  BY <2>2, <3>2 DEF Request!Step, Request!Addr, Attempt
  <2> QED  BY <2>3, <2>5, <2>6
<1> QED  BY <1>1, <1>2, <1>3

\* The handlers that make no attempt.
LEMMA QuietImplements ==
  ASSUME ChainInv, Accounted, NEW i \in Attempt, Quiet(i)
  PROVE  Request!Step
<1> USE DEF objectVars, listVars, callVars, historyVars
<1>1. /\ UNCHANGED <<pc, n, made, unadded>>
  BY QuietFrame
<1>2. ASSUME \A j \in Attempt : FateOf(j)' = FateOf(j), UNCHANGED callVars
      PROVE  Request!Step
  <2>1. Fates' = Fates
    BY <1>2 DEF Fates
  <2> QED  BY <1>1, <1>2, <2>1 DEF Request!Step, Request!Misused
<1>3. CASE Release(i)
  <2>1. /\ UNCHANGED <<listed, connected, callVars, historyVars>>
        /\ i \in held /\ held' = held \ {i}
    BY <1>3 DEF Release
  <2>2. CASE pc # "made"
    BY <1>1, <1>2, <2>1, <2>2 DEF FateOf
  <2>3. CASE pc = "made"
    <3>1. /\ made = 1 /\ listed = {} /\ connected = {} /\ refused = {} /\ expired = {}
          /\ unanswered = {} /\ unadded = {} /\ held \subseteq 1..1
      BY <2>3 DEF ChainInv, Beginning, Accounted, TypeOK
    <3>2. i = 1
      BY <2>1, <3>1
    <3>3. FateOf(i) = "trying" /\ FateOf(i)' = "dropped"
      BY <1>1, <2>1, <2>3, <3>1, <3>2 DEF FateOf
    <3>4. \A j \in Attempt \ {i} : FateOf(j)' = FateOf(j)
      BY <1>1, <3>1, <3>2 DEF FateOf, Attempt
    <3>5. Request!Ends(i, "dropped")
      BY <3>3, <3>4, OneEnds
    <3> QED  BY <1>1, <2>1, <3>5
             DEF Request!Step, Request!Silent, Request!SilentEnd, Request!Addr, Attempt
  <2> QED  BY <2>2, <2>3
<1>4. CASE Closed(i)
  <2>1. /\ UNCHANGED <<connected, held, callVars, historyVars>>
        /\ i \in connected /\ listed' = listed \ {i}
    BY <1>4 DEF Closed
  <2> QED  BY <1>1, <1>2, <2>1 DEF FateOf
<1>5. CASE Established(i)
  <2>1. /\ UNCHANGED <<fails, historyVars>> /\ connects' = connects + 1
        /\ connected' = connected \cup {i} /\ listed \ listed' \subseteq {i}
        /\ listed' \subseteq listed /\ Connecting(i)
    BY <1>5 DEF Established
  <2>2. FateOf(i) = "trying" /\ i \in 1..n /\ i = made /\ pc = "run" /\ n \in Nat
    BY <2>1, InHand
  <2>3. FateOf(i)' = "connected"
    BY <1>1, <2>1, <2>2 DEF FateOf
  <2>4. \A j \in Attempt \ {i} : FateOf(j)' = FateOf(j)
    BY <1>1, <2>1, <2>2 DEF FateOf
  <2>5. Request!Ends(i, "connected")
    BY <2>2, <2>3, <2>4, OneEnds
  <2> QED  BY <1>1, <2>1, <2>5 DEF Request!Step, Request!Connect, Request!Addr, Attempt
<1>6. CASE NoAnswer(i)
  <2>1. /\ UNCHANGED <<connects, connected, refused, unadded, expired>> /\ fails' = fails + 1
        /\ unanswered' = unanswered \cup {i} /\ listed' = listed \ {i} /\ Connecting(i)
    BY <1>6 DEF NoAnswer
  <2>2. /\ FateOf(i) = "trying" /\ i \in 1..n /\ i = made /\ pc = "run" /\ n \in Nat
        /\ connected = {} /\ refused = 1..(i - 1)
    BY <2>1, InHand
  <2>3. FateOf(i)' = "unanswered"
    BY <1>1, <2>1, <2>2 DEF FateOf
  <2>4. \A j \in Attempt \ {i} : FateOf(j)' = FateOf(j)
    BY <1>1, <2>1, <2>2 DEF FateOf
  <2>5. Request!Ends(i, "unanswered")
    BY <2>2, <2>3, <2>4, OneEnds
  <2> QED  BY <1>1, <2>1, <2>5 DEF Request!Step, Request!Unanswered, Request!Addr, Attempt
<1>7. CASE RefusedLast(i)
  <2>1. /\ UNCHANGED <<connects, connected, unanswered, unadded, expired>> /\ fails' = fails + 1
        /\ refused' = refused \cup {i} /\ listed' = listed \ {i} /\ Connecting(i)
    BY <1>7 DEF RefusedLast, Exhausted
  <2>2. /\ FateOf(i) = "trying" /\ i \in 1..n /\ i = made /\ pc = "run" /\ n \in Nat
        /\ connected = {}
    BY <2>1, InHand
  <2>3. FateOf(i)' = "refused"
    BY <1>1, <2>1, <2>2 DEF FateOf
  <2>4. \A j \in Attempt \ {i} : FateOf(j)' = FateOf(j)
    BY <1>1, <2>1, <2>2 DEF FateOf
  <2>5. Request!Ends(i, "refused")
    BY <2>2, <2>3, <2>4, OneEnds
  <2>6. i = n \/ touched'
    <3>1. touched' \in BOOLEAN
      BY QuietKeepsInv DEF ChainInv, TypeOK
    <3>2. touched' = FALSE => refused' = 1..n
      BY <1>7, LastMeansExhausted
    <3>4. refused = 1..(i - 1)
      BY <2>1, InHand
    <3>5. refused' = 1..i
      BY <2>1, <2>2, <3>4
    <3>3. 1..n = 1..i => n = i
      BY <2>2
    <3> QED  BY <3>1, <3>2, <3>3, <3>5
  <2> QED  BY <1>1, <2>1, <2>5, <2>6 DEF Request!Step, Request!Exhausted, Request!Addr, Attempt
<1>8. CASE ExpireArmed(i)
  <2>1. /\ UNCHANGED <<connected, refused, unanswered, callVars>> /\ pc = "run"
        /\ expired' = expired \cup {i} /\ listed' = listed \ {i} /\ tmr[i] = "armed"
    BY <1>8 DEF ExpireArmed
  <2>2. \A j \in Attempt \ {i} : FateOf(j)' = FateOf(j)
    BY <1>1, <2>1 DEF FateOf
  <2>3. CASE Connecting(i)
    <3>1. /\ FateOf(i) = "trying" /\ i \in 1..n /\ i = made /\ n \in Nat /\ i \notin unadded
          /\ connected = {} /\ refused = 1..(i - 1) /\ unanswered = {}
      BY <2>3, InHand
    <3>2. FateOf(i)' = "timedout"
      BY <1>1, <2>1, <3>1 DEF FateOf
    <3>3. Request!Ends(i, "timedout")
      BY <2>2, <3>1, <3>2, OneEnds
    <3> QED  BY <1>1, <2>1, <3>3
             DEF Request!Step, Request!Silent, Request!SilentEnd, Request!Addr, Attempt
  <2>4. CASE ~Connecting(i)
    <3>1. i \in 1..made
      BY <2>1, ChainAssumption DEF ChainInv, TypeOK, Beginning, Attempt
    <3>2. i \in connected \cup refused \cup unanswered \cup unadded \cup expired
      BY <2>1, <2>4, <3>1 DEF Accounted, Connecting
    <3>3. i \in listed => i \in connected
      BY <2>1, <2>4 DEF Connecting
    <3>4. FateOf(i)' = FateOf(i)
      BY <1>1, <2>1, <3>1, <3>2, <3>3 DEF FateOf
    <3> QED  BY <1>2, <2>1, <2>2, <3>4
  <2> QED  BY <2>3, <2>4
<1> QED  BY <1>3, <1>4, <1>5, <1>6, <1>7, <1>8 DEF Quiet

\* A refused attempt and the one at the next address.
LEMMA NextImplements ==
  ASSUME ChainInv, Accounted, NEW i \in Attempt, RefusedNext(i)
  PROVE  Request!Step
<1> USE DEF objectVars, listVars, callVars, historyVars
<1> DEFINE k == i + 1
<1>1. /\ Connecting(i) /\ made' = k /\ UNCHANGED <<pc, n, connected, unanswered, callVars>>
      /\ refused' = refused \cup {i} /\ i < n
  BY DEF RefusedNext, TryNext, Construct, HasNext
<1>2. /\ i = made /\ i \in 1..n /\ connected = {} /\ unanswered = {} /\ refused = 1..(i - 1)
      /\ listed = {i} /\ pc = "run" /\ FateOf(i) = "trying" /\ n \in Nat
  BY <1>1, InHand
<1>3. \/ listed' = {k} /\ unadded' = unadded
      \/ listed' = {} /\ unadded' = unadded \cup {k}
  BY <1>2 DEF RefusedNext, TryNext, Add
<1>4. k \in Attempt /\ i \in Nat
  BY <1>1, <1>2, ChainAssumption DEF ChainInv, TypeOK, Attempt
<1>5. FateOf(k) = "untried" /\ FateOf(k)' \in {"trying", "unadded"}
  BY <1>1, <1>2, <1>3, <1>4 DEF FateOf
<1>6. FateOf(i)' = "refused"
  BY <1>1, <1>2, <1>4 DEF FateOf
<1>7. ASSUME NEW j \in Attempt \ {i, k} PROVE FateOf(j)' = FateOf(j)
  <2>1. CASE j < i
    <3>1. j \in refused /\ j \in refused'
      BY <1>1, <1>2, <2>1 DEF Attempt
    <3> QED  BY <1>1, <1>2, <1>4, <2>1, <3>1 DEF FateOf, Attempt
  <2>2. CASE j > k
    BY <1>1, <1>2, <1>4, <2>2 DEF FateOf, Attempt
  <2> QED  BY <1>4, <2>1, <2>2 DEF Attempt
<1>8. /\ Fates[i] = "trying" /\ Fates[k] = "untried"
      /\ \E what \in {"trying", "unadded"} :
           Fates' = [Fates EXCEPT ![i] = "refused", ![k] = what]
  <2>1. Fates' = [Fates EXCEPT ![i] = "refused", ![k] = FateOf(k)']
    BY <1>4, <1>5, <1>6, <1>7 DEF Fates
  <2> QED  BY <1>2, <1>4, <1>5, <2>1 DEF Fates
<1>9. Request!TryNext(i)
  BY <1>1, <1>8 DEF Request!TryNext
<1> QED  BY <1>9 DEF Request!Step, Request!Addr, Attempt

LEMMA StepImplements ==
  ChainInv /\ Accounted /\ [Next]_vars => [Request!Next]_(Request!requestVars)
<1> SUFFICES ASSUME ChainInv, Accounted, [Next]_vars
             PROVE  [Request!Next]_(Request!requestVars)
  OBVIOUS
<1> USE DEF objectVars, listVars, callVars, historyVars
<1>1. CASE UNCHANGED vars
  BY <1>1 DEF vars, Request!requestVars, Fates, FateOf
<1>2. CASE Crash \/ \E i \in Attempt : ExpireDisabled(i)
  <2>1. /\ UNCHANGED <<n, made, listed, connected, held, callVars, historyVars, touched>>
        /\ pc' = pc \/ (pc' = "crashed" /\ touched)
    BY <1>2 DEF Crash, ExpireDisabled
  <2>2. touched => pc # "made"
    BY DEF ChainInv, TypeOK, Beginning, Intact, Orderly
  <2>3. \A j \in Attempt : FateOf(j)' = FateOf(j)
    BY <2>1, <2>2 DEF FateOf
  <2>4. Fates' = Fates
    BY <2>3 DEF Fates
  <2> QED  BY <2>1, <2>4 DEF Request!requestVars
<1>3. CASE Request!Step
  BY <1>3, MisuseStays DEF Request!Next
<1>4. ASSUME NEW i \in Attempt, Release(i) \/ Event(i) \/ ExpireArmed(i)
      PROVE  Quiet(i) \/ RefusedNext(i)
  BY <1>4, RefusedCases DEF Event, Quiet
<1> QED  BY <1>1, <1>2, <1>3, <1>4, BeginningImplements, QuietImplements, NextImplements
         DEF Next, Over

-----------------------------------------------------------------------------
(* How many steps a chain has left *)

Timed(what) == {i \in Attempt : tmr[i] = what}

\* Each step uses up some of this: attempts that can still be made, connected,
\* closed, dropped by the application, Timers that can still expire.
Rank == CASE pc = "crashed" -> 0 [] pc = "run" -> 1 [] OTHER -> 5
Untried == IF pc = "resolve" THEN MaxAddrs ELSE n - made

StepsLeft ==
  Rank + 3 * Untried + 2 * Cardinality(Attempt \ connected)
  + Cardinality(listed) + Cardinality(held)
  + 2 * Cardinality(Timed("armed")) + Cardinality(Timed("disabled"))

\* What the action does to a set of attempts can be counted.
LEMMA Counting ==
  ASSUME NEW S \in SUBSET Attempt, NEW T \in SUBSET Attempt, NEW i
  PROVE  /\ IsFiniteSet(S) /\ Cardinality(S) \in 0..MaxAddrs
         /\ S \subseteq T => Cardinality(S) <= Cardinality(T)
         /\ S \subseteq T \cup {i} => Cardinality(S) <= Cardinality(T) + 1
         /\ i \in T /\ S \subseteq T \ {i} => Cardinality(S) <= Cardinality(T) - 1
<1>1. IsFiniteSet(Attempt) /\ Cardinality(Attempt) = MaxAddrs
  BY FS_Interval, ChainAssumption DEF Attempt
<1>2. /\ IsFiniteSet(S) /\ Cardinality(S) <= MaxAddrs /\ IsFiniteSet(T)
      /\ Cardinality(S) \in Nat /\ Cardinality(T) \in Nat
  BY <1>1, FS_Subset, FS_CardinalityType
<1>3. S \subseteq T => Cardinality(S) <= Cardinality(T)
  BY <1>2, FS_Subset
<1>4. ASSUME S \subseteq T \cup {i} PROVE Cardinality(S) <= Cardinality(T) + 1
  <2>1. IsFiniteSet(T \cup {i}) /\ Cardinality(T \cup {i}) <= Cardinality(T) + 1
    BY <1>2, FS_AddElement
  <2>2. Cardinality(S) <= Cardinality(T \cup {i}) /\ Cardinality(T \cup {i}) \in Nat
    BY <1>4, <2>1, FS_Subset, FS_CardinalityType
  <2> QED  BY <1>2, <2>1, <2>2
<1>5. ASSUME i \in T, S \subseteq T \ {i} PROVE Cardinality(S) <= Cardinality(T) - 1
  <2>1. IsFiniteSet(T \ {i}) /\ Cardinality(T \ {i}) = Cardinality(T) - 1
    BY <1>2, <1>5, FS_RemoveElement
  <2>2. Cardinality(S) <= Cardinality(T \ {i})
    BY <1>5, <2>1, FS_Subset
  <2> QED  BY <2>1, <2>2
<1> QED  BY <1>2, <1>3, <1>4, <1>5, ChainAssumption

\* The sets that StepsLeft counts.
LEMMA CountedSets ==
  ASSUME TypeOK
  PROVE  /\ (Attempt \ connected) \in SUBSET Attempt /\ listed \in SUBSET Attempt
         /\ held \in SUBSET Attempt /\ Timed("armed") \in SUBSET Attempt
         /\ Timed("disabled") \in SUBSET Attempt
         /\ Rank \in 0..5 /\ Untried \in 0..MaxAddrs
<1>1. /\ n \in 0..MaxAddrs /\ made \in 0..n /\ MaxAddrs \in Nat
      /\ listed \subseteq 1..made /\ held \subseteq 1..made
  BY ChainAssumption DEF TypeOK
<1>2. 1..made \subseteq Attempt
  BY <1>1 DEF Attempt
<1>3. Untried \in 0..MaxAddrs
  BY <1>1 DEF Untried
<1> QED  BY <1>1, <1>2, <1>3 DEF Rank, Timed

LEMMA CountedSetsAfter ==
  ASSUME TypeOK'
  PROVE  /\ (Attempt \ connected)' \in SUBSET Attempt /\ listed' \in SUBSET Attempt
         /\ held' \in SUBSET Attempt /\ Timed("armed")' \in SUBSET Attempt
         /\ Timed("disabled")' \in SUBSET Attempt
<1>1. /\ n' \in 0..MaxAddrs /\ made' \in 0..n' /\ MaxAddrs \in Nat
      /\ listed' \subseteq 1..made' /\ held' \subseteq 1..made'
  BY ChainAssumption DEF TypeOK
<1>2. 1..made' \subseteq Attempt
  BY <1>1 DEF Attempt
<1> QED  BY <1>1, <1>2 DEF Timed

\* What a chain starts with.
LEMMA StartsBounded == Init => StepsLeft \in 0..(5 * MaxAddrs + 5)
<1> SUFFICES ASSUME Init PROVE StepsLeft \in 0..(5 * MaxAddrs + 5)
  OBVIOUS
<1>1. /\ Rank = 5 /\ Untried = MaxAddrs /\ listed = {} /\ held = {}
      /\ Timed("armed") = {} /\ Timed("disabled") = {} /\ MaxAddrs \in Nat
      /\ Attempt \ connected = Attempt
  BY ChainAssumption DEF Init, Rank, Untried, Timed
<1>2. Cardinality({}) = 0 /\ Cardinality(Attempt) = MaxAddrs
  BY <1>1, FS_EmptySet, FS_Interval DEF Attempt
<1>3. /\ Cardinality(Attempt \ connected) = MaxAddrs
      /\ Cardinality(listed) = 0 /\ Cardinality(held) = 0
      /\ Cardinality(Timed("armed")) = 0 /\ Cardinality(Timed("disabled")) = 0
  BY <1>1, <1>2
<1>4. StepsLeft = 5 + 3 * MaxAddrs + 2 * MaxAddrs + 0 + 0 + 2 * 0 + 0
  BY <1>1, <1>3 DEF StepsLeft
<1> QED  BY <1>1, <1>4

LEMMA CountsAfter ==
  ASSUME TypeOK' PROVE StepsLeft' \in Nat
<1>1. /\ n' \in 0..MaxAddrs /\ made' \in 0..n' /\ MaxAddrs \in Nat
  BY ChainAssumption DEF TypeOK
<1>2. Rank' \in Nat /\ Untried' \in Nat
  BY <1>1 DEF Rank, Untried
<1>3. /\ Cardinality((Attempt \ connected)') \in Nat /\ Cardinality(listed') \in Nat
      /\ Cardinality(held') \in Nat /\ Cardinality(Timed("armed")') \in Nat
      /\ Cardinality(Timed("disabled")') \in Nat
  BY CountedSetsAfter, Counting, ChainAssumption
<1> QED  BY <1>2, <1>3 DEF StepsLeft

\* disable_timeout exchanges an armed Timer for a disabled one.
LEMMA DisablingCounts ==
  ASSUME TypeOK, TypeOK', NEW i \in Attempt, tmr' = Disabled(i)
  PROVE  /\ Cardinality(Timed("armed")') \in Nat /\ Cardinality(Timed("disabled")') \in Nat
         /\ 2 * Cardinality(Timed("armed")') + Cardinality(Timed("disabled")')
              <= 2 * Cardinality(Timed("armed")) + Cardinality(Timed("disabled"))
<1>1. /\ Timed("armed") \in SUBSET Attempt /\ Timed("disabled") \in SUBSET Attempt
      /\ Timed("armed")' \in SUBSET Attempt /\ Timed("disabled")' \in SUBSET Attempt
  BY DEF Timed
<1>2. CASE tmr[i] = "armed"
  <2>1. /\ i \in Timed("armed") /\ Timed("armed")' \subseteq Timed("armed") \ {i}
        /\ Timed("disabled")' \subseteq Timed("disabled") \cup {i}
    BY <1>2 DEF Disabled, Timed, TypeOK
  <2>2. /\ Cardinality(Timed("armed")') <= Cardinality(Timed("armed")) - 1
        /\ Cardinality(Timed("disabled")') <= Cardinality(Timed("disabled")) + 1
    BY <1>1, <2>1, Counting
  <2>3. /\ Cardinality(Timed("armed")') \in 0..MaxAddrs
        /\ Cardinality(Timed("armed")) \in 0..MaxAddrs
        /\ Cardinality(Timed("disabled")') \in 0..MaxAddrs
        /\ Cardinality(Timed("disabled")) \in 0..MaxAddrs
    BY <1>1, Counting
  <2> QED  BY <2>2, <2>3, ChainAssumption
<1>3. CASE tmr[i] # "armed"
  <2>1. Timed("armed")' = Timed("armed") /\ Timed("disabled")' = Timed("disabled")
    BY <1>3 DEF Disabled, Timed
  <2> HIDE DEF Timed
  <2> QED  BY <1>1, <2>1, Counting, ChainAssumption
<1> QED  BY <1>2, <1>3

\* Everything is counted by natural numbers, before and after.
LEMMA Counts ==
  ASSUME TypeOK
  PROVE  /\ Cardinality(Attempt \ connected) \in Nat /\ Cardinality(listed) \in Nat
         /\ Cardinality(held) \in Nat /\ Cardinality(Timed("armed")) \in Nat
         /\ Cardinality(Timed("disabled")) \in Nat
         /\ Rank \in Nat /\ Untried \in Nat
BY CountedSets, Counting, ChainAssumption

\* The handlers that make no attempt.
LEMMA QuietShrinks ==
  ASSUME ChainInv, ChainInv', NEW i \in Attempt, Quiet(i)
  PROVE  StepsLeft' < StepsLeft
<1> USE DEF objectVars, listVars, callVars, historyVars
<1>1. TypeOK /\ TypeOK' /\ UNCHANGED <<pc, n, made>>
  BY QuietFrame DEF ChainInv
<1>2. Rank' = Rank /\ Untried' = Untried
  BY <1>1 DEF Rank, Untried
<1>3. /\ (Attempt \ connected) \in SUBSET Attempt /\ listed \in SUBSET Attempt
      /\ held \in SUBSET Attempt /\ Timed("armed") \in SUBSET Attempt
      /\ Timed("disabled") \in SUBSET Attempt
  BY <1>1, CountedSets
<1>4. /\ (Attempt \ connected)' \in SUBSET Attempt /\ listed' \in SUBSET Attempt
      /\ held' \in SUBSET Attempt /\ Timed("armed")' \in SUBSET Attempt
      /\ Timed("disabled")' \in SUBSET Attempt
  BY <1>1, CountedSetsAfter
<1>5. /\ Cardinality(Attempt \ connected) \in Nat /\ Cardinality(listed) \in Nat
      /\ Cardinality(held) \in Nat /\ Cardinality(Timed("armed")) \in Nat
      /\ Cardinality(Timed("disabled")) \in Nat /\ Rank \in Nat /\ Untried \in Nat
  BY <1>1, Counts
<1>6. /\ Cardinality((Attempt \ connected)') \in Nat /\ Cardinality(listed') \in Nat
      /\ Cardinality(held') \in Nat /\ Cardinality(Timed("armed")') \in Nat
      /\ Cardinality(Timed("disabled")') \in Nat
  BY <1>4, Counting, ChainAssumption
<1>7. CASE Release(i)
  <2>1. /\ i \in held /\ held' = held \ {i}
        /\ UNCHANGED <<connected, listed, tmr>>
    BY <1>7 DEF Release
  <2>2. Timed("armed")' = Timed("armed") /\ Timed("disabled")' = Timed("disabled")
    BY <2>1 DEF Timed
  <2>3. Cardinality(held') <= Cardinality(held) - 1
    BY <1>3, <1>4, <2>1, Counting
  <2> QED  BY <1>2, <1>5, <1>6, <2>1, <2>2, <2>3 DEF StepsLeft
<1>8. CASE Closed(i)
  <2>1. /\ i \in listed /\ listed' = listed \ {i}
        /\ UNCHANGED <<connected, held, tmr>>
    BY <1>8 DEF Closed
  <2>2. Timed("armed")' = Timed("armed") /\ Timed("disabled")' = Timed("disabled")
    BY <2>1 DEF Timed
  <2>3. Cardinality(listed') <= Cardinality(listed) - 1
    BY <1>3, <1>4, <2>1, Counting
  <2> QED  BY <1>2, <1>5, <1>6, <2>1, <2>2, <2>3 DEF StepsLeft
<1>9. CASE ExpireArmed(i)
  <2>1. /\ tmr[i] = "armed" /\ tmr' = [tmr EXCEPT ![i] = "gone"]
        /\ listed' \subseteq listed /\ UNCHANGED <<connected, held>>
    BY <1>9 DEF ExpireArmed
  <2>2. /\ i \in Timed("armed") /\ Timed("armed")' \subseteq Timed("armed") \ {i}
        /\ Timed("disabled")' \subseteq Timed("disabled")
    BY <1>1, <2>1 DEF Timed, TypeOK
  <2>3. /\ Cardinality(Timed("armed")') <= Cardinality(Timed("armed")) - 1
        /\ Cardinality(Timed("disabled")') <= Cardinality(Timed("disabled"))
        /\ Cardinality(listed') <= Cardinality(listed)
    BY <1>3, <1>4, <2>1, <2>2, Counting
  <2> QED  BY <1>2, <1>5, <1>6, <2>1, <2>3 DEF StepsLeft
<1>10. CASE Established(i)
  <2>1. /\ i \in Attempt \ connected /\ (Attempt \ connected)' = (Attempt \ connected) \ {i}
        /\ tmr' = Disabled(i) /\ held' \subseteq held \cup {i} /\ listed' \subseteq listed
    BY <1>10 DEF Established, Connecting
  <2>2. /\ Cardinality((Attempt \ connected)') <= Cardinality(Attempt \ connected) - 1
        /\ Cardinality(held') <= Cardinality(held) + 1
        /\ Cardinality(listed') <= Cardinality(listed)
    BY <1>3, <1>4, <2>1, Counting
  <2> QED  BY <1>1, <1>2, <1>5, <1>6, <2>1, <2>2, DisablingCounts DEF StepsLeft
<1>11. CASE NoAnswer(i) \/ RefusedLast(i)
  <2>1. /\ i \in listed /\ listed' = listed \ {i} /\ tmr' = Disabled(i)
        /\ UNCHANGED <<connected, held>>
    BY <1>11 DEF NoAnswer, RefusedLast, Exhausted, Connecting
  <2>2. Cardinality(listed') <= Cardinality(listed) - 1
    BY <1>3, <1>4, <2>1, Counting
  <2> QED  BY <1>1, <1>2, <1>5, <1>6, <2>1, <2>2, DisablingCounts DEF StepsLeft
<1> QED  BY <1>7, <1>8, <1>9, <1>10, <1>11 DEF Quiet

\* The next attempt, or the first one.
LEMMA AddShrinks ==
  ASSUME ChainInv, ChainInv', NEW i \in Attempt, NEW old,
         tmr[i] = "none" /\ tmr' \in {tmr, [tmr EXCEPT ![i] = "armed"]},
         listed' \subseteq (listed \ {old}) \cup {i},
         UNCHANGED <<connected, held>>
  PROVE  /\ Cardinality(listed')
              <= Cardinality(listed) + IF old \in listed THEN 0 ELSE 1
         /\ 2 * Cardinality(Timed("armed")') + Cardinality(Timed("disabled")')
              <= 2 * Cardinality(Timed("armed")) + Cardinality(Timed("disabled")) + 2
<1>1. TypeOK /\ TypeOK'
  BY DEF ChainInv
<1>2. /\ listed \in SUBSET Attempt /\ listed' \in SUBSET Attempt
      /\ Timed("armed") \in SUBSET Attempt /\ Timed("armed")' \in SUBSET Attempt
      /\ Timed("disabled") \in SUBSET Attempt /\ Timed("disabled")' \in SUBSET Attempt
  BY <1>1, CountedSets, CountedSetsAfter
<1>3. /\ Timed("armed")' \subseteq Timed("armed") \cup {i}
      /\ Timed("disabled")' \subseteq Timed("disabled")
  BY <1>1 DEF Timed, TypeOK
<1>4. /\ Cardinality(Timed("armed")') <= Cardinality(Timed("armed")) + 1
      /\ Cardinality(Timed("disabled")') <= Cardinality(Timed("disabled"))
  BY <1>2, <1>3, Counting
<1>5. /\ Cardinality(listed) \in Nat /\ Cardinality(listed') \in Nat
      /\ Cardinality(Timed("armed")) \in Nat /\ Cardinality(Timed("disabled")) \in Nat
      /\ Cardinality(Timed("armed")') \in Nat /\ Cardinality(Timed("disabled")') \in Nat
  BY <1>2, Counting, ChainAssumption
<1>6. CASE old \in listed
  <2>1. listed \ {old} \in SUBSET Attempt
    BY <1>2
  <2>2. /\ Cardinality(listed \ {old}) <= Cardinality(listed) - 1
        /\ Cardinality(listed') <= Cardinality(listed \ {old}) + 1
        /\ Cardinality(listed \ {old}) \in Nat
    BY <1>2, <1>6, <2>1, Counting, ChainAssumption
  <2> QED  BY <1>4, <1>5, <1>6, <2>2
<1>7. CASE old \notin listed
  <2>1. Cardinality(listed') <= Cardinality(listed) + 1
    BY <1>2, <1>7, Counting
  <2> QED  BY <1>4, <1>5, <1>7, <2>1
<1> QED  BY <1>6, <1>7

\* The steps that make an attempt or add the first.
LEMMA NextShrinks ==
  ASSUME ChainInv, ChainInv', NEW i \in Attempt, RefusedNext(i)
  PROVE  StepsLeft' < StepsLeft
<1> USE DEF objectVars, listVars, callVars, historyVars
<1>1. /\ i = made /\ i \in listed /\ pc = "run" /\ pc' = "run" /\ n' = n /\ made' = made + 1
      /\ UNCHANGED <<connected, held>>
  BY DEF RefusedNext, TryNext, Construct, Connecting, ChainInv, OneCaller
<1>2. /\ n \in Nat /\ made \in 0..n /\ made' \in 0..n /\ n <= MaxAddrs
  BY <1>1, ChainAssumption DEF ChainInv, TypeOK
<1>3. /\ i + 1 \in Attempt /\ tmr[i + 1] = "none"
  BY <1>1, <1>2, ChainAssumption DEF Attempt, ChainInv, Beginning
<1>4. /\ tmr' \in {tmr, [tmr EXCEPT ![i + 1] = "armed"]}
      /\ listed' \subseteq (listed \ {i}) \cup {i + 1}
  BY DEF RefusedNext, TryNext, Add, SetTimer
<1>5. /\ Cardinality(listed') <= Cardinality(listed)
      /\ 2 * Cardinality(Timed("armed")') + Cardinality(Timed("disabled")')
           <= 2 * Cardinality(Timed("armed")) + Cardinality(Timed("disabled")) + 2
  BY <1>1, <1>3, <1>4, AddShrinks, Counts DEF ChainInv
<1>6. Rank' = Rank /\ Untried' = Untried - 1
  BY <1>1, <1>2 DEF Rank, Untried
<1>7. /\ Cardinality(Attempt \ connected) \in Nat /\ Cardinality(listed) \in Nat
      /\ Cardinality(held) \in Nat /\ Cardinality(Timed("armed")) \in Nat
      /\ Cardinality(Timed("disabled")) \in Nat /\ Rank \in Nat /\ Untried \in Nat
  BY Counts DEF ChainInv
<1>8. /\ Cardinality(listed') \in Nat /\ Cardinality(Timed("armed")') \in Nat
      /\ Cardinality(Timed("disabled")') \in Nat
  BY CountedSetsAfter, Counting, ChainAssumption DEF ChainInv
<1> QED  BY <1>1, <1>5, <1>6, <1>7, <1>8 DEF StepsLeft

LEMMA FirstShrinks ==
  ASSUME ChainInv, ChainInv', FirstAdd
  PROVE  StepsLeft' < StepsLeft
<1> USE DEF objectVars, listVars, callVars, historyVars
<1>1. /\ pc = "made" /\ pc' = "run" /\ UNCHANGED <<n, made, connected, held>>
      /\ made = 1 /\ listed = {} /\ tmr[1] = "none"
  BY DEF FirstAdd, ChainInv, Beginning
<1>2. 1 \in Attempt
  <2>1. n \in 0..MaxAddrs /\ made \in 0..n /\ MaxAddrs \in Nat
    BY ChainAssumption DEF ChainInv, TypeOK
  <2> QED  BY <1>1, <2>1 DEF Attempt
<1>3. /\ tmr' \in {tmr, [tmr EXCEPT ![1] = "armed"]}
      /\ listed' \subseteq (listed \ {1}) \cup {1}
  BY <1>1 DEF FirstAdd, Add, SetTimer
<1>4. /\ Cardinality(listed') <= Cardinality(listed) + 1
      /\ 2 * Cardinality(Timed("armed")') + Cardinality(Timed("disabled")')
           <= 2 * Cardinality(Timed("armed")) + Cardinality(Timed("disabled")) + 2
  <2>1. 1 \notin listed
    BY <1>1
  <2> QED  BY <1>1, <1>2, <1>3, <2>1, AddShrinks
<1>5. Rank = 5 /\ Rank' = 1 /\ Untried' = Untried
  BY <1>1 DEF Rank, Untried
<1>6. /\ Cardinality(Attempt \ connected) \in Nat /\ Cardinality(listed) \in Nat
      /\ Cardinality(held) \in Nat /\ Cardinality(Timed("armed")) \in Nat
      /\ Cardinality(Timed("disabled")) \in Nat /\ Untried \in Nat
  BY Counts DEF ChainInv
<1>7. /\ Cardinality(listed') \in Nat /\ Cardinality(Timed("armed")') \in Nat
      /\ Cardinality(Timed("disabled")') \in Nat
  BY CountedSetsAfter, Counting, ChainAssumption DEF ChainInv
<1> QED  BY <1>1, <1>4, <1>5, <1>6, <1>7 DEF StepsLeft

\* The steps that change less.
LEMMA OthersShrink ==
  ASSUME ChainInv, ChainInv',
         \/ ResolveFails \/ GetConnHdl \/ Crash
         \/ \E i \in Attempt : ExpireDisabled(i)
  PROVE  StepsLeft' < StepsLeft
<1> USE DEF objectVars, listVars, callVars, historyVars
<1>1. /\ Cardinality(Attempt \ connected) \in Nat /\ Cardinality(listed) \in Nat
      /\ Cardinality(held) \in Nat /\ Cardinality(Timed("armed")) \in Nat
      /\ Cardinality(Timed("disabled")) \in Nat /\ Rank \in Nat /\ Untried \in Nat
      /\ MaxAddrs \in Nat
  BY Counts, ChainAssumption DEF ChainInv
<1>2. /\ listed \in SUBSET Attempt /\ held \in SUBSET Attempt
      /\ Timed("armed") \in SUBSET Attempt /\ Timed("disabled") \in SUBSET Attempt
      /\ held' \in SUBSET Attempt
      /\ Timed("armed")' \in SUBSET Attempt /\ Timed("disabled")' \in SUBSET Attempt
  BY CountedSets, CountedSetsAfter DEF ChainInv
<1>3. CASE ResolveFails \/ Crash
  <2>1. /\ UNCHANGED <<connected, listed, held, tmr>>
        /\ Rank' < Rank /\ Rank' \in Nat
    BY <1>3 DEF ResolveFails, Crash, Rank, ChainInv, TypeOK
  <2>2. Timed("armed")' = Timed("armed") /\ Timed("disabled")' = Timed("disabled")
    BY <2>1 DEF Timed
  <2>3. Untried' <= Untried /\ Untried' \in Nat
    <3>1. CASE ResolveFails
      <4>1. n = 0 /\ made = 0 /\ n' = 0 /\ made' = 0 /\ pc' = "run"
        BY <3>1 DEF ResolveFails, ChainInv, Beginning
      <4> QED  BY <1>1, <4>1 DEF Untried
    <3>2. CASE Crash
      <4>1. pc # "resolve" /\ pc' # "resolve" /\ UNCHANGED <<n, made>>
        BY <3>2 DEF Crash, ChainInv, Beginning, Intact, Orderly
      <4> QED  BY <1>1, <4>1 DEF Untried
    <3> QED  BY <1>3, <3>1, <3>2
  <2> QED  BY <1>1, <2>1, <2>2, <2>3 DEF StepsLeft
<1>4. CASE GetConnHdl
  <2>1. /\ UNCHANGED <<connected, listed, tmr>> /\ held' = {1} /\ pc = "resolve" /\ pc' = "made"
        /\ n' \in 1..MaxAddrs /\ made' = 1
    BY <1>4 DEF GetConnHdl, Construct
  <2>2. Timed("armed")' = Timed("armed") /\ Timed("disabled")' = Timed("disabled")
    BY <2>1 DEF Timed
  <2>3. held' \subseteq held \cup {1}
    BY <2>1
  <2>4. Cardinality(held') <= Cardinality(held) + 1 /\ Cardinality(held') \in Nat
    BY <1>1, <1>2, <2>3, Counting
  <2>5. Rank' = Rank /\ Untried' <= Untried - 1 /\ Untried' \in Nat
    BY <1>1, <2>1 DEF Rank, Untried
  <2> QED  BY <1>1, <2>1, <2>2, <2>4, <2>5 DEF StepsLeft
<1>5. ASSUME NEW i \in Attempt, ExpireDisabled(i) PROVE StepsLeft' < StepsLeft
  <2>1. /\ UNCHANGED <<pc, n, made, connected, listed, held>>
        /\ tmr[i] = "disabled" /\ tmr' = [tmr EXCEPT ![i] = "gone"]
    BY <1>5 DEF ExpireDisabled
  <2>2. /\ Timed("armed")' \subseteq Timed("armed") /\ i \in Timed("disabled")
        /\ Timed("disabled")' \subseteq Timed("disabled") \ {i}
    BY <2>1 DEF Timed, ChainInv, TypeOK
  <2>3. /\ Cardinality(Timed("armed")') <= Cardinality(Timed("armed"))
        /\ Cardinality(Timed("disabled")') <= Cardinality(Timed("disabled")) - 1
        /\ Cardinality(Timed("armed")') \in Nat /\ Cardinality(Timed("disabled")') \in Nat
    BY <1>1, <1>2, <2>2, Counting
  <2>4. Rank' = Rank /\ Untried' = Untried
    BY <2>1 DEF Rank, Untried
  <2> QED  BY <1>1, <2>1, <2>3, <2>4 DEF StepsLeft
<1> QED  BY <1>3, <1>4, <1>5

-----------------------------------------------------------------------------
(* The theorems *)

\* The types of ClientAttempts' variables.
THEOREM ChainTypes == Spec => []TypeOK
<1>1. ChainInv => TypeOK
  BY DEF ChainInv
<1> QED  BY <1>1, ChainInvariance, PTL

\* A failure means that the addresses are exhausted, silence that a timeout
\* expired or an add failed (client.cpp:139-158).
THEOREM OutcomesAreExplained == Spec => []OutcomeIsExplained
<1>1. ChainInv => OutcomeIsExplained
  BY DEF ChainInv
<1> QED  BY <1>1, ChainInvariance, PTL

\* A chain of attempts keeps the promise of ConnRequest, step by step, whatever
\* its Timers, shared pointers and the loop do: the addresses are tried in
\* order, one at a time and each once, and the callback the application gets is
\* the one that belongs to how the last attempt ended (client.cpp:15-33,
\* 109-159, event_loop.cpp:58-74).
THEOREM ImplementsRequest == Spec => RequestSpec
<1>1. Init => Request!Init
  <2> SUFFICES ASSUME Init PROVE Request!Init
    OBVIOUS
  <2>1. \A i \in Attempt : FateOf(i) = "untried"
    BY DEF Init, FateOf, Attempt
  <2> QED  BY <2>1 DEF Init, Request!Init, Request!Addr, Fates, Attempt
<1> QED  BY <1>1, StepImplements, ChainInvariance, AllAccounted, PTL
         DEF Spec, RequestSpec, Request!Spec

RequestTheorems == INSTANCE ConnRequestProofs WITH
                     total <- n, fate <- Fates, broken <- touched

\* So the application can rely on all that follows from the promise: the
\* addresses are tried in order, none after one that was not refused, and the
\* one call is connect_cb exactly if an attempt was established and fail_cb
\* only after the last refusal or for an attempt without an answer, unless the
\* freed list was used (client.cpp:117-158).
THEOREM PromiseIsKept == Spec => [](Request!InOrder /\ Request!RightCall)
<1>1. MaxAddrs \in Nat
  BY ChainAssumption
<1>2. RequestTheorems!Spec => [](RequestTheorems!InOrder /\ RequestTheorems!RightCall)
  BY <1>1, RequestTheorems!RequestPromise
<1>3. Request!Init => RequestTheorems!Init
  BY DEF RequestTheorems!Init, Request!Init, RequestTheorems!Addr, Request!Addr
<1>4. [Request!Next]_(Request!requestVars)
        => [RequestTheorems!Next]_(RequestTheorems!requestVars)
  BY DEF RequestTheorems!requestVars, Request!requestVars,
         RequestTheorems!Next, Request!Next, RequestTheorems!Step, Request!Step,
         RequestTheorems!Begin, Request!Begin, RequestTheorems!Ends, Request!Ends,
         RequestTheorems!Connect, Request!Connect,
         RequestTheorems!Unanswered, Request!Unanswered,
         RequestTheorems!Exhausted, Request!Exhausted,
         RequestTheorems!TryNext, Request!TryNext,
         RequestTheorems!Silent, Request!Silent,
         RequestTheorems!Misused, Request!Misused,
         RequestTheorems!SilentEnd, Request!SilentEnd,
         RequestTheorems!Addr, Request!Addr
<1>5. RequestTheorems!InOrder /\ RequestTheorems!RightCall
        => Request!InOrder /\ Request!RightCall
  BY DEF RequestTheorems!InOrder, Request!InOrder,
         RequestTheorems!RightCall, Request!RightCall,
         RequestTheorems!SilentEnd, Request!SilentEnd,
         RequestTheorems!Addr, Request!Addr
<1> QED  BY <1>2, <1>3, <1>4, <1>5, ImplementsRequest, PTL
         DEF RequestSpec, Request!Spec, RequestTheorems!Spec

\* A chain cannot go on for ever, whatever peers, Timers and the application
\* do: every step, of whichever handler, uses up some of what it started with,
\* so that a request is over, or rests, after at most five steps for each address
\* and five more.  No refusal leads back to an address that was tried, and no
\* Timer, armed or disabled, is set again (client.cpp:139-158, timer.cpp:45-54).
THEOREM ChainIsFinite ==
  Spec => /\ [](StepsLeft \in 0..(5 * MaxAddrs + 5))
          /\ [][StepsLeft' < StepsLeft]_vars
<1> DEFINE Bounded == StepsLeft \in 0..(5 * MaxAddrs + 5)
<1>1. Init => Bounded
  BY StartsBounded
<1>2. ChainInv /\ ChainInv' /\ [Next]_vars => [StepsLeft' < StepsLeft]_vars
  <2> SUFFICES ASSUME ChainInv, ChainInv', Next, ~UNCHANGED vars
               PROVE  StepsLeft' < StepsLeft
    OBVIOUS
  <2>1. ASSUME NEW i \in Attempt, Release(i) \/ Event(i) \/ ExpireArmed(i)
        PROVE  Quiet(i) \/ RefusedNext(i)
    BY <2>1, RefusedCases DEF Event, Quiet
  <2> QED  BY <2>1, QuietShrinks, NextShrinks, FirstShrinks, OthersShrink DEF Next, Over
<1>3. Bounded /\ ChainInv /\ ChainInv' /\ [StepsLeft' < StepsLeft]_vars => Bounded'
  <2>1. ASSUME UNCHANGED vars PROVE StepsLeft' = StepsLeft
    BY <2>1 DEF vars, objectVars, StepsLeft, Rank, Untried, Timed
  <2>2. ASSUME ChainInv' PROVE StepsLeft' \in Nat
    BY <2>2, CountsAfter DEF ChainInv
  <2>3. ChainInv => StepsLeft \in Nat /\ MaxAddrs \in Nat
    BY Counts, ChainAssumption DEF ChainInv, StepsLeft
  <2> HIDE DEF StepsLeft
  <2> QED  BY <2>1, <2>2, <2>3
<1> QED  BY <1>1, <1>2, <1>3, ChainInvariance, PTL DEF Spec

\* Every attempt of a chain has the timeout of the first (client.cpp:156).
THEOREM TimeoutsAreInherited == Spec => []TimeoutIsInherited
<1>1. ChainInv => TimeoutIsInherited
  BY DEF ChainInv, Inherits, TimeoutIsInherited, Connecting
<1> QED  BY <1>1, ChainInvariance, PTL

\* Which chains keep their list, and who frees it (client.cpp:85-90).
THEOREM ListLifetime == Spec => []TimersKeepTheList
<1>1. ChainInv => TimersKeepTheList
  <2> SUFFICES ASSUME ChainInv PROVE TimersKeepTheList
    OBVIOUS
  <2>1. touched \in BOOLEAN /\ made \in Nat
    BY ChainAssumption DEF ChainInv, TypeOK
  <2>2. touched => made > 1 /\ (timeout > 0 /\ untimed = {} => expired # {})
    BY <2>1 DEF ChainInv, Intact, Orderly
  <2> QED  BY <2>1, <2>2 DEF ChainInv, Freed, TimersKeepTheList
<1> QED  BY <1>1, ChainInvariance, PTL

\* Every Timer expires at the whole seconds of its timeout, whatever that is, and
\* no descriptor is lost to a value timerfd_settime refuses (timer.cpp:27-37).
THEOREM TimersAreCutShort == Spec => []TimeoutIsCutShort
<1>1. ChainInv => TimeoutIsCutShort
  <2> SUFFICES ASSUME ChainInv PROVE TimeoutIsCutShort
    OBVIOUS
  <2>1. timeout \in Int /\ leaked = {}
    BY ChainAssumption DEF ChainInv, TypeOK, Timers
  <2>2. ASSUME NEW i \in Attempt, tmr[i] = "armed"
        PROVE  /\ Arms(it_value[i])
               /\ CutShort(it_value[i], timeout)
               /\ Exact(it_value[i], timeout) <=> timeout % 1000 = 0
    <3>1. timeout \in Nat \ {0} /\ it_value[i] = ItValue(timeout)
      BY <2>1, <2>2 DEF ChainInv, Timers
    <3> QED  BY <3>1, TimeoutConversion, SMT
  <2> QED  BY <2>1, <2>2, Zenon DEF TimeoutIsCutShort
<1> QED  BY <1>1, ChainInvariance, PTL
=============================================================================
