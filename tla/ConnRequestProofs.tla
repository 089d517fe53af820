-------------------------- MODULE ConnRequestProofs --------------------------
(***************************************************************************)
(* What an application can rely on when get_conn_hdl keeps the promise of  *)
(* ConnRequest.  Module ClientAttemptsProofs shows that the attempts keep  *)
(* it, so that all of this holds of them.                                  *)
(***************************************************************************)
EXTENDS ConnRequest, TLAPS

RequestTypes ==
  /\ total \in 0..MaxAddrs /\ fate \in [Addr -> Fate]
  /\ connects \in Nat /\ fails \in Nat /\ broken \in BOOLEAN
  /\ total = 0 => connects = 0 /\ fails = 0

RequestInv == RequestTypes /\ InOrder /\ RightCall

\* The attempt in hand stands between refused ones and untried ones.
LEMMA Between ==
  ASSUME MaxAddrs \in Nat, RequestInv, NEW i \in Addr, fate[i] = "trying"
  PROVE  /\ i \in 1..total /\ total \in Nat \ {0} /\ connects = 0 /\ fails = 0
         /\ \A j \in Addr : j < i => fate[j] = "refused"
         /\ \A j \in Addr : j > i => fate[j] = "untried"
<1>1. i <= total /\ \A j \in Addr : j < i => fate[j] = "refused"
  BY DEF RequestInv, InOrder
<1>2. \A j \in Addr : j > i => fate[j] = "untried"
  BY DEF RequestInv, InOrder
<1>3. i \in 1..total /\ total \in Nat \ {0}
  BY <1>1 DEF RequestInv, RequestTypes, Addr
<1>4. connects + fails = 0
  BY <1>3 DEF RequestInv, RightCall
<1> QED  BY <1>1, <1>2, <1>3, <1>4 DEF RequestInv, RequestTypes

\* An attempt may end in any way that is reported rightly.
LEMMA EndKeepsInv ==
  ASSUME MaxAddrs \in Nat, RequestInv, NEW i \in Addr, NEW what \in Fate \ {"untried", "trying"},
         Ends(i, what), total' = total, broken' \in {broken, TRUE},
         connects' = IF what = "connected" THEN connects + 1 ELSE connects,
         fails' = IF what \in {"unanswered", "refused"} THEN fails + 1 ELSE fails,
         what = "refused" => i = total \/ broken'
  PROVE  RequestInv'
<1>1. /\ i \in 1..total /\ total \in Nat \ {0} /\ connects = 0 /\ fails = 0
      /\ \A j \in Addr : j < i => fate[j] = "refused"
      /\ \A j \in Addr : j > i => fate[j] = "untried"
  BY Between DEF Ends
<1>2. /\ fate \in [Addr -> Fate] /\ total \in 0..MaxAddrs /\ broken' \in BOOLEAN
      /\ fate' = [fate EXCEPT ![i] = what]
  BY DEF RequestInv, RequestTypes, Ends
<1>3. /\ fate'[i] = what
      /\ \A j \in Addr : j < i => fate'[j] = "refused"
      /\ \A j \in Addr : j > i => fate'[j] = "untried"
  BY <1>1, <1>2 DEF Addr
<1>4. RequestTypes'
  BY <1>1, <1>2 DEF RequestTypes
<1>5. InOrder'
  BY <1>1, <1>2, <1>3 DEF InOrder, Addr
<1>6. connects' + fails' <= 1
  BY <1>1
<1>7. connects' = 1 <=> \E j \in Addr : fate'[j] = "connected"
  BY <1>1, <1>3 DEF Addr
<1>8. fails' = 1 =>
        \/ broken'
        \/ total' > 0 /\ \A j \in 1..total' : fate'[j] = "refused"
        \/ \E j \in Addr : fate'[j] = "unanswered"
  <2>1. CASE what = "refused" /\ i = total
    BY <1>1, <1>2, <1>3, <2>1 DEF Addr
  <2>2. CASE ~(what = "refused" /\ i = total)
    BY <1>1, <1>3, <2>2
  <2> QED  BY <2>1, <2>2
<1>9. connects' + fails' = 0 <=>
        \E j \in Addr : fate'[j] \in {"trying"} \cup SilentEnd
  <2>1. connects' + fails' = 0 <=> what \in SilentEnd
    BY <1>1 DEF Fate, SilentEnd
  <2>2. (\E j \in Addr : fate'[j] \in {"trying"} \cup SilentEnd) <=> what \in SilentEnd
    BY <1>3 DEF Addr, SilentEnd
  <2> QED  BY <2>1, <2>2
<1> QED  BY <1>4, <1>5, <1>6, <1>7, <1>8, <1>9 DEF RequestInv, RightCall

\* The step to the next address.
LEMMA TryNextKeepsInv ==
  ASSUME MaxAddrs \in Nat, RequestInv, NEW i \in Addr, TryNext(i), broken' \in {broken, TRUE}
  PROVE  RequestInv'
<1> DEFINE k == i + 1
<1>1. /\ i \in 1..total /\ total \in Nat \ {0} /\ connects = 0 /\ fails = 0
      /\ \A j \in Addr : j < i => fate[j] = "refused"
      /\ \A j \in Addr : j > i => fate[j] = "untried"
  BY Between DEF TryNext
<1>2. /\ fate \in [Addr -> Fate] /\ total \in 0..MaxAddrs /\ broken' \in BOOLEAN
      /\ i < total /\ UNCHANGED <<total, connects, fails>>
  BY DEF RequestInv, RequestTypes, TryNext
<1>3. k \in Addr /\ i \in Nat
  BY <1>1, <1>2 DEF Addr
<1>4. PICK what \in {"trying", "unadded"} :
        fate' = [fate EXCEPT ![i] = "refused", ![k] = what]
  BY DEF TryNext
<1>5. /\ fate'[k] = what
      /\ \A j \in Addr : j < k => fate'[j] = "refused"
      /\ \A j \in Addr : j > k => fate'[j] = "untried"
  BY <1>1, <1>2, <1>3, <1>4 DEF Addr
<1>6. RequestTypes'
  BY <1>1, <1>2, <1>4 DEF RequestTypes, Fate, SilentEnd
<1>7. InOrder'
  BY <1>1, <1>2, <1>3, <1>5 DEF InOrder, Addr
<1>8. RightCall'
  BY <1>1, <1>2, <1>3, <1>5 DEF RightCall, Addr, SilentEnd
<1> QED  BY <1>6, <1>7, <1>8 DEF RequestInv

LEMMA BeginKeepsInv ==
  ASSUME MaxAddrs \in Nat, RequestInv, Begin, broken' \in {broken, TRUE} PROVE RequestInv'
<1>1. /\ fate \in [Addr -> Fate] /\ broken' \in BOOLEAN /\ connects = 0 /\ fails = 0
      /\ total' \in Addr /\ fate' = [fate EXCEPT ![1] = "trying"]
      /\ connects' = 0 /\ fails' = 0 /\ total = 0
  BY DEF RequestInv, RequestTypes, Begin
<1>2. \A j \in Addr : fate[j] = "untried"
  BY <1>1 DEF RequestInv, InOrder, Addr
<1>3. 1 \in Addr /\ fate'[1] = "trying" /\ \A j \in Addr : j # 1 => fate'[j] = "untried"
  BY <1>1, <1>2 DEF Addr
<1>4. RequestTypes'
  BY <1>1 DEF RequestTypes, Fate, Addr
<1>5. InOrder'
  BY <1>1, <1>3 DEF InOrder, Addr
<1>6. RightCall'
  BY <1>1, <1>3 DEF RightCall, SilentEnd
<1> QED  BY <1>4, <1>5, <1>6 DEF RequestInv

LEMMA StepKeepsRequestInv ==
  ASSUME MaxAddrs \in Nat, RequestInv, [Next]_requestVars PROVE RequestInv'
<1>1. CASE UNCHANGED requestVars
  BY <1>1 DEF requestVars, RequestInv, RequestTypes, InOrder, RightCall
<1>2. CASE Misused /\ broken' \in {broken, TRUE}
  BY <1>2 DEF Misused, RequestInv, RequestTypes, InOrder, RightCall
<1>3. ASSUME NEW i \in Addr, Connect(i) \/ Unanswered(i) \/ Exhausted(i) \/ Silent(i),
             broken' \in {broken, TRUE}
      PROVE  RequestInv'
  <2>1. CASE Connect(i)
    BY <1>3, <2>1, EndKeepsInv DEF Connect, Fate
  <2>2. CASE Unanswered(i)
    BY <1>3, <2>2, EndKeepsInv DEF Unanswered, Fate
  <2>3. CASE Exhausted(i)
    BY <1>3, <2>3, EndKeepsInv DEF Exhausted, Fate
  <2>4. CASE Silent(i)
    <3>1. PICK what \in SilentEnd : Ends(i, what)
      BY <2>4 DEF Silent
    <3>2. /\ what \in Fate \ {"untried", "trying"}
          /\ what \notin {"connected", "unanswered", "refused"}
      BY DEF SilentEnd, Fate
    <3> QED  BY <1>3, <2>4, <3>1, <3>2, EndKeepsInv DEF Silent
  <2> QED  BY <1>3, <2>1, <2>2, <2>3, <2>4
<1> QED  BY <1>1, <1>2, <1>3, TryNextKeepsInv, BeginKeepsInv DEF Next, Step

\* A request tries the addresses in order, and its one call is the right one.
THEOREM RequestPromise ==
  ASSUME MaxAddrs \in Nat
  PROVE  Spec => [](InOrder /\ RightCall)
<1>1. ASSUME Init PROVE RequestInv
  <2>1. \A j \in Addr : fate[j] = "untried"
    BY <1>1 DEF Init
  <2>2. fate \in [Addr -> Fate] /\ total = 0 /\ connects = 0 /\ fails = 0 /\ broken = FALSE
    BY <1>1 DEF Init, Fate
  <2>3. RequestTypes
    <3>1. broken \in BOOLEAN
      BY <2>2
    <3>2. total \in 0..MaxAddrs /\ connects \in Nat /\ fails \in Nat
      BY <2>2
    <3> QED  BY <2>2, <3>1, <3>2 DEF RequestTypes
  <2>4. InOrder
    BY <2>1 DEF InOrder
  <2>5. RightCall
    BY <2>1, <2>2 DEF RightCall
  <2> QED  BY <2>3, <2>4, <2>5 DEF RequestInv
<1>2. RequestInv /\ [Next]_requestVars => RequestInv'
  BY StepKeepsRequestInv
<1>3. RequestInv => InOrder /\ RightCall
  BY DEF RequestInv
<1> QED  BY <1>1, <1>2, <1>3, PTL DEF Spec
=============================================================================
