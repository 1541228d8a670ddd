--------------------------- MODULE LatencyProofs ---------------------------
(***************************************************************************)
(* What the timers of Latency keep for any interval and any bound on the   *)
(* timeout.                                                                *)
(***************************************************************************)
EXTENDS Latency, TLAPS

\* An age stays within its limit (the ages of start_udp).
LEMMA OlderType ==
  ASSUME NEW limit \in Nat, NEW age \in 0..limit \cup {None}
  PROVE  Older(age, limit) \in 0..limit \cup {None}
BY LatencyAssumption DEF Older

\* The type invariant in two parts, the numbers and the rest.
Numbers ==
  /\ sentAge \in 0..MaxRegTimeout \cup {None}
  /\ respAge \in 0..RegInterval \cup {None}
  /\ dnsAge \in 0..DnsInterval + 1
  /\ regTimeout \in 1..MaxRegTimeout
  /\ fails \in 0..MaxFails2

Flags ==
  /\ ema \in BOOLEAN /\ old \in BOOLEAN /\ broken \in BOOLEAN
  /\ online \in {"latency", "zero", "offline", "none"}

LEMMA TypeParts == TypeOK <=> Numbers /\ Flags
BY DEF TypeOK, Numbers, Flags

\* The local variables at the start of start_udp.
LEMMA FreshNumbers ==
  /\ Fresh.sentAge \in 0..MaxRegTimeout \cup {None}
  /\ Fresh.respAge \in 0..RegInterval \cup {None}
  /\ Fresh.dnsAge \in 0..DnsInterval + 1
  /\ Fresh.regTimeout \in 1..MaxRegTimeout
  /\ Fresh.fails \in 0..MaxFails2
BY LatencyAssumption DEF Fresh, MaxFails2

LEMMA InitTypeOK == Init => TypeOK
<1> SUFFICES ASSUME Init PROVE Numbers /\ Flags
  BY TypeParts
<1>1. Numbers
  <2> USE FreshNumbers DEF Init
  <2>1. sentAge \in 0..MaxRegTimeout \cup {None} /\ respAge \in 0..RegInterval \cup {None}
    BY Zenon
  <2>2. dnsAge \in 0..DnsInterval + 1 /\ regTimeout \in 1..MaxRegTimeout
    BY Zenon
  <2>3. fails \in 0..MaxFails2
    BY Zenon
  <2> QED
    BY <2>1, <2>2, <2>3 DEF Numbers
<1>2. Flags
  BY Zenon DEF Init, Flags
<1> QED
  BY <1>1, <1>2

\* Every step of start_udp keeps the numbers within their bounds.
LEMMA NextNumbers == Numbers /\ [Next]_vars => Numbers'
<1> SUFFICES ASSUME Numbers, [Next]_vars PROVE Numbers'
  OBVIOUS
<1>1. CASE TickTimeout
  <2> DEFINE n == IF fails < MaxFails2 THEN fails + 1 ELSE MaxFails2
  <2>1. fails' \in 0..MaxFails2
    BY <1>1 DEF TickTimeout, Numbers, MaxFails2
  <2>2. regTimeout' \in 1..MaxRegTimeout
    BY <1>1, LatencyAssumption DEF TickTimeout, Backoff, Numbers
  <2>3. dnsAge' \in 0..DnsInterval + 1
    BY <1>1, LatencyAssumption DEF TickTimeout, Rebind, Older, Numbers
  <2>4. respAge' \in 0..RegInterval \cup {None}
    BY <1>1, OlderType, LatencyAssumption DEF TickTimeout, Numbers
  <2>5. sentAge' \in 0..MaxRegTimeout \cup {None}
    BY <1>1, LatencyAssumption DEF TickTimeout
  <2> QED
    BY <2>1, <2>2, <2>3, <2>4, <2>5 DEF Numbers
<1>2. CASE TickOther
  <2>1. sentAge' \in 0..MaxRegTimeout \cup {None}
    BY <1>2, OlderType, LatencyAssumption DEF TickOther, Numbers
  <2>2. respAge' \in 0..RegInterval \cup {None}
    BY <1>2, OlderType, LatencyAssumption DEF TickOther, Numbers
  <2>3. dnsAge' \in 0..DnsInterval + 1
    BY <1>2, LatencyAssumption DEF TickOther, Older, Numbers
  <2> QED
    BY <1>2, <2>1, <2>2, <2>3 DEF TickOther, Numbers
<1>3. CASE Answered
  BY <1>3, LatencyAssumption DEF Answered, Numbers, MaxFails2
<1>4. CASE NetworkChange \/ UNCHANGED vars
  BY <1>4 DEF NetworkChange, vars, Numbers
<1>5. CASE StartUdp
  <2> USE FreshNumbers, <1>5 DEF StartUdp
  <2>1. sentAge' \in 0..MaxRegTimeout \cup {None} /\ respAge' \in 0..RegInterval \cup {None}
    BY Zenon
  <2>2. dnsAge' \in 0..DnsInterval + 1 /\ regTimeout' \in 1..MaxRegTimeout
    BY Zenon
  <2>3. fails' \in 0..MaxFails2
    BY Zenon
  <2> QED
    BY <2>1, <2>2, <2>3 DEF Numbers
<1> QED
  BY <1>1, <1>2, <1>3, <1>4, <1>5 DEF Next, Tick, SlowAnswer, FastAnswer, ExtraAnswer

\* Every step of start_udp keeps the flags and the shown status well formed.
LEMMA NextFlags == Flags /\ [Next]_vars => Flags'
<1> SUFFICES ASSUME Flags, [Next]_vars PROVE Flags'
  OBVIOUS
<1>1. CASE TickTimeout
  <2> DEFINE n == IF fails < MaxFails2 THEN fails + 1 ELSE MaxFails2
  <2>1. Status(n) /\ Rebind(n) /\ UNCHANGED ema
    BY <1>1, Zenon DEF TickTimeout
  <2>2. broken' \in BOOLEAN
    BY <2>1, Zenon DEF Rebind
  <2>3. online' \in {"latency", "zero", "offline", "none"} /\ old' \in BOOLEAN
    BY <2>1, Zenon DEF Status, Flags
  <2> QED
    BY <2>1, <2>2, <2>3, Zenon DEF Flags
<1>2. CASE TickOther \/ SlowAnswer \/ UNCHANGED vars
  BY <1>2, Zenon DEF TickOther, SlowAnswer, Answered, vars, Flags
<1>3. CASE FastAnswer \/ ExtraAnswer
  <2>1. Show /\ Answered /\ ema' \in BOOLEAN
    BY <1>3, Zenon DEF FastAnswer, ExtraAnswer, Flags
  <2>2. online' \in {"latency", "zero", "offline", "none"} /\ old' \in BOOLEAN
    BY <2>1, Zenon DEF Show, Flags
  <2> QED
    BY <2>1, <2>2, Zenon DEF Answered, Flags
<1>4. CASE NetworkChange \/ StartUdp
  BY <1>4, Zenon DEF NetworkChange, StartUdp, Flags
<1> QED
  BY <1>1, <1>2, <1>3, <1>4, Zenon DEF Next, Tick

LEMMA NextTypeOK == TypeOK /\ [Next]_vars => TypeOK'
<1>1. TypeOK' <=> Numbers' /\ Flags'
  BY DEF TypeOK, Numbers, Flags
<1> QED
  BY <1>1, TypeParts, NextNumbers, NextFlags

\* The timers and the shown status stay well formed; in particular the backed-off
\* timeout stays between MIN_REG_TIMEOUT and MAX_REG_TIMEOUT.
THEOREM TypeCorrect == Spec => []TypeOK
BY InitTypeOK, NextTypeOK, PTL DEF Spec

\* Every step of start_udp keeps OnlineFresh.
LEMMA NextOnlineFresh == TypeOK /\ OnlineFresh /\ [Next]_vars => OnlineFresh'
<1> SUFFICES ASSUME TypeOK, OnlineFresh, [Next]_vars PROVE OnlineFresh'
  OBVIOUS
<1>1. CASE TickTimeout
  <2> DEFINE n == IF fails < MaxFails2 THEN fails + 1 ELSE MaxFails2
  <2>1. CASE n < MaxFails1
    BY <1>1, <2>1 DEF TickTimeout, OnlineFresh
  <2>2. CASE ~(n < MaxFails1)
    BY <1>1, <2>2 DEF TickTimeout, Status, OnlineFresh
  <2> QED
    BY <2>1, <2>2
<1>2. CASE TickOther \/ NetworkChange \/ UNCHANGED vars
  BY <1>2 DEF TickOther, NetworkChange, vars, OnlineFresh
<1>3. CASE SlowAnswer \/ FastAnswer \/ ExtraAnswer
  <2>1. fails' = 0
    BY <1>3, Zenon DEF SlowAnswer, FastAnswer, ExtraAnswer, Answered
  <2> QED
    BY <2>1 DEF OnlineFresh, MaxFails1
<1>4. CASE StartUdp
  BY <1>4 DEF StartUdp, OnlineFresh
<1> QED
  BY <1>1, <1>2, <1>3, <1>4 DEF Next, Tick

\* A latency is shown only for a server that has not left two requests in a row
\* unanswered.
THEOREM LatencyIsFresh == Spec => []OnlineFresh
<1>1. Init => OnlineFresh
  BY DEF Init, OnlineFresh
<1> QED
  BY <1>1, InitTypeOK, NextTypeOK, NextOnlineFresh, PTL DEF Spec
=============================================================================
