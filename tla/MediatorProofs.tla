--------------------------- MODULE MediatorProofs ---------------------------
(***************************************************************************)
(* Proofs, for any servers, lists of servers and bounds, and with a config *)
(* sync at any moment, of the safety properties of RendezvousMediator.     *)
(***************************************************************************)
EXTENDS RendezvousMediator, TLAPS

-----------------------------------------------------------------------------
(* Types.                                                                   *)

MedState == {"off", "up", "sending", "ok", "mismatch", "register"}
Messages == Requests \cup Answers

\* The type invariant in parts: the flags ...
Flags ==
  /\ keyConfirmed \in BOOLEAN /\ sentRegisterPk \in BOOLEAN
  /\ shouldExit \in BOOLEAN /\ stopService \in BOOLEAN /\ tcp \in BOOLEAN

\* ... the loop of start_all and the mediators ...
Loop ==
  /\ sync \in {"no", "set", "done"} /\ main \in {"read", "reset", "join"}
  /\ starts \in 0..MaxStarts /\ servers \subseteq Host
  /\ med \in [Host -> MedState] /\ solving \in Host \cup {None}

\* ... and what is registered.
Records ==
  /\ id \in Id /\ pk \in Pk
  /\ hostKeyConfirmed \subseteq Host
  /\ net \subseteq Messages
  /\ reg \in [Host -> [Id -> Pk \cup {None}]]

LEMMA TypeParts == TypeOK <=> Flags /\ Loop /\ Records
BY DEF TypeOK, Flags, Loop, Records, MedState, Messages

LEMMA TypePartsPrime == TypeOK' <=> Flags' /\ Loop' /\ Records'
BY DEF TypeOK, Flags, Loop, Records, MedState, Messages

AnyNext == Next \/ SyncConfig \/ CheckIfResendPk

\* A message of a mediator is a request.
LEMMA RequestType ==
  ASSUME NEW h \in Host, NEW k \in {"RegisterPk", "RegisterPeer"}, id \in Id, pk \in Pk
  PROVE  Request(h, k, id) \in Requests
BY DEF Request, Requests

LEMMA AnswerType ==
  ASSUME NEW h \in Host, NEW k \in {"Peer", "RequestPk", "Ok", "UuidMismatch"}
  PROVE  Answer(h, k) \in Answers
BY DEF Answer, Answers

LEMMA InitTypeOK == Init => TypeOK
<1> SUFFICES ASSUME Init PROVE Flags /\ Loop /\ Records
  BY TypeParts
<1>1. Flags
  BY Zenon DEF Init, Flags
<1>2. Loop
  BY MediatorAssumption DEF Init, Loop, MedState
<1>3. Records
  BY MediatorAssumption DEF Init, Records, Id, Pk
<1> QED
  BY <1>1, <1>2, <1>3

\* The flags stay Boolean.
LEMMA NextFlags == Flags /\ [AnyNext]_vars => Flags'
<1> SUFFICES ASSUME Flags, [AnyNext]_vars PROVE Flags'
  OBVIOUS
<1> USE Zenon DEF Flags, config, control
<1>1. ASSUME MainStep PROVE Flags'
  BY <1>1, MediatorAssumption DEF MainStep, ReadServers, StartMediators, Joined
<1>2. ASSUME NEW stop \in BOOLEAN, Restart(stop) PROVE Flags'
  BY <1>2 DEF Restart
<1>3. ASSUME NEW h \in Host, Fail(h) PROVE Flags'
  BY <1>3 DEF Fail, Exit
<1>4. ASSUME NEW h \in Host, TickUdp(h) \/ TickTcp(h) PROVE Flags'
  BY <1>4 DEF TickUdp, TickTcp, Exit
<1>5. ASSUME NEW h \in Host, StoreSent(h) \/ ClearSolving(h) PROVE Flags'
  BY <1>5 DEF StoreSent, ClearSolving
<1>6. ASSUME NEW h \in Host, UpdateId(h) \/ RegisterNewId(h) PROVE Flags'
  BY <1>6 DEF UpdateId, RegisterNewId
<1>7. ASSUME NEW h \in Host, RegisterPeerResponse(h) \/ RequestPk(h) PROVE Flags'
  BY <1>7 DEF RegisterPeerResponse, RequestPk, Take
<1>8. ASSUME NEW h \in Host, RegisterPkOk(h) PROVE Flags'
  BY <1>8 DEF RegisterPkOk, Take
<1>9. ASSUME NEW h \in Host, UuidMismatch(h) PROVE Flags'
  BY <1>9 DEF UuidMismatch, Take
<1>10. ASSUME NEW m \in net, ServePeer(m) \/ ServePk(m) \/ Lose(m) PROVE Flags'
  BY <1>10 DEF ServePeer, ServePk, Lose
<1>11. CASE SyncConfig
  BY <1>11, MediatorAssumption DEF SyncConfig
<1>12. CASE CheckIfResendPk
  BY <1>12 DEF CheckIfResendPk
<1>13. CASE UNCHANGED vars
  BY <1>13 DEF vars
<1> QED
  BY <1>1, <1>2, <1>3, <1>4, <1>5, <1>6, <1>7, <1>8, <1>9, <1>10, <1>11, <1>12, <1>13
  DEF AnyNext, Next, MediatorStep, AnswerStep

\* The loop and the mediators stay in their states.
LEMMA NextLoop == Loop /\ [AnyNext]_vars => Loop'
<1> SUFFICES ASSUME Loop, [AnyNext]_vars PROVE Loop'
  OBVIOUS
<1> USE DEF Loop, MedState
<1>1. ASSUME MainStep PROVE Loop'
  BY <1>1, MediatorAssumption DEF MainStep, ReadServers, StartMediators, Joined
<1>2. ASSUME NEW stop \in BOOLEAN, Restart(stop) PROVE Loop'
  BY <1>2 DEF Restart
<1>3. ASSUME NEW h \in Host, Fail(h) PROVE Loop'
  BY <1>3 DEF Fail, Exit
<1>4. ASSUME NEW h \in Host, TickUdp(h) \/ TickTcp(h) PROVE Loop'
  BY <1>4 DEF TickUdp, TickTcp, Exit, RegisterPeer, RegisterPk, Sending
<1>5. ASSUME NEW h \in Host, StoreSent(h) \/ ClearSolving(h) PROVE Loop'
  BY <1>5 DEF StoreSent, ClearSolving, control
<1>6. ASSUME NEW h \in Host, UpdateId(h) \/ RegisterNewId(h) PROVE Loop'
  BY <1>6 DEF UpdateId, RegisterNewId, RegisterPk, Sending, control
<1>7. ASSUME NEW h \in Host, RegisterPeerResponse(h) \/ RequestPk(h) PROVE Loop'
  BY <1>7 DEF RegisterPeerResponse, RequestPk, Sending, Take, control
<1>8. ASSUME NEW h \in Host, RegisterPkOk(h) PROVE Loop'
  BY <1>8 DEF RegisterPkOk, Take, control
<1>9. ASSUME NEW h \in Host, UuidMismatch(h) PROVE Loop'
  BY <1>9 DEF UuidMismatch, Take, control
<1>10. ASSUME NEW m \in net, ServePeer(m) \/ ServePk(m) \/ Lose(m) PROVE Loop'
  BY <1>10 DEF ServePeer, ServePk, Lose, control
<1>11. CASE SyncConfig
  BY <1>11 DEF SyncConfig, control
<1>12. CASE CheckIfResendPk
  BY <1>12 DEF CheckIfResendPk, control
<1>13. CASE UNCHANGED vars
  BY <1>13 DEF vars, control
<1> QED
  BY <1>1, <1>2, <1>3, <1>4, <1>5, <1>6, <1>7, <1>8, <1>9, <1>10, <1>11, <1>12, <1>13
  DEF AnyNext, Next, MediatorStep, AnswerStep

\* Ids, keys, messages and the servers' records stay what they are.
LEMMA NextRecords == Records /\ [AnyNext]_vars => Records'
<1> SUFFICES ASSUME Records, [AnyNext]_vars PROVE Records'
  OBVIOUS
<1> USE DEF Records, Messages
<1>a. ASSUME NEW h \in Host
      PROVE  /\ Request(h, "RegisterPk", id) \in Messages
             /\ Request(h, "RegisterPeer", id) \in Messages
  BY RequestType
<1>1. CASE ReadServers \/ Joined
  BY <1>1 DEF ReadServers, Joined, config
<1>2. CASE StartMediators
  <2>1. ASSUME NEW m \in Requests PROVE [m EXCEPT !.live = FALSE] \in Requests
    BY DEF Requests
  <2>2. net' \subseteq Messages
    BY <1>2, <2>1 DEF StartMediators
  <2> QED
    BY <1>2, <2>2 DEF StartMediators
<1>3. ASSUME NEW stop \in BOOLEAN, Restart(stop) PROVE Records'
  BY <1>3 DEF Restart, config
<1>4. ASSUME NEW h \in Host, Fail(h) PROVE Records'
  BY <1>4 DEF Fail, config
<1>5. ASSUME NEW h \in Host, TickUdp(h) \/ TickTcp(h) PROVE Records'
  <2>1. net' \subseteq Messages
    BY <1>5, <1>a DEF TickUdp, TickTcp, RegisterPeer, RegisterPk
  <2> QED
    BY <1>5, <2>1 DEF TickUdp, TickTcp, config
<1>6. ASSUME NEW h \in Host, StoreSent(h) \/ ClearSolving(h) PROVE Records'
  BY <1>6 DEF StoreSent, ClearSolving, config
<1>7. ASSUME NEW h \in Host, UpdateId(h) PROVE Records'
  BY <1>7, MediatorAssumption DEF UpdateId, Id
<1>8. ASSUME NEW h \in Host, RegisterNewId(h) PROVE Records'
  BY <1>8, <1>a DEF RegisterNewId, RegisterPk, config
<1>9. ASSUME NEW h \in Host, RegisterPeerResponse(h) \/ RequestPk(h) PROVE Records'
  BY <1>9, <1>a DEF RegisterPeerResponse, RequestPk, Take, config
<1>10. ASSUME NEW h \in Host, RegisterPkOk(h) PROVE Records'
  BY <1>10 DEF RegisterPkOk, Take
<1>11. ASSUME NEW h \in Host, UuidMismatch(h) PROVE Records'
  BY <1>11 DEF UuidMismatch, Take
<1>12. ASSUME NEW m \in net, ServePeer(m) PROVE Records'
  <2>1. m.h \in Host
    BY <1>12 DEF ServePeer, Requests
  <2>2. net' \subseteq Messages
    BY <1>12, <2>1, AnswerType DEF ServePeer, Reply
  <2> QED
    BY <1>12, <2>2 DEF ServePeer, config
<1>13. ASSUME NEW m \in net, ServePk(m) PROVE Records'
  <2>1. m.h \in Host /\ m.id \in Id /\ m.pk \in Pk
    BY <1>13 DEF ServePk, Requests
  <2>2. net' \subseteq Messages
    BY <1>13, <2>1, AnswerType DEF ServePk, Reply
  <2>3. reg' \in [Host -> [Id -> Pk \cup {None}]]
    BY <1>13, <2>1 DEF ServePk
  <2> QED
    BY <1>13, <2>2, <2>3 DEF ServePk, config
<1>14. ASSUME NEW m \in net, Lose(m) PROVE Records'
  BY <1>14 DEF Lose, config
<1>15. CASE SyncConfig
  BY <1>15, MediatorAssumption DEF SyncConfig, Id, Pk
<1>16. CASE CheckIfResendPk
  BY <1>16 DEF CheckIfResendPk
<1>17. CASE UNCHANGED vars
  BY <1>17 DEF vars, config
<1> QED
  BY <1>1, <1>2, <1>3, <1>4, <1>5, <1>6, <1>7, <1>8, <1>9, <1>10, <1>11, <1>12, <1>13, <1>14,
     <1>15, <1>16, <1>17
  DEF AnyNext, Next, MainStep, MediatorStep, AnswerStep

LEMMA NextTypeOK == TypeOK /\ [AnyNext]_vars => TypeOK'
BY TypeParts, TypePartsPrime, NextFlags, NextLoop, NextRecords

\* The state of the mediators, of Config and of the servers stays well formed,
\* whatever servers there are and whenever the config is synced.
THEOREM TypeCorrect == SyncSpec => []TypeOK
BY InitTypeOK, NextTypeOK, PTL DEF SyncSpec, AnyNext

-----------------------------------------------------------------------------
(* What counts as confirmed has been registered.                            *)

\* The server has the machine under some id.
Known(h) == \E i \in Id : reg[h][i] /= None

\* ConfirmedKnown is not inductive by itself: an answer OK that is still under
\* way, and root's config if it is confirmed, will count later.
KnownInv ==
  /\ \A h \in hostKeyConfirmed : Known(h)
  /\ \A h \in Host : Answer(h, "Ok") \in net => Known(h)
  /\ RootConfirmed => \A h \in Host : Known(h)

\* A server does not forget the machine: a step that registers nothing, sends no
\* answer OK and confirms nothing keeps KnownInv.
LEMMA KnownKept ==
  ASSUME KnownInv, UNCHANGED reg, hostKeyConfirmed' \subseteq hostKeyConfirmed,
         \A h \in Host : Answer(h, "Ok") \in net' => Answer(h, "Ok") \in net
  PROVE  KnownInv'
BY DEF KnownInv, Known, Answer

\* A message with another kind is not an answer OK.
LEMMA NotOk ==
  ASSUME NEW m, m.kind /= "Ok"
  PROVE  \A h \in Host : m /= Answer(h, "Ok")
BY DEF Answer

LEMMA InitKnown == Init => KnownInv
<1> SUFFICES ASSUME Init PROVE KnownInv
  OBVIOUS
<1>1. RootConfirmed => \A h \in Host : Known(h)
  <2> SUFFICES ASSUME RootConfirmed, NEW h \in Host PROVE Known(h)
    OBVIOUS
  <2>1. 1 \in Id
    BY MediatorAssumption DEF Id
  <2>2. reg[h][1] = RootPk
    BY <2>1 DEF Init
  <2> QED
    BY <2>1, <2>2, MediatorAssumption DEF Known
<1> QED
  BY <1>1 DEF Init, KnownInv

\* Every step, the config sync included, keeps KnownInv.
LEMMA NextKnown == TypeOK /\ KnownInv /\ [AnyNext]_vars => KnownInv'
<1> SUFFICES ASSUME Records, KnownInv, [AnyNext]_vars PROVE KnownInv'
  BY TypeParts
<1> DEFINE NoOk == \A h \in Host : Answer(h, "Ok") \in net' => Answer(h, "Ok") \in net
<1>a. ASSUME NEW g \in Host, NEW h \in Host
      PROVE  /\ Request(g, "RegisterPk", id) /= Answer(h, "Ok")
             /\ Request(g, "RegisterPeer", id) /= Answer(h, "Ok")
  BY NotOk DEF Request
<1>1. CASE ReadServers \/ Joined
  BY <1>1, KnownKept DEF ReadServers, Joined, config
<1>2. CASE StartMediators
  <2>1. ASSUME NEW m \in Requests, NEW h \in Host PROVE [m EXCEPT !.live = FALSE] /= Answer(h, "Ok")
    BY NotOk DEF Requests
  <2>2. NoOk
    BY <1>2, <2>1 DEF StartMediators
  <2>3. hostKeyConfirmed' \subseteq hostKeyConfirmed /\ UNCHANGED reg
    BY <1>2 DEF StartMediators
  <2> QED
    BY <2>2, <2>3, KnownKept
<1>3. ASSUME NEW stop \in BOOLEAN, Restart(stop) PROVE KnownInv'
  BY <1>3, KnownKept DEF Restart, config
<1>4. ASSUME NEW h \in Host, Fail(h) PROVE KnownInv'
  BY <1>4, KnownKept DEF Fail, config
<1>5. ASSUME NEW h \in Host, TickUdp(h) \/ TickTcp(h) PROVE KnownInv'
  <2>1. NoOk
    BY <1>5, <1>a DEF TickUdp, TickTcp, RegisterPeer, RegisterPk
  <2> QED
    BY <1>5, <2>1, KnownKept DEF TickUdp, TickTcp, config
<1>6. ASSUME NEW h \in Host, StoreSent(h) \/ ClearSolving(h) \/ UpdateId(h) PROVE KnownInv'
  BY <1>6, KnownKept DEF StoreSent, ClearSolving, UpdateId, config
<1>7. ASSUME NEW h \in Host, RegisterNewId(h) PROVE KnownInv'
  BY <1>7, <1>a, KnownKept DEF RegisterNewId, RegisterPk, config
<1>8. ASSUME NEW h \in Host, RegisterPeerResponse(h) \/ RequestPk(h) PROVE KnownInv'
  <2>1. NoOk
    BY <1>8, <1>a DEF RegisterPeerResponse, RequestPk
  <2> QED
    BY <1>8, <2>1, KnownKept DEF RegisterPeerResponse, RequestPk, Take, config
<1>9. ASSUME NEW h \in Host, RegisterPkOk(h) PROVE KnownInv'
  <2>1. Known(h)
    BY <1>9 DEF RegisterPkOk, Take, KnownInv
  <2>2. UNCHANGED reg /\ net' \subseteq net /\ hostKeyConfirmed' = hostKeyConfirmed \cup {h}
    BY <1>9 DEF RegisterPkOk, Take
  <2> QED
    BY <2>1, <2>2 DEF KnownInv, Known, Answer
<1>10. ASSUME NEW h \in Host, UuidMismatch(h) PROVE KnownInv'
  <2>1. UNCHANGED reg /\ NoOk /\ hostKeyConfirmed' \subseteq hostKeyConfirmed
    BY <1>10 DEF UuidMismatch, Take
  <2> QED
    BY <2>1, KnownKept
<1>11. ASSUME NEW m \in net, ServePeer(m) PROVE KnownInv'
  <2>1. \A k \in {"RequestPk", "Peer"}, h \in Host : Answer(m.h, k) /= Answer(h, "Ok")
    BY DEF Answer
  <2>2. NoOk
    BY <1>11, <2>1 DEF ServePeer, Reply
  <2> QED
    BY <1>11, <2>2, KnownKept DEF ServePeer, config
<1>12. ASSUME NEW m \in net, ServePk(m) PROVE KnownInv'
  <2>1. m.h \in Host /\ m.id \in Id /\ m.pk \in Pk
    BY <1>12 DEF ServePk, Requests
  <2>2. UNCHANGED hostKeyConfirmed
    BY <1>12 DEF ServePk, config
  <2>3. CASE Foreign(m)
    <3>1. \A h \in Host : Answer(m.h, "UuidMismatch") /= Answer(h, "Ok")
      BY DEF Answer
    <3>2. NoOk /\ UNCHANGED reg
      BY <1>12, <2>3, <3>1 DEF ServePk, Reply
    <3> QED
      BY <2>2, <3>2, KnownKept
  <2>4. CASE ~Foreign(m)
    <3>1. reg' = [reg EXCEPT ![m.h][m.id] = m.pk]
      BY <1>12, <2>4 DEF ServePk
    <3>2. reg'[m.h][m.id] /= None
      BY <2>1, <3>1, MediatorAssumption DEF Records, Pk
    <3>3. Known(m.h)'
      BY <2>1, <3>2 DEF Known
    <3>4. ASSUME NEW h \in Host, Known(h) PROVE Known(h)'
      <4>1. PICK i \in Id : reg[h][i] /= None
        BY <3>4 DEF Known
      <4>2. reg'[h][i] /= None
        BY <2>1, <3>1, <3>2, <4>1 DEF Records
      <4> QED
        BY <4>1, <4>2 DEF Known
    <3>5. ASSUME NEW h \in Host, Answer(h, "Ok") \in net' PROVE h = m.h \/ Answer(h, "Ok") \in net
      BY <1>12, <2>4, <3>5 DEF ServePk, Reply, Answer
    <3>6. hostKeyConfirmed \subseteq Host
      BY DEF Records
    <3> QED
      BY <2>2, <3>3, <3>4, <3>5, <3>6 DEF KnownInv, Answer
  <2> QED
    BY <2>3, <2>4
<1>13. ASSUME NEW m \in net, Lose(m) PROVE KnownInv'
  BY <1>13, KnownKept DEF Lose, config
<1>14. CASE SyncConfig
  <2>1. UNCHANGED <<reg, net>> /\ hostKeyConfirmed' = IF RootConfirmed THEN Host ELSE {}
    BY <1>14 DEF SyncConfig
  <2> QED
    BY <2>1 DEF KnownInv, Known, Answer
<1>15. CASE CheckIfResendPk
  <2>1. UNCHANGED <<reg, net>> /\ hostKeyConfirmed' \subseteq hostKeyConfirmed
    BY <1>15 DEF CheckIfResendPk
  <2> QED
    BY <2>1, KnownKept
<1>16. CASE UNCHANGED vars
  BY <1>16, KnownKept DEF vars, config
<1> QED
  BY <1>1, <1>2, <1>3, <1>4, <1>5, <1>6, <1>7, <1>8, <1>9, <1>10, <1>11, <1>12, <1>13, <1>14,
     <1>15, <1>16
  DEF AnyNext, Next, MainStep, MediatorStep, AnswerStep

\* At every host that counts as confirmed the machine was registered, with or
\* without a config sync.
THEOREM ConfirmedIsKnown == SyncSpec => []ConfirmedKnown
<1>1. KnownInv => ConfirmedKnown
  BY DEF KnownInv, Known, ConfirmedKnown
<1> QED
  BY <1>1, InitTypeOK, InitKnown, NextTypeOK, NextKnown, PTL DEF SyncSpec, AnyNext
=============================================================================
