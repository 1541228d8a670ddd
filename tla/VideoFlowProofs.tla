-------------------------- MODULE VideoFlowProofs --------------------------
(***************************************************************************)
(* Proofs about the flow control of the video services, for any number of  *)
(* connections, services and frames.                                       *)
(***************************************************************************)
EXTENDS VideoFlow, FiniteSetTheorems, TLAPS

-----------------------------------------------------------------------------
(* Types.                                                                   *)

\* A wait that goes on has time left.
TimeLeft == \A v \in Vid : pc[v] = "wait" => slices[v] < MaxSlices

LEMMA QueueTypes ==
  ASSUME TypeOK, NEW c \in Conn, queue[c] /= <<>>
  PROVE  /\ Head(queue[c]) \in Frame /\ Tail(queue[c]) \in Seq(Frame)
         /\ Head(queue[c])[1] \in Vid /\ Head(queue[c])[2] \in 0..MaxFrames
PROOF
<1>1. queue[c] \in Seq(Frame)
  BY DEF TypeOK
<1>2. Head(queue[c]) \in Frame /\ Tail(queue[c]) \in Seq(Frame)
  BY <1>1
<1>3. Head(queue[c])[1] \in Vid /\ Head(queue[c])[2] \in 1..MaxFrames
  BY <1>2 DEF Frame
<1> QED BY <1>2, <1>3, FlowAssumption

LEMMA ServiceTypes ==
  ASSUME TypeOK, TimeLeft, NEW v \in Vid, ServiceStep(v) \/ Bail(v)
  PROVE  TypeOK' /\ TimeLeft'
PROOF
<1> USE FlowAssumption DEF TypeOK, TimeLeft
<1> IdxOf[v] \in Index
  BY DEF Index
<1>1. CASE SendFrame(v)
  <2>1. <<v, frame[v] + 1>> \in Frame
    BY <1>1 DEF SendFrame, Frame
  <2>2. queue' \in [Conn -> Seq(Frame)]
    BY <1>1, <2>1 DEF SendFrame
  <2>3. frame' \in [Vid -> 0..MaxFrames] /\ sent' \in [Vid -> SUBSET Conn] /\ TimeLeft'
    BY <1>1 DEF SendFrame
  <2> QED BY <1>1, <2>2, <2>3 DEF SendFrame, shared
<1>2. CASE NoFrame(v)
  BY <1>2 DEF NoFrame, task, shared
<1>3. CASE SetSend(v)
  <2>1. slices' \in [Vid -> 0..MaxSlices] /\ TimeLeft'
    BY <1>3 DEF SetSend
  <2>2. sendConnIds' \in [Vid -> SUBSET Conn] /\ displayConnIds' \in [Index -> SUBSET Conn]
    BY <1>3 DEF SetSend
  <2> QED BY <1>3, <2>1, <2>2 DEF SetSend, task
<1>4. CASE NothingSent(v)
  BY <1>4 DEF NothingSent, task, shared
<1>5. CASE Receive(v)
  BY <1>5 DEF Receive, task
<1>6. CASE TimeoutSlice(v)
  BY <1>6, SMTT(60) DEF TimeoutSlice, task, shared
<1>7. CASE EndTurn(v)
  BY <1>7 DEF EndTurn, task
<1>8. CASE Bail(v)
  BY <1>8 DEF Bail, task
<1> QED BY <1>1, <1>2, <1>3, <1>4, <1>5, <1>6, <1>7, <1>8 DEF ServiceStep

LEMMA ConnTypes ==
  ASSUME TypeOK, TimeLeft, NEW c \in Conn, ConnStep(c) \/ Close(c)
  PROVE  TypeOK' /\ TimeLeft'
PROOF
<1> USE DEF TypeOK, TimeLeft
<1>1. CASE Fetch(c)
  <2> DEFINE f == Head(queue[c])
  <2>1. f[1] \in Vid /\ f[2] \in 0..MaxFrames /\ Tail(queue[c]) \in Seq(Frame) /\ IdxOf[f[1]] \in Index
    BY <1>1, QueueTypes DEF Fetch, Index
  <2>2. got' = [got EXCEPT ![c][f[1]] = f[2]] /\ queue' = [queue EXCEPT ![c] = Tail(@)]
    BY <1>1 DEF Fetch
  <2>3. CASE c \in AckConn
    <3>1. unacked' = [unacked EXCEPT ![c] = @ + 1] /\ notifier' = notifier
      BY <1>1, <2>3 DEF Fetch
    <3>2. unacked' \in [Conn -> Nat]
      BY <3>1
    <3> QED BY <1>1, <2>1, <2>2, <3>1, <3>2 DEF Fetch, service
  <2>4. CASE c \notin AckConn
    <3>1. unacked' = unacked /\ notifier' = [notifier EXCEPT ![IdxOf[f[1]]] = @ \cup {c}]
      BY <1>1, <2>4 DEF Fetch
    <3>2. notifier' \in [Index -> SUBSET Conn]
      <4> HIDE DEF f
      <4> QED BY <2>1, <3>1
    <3> QED BY <1>1, <2>1, <2>2, <3>1, <3>2 DEF Fetch, service
  <2> QED BY <2>3, <2>4
<1>2. CASE VideoReceived(c)
  BY <1>2 DEF VideoReceived, LookUp, service, shared
<1>3. CASE AckSent(c)
  BY <1>3 DEF AckSent, SendFetched, service
<1>4. CASE CloseLookUp(c)
  BY <1>4 DEF CloseLookUp, LookUp, service, shared
<1>5. CASE CloseNotify(c)
  BY <1>5 DEF CloseNotify, SendFetched, service
<1>6. CASE Remove(c)
  BY <1>6 DEF Remove, service, shared
<1>7. CASE Close(c)
  BY <1>7 DEF Close, service, shared
<1> QED BY <1>1, <1>2, <1>3, <1>4, <1>5, <1>6, <1>7 DEF ConnStep

LEMMA NextTypes == TypeOK /\ TimeLeft /\ [Next]_vars => TypeOK' /\ TimeLeft'
PROOF
<1> SUFFICES ASSUME TypeOK, TimeLeft, [Next]_vars PROVE TypeOK' /\ TimeLeft'
  OBVIOUS
<1>1. ASSUME NEW v \in Vid, NEW c \in Conn, Subscribe(v, c) PROVE TypeOK' /\ TimeLeft'
  BY <1>1 DEF Subscribe, service, task, shared, TypeOK, TimeLeft
<1>2. CASE UNCHANGED vars
  BY <1>2 DEF vars, service, task, shared, TypeOK, TimeLeft
<1> QED BY <1>1, <1>2, ServiceTypes, ConnTypes DEF Next

LEMMA InitTypes == Init => TypeOK /\ TimeLeft
PROOF
<1> SUFFICES ASSUME Init PROVE TypeOK /\ TimeLeft
  OBVIOUS
<1>1. 0 \in 0..MaxFrames /\ 0 \in 0..MaxSlices /\ <<>> \in Seq(Frame)
  BY FlowAssumption
<1>2. got \in [Conn -> [Vid -> 0..MaxFrames]] /\ queue \in [Conn -> Seq(Frame)]
  BY <1>1 DEF Init
<1> QED BY <1>1, <1>2 DEF Init, TypeOK, TimeLeft

\* The state of the flow control stays well formed; in particular no wait takes more
\* than its ten slices.
THEOREM TypeCorrect == Spec => []TypeOK
PROOF BY InitTypes, NextTypes, PTL DEF Spec

-----------------------------------------------------------------------------
(* Flow control.  The display index of a service is its own, and a client  *)
(* that acknowledges frames, which does not say of which display, watches  *)
(* one display only: display D[c], for connection c.                       *)

OwnIndex == \A v, w \in Vid : IdxOf[v] = IdxOf[w] => v = w

Watches(D) == \A c \in AckConn, v \in Vid : c \in subs[v] => v = D[c]

\* Those whose answer a service needs before its next frame, and those whose answer
\* it has, or will find in the channel.
Awaited(v) ==
  IF pc[v] = "sent" THEN sent[v] ELSE IF pc[v] = "wait" THEN sendConnIds[v] ELSE {}
Answered(v) == notifier[IdxOf[v]] \cup (IF pc[v] = "wait" THEN fetchedConnIds[v] ELSE {})
Owing(v) == Awaited(v) \ Answered(v)

\* Nobody has begun to close.
OpenInv ==
  \A c \in Conn : conn[c] = "run" \/ (c \in AckConn /\ conn[c] = "ack")

\* Only those answer who were sent the current frame, and when they have it.
AnswerInv ==
  \A v \in Vid : /\ Answered(v) \subseteq Awaited(v)
                 /\ \A c \in Answered(v) : got[c][v] = frame[v]

ResetInv == \A v \in Vid : pc[v] = "sent" => sendConnIds[v] = {}

\* A frame in a queue is the current one of its service, the only one of that service,
\* and will be answered.
QueueInv ==
  \A c \in Conn : \A k \in DOMAIN queue[c] :
    /\ queue[c][k][2] = frame[queue[c][k][1]]
    /\ c \in Owing(queue[c][k][1])
    /\ \A l \in DOMAIN queue[c] : k # l => queue[c][k][1] # queue[c][l][1]

\* An acknowledgement under way is the only one, and about the current frame, which
\* has left the queue.
AckInv(D) ==
  /\ \A c \in Conn \ AckConn : unacked[c] = 0
  /\ \A c \in AckConn :
       /\ \A k \in DOMAIN queue[c] :
            queue[c][k][1] = D[c] /\ unacked[c] = 0 /\ conn[c] = "run"
       /\ unacked[c] # 0 => unacked[c] = 1 /\ conn[c] = "run"
       /\ unacked[c] # 0 \/ conn[c] = "ack" => c \in Owing(D[c]) /\ got[c][D[c]] = frame[D[c]]
       /\ conn[c] = "ack" => notifying[c] \subseteq {IdxOf[D[c]]}

\* Who acknowledges is looked for under its own display only.
WatchInv(D) ==
  \A v \in Vid, c \in AckConn :
    c \in sent[v] \cup sendConnIds[v] \cup displayConnIds[IdxOf[v]] => v = D[c]

FlowInv(D) == OpenInv /\ AnswerInv /\ ResetInv /\ QueueInv /\ AckInv(D)

IInv(D) ==
  TypeOK /\ WatchInv(D) /\ (~disturbed => FlowInv(D) /\ FlowControlled)

\* The index of one service is not that of another.
LEMMA IndexFacts ==
  ASSUME OwnIndex, NEW v \in Vid
  PROVE  IdxOf[v] \in Index /\ \A w \in Vid : w # v => IdxOf[w] # IdxOf[v]
PROOF BY DEF OwnIndex, Index

LEMMA WatchStep ==
  ASSUME OwnIndex, NEW D \in [AckConn -> Vid], TypeOK, WatchInv(D), Watches(D), [Next]_vars
  PROVE  WatchInv(D)'
PROOF
<1> SUFFICES ASSUME NEW w \in Vid, NEW c \in AckConn,
                    c \in sent'[w] \cup sendConnIds'[w] \cup displayConnIds'[IdxOf[w]]
             PROVE  w = D[c]
  BY DEF WatchInv
<1> USE DEF TypeOK, WatchInv
<1>1. ASSUME UNCHANGED <<sent, sendConnIds, displayConnIds>> PROVE w = D[c]
  BY <1>1
<1>2. ASSUME NEW v \in Vid, ServiceStep(v) \/ Bail(v) PROVE w = D[c]
  <2> IdxOf[v] \in Index /\ \A x \in Vid : x # v => IdxOf[x] # IdxOf[v]
    BY IndexFacts
  <2> IdxOf[w] \in Index
    BY IndexFacts
  <2>1. CASE SendFrame(v)
    BY <2>1 DEF SendFrame, shared, Watches
  <2>2. CASE NoFrame(v)
    BY <2>2 DEF NoFrame, shared
  <2>3. CASE SetSend(v)
    <3>1. CASE sent[v] = {}
      BY <1>1, <2>3, <3>1 DEF SetSend
    <3>2. CASE sent[v] # {}
      BY <2>3, <3>2, ZenonT(60) DEF SetSend
    <3> QED BY <3>1, <3>2
  <2>4. CASE NothingSent(v) \/ Receive(v) \/ TimeoutSlice(v)
    BY <2>4, <1>1 DEF NothingSent, Receive, TimeoutSlice, shared
  <2>5. CASE EndTurn(v)
    BY <2>5 DEF EndTurn
  <2>6. CASE Bail(v)
    BY <2>6 DEF Bail
  <2> QED BY <1>2, <2>1, <2>2, <2>3, <2>4, <2>5, <2>6 DEF ServiceStep
<1>3. ASSUME NEW d \in Conn, ConnStep(d) \/ Close(d) PROVE w = D[c]
  BY <1>1, <1>3 DEF ConnStep, Fetch, VideoReceived, AckSent, CloseLookUp, CloseNotify,
     Remove, Close, service, shared
<1>4. ASSUME NEW v \in Vid, NEW d \in Conn, Subscribe(v, d) PROVE w = D[c]
  BY <1>1, <1>4 DEF Subscribe, service, shared
<1>5. CASE UNCHANGED vars
  BY <1>1, <1>5 DEF vars, service, shared
<1> QED BY <1>2, <1>3, <1>4, <1>5 DEF Next

LEMMA QueueElements ==
  ASSUME TypeOK, NEW c \in Conn, NEW k \in DOMAIN queue[c]
  PROVE  queue[c][k][1] \in Vid /\ queue[c][k] = <<queue[c][k][1], queue[c][k][2]>>
PROOF
<1>1. queue[c] \in Seq(Frame)
  BY DEF TypeOK
<1>2. queue[c][k] \in Frame
  BY <1>1
<1> QED BY <1>2 DEF Frame

\* A step of the services' threads that sends nothing: whoever owes an answer still
\* owes it, and nobody answers.
LEMMA QuietFlow ==
  ASSUME NEW D \in [AckConn -> Vid], TypeOK, FlowInv(D),
         UNCHANGED <<frame, task>>, ResetInv',
         \A w \in Vid : /\ Owing(w) \subseteq Owing(w)'
                        /\ Answered(w)' \subseteq Answered(w)
                        /\ Answered(w)' \subseteq Awaited(w)'
  PROVE  FlowInv(D)'
PROOF
<1> USE DEF FlowInv
<1>1. UNCHANGED <<conn, queue, unacked, notifying, got, frame>>
  BY DEF task
<1>2. OpenInv'
  BY <1>1 DEF OpenInv
<1>3. AnswerInv'
  BY <1>1 DEF AnswerInv
<1>4. QueueInv'
  <2> SUFFICES ASSUME NEW c \in Conn, NEW k \in DOMAIN queue[c]
               PROVE  /\ queue[c][k][2] = frame[queue[c][k][1]]
                      /\ c \in Owing(queue[c][k][1])'
                      /\ \A l \in DOMAIN queue[c] : k # l => queue[c][k][1] # queue[c][l][1]
    BY <1>1 DEF QueueInv, Owing, Awaited, Answered
  <2> DEFINE w == queue[c][k][1]
  <2>1. w \in Vid
    BY QueueElements
  <2>2. c \in Owing(w)
    BY DEF QueueInv
  <2>3. c \in Owing(w)'
    <3>1. w' = w
      BY <1>1
    <3> HIDE DEF w
    <3> QED BY <2>1, <2>2, <3>1 
  <2> QED BY <1>1, <2>3 DEF QueueInv
<1>5. AckInv(D)'
  <2>1. ASSUME NEW c \in AckConn PROVE Owing(D[c]) \subseteq Owing(D[c])'
    OBVIOUS
  <2> QED BY <1>1, <2>1 DEF AckInv
<1> QED BY <1>2, <1>3, <1>4, <1>5

\* A step of service v does not touch what the other services wait for.
LEMMA OthersKept ==
  ASSUME OwnIndex, TypeOK, NEW v \in Vid, ServiceStep(v) \/ Bail(v), NEW w \in Vid, w # v
  PROVE  /\ UNCHANGED <<pc[w], sent[w], sendConnIds[w], fetchedConnIds[w], notifier[IdxOf[w]]>>
         /\ UNCHANGED <<Awaited(w), Answered(w), Owing(w)>>
PROOF
<1> USE DEF TypeOK
<1>1. IdxOf[w] # IdxOf[v] /\ IdxOf[w] \in Index /\ IdxOf[v] \in Index
  BY IndexFacts
<1>2. UNCHANGED <<pc[w], sent[w], sendConnIds[w], fetchedConnIds[w]>>
  BY DEF ServiceStep, SendFrame, NoFrame, SetSend, NothingSent, Receive, TimeoutSlice,
     EndTurn, Bail
<1>3. UNCHANGED notifier[IdxOf[w]]
  BY <1>1 DEF ServiceStep, SendFrame, NoFrame, SetSend, NothingSent, Receive, TimeoutSlice,
     EndTurn, Bail, shared
<1> QED BY <1>2, <1>3 DEF Awaited, Answered, Owing

\* The service that takes a step needs to be looked at alone.
LEMMA QuietService ==
  ASSUME NEW D \in [AckConn -> Vid], OwnIndex, IInv(D), ~disturbed, NEW v \in Vid,
         ServiceStep(v) \/ Bail(v), UNCHANGED <<frame, task>>,
         pc'[v] = "sent" => sendConnIds'[v] = {},
         Owing(v) \subseteq Owing(v)', Answered(v)' \subseteq Answered(v),
         Answered(v)' \subseteq Awaited(v)',
         pc'[v] = "done" => pc[v] = "done" \/ \A c \in sendConnIds[v] : got[c][v] = frame[v],
         pc'[v] = "done" => sendConnIds'[v] = sendConnIds[v]
  PROVE  FlowInv(D)' /\ FlowControlled'
PROOF
<1> USE DEF IInv
<1>1. \A w \in Vid : w # v => UNCHANGED <<pc[w], sendConnIds[w], Awaited(w), Answered(w), Owing(w)>>
  BY OthersKept
<1>2. \A w \in Vid : /\ Owing(w) \subseteq Owing(w)'
                     /\ Answered(w)' \subseteq Answered(w)
                     /\ Answered(w)' \subseteq Awaited(w)'
  BY <1>1 DEF FlowInv, AnswerInv
<1>3. ResetInv'
  BY <1>1 DEF FlowInv, ResetInv
<1>4. FlowInv(D)'
  BY <1>2, <1>3, QuietFlow
<1>5. FlowControlled'
  BY <1>1 DEF FlowControlled, task
<1> QED BY <1>4, <1>5

LEMMA ServiceFlow ==
  ASSUME NEW D \in [AckConn -> Vid], OwnIndex, IInv(D), ~disturbed', NEW v \in Vid,
         ServiceStep(v) \/ Bail(v), ~SendFrame(v)
  PROVE  FlowInv(D)' /\ FlowControlled'
PROOF
<1> TypeOK /\ IdxOf[v] \in Index
  BY IndexFacts DEF IInv
<1> ~disturbed
  BY DEF IInv, TypeOK, ServiceStep, SendFrame, NoFrame, SetSend, NothingSent, Receive, TimeoutSlice,
     EndTurn, Bail
<1>1. Answered(v) \subseteq Awaited(v) /\ \A c \in Answered(v) : got[c][v] = frame[v]
  BY DEF IInv, FlowInv, AnswerInv
<1>2. CASE NoFrame(v)
  <2>1. UNCHANGED <<frame, task>> /\ pc'[v] = "sent" /\ sendConnIds'[v] = {} /\ sent'[v] = {}
         /\ pc[v] = "capture" /\ UNCHANGED notifier
    BY <1>2 DEF NoFrame, TypeOK, shared
  <2> QED BY <1>1, <2>1, QuietService DEF Owing, Awaited, Answered
<1>3. CASE SetSend(v)
  <2>1. sendConnIds[v] = {}
    BY <1>3 DEF SetSend, IInv, FlowInv, ResetInv
  <2>2. UNCHANGED <<frame, task>> /\ pc[v] = "sent" /\ pc'[v] = "wait"
        /\ fetchedConnIds'[v] = {} /\ UNCHANGED notifier
    BY <1>3 DEF SetSend, TypeOK
  <2>3. sendConnIds'[v] = sent[v]
    BY <1>3, <2>1 DEF SetSend, TypeOK
  <2> QED BY <1>1, <2>2, <2>3, QuietService DEF Owing, Awaited, Answered
<1>4. CASE NothingSent(v)
  <2>1. UNCHANGED <<frame, task, notifier, sendConnIds>> /\ pc[v] = "wait" /\ pc'[v] = "done"
        /\ sendConnIds[v] = {}
    BY <1>4 DEF NothingSent, TypeOK, shared
  <2> QED BY <1>1, <2>1, QuietService DEF Owing, Awaited, Answered
<1>5. CASE Receive(v)
  <2> DEFINE ids == fetchedConnIds[v] \cup notifier[IdxOf[v]]
  <2>1. /\ UNCHANGED <<frame, task, sendConnIds>> /\ pc[v] = "wait"
        /\ fetchedConnIds'[v] = ids /\ notifier'[IdxOf[v]] = {}
        /\ pc'[v] = IF Enough(v, ids) THEN "done" ELSE "wait"
    BY <1>5 DEF Receive, TypeOK
  <2>2. ids = Answered(v) /\ Awaited(v) = sendConnIds[v] /\ sendConnIds[v] \subseteq Conn
    BY <2>1 DEF Answered, Awaited, TypeOK
  <2>3. CASE ~Enough(v, ids)
    BY <1>1, <2>1, <2>2, <2>3, QuietService DEF Owing, Awaited, Answered
  <2>4. CASE Enough(v, ids)
    <3>1. IsFiniteSet(sendConnIds[v])
      BY <2>2, FS_Subset, FlowAssumption
    <3>2. ids = sendConnIds[v]
      <4> HIDE DEF ids
      <4>1. Cardinality(ids) <= Cardinality(sendConnIds[v])
            /\ (Cardinality(ids) = Cardinality(sendConnIds[v]) => ids = sendConnIds[v])
        BY <1>1, <2>2, <3>1, FS_Subset
      <4>2. Cardinality(ids) \in Nat /\ Cardinality(sendConnIds[v]) \in Nat
        BY <1>1, <2>2, <3>1, FS_Subset, FS_CardinalityType
      <4> QED BY <4>1, <4>2, <2>4 DEF Enough
    <3>3. Answered(v)' = {} /\ Owing(v) = {}
      BY <2>1, <2>2, <2>4, <3>2 DEF Answered, Owing
    <3> QED BY <1>1, <2>1, <2>2, <2>4, <3>2, <3>3, QuietService
  <2> QED BY <2>3, <2>4
<1>6. CASE TimeoutSlice(v)
  <2>1. UNCHANGED <<frame, task, notifier, sendConnIds, fetchedConnIds>> /\ pc[v] = "wait"
        /\ pc'[v] = "wait"
    BY <1>6 DEF TimeoutSlice, TypeOK, shared
  <2> QED BY <1>1, <2>1, QuietService DEF Owing, Awaited, Answered
<1>7. CASE EndTurn(v)
  <2>1. UNCHANGED <<frame, task, notifier>> /\ pc[v] = "done" /\ pc'[v] = "capture"
    BY <1>7 DEF EndTurn, TypeOK
  <2> QED BY <1>1, <2>1, QuietService DEF Owing, Awaited, Answered
<1>8. CASE Bail(v)
  <2>1. UNCHANGED <<frame, task, notifier>> /\ pc[v] = "capture" /\ pc'[v] = "capture"
    BY <1>8 DEF Bail, TypeOK
  <2> QED BY <1>1, <2>1, QuietService DEF Owing, Awaited, Answered
<1> QED BY <1>2, <1>3, <1>4, <1>5, <1>6, <1>7, <1>8 DEF ServiceStep

LEMMA SendFlow ==
  ASSUME NEW D \in [AckConn -> Vid], OwnIndex, Watches(D), IInv(D), ~disturbed', NEW v \in Vid,
         SendFrame(v)
  PROVE  FlowInv(D)' /\ FlowControlled'
PROOF
<1> TypeOK /\ IdxOf[v] \in Index
  BY IndexFacts DEF IInv
<1>0. ~disturbed /\ FlowInv(D) /\ FlowControlled
  BY DEF IInv, SendFrame
<1>1. \A w \in Vid : w # v => UNCHANGED <<pc[w], sendConnIds[w], frame[w], Awaited(w), Answered(w), Owing(w)>>
  <2>1. \A w \in Vid : w # v => frame'[w] = frame[w]
    BY DEF SendFrame, TypeOK
  <2> QED BY <2>1, OthersKept DEF ServiceStep
<1>2. /\ pc[v] = "capture" /\ pc'[v] = "sent" /\ sent'[v] = subs[v] /\ sendConnIds'[v] = {}
      /\ frame'[v] = frame[v] + 1
      /\ UNCHANGED <<fetchedConnIds, conn, unacked, notifying, got, notifier>>
  BY DEF SendFrame, TypeOK, shared
<1>3. Awaited(v) = {} /\ Owing(v) = {} /\ Answered(v)' = {} /\ Owing(v)' = subs[v]
  BY <1>0, <1>2 DEF FlowInv, AnswerInv, Awaited, Answered, Owing
<1>4. OpenInv' /\ AnswerInv' /\ ResetInv'
  <2>1. OpenInv' /\ ResetInv'
    BY <1>0, <1>1, <1>2 DEF FlowInv, OpenInv, ResetInv
  <2>2. ASSUME NEW w \in Vid
        PROVE  Answered(w)' \subseteq Awaited(w)' /\ \A c \in Answered(w)' : got'[c][w] = frame'[w]
    <3>1. CASE w = v
      BY <1>3, <3>1
    <3>2. CASE w # v
      BY <1>0, <1>1, <1>2, <3>2 DEF FlowInv, AnswerInv
    <3> QED BY <3>1, <3>2
  <2> QED BY <2>1, <2>2 DEF AnswerInv
<1>5. ASSUME NEW c \in Conn, NEW k \in DOMAIN queue[c], NEW w, w = queue[c][k][1]
      PROVE  w \in Vid /\ w # v /\ queue[c][k][2] = frame'[w] /\ c \in Owing(w)'
  <2>1. w \in Vid /\ c \in Owing(w) /\ queue[c][k][2] = frame[w]
    BY <1>0, <1>5, QueueElements DEF FlowInv, QueueInv
  <2>2. w # v
    BY <2>1, <1>3
  <2> QED BY <1>1, <2>1, <2>2
<1>6. ASSUME NEW c \in Conn, NEW k \in DOMAIN queue'[c]
      PROVE  \/ k \in DOMAIN queue[c] /\ queue'[c][k] = queue[c][k]
             \/ c \in subs[v] /\ queue'[c][k] = <<v, frame'[v]>> /\ k = Len(queue[c]) + 1
  <2>1. queue[c] \in Seq(Frame)
    BY DEF TypeOK
  <2>2. CASE c \in subs[v] /\ conn[c] # "gone"
    <3>1. queue'[c] = Append(queue[c], <<v, frame'[v]>>)
      BY <2>2, <1>2 DEF SendFrame
    <3> QED BY <2>1, <2>2, <3>1
  <2>3. CASE ~(c \in subs[v] /\ conn[c] # "gone")
    <3>1. queue'[c] = queue[c]
      BY <2>3 DEF SendFrame
    <3> QED BY <3>1
  <2> QED BY <2>2, <2>3
<1>7. QueueInv'
  <2> SUFFICES ASSUME NEW c \in Conn, NEW k \in DOMAIN queue'[c], NEW w, w = queue'[c][k][1]
               PROVE  /\ queue'[c][k][2] = frame'[w]
                      /\ c \in Owing(w)'
                      /\ \A l \in DOMAIN queue'[c] : k # l => w # queue'[c][l][1]
    BY DEF QueueInv, Owing, Awaited, Answered
  <2>1. CASE k \in DOMAIN queue[c] /\ queue'[c][k] = queue[c][k]
    <3>1. c \in Owing(w)' /\ queue'[c][k][2] = frame'[w] /\ w # v
      BY <1>5, <2>1
    <3>2. ASSUME NEW l \in DOMAIN queue'[c], k # l PROVE w # queue'[c][l][1]
      BY <1>0, <1>6, <2>1, <3>1, <3>2 DEF FlowInv, QueueInv
    <3> QED BY <3>1, <3>2
  <2>2. CASE c \in subs[v] /\ queue'[c][k] = <<v, frame'[v]>> /\ k = Len(queue[c]) + 1
    <3>1. w = v /\ c \in Owing(v)'
      BY <1>3, <2>2
    <3>2. ASSUME NEW l \in DOMAIN queue'[c], k # l PROVE w # queue'[c][l][1]
      <4>1. l \in DOMAIN queue[c] /\ queue'[c][l] = queue[c][l]
        BY <1>6, <2>2, <3>2
      <4> QED BY <1>5, <3>1, <4>1
    <3> QED BY <2>2, <3>1, <3>2
  <2> QED BY <1>6, <2>1, <2>2
<1>8. AckInv(D)'
  <2>1. \A c \in Conn \ AckConn : unacked'[c] = 0
    BY <1>0, <1>2 DEF FlowInv, AckInv
  <2>2. ASSUME NEW c \in AckConn
        PROVE  /\ \A k \in DOMAIN queue'[c] :
                     queue'[c][k][1] = D[c] /\ unacked'[c] = 0 /\ conn'[c] = "run"
               /\ unacked'[c] # 0 => unacked'[c] = 1 /\ conn'[c] = "run"
               /\ unacked'[c] # 0 \/ conn'[c] = "ack"
                     => c \in Owing(D[c])' /\ got'[c][D[c]] = frame'[D[c]]
               /\ conn'[c] = "ack" => notifying'[c] \subseteq {IdxOf[D[c]]}
    <3>1. c \in Conn /\ D[c] \in Vid
      BY FlowAssumption
    <3>2. /\ \A k \in DOMAIN queue[c] : queue[c][k][1] = D[c] /\ unacked[c] = 0 /\ conn[c] = "run"
          /\ unacked[c] # 0 => unacked[c] = 1 /\ conn[c] = "run"
          /\ unacked[c] # 0 \/ conn[c] = "ack" => c \in Owing(D[c]) /\ got[c][D[c]] = frame[D[c]]
          /\ conn[c] = "ack" => notifying[c] \subseteq {IdxOf[D[c]]}
      BY <1>0 DEF FlowInv, AckInv
    <3>3. unacked[c] # 0 \/ conn[c] = "ack" => D[c] # v
      BY <3>2, <1>3
    <3>4. unacked[c] # 0 \/ conn[c] = "ack" => c \in Owing(D[c])' /\ got[c][D[c]] = frame'[D[c]]
      BY <3>1, <3>2, <3>3, <1>1
    <3>5. c \in subs[v] => D[c] = v
      BY DEF Watches
    <3>6. ASSUME NEW k \in DOMAIN queue'[c]
          PROVE  queue'[c][k][1] = D[c] /\ unacked[c] = 0 /\ conn[c] = "run"
      <4>1. CASE k \in DOMAIN queue[c] /\ queue'[c][k] = queue[c][k]
        BY <3>2, <4>1
      <4>2. CASE c \in subs[v] /\ queue'[c][k] = <<v, frame'[v]>>
        BY <1>0, <3>1, <3>3, <3>5, <4>2 DEF FlowInv, OpenInv
      <4> QED BY <1>6, <3>1, <4>1, <4>2
    <3> QED BY <1>2, <3>2, <3>4, <3>6
  <2> QED BY <2>1, <2>2 DEF AckInv
<1>9. FlowControlled'
  BY <1>0, <1>1, <1>2 DEF FlowControlled
<1> QED BY <1>4, <1>7, <1>8, <1>9 DEF FlowInv

\* A connection takes a frame from its queue.
LEMMA FetchFlow ==
  ASSUME NEW D \in [AckConn -> Vid], OwnIndex, IInv(D), ~disturbed', NEW c \in Conn, Fetch(c)
  PROVE  FlowInv(D)' /\ FlowControlled'
PROOF
<1> TypeOK
  BY DEF IInv
<1>0. ~disturbed /\ FlowInv(D) /\ FlowControlled
  BY DEF IInv, Fetch
<1>1. queue[c] \in Seq(Frame) /\ 1 \in DOMAIN queue[c] /\ queue[c][1] = Head(queue[c])
  BY DEF Fetch, TypeOK
<1>2. PICK v, n : v = queue[c][1][1] /\ n = queue[c][1][2]
  OBVIOUS
<1>3. v \in Vid /\ n = frame[v] /\ c \in Owing(v)
  BY <1>0, <1>1, <1>2, QueueElements DEF FlowInv, QueueInv
<1>4. IdxOf[v] \in Index /\ \A w \in Vid : w # v => IdxOf[w] # IdxOf[v]
  BY <1>3, IndexFacts
<1>5. /\ got' = [got EXCEPT ![c][v] = frame[v]] /\ queue' = [queue EXCEPT ![c] = Tail(@)]
      /\ UNCHANGED <<pc, frame, sent, sendConnIds, fetchedConnIds, conn, notifying>>
  BY <1>1, <1>2, <1>3 DEF Fetch, service
<1>6. /\ \A d \in Conn, w \in Vid : got'[d][w] = IF d = c /\ w = v THEN frame[v] ELSE got[d][w]
      /\ \A d \in Conn : d # c => queue'[d] = queue[d]
      /\ queue'[c] = Tail(queue[c])
  BY <1>3, <1>5 DEF TypeOK
<1>7. ASSUME NEW k \in DOMAIN queue'[c]
      PROVE  /\ k + 1 \in DOMAIN queue[c] /\ k + 1 # 1 /\ queue'[c][k] = queue[c][k + 1]
             /\ k \in Nat /\ queue'[c][k][1] # v
  <2>1. k \in Nat /\ k + 1 \in DOMAIN queue[c] /\ k + 1 # 1 /\ queue'[c][k] = queue[c][k + 1]
    BY <1>1, <1>6
  <2> QED BY <1>0, <1>1, <1>2, <2>1 DEF FlowInv, QueueInv
<1>8. \A w \in Vid : /\ Awaited(w)' = Awaited(w) /\ Answered(w) \subseteq Answered(w)'
                     /\ Answered(w)' \subseteq Answered(w) \cup (IF w = v /\ c \notin AckConn THEN {c} ELSE {})
  <2>1. CASE c \in AckConn
    BY <1>5, <2>1 DEF Fetch, Awaited, Answered
  <2>2. CASE c \notin AckConn
    <3>1. notifier' = [notifier EXCEPT ![IdxOf[v]] = @ \cup {c}]
      BY <1>1, <1>2, <2>2 DEF Fetch
    <3>2. \A w \in Vid : notifier'[IdxOf[w]] = IF w = v THEN notifier[IdxOf[w]] \cup {c} ELSE notifier[IdxOf[w]]
      BY <1>3, <1>4, <3>1, IndexFacts DEF TypeOK
    <3> QED BY <1>5, <2>2, <3>2 DEF Awaited, Answered
  <2> QED BY <2>1, <2>2
<1>9. \A w \in Vid, d \in Conn :
        d \in Owing(w) /\ (d # c \/ w # v \/ c \in AckConn) => d \in Owing(w)'
  BY <1>8 DEF Owing
<1>10. OpenInv' /\ ResetInv'
  BY <1>0, <1>5 DEF FlowInv, OpenInv, ResetInv
<1>11. AnswerInv'
  <2> SUFFICES ASSUME NEW w \in Vid
               PROVE  /\ Answered(w)' \subseteq Awaited(w)'
                      /\ \A d \in Answered(w)' : got'[d][w] = frame[w]
    BY <1>5 DEF AnswerInv
  <2>1. Answered(w) \subseteq Awaited(w) /\ Awaited(w) \subseteq Conn
        /\ \A d \in Answered(w) : got[d][w] = frame[w]
    BY <1>0 DEF FlowInv, AnswerInv, Awaited, TypeOK
  <2> QED BY <1>3, <1>6, <1>8, <2>1 DEF Owing
<1>12. QueueInv'
  <2> SUFFICES ASSUME NEW d \in Conn, NEW k \in DOMAIN queue'[d], NEW w, w = queue'[d][k][1]
               PROVE  /\ queue'[d][k][2] = frame[w]
                      /\ d \in Owing(w)'
                      /\ \A l \in DOMAIN queue'[d] : k # l => w # queue'[d][l][1]
    BY <1>5 DEF QueueInv, Owing, Awaited, Answered
  <2>1. CASE d = c
    <3>1. w = queue[c][k + 1][1] /\ w # v /\ k + 1 \in DOMAIN queue[c]
      BY <1>7, <2>1
    <3>2. w \in Vid /\ c \in Owing(w) /\ queue[c][k + 1][2] = frame[w]
      BY <1>0, <3>1, QueueElements DEF FlowInv, QueueInv
    <3>3. ASSUME NEW l \in DOMAIN queue'[c], k # l PROVE w # queue'[c][l][1]
      <4>1. l + 1 \in DOMAIN queue[c] /\ queue'[c][l] = queue[c][l + 1] /\ l + 1 # k + 1
        BY <1>7, <2>1, <3>3
      <4> QED BY <1>0, <3>1, <4>1 DEF FlowInv, QueueInv
    <3> QED BY <1>7, <1>9, <2>1, <3>1, <3>2, <3>3
  <2>2. CASE d # c
    <3>1. k \in DOMAIN queue[d] /\ w = queue[d][k][1] /\ queue'[d] = queue[d]
      BY <1>6, <2>2
    <3>2. w \in Vid /\ d \in Owing(w) /\ queue[d][k][2] = frame[w]
          /\ \A l \in DOMAIN queue[d] : k # l => w # queue[d][l][1]
      BY <1>0, <3>1, QueueElements DEF FlowInv, QueueInv
    <3> QED BY <1>9, <2>2, <3>1, <3>2
  <2> QED BY <2>1, <2>2
<1>13. AckInv(D)'
  <2>1. ASSUME NEW d \in Conn \ AckConn PROVE unacked'[d] = 0
    BY <1>0, <2>1 DEF FlowInv, AckInv, Fetch, TypeOK
  <2>2. ASSUME NEW d \in AckConn
        PROVE  /\ \A k \in DOMAIN queue'[d] :
                     queue'[d][k][1] = D[d] /\ unacked'[d] = 0 /\ conn[d] = "run"
               /\ unacked'[d] # 0 => unacked'[d] = 1 /\ conn[d] = "run"
               /\ unacked'[d] # 0 \/ conn[d] = "ack"
                     => d \in Owing(D[d])' /\ got'[d][D[d]] = frame[D[d]]
               /\ conn[d] = "ack" => notifying[d] \subseteq {IdxOf[D[d]]}
    <3>1. d \in Conn /\ D[d] \in Vid
      BY FlowAssumption
    <3>2. /\ \A k \in DOMAIN queue[d] : queue[d][k][1] = D[d] /\ unacked[d] = 0 /\ conn[d] = "run"
          /\ unacked[d] # 0 => unacked[d] = 1 /\ conn[d] = "run"
          /\ unacked[d] # 0 \/ conn[d] = "ack" => d \in Owing(D[d]) /\ got[d][D[d]] = frame[D[d]]
          /\ conn[d] = "ack" => notifying[d] \subseteq {IdxOf[D[d]]}
      BY <1>0 DEF FlowInv, AckInv
    <3>3. CASE d = c
      <4>1. v = D[c] /\ unacked[c] = 0 /\ conn[c] = "run"
        BY <1>1, <1>2, <3>2, <3>3
      <4>2. unacked'[c] = 1
        BY <3>3, <4>1 DEF Fetch, TypeOK
      <4>3. \A k \in DOMAIN queue'[c] : FALSE
        BY <1>7, <3>2, <3>3, <4>1
      <4>4. c \in Owing(v)' /\ got'[c][v] = frame[v]
        BY <1>3, <1>6, <1>9, <3>3
      <4> QED BY <3>3, <4>1, <4>2, <4>3, <4>4
    <3>4. CASE d # c
      <4>1. unacked'[d] = unacked[d] /\ queue'[d] = queue[d]
        BY <1>6, <3>1, <3>4 DEF Fetch, TypeOK
      <4> QED BY <1>6, <1>9, <3>1, <3>2, <3>4, <4>1
    <3> QED BY <3>3, <3>4
  <2> QED BY <1>5, <2>1, <2>2 DEF AckInv
<1>14. FlowControlled'
  <2>1. pc[v] # "done"
    BY <1>3 DEF Owing, Awaited
  <2> QED BY <1>0, <1>5, <1>6, <2>1 DEF FlowControlled, TypeOK
<1> QED BY <1>10, <1>11, <1>12, <1>13, <1>14 DEF FlowInv

\* A connection handles an acknowledgement of its client: it looks up who waits for it
\* or, in the second step, tells them.
LEMMA AckFlow ==
  ASSUME NEW D \in [AckConn -> Vid], OwnIndex, IInv(D), ~disturbed', NEW c \in Conn,
         VideoReceived(c) \/ AckSent(c)
  PROVE  FlowInv(D)' /\ FlowControlled'
PROOF
<1> TypeOK
  BY DEF IInv
<1>0. ~disturbed /\ FlowInv(D) /\ FlowControlled
  BY DEF IInv, VideoReceived, AckSent
<1>1. UNCHANGED <<pc, frame, sent, sendConnIds, fetchedConnIds, queue, got>>
  BY DEF VideoReceived, AckSent, service
<1>2. c \in AckConn
  BY <1>0 DEF VideoReceived, AckSent, FlowInv, OpenInv, AckInv, TypeOK
<1>3. D[c] \in Vid /\ IdxOf[D[c]] \in Index /\ \A w \in Vid : w # D[c] => IdxOf[w] # IdxOf[D[c]]
  BY <1>2, IndexFacts
<1>4. /\ \A k \in DOMAIN queue[c] : FALSE
      /\ c \in Owing(D[c]) /\ got[c][D[c]] = frame[D[c]]
      /\ VideoReceived(c) => unacked[c] = 1
      /\ AckSent(c) => unacked[c] = 0 /\ notifying[c] \subseteq {IdxOf[D[c]]}
  <2>1. unacked[c] # 0 \/ conn[c] = "ack"
    BY DEF VideoReceived, AckSent, TypeOK
  <2> QED BY <1>0, <1>2, <2>1 DEF FlowInv, AckInv, VideoReceived, AckSent, TypeOK
<1>5. /\ unacked'[c] = 0 /\ conn'[c] = IF VideoReceived(c) THEN "ack" ELSE "run"
      /\ \A d \in Conn : d # c => UNCHANGED <<unacked[d], conn[d], notifying[d]>>
  BY <1>4 DEF VideoReceived, LookUp, AckSent, SendFetched, TypeOK
<1>6. VideoReceived(c) => notifying'[c] \subseteq {IdxOf[D[c]]}
  <2> SUFFICES ASSUME VideoReceived(c), NEW i \in notifying'[c] PROVE i = IdxOf[D[c]]
    OBVIOUS
  <2>1. i \in Index /\ c \in displayConnIds[i]
    BY DEF VideoReceived, LookUp, TypeOK
  <2>2. PICK w \in Vid : i = IdxOf[w]
    BY <2>1 DEF Index
  <2> QED BY <1>2, <2>1, <2>2 DEF IInv, WatchInv
<1>7. \A w \in Vid : /\ Awaited(w)' = Awaited(w) /\ Answered(w) \subseteq Answered(w)'
                     /\ Answered(w)' \subseteq Answered(w) \cup (IF w = D[c] /\ AckSent(c) THEN {c} ELSE {})
  <2>1. CASE VideoReceived(c)
    BY <1>1, <2>1 DEF VideoReceived, shared, Awaited, Answered
  <2>2. CASE AckSent(c)
    <3>1. ASSUME NEW w \in Vid
          PROVE  notifier'[IdxOf[w]] = IF IdxOf[w] \in notifying[c] THEN notifier[IdxOf[w]] \cup {c} ELSE notifier[IdxOf[w]]
      BY <2>2 DEF AckSent, SendFetched, Index
    <3> QED BY <1>1, <1>3, <1>4, <2>2, <3>1 DEF Awaited, Answered
  <2> QED BY <2>1, <2>2
<1>8. \A w \in Vid, d \in Conn :
        d \in Owing(w) /\ (d # c \/ w # D[c] \/ VideoReceived(c)) => d \in Owing(w)'
  <2>1. VideoReceived(c) => ~AckSent(c)
    BY DEF VideoReceived, AckSent
  <2> QED BY <1>7, <2>1 DEF Owing
<1>9. OpenInv' /\ ResetInv'
  BY <1>0, <1>1, <1>2, <1>5 DEF FlowInv, OpenInv, ResetInv
<1>10. AnswerInv'
  <2> SUFFICES ASSUME NEW w \in Vid
               PROVE  /\ Answered(w)' \subseteq Awaited(w)'
                      /\ \A d \in Answered(w)' : got[d][w] = frame[w]
    BY <1>1 DEF AnswerInv
  <2>1. Answered(w) \subseteq Awaited(w) /\ \A d \in Answered(w) : got[d][w] = frame[w]
    BY <1>0 DEF FlowInv, AnswerInv
  <2> QED BY <1>4, <1>7, <2>1 DEF Owing
<1>11. QueueInv'
  <2> SUFFICES ASSUME NEW d \in Conn, NEW k \in DOMAIN queue[d], NEW w, w = queue[d][k][1]
               PROVE  /\ queue[d][k][2] = frame[w]
                      /\ d \in Owing(w)'
                      /\ \A l \in DOMAIN queue[d] : k # l => w # queue[d][l][1]
    BY <1>1 DEF QueueInv, Owing, Awaited, Answered
  <2>1. w \in Vid /\ d \in Owing(w) /\ queue[d][k][2] = frame[w]
        /\ \A l \in DOMAIN queue[d] : k # l => w # queue[d][l][1]
    BY <1>0, QueueElements DEF FlowInv, QueueInv
  <2> QED BY <1>4, <1>8, <2>1
<1>12. AckInv(D)'
  <2>1. ASSUME NEW d \in Conn \ AckConn PROVE unacked'[d] = 0
    BY <1>0, <1>2, <1>5 DEF FlowInv, AckInv
  <2>2. ASSUME NEW d \in AckConn
        PROVE  /\ \A k \in DOMAIN queue[d] :
                     queue[d][k][1] = D[d] /\ unacked'[d] = 0 /\ conn'[d] = "run"
               /\ unacked'[d] # 0 => unacked'[d] = 1 /\ conn'[d] = "run"
               /\ unacked'[d] # 0 \/ conn'[d] = "ack"
                     => d \in Owing(D[d])' /\ got[d][D[d]] = frame[D[d]]
               /\ conn'[d] = "ack" => notifying'[d] \subseteq {IdxOf[D[d]]}
    <3>1. d \in Conn /\ D[d] \in Vid
      BY FlowAssumption
    <3>2. CASE d = c
      BY <1>3, <1>4, <1>5, <1>6, <1>8, <3>1, <3>2
    <3>3. CASE d # c
      <4>1. /\ \A k \in DOMAIN queue[d] : queue[d][k][1] = D[d] /\ unacked[d] = 0 /\ conn[d] = "run"
            /\ unacked[d] # 0 => unacked[d] = 1 /\ conn[d] = "run"
            /\ unacked[d] # 0 \/ conn[d] = "ack" => d \in Owing(D[d]) /\ got[d][D[d]] = frame[D[d]]
            /\ conn[d] = "ack" => notifying[d] \subseteq {IdxOf[D[d]]}
        BY <1>0 DEF FlowInv, AckInv
      <4> QED BY <1>5, <1>8, <3>1, <3>3, <4>1
    <3> QED BY <3>2, <3>3
  <2> QED BY <1>1, <2>1, <2>2 DEF AckInv
<1>13. FlowControlled'
  BY <1>0, <1>1 DEF FlowControlled
<1> QED BY <1>9, <1>10, <1>11, <1>12, <1>13 DEF FlowInv

LEMMA FlowStep ==
  ASSUME NEW D \in [AckConn -> Vid], OwnIndex, Watches(D), IInv(D), TimeLeft, [Next]_vars
  PROVE  IInv(D)'
PROOF
<1>1. TypeOK'
  BY NextTypes DEF IInv
<1>2. WatchInv(D)'
  BY WatchStep DEF IInv
<1> SUFFICES ASSUME ~disturbed' PROVE FlowInv(D)' /\ FlowControlled'
  BY <1>1, <1>2 DEF IInv
<1>3. ASSUME ~disturbed, UNCHANGED <<service, task, shared>>
      PROVE  FlowInv(D)' /\ FlowControlled'
  BY <1>3 DEF IInv, FlowInv, OpenInv, AnswerInv, ResetInv, QueueInv, AckInv, FlowControlled,
     Owing, Awaited, Answered, service, task, shared
<1>4. ASSUME NEW v \in Vid, ServiceStep(v) \/ Bail(v) PROVE FlowInv(D)' /\ FlowControlled'
  BY <1>4, SendFlow, ServiceFlow
<1>5. ASSUME NEW v \in Vid, NEW c \in Conn, Subscribe(v, c) PROVE FlowInv(D)' /\ FlowControlled'
  BY <1>3, <1>5 DEF Subscribe
<1>6. ASSUME NEW c \in Conn, ConnStep(c) \/ Close(c) PROVE FlowInv(D)' /\ FlowControlled'
  <2>1. ~CloseLookUp(c) /\ ~CloseNotify(c) /\ ~Remove(c) /\ ~Close(c)
    BY DEF CloseLookUp, CloseNotify, Remove, Close, IInv, FlowInv, OpenInv
  <2> QED BY <1>6, <2>1, FetchFlow, AckFlow DEF ConnStep
<1>7. CASE UNCHANGED vars
  BY <1>3, <1>7 DEF vars
<1> QED BY <1>4, <1>5, <1>6, <1>7 DEF Next

LEMMA InitFlow == ASSUME NEW D \in [AckConn -> Vid], Init PROVE IInv(D)
PROOF
<1>1. TypeOK
  BY InitTypes
<1>2. \A v \in Vid : IdxOf[v] \in Index
  BY DEF Index
<1>3. WatchInv(D)
  BY <1>2 DEF Init, WatchInv
<1>4. OpenInv /\ AnswerInv /\ ResetInv /\ FlowControlled
  BY <1>2 DEF Init, OpenInv, AnswerInv, ResetInv, FlowControlled, Answered, Awaited
<1>5. QueueInv /\ AckInv(D)
  BY FlowAssumption DEF Init, QueueInv, AckInv
<1> QED BY <1>1, <1>3, <1>4, <1>5 DEF IInv, FlowInv

\* In undisturbed operation a service takes up the next frame only when everyone it sent
\* the current one to has fetched it: try_wait_next compares the sizes of two sets, and
\* that is enough for any number of connections, services and frames, provided that each
\* service has a display index of its own and an acknowledging client watches one display.
THEOREM FlowIsControlled ==
  ASSUME OwnIndex, NEW D \in [AckConn -> Vid]
  PROVE  Spec /\ []Watches(D) => []FlowControlled
PROOF
<1>1. Init => IInv(D) /\ TimeLeft
  BY InitFlow, InitTypes
<1>2. IInv(D) /\ TimeLeft /\ Watches(D) /\ [Next]_vars => IInv(D)' /\ TimeLeft'
  BY FlowStep, NextTypes DEF IInv
<1>3. IInv(D) => FlowControlled
  BY DEF IInv, FlowControlled
<1> QED BY <1>1, <1>2, <1>3, PTL DEF Spec

\* With one display nothing else is needed.
COROLLARY OneDisplayControlled ==
  ASSUME NEW d, Vid = {d}
  PROVE  Spec => []FlowControlled
PROOF
<1> DEFINE D == [c \in AckConn |-> d]
<1>1. D \in [AckConn -> Vid] /\ OwnIndex
  BY DEF OwnIndex
<1>2. Watches(D)
  BY DEF Watches
<1> HIDE DEF D
<1>3. Init => IInv(D) /\ TimeLeft
  BY <1>1, InitFlow, InitTypes
<1>4. IInv(D) /\ TimeLeft /\ [Next]_vars => IInv(D)' /\ TimeLeft'
  BY <1>1, <1>2, FlowStep, NextTypes DEF IInv
<1>5. IInv(D) => FlowControlled
  BY DEF IInv, FlowControlled
<1> QED BY <1>3, <1>4, <1>5, PTL DEF Spec
=============================================================================
