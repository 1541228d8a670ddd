---------------------------- MODULE ServerProofs ----------------------------
(***************************************************************************)
(* Proofs, for every set of connections and services, of the safety        *)
(* properties of Server.                                                   *)
(***************************************************************************)
EXTENDS Server, TLAPS

-----------------------------------------------------------------------------
(* The inductive invariant.                                                 *)

\* Tasks exist only while an operation is under way, the operation is for an
\* open connection unless it is the drop of the Server, and only that one
\* joins.
Joins == {"join", "joining"}
Idle == {"none", "dropped"}
OpInv ==
  /\ op \in Idle => todo = {} /\ cur = None
  /\ op = "drop" => \A t \in todo \cup {cur} : t /= None => t.act \in Joins
  /\ op \notin Idle \cup {"drop"} =>
       /\ opConn \in Conn \ closed
       /\ \A t \in todo \cup {cur} : t /= None => t.act \notin Joins

\* Only a service that exists, and needs a snapshot, has somebody waiting.
MapsInv ==
  /\ \A s \in Svc \ NeedSnapshot : newSubscribes[s] = {}
  /\ \A s \in Svc \ services : subscribes[s] = {} /\ newSubscribes[s] = {}
  /\ \A t \in todo \cup {cur} : t /= None => t.svc \in services

\* remove_connection has taken the connection out of the services it has
\* visited.
RemoveInv ==
  op = "remove" =>
    /\ cur = None
    /\ \A t \in todo : t.act = "on_unsubscribe"
    /\ \A s \in services : \/ TaskFor(s, "on_unsubscribe") \in todo
                           \/ opConn \notin Subscribed(s)

\* Between the creation of an encoder and the next one, those who have its key
\* frame are mixed with nobody else.
Unmixed(s) == subscribes[s] \cap keyed[s] = {} \/ subscribes[s] \subseteq keyed[s]
EncoderInv ==
  \A s \in Video :
    /\ keyed[s] \subseteq subscribes[s]
    /\ pc[s] = "setup" => keyed[s] = {}
    /\ pc[s] = "frameDrop" => subscribes[s] = {}
    /\ pc[s] \in {"loop", "frame", "frameCallback", "encode"} => Unmixed(s)

IInv == /\ TypeOK /\ OpInv /\ MapsInv /\ RemoveInv /\ EncoderInv
        /\ SubscribesDisjoint /\ ClosedNotSubscribed /\ SubscribeHonoured
-----------------------------------------------------------------------------
(* The threads.                                                             *)

\* Where a thread may go without breaking what EncoderInv says of that place.
Allowed(s, l) ==
  /\ l \in ThreadState
  /\ s \in Video => /\ l = "setup" => keyed[s] = {}
                    /\ l = "frameDrop" => subscribes[s] = {}
                    /\ l \in {"loop", "frame", "frameCallback", "encode"} => Unmixed(s)

\* A step of a thread that only moves it to a place where it may be, and
\* changes neither the maps nor who has the key frame, keeps the invariant.
LEMMA QuietStep ==
  ASSUME IInv, NEW s \in services, NEW l, Allowed(s, l), pc' = [pc EXCEPT ![s] = l],
         UNCHANGED <<subscribes, newSubscribes, keyed>>, UNCHANGED registryVars,
         active' = active, refresh' \in [Svc -> BOOLEAN],
         keySent' \in [Svc -> BOOLEAN]
  PROVE  IInv'
PROOF
<1> USE ServiceAssumption
<1>1. TypeOK'
  BY DEF IInv, TypeOK, ServiceTypeOK, RegistryTypeOK, registryVars, Allowed, Task
<1>2. OpInv' /\ MapsInv' /\ RemoveInv'
  BY DEF IInv, OpInv, MapsInv, RemoveInv, Subscribed, registryVars
<1>3. EncoderInv'
  <2> SUFFICES ASSUME NEW v \in Video
               PROVE  /\ keyed'[v] \subseteq subscribes'[v]
                      /\ pc'[v] = "setup" => keyed'[v] = {}
                      /\ pc'[v] = "frameDrop" => subscribes'[v] = {}
                      /\ pc'[v] \in {"loop", "frame", "frameCallback", "encode"} => Unmixed(v)'
    BY DEF EncoderInv
  <2>1. pc \in [Svc -> ThreadState] /\ v \in Svc /\ s \in Svc
    BY DEF IInv, TypeOK, ServiceTypeOK, RegistryTypeOK
  <2>2. CASE v = s
    BY <2>1, <2>2 DEF IInv, EncoderInv, Allowed, Unmixed
  <2>3. CASE v /= s
    BY <2>1, <2>3 DEF IInv, EncoderInv, Unmixed
  <2> QED BY <2>2, <2>3
<1>4. SubscribesDisjoint' /\ ClosedNotSubscribed' /\ SubscribeHonoured'
  BY DEF IInv, SubscribesDisjoint, ClosedNotSubscribed, SubscribeHonoured, Subscribed, registryVars
<1> QED BY <1>1, <1>2, <1>3, <1>4 DEF IInv

\* Drop of ServiceSwap: the union of the two maps stays what it was, and if
\* frames follow there was no subscriber before.
LEMMA SwapStep ==
  ASSUME IInv, NEW s \in services, NEW l, pc' = [pc EXCEPT ![s] = l],
         l = "hibernate" \/ (l = "encode" /\ pc[s] = "frameDrop"),
         SwapNewSubscribes(s), UNCHANGED <<active, refresh, stream>>,
         UNCHANGED registryVars
  PROVE  IInv'
PROOF
<1> USE ServiceAssumption
<1>1. s \in Svc /\ ServiceTypeOK /\ RegistryTypeOK
  BY DEF IInv, TypeOK, RegistryTypeOK
<1>2. TypeOK'
  BY <1>1 DEF TypeOK, ServiceTypeOK, RegistryTypeOK, registryVars, SwapNewSubscribes,
              ThreadState, stream, Task
<1>3. \A v \in Svc : /\ subscribes'[v] \cup newSubscribes'[v] = Subscribed(v)
                     /\ v /= s => subscribes'[v] = subscribes[v] /\ newSubscribes'[v] = newSubscribes[v]
                     /\ newSubscribes'[s] = {}
  BY <1>1 DEF ServiceTypeOK, SwapNewSubscribes, Subscribed
<1>4. OpInv' /\ MapsInv' /\ RemoveInv'
  BY <1>1, <1>3 DEF IInv, OpInv, MapsInv, RemoveInv, RegistryTypeOK, Subscribed, registryVars
<1>5. EncoderInv'
  <2> SUFFICES ASSUME NEW v \in Video
               PROVE  /\ keyed'[v] \subseteq subscribes'[v]
                      /\ pc'[v] = "setup" => keyed'[v] = {}
                      /\ pc'[v] = "frameDrop" => subscribes'[v] = {}
                      /\ pc'[v] \in {"loop", "frame", "frameCallback", "encode"} => Unmixed(v)'
    BY DEF EncoderInv
  <2>1. CASE v /= s
    BY <1>1, <1>3, <2>1 DEF IInv, EncoderInv, Unmixed, stream, ServiceTypeOK
  <2>2. CASE v = s
    <3>1. keyed'[s] = keyed[s] /\ keyed[s] \subseteq subscribes'[s]
      BY <1>1, <2>2 DEF IInv, EncoderInv, stream, ServiceTypeOK, SwapNewSubscribes
    <3>2. pc[s] = "frameDrop" => keyed[s] = {}
      BY <2>2 DEF IInv, EncoderInv
    <3>3. pc'[s] = l
      BY <1>1 DEF ServiceTypeOK
    <3> QED BY <2>2, <3>1, <3>2, <3>3 DEF Unmixed
  <2> QED BY <2>1, <2>2
<1>6. SubscribesDisjoint' /\ ClosedNotSubscribed' /\ SubscribeHonoured'
  BY <1>1, <1>3 DEF IInv, SubscribesDisjoint, ClosedNotSubscribed, SubscribeHonoured,
                    Subscribed, registryVars
<1> QED BY <1>2, <1>4, <1>5, <1>6 DEF IInv

\* A new encoder or its key frame: who is keyed changes for one service.
LEMMA KeyStep ==
  ASSUME IInv, NEW s \in services, NEW l \in ThreadState, NEW K,
         pc' = [pc EXCEPT ![s] = l], keyed' = [keyed EXCEPT ![s] = K],
         \/ K = {} /\ l = "setup"
         \/ K = subscribes[s] /\ l = "loop",
         keySent' \in [Svc -> BOOLEAN],
         UNCHANGED <<members, active, refresh>>, UNCHANGED registryVars
  PROVE  IInv'
PROOF
<1> USE ServiceAssumption
<1>1. s \in Svc /\ ServiceTypeOK /\ RegistryTypeOK
  BY DEF IInv, TypeOK, RegistryTypeOK
<1>2. TypeOK'
  BY <1>1 DEF TypeOK, ServiceTypeOK, RegistryTypeOK, registryVars, members, Task
<1>3. OpInv' /\ MapsInv' /\ RemoveInv'
  BY DEF IInv, OpInv, MapsInv, RemoveInv, Subscribed, registryVars, members
<1>4. EncoderInv'
  BY <1>1 DEF IInv, EncoderInv, Unmixed, ServiceTypeOK, members
<1>5. SubscribesDisjoint' /\ ClosedNotSubscribed' /\ SubscribeHonoured'
  BY DEF IInv, SubscribesDisjoint, ClosedNotSubscribed, SubscribeHonoured, Subscribed,
         registryVars, members
<1> QED BY <1>2, <1>3, <1>4, <1>5 DEF IInv

LEMMA ThreadInv ==
  ASSUME IInv, NEW s \in services, ThreadStep(s), UNCHANGED registryVars
  PROVE  IInv'
PROOF
<1> USE ServiceAssumption
<1>1. s \in Svc /\ ServiceTypeOK
  BY DEF IInv, TypeOK, RegistryTypeOK
<1>2. CASE ThreadExit(s)
  <2>1. Allowed(s, "exit")
    BY DEF Allowed, ThreadState
  <2> QED BY <1>1, <1>2, <2>1, QuietStep
      DEF ThreadExit, Goes, GoTo, members, stream, ServiceTypeOK
<1>3. CASE EnterRun(s)
  BY <1>1, <1>3, KeyStep DEF EnterRun, Goes, GoTo, ServiceTypeOK, ThreadState
<1>4. CASE SetupFails(s) \/ LeaveRun(s) \/ Switch(s)
  <2>1. Allowed(s, "hibernate")
    BY DEF Allowed, ThreadState
  <2> QED BY <1>1, <1>4, <2>1, QuietStep
      DEF SetupFails, LeaveRun, Switch, Goes, GoTo, members, stream, ServiceTypeOK
<1>5. CASE SetupDone(s)
  <2>1. Allowed(s, "loop")
    BY <1>5 DEF Allowed, ThreadState, SetupDone, Goes, IInv, EncoderInv, Unmixed
  <2> QED BY <1>1, <1>5, <2>1, QuietStep
      DEF SetupDone, Goes, GoTo, members, stream, ServiceTypeOK
<1>6. CASE Broadcast(s)
  <2>1. Allowed(s, "bcSnapshot")
    BY DEF Allowed, ThreadState
  <2> QED BY <1>1, <1>6, <2>1, QuietStep
      DEF Broadcast, Goes, GoTo, members, stream, ServiceTypeOK
<1>7. CASE BroadcastSnapshot(s)
  <2>1. Allowed(s, "hibernate") /\ Allowed(s, "bcCallback")
    BY DEF Allowed, ThreadState
  <2> QED BY <1>1, <1>7, <2>1, QuietStep
      DEF BroadcastSnapshot, Goes, GoTo, members, stream, ServiceTypeOK
<1>8. CASE BroadcastCallback(s)
  <2>1. Allowed(s, "bcDrop")
    BY DEF Allowed, ThreadState
  <2> QED BY <1>1, <1>8, <2>1, QuietStep
      DEF BroadcastCallback, Goes, GoTo, members, stream, ServiceTypeOK
<1>9. CASE BroadcastDrop(s)
  BY <1>9, SwapStep DEF BroadcastDrop, Goes, GoTo
<1>10. CASE FrameCaptured(s)
  <2>1. Allowed(s, "frame")
    BY <1>10 DEF Allowed, ThreadState, FrameCaptured, Goes, IInv, EncoderInv
  <2> QED BY <1>1, <1>10, <2>1, QuietStep
      DEF FrameCaptured, Goes, GoTo, members, stream, ServiceTypeOK
<1>11. CASE FrameSnapshot(s)
  <2>1. Allowed(s, "encode") /\ Allowed(s, "frameCallback")
    BY <1>11 DEF Allowed, ThreadState, FrameSnapshot, Goes, IInv, EncoderInv
  <2> QED BY <1>1, <1>11, <2>1, QuietStep
      DEF FrameSnapshot, Goes, GoTo, members, stream, ServiceTypeOK
<1>12. CASE FrameCallback(s)
  <2>1. Allowed(s, "switchDrop") /\ (subscribes[s] = {} => Allowed(s, "frameDrop"))
    BY DEF Allowed, ThreadState
  <2> QED BY <1>1, <1>12, <2>1, QuietStep
      DEF FrameCallback, Goes, GoTo, members, stream, ServiceTypeOK
<1>13. CASE FrameDrop(s)
  BY <1>13, SwapStep DEF FrameDrop, Goes, GoTo
<1>14. CASE EncodeAndSend(s)
  <2>1. Allowed(s, "loop") /\ keySent' \in [Svc -> BOOLEAN]
    BY <1>1, <1>14 DEF Allowed, ThreadState, EncodeAndSend, Goes, IInv, EncoderInv, ServiceTypeOK
  <2>2. CASE keySent[s]
    BY <1>1, <1>14, <2>1, <2>2, QuietStep
       DEF EncodeAndSend, Goes, GoTo, members, ServiceTypeOK
  <2>3. CASE ~keySent[s]
    BY <1>14, <2>1, <2>3, KeyStep DEF EncodeAndSend, Goes, GoTo, ThreadState
  <2> QED BY <2>2, <2>3
<1>15. CASE EncodeFails(s)
  <2>1. Allowed(s, "loop") /\ Allowed(s, "hibernate")
    BY <1>15 DEF Allowed, ThreadState, EncodeFails, IInv, EncoderInv
  <2> QED BY <1>1, <1>15, <2>1, QuietStep
      DEF EncodeFails, GoTo, members, stream, ServiceTypeOK
<1> QED
  BY <1>2, <1>3, <1>4, <1>5, <1>6, <1>7, <1>8, <1>9, <1>10, <1>11, <1>12, <1>13,
     <1>14, <1>15 DEF ThreadStep

-----------------------------------------------------------------------------
(* The operations.                                                          *)

\* Starting an operation changes no service; a removal starts with a task for
\* every service.
LEMMA StartInv ==
  ASSUME IInv, NEW kind \in OpKind \ Idle, NEW c \in (Conn \ closed) \cup {None},
         NEW S \in SUBSET Svc, NEW tasks \in SUBSET Task,
         Start(kind, c, S, tasks), displayIdx' \in [Conn -> Video],
         \A t \in tasks : t.svc \in services \cup S,
         IF kind = "drop" THEN \A t \in tasks : t.act \in Joins
         ELSE c \in Conn /\ \A t \in tasks : t.act \notin Joins,
         kind = "remove" => S = {} /\ tasks = Tasks(services, "on_unsubscribe")
  PROVE  IInv'
PROOF
<1>1. op = "none" /\ todo = {} /\ cur = None
  BY DEF Start, IInv, OpInv, Idle
<1>2. UNCHANGED <<serviceVars, connections, closed, cur, counted, wanted>>
  BY DEF Start
<1>3. TypeOK'
  BY <1>2 DEF IInv, TypeOK, ServiceTypeOK, RegistryTypeOK, serviceVars, Start, Idle
<1>4. OpInv'
  BY <1>1, <1>2, ServerAssumption DEF OpInv, Start, Idle
<1>5. MapsInv'
  BY <1>1, <1>2 DEF IInv, MapsInv, Start, serviceVars
<1>6. RemoveInv'
  BY <1>1, <1>2 DEF RemoveInv, Start, Tasks, TaskFor
<1>7. EncoderInv'
  BY <1>2 DEF IInv, EncoderInv, Unmixed, serviceVars
<1>8. SubscribesDisjoint' /\ ClosedNotSubscribed' /\ SubscribeHonoured'
  BY <1>2 DEF IInv, SubscribesDisjoint, ClosedNotSubscribed, SubscribeHonoured, Subscribed, serviceVars
<1> QED BY <1>3, <1>4, <1>5, <1>6, <1>7, <1>8 DEF IInv

LEMMA TasksType ==
  ASSUME NEW S \in SUBSET Svc, NEW a \in Act
  PROVE  /\ Tasks(S, a) \in SUBSET Task
         /\ \A t \in Tasks(S, a) : t.svc \in S /\ t.act = a
PROOF BY DEF Tasks, TaskFor, Task

LEMMA BeginInv ==
  ASSUME IInv, Begin \/ DropServer
  PROVE  IInv'
PROOF
<1> USE ServiceAssumption, ServerAssumption
<1>1. RegistryTypeOK /\ ServiceTypeOK
  BY DEF IInv, TypeOK
<1>2. ASSUME NEW c \in Conn, NEW noperms \in SUBSET (Svc \ Video), AddConnection(c, noperms)
      PROVE  IInv'
  <2> DEFINE svcs == {s \in services \cup {PrimaryDisplay} :
                        (s \in Video => s = PrimaryDisplay) /\ s \notin noperms}
  <2>1. svcs \in SUBSET Svc
    BY <1>1 DEF RegistryTypeOK
  <2>2. Start("add", c, {PrimaryDisplay}, Tasks(svcs, "on_subscribe"))
    BY <1>2 DEF AddConnection
  <2>3. /\ Tasks(svcs, "on_subscribe") \in SUBSET Task
        /\ \A t \in Tasks(svcs, "on_subscribe") : t.svc \in svcs /\ t.act = "on_subscribe"
    BY <2>1, TasksType DEF Act
  <2>4. displayIdx' \in [Conn -> Video] /\ c \in Conn \ closed
    BY <1>1, <1>2 DEF AddConnection, RegistryTypeOK, Open
  <2> HIDE DEF svcs
  <2>5. \A t \in Tasks(svcs, "on_subscribe") : t.svc \in services \cup {PrimaryDisplay}
    BY <2>3 DEF svcs
  <2> QED BY <2>2, <2>3, <2>4, <2>5, StartInv DEF OpKind, Idle, Joins
<1>3. ASSUME NEW c \in Conn, AddCameraConnection(c)
      PROVE  IInv'
  <2>1. PICK exists \in BOOLEAN :
          LET S == IF exists THEN {PrimaryCamera} ELSE {}
          IN  Start("add", c, S, Tasks(S, "on_subscribe"))
    BY <1>3 DEF AddCameraConnection
  <2>2. PICK S \in SUBSET Svc : Start("add", c, S, Tasks(S, "on_subscribe"))
    <3>1. PrimaryCamera \in Svc
      BY <1>1, <1>3 DEF AddCameraConnection, ViewCamera, RegistryTypeOK
    <3> QED BY <2>1, <3>1
  <2>3. /\ Tasks(S, "on_subscribe") \in SUBSET Task
        /\ \A t \in Tasks(S, "on_subscribe") : t.svc \in S /\ t.act = "on_subscribe"
    BY TasksType DEF Act
  <2>4. displayIdx' \in [Conn -> Video] /\ c \in Conn \ closed
    BY <1>1, <1>3 DEF AddCameraConnection, RegistryTypeOK, Open
  <2> QED BY <2>2, <2>3, <2>4, StartInv DEF OpKind, Idle, Joins
<1>4. ASSUME NEW c \in Conn, RemoveConnection(c)
      PROVE  IInv'
  <2>1. /\ Tasks(services, "on_unsubscribe") \in SUBSET Task
        /\ \A t \in Tasks(services, "on_unsubscribe") : t.svc \in services /\ t.act = "on_unsubscribe"
    BY <1>1, TasksType DEF Act, RegistryTypeOK
  <2>2. displayIdx' \in [Conn -> Video] /\ c \in Conn \ closed
    BY <1>1, <1>4 DEF RemoveConnection, RegistryTypeOK, Open
  <2> QED BY <1>4, <2>1, <2>2, StartInv DEF OpKind, Idle, Joins, RemoveConnection
<1>5. ASSUME NEW c \in Conn, NEW s \in Svc, NEW sub \in BOOLEAN, Subscribe(c, s, sub)
      PROVE  IInv'
  <2> DEFINE T == {TaskFor(s, SubAct(sub))}
  <2>1. T \in SUBSET Task /\ \A t \in T : t.svc \in services /\ t.act \notin Joins
    BY <1>5 DEF TaskFor, Task, Act, SubAct, Joins, Subscribe
  <2>2. displayIdx' \in [Conn -> Video] /\ c \in Conn \ closed /\ Start("subscribe", c, {}, T)
    BY <1>1, <1>5 DEF Subscribe, RegistryTypeOK, Open
  <2> HIDE DEF T
  <2> QED BY <2>1, <2>2, StartInv DEF OpKind, Idle
<1>6. ASSUME NEW c \in Conn, NEW d \in Video, NEW multi_ui \in BOOLEAN,
             SwitchDisplay(c, d, multi_ui)
      PROVE  IInv'
  <2> DEFINE S == {d} \ {PrimaryDisplay, PrimaryCamera}
             gone == IF multi_ui THEN {} ELSE {displayIdx[c]} \cap services
             come == {d} \cap (services \cup S)
             T == Tasks(gone, "unsubscribe") \cup Tasks(come, "subscribe")
  <2>1. S \in SUBSET Svc /\ gone \in SUBSET services /\ come \in SUBSET (services \cup S)
    OBVIOUS
  <2>2. displayIdx' \in [Conn -> Video] /\ c \in Conn \ closed /\ Start("subscribe", c, S, T)
    BY <1>1, <1>6 DEF SwitchDisplay, RegistryTypeOK, Open
  <2> HIDE DEF S, gone, come
  <2>3. T \in SUBSET Task /\ \A t \in T : t.svc \in services \cup S /\ t.act \notin Joins
    BY <1>1, <2>1 DEF RegistryTypeOK, Tasks, TaskFor, Task, Act, Joins
  <2> HIDE DEF T
  <2> QED BY <2>1, <2>2, <2>3, StartInv DEF OpKind, Idle
<1>7. ASSUME NEW c \in Conn, NEW mode \in {"add", "sub", "set"}, NEW D \in SUBSET Video,
             CaptureDisplays(c, mode, D)
      PROVE  IInv'
  <2> DEFINE S == IF mode = "sub" THEN {} ELSE D
             videos == (services \cup S) \cap Video
             come == IF mode = "sub" THEN {} ELSE D
             gone == IF mode = "add" THEN {} ELSE videos \ D
             T == Tasks(come, "subscribe") \cup Tasks(gone, "unsubscribe")
  <2>1. S \in SUBSET Svc /\ gone \in SUBSET (services \cup S) /\ come \in SUBSET (services \cup S)
    OBVIOUS
  <2>2. displayIdx' \in [Conn -> Video] /\ c \in Conn \ closed
    BY <1>1, <1>7 DEF CaptureDisplays, RegistryTypeOK, Open
  <2>3. PICK kind \in {"capture", "captureFollow"} : Start(kind, c, S, T)
    BY <1>7 DEF CaptureDisplays
  <2> HIDE DEF S, gone, come
  <2>4. T \in SUBSET Task /\ \A t \in T : t.svc \in services \cup S /\ t.act \notin Joins
    BY <1>1, <2>1 DEF RegistryTypeOK, Tasks, TaskFor, Task, Act, Joins
  <2> HIDE DEF T
  <2> QED BY <2>1, <2>2, <2>3, <2>4, StartInv DEF OpKind, Idle
<1>8. ASSUME NEW c \in Conn, NEW S, RefreshVideo(c, S)
      PROVE  IInv'
  <2>1. TypeOK'
    BY <1>1, <1>8 DEF RefreshVideo, SetRefresh, TypeOK, ServiceTypeOK, RegistryTypeOK,
       registryVars, members, stream
  <2>2. OpInv' /\ MapsInv' /\ RemoveInv' /\ EncoderInv'
    BY <1>8 DEF RefreshVideo, SetRefresh, IInv, OpInv, MapsInv, RemoveInv, EncoderInv,
       Unmixed, Subscribed, registryVars, members, stream
  <2>3. SubscribesDisjoint' /\ ClosedNotSubscribed' /\ SubscribeHonoured'
    BY <1>8 DEF RefreshVideo, SetRefresh, IInv, SubscribesDisjoint, ClosedNotSubscribed,
       SubscribeHonoured, Subscribed, registryVars, members
  <2> QED BY <2>1, <2>2, <2>3 DEF IInv
<1>9. ASSUME DropServer
      PROVE  IInv'
  <2>1. /\ Tasks(services, "join") \in SUBSET Task
        /\ \A t \in Tasks(services, "join") : t.svc \in services /\ t.act = "join"
    BY <1>1, TasksType DEF Act, RegistryTypeOK
  <2>2. displayIdx' \in [Conn -> Video]
    BY <1>1, <1>9 DEF DropServer, RegistryTypeOK
  <2> QED BY <1>9, <2>1, <2>2, StartInv DEF OpKind, Idle, Joins, DropServer
<1> QED BY <1>2, <1>3, <1>4, <1>5, <1>6, <1>7, <1>8, <1>9 DEF Begin

-----------------------------------------------------------------------------
(* The accesses of an operation.                                            *)

\* What holds of the task an operation is about to do.
LEMMA CurrentTask ==
  ASSUME IInv, NEW t \in todo \cup {cur}, t /= None, Current(t)
  PROVE  /\ t \in Task /\ t.svc \in services /\ t.svc \in Svc
         /\ op \notin Idle
         /\ t.act \notin Joins => op /= "drop" /\ opConn \in Conn \ closed
         /\ op = "remove" => t.act = "on_unsubscribe" /\ cur = None /\ t \in todo
PROOF
<1>1. t \in Task
  BY DEF IInv, TypeOK, RegistryTypeOK
<1>2. op \notin Idle
  BY DEF IInv, OpInv
<1>3. t.svc \in services /\ services \subseteq Svc
  BY DEF IInv, MapsInv, TypeOK, RegistryTypeOK
<1>4. t.act \notin Joins => op /= "drop" /\ opConn \in Conn \ closed
  BY <1>2 DEF IInv, OpInv
<1>5. op = "remove" => t.act = "on_unsubscribe" /\ cur = None /\ t \in todo
  BY DEF IInv, RemoveInv
<1> QED BY <1>1, <1>2, <1>3, <1>4, <1>5

\* The tasks left after a step are among those there were, but for the current
\* one, which may have moved on to its next access.
LEMMA TasksLeft ==
  ASSUME IInv, NEW t \in todo \cup {cur}, t /= None, Current(t),
         \/ Done(t)
         \/ \E a \in Act : Then(t, a) /\ op /= "remove" /\ (a \in Joins <=> t.act \in Joins),
         UNCHANGED <<op, opConn, services, closed>>
  PROVE  /\ todo' \subseteq Task /\ cur' \in Task \cup {None}
         /\ OpInv'
         /\ \A u \in todo' \cup {cur'} : u /= None => u.svc \in services'
PROOF
<1>1. t \in Task /\ t.svc \in services /\ op \notin Idle
  BY CurrentTask
<1>2. todo \subseteq Task /\ cur \in Task \cup {None}
  BY DEF IInv, TypeOK, RegistryTypeOK
<1>3. CASE Done(t)
  BY <1>1, <1>2, <1>3 DEF Done, Rest, IInv, OpInv, MapsInv
<1>4. ASSUME NEW a \in Act, Then(t, a), a \in Joins <=> t.act \in Joins
      PROVE  /\ todo' \subseteq Task /\ cur' \in Task \cup {None}
             /\ OpInv'
             /\ \A u \in todo' \cup {cur'} : u /= None => u.svc \in services'
  <2>1. cur' \in Task /\ cur'.act = a /\ cur'.svc = t.svc /\ todo' \subseteq todo
    BY <1>1, <1>4 DEF Then, Rest, Task
  <2>2. OpInv'
    BY <1>1, <1>4, <2>1 DEF IInv, OpInv
  <2> QED BY <1>1, <1>2, <2>1, <2>2 DEF IInv, MapsInv
<1> QED BY <1>3, <1>4

\* The reads of is_subed and the steps of join change no map.
LEMMA ReadStep ==
  ASSUME IInv, NEW t \in todo \cup {cur}, t /= None, Current(t),
         \/ Done(t)
         \/ \E a \in Act : Then(t, a) /\ (a \in Joins <=> t.act \in Joins),
         UNCHANGED <<services, connections, closed, displayIdx, op, opConn>>,
         UNCHANGED <<members, pc, stream>>, op /= "remove",
         active' \in [Svc -> BOOLEAN], UNCHANGED <<refresh>>,
         counted' \subseteq Svc,
         wanted' \in [Svc -> SUBSET Conn],
         \A s \in Svc : wanted'[s] \subseteq Subscribed(s)
  PROVE  IInv'
PROOF
<1>1. /\ todo' \subseteq Task /\ cur' \in Task \cup {None}
      /\ OpInv'
      /\ \A u \in todo' \cup {cur'} : u /= None => u.svc \in services'
  BY TasksLeft
<1>2. TypeOK'
  BY <1>1 DEF IInv, TypeOK, ServiceTypeOK, RegistryTypeOK, members, stream
<1>3. MapsInv' /\ RemoveInv' /\ EncoderInv'
  BY <1>1 DEF IInv, MapsInv, RemoveInv, EncoderInv, Unmixed, members, stream
<1>4. SubscribesDisjoint' /\ ClosedNotSubscribed' /\ SubscribeHonoured'
  BY DEF IInv, SubscribesDisjoint, ClosedNotSubscribed, SubscribeHonoured, Subscribed, members
<1> QED BY <1>1, <1>2, <1>3, <1>4 DEF IInv

LEMMA SubscribingInv ==
  ASSUME IInv, NEW t \in todo \cup {cur}, t /= None, Subscribing(t)
  PROVE  IInv'
PROOF
<1> USE ServiceAssumption
<1> DEFINE s == t.svc
<1>0. Current(t) /\ t.act = "on_subscribe" /\ OnSubscribe(s, opConn) /\ Want(s) /\ Done(t)
  BY DEF Subscribing
<1>a. UNCHANGED <<services, connections, closed, displayIdx, op, opConn, counted>>
  BY DEF Subscribing
<1>1. t \in Task /\ s \in services /\ s \in Svc /\ opConn \in Conn \ closed /\ op /= "remove"
  BY <1>0, CurrentTask DEF Joins
<1>2. /\ todo' \subseteq Task /\ cur' \in Task \cup {None}
      /\ OpInv'
      /\ \A u \in todo' \cup {cur'} : u /= None => u.svc \in services'
  BY <1>0, <1>a, TasksLeft
<1>3. ServiceTypeOK /\ RegistryTypeOK
  BY DEF IInv, TypeOK
<1> HIDE DEF s
<1>4. TypeOK'
  BY <1>0, <1>a, <1>1, <1>2, <1>3
     DEF TypeOK, ServiceTypeOK, RegistryTypeOK, OnSubscribe, Want, members, stream
<1>5. \A v \in Svc \ {s} : subscribes'[v] = subscribes[v] /\ newSubscribes'[v] = newSubscribes[v]
  BY <1>0, <1>1, <1>3 DEF OnSubscribe, ServiceTypeOK, members
<1>6. /\ subscribes'[s] \cup newSubscribes'[s] = Subscribed(s) \cup {opConn}
      /\ s \in NeedSnapshot => subscribes'[s] = subscribes[s]
      /\ s \notin NeedSnapshot => newSubscribes'[s] = newSubscribes[s]
      /\ subscribes[s] \cap newSubscribes[s] = {} /\ (s \notin NeedSnapshot => newSubscribes[s] = {})
         => subscribes'[s] \cap newSubscribes'[s] = {}
  BY <1>0, <1>1, <1>3 DEF OnSubscribe, ServiceTypeOK, members, Subscribed
<1>7. MapsInv' /\ RemoveInv'
  BY <1>a, <1>1, <1>2, <1>5, <1>6 DEF IInv, MapsInv, RemoveInv
<1>8. EncoderInv'
  BY <1>0, <1>5, <1>6 DEF IInv, EncoderInv, Unmixed, OnSubscribe, stream
<1>9. SubscribesDisjoint'
  BY <1>1, <1>5, <1>6 DEF IInv, SubscribesDisjoint, MapsInv
<1>10. ClosedNotSubscribed'
  BY <1>a, <1>1, <1>5, <1>6 DEF IInv, ClosedNotSubscribed, Subscribed
<1>11. SubscribeHonoured'
  BY <1>0, <1>1, <1>3, <1>5, <1>6 DEF IInv, SubscribeHonoured, Subscribed, Want, RegistryTypeOK
<1> QED BY <1>2, <1>4, <1>7, <1>8, <1>9, <1>10, <1>11 DEF IInv

LEMMA UnsubscribingInv ==
  ASSUME IInv, NEW t \in todo \cup {cur}, t /= None, Unsubscribing(t)
  PROVE  IInv'
PROOF
<1> USE ServiceAssumption
<1> DEFINE s == t.svc
<1>0. Current(t) /\ t.act = "on_unsubscribe" /\ OnUnsubscribe(s, opConn) /\ Unwant(s) /\ Done(t)
  BY DEF Unsubscribing
<1>a. UNCHANGED <<services, connections, closed, displayIdx, op, opConn, counted>>
  BY DEF Unsubscribing
<1>1. /\ t \in Task /\ s \in services /\ s \in Svc /\ opConn \in Conn \ closed
      /\ op = "remove" => cur = None /\ t \in todo
  BY <1>0, CurrentTask DEF Joins
<1>2. /\ todo' \subseteq Task /\ cur' \in Task \cup {None}
      /\ OpInv'
      /\ \A u \in todo' \cup {cur'} : u /= None => u.svc \in services'
  BY <1>0, <1>a, TasksLeft
<1>3. ServiceTypeOK /\ RegistryTypeOK
  BY DEF IInv, TypeOK
<1>b. t = TaskFor(s, "on_unsubscribe")
  BY <1>0, <1>1 DEF Task, TaskFor
<1> HIDE DEF s
<1>4. TypeOK'
  BY <1>0, <1>a, <1>1, <1>2, <1>3
     DEF TypeOK, ServiceTypeOK, RegistryTypeOK, OnUnsubscribe, Unwant
<1>5. \A v \in Svc \ {s} : /\ subscribes'[v] = subscribes[v]
                           /\ newSubscribes'[v] = newSubscribes[v]
                           /\ keyed'[v] = keyed[v]
  BY <1>0, <1>1, <1>3 DEF OnUnsubscribe, ServiceTypeOK
<1>6. /\ subscribes'[s] = subscribes[s] \ {opConn}
      /\ keyed'[s] = keyed[s] \ {opConn}
      /\ newSubscribes'[s] = newSubscribes[s] \ {opConn}
  <2>1. subscribes[s] \cap newSubscribes[s] = {}
    BY <1>1 DEF IInv, SubscribesDisjoint
  <2> QED BY <1>0, <1>1, <1>3, <2>1 DEF OnUnsubscribe, ServiceTypeOK
<1>7. MapsInv'
  BY <1>a, <1>1, <1>2, <1>5, <1>6 DEF IInv, MapsInv
<1>8. RemoveInv'
  <2> SUFFICES ASSUME op = "remove"
               PROVE  /\ cur' = None
                      /\ \A u \in todo' : u.act = "on_unsubscribe"
                      /\ \A v \in services : \/ TaskFor(v, "on_unsubscribe") \in todo'
                                             \/ opConn \notin Subscribed(v)'
    BY <1>a DEF RemoveInv
  <2>1. todo' = todo \ {t} /\ cur' = None
    BY <1>0 DEF Done, Rest
  <2>2. ASSUME NEW v \in services, v /= s
        PROVE  \/ TaskFor(v, "on_unsubscribe") \in todo'
               \/ opConn \notin Subscribed(v)'
    <3>1. v \in Svc \ {s}
      BY <1>3, <2>2 DEF RegistryTypeOK
    <3>2. TaskFor(v, "on_unsubscribe") /= t
      BY <1>b, <2>2 DEF TaskFor
    <3>3. Subscribed(v)' = Subscribed(v)
      BY <1>5, <3>1 DEF Subscribed
    <3> QED BY <1>a, <2>1, <3>2, <3>3 DEF IInv, RemoveInv
  <2>3. opConn \notin Subscribed(s)'
    BY <1>a, <1>6 DEF Subscribed
  <2> QED BY <2>1, <2>2, <2>3 DEF IInv, RemoveInv
<1>9. EncoderInv'
  BY <1>0, <1>5, <1>6 DEF IInv, EncoderInv, Unmixed, OnUnsubscribe
<1>10. SubscribesDisjoint' /\ ClosedNotSubscribed'
  BY <1>a, <1>1, <1>5, <1>6 DEF IInv, SubscribesDisjoint, ClosedNotSubscribed, Subscribed
<1>11. SubscribeHonoured'
  BY <1>0, <1>1, <1>3, <1>5, <1>6 DEF IInv, SubscribeHonoured, Subscribed, Unwant, RegistryTypeOK
<1> QED BY <1>2, <1>4, <1>7, <1>8, <1>9, <1>10, <1>11 DEF IInv

LEMMA TaskInv ==
  ASSUME IInv, TaskStep
  PROVE  IInv'
PROOF
<1>1. PICK t \in todo \cup {cur} :
        t /= None /\ (\/ Subscribing(t) \/ Unsubscribing(t) \/ SubscribeRead(t)
                      \/ UnsubscribeRead(t) \/ CountRead(t) \/ Join(t) \/ Joined(t))
  BY DEF TaskStep
<1>2. CASE Subscribing(t)
  BY <1>1, <1>2, SubscribingInv
<1>3. CASE Unsubscribing(t)
  BY <1>1, <1>3, UnsubscribingInv
<1>4. ServiceTypeOK /\ RegistryTypeOK /\ SubscribeHonoured
  BY DEF IInv, TypeOK
<1>5. CASE SubscribeRead(t)
  <2>1. Current(t) /\ t.act \in {"subscribe", "subscribe2"}
    BY <1>5 DEF SubscribeRead
  <2>2. t.svc \in Svc /\ opConn \in Conn /\ op /= "remove"
    BY <1>1, <2>1, CurrentTask DEF Joins
  <2>3. /\ Done(t) \/ \E a \in Act : Then(t, a) /\ (a \in Joins <=> t.act \in Joins)
        /\ UNCHANGED <<serviceVars, services, connections, closed, displayIdx, op, opConn, counted>>
    BY <1>5, <2>1 DEF SubscribeRead, Act, Joins
  <2>4. wanted' = wanted \/ (Want(t.svc) /\ opConn \in Subscribed(t.svc))
    BY <1>5 DEF SubscribeRead, Subscribed
  <2>5. wanted' \in [Svc -> SUBSET Conn] /\ \A s \in Svc : wanted'[s] \subseteq Subscribed(s)
    BY <1>4, <2>2, <2>4 DEF Want, RegistryTypeOK, SubscribeHonoured
  <2> QED BY <1>1, <1>4, <2>1, <2>2, <2>3, <2>5, ReadStep
      DEF serviceVars, members, stream, ServiceTypeOK, RegistryTypeOK
<1>6. CASE UnsubscribeRead(t)
  <2>1. Current(t) /\ t.act \in {"unsubscribe", "unsubscribe2"}
    BY <1>6 DEF UnsubscribeRead
  <2>2. t.svc \in Svc /\ opConn \in Conn /\ op /= "remove"
    BY <1>1, <2>1, CurrentTask DEF Joins
  <2>3. /\ Done(t) \/ \E a \in Act : Then(t, a) /\ (a \in Joins <=> t.act \in Joins)
        /\ UNCHANGED <<serviceVars, services, connections, closed, displayIdx, op, opConn, counted>>
    BY <1>6, <2>1 DEF UnsubscribeRead, Act, Joins
  <2>4. wanted' = wanted \/ Unwant(t.svc)
    BY <1>6 DEF UnsubscribeRead
  <2>5. wanted' \in [Svc -> SUBSET Conn] /\ \A s \in Svc : wanted'[s] \subseteq Subscribed(s)
    BY <1>4, <2>2, <2>4 DEF Unwant, RegistryTypeOK, SubscribeHonoured
  <2> QED BY <1>1, <1>4, <2>1, <2>2, <2>3, <2>5, ReadStep
      DEF serviceVars, members, stream, ServiceTypeOK, RegistryTypeOK
<1>7. CASE CountRead(t)
  <2>1. Current(t) /\ t.act \in {"count", "count2"}
    BY <1>7 DEF CountRead
  <2>2. t.svc \in Svc /\ op /= "remove"
    BY <1>1, <2>1, CurrentTask DEF Joins
  <2>3. /\ Done(t) \/ \E a \in Act : Then(t, a) /\ (a \in Joins <=> t.act \in Joins)
        /\ UNCHANGED <<serviceVars, services, connections, closed, displayIdx, op, opConn, wanted>>
    BY <1>7, <2>1 DEF CountRead, Act, Joins
  <2>4. counted' \subseteq Svc
    BY <1>4, <1>7, <2>2 DEF CountRead, RegistryTypeOK
  <2> QED BY <1>1, <1>4, <2>1, <2>2, <2>3, <2>4, ReadStep
      DEF serviceVars, members, stream, ServiceTypeOK, RegistryTypeOK, SubscribeHonoured
<1>8. CASE Join(t) \/ Joined(t)
  <2>1. Current(t) /\ t.act \in Joins
    BY <1>8 DEF Join, Joined, Joins
  <2>2. t.svc \in Svc /\ op /= "remove"
    BY <1>1, <2>1, CurrentTask DEF Joins
  <2>3. /\ Done(t) \/ \E a \in Act : Then(t, a) /\ (a \in Joins <=> t.act \in Joins)
        /\ UNCHANGED <<services, connections, closed, displayIdx, op, opConn, counted, wanted>>
        /\ UNCHANGED <<members, pc, stream>> /\ UNCHANGED <<refresh>>
    BY <1>8, <2>1 DEF Join, Joined, Act, Joins, serviceVars, members, stream
  <2>4. active' \in [Svc -> BOOLEAN]
    BY <1>4, <1>8, <2>2 DEF Join, Joined, ServiceTypeOK, serviceVars
  <2> QED BY <1>1, <1>4, <2>1, <2>2, <2>3, <2>4, ReadStep DEF RegistryTypeOK, SubscribeHonoured
<1> QED BY <1>1, <1>2, <1>3, <1>5, <1>6, <1>7, <1>8

-----------------------------------------------------------------------------
(* The end of an operation.                                                 *)

LEMMA FinishInv ==
  ASSUME IInv, Finish
  PROVE  IInv'
PROOF
<1> USE ServiceAssumption, ServerAssumption
<1>1. todo = {} /\ cur = None /\ UNCHANGED <<serviceVars, services, displayIdx, cur, wanted>>
  BY DEF Finish
<1>2. ServiceTypeOK /\ RegistryTypeOK /\ OpInv
  BY DEF IInv, TypeOK
<1>3. ServiceTypeOK' /\ EncoderInv' /\ SubscribesDisjoint' /\ SubscribeHonoured'
  BY <1>1 DEF IInv, TypeOK, ServiceTypeOK, EncoderInv, Unmixed, SubscribesDisjoint,
     SubscribeHonoured, Subscribed, serviceVars
<1>4. /\ \A t \in todo' : /\ t \in Task /\ t.svc \in services
                          /\ t.act \in {"count", "subscribe", "unsubscribe"}
      /\ todo' /= {} => op' \in {"count", "countFollow", "subscribe"}
  BY <1>1, <1>2 DEF Finish, FinishAdd, FinishRemove, FinishSubscribe, FinishCapture,
     FinishCount, FinishDrop, Unlock, Tasks, TaskFor, Task, Act, SubAct, RegistryTypeOK
<1>5. /\ op' \in OpKind /\ op' \notin {"remove", "drop"}
      /\ op' \notin Idle => opConn' = opConn /\ closed' = closed /\ op \notin Idle \cup {"drop"}
      /\ opConn' \in Conn \cup {None}
      /\ connections' \subseteq Conn /\ counted' \subseteq Svc
      /\ closed' = closed \/ (op = "remove" /\ closed' = closed \cup {opConn})
  BY <1>2 DEF Finish, FinishAdd, FinishRemove, FinishSubscribe, FinishCapture,
     FinishCount, FinishDrop, Unlock, OpKind, Idle, OpInv, RegistryTypeOK
<1>6. op = "remove" => opConn \in Conn /\ \A s \in services : opConn \notin Subscribed(s)
  BY <1>1, <1>2 DEF IInv, RemoveInv, OpInv, Idle
<1>7. RegistryTypeOK'
  BY <1>1, <1>2, <1>4, <1>5, <1>6 DEF RegistryTypeOK
<1>8. OpInv'
  <2>1. op' \in Idle => todo' = {} /\ cur' = None
    BY <1>1, <1>4 DEF Idle
  <2>2. op' \notin Idle => opConn' \in Conn \ closed'
    BY <1>2, <1>5 DEF OpInv
  <2>3. \A t \in todo' \cup {cur'} : t /= None => t.act \notin Joins
    BY <1>1, <1>4 DEF Joins
  <2> QED BY <1>5, <2>1, <2>2, <2>3 DEF OpInv
<1>9. MapsInv' /\ RemoveInv'
  BY <1>1, <1>4, <1>5 DEF IInv, MapsInv, RemoveInv, serviceVars
<1>10. ClosedNotSubscribed'
  <2>1. \A s \in Svc : op = "remove" => opConn \notin Subscribed(s)
    BY <1>6 DEF IInv, MapsInv, Subscribed
  <2>2. \A s \in Svc : Subscribed(s)' = Subscribed(s)
    BY <1>1 DEF Subscribed, serviceVars
  <2> QED BY <1>5, <2>1, <2>2 DEF IInv, ClosedNotSubscribed
<1> QED BY <1>3, <1>7, <1>8, <1>9, <1>10 DEF IInv, TypeOK

-----------------------------------------------------------------------------
(* The theorems.                                                            *)

LEMMA InitInv == ASSUME Init PROVE IInv
PROOF
<1> USE ServiceAssumption, ServerAssumption DEF Init, ServiceInit
<1>1. TypeOK
  BY DEF TypeOK, ServiceTypeOK, RegistryTypeOK, ThreadState, OpKind
<1>2. OpInv /\ MapsInv /\ RemoveInv /\ EncoderInv
  BY DEF OpInv, MapsInv, RemoveInv, EncoderInv, Idle
<1>3. SubscribesDisjoint /\ ClosedNotSubscribed /\ SubscribeHonoured
  BY DEF SubscribesDisjoint, ClosedNotSubscribed, SubscribeHonoured, Subscribed
<1> QED BY <1>1, <1>2, <1>3 DEF IInv

LEMMA NextInv == IInv /\ [Next]_vars => IInv'
PROOF
<1> SUFFICES ASSUME IInv, [Next]_vars PROVE IInv'
  OBVIOUS
<1>1. CASE Begin \/ DropServer
  BY <1>1, BeginInv
<1>2. CASE TaskStep
  BY <1>2, TaskInv
<1>3. CASE Finish
  BY <1>3, FinishInv
<1>4. CASE Threads
  BY <1>4, ThreadInv DEF Threads
<1>5. CASE UNCHANGED vars
  BY <1>5 DEF vars, serviceVars, registryVars, IInv, TypeOK, ServiceTypeOK, RegistryTypeOK,
     OpInv, MapsInv, RemoveInv, EncoderInv, Unmixed, SubscribesDisjoint,
     ClosedNotSubscribed, SubscribeHonoured, Subscribed
<1> QED BY <1>1, <1>2, <1>3, <1>4, <1>5 DEF Next, Ended

THEOREM Invariance == Spec => []IInv
PROOF
<1>1. Init => IInv
  BY InitInv
<1> QED BY <1>1, NextInv, PTL DEF Spec

\* The state of the services and of the Server stays well formed.
THEOREM TypeCorrect == Spec => []TypeOK
PROOF
<1>1. IInv => TypeOK
  BY DEF IInv
<1> QED BY <1>1, Invariance, PTL

\* on_subscribe, on_unsubscribe and the swap never leave a connection in both
\* maps of a service.
THEOREM Disjointness == Spec => []SubscribesDisjoint
PROOF
<1>1. IInv => SubscribesDisjoint
  BY DEF IInv
<1> QED BY <1>1, Invariance, PTL

\* After remove_connection no service holds the connection, however the
\* threads interleave with it.
THEOREM NoLeak == Spec => []ClosedNotSubscribed
PROOF
<1>1. IInv => ClosedNotSubscribed
  BY DEF IInv
<1> QED BY <1>1, Invariance, PTL

\* All those a frame is sent to have followed its encoder from the start, or
\* none has: the new and the old subscribers are never mixed.
THEOREM NoMixedAudience == Spec => []SharedEncoder
PROOF
<1>1. IInv => SharedEncoder
  BY DEF IInv, EncoderInv, Unmixed, SharedEncoder
<1> QED BY <1>1, Invariance, PTL

\* Server::subscribe(true) takes effect and stays in effect.
THEOREM SubscriptionStays == Spec => []SubscribeHonoured
PROOF
<1>1. IInv => SubscribeHonoured
  BY DEF IInv
<1> QED BY <1>1, Invariance, PTL

-----------------------------------------------------------------------------
(* The registry implements Subscriptions.                                   *)

\* No connection holds the write lock when no operation of one is under way.
HolderInv == op \in {"none", "drop", "dropped"} => opConn = None

\* Only the beginning and the end of an operation change who holds the lock and who is
\* closed.
LEMMA HolderKept ==
  ASSUME TaskStep \/ Threads \/ UNCHANGED vars
  PROVE  UNCHANGED <<op, opConn, closed>>
PROOF
<1>1. CASE TaskStep
  BY <1>1 DEF TaskStep, Subscribing, Unsubscribing, SubscribeRead, UnsubscribeRead, CountRead, Join, Joined
<1>2. CASE Threads \/ UNCHANGED vars
  BY <1>2, Zenon DEF Threads, vars, registryVars
<1> QED BY <1>1, <1>2

\* An operation begins: a connection that is not closed takes the lock, or the Server is
\* dropped, and nobody enters or leaves.
LEMMA BeginHolder ==
  ASSUME Begin \/ DropServer
  PROVE  /\ op = "none" /\ UNCHANGED <<members, closed>>
         /\ \/ opConn' \in Conn \ closed /\ op' \notin {"none", "drop", "dropped"}
            \/ UNCHANGED <<op, opConn>>
            \/ op' = "drop" /\ opConn' = None
PROOF
<1>1. ASSUME NEW k \in OpKind \ {"none", "dropped"}, NEW c, NEW S, NEW T, Start(k, c, S, T)
      PROVE  op = "none" /\ op' = k /\ opConn' = c /\ UNCHANGED <<members, closed>>
  BY <1>1, Zenon DEF Start, serviceVars, members
<1>2. CASE DropServer
  BY <1>1, <1>2 DEF DropServer, OpKind
<1>3. ASSUME NEW c \in Conn, AddCameraConnection(c) \/ RemoveConnection(c)
      PROVE  op = "none" /\ UNCHANGED <<members, closed>> /\ opConn' \in Conn \ closed
             /\ op' \notin {"none", "drop", "dropped"}
  BY <1>1, <1>3 DEF AddCameraConnection, RemoveConnection, Open, OpKind
<1>4. ASSUME NEW c \in Conn, NEW noperms, AddConnection(c, noperms)
      PROVE  op = "none" /\ UNCHANGED <<members, closed>> /\ opConn' \in Conn \ closed
             /\ op' \notin {"none", "drop", "dropped"}
  BY <1>1, <1>4 DEF AddConnection, Open, OpKind
<1>5. ASSUME NEW c \in Conn, NEW s, NEW b, Subscribe(c, s, b) \/ SwitchDisplay(c, s, b)
      PROVE  op = "none" /\ UNCHANGED <<members, closed>> /\ opConn' \in Conn \ closed
             /\ op' \notin {"none", "drop", "dropped"}
  BY <1>1, <1>5 DEF Subscribe, SwitchDisplay, Open, OpKind
<1>6. ASSUME NEW c \in Conn, NEW m, NEW D, CaptureDisplays(c, m, D)
      PROVE  op = "none" /\ UNCHANGED <<members, closed>> /\ opConn' \in Conn \ closed
             /\ op' \notin {"none", "drop", "dropped"}
  BY <1>1, <1>6 DEF CaptureDisplays, Open, OpKind
<1>7. ASSUME NEW c \in Conn, NEW S, RefreshVideo(c, S)
      PROVE  op = "none" /\ UNCHANGED <<members, closed, op, opConn>>
  BY <1>7, Zenon DEF RefreshVideo, SetRefresh, registryVars
<1> QED BY <1>2, <1>3, <1>4, <1>5, <1>6, <1>7 DEF Begin

LEMMA HolderStep == IInv /\ HolderInv /\ [Next]_vars => HolderInv'
PROOF
<1> SUFFICES ASSUME IInv, HolderInv, [Next]_vars PROVE HolderInv'
  OBVIOUS
<1>1. CASE Begin \/ DropServer
  BY <1>1, BeginHolder DEF HolderInv
<1>2. CASE TaskStep \/ Threads \/ UNCHANGED vars
  BY <1>2, HolderKept DEF HolderInv
<1>3. CASE Finish
  BY <1>3 DEF Finish, FinishAdd, FinishRemove, FinishSubscribe, FinishCapture, FinishCount, FinishDrop,
     Unlock, HolderInv
<1> QED BY <1>1, <1>2, <1>3 DEF Next, Ended

\* The threads neither let a connection in nor out.
LEMMA ThreadsKeepMembers ==
  ASSUME IInv, Threads
  PROVE  \A v \in Svc : Subscribed(v)' = Subscribed(v)
PROOF
<1>1. PICK s \in services : ThreadStep(s)
  BY DEF Threads
<1>2. s \in Svc /\ ServiceTypeOK
  BY DEF IInv, TypeOK, RegistryTypeOK
<1>3. CASE UNCHANGED members
  BY <1>3 DEF members, Subscribed
<1>4. CASE SwapNewSubscribes(s)
  BY <1>2, <1>4 DEF SwapNewSubscribes, ServiceTypeOK, Subscribed
<1>5. UNCHANGED members \/ SwapNewSubscribes(s)
  BY <1>1 DEF ThreadStep, ThreadExit, EnterRun, SetupFails, SetupDone, LeaveRun, Switch, Broadcast,
     BroadcastSnapshot, BroadcastCallback, BroadcastDrop, FrameCaptured, FrameSnapshot, FrameCallback,
     FrameDrop, EncodeAndSend, EncodeFails
<1> QED BY <1>3, <1>4, <1>5

Members == [s \in Svc |-> Subscribed(s)]

\* The two accesses that change a map of a service.
LEMMA TaskMembers ==
  ASSUME IInv, TaskStep
  PROVE  \/ UNCHANGED Members
         \/ opConn /= None /\ \E s \in Svc : \/ Members' = [Members EXCEPT ![s] = @ \cup {opConn}]
                                             \/ Members' = [Members EXCEPT ![s] = @ \ {opConn}]
PROOF
<1> USE ServiceAssumption, ServerAssumption
<1>1. PICK t \in todo \cup {cur} :
        t /= None /\ (\/ Subscribing(t) \/ Unsubscribing(t) \/ SubscribeRead(t)
                      \/ UnsubscribeRead(t) \/ CountRead(t) \/ Join(t) \/ Joined(t))
  BY DEF TaskStep
<1>2. ServiceTypeOK /\ SubscribesDisjoint
  BY DEF IInv, TypeOK
<1>3. CASE Subscribing(t)
  <2> DEFINE s == t.svc
  <2>1. OnSubscribe(s, opConn) /\ s \in Svc /\ opConn \in Conn
    BY <1>1, <1>3, CurrentTask DEF Subscribing, Joins
  <2> HIDE DEF s
  <2>2. \A v \in Svc : Subscribed(v)' = IF v = s THEN Subscribed(v) \cup {opConn} ELSE Subscribed(v)
    BY <1>2, <2>1 DEF OnSubscribe, ServiceTypeOK, members, Subscribed
  <2> QED BY <2>1, <2>2 DEF Members
<1>4. CASE Unsubscribing(t)
  <2> DEFINE s == t.svc
  <2>1. OnUnsubscribe(s, opConn) /\ s \in Svc /\ opConn \in Conn
    BY <1>1, <1>4, CurrentTask DEF Unsubscribing, Joins
  <2> HIDE DEF s
  <2>2. \A v \in Svc : Subscribed(v)' = IF v = s THEN Subscribed(v) \ {opConn} ELSE Subscribed(v)
    BY <1>2, <2>1 DEF OnUnsubscribe, ServiceTypeOK, SubscribesDisjoint, Subscribed
  <2> QED BY <2>1, <2>2 DEF Members
<1>5. CASE SubscribeRead(t) \/ UnsubscribeRead(t) \/ CountRead(t) \/ Join(t) \/ Joined(t)
  <2>1. UNCHANGED <<subscribes, newSubscribes>>
    BY <1>5 DEF SubscribeRead, UnsubscribeRead, CountRead, Join, Joined, serviceVars, members
  <2> QED BY <2>1 DEF Members, Subscribed
<1> QED BY <1>1, <1>3, <1>4, <1>5

\* Every step is a step of Subscriptions or shows nothing of itself there.
LEMMA AbstractStep == IInv /\ HolderInv /\ [Next]_vars => [Abstract!Next]_(Abstract!vars)
PROOF
<1> SUFFICES ASSUME IInv, HolderInv, [Next]_vars
             PROVE  Abstract!Next \/ UNCHANGED <<Members, closed, opConn>>
  BY DEF Abstract!vars, Members
<1> USE ServiceAssumption, ServerAssumption
<1>1. CASE Begin \/ DropServer
  <2>1. UNCHANGED Members
    BY <1>1, BeginHolder DEF members, Members, Subscribed
  <2>2. CASE opConn' \in Conn \ closed /\ UNCHANGED closed
    BY <1>1, <2>1, <2>2, BeginHolder DEF HolderInv, Abstract!Next, Abstract!Lock, Members
  <2>3. CASE opConn' = None /\ UNCHANGED closed
    BY <1>1, <2>1, <2>3, BeginHolder DEF HolderInv
  <2> QED BY <1>1, <2>1, <2>2, <2>3, BeginHolder DEF HolderInv
<1>2. CASE TaskStep
  <2>1. UNCHANGED <<opConn, closed>>
    BY <1>2, HolderKept
  <2> QED BY <1>2, <2>1, TaskMembers DEF Abstract!Next, Abstract!Enter, Abstract!Leave, Members
<1>3. CASE Finish
  <2>1. UNCHANGED Members /\ todo = {} /\ cur = None
    BY <1>3 DEF Finish, Members, Subscribed, serviceVars
  <2>2. op \notin Idle \cup {"drop"} => opConn /= None
    BY DEF IInv, OpInv
  <2>3. CASE op = "remove"
    <3>1. \A s \in Svc : opConn \notin Members[s]
      BY <2>1, <2>3 DEF IInv, RemoveInv, MapsInv, Members, Subscribed
    <3>2. closed' = closed \cup {opConn} /\ opConn' = None /\ opConn /= None
      BY <1>3, <2>2, <2>3 DEF Finish, FinishAdd, FinishRemove, FinishSubscribe, FinishCapture, FinishCount,
         FinishDrop, Unlock, Idle
    <3> QED BY <2>1, <3>1, <3>2 DEF Abstract!Next, Abstract!Close, Members
  <2>4. CASE op /= "remove"
    <3>1. closed' = closed /\ (opConn' = opConn \/ (opConn' = None /\ opConn /= None))
      BY <1>3, <2>2, <2>4 DEF Finish, FinishAdd, FinishRemove, FinishSubscribe, FinishCapture, FinishCount,
         FinishDrop, Unlock, Idle, HolderInv
    <3> QED BY <2>1, <3>1 DEF Abstract!Next, Abstract!Unlock, Members
  <2> QED BY <2>3, <2>4
<1>4. CASE Threads
  <2>1. UNCHANGED Members
    BY <1>4, ThreadsKeepMembers DEF Members
  <2> QED BY <1>4, <2>1, HolderKept
<1>5. CASE UNCHANGED vars
  BY <1>5 DEF vars, serviceVars, registryVars, Members, Subscribed
<1> QED BY <1>1, <1>2, <1>3, <1>4, <1>5 DEF Next, Ended

\* The Server, the services and their threads implement the abstract registry: a
\* connection enters and leaves a service only by its own operation under the write lock,
\* and ends only when no service serves it.
THEOREM RegistryImplemented == Spec => RegistryRefined
PROOF
<1>1. Init => Abstract!Init /\ HolderInv
  BY DEF Init, ServiceInit, Subscribed, Abstract!Init, HolderInv
<1> QED BY <1>1, HolderStep, AbstractStep, Invariance, PTL DEF Spec, RegistryRefined, Abstract!Spec
=============================================================================
