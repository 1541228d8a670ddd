------------------------------- MODULE Server -------------------------------
(***************************************************************************)
(* The Server of src/client/upstream/src/server.rs: the registry of the    *)
(* connections and the services, and the operations a connection's task    *)
(* runs on it while it holds the Server's write lock.                      *)
(*                                                                         *)
(* An operation walks over services (a HashMap, so in any order) and locks *)
(* each one for a single read or write; the services' threads do not take  *)
(* the Server's lock, so they run between any two of these accesses.  The  *)
(* operation in progress is a set of tasks, each task a service and the    *)
(* access that comes next.                                                 *)
(***************************************************************************)
EXTENDS Service, Naturals

CONSTANTS
  Camera,          \* the video services whose source is a camera
  PrimaryDisplay,  \* the video service of the primary display
  PrimaryCamera,   \* the video service of the primary camera (same index),
                   \* or None on a machine without cameras
  WindowFocus,     \* the service NAME_WINDOW_FOCUS
  None             \* no connection, no task

ASSUME ServerAssumption ==
  /\ Camera \subseteq Video
  /\ PrimaryDisplay \in Video \ Camera
  /\ PrimaryCamera \in Camera \/ (PrimaryCamera = None /\ Camera = {})
  /\ WindowFocus \in Svc \ NeedSnapshot
  /\ None \notin Conn

VARIABLES
  services,     \* SUBSET Svc: Server.services
  connections,  \* SUBSET Conn: Server.connections
  closed,       \* SUBSET Conn: connections whose task has ended
  displayIdx,   \* [Conn -> Video]: Connection.video_source and display_idx
  op,           \* the kind of operation holding the write lock, or "none"
  opConn,       \* the connection it is for
  todo,         \* SUBSET Task: the services still to visit
  cur,          \* the task whose two reads or whose write are under way
  counted,      \* SUBSET Svc: found subscribed by get_subbed_displays_count
  wanted        \* [Svc -> SUBSET Conn]: the last request was to subscribe

registryVars == <<services, connections, closed, displayIdx,
                  op, opConn, todo, cur, counted, wanted>>
vars == <<serviceVars, registryVars>>

OpKind == {"none", "add", "remove", "subscribe", "capture", "captureFollow",
           "count", "countFollow", "drop", "dropped"}

\* subscribe / unsubscribe / count start with the first read of is_subed, the
\* acts ending in 2 with its second read.
Act == {"on_subscribe", "on_unsubscribe", "subscribe", "subscribe2",
        "unsubscribe", "unsubscribe2", "count", "count2", "join", "joining"}
Task == [svc : Svc, act : Act]
TaskFor(s, a) == [svc |-> s, act |-> a]
Tasks(S, a) == {TaskFor(s, a) : s \in S}

RegistryTypeOK ==
  /\ services \subseteq Svc
  /\ connections \subseteq Conn
  /\ closed \subseteq Conn
  /\ displayIdx \in [Conn -> Video]
  /\ op \in OpKind
  /\ opConn \in Conn \cup {None}
  /\ todo \subseteq Task
  /\ cur \in Task \cup {None}
  /\ counted \subseteq Svc
  /\ wanted \in [Svc -> SUBSET Conn]

TypeOK == ServiceTypeOK /\ RegistryTypeOK

\* server::new adds every service but the video services.  A connection shows
\* monitors or cameras, as its login request says.
Init ==
  /\ ServiceInit
  /\ services = Svc \ Video
  /\ connections = {} /\ closed = {}
  /\ displayIdx \in [Conn -> {PrimaryDisplay} \cup (Camera \cap {PrimaryCamera})]
  /\ op = "none" /\ opConn = None
  /\ todo = {} /\ cur = None /\ counted = {}
  /\ wanted = [s \in Svc |-> {}]

-----------------------------------------------------------------------------
(* The operations: each takes the write lock and leaves its tasks.          *)

Start(kind, c, S, tasks) ==
  /\ op = "none"
  /\ op' = kind /\ opConn' = c
  /\ services' = services \cup S
  /\ todo' = tasks
  /\ UNCHANGED <<serviceVars, connections, closed, cur, counted, wanted>>

Open(c) == c \notin closed
ViewCamera(c) == displayIdx[c] \in Camera
VideoSource(c) == IF ViewCamera(c) THEN Camera ELSE Video \ Camera

\* try_sub_monitor_services: add the primary video service, subscribe to all
\* services but the other displays and those there is no permission for.
AddConnection(c, noperms) ==
  /\ Open(c) /\ c \notin connections /\ ~ViewCamera(c)
  /\ LET svcs == services \cup {PrimaryDisplay}
     IN  Start("add", c, {PrimaryDisplay},
               Tasks({s \in svcs : /\ s \in Video => s = PrimaryDisplay
                                   /\ s \notin noperms}, "on_subscribe"))
  /\ UNCHANGED displayIdx

\* try_sub_camera_displays: only the primary camera, if there is one.
AddCameraConnection(c) ==
  /\ Open(c) /\ c \notin connections /\ ViewCamera(c)
  /\ \E exists \in BOOLEAN :
       LET S == IF exists THEN {PrimaryCamera} ELSE {}
       IN  Start("add", c, S, Tasks(S, "on_subscribe"))
  /\ UNCHANGED displayIdx

\* A mistake: remove_connection goes through subscribe(name, conn, false).
RemoveConnection_IfSubed(c) ==
  /\ Open(c)
  /\ Start("remove", c, {}, Tasks(services, "unsubscribe"))
  /\ UNCHANGED displayIdx

\* The end of the connection's task: remove_connection.
RemoveConnection(c) ==
  /\ Open(c)
  /\ Start("remove", c, {}, Tasks(services, "on_unsubscribe"))
  /\ UNCHANGED displayIdx

\* Server::subscribe(name, conn, sub), as options and permissions change.
SubAct(sub) == IF sub THEN "subscribe" ELSE "unsubscribe"

Subscribe(c, s, sub) ==
  /\ Open(c) /\ s \in services \ Video
  /\ Start("subscribe", c, {}, {TaskFor(s, SubAct(sub))})
  /\ UNCHANGED displayIdx

\* Connection::switch_display_to; an old client (no multi_ui) leaves the
\* display it had.
SwitchDisplay(c, new, multi_ui) ==
  /\ Open(c) /\ displayIdx[c] /= new /\ new \in VideoSource(c)
  /\ LET S == {new} \ {PrimaryDisplay, PrimaryCamera}
         gone == IF multi_ui THEN {} ELSE {displayIdx[c]} \cap services
         come == {new} \cap (services \cup S)
     IN  Start("subscribe", c, S, Tasks(gone, "unsubscribe") \cup Tasks(come, "subscribe"))
  /\ displayIdx' = [displayIdx EXCEPT ![c] = new]

\* Connection::capture_displays with `add`, `sub` or `set` not empty: the
\* displays named are subscribed to by add and set, the displays not named
\* are left by sub and set.
CaptureDisplays(c, mode, D) ==
  /\ Open(c) /\ D \subseteq VideoSource(c)
  /\ mode \in {"add", "sub"} => D /= {}
  /\ LET S == IF mode = "sub" THEN {} ELSE D
         videos == (services \cup S) \cap Video
         come == IF mode = "sub" THEN {} ELSE D
         gone == IF mode = "add" THEN {} ELSE videos \ D
     IN  \E follow \in BOOLEAN :
           Start(IF follow THEN "captureFollow" ELSE "capture", c, S,
                 Tasks(come, "subscribe") \cup Tasks(gone, "unsubscribe"))
  /\ UNCHANGED displayIdx

\* refresh_video_display, for one display or all of them, needs only the read
\* lock.
RefreshVideo(c, S) ==
  /\ op = "none" /\ Open(c)
  /\ SetRefresh(S \cap services)
  /\ UNCHANGED registryVars

\* Drop of Server joins the services one after the other.
DropServer ==
  /\ Start("drop", None, {}, Tasks(services, "join"))
  /\ UNCHANGED displayIdx

-----------------------------------------------------------------------------
(* The accesses to one service.                                             *)

Current(t) == cur = t \/ (cur = None /\ t \in todo)
Rest(t) == todo' = todo \ {t}
Done(t) == Rest(t) /\ cur' = None
Then(t, act) == Rest(t) /\ cur' = [t EXCEPT !.act = act]

Want(s) == wanted' = [wanted EXCEPT ![s] = @ \cup {opConn}]
Unwant(s) == wanted' = [wanted EXCEPT ![s] = @ \ {opConn}]

Subscribing(t) ==
  /\ Current(t) /\ t.act = "on_subscribe"
  /\ OnSubscribe(t.svc, opConn)
  /\ Want(t.svc) /\ Done(t)
  /\ UNCHANGED <<services, connections, closed, displayIdx, op, opConn, counted>>

Unsubscribing(t) ==
  /\ Current(t) /\ t.act = "on_unsubscribe"
  /\ OnUnsubscribe(t.svc, opConn)
  /\ Unwant(t.svc) /\ Done(t)
  /\ UNCHANGED <<services, connections, closed, displayIdx, op, opConn, counted>>

\* is_subed reads subscribes, and, if that says no, new_subscribes, under a
\* second read lock.  Server::subscribe returns when the answer is what is
\* asked for.
SubscribeRead(t) ==
  /\ Current(t) /\ t.act \in {"subscribe", "subscribe2"}
  /\ LET s == t.svc
         found == IF t.act = "subscribe" THEN opConn \in subscribes[s]
                                         ELSE opConn \in newSubscribes[s]
     IN  \/ found /\ Done(t) /\ Want(s)
         \/ ~found /\ t.act = "subscribe" /\ Then(t, "subscribe2") /\ UNCHANGED wanted
         \/ ~found /\ t.act = "subscribe2" /\ Then(t, "on_subscribe") /\ UNCHANGED wanted
  /\ UNCHANGED <<serviceVars, services, connections, closed, displayIdx, op, opConn, counted>>

UnsubscribeRead(t) ==
  /\ Current(t) /\ t.act \in {"unsubscribe", "unsubscribe2"}
  /\ LET s == t.svc
         found == IF t.act = "unsubscribe" THEN opConn \in subscribes[s]
                                           ELSE opConn \in newSubscribes[s]
     IN  \/ found /\ Then(t, "on_unsubscribe") /\ UNCHANGED wanted
         \/ ~found /\ t.act = "unsubscribe" /\ Then(t, "unsubscribe2") /\ UNCHANGED wanted
         \/ ~found /\ t.act = "unsubscribe2" /\ Done(t) /\ Unwant(s)
  /\ UNCHANGED <<serviceVars, services, connections, closed, displayIdx, op, opConn, counted>>

\* get_subbed_displays_count.
CountRead(t) ==
  /\ Current(t) /\ t.act \in {"count", "count2"}
  /\ LET s == t.svc
         found == IF t.act = "count" THEN opConn \in subscribes[s]
                                     ELSE opConn \in newSubscribes[s]
     IN  \/ found /\ Done(t) /\ counted' = counted \cup {s}
         \/ ~found /\ t.act = "count" /\ Then(t, "count2") /\ UNCHANGED counted
         \/ ~found /\ t.act = "count2" /\ Done(t) /\ UNCHANGED counted
  /\ UNCHANGED <<serviceVars, services, connections, closed, displayIdx, op, opConn, wanted>>

\* Service::join clears `active`, then waits for the thread.
Join(t) ==
  /\ Current(t) /\ t.act = "join"
  /\ active' = [active EXCEPT ![t.svc] = FALSE]
  /\ Then(t, "joining")
  /\ UNCHANGED <<members, refresh, pc, stream>>
  /\ UNCHANGED <<services, connections, closed, displayIdx, op, opConn, counted, wanted>>

Joined(t) ==
  /\ Current(t) /\ t.act = "joining" /\ pc[t.svc] = "exit"
  /\ Done(t)
  /\ UNCHANGED <<serviceVars, services, connections, closed, displayIdx, op, opConn, counted, wanted>>

-----------------------------------------------------------------------------
(* The end of an operation, where the write lock is released.               *)

Unlock(kind) == op' = kind /\ opConn' = None

\* A mistake: the connection is registered after the operation is over.
FinishAdd_Late ==
  /\ op = "add" /\ Unlock("none")
  /\ connections' = connections \cup {opConn'}
  /\ UNCHANGED <<closed, todo, counted>>

FinishAdd ==
  /\ op = "add" /\ Unlock("none")
  /\ connections' = connections \cup {opConn}
  /\ UNCHANGED <<closed, todo, counted>>

FinishRemove ==
  /\ op = "remove" /\ Unlock("none")
  /\ connections' = connections \ {opConn}
  /\ closed' = closed \cup {opConn}
  /\ UNCHANGED <<todo, counted>>

FinishSubscribe ==
  /\ op = "subscribe" /\ Unlock("none")
  /\ UNCHANGED <<connections, closed, todo, counted>>

\* Connection::capture_displays goes on to count the displays it captures.
FinishCapture ==
  /\ op \in {"capture", "captureFollow"}
  /\ op' = IF op = "capture" THEN "count" ELSE "countFollow"
  /\ todo' = Tasks(services \cap Video, "count")
  /\ counted' = {}
  /\ UNCHANGED <<opConn, connections, closed>>

\* multi_ui_session = count > 1; who follows the remote window is told which
\* window has the focus only while it shows a single display.
FinishCount ==
  /\ op \in {"count", "countFollow"}
  /\ counted' = {}
  /\ IF op = "count"
     THEN Unlock("none") /\ UNCHANGED todo
     ELSE /\ op' = "subscribe" /\ UNCHANGED opConn
          /\ todo' = {TaskFor(s, SubAct(Cardinality(counted) <= 1))
                        : s \in services \cap {WindowFocus}}
  /\ UNCHANGED <<connections, closed>>

FinishDrop ==
  /\ op = "drop" /\ Unlock("dropped")
  /\ UNCHANGED <<connections, closed, todo, counted>>

Finish ==
  /\ todo = {} /\ cur = None
  /\ \/ FinishAdd \/ FinishRemove \/ FinishSubscribe
     \/ FinishCapture \/ FinishCount \/ FinishDrop
  /\ UNCHANGED <<serviceVars, services, displayIdx, cur, wanted>>

\* The process ends with every thread joined.
Ended == op = "dropped" /\ (\A s \in services : pc[s] = "exit") /\ UNCHANGED vars

-----------------------------------------------------------------------------
Begin ==
  \E c \in Conn :
    \/ \E noperms \in SUBSET (Svc \ Video) : AddConnection(c, noperms)
    \/ AddCameraConnection(c)
    \/ RemoveConnection(c)
    \/ \E s \in Svc, sub \in BOOLEAN : Subscribe(c, s, sub)
    \/ \E d \in Video, multi_ui \in BOOLEAN : SwitchDisplay(c, d, multi_ui)
    \/ \E mode \in {"add", "sub", "set"}, D \in SUBSET Video : CaptureDisplays(c, mode, D)
    \/ \E S \in {Video} \cup {{v} : v \in Video} : RefreshVideo(c, S)

TaskStep ==
  \E t \in todo \cup {cur} :
    t /= None /\ (\/ Subscribing(t) \/ Unsubscribing(t) \/ SubscribeRead(t)
                  \/ UnsubscribeRead(t) \/ CountRead(t) \/ Join(t) \/ Joined(t))

Threads == \E s \in services : ThreadStep(s) /\ UNCHANGED registryVars

Next == Begin \/ DropServer \/ TaskStep \/ Finish \/ Threads \/ Ended

Spec == Init /\ [][Next]_vars

\* Every thread that can run goes on running, and so does the connection task
\* that holds the lock; the capturer does not fail for ever, and a display that
\* is watched changes again and again, so that frames come.
Fairness ==
  /\ WF_vars(TaskStep) /\ WF_vars(Finish)
  /\ \A s \in Svc : /\ WF_vars(s \in services /\ ThreadStep(s) /\ UNCHANGED registryVars)
                    /\ SF_vars(SetupDone(s) /\ UNCHANGED registryVars)
                    /\ SF_vars(FrameCaptured(s) /\ UNCHANGED registryVars)

FairSpec == Spec /\ Fairness

-----------------------------------------------------------------------------
(* Properties.                                                              *)

\* A connection is never in both maps of a service.  on_unsubscribe takes it
\* out of one of them only, so otherwise it would stay subscribed.
SubscribesDisjoint == \A s \in Svc : subscribes[s] \cap newSubscribes[s] = {}

\* Once the task of a connection has ended no service holds it, whatever the
\* services' threads were doing when remove_connection went over them.
ClosedNotSubscribed == \A s \in Svc : Subscribed(s) \cap closed = {}

\* The subscribers a frame is sent to share the encoder from its first frame
\* on, or none of them does: handle_one_frame switches to a new encoder when
\* somebody joins those who already decode this one.
SharedEncoder ==
  \A s \in Video : pc[s] = "encode" =>
    \/ subscribes[s] \cap keyed[s] = {}
    \/ subscribes[s] \subseteq keyed[s]

\* Who asked to be subscribed is: no thread's step and no other connection's
\* operation takes it out.
SubscribeHonoured == \A s \in Svc : wanted[s] \subseteq Subscribed(s)

\* A new subscriber gets a switch: it is never sent a difference frame of an
\* encoder whose key frame it was not sent.
KeyFrameFirst ==
  \A s \in Video : pc[s] = "encode" /\ keySent[s] => subscribes[s] \subseteq keyed[s]

\* The registry, its services and their threads implement Subscriptions, where a
\* connection is served by a service or not: no swap, snapshot or restart of an
\* encoder shows, and nobody but a connection's own operation enters or leaves it.
Abstract == INSTANCE Subscriptions WITH member <- [s \in Svc |-> Subscribed(s)], holder <- opConn
RegistryRefined == Abstract!Spec

\* A new subscriber does not wait for its snapshot for ever,
\* unless the service is being joined.
NewSubscriberServed ==
  \A s \in NeedSnapshot, c \in Conn :
    c \in newSubscribes[s] ~> c \notin newSubscribes[s] \/ ~active[s]

\* A requested refresh is served by a new encoder while anybody watches
\* and the service is not being joined.
RefreshServed == \A s \in Video : refresh[s] /\ Ok(s) ~> ~refresh[s] \/ ~Ok(s)

\* Dropping the Server ends: join waits for no thread that waits for it.
DropEnds == op = "drop" ~> op = "dropped"
=============================================================================
