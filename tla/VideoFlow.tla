----------------------------- MODULE VideoFlow -----------------------------
(***************************************************************************)
(* Flow control of the video services (video_service.rs): a service sends  *)
(* a frame to its subscribers, each of which queues it (ConnInner.tx_video *)
(* in connection.rs), and waits until the connections say that they have   *)
(* fetched it.  They say so through a channel, one for every display index *)
(* (FRAME_FETCHED_NOTIFIERS): when they take the frame from the queue or,  *)
(* if the client acknowledges frames, when its VideoReceived arrives.  An  *)
(* acknowledgement does not name the display, so DISPLAY_CONN_IDS records  *)
(* who is waited for under each index.                                     *)
(*                                                                         *)
(* Frames are numbered; who subscribes to a service is left to the Service *)
(* module and changes here at any time.                                    *)
(***************************************************************************)
EXTENDS Naturals, Sequences, FiniteSets

CONSTANTS
  Conn,       \* connection ids
  AckConn,    \* connections whose login request had video_ack_required
  Vid,        \* video services
  Monitor,    \* those of them that capture a monitor
  IdxOf,      \* the display index of each: a monitor and a camera may share it
  MaxFrames,  \* bound: frames sent by one service
  MaxSlices   \* bound: how often try_wait_next waits 300 ms before 3 s are over

ASSUME FlowAssumption ==
  /\ IsFiniteSet(Conn) /\ AckConn \subseteq Conn
  /\ Monitor \subseteq Vid
  /\ MaxFrames \in Nat /\ MaxSlices \in Nat \ {0}

Index == {IdxOf[v] : v \in Vid}

VARIABLES
  subs,            \* [Vid -> SUBSET Conn]: the subscribers of each service
  pc,              \* [Vid -> ...]: where the service's loop is
  frame,           \* [Vid -> Nat]: number of the current frame
  sent,            \* [Vid -> SUBSET Conn]: what send_video_frame returned
  sendConnIds,     \* [Vid -> SUBSET Conn]: VideoFrameController.send_conn_ids
  fetchedConnIds,  \* [Vid -> SUBSET Conn]: fetched_conn_ids
  slices,          \* [Vid -> Nat]: time waited
  displayConnIds,  \* [Index -> SUBSET Conn]: DISPLAY_CONN_IDS (none: {})
  notifier,        \* [Index -> SUBSET Conn]: ids in the channel
  conn,            \* [Conn -> ...]: what the connection's task does
  queue,           \* [Conn -> Seq(frames)]: rx_video
  unacked,         \* [Conn -> Nat]: VideoReceived messages still to come
  notifying,       \* [Conn -> SUBSET Index]: vec_display_idx
  got,             \* [Conn -> [Vid -> Nat]]: the last frame it fetched
  disturbed        \* a wait was cut short or a connection has closed

service == <<pc, frame, sent, sendConnIds, fetchedConnIds, slices>>
task    == <<conn, queue, unacked, notifying, got>>
shared  == <<displayConnIds, notifier>>
vars    == <<subs, service, task, shared, disturbed>>

Frame == Vid \X (1..MaxFrames)

TypeOK ==
  /\ subs \in [Vid -> SUBSET Conn]
  /\ pc \in [Vid -> {"capture", "sent", "wait", "done"}]
  /\ frame \in [Vid -> 0..MaxFrames]
  /\ sent \in [Vid -> SUBSET Conn]
  /\ sendConnIds \in [Vid -> SUBSET Conn]
  /\ fetchedConnIds \in [Vid -> SUBSET Conn]
  /\ slices \in [Vid -> 0..MaxSlices]
  /\ displayConnIds \in [Index -> SUBSET Conn]
  /\ notifier \in [Index -> SUBSET Conn]
  /\ conn \in [Conn -> {"run", "ack", "closing", "closeNotify", "remove", "gone"}]
  /\ queue \in [Conn -> Seq(Frame)]
  /\ unacked \in [Conn -> Nat]
  /\ notifying \in [Conn -> SUBSET Index]
  /\ got \in [Conn -> [Vid -> 0..MaxFrames]]
  /\ disturbed \in BOOLEAN

Init ==
  /\ subs = [v \in Vid |-> {}]
  /\ pc = [v \in Vid |-> "capture"]
  /\ frame = [v \in Vid |-> 0]
  /\ sent = [v \in Vid |-> {}]
  /\ sendConnIds = [v \in Vid |-> {}]
  /\ fetchedConnIds = [v \in Vid |-> {}]
  /\ slices = [v \in Vid |-> 0]
  /\ displayConnIds = [i \in Index |-> {}]
  /\ notifier = [i \in Index |-> {}]
  /\ conn = [c \in Conn |-> "run"]
  /\ queue = [c \in Conn |-> <<>>]
  /\ unacked = [c \in Conn |-> 0]
  /\ notifying = [c \in Conn |-> {}]
  /\ got = [c \in Conn |-> [v \in Vid |-> 0]]
  /\ disturbed = FALSE

-----------------------------------------------------------------------------
(* The service: one turn of `while sp.ok()` in video_service::run.          *)

\* frame_controller.reset(), then send_video_frame in handle_one_frame: the
\* frame is queued for the subscribers that still have their receiver.
SendFrame(v) ==
  /\ pc[v] = "capture" /\ frame[v] < MaxFrames
  /\ pc' = [pc EXCEPT ![v] = "sent"]
  /\ frame' = [frame EXCEPT ![v] = @ + 1]
  /\ sent' = [sent EXCEPT ![v] = subs[v]]
  /\ sendConnIds' = [sendConnIds EXCEPT ![v] = {}]
  /\ queue' = [c \in Conn |-> IF c \in subs[v] /\ conn[c] /= "gone"
                              THEN Append(queue[c], <<v, frame[v] + 1>>) ELSE queue[c]]
  /\ UNCHANGED <<subs, fetchedConnIds, slices, conn, unacked, notifying, got, shared, disturbed>>

\* The capturer has no frame (WouldBlock).
NoFrame(v) ==
  /\ pc[v] = "capture"
  /\ pc' = [pc EXCEPT ![v] = "sent"]
  /\ sent' = [sent EXCEPT ![v] = {}]
  /\ sendConnIds' = [sendConnIds EXCEPT ![v] = {}]
  /\ UNCHANGED <<subs, frame, fetchedConnIds, slices, task, shared, disturbed>>

\* VideoFrameController::set_send, after the frame went out.
SetSend(v) ==
  /\ pc[v] = "sent"
  /\ pc' = [pc EXCEPT ![v] = "wait"]
  /\ fetchedConnIds' = [fetchedConnIds EXCEPT ![v] = {}]
  /\ slices' = [slices EXCEPT ![v] = 0]
  /\ IF sent[v] = {} THEN UNCHANGED <<sendConnIds, displayConnIds>>
     ELSE /\ sendConnIds' = [sendConnIds EXCEPT ![v] = sent[v]]
          /\ displayConnIds' = [displayConnIds EXCEPT ![IdxOf[v]] = sent[v]]
  /\ UNCHANGED <<subs, frame, sent, task, notifier, disturbed>>

\* A mistake: the first answer ends the wait.
Enough_Any(v, ids) == ids /= {}

\* fetched_conn_ids.len() >= send_conn_ids.len() ends the wait.
Enough(v, ids) == Cardinality(ids) >= Cardinality(sendConnIds[v])

\* Nothing was sent: try_wait_next returns at once.
NothingSent(v) ==
  /\ pc[v] = "wait" /\ sendConnIds[v] = {}
  /\ pc' = [pc EXCEPT ![v] = "done"]
  /\ UNCHANGED <<subs, frame, sent, sendConnIds, fetchedConnIds, slices, task, shared, disturbed>>

\* try_wait_next receives one id and then all the others in the channel.
Receive(v) ==
  LET i == IdxOf[v]
      ids == fetchedConnIds[v] \cup notifier[i]
  IN  /\ pc[v] = "wait" /\ sendConnIds[v] /= {} /\ notifier[i] /= {}
      /\ fetchedConnIds' = [fetchedConnIds EXCEPT ![v] = ids]
      /\ notifier' = [notifier EXCEPT ![i] = {}]
      /\ pc' = [pc EXCEPT ![v] = IF Enough(v, ids) THEN "done" ELSE "wait"]
      /\ UNCHANGED <<subs, frame, sent, sendConnIds, slices, task, displayConnIds, disturbed>>

\* A mistake: the wait goes on until everybody has answered.
TimeoutSlice_NoLimit(v) ==
  /\ pc[v] = "wait" /\ sendConnIds[v] /= {} /\ notifier[IdxOf[v]] = {}
  /\ UNCHANGED vars

\* A mistake: one wait too many.
TimeoutSlice_OneMore(v) ==
  /\ pc[v] = "wait" /\ sendConnIds[v] /= {} /\ notifier[IdxOf[v]] = {}
  /\ slices' = [slices EXCEPT ![v] = @ + 1]
  /\ pc' = [pc EXCEPT ![v] = IF slices[v] = MaxSlices THEN "done" ELSE "wait"]
  /\ disturbed' = (disturbed \/ slices[v] = MaxSlices)
  /\ UNCHANGED <<subs, frame, sent, sendConnIds, fetchedConnIds, task, shared>>

\* 300 ms without an id; after 3 s the service goes on all the same.
TimeoutSlice(v) ==
  /\ pc[v] = "wait" /\ sendConnIds[v] /= {} /\ notifier[IdxOf[v]] = {}
  /\ slices' = [slices EXCEPT ![v] = @ + 1]
  /\ pc' = [pc EXCEPT ![v] = IF slices[v] + 1 = MaxSlices THEN "done" ELSE "wait"]
  /\ disturbed' = (disturbed \/ slices[v] + 1 = MaxSlices)
  /\ UNCHANGED <<subs, frame, sent, sendConnIds, fetchedConnIds, task, shared>>

\* DISPLAY_CONN_IDS.remove(&display_idx) ends the turn.
EndTurn(v) ==
  /\ pc[v] = "done"
  /\ pc' = [pc EXCEPT ![v] = "capture"]
  /\ displayConnIds' = [displayConnIds EXCEPT ![IdxOf[v]] = {}]
  /\ UNCHANGED <<subs, frame, sent, sendConnIds, fetchedConnIds, slices, task, notifier, disturbed>>

\* "SWITCH" before a capture, or, for a monitor, while waiting when the privacy
\* mode changed: Raii::drop forgets who is waited for, run starts again with a
\* controller of its own.
Bail(v) ==
  /\ pc[v] \in {"capture"} \cup (IF v \in Monitor THEN {"wait"} ELSE {})
  /\ pc' = [pc EXCEPT ![v] = "capture"]
  /\ displayConnIds' = [displayConnIds EXCEPT ![IdxOf[v]] = {}]
  /\ sendConnIds' = [sendConnIds EXCEPT ![v] = {}]
  /\ disturbed' = (disturbed \/ pc[v] = "wait")
  /\ UNCHANGED <<subs, frame, sent, fetchedConnIds, slices, task, notifier>>

-----------------------------------------------------------------------------
(* The connections.                                                         *)

Subscribe(v, c) ==
  /\ conn[c] = "run"
  /\ subs' = [subs EXCEPT ![v] = IF c \in @ THEN @ \ {c} ELSE @ \cup {c}]
  /\ UNCHANGED <<service, task, shared, disturbed>>

\* rx_video.recv() in the connection's loop; the frame then goes to the stream.
Fetch(c) ==
  /\ conn[c] = "run" /\ queue[c] /= <<>>
  /\ LET f == Head(queue[c])
     IN  /\ got' = [got EXCEPT ![c][f[1]] = f[2]]
         /\ IF c \in AckConn
            THEN unacked' = [unacked EXCEPT ![c] = @ + 1] /\ UNCHANGED notifier
            ELSE /\ notifier' = [notifier EXCEPT ![IdxOf[f[1]]] = @ \cup {c}]
                 /\ UNCHANGED unacked
  /\ queue' = [queue EXCEPT ![c] = Tail(@)]
  /\ UNCHANGED <<subs, service, conn, notifying, displayConnIds, disturbed>>

\* notify_video_frame_fetched_by_conn_id: look up the displays ...
LookUp(c) == notifying' = [notifying EXCEPT ![c] = {i \in Index : c \in displayConnIds[i]}]

\* ... then, DISPLAY_CONN_IDS unlocked, send to their channels.
SendFetched(c) ==
  /\ notifier' = [i \in Index |-> IF i \in notifying[c] THEN notifier[i] \cup {c} ELSE notifier[i]]
  /\ notifying' = [notifying EXCEPT ![c] = {}]

VideoReceived(c) ==
  /\ conn[c] = "run" /\ unacked[c] > 0
  /\ unacked' = [unacked EXCEPT ![c] = @ - 1]
  /\ LookUp(c)
  /\ conn' = [conn EXCEPT ![c] = "ack"]
  /\ UNCHANGED <<subs, service, queue, got, shared, disturbed>>

AckSent(c) ==
  /\ conn[c] = "ack"
  /\ SendFetched(c)
  /\ conn' = [conn EXCEPT ![c] = "run"]
  /\ UNCHANGED <<subs, service, queue, unacked, got, displayConnIds, disturbed>>

\* The loop of the connection ends, for whatever reason.
Close(c) ==
  /\ conn[c] = "run"
  /\ conn' = [conn EXCEPT ![c] = "closing"]
  /\ disturbed' = TRUE
  /\ UNCHANGED <<subs, service, queue, unacked, notifying, got, shared>>

CloseLookUp(c) ==
  /\ conn[c] = "closing"
  /\ LookUp(c)
  /\ conn' = [conn EXCEPT ![c] = "closeNotify"]
  /\ UNCHANGED <<subs, service, queue, unacked, got, shared, disturbed>>

CloseNotify(c) ==
  /\ conn[c] = "closeNotify"
  /\ SendFetched(c)
  /\ conn' = [conn EXCEPT ![c] = "remove"]
  /\ UNCHANGED <<subs, service, queue, unacked, got, displayConnIds, disturbed>>

\* remove_connection, and the receiver of the queue is dropped.
Remove(c) ==
  /\ conn[c] = "remove"
  /\ subs' = [v \in Vid |-> subs[v] \ {c}]
  /\ conn' = [conn EXCEPT ![c] = "gone"]
  /\ queue' = [queue EXCEPT ![c] = <<>>]
  /\ UNCHANGED <<service, unacked, notifying, got, shared, disturbed>>

ServiceStep(v) ==
  \/ SendFrame(v) \/ NoFrame(v) \/ SetSend(v) \/ NothingSent(v) \/ Receive(v)
  \/ TimeoutSlice(v) \/ EndTurn(v)

ConnStep(c) ==
  \/ Fetch(c) \/ VideoReceived(c) \/ AckSent(c)
  \/ CloseLookUp(c) \/ CloseNotify(c) \/ Remove(c)

Next ==
  \/ \E v \in Vid : ServiceStep(v) \/ Bail(v)
  \/ \E v \in Vid, c \in Conn : Subscribe(v, c)
  \/ \E c \in Conn : ConnStep(c) \/ Close(c)

Spec == Init /\ [][Next]_vars

\* The service's thread runs and time passes in its wait; a connection's task
\* may stall, and its client may never answer.
FairSpec == Spec /\ \A v \in Vid : WF_vars(ServiceStep(v))

-----------------------------------------------------------------------------
(* Properties.                                                              *)

\* As long as no wait was cut short and no connection has closed, a service
\* takes up the next frame only when everyone has fetched the current one:
\* comparing the sizes of the two sets does for comparing the sets.
FlowControlled ==
  ~disturbed => \A v \in Vid : pc[v] = "done" =>
                  \A c \in sendConnIds[v] : got[c][v] = frame[v]

\* Whatever the connections do - close, stall, lose an answer - a service that
\* waits for them captures again.
NeverStuck == \A v \in Vid : pc[v] = "wait" ~> pc[v] = "capture"
=============================================================================
