------------------------------ MODULE Service ------------------------------
(***************************************************************************)
(* The publish/subscribe services of the controlled side                   *)
(* (src/client/upstream/src/server/service.rs): a service keeps the        *)
(* connections that receive its messages (subscribes) and, when it needs a *)
(* snapshot, those that still wait for it (new_subscribes).  Its thread    *)
(* runs a callback; every access to the two maps takes the service's lock  *)
(* for that access only, so the steps below are exactly the lock scopes    *)
(* and anything may happen between two of them.                            *)
(*                                                                         *)
(* Two kinds of callback are modelled.  A video service (video_service.rs, *)
(* run) encodes one stream for all its subscribers and restarts with a new *)
(* encoder - by failing with "SWITCH" - when somebody joins.  Any other    *)
(* snapshot service (the cursor service of input_service.rs) sends its     *)
(* latest state to the subscribers and a snapshot of it to the new ones.   *)
(* Services that need no snapshot only send, and change no state here.     *)
(***************************************************************************)
EXTENDS FiniteSets

CONSTANTS
  Conn,          \* connection ids
  Svc,           \* service names
  Video,         \* the video services (monitor0, monitor1, camera0 ...)
  NeedSnapshot   \* the services created with need_snapshot = true

ASSUME ServiceAssumption ==
  /\ Video \subseteq NeedSnapshot
  /\ NeedSnapshot \subseteq Svc

VARIABLES
  subscribes,     \* [Svc -> SUBSET Conn]: receive what the service sends
  newSubscribes,  \* [Svc -> SUBSET Conn]: wait for the snapshot
  active,         \* [Svc -> BOOLEAN]: cleared by join
  refresh,        \* [Svc -> BOOLEAN]: the option "refresh" of a video service
  pc,             \* [Svc -> ThreadState]: where the service's thread is
  keySent,        \* [Svc -> BOOLEAN]: the current encoder has produced a frame
  keyed           \* [Svc -> SUBSET Conn]: sent the current encoder's key frame

serviceVars == <<subscribes, newSubscribes, active, refresh, pc,
                 keySent, keyed>>
members == <<subscribes, newSubscribes>>
stream  == <<keySent, keyed>>

\* "hibernate" is the head of the loops of GenericService::run and ::repeat,
\* "loop" the head of `while sp.ok()` in video_service::run.
ThreadState == {"hibernate", "exit", "setup", "loop",
                "frame", "frameCallback", "frameDrop", "switchDrop", "encode",
                "bcSnapshot", "bcCallback", "bcDrop"}

Subscribed(s) == subscribes[s] \cup newSubscribes[s]

ServiceTypeOK ==
  /\ subscribes \in [Svc -> SUBSET Conn]
  /\ newSubscribes \in [Svc -> SUBSET Conn]
  /\ active \in [Svc -> BOOLEAN]
  /\ refresh \in [Svc -> BOOLEAN]
  /\ pc \in [Svc -> ThreadState]
  /\ keySent \in [Svc -> BOOLEAN]
  /\ keyed \in [Svc -> SUBSET Conn]

\* ServiceTmpl::new: active, nobody subscribed, no option set.
ServiceInit ==
  /\ subscribes = [s \in Svc |-> {}]
  /\ newSubscribes = [s \in Svc |-> {}]
  /\ active = [s \in Svc |-> TRUE]
  /\ refresh = [s \in Svc |-> FALSE]
  /\ pc = [s \in Svc |-> "hibernate"]
  /\ keySent = [s \in Svc |-> FALSE]
  /\ keyed = [s \in Svc |-> {}]

GoTo(s, l) == pc' = [pc EXCEPT ![s] = l]
Goes(s, from, to) == pc[s] = from /\ GoTo(s, to)

HasSubscribes(s) == Subscribed(s) /= {}

\* A mistake: the inner loop of a callback does not look at `active`.
Ok_ActiveIgnored(s) == HasSubscribes(s)

Ok(s) == active[s] /\ HasSubscribes(s)

-----------------------------------------------------------------------------
(* What a connection's task does to a service, each under the write lock.   *)

\* A mistake: a connection that is served already waits for a snapshot again.
OnSubscribe_Again(s, c) ==
  /\ newSubscribes' = [newSubscribes EXCEPT ![s] = @ \cup {c}]
  /\ UNCHANGED <<subscribes, active, refresh, pc, stream>>

OnSubscribe(s, c) ==
  /\ IF c \in subscribes[s] THEN UNCHANGED members
     ELSE IF s \in NeedSnapshot
          THEN /\ newSubscribes' = [newSubscribes EXCEPT ![s] = @ \cup {c}]
               /\ UNCHANGED subscribes
          ELSE /\ subscribes' = [subscribes EXCEPT ![s] = @ \cup {c}]
               /\ UNCHANGED newSubscribes
  /\ UNCHANGED <<active, refresh, pc, stream>>

\* `if let None = subscribes.remove(&id) { new_subscribes.remove(&id) }`; what
\* the connection was sent counts for one subscription only.
OnUnsubscribe(s, c) ==
  /\ subscribes' = [subscribes EXCEPT ![s] = @ \ {c}]
  /\ newSubscribes' = IF c \in subscribes[s] THEN newSubscribes
                      ELSE [newSubscribes EXCEPT ![s] = @ \ {c}]
  /\ keyed' = [keyed EXCEPT ![s] = @ \ {c}]
  /\ UNCHANGED <<active, refresh, pc, keySent>>

\* Server::set_video_service_opt(display, OPTION_REFRESH, "1").
SetRefresh(S) ==
  /\ refresh' = [s \in Svc |-> refresh[s] \/ s \in S]
  /\ UNCHANGED <<members, active, pc, stream>>

-----------------------------------------------------------------------------
(* The thread of a service.                                                 *)

\* The loop condition `while sp.active()` of GenericService::run and repeat.
ThreadExit(s) ==
  /\ ~active[s]
  /\ Goes(s, "hibernate", "exit")
  /\ UNCHANGED <<members, active, refresh, stream>>

\* video_service::run is entered: Raii, capturer, encoder.
EnterRun(s) ==
  /\ s \in Video
  /\ active[s] /\ HasSubscribes(s)
  /\ Goes(s, "hibernate", "setup")
  /\ keySent' = [keySent EXCEPT ![s] = FALSE]
  /\ keyed' = [keyed EXCEPT ![s] = {}]
  /\ UNCHANGED <<members, active, refresh>>

\* No capturer or no encoder: run returns the error and the thread sleeps.
SetupFails(s) ==
  /\ Goes(s, "setup", "hibernate")
  /\ UNCHANGED <<members, active, refresh, stream>>

\* A mistake: the option stays set.
SetupDone_RefreshKept(s) ==
  /\ Goes(s, "setup", "loop")
  /\ UNCHANGED <<members, active, refresh, stream>>

\* The pending refresh is served by the encoder just made.
SetupDone(s) ==
  /\ Goes(s, "setup", "loop")
  /\ refresh' = [refresh EXCEPT ![s] = FALSE]
  /\ UNCHANGED <<members, active, stream>>

\* `while sp.ok()` ends: everybody left, or the service is being joined.
LeaveRun(s) ==
  /\ ~Ok(s)
  /\ Goes(s, "loop", "hibernate")
  /\ UNCHANGED <<members, active, refresh, stream>>

\* One of the checks before the capture fails with "SWITCH" and sends nothing:
\* a refresh of an unchanged display, a changed codec, chroma or privacy mode.
Switch(s) ==
  /\ Ok(s)
  /\ Goes(s, "loop", "hibernate")
  /\ UNCHANGED <<members, active, refresh, stream>>

\* sp.send_shared of the latest state, then the snapshot for the new ones: the
\* changed display of try_broadcast_display_changed (which ends in "SWITCH"),
\* or the cursor of run_cursor, which takes its snapshot also when the cursor is
\* the one already sent.
Broadcast(s) ==
  /\ s \in NeedSnapshot
  /\ \/ s \in Video /\ Ok(s) /\ pc[s] = "loop"
     \/ s \notin Video /\ active[s] /\ HasSubscribes(s) /\ pc[s] = "hibernate"
  /\ GoTo(s, "bcSnapshot")
  /\ UNCHANGED <<members, active, refresh, stream>>

\* ServiceTmpl::snapshot calls back only when somebody is new.
BroadcastSnapshot(s) ==
  /\ Goes(s, "bcSnapshot",
          IF newSubscribes[s] = {} THEN "hibernate" ELSE "bcCallback")
  /\ UNCHANGED <<members, active, refresh, stream>>

\* ServiceSwap::send_shared: the message goes to the new subscribers.
BroadcastCallback(s) ==
  /\ Goes(s, "bcCallback", "bcDrop")
  /\ UNCHANGED <<members, active, refresh, stream>>

\* A mistake: the new subscribers are cleared before they are moved.
SwapNewSubscribes_ClearFirst(s) ==
  /\ newSubscribes' = [newSubscribes EXCEPT ![s] = {}]
  /\ subscribes' = [subscribes EXCEPT ![s] = @ \cup newSubscribes'[s]]

SwapNewSubscribes(s) ==
  /\ subscribes' = [subscribes EXCEPT ![s] = @ \cup newSubscribes[s]]
  /\ newSubscribes' = [newSubscribes EXCEPT ![s] = {}]

\* Drop of ServiceSwap.
BroadcastDrop(s) ==
  /\ Goes(s, "bcDrop", "hibernate")
  /\ SwapNewSubscribes(s)
  /\ UNCHANGED <<active, refresh, stream>>

\* A frame was captured, or an old one is encoded again: handle_one_frame.
FrameCaptured(s) ==
  /\ Ok(s) /\ ~refresh[s]
  /\ Goes(s, "loop", "frame")
  /\ UNCHANGED <<members, active, refresh, stream>>

FrameSnapshot(s) ==
  /\ Goes(s, "frame", IF newSubscribes[s] = {} THEN "encode" ELSE "frameCallback")
  /\ UNCHANGED <<members, active, refresh, stream>>

\* A mistake: a new subscriber joins the running encoder.
FrameCallback_NoSwitch(s) ==
  /\ Goes(s, "frameCallback", "frameDrop")
  /\ UNCHANGED <<members, active, refresh, stream>>

\* sps.has_subscribes() looks at the old subscribers only.
FrameCallback(s) ==
  /\ Goes(s, "frameCallback", IF subscribes[s] /= {} THEN "switchDrop" ELSE "frameDrop")
  /\ UNCHANGED <<members, active, refresh, stream>>

\* A mistake: the swap happens only if the callback succeeds.
FrameDrop_OnSuccess(s) ==
  /\ \/ Goes(s, "frameDrop", "encode") /\ SwapNewSubscribes(s)
     \/ Goes(s, "switchDrop", "hibernate") /\ UNCHANGED members
  /\ UNCHANGED <<active, refresh, stream>>

\* The ServiceSwap is dropped whether or not the callback failed.
FrameDrop(s) ==
  /\ \/ Goes(s, "frameDrop", "encode")
     \/ Goes(s, "switchDrop", "hibernate")
  /\ SwapNewSubscribes(s)
  /\ UNCHANGED <<active, refresh, stream>>

\* encode_to_message and send_video_frame: the first frame of an encoder is
\* its key frame, the others are differences (key frames are disabled).
EncodeAndSend(s) ==
  /\ Goes(s, "encode", "loop")
  /\ keySent' = [keySent EXCEPT ![s] = TRUE]
  /\ keyed' = IF keySent[s] THEN keyed ELSE [keyed EXCEPT ![s] = subscribes[s]]
  /\ UNCHANGED <<members, active, refresh>>

\* Nothing is sent; after too many failures the encoder is replaced.
EncodeFails(s) ==
  /\ pc[s] = "encode"
  /\ GoTo(s, "loop") \/ GoTo(s, "hibernate")
  /\ UNCHANGED <<members, active, refresh, stream>>

ThreadStep(s) ==
  \/ ThreadExit(s)
  \/ EnterRun(s) \/ SetupFails(s) \/ SetupDone(s) \/ LeaveRun(s) \/ Switch(s)
  \/ Broadcast(s)
  \/ BroadcastSnapshot(s) \/ BroadcastCallback(s) \/ BroadcastDrop(s)
  \/ FrameCaptured(s) \/ FrameSnapshot(s) \/ FrameCallback(s) \/ FrameDrop(s)
  \/ EncodeAndSend(s) \/ EncodeFails(s)
=============================================================================
