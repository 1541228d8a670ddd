----------------------------- MODULE AuthedConns ----------------------------
(***************************************************************************)
(* What the incoming connections of the controlled side share: the recent  *)
(* sessions that let a client in again (SESSIONS), the authorized          *)
(* connections (AUTHED_CONNS) and what follows from their number: the wake *)
(* lock, the wallpaper and the resolution (server/connection.rs, its module*)
(* raii, and server/display_service.rs).                                   *)
(*                                                                         *)
(* The tasks of the connections run on several threads, and each step is   *)
(* one lock scope of the code: a login, AuthedConnID::new, its drop and a  *)
(* change of the resolution are several steps, with those of other         *)
(* connections in between.  One display.                                   *)
(***************************************************************************)
EXTENDS Integers, Sequences, FiniteSets

CONSTANTS
  Conn, Key,
  KeyOf,      \* [Conn -> Key]: session_key, the peer and its session
  Remote,     \* the connections of type AuthConnType::Remote; the others transfer files
  Require2fa, \* the connections that are asked for a second factor
  Timeout,    \* SESSION_TIMEOUT
  MaxTime, MaxPw, MaxOpen, MaxQueue  \* bounds: the time, the temporary passwords, the
              \* connections open at a time, the counts not taken by the wake lock's thread

ASSUME AuthedAssumption ==
  /\ IsFiniteSet(Conn) /\ KeyOf \in [Conn -> Key] /\ Remote \subseteq Conn /\ Require2fa \subseteq Conn
  /\ Timeout \in Nat \ {0} /\ MaxTime \in Nat /\ MaxPw \in Nat \ {0} /\ MaxOpen \in Nat /\ MaxQueue \in Nat

VARIABLES
  now,       \* the time
  pw,        \* the temporary password
  sessions,  \* [Key -> Session]: SESSIONS, recv is last_recv_time
  pc,        \* [Conn -> what the connection's task does next]
  given,     \* [Conn -> the password just accepted]
  need,      \* [Conn -> require_2fa is Some]
  ref,       \* [Conn -> session_last_recv_time is that of the session in SESSIONS]
  count,     \* [Conn -> the count that check_wake_lock has read]
  authed,    \* AUTHED_CONNS
  wake,      \* the wake lock: what was sent to its thread, and whether it is held
  wallpaper, \* WALLPAPER_REMOVER is None: the wallpaper is shown
  screen,    \* the resolution: "own" or "changed"
  record,    \* CHANGED_RESOLUTIONS: what to restore, or "none"
  good,      \* history: [Key -> passwords that were right since the session was removed]
  coded,     \* history: the keys whose second factor was right since then
  active,    \* history: [Key -> when the session last saw a message or a right password]
  raced      \* history: a connection came or went while another, in check_wake_lock, had
             \* counted and not sent

login   == <<now, pw, sessions, given, need, good, coded, active>>
shared  == <<wallpaper, screen, record>>
vars    == <<login, pc, ref, count, authed, wake, shared, raced>>

Perm == 0                 \* the permanent password
None == [in |-> FALSE, pw |-> Perm, tfa |-> FALSE, recv |-> 0]
Dropped  == {"left", "reset", "restore", "clear"}

TypeOK ==
  /\ now \in 0..MaxTime /\ pw \in 1..MaxPw
  /\ sessions \in [Key -> [in : BOOLEAN, pw : 0..MaxPw, tfa : BOOLEAN, recv : 0..MaxTime]]
  /\ pc \in [Conn -> {"none", "login", "logon", "code", "push", "count", "send",
                 "take", "live", "resize", "retain", "gone"} \cup Dropped]
  /\ given \in [Conn -> 0..MaxPw] /\ need \in [Conn -> BOOLEAN] /\ ref \in [Conn -> BOOLEAN]
  /\ count \in [Conn -> 0..Cardinality(Conn)] /\ authed \subseteq Conn
  /\ \A c \in Conn :
       /\ pc[c] \in {"take", "live", "resize", "retain"} => c \in authed
       /\ pc[c] \in {"none", "login", "logon", "code", "push", "gone"} \cup Dropped => c \notin authed
  /\ wake \in [held : BOOLEAN, queue : Seq(0..Cardinality(Conn))]
  /\ wallpaper \in BOOLEAN /\ screen \in {"own", "changed"} /\ record \in {"none", "own", "changed"}
  /\ good \in [Key -> SUBSET (1..MaxPw)] /\ coded \subseteq Key /\ active \in [Key -> 0..MaxTime]
  /\ raced \in BOOLEAN

Init ==
  /\ now = 0 /\ pw = 1 /\ sessions = [k \in Key |-> None]
  /\ pc = [c \in Conn |-> "none"] /\ given = [c \in Conn |-> Perm]
  /\ need = [c \in Conn |-> c \in Require2fa]
  /\ ref = [c \in Conn |-> FALSE] /\ count = [c \in Conn |-> 0]
  /\ authed = {} /\ wake = [held |-> FALSE, queue |-> << >>]
  /\ wallpaper = TRUE /\ screen = "own" /\ record = "none"
  /\ good = [k \in Key |-> {}] /\ coded = {} /\ active = [k \in Key |-> 0] /\ raced = FALSE

To(c, from, next) == pc[c] = from /\ pc' = [pc EXCEPT ![c] = next]

-----------------------------------------------------------------------------
(* Logging in.                                                             *)

\* A mistake: a session that expired is still there.
Retained_All == sessions

\* is_recent_session first drops every session without a message for SESSION_TIMEOUT.
Retained ==
  [k \in Key |-> IF sessions[k].in /\ now - sessions[k].recv < Timeout THEN sessions[k] ELSE None]

\* A connection whose session was removed keeps the time of a session nobody finds.
Held(ss) == [c \in Conn |-> ref[c] /\ ss[KeyOf[c]].in]

\* A session is changed, or inserted with a time of its own.
UpdateOrInsert(ss, k, p, tfa) ==
  [ss EXCEPT ![k] = [in |-> TRUE, pw |-> p, tfa |-> tfa, recv |-> IF @.in THEN @.recv ELSE now]]

Connect(c) ==
  /\ Cardinality({d \in Conn : pc[d] \notin {"none", "gone"}}) < MaxOpen
  /\ To(c, "none", "login")
  /\ UNCHANGED <<login, ref, count, authed, wake, shared, raced>>

\* The password is right.
Accept(c, p) ==
  pc' = [pc EXCEPT ![c] = "logon"] /\ given' = [given EXCEPT ![c] = p]

\* The request of a client that knows password p: it is right for a recent session,
\* it is the temporary password, the permanent one, or wrong.
LoginRequest(c, p) ==
  LET k  == KeyOf[c]
      ss == Retained
  IN  /\ pc[c] \in {"login", "code"} /\ p <= pw /\ ref' = Held(ss)
      /\ \/ /\ ss[k].in /\ p # Perm /\ ss[k].pw = p
            /\ sessions' = ss /\ Accept(c, p)
            /\ UNCHANGED <<good, coded, active>>
         \/ /\ p = pw /\ ~(ss[k].in /\ ss[k].pw = p)
            /\ sessions' = UpdateOrInsert(ss, k, p, FALSE) /\ Accept(c, p)
            /\ good' = [good EXCEPT ![k] = {p} \cup IF ss[k].in THEN @ ELSE {}]
            /\ coded' = coded \ {k}
            /\ active' = [active EXCEPT ![k] = now]
         \/ /\ p = Perm
            /\ sessions' = ss /\ Accept(c, p)
            /\ UNCHANGED <<good, coded, active>>
         \/ /\ p \notin {pw, Perm} /\ ~(ss[k].in /\ ss[k].pw = p)
            /\ sessions' = ss
            /\ UNCHANGED <<given, pc, good, coded, active>>
      /\ UNCHANGED <<now, pw, need, count, authed, wake, shared, raced>>

\* send_logon_response_and_keep_alive: let in, or asked for the second factor unless a
\* recent session has seen it.
SendLogon(c) ==
  /\ sessions' = IF need[c] THEN Retained ELSE sessions
  /\ To(c, "logon", IF need[c] /\ ~Retained[KeyOf[c]].tfa THEN "code" ELSE "push")
  /\ given' = [given EXCEPT ![c] = Perm] /\ ref' = Held(sessions')
  /\ UNCHANGED <<now, pw, need, good, coded, active, count, authed, wake, shared, raced>>

\* A right code: set_session_2fa.
Auth2fa(c) ==
  LET k == KeyOf[c]
  IN  /\ To(c, "code", "push")
      /\ need' = [need EXCEPT ![c] = FALSE]
      /\ sessions' = UpdateOrInsert(sessions, k, sessions[k].pw, TRUE)
      /\ coded' = coded \cup {k} /\ active' = [active EXCEPT ![k] = now]
      /\ UNCHANGED <<now, pw, given, good, ref, count, authed, wake, shared, raced>>

-----------------------------------------------------------------------------
(* Authorization and what it changes.                                      *)

\* AuthedConnID::new.
Push(c) ==
  /\ To(c, "push", "count")
  /\ authed' = authed \cup {c}
  /\ raced' = (raced \/ \E d \in Conn \ {c} : pc[d] = "send")
  /\ UNCHANGED <<login, ref, count, wake, shared>>

\* A mistake: only the remote connections keep the machine awake.
CountConns_Remote(c) ==
  /\ To(c, "count", "send")
  /\ count' = [count EXCEPT ![c] = Cardinality(authed \cap Remote)]
  /\ UNCHANGED <<login, ref, authed, wake, shared, raced>>

\* check_wake_lock reads the number of connections in one lock scope and sends it in
\* another.
CountConns(c) ==
  /\ To(c, "count", "send")
  /\ count' = [count EXCEPT ![c] = Cardinality(authed)]
  /\ UNCHANGED <<login, ref, authed, wake, shared, raced>>

SendCount(c) ==
  /\ Len(wake.queue) < MaxQueue
  /\ To(c, "send", IF c \in authed THEN "take" ELSE "gone")
  /\ wake' = [held |-> wake.held, queue |-> Append(wake.queue, count[c])]
  /\ count' = [count EXCEPT ![c] = 0]
  /\ UNCHANGED <<login, ref, authed, shared, raced>>

\* The connection takes the time of its session; a remote one removes the wallpaper.
Take(c) ==
  /\ To(c, "take", "live")
  /\ ref' = [ref EXCEPT ![c] = sessions[KeyOf[c]].in]
  /\ wallpaper' = (wallpaper /\ c \notin Remote)
  /\ UNCHANGED <<login, count, authed, wake, screen, record, raced>>

\* Any message of the client.
Receive(c) ==
  /\ pc[c] = "live" /\ ref[c]
  /\ sessions' = [sessions EXCEPT ![KeyOf[c]].recv = now]
  /\ active' = [active EXCEPT ![KeyOf[c]] = now]
  /\ UNCHANGED <<now, pw, given, need, good, coded, pc, ref, count, authed, wake,
                 shared, raced>>

\* change_resolution: the size the display has is recorded unless one is, and then it
\* is changed.
RecordResolution(c) ==
  /\ c \in Remote /\ To(c, "live", "resize")
  /\ record' = IF record = "none" THEN screen ELSE record
  /\ UNCHANGED <<login, ref, count, authed, wake, wallpaper, screen, raced>>

ChangeResolution(c) ==
  /\ To(c, "resize", "live")
  /\ screen' = "changed"
  /\ UNCHANGED <<login, ref, count, authed, wake, wallpaper, record, raced>>

-----------------------------------------------------------------------------
(* The end of a connection.                                                *)

\* The session goes with a remote connection, or with the last of its kind.
check_remove_session(c) ==
  IF \/ c \in authed \cap Remote
     \/ ~\E d \in authed \ {c} : KeyOf[d] = KeyOf[c] /\ d \in Remote
  THEN [sessions EXCEPT ![KeyOf[c]] = None] ELSE sessions

\* The connection's loop ends; `retry': not by a reason that forbids to try again.
\* An authorized one takes the temporary password with it.
End(c, retry) ==
  LET k == KeyOf[c]
  IN  /\ pc[c] \in {"login", "code", "live"} /\ (c \in authed => pw < MaxPw)
      /\ pc' = [pc EXCEPT ![c] = IF c \in authed THEN "retain" ELSE "gone"]
      /\ pw' = IF c \in authed THEN pw + 1 ELSE pw
      /\ sessions' = IF retry THEN sessions ELSE check_remove_session(c)
      /\ good' = IF ~retry /\ c \in authed \cap Remote THEN [good EXCEPT ![k] = {}] ELSE good
      /\ coded' = IF ~retry /\ c \in authed \cap Remote THEN coded \ {k} ELSE coded
      /\ ref' = [Held(sessions') EXCEPT ![c] = FALSE]
      /\ UNCHANGED <<now, given, need, active, count, authed, wake, shared, raced>>

\* A mistake: the drop takes another entry for its own.
Retain_Other(c) ==
  /\ To(c, "retain", "left")
  /\ UNCHANGED <<login, ref, count, authed, wake, shared, raced>>

\* The drop of AuthedConnID: the connection leaves ...
Retain(c) ==
  /\ To(c, "retain", "left")
  /\ authed' = authed \ {c}
  /\ raced' = (raced \/ \E d \in Conn \ {c} : pc[d] = "send")
  /\ UNCHANGED <<login, ref, count, wake, shared>>

\* A mistake: only the last connection of any type resets what they share.
CountRemote_All(c) ==
  /\ To(c, "left", IF authed = {} THEN "reset" ELSE "count")
  /\ UNCHANGED <<login, ref, count, authed, wake, shared, raced>>

\* ... and when no remote one is left, resets what they share.
CountRemote(c) ==
  /\ To(c, "left", IF authed \cap Remote = {} THEN "reset" ELSE "count")
  /\ UNCHANGED <<login, ref, count, authed, wake, shared, raced>>

ResetWallpaper(c) ==
  /\ To(c, "reset", "restore")
  /\ wallpaper' = TRUE
  /\ UNCHANGED <<login, ref, count, authed, wake, screen, record, raced>>

\* restore_resolutions reads the record under one lock and clears it under another.
RestoreResolutions(c) ==
  /\ To(c, "restore", "clear")
  /\ screen' = IF record = "none" THEN screen ELSE record
  /\ UNCHANGED <<login, ref, count, authed, wake, wallpaper, record, raced>>

ClearResolutions(c) ==
  /\ To(c, "clear", "count")
  /\ record' = "none"
  /\ UNCHANGED <<login, ref, count, authed, wake, wallpaper, screen, raced>>

-----------------------------------------------------------------------------

\* start_wakelock_thread, with the option to keep awake.
WakeLock ==
  /\ wake.queue # << >>
  /\ wake' = [held |-> Head(wake.queue) > 0, queue |-> Tail(wake.queue)]
  /\ UNCHANGED <<login, pc, ref, count, authed, shared, raced>>

Tick ==
  /\ now < MaxTime /\ now' = now + 1
  /\ UNCHANGED <<pw, sessions, given, need, good, coded, active, pc, ref, count,
                 authed, wake, shared, raced>>

Next ==
  \/ \E c \in Conn :
       \/ Connect(c) \/ SendLogon(c) \/ Auth2fa(c) \/ Push(c) \/ CountConns(c) \/ SendCount(c) \/ Take(c)
       \/ \E p \in 0..MaxPw : LoginRequest(c, p)
       \/ Receive(c) \/ RecordResolution(c) \/ ChangeResolution(c)
       \/ \E retry \in BOOLEAN : End(c, retry)
       \/ Retain(c) \/ CountRemote(c) \/ ResetWallpaper(c) \/ RestoreResolutions(c) \/ ClearResolutions(c)
  \/ WakeLock \/ Tick

Spec == Init /\ [][Next]_vars

-----------------------------------------------------------------------------
(* Properties.                                                             *)

LetInStep ==
  \A c \in Conn :
    LET k == KeyOf[c]
        recent == now - active[k] < Timeout
    IN  /\ pc[c] \in {"login", "code"} /\ pc'[c] = "logon" /\ given'[c] \notin {pw, Perm}
             => given'[c] \in good[k] /\ recent
        /\ pc[c] = "logon" /\ pc'[c] = "push" /\ need[c] => k \in coded /\ recent

(* Who is let in: a password that is no longer the temporary one (is_recent_session)   *)
(* was the temporary one for this peer and session, no remote connection of the session*)
(* was closed for good since, and the session was not silent for SESSION_TIMEOUT; and  *)
(* the second factor is only passed over when the session has seen it since then.      *)
LetIn == [][LetInStep]_vars

(* The wallpaper comes back: when no remote connection is authorized and none is being *)
(* dropped, WALLPAPER_REMOVER is empty, however the drops and the logins interleave.   *)
WallpaperBack ==
  (authed \cap Remote = {} /\ \A c \in Conn : pc[c] \notin {"left", "reset"}) => wallpaper

(* The wake lock is held exactly while some connection is authorized, once the counts  *)
(* that check_wake_lock sent are taken; unless a connection came or went between the   *)
(* count and the send of another, when the counts may arrive out of order.             *)
Awake ==
  (~raced /\ wake.queue = << >>
     /\ \A c \in Conn : pc[c] \notin {"count", "send"} \cup Dropped)
  => wake.held = (authed # {})

(* The display has its own resolution when no remote connection is left and none is    *)
(* being dropped.                                                                      *)
ResolutionBack ==
  (authed \cap Remote = {} /\ \A c \in Conn : pc[c] \notin Dropped) => screen = "own"
=============================================================================
