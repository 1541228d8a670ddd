---------------------------- MODULE AuthedProofs ----------------------------
(***************************************************************************)
(* Proofs, for any connections, sessions and bounds, of the safety         *)
(* properties of AuthedConns.                                              *)
(***************************************************************************)
EXTENDS AuthedConns, FiniteSetTheorems, SequenceTheorems, TLAPS

-----------------------------------------------------------------------------
(* Types.                                                                   *)

Session == [in : BOOLEAN, pw : 0..MaxPw, tfa : BOOLEAN, recv : 0..MaxTime]
Pc == {"none", "login", "logon", "code", "push", "count", "send", "take", "live", "resize",
       "retain", "gone", "left", "reset", "restore", "clear"}

\* The type invariant in parts: the login ...
LoginOK ==
  /\ now \in 0..MaxTime /\ pw \in 1..MaxPw
  /\ sessions \in [Key -> Session]
  /\ given \in [Conn -> 0..MaxPw] /\ need \in [Conn -> BOOLEAN]
  /\ good \in [Key -> SUBSET (1..MaxPw)] /\ coded \subseteq Key /\ active \in [Key -> 0..MaxTime]

\* ... the tasks and the authorized connections ...
TasksOK ==
  /\ pc \in [Conn -> Pc] /\ authed \subseteq Conn
  /\ \A c \in Conn :
       /\ pc[c] \in {"take", "live", "resize", "retain"} => c \in authed
       /\ pc[c] \in {"none", "login", "logon", "code", "push", "gone", "left", "reset",
                     "restore", "clear"} => c \notin authed

\* ... and the rest.
CountsOK ==
  /\ count \in [Conn -> 0..Cardinality(Conn)]
  /\ wake \in [held : BOOLEAN, queue : Seq(0..Cardinality(Conn))]

SharedOK ==
  /\ ref \in [Conn -> BOOLEAN]
  /\ wallpaper \in BOOLEAN /\ screen \in {"own", "changed"} /\ record \in {"none", "own", "changed"}
  /\ raced \in BOOLEAN

LEMMA TypeParts == TypeOK <=> LoginOK /\ TasksOK /\ CountsOK /\ SharedOK
<1>1. {"none", "login", "logon", "code", "push", "count", "send",
                 "take", "live", "resize", "retain", "gone"} \cup Dropped = Pc
  BY DEF Dropped, Pc
<1>2. {"none", "login", "logon", "code", "push", "gone"} \cup Dropped
        = {"none", "login", "logon", "code", "push", "gone", "left", "reset", "restore", "clear"}
  BY DEF Dropped
<1> QED
  BY <1>1, <1>2, Zenon DEF TypeOK, LoginOK, TasksOK, CountsOK, SharedOK, Session

LEMMA TypePartsPrime == TypeOK' <=> LoginOK' /\ TasksOK' /\ CountsOK' /\ SharedOK'
BY TypeParts, PTL

\* What is_recent_session and the changes of a session return is a table of sessions.
LEMMA SessionTypes ==
  ASSUME LoginOK
  PROVE  /\ None \in Session
         /\ Retained \in [Key -> Session]
         /\ \A ss \in [Key -> Session], k \in Key, p \in 0..MaxPw, t \in BOOLEAN :
              UpdateOrInsert(ss, k, p, t) \in [Key -> Session]
         /\ \A ss \in [Key -> Session] : Held(ss) \in [Conn -> BOOLEAN]
         /\ \A c \in Conn : check_remove_session(c) \in [Key -> Session]
<1>1. None \in Session
  BY AuthedAssumption DEF None, Perm, Session
<1>2. Retained \in [Key -> Session]
  BY <1>1 DEF Retained, LoginOK
<1>3. ASSUME NEW ss \in [Key -> Session], NEW k \in Key, NEW p \in 0..MaxPw, NEW t \in BOOLEAN
      PROVE  UpdateOrInsert(ss, k, p, t) \in [Key -> Session]
  BY <1>3 DEF UpdateOrInsert, LoginOK, Session
<1>4. ASSUME NEW ss \in [Key -> Session]
      PROVE  Held(ss) \in [Conn -> BOOLEAN]
  BY <1>4, Zenon DEF Held
<1>5. ASSUME NEW c \in Conn
      PROVE  check_remove_session(c) \in [Key -> Session]
  BY <1>1 DEF check_remove_session, LoginOK
<1> QED
  BY <1>1, <1>2, <1>3, <1>4, <1>5

\* A task moves, and who is authorized does not change.
LEMMA MoveTasks ==
  ASSUME TasksOK, NEW c \in Conn, NEW from \in Pc, NEW next \in Pc, To(c, from, next),
         UNCHANGED authed,
         next \in {"take", "live", "resize", "retain"} => c \in authed,
         next \in {"none", "login", "logon", "code", "push", "gone", "left", "reset", "restore",
                   "clear"} => c \notin authed
  PROVE  TasksOK'
BY DEF TasksOK, To

LEMMA CountBound == ASSUME authed \subseteq Conn
                    PROVE  Cardinality(authed) \in 0..Cardinality(Conn) /\ IsFiniteSet(authed)
<1>1. IsFiniteSet(authed) /\ Cardinality(authed) <= Cardinality(Conn)
  BY AuthedAssumption, FS_Subset
<1> QED
  BY <1>1, AuthedAssumption, FS_CardinalityType

-----------------------------------------------------------------------------
(* The type invariant.                                                      *)

LEMMA InitTypeOK == Init => TypeOK
<1> SUFFICES ASSUME Init PROVE LoginOK /\ TasksOK /\ CountsOK /\ SharedOK
  BY TypeParts
<1>1. LoginOK
  BY AuthedAssumption DEF Init, LoginOK, Session, None, Perm
<1>2. TasksOK
  BY DEF Init, TasksOK, Pc
<1>3. CountsOK
  BY AuthedAssumption, FS_CardinalityType DEF Init, CountsOK
<1>4. SharedOK
  BY Zenon DEF Init, SharedOK
<1> QED
  BY <1>1, <1>2, <1>3, <1>4

LEMMA NextTypeOK == TypeOK /\ [Next]_vars => TypeOK'
<1> SUFFICES ASSUME TypeOK, [Next]_vars PROVE TypeOK'
  OBVIOUS
<1>a. LoginOK /\ TasksOK /\ CountsOK /\ SharedOK
  BY TypeParts
<1> SUFFICES LoginOK' /\ TasksOK' /\ CountsOK' /\ SharedOK'
  BY TypePartsPrime
<1>1. ASSUME NEW c \in Conn, Connect(c) PROVE LoginOK' /\ TasksOK' /\ CountsOK' /\ SharedOK'
  <2>1. TasksOK'
    BY <1>1, <1>a, MoveTasks DEF Connect, Pc, TasksOK, To
  <2> QED
    BY <1>1, <1>a, <2>1, Zenon DEF Connect, login, shared, LoginOK, CountsOK, SharedOK
<1>2. ASSUME NEW c \in Conn, NEW p \in 0..MaxPw, LoginRequest(c, p)
      PROVE  LoginOK' /\ TasksOK' /\ CountsOK' /\ SharedOK'
  <2> DEFINE k == KeyOf[c]
  <2>0. k \in Key /\ Retained \in [Key -> Session]
    BY <1>a, SessionTypes, AuthedAssumption
  <2>1. ASSUME pc' = [pc EXCEPT ![c] = "logon"] PROVE TasksOK'
    BY <1>2, <1>a, <2>1 DEF LoginRequest, TasksOK, Pc
  <2>2. ASSUME UNCHANGED pc PROVE TasksOK'
    BY <1>2, <1>a, <2>2 DEF LoginRequest, TasksOK
  <2>3. TasksOK'
    BY <1>2, <2>1, <2>2 DEF LoginRequest, Accept
  <2>4. ref' \in [Conn -> BOOLEAN]
    BY <1>2, <1>a, <2>0, SessionTypes DEF LoginRequest
  <2>5. sessions' \in [Key -> Session]
    <3>1. UpdateOrInsert(Retained, k, p, FALSE) \in [Key -> Session]
      BY <1>a, <2>0, SessionTypes
    <3>2. sessions' \in {Retained, UpdateOrInsert(Retained, k, p, FALSE)}
      BY <1>2 DEF LoginRequest
    <3> QED
      BY <3>1, <3>2, <2>0
  <2>6. given' \in [Conn -> 0..MaxPw]
    BY <1>2, <1>a DEF LoginRequest, Accept, LoginOK
  <2>7. good' \in [Key -> SUBSET (1..MaxPw)] /\ coded' \subseteq Key /\ active' \in [Key -> 0..MaxTime]
    <3>1. CASE UNCHANGED <<good, coded, active>>
      BY <3>1, <1>a DEF LoginOK
    <3>2. CASE /\ p = pw
               /\ good' = [good EXCEPT ![k] = {p} \cup IF Retained[k].in THEN @ ELSE {}]
               /\ coded' = coded \ {k}
               /\ active' = [active EXCEPT ![k] = now]
      <4>1. {p} \cup (IF Retained[k].in THEN good[k] ELSE {}) \in SUBSET (1..MaxPw)
        BY <3>2, <1>a, <2>0 DEF LoginOK
      <4> QED
        BY <4>1, <3>2, <1>a, <2>0 DEF LoginOK
    <3> QED
      BY <1>2, <3>1, <3>2 DEF LoginRequest
  <2>8. LoginOK'
    BY <1>2, <1>a, <2>5, <2>6, <2>7 DEF LoginRequest, LoginOK
  <2> QED
    BY <1>2, <1>a, <2>3, <2>4, <2>8, Zenon DEF LoginRequest, shared, CountsOK, SharedOK
<1>3. ASSUME NEW c \in Conn, SendLogon(c) PROVE LoginOK' /\ TasksOK' /\ CountsOK' /\ SharedOK'
  <2>1. TasksOK'
    BY <1>3, <1>a DEF SendLogon, To, Pc, TasksOK
  <2>2. sessions' \in [Key -> Session]
    BY <1>3, <1>a, SessionTypes DEF SendLogon, LoginOK
  <2>3. ref' \in [Conn -> BOOLEAN]
    BY <1>3, <1>a, <2>2, SessionTypes DEF SendLogon
  <2>4. given' \in [Conn -> 0..MaxPw]
    BY <1>3, <1>a, AuthedAssumption DEF SendLogon, LoginOK, Perm
  <2> QED
    BY <1>3, <1>a, <2>1, <2>2, <2>3, <2>4, Zenon DEF SendLogon, shared, LoginOK, CountsOK, SharedOK
<1>4. ASSUME NEW c \in Conn, Auth2fa(c) PROVE LoginOK' /\ TasksOK' /\ CountsOK' /\ SharedOK'
  <2> DEFINE k == KeyOf[c]
  <2>0. k \in Key /\ sessions[k].pw \in 0..MaxPw
    BY <1>a, AuthedAssumption DEF LoginOK, Session
  <2>1. TasksOK'
    BY <1>4, <1>a DEF Auth2fa, To, Pc, TasksOK
  <2>2. sessions' \in [Key -> Session]
    BY <1>4, <1>a, <2>0, SessionTypes DEF Auth2fa, LoginOK
  <2>3. need' \in [Conn -> BOOLEAN]
    BY <1>4, <1>a, Zenon DEF Auth2fa, LoginOK
  <2>4. coded' \subseteq Key /\ active' \in [Key -> 0..MaxTime]
    BY <1>4, <1>a, <2>0 DEF Auth2fa, LoginOK
  <2> QED
    BY <1>4, <1>a, <2>1, <2>2, <2>3, <2>4, Zenon DEF Auth2fa, shared, LoginOK, CountsOK, SharedOK
<1>5. ASSUME NEW c \in Conn, Push(c) PROVE LoginOK' /\ TasksOK' /\ CountsOK' /\ SharedOK'
  <2>1. TasksOK'
    BY <1>5, <1>a DEF Push, To, Pc, TasksOK
  <2> QED
    BY <1>5, <1>a, <2>1, Zenon DEF Push, login, shared, LoginOK, CountsOK, SharedOK
<1>6. ASSUME NEW c \in Conn, CountConns(c) PROVE LoginOK' /\ TasksOK' /\ CountsOK' /\ SharedOK'
  <2>1. TasksOK'
    BY <1>6, <1>a DEF CountConns, To, Pc, TasksOK
  <2>2. Cardinality(authed) \in 0..Cardinality(Conn)
    BY <1>a, CountBound DEF TasksOK
  <2>3. count' \in [Conn -> 0..Cardinality(Conn)]
    BY <1>6, <1>a, <2>2, Zenon DEF CountConns, CountsOK
  <2> QED
    BY <1>6, <1>a, <2>1, <2>3, Zenon DEF CountConns, login, shared, LoginOK, CountsOK, SharedOK
<1>7. ASSUME NEW c \in Conn, SendCount(c) PROVE LoginOK' /\ TasksOK' /\ CountsOK' /\ SharedOK'
  <2>1. TasksOK'
    BY <1>7, <1>a DEF SendCount, To, Pc, TasksOK
  <2>2. CountsOK'
    BY <1>7, <1>a, AuthedAssumption, FS_CardinalityType DEF SendCount, CountsOK
  <2> QED
    BY <1>7, <1>a, <2>1, <2>2, Zenon DEF SendCount, login, shared, LoginOK, SharedOK
<1>8. ASSUME NEW c \in Conn, Take(c) PROVE LoginOK' /\ TasksOK' /\ CountsOK' /\ SharedOK'
  <2>1. TasksOK'
    BY <1>8, <1>a DEF Take, To, Pc, TasksOK
  <2>2. sessions[KeyOf[c]].in \in BOOLEAN
    BY <1>a, AuthedAssumption DEF LoginOK, Session
  <2>3. ref' \in [Conn -> BOOLEAN] /\ wallpaper' \in BOOLEAN
    BY <1>8, <1>a, <2>2, Zenon DEF Take, SharedOK
  <2> QED
    BY <1>8, <1>a, <2>1, <2>3, Zenon DEF Take, login, LoginOK, CountsOK, SharedOK
<1>9. ASSUME NEW c \in Conn, Receive(c) PROVE LoginOK' /\ TasksOK' /\ CountsOK' /\ SharedOK'
  <2>1. sessions' \in [Key -> Session] /\ active' \in [Key -> 0..MaxTime]
    BY <1>9, <1>a, AuthedAssumption DEF Receive, LoginOK, Session
  <2> QED
    BY <1>9, <1>a, <2>1, Zenon DEF Receive, shared, LoginOK, TasksOK, CountsOK, SharedOK
<1>10. ASSUME NEW c \in Conn, RecordResolution(c) \/ ChangeResolution(c)
       PROVE  LoginOK' /\ TasksOK' /\ CountsOK' /\ SharedOK'
  <2>1. TasksOK'
    BY <1>10, <1>a DEF RecordResolution, ChangeResolution, To, Pc, TasksOK
  <2>2. screen' \in {"own", "changed"} /\ record' \in {"none", "own", "changed"}
    BY <1>10, <1>a DEF RecordResolution, ChangeResolution, SharedOK
  <2> QED
    BY <1>10, <1>a, <2>1, <2>2, Zenon
       DEF RecordResolution, ChangeResolution, login, LoginOK, CountsOK, SharedOK
<1>11. ASSUME NEW c \in Conn, NEW retry \in BOOLEAN, End(c, retry)
       PROVE  LoginOK' /\ TasksOK' /\ CountsOK' /\ SharedOK'
  <2>1. TasksOK'
    BY <1>11, <1>a DEF End, Pc, TasksOK
  <2>2. sessions' \in [Key -> Session]
    BY <1>11, <1>a, SessionTypes DEF End, LoginOK
  <2>3. ref' \in [Conn -> BOOLEAN]
    <3>1. Held(sessions') \in [Conn -> BOOLEAN]
      BY <1>a, <2>2, SessionTypes
    <3> QED
      BY <1>11, <3>1, Zenon DEF End
  <2>4. pw' \in 1..MaxPw /\ good' \in [Key -> SUBSET (1..MaxPw)] /\ coded' \subseteq Key
    BY <1>11, <1>a, AuthedAssumption DEF End, LoginOK
  <2> QED
    BY <1>11, <1>a, <2>1, <2>2, <2>3, <2>4, Zenon DEF End, shared, LoginOK, CountsOK, SharedOK
<1>12. ASSUME NEW c \in Conn, Retain(c) PROVE LoginOK' /\ TasksOK' /\ CountsOK' /\ SharedOK'
  <2>1. TasksOK'
    BY <1>12, <1>a DEF Retain, To, Pc, TasksOK
  <2> QED
    BY <1>12, <1>a, <2>1, Zenon DEF Retain, login, shared, LoginOK, CountsOK, SharedOK
<1>13. ASSUME NEW c \in Conn, CountRemote(c) \/ ResetWallpaper(c)
       PROVE  LoginOK' /\ TasksOK' /\ CountsOK' /\ SharedOK'
  <2>1. TasksOK'
    BY <1>13, <1>a DEF CountRemote, ResetWallpaper, To, Pc, TasksOK
  <2> QED
    BY <1>13, <1>a, <2>1, Zenon
       DEF CountRemote, ResetWallpaper, login, shared, LoginOK, CountsOK, SharedOK
<1>14. ASSUME NEW c \in Conn, RestoreResolutions(c) \/ ClearResolutions(c)
       PROVE  LoginOK' /\ TasksOK' /\ CountsOK' /\ SharedOK'
  <2>1. TasksOK'
    BY <1>14, <1>a DEF RestoreResolutions, ClearResolutions, To, Pc, TasksOK
  <2>2. screen' \in {"own", "changed"} /\ record' \in {"none", "own", "changed"}
    BY <1>14, <1>a DEF RestoreResolutions, ClearResolutions, SharedOK
  <2> QED
    BY <1>14, <1>a, <2>1, <2>2, Zenon
       DEF RestoreResolutions, ClearResolutions, login, LoginOK, CountsOK, SharedOK
<1>15. ASSUME WakeLock PROVE LoginOK' /\ TasksOK' /\ CountsOK' /\ SharedOK'
  <2>1. CountsOK'
    BY <1>15, <1>a DEF WakeLock, CountsOK
  <2> QED
    BY <1>15, <1>a, <2>1, Zenon DEF WakeLock, login, shared, LoginOK, TasksOK, SharedOK
<1>16. ASSUME Tick PROVE LoginOK' /\ TasksOK' /\ CountsOK' /\ SharedOK'
  <2>1. now' \in 0..MaxTime
    BY <1>16, <1>a, AuthedAssumption DEF Tick, LoginOK
  <2> QED
    BY <1>16, <1>a, <2>1, Zenon DEF Tick, shared, LoginOK, TasksOK, CountsOK, SharedOK
<1>17. ASSUME UNCHANGED vars PROVE LoginOK' /\ TasksOK' /\ CountsOK' /\ SharedOK'
  BY <1>17, <1>a, Zenon DEF vars, login, shared, LoginOK, TasksOK, CountsOK, SharedOK
<1> QED
  BY <1>1, <1>2, <1>3, <1>4, <1>5, <1>6, <1>7, <1>8, <1>9, <1>10, <1>11, <1>12, <1>13, <1>14,
     <1>15, <1>16, <1>17 DEF Next

(* Every variable keeps its type, for any connections and sessions, and who is in       *)
(* AUTHED_CONNS agrees with how far each task came in AuthedConnID::new and its drop.   *)
THEOREM TypeCorrect == Spec => []TypeOK
BY InitTypeOK, NextTypeOK, PTL DEF Spec

-----------------------------------------------------------------------------
(* The wallpaper.                                                           *)

\* While the wallpaper is removed a remote connection is authorized, or one has left and
\* will find whether it was the last.
Answerable == ~wallpaper => \E c \in Remote : c \in authed \/ pc[c] \in {"left", "reset"}

LEMMA AnswerableStep == TypeOK /\ Answerable /\ [Next]_vars => Answerable'
<1> SUFFICES ASSUME TypeOK, Answerable, [Next]_vars, ~wallpaper'
             PROVE  \E c \in Remote : c \in authed' \/ pc'[c] \in {"left", "reset"}
  BY DEF Answerable
<1>a. TasksOK /\ Remote \subseteq Conn
  BY TypeParts, AuthedAssumption
<1>1. ASSUME NEW c \in Conn, Take(c) PROVE \E d \in Remote : d \in authed' \/ pc'[d] \in {"left", "reset"}
  <2>1. CASE wallpaper
    BY <1>1, <1>a, <2>1 DEF Take, To, TasksOK
  <2>2. CASE ~wallpaper
    BY <1>1, <1>a, <2>2 DEF Take, To, TasksOK, Answerable
  <2> QED
    BY <2>1, <2>2
<1>2. ASSUME NEW c \in Conn, ResetWallpaper(c) PROVE FALSE
  BY <1>2 DEF ResetWallpaper
<1>3. ASSUME UNCHANGED wallpaper, \A d \in Remote : d \in authed \/ pc[d] \in {"left", "reset"}
                                     => d \in authed' \/ pc'[d] \in {"left", "reset"}
      PROVE  \E d \in Remote : d \in authed' \/ pc'[d] \in {"left", "reset"}
  BY <1>3 DEF Answerable
<1>4. ASSUME NEW c \in Conn, CountRemote(c)
      PROVE  \E d \in Remote : d \in authed' \/ pc'[d] \in {"left", "reset"}
  BY <1>4, <1>3, <1>a DEF CountRemote, To, shared, TasksOK
<1>5. ASSUME NEW c \in Conn, Retain(c)
      PROVE  \E d \in Remote : d \in authed' \/ pc'[d] \in {"left", "reset"}
  BY <1>5, <1>3, <1>a DEF Retain, To, shared, TasksOK
<1>6. ASSUME NEW c \in Conn, Push(c)
      PROVE  \E d \in Remote : d \in authed' \/ pc'[d] \in {"left", "reset"}
  BY <1>6, <1>3, <1>a DEF Push, To, shared, TasksOK
<1>7. ASSUME NEW c \in Conn, Connect(c) \/ SendLogon(c) \/ Auth2fa(c) \/ CountConns(c) \/ SendCount(c)
      PROVE  \E d \in Remote : d \in authed' \/ pc'[d] \in {"left", "reset"}
  BY <1>7, <1>3, <1>a DEF Connect, SendLogon, Auth2fa, CountConns, SendCount, To, shared, TasksOK
<1>8. ASSUME NEW c \in Conn, RecordResolution(c) \/ ChangeResolution(c) \/ RestoreResolutions(c)
                               \/ ClearResolutions(c)
      PROVE  \E d \in Remote : d \in authed' \/ pc'[d] \in {"left", "reset"}
  BY <1>8, <1>3, <1>a
     DEF RecordResolution, ChangeResolution, RestoreResolutions, ClearResolutions, To, TasksOK
<1>9. ASSUME NEW c \in Conn, NEW p \in 0..MaxPw, LoginRequest(c, p)
      PROVE  \E d \in Remote : d \in authed' \/ pc'[d] \in {"left", "reset"}
  BY <1>9, <1>3, <1>a DEF LoginRequest, Accept, shared, TasksOK
<1>10. ASSUME NEW c \in Conn, NEW retry \in BOOLEAN, End(c, retry)
       PROVE  \E d \in Remote : d \in authed' \/ pc'[d] \in {"left", "reset"}
  BY <1>10, <1>3, <1>a DEF End, shared, TasksOK
<1>11. ASSUME (\E c \in Conn : Receive(c)) \/ WakeLock \/ Tick \/ UNCHANGED vars
       PROVE  \E d \in Remote : d \in authed' \/ pc'[d] \in {"left", "reset"}
  BY <1>11, <1>3 DEF Receive, WakeLock, Tick, shared, vars
<1> QED
  BY <1>1, <1>2, <1>4, <1>5, <1>6, <1>7, <1>8, <1>9, <1>10, <1>11 DEF Next

(* However the drops of AuthedConnID and the logins of new connections interleave, the  *)
(* wallpaper is back when no remote connection is authorized and none is leaving.       *)
THEOREM WallpaperRestored == Spec => []WallpaperBack
<1>1. Init => Answerable
  BY DEF Init, Answerable
<1>2. TypeOK /\ Answerable => WallpaperBack
  BY AuthedAssumption DEF TypeOK, Answerable, WallpaperBack
<1> QED
  BY <1>1, <1>2, AnswerableStep, TypeCorrect, PTL DEF Spec

-----------------------------------------------------------------------------
(* Who is let in.                                                           *)

\* A session in a table ss vouches only for what happened: its password was right, its
\* second factor was given, and it saw a message no later than its peer was active.
Vouched(ss) ==
  \A k \in Key : /\ ss[k].pw # Perm => ss[k].in /\ ss[k].pw \in good[k]
                 /\ ss[k].tfa => ss[k].in /\ k \in coded
                 /\ ss[k].in => ss[k].recv <= active[k]

Vouching == Vouched(sessions) /\ \A k \in Key : active[k] <= now

LEMMA RetainedVouched ==
  ASSUME LoginOK, Vouched(sessions)
  PROVE  /\ Vouched(Retained)
         /\ \A k \in Key : Retained[k].tfa => Retained[k].in
         /\ \A k \in Key : Retained[k].in =>
               Retained[k] = sessions[k] /\ now - sessions[k].recv < Timeout
<1> SUFFICES ASSUME NEW k \in Key
             PROVE  \/ Retained[k] = None
                    \/ Retained[k] = sessions[k] /\ sessions[k].in /\ now - sessions[k].recv < Timeout
  BY DEF Vouched, None
<1> QED
  BY DEF Retained

LEMMA VouchingStep == TypeOK /\ Vouching /\ [Next]_vars => Vouching'
<1> SUFFICES ASSUME TypeOK, Vouching, [Next]_vars PROVE Vouching'
  OBVIOUS
<1>a. LoginOK /\ KeyOf \in [Conn -> Key]
  BY TypeParts, AuthedAssumption
<1>b. now \in Int /\ \A k \in Key : /\ active[k] \in Int /\ sessions[k].recv \in Int
                                    /\ sessions[k].pw \in Int /\ sessions[k].in \in BOOLEAN
                                    /\ active[k] <= now
  BY <1>a DEF LoginOK, Session, Vouching
<1>0. ASSUME UNCHANGED <<now, good, coded, active>>, sessions' \in {sessions, Retained} PROVE Vouching'
  <2>1. Vouched(sessions') /\ \A k \in Key : active[k] <= now
    BY <1>0, <1>a, RetainedVouched DEF Vouching
  <2> QED
    BY <1>0, <2>1, Zenon DEF Vouching, Vouched
<1>1. ASSUME NEW c \in Conn, NEW p \in 0..MaxPw, LoginRequest(c, p) PROVE Vouching'
  <2> DEFINE k == KeyOf[c]
  <2>1. CASE sessions' = Retained /\ UNCHANGED <<good, coded, active>>
    BY <1>1, <1>0, <2>1 DEF LoginRequest
  <2>2. CASE /\ sessions' = UpdateOrInsert(Retained, k, p, FALSE)
             /\ good' = [good EXCEPT ![k] = {p} \cup IF Retained[k].in THEN @ ELSE {}]
             /\ coded' = coded \ {k}
             /\ active' = [active EXCEPT ![k] = now]
    <3>0. now' = now /\ k \in Key /\ Vouched(Retained) /\ Retained \in [Key -> Session]
      BY <1>1, <1>a, RetainedVouched, SessionTypes DEF LoginRequest, Vouching
    <3>1. ASSUME NEW j \in Key
          PROVE  /\ sessions'[j].pw # Perm => sessions'[j].in /\ sessions'[j].pw \in good'[j]
                 /\ sessions'[j].tfa => sessions'[j].in /\ j \in coded'
                 /\ sessions'[j].in => sessions'[j].recv <= active'[j]
      <4>1. CASE j = k
        <5>1. sessions'[k] = [in |-> TRUE, pw |-> p, tfa |-> FALSE,
                              recv |-> IF Retained[k].in THEN Retained[k].recv ELSE now]
          BY <2>2, <3>0 DEF UpdateOrInsert
        <5>2. p \in good'[k] /\ active'[k] = now
          BY <2>2, <3>0, <1>a DEF LoginOK
        <5>3. Retained[k].in => Retained[k].recv <= now
          BY <1>a, <1>b, <3>0, RetainedVouched DEF Vouched, Vouching
        <5> QED
          BY <4>1, <5>1, <5>2, <5>3, <1>b
      <4>2. CASE j # k
        <5>1. sessions'[j] = Retained[j]
          BY <2>2, <3>0, <4>2 DEF UpdateOrInsert
        <5>2. good'[j] = good[j] /\ (j \in coded' <=> j \in coded) /\ active'[j] = active[j]
          BY <2>2, <3>0, <4>2, <1>a DEF LoginOK
        <5> QED
          BY <3>0, <3>1, <5>1, <5>2 DEF Vouched
      <4> QED BY <4>1, <4>2
    <3>2. \A j \in Key : active'[j] <= now'
      BY <2>2, <3>0, <1>a, <1>b DEF LoginOK
    <3> QED
      BY <3>1, <3>2, Zenon DEF Vouching, Vouched
  <2> QED
    BY <1>1, <2>1, <2>2 DEF LoginRequest
<1>2. ASSUME NEW c \in Conn, SendLogon(c) PROVE Vouching'
  BY <1>2, <1>0 DEF SendLogon
<1>3. ASSUME NEW c \in Conn, Auth2fa(c) PROVE Vouching'
  <2> DEFINE k == KeyOf[c]
  <2>0. now' = now /\ k \in Key /\ UNCHANGED good
    BY <1>3, <1>a DEF Auth2fa
  <2>1. ASSUME NEW j \in Key
        PROVE  /\ sessions'[j].pw # Perm => sessions'[j].in /\ sessions'[j].pw \in good'[j]
               /\ sessions'[j].tfa => sessions'[j].in /\ j \in coded'
               /\ sessions'[j].in => sessions'[j].recv <= active'[j]
    <3>1. CASE j = k
      <4>1. sessions'[k] = [in |-> TRUE, pw |-> sessions[k].pw, tfa |-> TRUE,
                            recv |-> IF sessions[k].in THEN sessions[k].recv ELSE now]
        BY <1>3, <1>a, <2>0 DEF Auth2fa, UpdateOrInsert, LoginOK
      <4>2. k \in coded' /\ active'[k] = now
        BY <1>3, <1>a, <2>0 DEF Auth2fa, LoginOK
      <4>3. sessions[k].in => sessions[k].recv <= now
        BY <1>b, <2>0 DEF Vouched, Vouching
      <4>4. sessions[k].pw # Perm => sessions[k].pw \in good[k]
        BY <2>0 DEF Vouching, Vouched
      <4> QED
        BY <2>0, <3>1, <4>1, <4>2, <4>3, <4>4, <1>b
    <3>2. CASE j # k
      <4>1. sessions'[j] = sessions[j] /\ (j \in coded' <=> j \in coded) /\ active'[j] = active[j]
        BY <1>3, <1>a, <2>0, <3>2 DEF Auth2fa, UpdateOrInsert, LoginOK
      <4> QED
        BY <2>0, <2>1, <4>1 DEF Vouching, Vouched
    <3> QED BY <3>1, <3>2
  <2>2. \A j \in Key : active'[j] <= now'
    BY <1>3, <2>0, <1>a, <1>b DEF Auth2fa, LoginOK
  <2> QED
    BY <2>1, <2>2, Zenon DEF Vouching, Vouched
<1>4. ASSUME NEW c \in Conn, Receive(c) PROVE Vouching'
  <2>1. \A j \in Key : /\ sessions'[j].in = sessions[j].in /\ sessions'[j].pw = sessions[j].pw
                       /\ sessions'[j].tfa = sessions[j].tfa
                       /\ \/ sessions'[j].recv = sessions[j].recv /\ active'[j] = active[j]
                          \/ sessions'[j].recv = now /\ active'[j] = now
    BY <1>4, <1>a DEF Receive, LoginOK, Session
  <2>2. UNCHANGED <<now, good, coded>>
    BY <1>4 DEF Receive
  <2> QED
    BY <2>1, <2>2, <1>b DEF Vouching, Vouched
<1>5. ASSUME NEW c \in Conn, NEW retry \in BOOLEAN, End(c, retry) PROVE Vouching'
  <2> DEFINE k == KeyOf[c]
  <2>0. k \in Key /\ UNCHANGED <<now, active>>
    BY <1>5, <1>a DEF End
  <2>1. \A j \in Key : sessions'[j] \in {sessions[j], None}
    BY <1>5, <1>a, <2>0 DEF End, check_remove_session, LoginOK
  <2>2. CASE ~retry /\ c \in authed \cap Remote
    <3>1. sessions'[k] = None
      BY <1>5, <1>a, <2>0, <2>2 DEF End, check_remove_session, LoginOK
    <3>2. \A j \in Key \ {k} : good'[j] = good[j] /\ (j \in coded' <=> j \in coded)
      BY <1>5, <1>a, <2>0, <2>2 DEF End, LoginOK
    <3> QED
      BY <2>0, <2>1, <3>1, <3>2 DEF Vouching, Vouched, None
  <2>3. CASE ~(~retry /\ c \in authed \cap Remote)
    <3>1. UNCHANGED <<good, coded>>
      BY <1>5, <2>3 DEF End
    <3> QED
      BY <2>0, <2>1, <3>1 DEF Vouching, Vouched, None
  <2> QED
    BY <2>2, <2>3
<1>6. ASSUME Tick PROVE Vouching'
  BY <1>6, <1>b DEF Tick, Vouching, Vouched
<1>7. ASSUME UNCHANGED login PROVE Vouching'
  BY <1>7, <1>0 DEF login
<1>8. ASSUME NEW c \in Conn, \/ Connect(c) \/ Push(c) \/ CountConns(c) \/ SendCount(c) \/ Take(c)
                             \/ RecordResolution(c) \/ ChangeResolution(c) \/ Retain(c)
                             \/ CountRemote(c) \/ ResetWallpaper(c) \/ RestoreResolutions(c)
                             \/ ClearResolutions(c)
      PROVE  UNCHANGED login
  BY <1>8, Zenon DEF Connect, Push, CountConns, SendCount, Take, RecordResolution, ChangeResolution, Retain,
     CountRemote, ResetWallpaper, RestoreResolutions, ClearResolutions
<1>9. ASSUME WakeLock \/ UNCHANGED vars PROVE UNCHANGED login
  BY <1>9, Zenon DEF WakeLock, vars
<1> QED
  BY <1>1, <1>2, <1>3, <1>4, <1>5, <1>6, <1>7, <1>8, <1>9, Zenon DEF Next

\* Only two steps bring a task to the logon response, or past it without a code.
LEMMA ToLogonOrPush ==
  ASSUME TasksOK, [Next]_vars, NEW c \in Conn, pc'[c] # pc[c],
         \/ pc'[c] = "logon"
         \/ pc[c] = "logon" /\ pc'[c] = "push"
  PROVE  SendLogon(c) \/ \E p \in 0..MaxPw : LoginRequest(c, p)
<1>2. ASSUME NEW d \in Conn, Connect(d) \/ Auth2fa(d) \/ Push(d) \/ CountConns(d) \/ SendCount(d) \/ Take(d)
      PROVE  FALSE
  BY <1>2 DEF TasksOK, Connect, Auth2fa, Push, CountConns, SendCount, Take, To
<1>3. ASSUME NEW d \in Conn, \/ RecordResolution(d) \/ ChangeResolution(d) \/ Retain(d)
                             \/ CountRemote(d) \/ ResetWallpaper(d)
      PROVE  FALSE
  BY <1>3 DEF TasksOK, RecordResolution, ChangeResolution, Retain, CountRemote, ResetWallpaper, To
<1>4. ASSUME NEW d \in Conn, RestoreResolutions(d) \/ ClearResolutions(d) PROVE FALSE
  BY <1>4 DEF TasksOK, RestoreResolutions, ClearResolutions, To
<1>5. ASSUME NEW d \in Conn, NEW retry \in BOOLEAN, End(d, retry) PROVE FALSE
  BY <1>5 DEF TasksOK, End
<1>6. ASSUME NEW d \in Conn, SendLogon(d) PROVE d = c
  BY <1>6 DEF TasksOK, SendLogon, To
<1>7. ASSUME NEW d \in Conn, NEW p \in 0..MaxPw, LoginRequest(d, p) PROVE d = c
  BY <1>7 DEF TasksOK, LoginRequest, Accept
<1>8. ASSUME (\E d \in Conn : Receive(d)) \/ WakeLock \/ Tick \/ UNCHANGED vars PROVE FALSE
  BY <1>8 DEF Receive, WakeLock, Tick, vars
<1> QED
  BY <1>2, <1>3, <1>4, <1>5, <1>6, <1>7, <1>8, Zenon DEF Next

LEMMA LetInByNext == TypeOK /\ Vouching /\ [Next]_vars => LetInStep
<1> SUFFICES ASSUME TypeOK, Vouching, [Next]_vars, NEW c \in Conn
             PROVE  /\ (pc[c] \in {"login", "code"} /\ pc'[c] = "logon" /\ given'[c] \notin {pw, Perm})
                         => given'[c] \in good[KeyOf[c]] /\ now - active[KeyOf[c]] < Timeout
                    /\ (pc[c] = "logon" /\ pc'[c] = "push" /\ need[c])
                         => KeyOf[c] \in coded /\ now - active[KeyOf[c]] < Timeout
  BY DEF LetInStep
<1> DEFINE k == KeyOf[c]
<1>a. LoginOK /\ TasksOK /\ k \in Key /\ Vouched(sessions)
  BY TypeParts, AuthedAssumption DEF Vouching
<1>b. Retained[k].in => /\ Retained[k].pw # Perm => Retained[k].pw \in good[k]
                        /\ Retained[k].tfa => k \in coded
                        /\ now - active[k] < Timeout
  <2>1. Retained[k].in => now - sessions[k].recv < Timeout /\ sessions[k].recv <= active[k]
    BY <1>a, RetainedVouched DEF Vouched
  <2>2. now \in Int /\ active[k] \in Int /\ sessions[k].recv \in Int /\ Timeout \in Int
    BY <1>a, AuthedAssumption DEF LoginOK, Session
  <2>3. Retained[k].in => now - active[k] < Timeout
    BY <2>1, <2>2
  <2> QED
    BY <1>a, <2>3, RetainedVouched DEF Vouched
<1>1. ASSUME pc[c] \in {"login", "code"}, pc'[c] = "logon" PROVE \E p \in 0..MaxPw : LoginRequest(c, p)
  <2>1. ~SendLogon(c)
    BY <1>1 DEF SendLogon, To
  <2> QED
    BY <1>1, <1>a, <2>1, ToLogonOrPush
<1>2. ASSUME pc[c] = "logon", pc'[c] = "push" PROVE SendLogon(c)
  <2>1. ASSUME NEW p \in 0..MaxPw PROVE ~LoginRequest(c, p)
    BY <1>2 DEF LoginRequest
  <2> QED
    BY <1>2, <1>a, <2>1, ToLogonOrPush
<1>3. ASSUME NEW p \in 0..MaxPw, LoginRequest(c, p), given'[c] \notin {pw, Perm}, pc[c] \in {"login", "code"},
             pc'[c] = "logon"
      PROVE  given'[c] \in good[k] /\ now - active[k] < Timeout
  <2>1. pc'[c] # pc[c]
    BY <1>3
  <2>2. given' = [given EXCEPT ![c] = p]
    BY <1>3, <2>1 DEF LoginRequest, Accept
  <2>3. given'[c] = p
    BY <2>2, <1>a DEF LoginOK
  <2>4. Retained[k].in /\ p # Perm /\ Retained[k].pw = p
    BY <1>3, <2>1, <2>3 DEF LoginRequest
  <2> QED
    BY <2>3, <2>4, <1>b
<1>4. ASSUME SendLogon(c), pc'[c] = "push", need[c], pc[c] = "logon"
      PROVE  k \in coded /\ now - active[k] < Timeout
  <2>1. Retained[k].tfa
    BY <1>4, <1>a DEF SendLogon, To, TasksOK
  <2> QED
    BY <2>1, <1>a, <1>b, RetainedVouched
<1> QED
  BY <1>1, <1>2, <1>3, <1>4

(* Whatever connections share a session and however they come, expire and end, an old    *)
(* temporary password opens only a session it was right for, that was not closed for     *)
(* good and not silent too long, and so does a skipped second factor.                    *)
THEOREM OnlyKnownLetIn == Spec => LetIn
<1>1. Init => Vouching
  BY DEF Init, Vouching, Vouched, None
<1> QED
  BY <1>1, VouchingStep, LetInByNext, TypeCorrect, PTL DEF Spec, LetIn

-----------------------------------------------------------------------------
(* The wake lock.                                                           *)

\* What was counted and not sent is still right, unless the race happened.
Counted == ~raced => \A c \in Conn : pc[c] = "send" => count[c] = Cardinality(authed)

\* What the thread of the wake lock will have been told when it has read its channel.
Latest == IF wake.queue = << >> THEN wake.held ELSE wake.queue[Len(wake.queue)] > 0

Unsettled == {"count", "send", "left", "reset", "restore", "clear"}
Told == (~raced /\ \A c \in Conn : pc[c] \notin Unsettled) => (Latest <=> authed # {})

\* A step that changes neither who is authorized nor what was counted and sent.
LEMMA QuietStep ==
  ASSUME Counted, Told, UNCHANGED <<authed, wake, raced>>,
         \A c \in Conn : pc'[c] = "send" => pc[c] = "send" /\ count'[c] = count[c],
         \A c \in Conn : pc[c] \in Unsettled => pc'[c] \in Unsettled
  PROVE  Counted' /\ Told'
BY DEF Counted, Told, Latest

LEMMA ToldStep == TypeOK /\ Counted /\ Told /\ [Next]_vars => Counted' /\ Told'
<1> SUFFICES ASSUME TypeOK, Counted, Told, [Next]_vars PROVE Counted' /\ Told'
  OBVIOUS
<1>a. TasksOK /\ CountsOK /\ SharedOK
  BY TypeParts
<1>b. IsFiniteSet(authed) /\ Cardinality(authed) \in Nat /\ (Cardinality(authed) > 0 <=> authed # {})
  BY <1>a, CountBound, FS_CardinalityType, FS_EmptySet DEF TasksOK
<1>1. ASSUME NEW c \in Conn, Connect(c) \/ SendLogon(c) \/ Auth2fa(c) \/ Take(c)
      PROVE  Counted' /\ Told'
  BY <1>1, <1>a, QuietStep DEF Connect, SendLogon, Auth2fa, Take, To, TasksOK, Unsettled
<1>2. ASSUME NEW c \in Conn, RecordResolution(c) \/ ChangeResolution(c) \/ CountRemote(c) \/ ResetWallpaper(c)
      PROVE  Counted' /\ Told'
  BY <1>2, <1>a, QuietStep
     DEF RecordResolution, ChangeResolution, CountRemote, ResetWallpaper, To, TasksOK, Unsettled
<1>3. ASSUME NEW c \in Conn, RestoreResolutions(c) \/ ClearResolutions(c) PROVE Counted' /\ Told'
  BY <1>3, <1>a, QuietStep DEF RestoreResolutions, ClearResolutions, To, TasksOK, Unsettled
<1>4. ASSUME NEW c \in Conn, NEW p \in 0..MaxPw, LoginRequest(c, p) PROVE Counted' /\ Told'
  BY <1>4, <1>a, QuietStep DEF LoginRequest, Accept, TasksOK, Unsettled
<1>5. ASSUME NEW c \in Conn, NEW retry \in BOOLEAN, End(c, retry) PROVE Counted' /\ Told'
  BY <1>5, <1>a, QuietStep DEF End, TasksOK, Unsettled
<1>6. ASSUME (\E c \in Conn : Receive(c)) \/ Tick \/ UNCHANGED vars PROVE Counted' /\ Told'
  BY <1>6, QuietStep DEF Receive, Tick, vars
<1>7. ASSUME NEW c \in Conn, Push(c) \/ Retain(c) PROVE Counted' /\ Told'
  <2>1. pc'[c] \in Unsettled
    BY <1>7, <1>a DEF Push, Retain, To, TasksOK, Unsettled
  <2>2. ASSUME NEW d \in Conn, pc'[d] = "send" PROVE raced'
    <3>1. d # c /\ pc[d] = "send"
      BY <1>7, <1>a, <2>2 DEF Push, Retain, To, TasksOK
    <3> QED
      BY <1>7, <3>1, Zenon DEF Push, Retain
  <2> QED
    BY <2>1, <2>2 DEF Counted, Told
<1>8. ASSUME NEW c \in Conn, CountConns(c) PROVE Counted' /\ Told'
  <2>1. UNCHANGED <<authed, wake, raced>> /\ pc'[c] = "send" /\ count'[c] = Cardinality(authed)
    BY <1>8, <1>a DEF CountConns, To, TasksOK, CountsOK
  <2>2. \A d \in Conn \ {c} : pc'[d] = pc[d] /\ count'[d] = count[d]
    BY <1>8, <1>a DEF CountConns, To, TasksOK, CountsOK
  <2> QED
    BY <2>1, <2>2 DEF Counted, Told, Unsettled
<1>9. ASSUME NEW c \in Conn, SendCount(c) PROVE Counted' /\ Told'
  <2>1. UNCHANGED <<authed, raced>> /\ pc[c] = "send" /\ pc'[c] # "send"
    BY <1>9, <1>a DEF SendCount, To, TasksOK
  <2>2. \A d \in Conn \ {c} : pc'[d] = pc[d] /\ count'[d] = count[d]
    BY <1>9, <1>a DEF SendCount, To, TasksOK, CountsOK
  <2>3. wake' = [held |-> wake.held, queue |-> Append(wake.queue, count[c])]
    BY <1>9 DEF SendCount
  <2>4. Latest' <=> count[c] > 0
    <3>1. wake'.queue = Append(wake.queue, count[c])
      BY <2>3
    <3>2. wake.queue \in Seq(0..Cardinality(Conn)) /\ count[c] \in 0..Cardinality(Conn)
      BY <1>a DEF CountsOK
    <3>3. wake'.queue # << >> /\ wake'.queue[Len(wake'.queue)] = count[c]
      BY <3>1, <3>2
    <3> QED
      BY <3>3 DEF Latest
  <2>5. Counted'
    BY <2>1, <2>2 DEF Counted
  <2>6. ~raced => count[c] = Cardinality(authed)
    BY <2>1 DEF Counted
  <2>7. Told'
    BY <2>1, <2>4, <2>6, <1>b DEF Told
  <2> QED
    BY <2>5, <2>7
<1>10. ASSUME WakeLock PROVE Counted' /\ Told'
  <2>1. UNCHANGED <<pc, count, authed, raced>>
    BY <1>10 DEF WakeLock
  <2>2. wake' = [held |-> Head(wake.queue) > 0, queue |-> Tail(wake.queue)] /\ wake.queue # << >>
        /\ wake.queue \in Seq(0..Cardinality(Conn))
    BY <1>10, <1>a DEF WakeLock, CountsOK
  <2>3. Latest' <=> Latest
    <3>1. wake'.queue = Tail(wake.queue) /\ (wake'.held <=> Head(wake.queue) > 0)
      BY <2>2
    <3>2. CASE Len(wake.queue) = 1
      <4>1. Tail(wake.queue) = << >> /\ Head(wake.queue) = wake.queue[Len(wake.queue)]
        BY <2>2, <3>2
      <4> QED
        BY <2>2, <3>1, <4>1 DEF Latest
    <3>3. CASE Len(wake.queue) # 1
      <4>1. /\ Len(wake.queue) \in Nat \ {0, 1} /\ Tail(wake.queue) # << >>
            /\ Len(Tail(wake.queue)) = Len(wake.queue) - 1
        <5>1. Len(wake.queue) \in Nat \ {0}
          BY <2>2, EmptySeq
        <5>2. Len(Tail(wake.queue)) = Len(wake.queue) - 1
          BY <2>2, HeadTailProperties
        <5>3. Tail(wake.queue) # << >>
          <6>1. Len(<< >>) = 0
            OBVIOUS
          <6>2. Len(Tail(wake.queue)) # 0
            BY <3>3, <5>1, <5>2
          <6> QED
            BY <6>1, <6>2, Zenon
        <5> QED
          BY <3>3, <5>1, <5>2, <5>3
      <4>2. Tail(wake.queue)[Len(wake.queue) - 1] = wake.queue[Len(wake.queue)]
        BY <2>2, <4>1
      <4> QED
        BY <2>2, <3>1, <4>1, <4>2 DEF Latest
    <3> QED
      BY <3>2, <3>3
  <2> QED
    BY <2>1, <2>3 DEF Counted, Told
<1> QED
  BY <1>1, <1>2, <1>3, <1>4, <1>5, <1>6, <1>7, <1>8, <1>9, <1>10, Zenon DEF Next

(* The machine is kept awake exactly while a connection is authorized, in every run where *)
(* no connection came or went between the count and the send of another's check_wake_lock.*)
THEOREM KeptAwake == Spec => []Awake
<1>1. Init => Counted /\ Told
  BY DEF Init, Counted, Told, Latest, Unsettled
<1>2. TypeOK /\ Told => Awake
  <2> SUFFICES ASSUME TypeOK, Told, ~raced, wake.queue = << >>,
                      \A c \in Conn : pc[c] \notin {"count", "send"} \cup Dropped
               PROVE  wake.held = (authed # {})
    BY DEF Awake
  <2>1. wake.held <=> authed # {}
    BY DEF Told, Latest, Unsettled, Dropped
  <2>2. wake.held \in BOOLEAN
    BY TypeParts DEF CountsOK
  <2> QED
    BY <2>1, <2>2, Zenon
<1> QED
  BY <1>1, <1>2, ToldStep, TypeCorrect, PTL DEF Spec
=============================================================================
