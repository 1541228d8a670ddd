------------------------------ MODULE Terminal ------------------------------
(***************************************************************************)
(* One terminal service of the controlled side (server/terminal_service.rs)*)
(* and the connections of one client that use it one after another: each   *)
(* has a thread that polls the terminals' output (run, read_outputs).  The *)
(* client comes back when it lost its connection, which the controlled     *)
(* side may notice only later, so two such threads may run at a time.      *)
(*                                                                         *)
(* A session is a number; the service's table maps terminal ids to them.   *)
(* A byte of output is the session and a count of what its shell wrote.    *)
(***************************************************************************)
EXTENDS OutputBuffer

CONSTANTS
  Conns,         \* the number of connections of the client
  Ids,           \* the terminal ids the client uses
  OpenRows, Rows, \* the heights a terminal is opened with, and may have
  ChannelSize,   \* CHANNEL_BUFFER_SIZE
  ReplayBytes,   \* DEFAULT_RECONNECT_BUFFER_BYTES
  Attempts,      \* MAX_SIGWINCH_PHASE_ATTEMPTS
  LineEnds,      \* the chunks of a shell's output that end a line
  MaxOut,        \* bound: [session -> chunks that its shell writes]
  MaxErrors,     \* bound: failed resizes
  Scenarios      \* bound: sets of what may happen in one behaviour, beside terminals
                 \* that are opened and closed, on connections that come and go

ASSUME TerminalAssumption ==
  /\ Conns \in Nat \ {0} /\ Ids \subseteq Nat /\ OpenRows \subseteq Rows /\ Rows \subseteq Nat \ {0}
  /\ {ChannelSize, ReplayBytes, Attempts, MaxErrors} \subseteq Nat
  /\ Scenarios \subseteq SUBSET {"output", "exit", "resize", "persist", "cleanup",
                              "overlap"}
  /\ MaxOut \in Seq(Nat) /\ LineEnds \subseteq Nat /\ NL \notin (DOMAIN MaxOut) \X Nat

VARIABLES
  may,        \* the scenario of this behaviour
  svc,        \* the service in TERMINAL_SERVICES, or NoService
  sess,       \* Seq(Session): the sessions that were ever created
  conn,       \* [Conn -> the connection's state]
  run,        \* [Conn -> the state of its service thread]
  client,     \* the client: its connection, terminals and what they show
  doomed,     \* cleanup_inactive_services chose the service and will remove it
  overlapped, \* history: a connection started while the thread of another ran
  errors

vars == <<may, svc, sess, conn, run, client, doomed, overlapped, errors>>

Conn == 1..Conns
Sid  == DOMAIN MaxOut
Byte == {NL} \cup (Sid \X (Nat \ {0}))

\* `sync': needs_session_sync; `sessions': [some ids -> Sid]; `gen' tells services
\* that had the same service id apart.
NoService == [gen |-> 0, persistent |-> FALSE, sync |-> FALSE, sessions |-> << >>]

\* `alive': the shell runs, and with it the reader thread; `told':
\* closed_message_sent; `active', `pending', `phase', `retries': state.  History:
\* `out', `lost': how many chunks the shell wrote, and which of them found the
\* channel full; `asked': the client closed it.
Session ==
  [alive : BOOLEAN, stopped : BOOLEAN, told : BOOLEAN,
   chan : Seq(Seq(Byte)), buf : OutputBufferType(Byte),
   active : BOOLEAN, pending : Seq(Byte), phase : {"idle", "temp", "restore"},
   retries : 0..Attempts, rows : Rows, pty : Nat,
   out : Nat, lost : SUBSET Nat, asked : BOOLEAN]

\* A service thread: `todo', the terminals still to be read, as they were when the
\* list was cloned; `out', `closed': responses and closed_terminals.
Off == [pc |-> "off", gen |-> 0, persistent |-> FALSE, todo |-> {}, out |-> << >>,
        closed |-> {}]

Service ==
  [gen : 0..Conns, persistent : BOOLEAN, sync : BOOLEAN,
   sessions : UNION {[D -> Sid] : D \in SUBSET Ids}]

Thread ==
  [pc : {"off", "poll", "read", "finish", "remove"}, gen : 0..Conns, persistent : BOOLEAN,
   todo : SUBSET (Ids \X Sid), out : Seq(Ids \X Seq(Byte)), closed : SUBSET Ids]

Client ==
  [cur : 0..Conns, opened : SUBSET Ids, used : SUBSET Ids, known : SUBSET Ids,
   got : [Ids -> Seq(Byte)]]

TypeOK ==
  /\ may \in Scenarios
  /\ svc \in Service /\ run \in [Conn -> Thread] /\ client \in Client
  /\ sess \in Seq(Session) /\ DOMAIN sess \subseteq Sid
  /\ conn \in [Conn -> {"none", "live", "closing", "gone"}]
  /\ \A i \in DOMAIN svc.sessions :
       svc.sessions[i] \in DOMAIN sess /\ ~sess[svc.sessions[i]].stopped
  /\ \A c \in Conn : \A e \in run[c].todo : e[2] \in DOMAIN sess
  /\ client.opened \subseteq client.used /\ client.used \subseteq client.known
  /\ doomed \in BOOLEAN /\ overlapped \in BOOLEAN /\ errors \in 0..MaxErrors

\* `opened': terminals that are open, `used': that were, in this connection; `known':
\* and those it was told of.
NoClient == [cur |-> 0, opened |-> {}, used |-> {}, known |-> {},
             got |-> [i \in Ids |-> << >>]]

Init ==
  /\ may \in Scenarios
  /\ svc = NoService /\ sess = << >>
  /\ conn = [c \in Conn |-> "none"] /\ run = [c \in Conn |-> Off]
  /\ client = NoClient /\ doomed = FALSE /\ overlapped = FALSE /\ errors = 0

Without(f, D) == [j \in DOMAIN f \ D |-> f[j]]
With(f, i, x) == [j \in DOMAIN f \cup {i} |-> IF j = i THEN x ELSE f[j]]

-----------------------------------------------------------------------------
(* Sessions and the registry.                                              *)

\* TerminalSession::new, and what handle_open starts for it.
NewSession(r) ==
  [alive |-> TRUE, stopped |-> FALSE, told |-> FALSE, chan |-> << >>, buf |-> NewBuffer,
   active |-> TRUE, pending |-> << >>, phase |-> "idle", retries |-> 0,
   rows |-> r, pty |-> r, out |-> 0, lost |-> {}, asked |-> FALSE]

\* The threads are joined, the shell is killed and handed to the reaper.
stop(x) ==
  [x EXCEPT !.alive = FALSE, !.stopped = TRUE, !.chan = << >>, !.active = FALSE,
            !.pending = << >>, !.phase = "idle", !.retries = 0]

\* A mistake: the first thread that lets go of a session stops it.
Dropped_Early(ss, table, threads) ==
  [s \in DOMAIN ss |->
     IF ss[s].stopped \/ \E c \in Conn : \E e \in threads[c].todo : e[2] = s
     THEN ss[s] ELSE stop(ss[s])]

\* A session that is in no table and in no thread's list is dropped, hence stopped.
Dropped(ss, table, threads) ==
  [s \in DOMAIN ss |->
     IF ss[s].stopped \/ s \in {table[i] : i \in DOMAIN table}
          \/ \E c \in Conn : \E e \in threads[c].todo : e[2] = s
     THEN ss[s] ELSE stop(ss[s])]

remove_service ==
  /\ svc' = NoService
  /\ sess' = [s \in DOMAIN sess |->
                IF \E i \in DOMAIN svc.sessions : svc.sessions[i] = s
                THEN stop(sess[s]) ELSE sess[s]]

\* get_or_create_service: the service is created, or its status reset.
reset_status(c, p) ==
  IF svc = NoService THEN [NoService EXCEPT !.gen = c, !.persistent = p, !.sync = TRUE]
                     ELSE [svc EXCEPT !.persistent = p, !.sync = TRUE]

-----------------------------------------------------------------------------
(* Connections.                                                            *)

\* A client that has no connection, or whose connection is broken, logs in with the
\* service id it stored; `p' is its terminal_persistent option.
init_terminal_service(c, p) ==
  /\ conn[c] = "none" /\ (c > 1 => conn[c - 1] # "none")
  /\ p \/ "persist" \in may
  /\ "overlap" \in may \/ \A d \in Conn : run[d].pc = "off"
  /\ conn' = [conn EXCEPT ![c] = "live"]
  /\ svc' = reset_status(c, p)
  /\ sess' = [s \in DOMAIN sess |->
                IF \E i \in DOMAIN svc.sessions : svc.sessions[i] = s
                THEN [sess[s] EXCEPT !.active = FALSE, !.pending = << >>,
                                     !.phase = "idle", !.retries = 0]
                ELSE sess[s]]
  /\ overlapped' = (overlapped \/ \E d \in Conn : run[d].pc # "off")
  /\ run' = [run EXCEPT ![c].pc = "poll"]
  /\ client' = [NoClient EXCEPT !.cur = c]
  /\ UNCHANGED <<may, doomed, errors>>

\* The connection's loop ends, and its drop joins the service thread.
Disconnect(c) ==
  /\ conn[c] = "live"
  /\ conn' = [conn EXCEPT ![c] = "closing"]
  /\ client' = IF client.cur = c THEN NoClient ELSE client
  /\ UNCHANGED <<may, svc, sess, run, doomed, overlapped, errors>>

\* The client whose connection is c asks for something of a registered service; of
\* one that is not, it is told so.
Asks(c) == conn[c] = "live" /\ client.cur = c /\ svc # NoService

update_terminal_persistence(c, p) ==
  /\ "persist" \in may /\ Asks(c) /\ p # svc.persistent
  /\ svc' = [svc EXCEPT !.persistent = p]
  /\ UNCHANGED <<may, sess, conn, run, client, doomed, overlapped, errors>>

-----------------------------------------------------------------------------
(* The client's actions.                                                   *)

\* When the id is unknown and sessions survive, the lowest takes the id.
Remapped(i) ==
  LET lowest == Min(DOMAIN svc.sessions)
  IN  IF i \in DOMAIN svc.sessions \/ ~svc.sync \/ svc.sessions = << >>
      THEN svc.sessions
      ELSE With(Without(svc.sessions, {lowest}), i, svc.sessions[lowest])

\* The session streams to the client: what the buffer has, and then what follows;
\* its shell is made to redraw.
Reattached(x) ==
  [x EXCEPT !.active = TRUE, !.pending = get_recent(x.buf, ReplayBytes),
            !.phase = "temp", !.retries = Attempts]

\* A mistake: only a list of three or more sessions names the others.
persistent_sessions_Few(table, i) ==
  IF svc.sync /\ Cardinality(DOMAIN table) > 2 THEN DOMAIN table \ {i} ELSE {}

\* The other sessions, told once to a connection.
persistent_sessions(table, i) == IF svc.sync THEN DOMAIN table \ {i} ELSE {}

\* The client gives every terminal of a connection an id of its own
\* (_nextTerminalId), and opens again those it had.
handle_open(c, i, r) ==
  LET table == Remapped(i)
      s     == IF i \in DOMAIN table THEN table[i] ELSE Len(sess) + 1
  IN  /\ Asks(c) /\ i \notin client.used
      /\ s \in Sid
      /\ sess' = IF i \in DOMAIN table THEN [sess EXCEPT ![s] = Reattached(@)]
                                       ELSE Append(sess, NewSession(r))
      /\ svc' = [svc EXCEPT !.sessions = With(table, i, s), !.sync = FALSE]
      /\ client' = [client EXCEPT !.opened = @ \cup {i}, !.used = @ \cup {i},
                      !.known = @ \cup {i} \cup persistent_sessions(table, i)]
      /\ UNCHANGED <<may, conn, run, doomed, overlapped, errors>>

handle_resize(c, i, r) ==
  /\ "resize" \in may /\ Asks(c)
  /\ i \in client.opened \cap DOMAIN svc.sessions
  /\ sess[svc.sessions[i]].rows # r
  /\ sess' = [sess EXCEPT ![svc.sessions[i]].rows = r, ![svc.sessions[i]].pty = r]
  /\ UNCHANGED <<may, svc, conn, run, client, doomed, overlapped, errors>>

\* The terminal leaves the table, and its shell is killed.
handle_close(c, i) ==
  LET table == Without(svc.sessions, {i})
  IN  /\ Asks(c) /\ i \in client.opened
      /\ client' = [client EXCEPT !.opened = @ \ {i}]
      /\ svc' = [svc EXCEPT !.sessions = table]
      /\ sess' = IF i \in DOMAIN svc.sessions
                 THEN Dropped([sess EXCEPT ![svc.sessions[i]].alive = FALSE,
                                           ![svc.sessions[i]].asked = TRUE], table, run)
                 ELSE sess
      /\ UNCHANGED <<may, conn, run, doomed, overlapped, errors>>

-----------------------------------------------------------------------------
(* The shell, and the thread that reads what it writes.                    *)

\* try_send_output: a chunk is dropped when the channel is full.
Output(s) ==
  LET x == sess[s]
      n == x.out + 1
      chunk == IF n \in LineEnds THEN <<<<s, n>>, NL>> ELSE <<<<s, n>>>>
  IN  /\ "output" \in may
      /\ x.alive /\ x.out < MaxOut[s]
      /\ sess' = [sess EXCEPT ![s] =
           IF Len(x.chan) < ChannelSize
           THEN [x EXCEPT !.out = n, !.chan = Append(@, chunk)]
           ELSE [x EXCEPT !.out = n, !.lost = @ \cup {n}]]
      /\ UNCHANGED <<may, svc, conn, run, client, doomed, overlapped, errors>>

ShellExit(s) ==
  /\ "exit" \in may /\ sess[s].alive
  /\ sess' = [sess EXCEPT ![s].alive = FALSE]
  /\ UNCHANGED <<may, svc, conn, run, client, doomed, overlapped, errors>>

-----------------------------------------------------------------------------
(* The service thread of a connection: run, read_outputs.                  *)

\* The table is cloned under the service's lock.
Poll(c) ==
  /\ run[c].pc = "poll" /\ conn[c] = "live"
  /\ svc.sessions # << >>
  /\ run' = [run EXCEPT ![c] =
       [Off EXCEPT !.pc = "read", !.gen = svc.gen, !.persistent = svc.persistent,
                   !.todo = {<<i, svc.sessions[i]>> : i \in DOMAIN svc.sessions}]]
  /\ UNCHANGED <<may, svc, sess, conn, client, doomed, overlapped, errors>>

\* One row less makes the shell redraw; of two rows, one more.
TempRows(r) == IF r > 2 THEN r - 1 ELSE r + 1

\* A mistake: the temporary size stays.
Resized_NoRestore(x) ==
  CASE x.phase = "temp" -> [x EXCEPT !.pty = TempRows(x.rows), !.phase = "idle", !.retries = 0]
    [] OTHER            -> x

\* The two phases of do_sigwinch_resize, each of which is tried again in later polls.
Resized(x) ==
  CASE x.phase = "temp" -> [x EXCEPT !.pty = TempRows(x.rows), !.phase = "restore",
                                     !.retries = Attempts]
    [] x.phase = "restore" -> [x EXCEPT !.pty = x.rows, !.phase = "idle", !.retries = 0]
    [] OTHER -> x

\* What is streamed of a session, and whether the resize that is due works.
Streamed(x, ok) ==
  LET y == [x EXCEPT !.pending = << >>]
  IN  CASE x.phase # "idle" /\ x.retries = 0 -> [y EXCEPT !.phase = "idle"]
        [] x.phase # "idle" /\ x.retries > 0 /\ ~ok -> [y EXCEPT !.retries = @ - 1]
        [] OTHER -> Resized(y)

\* A mistake: what is new goes out before the history.
DataResponses_NewFirst(i, x) ==
  [k \in DOMAIN x.chan |-> <<i, x.chan[k]>>]
    \o (IF x.pending = << >> THEN << >> ELSE <<<<i, x.pending>>>>)

\* The history that is due, and then what came through the channel.
DataResponses(i, x) ==
  (IF x.pending = << >> THEN << >> ELSE <<<<i, x.pending>>>>)
    \o [k \in DOMAIN x.chan |-> <<i, x.chan[k]>>]

\* The session after a poll: the channel is drained into the buffer.
Drained(x) ==
  [x EXCEPT !.told = @ \/ ~x.alive, !.chan = << >>, !.buf = append_all(@, x.chan)]

\* The thread after it polled session x as terminal i: what goes to the client when
\* the session is active, and that the terminal ended when that was not told yet.
Polled(thread, i, s, x) ==
  LET todo == thread.todo \ {<<i, s>>}
  IN  [thread EXCEPT !.todo = todo, !.pc = IF todo = {} THEN "finish" ELSE "read",
                     !.out = IF x.active THEN @ \o DataResponses(i, x) ELSE @,
                     !.closed = IF x.alive \/ x.told \/ x.stopped THEN @ ELSE @ \cup {i}]

\* One session under its lock.
ReadSession(c, ok) ==
  /\ run[c].pc = "read"
  /\ \E e \in run[c].todo :
       LET x == sess[e[2]]
       IN  /\ \/ ok
              \/ "resize" \in may /\ x.active /\ x.phase # "idle" /\ x.retries > 0 /\ errors < MaxErrors
           /\ \E y \in {Drained(x)}, t \in {[run EXCEPT ![c] = Polled(@, e[1], e[2], x)]} :
                /\ run' = t
                /\ sess' = Dropped([sess EXCEPT ![e[2]] = IF x.active THEN Streamed(y, ok) ELSE y],
                                   svc.sessions, t)
           /\ errors' = IF ok THEN errors ELSE errors + 1
  /\ UNCHANGED <<may, svc, conn, client, doomed, overlapped>>

\* What terminal i of the client shows after some responses.
Shown(i, out) ==
  client.got[i] \o FlattenSeq([k \in DOMAIN out |-> IF out[k][1] = i THEN out[k][2] ELSE << >>])

\* The terminals that ended leave a service that is not persistent, and the
\* responses are sent to the connection.
Finish(c) ==
  LET table == IF run[c].persistent \/ svc.gen # run[c].gen THEN svc.sessions
               ELSE Without(svc.sessions, run[c].closed)
  IN  /\ run[c].pc = "finish"
      /\ svc' = [svc EXCEPT !.sessions = table]
      /\ sess' = Dropped(sess, table, run)
      /\ client' = IF client.cur # c THEN client
                   ELSE [client EXCEPT !.opened = @ \ run[c].closed,
                           !.got = [i \in Ids |-> IF i \in client.known
                                                  THEN Shown(i, run[c].out) ELSE @[i]]]
      /\ run' = [run EXCEPT ![c] = [Off EXCEPT !.pc = "poll"]]
      /\ UNCHANGED <<may, conn, doomed, overlapped, errors>>

\* A mistake: the end of any connection removes the service.
RunExit_Always(c) ==
  /\ run[c].pc = "poll" /\ conn[c] = "closing"
  /\ run' = [run EXCEPT ![c].pc = IF svc # NoService THEN "remove" ELSE "off"]
  /\ conn' = [conn EXCEPT ![c] = IF run'[c].pc = "off" THEN "gone" ELSE @]
  /\ UNCHANGED <<may, svc, sess, client, doomed, overlapped, errors>>

\* The loop ends; whether to remove the service is read here, and done in
\* another step.
RunExit(c) ==
  /\ run[c].pc = "poll" /\ conn[c] = "closing"
  /\ run' = [run EXCEPT ![c].pc =
               IF svc # NoService /\ ~svc.persistent THEN "remove" ELSE "off"]
  /\ conn' = [conn EXCEPT ![c] = IF run'[c].pc = "off" THEN "gone" ELSE @]
  /\ UNCHANGED <<may, svc, sess, client, doomed, overlapped, errors>>

RunRemove(c) ==
  /\ run[c].pc = "remove"
  /\ remove_service
  /\ run' = [run EXCEPT ![c].pc = "off"]
  /\ conn' = [conn EXCEPT ![c] = "gone"]
  /\ UNCHANGED <<may, client, doomed, overlapped, errors>>

-----------------------------------------------------------------------------
(* The cleanup thread.  An hour or two may pass between any two steps.     *)

cleanup_inactive_services ==
  /\ "cleanup" \in may /\ ~doomed /\ svc # NoService
  /\ ~svc.persistent \/ svc.sessions = << >>
  /\ doomed' = TRUE
  /\ UNCHANGED <<may, svc, sess, conn, run, client, overlapped, errors>>

\* The registry was unlocked in between.
CleanupRemove ==
  /\ doomed /\ doomed' = FALSE
  /\ remove_service
  /\ UNCHANGED <<may, conn, run, client, overlapped, errors>>

-----------------------------------------------------------------------------

ThreadStep(c) ==
  \/ Poll(c) \/ Finish(c) \/ RunExit(c) \/ RunRemove(c)
  \/ \E ok \in BOOLEAN : ReadSession(c, ok)

Next ==
  \/ \E c \in Conn :
       \/ \E p \in BOOLEAN : init_terminal_service(c, p) \/ update_terminal_persistence(c, p)
       \/ \E i \in Ids, r \in OpenRows : handle_open(c, i, r)
       \/ \E i \in Ids, r \in Rows : handle_resize(c, i, r)
       \/ \E i \in Ids : handle_close(c, i)
       \/ Disconnect(c) \/ ThreadStep(c)
  \/ \E s \in DOMAIN sess : ShellExit(s) \/ Output(s)
  \/ cleanup_inactive_services \/ CleanupRemove

\* ENABLED <<ThreadStep(c)>>_vars
Busy(c) ==
  \/ run[c].pc \in {"read", "finish", "remove"}
  \/ run[c].pc = "poll" /\ conn[c] = "closing"
  \/ run[c].pc = "poll" /\ conn[c] = "live" /\ svc.sessions # << >>

\* The service threads go on: WF_vars(ThreadStep(c)) with its ENABLED written out,
\* which TLC evaluates much faster.
Fairness == \A c \in Conn : []<>~Busy(c) \/ []<><<ThreadStep(c)>>_vars

Spec == Init /\ [][Next]_vars /\ Fairness

-----------------------------------------------------------------------------
(* Properties.                                                             *)

\* The bytes of session s among some, as places and as chunks of its output.
Places(s, bytes) == {k \in DOMAIN bytes : bytes[k] # NL /\ bytes[k][1] = s}
Chunks(s, bytes) == {bytes[k][2] : k \in Places(s, bytes)}
InOrder(s, bytes) ==
  \A j, k \in Places(s, bytes) : j < k => bytes[j][2] < bytes[k][2]

(* What a terminal shows since it was opened is what its shell wrote, in   *)
(* order, nothing twice, and nothing missing in between but what found the *)
(* channel full: the history of a reconnection and what is streamed do not *)
(* overlap (terminal_service.rs, handle_open).  It is so while a connection*)
(* only starts when the thread of the one before has ended.                *)
Continuous ==
  \A i \in client.opened \cap DOMAIN svc.sessions :
    ~overlapped =>
      LET s     == svc.sessions[i]
          shown == Chunks(s, client.got[i])
      IN  /\ InOrder(s, client.got[i])
          /\ \A m, n \in shown : (m + 1)..(n - 1) \subseteq shown \cup sess[s].lost

(* Once a client has opened a terminal of a service, it knows of every     *)
(* session the service has: each is in the table once, and each of its ids *)
(* was opened or named in persistent_sessions; none survives unseen.       *)
Reachable ==
  /\ \A i, j \in DOMAIN svc.sessions : svc.sessions[i] = svc.sessions[j] => i = j
  /\ svc # NoService /\ ~svc.sync /\ client.cur # 0 => DOMAIN svc.sessions \subseteq client.known

(* When a connection ends, no shell that runs in a persistent service is   *)
(* stopped, unless connections overlap: that the service is not persistent *)
(* is still so when it is removed, one step later.                         *)
SurvivesDrop ==
  [][conn' # conn /\ svc.persistent /\ ~overlapped =>
       \A s \in DOMAIN sess : sess[s].alive => ~sess'[s].stopped]_vars

\* A terminal that is streamed by a live connection has another height than it should.
Misfit(s, c) ==
  /\ conn[c] = "live" /\ s \in DOMAIN sess
  /\ sess[s].active /\ sess[s].pty # sess[s].rows

(* The height a terminal is given to make its shell redraw is taken back,  *)
(* as long as the connection and the terminal last, though some resizes    *)
(* fail and the client resizes the terminal in between.                    *)
SizeRestored == \A s \in Sid, c \in Conn : Misfit(s, c) ~> ~Misfit(s, c)
=============================================================================
