---------------------------- MODULE FileTransfer ----------------------------
(***************************************************************************)
(* File transfer between a client and the controlled side: the client's    *)
(* session loop (client/io_loop.rs), the connection (server/connection.rs) *)
(* and the connection manager, which owns the write jobs of an upload and, *)
(* on Windows, the read jobs of a download (ui_cm_interface.rs).  The jobs *)
(* themselves are in module TransferJob.                                   *)
(*                                                                         *)
(* The connection only forwards the messages of an upload to the manager,  *)
(* so that hop is part of the stream; what a manager that reads tells the  *)
(* connection goes through a queue of its own, because the connection drops*)
(* what belongs to a job that was cancelled in the meantime.               *)
(***************************************************************************)
EXTENDS TransferJob, FiniteSets, SequencesExt

CONSTANTS
  Modes,        \* the directions: "upload", "download", "downloadCM"
  FaultModes,   \* those in which a job may fail to start, a file to be opened or
                \* read, or a block to be written
  LostModes,    \* those in which the connection is lost and jobs are resumed
  Leftover,     \* [Modes -> files of which an earlier job may have left a part]
  MaxFaults, MaxLost   \* bounds: faults, lost connections

ASSUME TransferAssumption ==
  /\ Modes \subseteq {"upload", "download", "downloadCM"}
  /\ IsFiniteSet(Job) /\ Job = 1..Cardinality(Job)          \* ids are counted
  /\ Leftover \in [Modes -> SUBSET {f \in File : Size[f] > 0}]
  /\ MaxFaults \in Nat /\ MaxLost \in Nat

VARIABLES
  mode,       \* the direction of this behaviour
  rjobs,      \* Seq(ReadJob): read_jobs of the side that sends
  wjobs,      \* [some jobs -> WriteJob]: write_jobs of the side that receives
  disk,       \* [Job -> [File -> Entry]]: the receiver's disk
  toServer,   \* the stream, client to connection (and connection manager)
  toClient,   \* the stream, connection to client
  ipc,        \* what the reading connection manager told the connection
  cmIds,      \* Connection.cm_read_job_ids
  ask,        \* overwrite dialogs that are open: pairs of job and file
  ui,         \* [Job -> ...]: the state of the job in the client's job table
  saved,      \* [Job -> file number in the peer's config, 0: none]
  skips,      \* history: the files that were last decided to be skipped
  unwritten,  \* history: the jobs a block of which could not be written
  up,         \* the connection is established
  faults, lost

sender == <<rjobs, ipc, cmIds>>
vars == <<mode, sender, wjobs, disk, toServer, toClient, ask, ui, saved, skips,
          unwritten, up, faults, lost>>

Upload == mode = "upload"
InCM   == mode = "downloadCM"

Message ==
  [t : {"receive", "send", "cancel", "confirm", "dir", "digest", "need",
        "block", "done", "error", "skipped"},
   id : Job, num : 1..Len(Size)+1, n : Int]

TypeOK ==
  /\ mode \in Modes
  /\ rjobs \in Seq(ReadJob)
  /\ DOMAIN wjobs \subseteq Job /\ \A id \in DOMAIN wjobs : wjobs[id] \in WriteJob
  /\ disk \in [Job -> [File -> Entry]]
  /\ toServer \in Seq(Message) /\ toClient \in Seq(Message) /\ ipc \in Seq(Message)
  /\ cmIds \subseteq Job
  /\ ask \subseteq Job \X File
  /\ ui \in [Job -> {"none", "running", "paused", "done", "error", "cancelled", "lost"}]
  /\ saved \in [Job -> 0..Len(Size)+1]
  /\ skips \subseteq Job \X File /\ unwritten \subseteq Job
  /\ up \in BOOLEAN
  /\ faults \in 0..MaxFaults /\ lost \in 0..MaxLost

Msg(t, id, num, n) == [t |-> t, id |-> id, num |-> num, n |-> n]

Fresh(f, file, part) ==
  [file |-> file, download |-> part, part |-> IF part THEN <<1>> ELSE << >>, digest |-> part]

\* The jobs of `jobs' are started, and the connection was lost n times before.
InitWith(jobs, n) ==
  /\ mode \in Modes
  /\ rjobs = << >> /\ wjobs = << >> /\ toServer = << >> /\ toClient = << >> /\ ipc = << >>
  /\ \E file \in [File -> {"none", "old"}], part \in SUBSET Leftover[mode] :
       disk = [id \in Job |-> [f \in File |-> Fresh(f, file[f], f \in part)]]
  /\ cmIds = {} /\ ask = {} /\ skips = {} /\ unwritten = {}
  /\ ui = [id \in Job |-> IF id \in jobs THEN "none" ELSE "cancelled"]
  /\ saved = [id \in Job |-> 0]
  /\ up = TRUE /\ faults = 0 /\ lost = n

Init == InitWith(Job, 0)

Fault(n) == mode \in FaultModes /\ faults + n <= MaxFaults /\ faults' = faults + n

\* The job table of the client: a cancelled job is no longer in it.
handle_job_status(id, s) ==
  ui' = IF ui[id] = "cancelled" THEN ui ELSE [ui EXCEPT ![id] = s]

PositionsOf(id, jobs) == {i \in DOMAIN jobs : jobs[i].id = id}

remove_job(id, jobs) ==
  IF PositionsOf(id, jobs) = {} THEN jobs ELSE RemoveAt(jobs, Min(PositionsOf(id, jobs)))

map_job(id, Op(_)) == [i \in DOMAIN rjobs |-> IF rjobs[i].id = id THEN Op(rjobs[i]) ELSE rjobs[i]]

Without(id) == [x \in DOMAIN wjobs \ {id} |-> wjobs[x]]

With(id, j) == [x \in DOMAIN wjobs \cup {id} |-> IF x = id THEN j ELSE wjobs[x]]

-----------------------------------------------------------------------------
(* The user's commands on the client.                                      *)

SendFiles(id) ==
  /\ up /\ ui[id] = "none" /\ \A x \in Job : x < id => ui[x] # "none"   \* ids are counted
  /\ \/ /\ Upload
        /\ rjobs' = Append(rjobs, new_read(id, 1, FALSE))
        /\ toServer' = Append(toServer, Msg("receive", id, 1, 0))
        /\ handle_job_status(id, "running")
        /\ UNCHANGED <<wjobs, faults>>
     \/ /\ Upload
        /\ Fault(1)
        /\ handle_job_status(id, "error")
        /\ UNCHANGED <<rjobs, wjobs, toServer>>
     \/ /\ ~Upload
        /\ wjobs' = With(id, new_write(1, FALSE, FALSE))
        /\ toServer' = Append(toServer, Msg("send", id, 1, 0))
        /\ handle_job_status(id, "running")
        /\ UNCHANGED <<rjobs, faults>>
  /\ UNCHANGED <<mode, ipc, cmIds, disk, toClient, ask, saved, skips, unwritten, up, lost>>

ResumeJob(id) ==
  /\ up /\ ui[id] = "paused"
  /\ handle_job_status(id, "running")
  /\ IF Upload
       THEN LET Resume(j) == [j EXCEPT !.last = FALSE, !.resume = TRUE]
            IN  /\ rjobs' = map_job(id, Resume)
                /\ toServer' = Append(toServer, Msg("receive", id, saved[id], 0))
                /\ UNCHANGED wjobs
       ELSE /\ wjobs' = [wjobs EXCEPT ![id].last = FALSE, ![id].resume = TRUE]
            /\ toServer' = Append(toServer, Msg("send", id, saved[id], 0))
            /\ UNCHANGED rjobs
  /\ UNCHANGED <<mode, ipc, cmIds, disk, toClient, ask, saved, skips, unwritten, up, faults, lost>>

\* A mistake: the part stays on the disk.
CancelJob_KeepPart(id) ==
  /\ up /\ ui[id] \in {"running", "paused"}
  /\ ui' = [ui EXCEPT ![id] = "cancelled"]
  /\ toServer' = Append(toServer, Msg("cancel", id, 1, 0))
  /\ wjobs' = IF Upload THEN wjobs ELSE Without(id)
  /\ rjobs' = IF Upload THEN remove_job(id, rjobs) ELSE rjobs
  /\ UNCHANGED <<mode, disk, ipc, cmIds, toClient, ask, saved, skips, unwritten, up, faults, lost>>

CancelJob(id) ==
  /\ up /\ ui[id] \in {"running", "paused"}
  /\ ui' = [ui EXCEPT ![id] = "cancelled"]
  /\ toServer' = Append(toServer, Msg("cancel", id, 1, 0))
  /\ IF ~Upload /\ id \in DOMAIN wjobs
       THEN /\ disk' = [disk EXCEPT ![id] = remove_download_file(wjobs[id], @)]
            /\ wjobs' = Without(id)
       ELSE UNCHANGED <<disk, wjobs>>
  /\ rjobs' = IF Upload THEN remove_job(id, rjobs) ELSE rjobs
  /\ UNCHANGED <<mode, ipc, cmIds, toClient, ask, saved, skips, unwritten, up, faults, lost>>

HasJob(id) == IF Upload THEN \E i \in DOMAIN rjobs : rjobs[i].id = id ELSE id \in DOMAIN wjobs

\* The client confirms file num in the job it has and, if `tell', to the other
\* side; s is what it does with the next files.
Confirm(id, num, n, tell, s) ==
  /\ skips' = IF n = Skip THEN skips \cup {<<id, num>>} ELSE skips \ {<<id, num>>}
  /\ IF Upload
       THEN LET C(j) == [confirm(j, num, n) EXCEPT !.strategy = s]
            IN  rjobs' = map_job(id, C) /\ UNCHANGED wjobs
       ELSE /\ wjobs' = [wjobs EXCEPT ![id] =
                           [confirm_write(@, num, n, disk[id]) EXCEPT !.strategy = s]]
            /\ UNCHANGED rjobs
  /\ toServer' = IF tell THEN Append(toServer, Msg("confirm", id, num, n)) ELSE toServer

Strategy(id) ==
  IF Upload THEN (CHOOSE j \in {rjobs[i] : i \in DOMAIN rjobs} : j.id = id).strategy
            ELSE wjobs[id].strategy

\* SetConfirmOverrideFile: the answer to the dialog.
SetConfirmOverrideFile(id, num, n, remember) ==
  /\ up /\ <<id, num>> \in ask
  /\ ask' = ask \ {<<id, num>>}
  /\ IF HasJob(id)
       THEN Confirm(id, num, n, ~Upload,
                    IF ~remember THEN Strategy(id) ELSE IF n = Skip THEN "skip" ELSE "overwrite")
       ELSE UNCHANGED <<rjobs, wjobs, toServer, skips>>
  /\ UNCHANGED <<mode, ipc, cmIds, disk, toClient, ui, saved, unwritten, up, faults, lost>>

-----------------------------------------------------------------------------
(* The side that sends: a tick of its file timer.                          *)

Send(q) ==
  CASE Upload -> toServer' = toServer \o q /\ UNCHANGED <<toClient, ipc>>
    [] InCM   -> ipc' = ipc \o q /\ UNCHANGED <<toServer, toClient>>
    [] OTHER  -> toClient' = toClient \o q /\ UNCHANGED <<toServer, ipc>>

\* What reading from job j gives, once it is initialised: the job, the message
\* for the other side, and whether the job is finished.
Outcome(j, fails) ==
  IF j.confirmed
    THEN IF fails
           THEN [job |-> NextFile(j), out |-> <<Msg("error", j.id, j.num + 1, 0)>>, fin |-> InCM]
           ELSE [job |-> read(j), fin |-> FALSE,
                 out |-> <<Msg("block", j.id, j.num, IF AtEof(j) THEN Eof ELSE j.pos + 1)>>]
    ELSE IF job_completed(j)
           THEN [job |-> j, fin |-> TRUE,
                 out |-> <<Msg(IF job_skipped(j) THEN "skipped" ELSE "done", j.id, j.num, 0)>>]
           ELSE [job |-> j, out |-> << >>, fin |-> FALSE]

InitMsg(j, fails) ==
  IF fails THEN Msg("error", j.id, j.num + 1, 0)
           ELSE Msg("digest", j.id, j.num, IF j.resume THEN 1 ELSE 0)

First == CHOOSE i \in DOMAIN rjobs : ~rjobs[i].last /\ \A k \in 1..i-1 : rjobs[k].last

\* handle_read_jobs (fs.rs): every job is initialised, those in Fail cannot
\* open their file; the first one is read from.
handle_read_jobs(Fail, fails) ==
  LET js    == [i \in DOMAIN rjobs |-> IF i \in Fail THEN NextFile(rjobs[i])
                                       ELSE init_data_stream(rjobs[i])]
      tells == [i \in DOMAIN rjobs |-> IF i \in Fail \/ SendsDigest(rjobs[i])
                                         THEN <<InitMsg(rjobs[i], i \in Fail)>> ELSE << >>]
      o     == Outcome(js[First], fails)
      done  == [js EXCEPT ![First] = o.job]
  IN  /\ fails => js[First].confirmed
      /\ rjobs' = IF o.fin THEN remove_job(o.job.id, done) ELSE done
      /\ Send(FlattenSeq(tells) \o o.out)

\* handle_read_jobs_tick (ui_cm_interface.rs): a job that cannot open its file
\* is finished, and the next one is looked at.
handle_read_jobs_tick(n, fails) ==
  LET errs == [i \in 1..n |-> InitMsg(rjobs[i], TRUE)]
      j    == rjobs[n + 1]
      o    == Outcome(init_data_stream(j), fails)
      rest == SubSeq(rjobs, n + 2, Len(rjobs))
  IN  /\ \A i \in 1..n : MustOpen(rjobs[i])
      /\ IF n = Len(rjobs) THEN ~fails /\ rjobs' = << >> /\ Send(errs)
         ELSE /\ fails => init_data_stream(j).confirmed
              /\ rjobs' = IF o.fin THEN rest ELSE <<o.job>> \o rest
              /\ Send(errs \o (IF SendsDigest(j) THEN <<InitMsg(j, FALSE)>> ELSE << >>) \o o.out)

\* A tick that changes nothing (the first job waits, and so on) is a stutter.
FileTimer ==
  /\ up /\ \E i \in DOMAIN rjobs : ~rjobs[i].last
  /\ \E fails \in BOOLEAN, n \in 0..Len(rjobs) :
       /\ LET k == n + (IF fails THEN 1 ELSE 0)
          IN  IF k = 0 THEN UNCHANGED faults ELSE Fault(k)
       /\ IF InCM THEN handle_read_jobs_tick(n, fails)
          ELSE \E Fail \in SUBSET {i \in DOMAIN rjobs : MustOpen(rjobs[i])} :
                 Cardinality(Fail) = n /\ handle_read_jobs(Fail, fails)
  /\ UNCHANGED <<mode, cmIds, wjobs, disk, ask, ui, saved, skips, unwritten, up, lost>>

-----------------------------------------------------------------------------
(* The controlled side: the connection and its manager handle a message.   *)

\* The manager's answer to a write job's digest or block, on an upload.
Answer(q) == toClient' = toClient \o q

FromClient(t) ==
  /\ up /\ toServer # << >> /\ Head(toServer).t = t
  /\ toServer' = Tail(toServer)

\* FileAction::Send: the directory, and a read job in the connection or the
\* manager, or an error if the directory cannot be listed.
ServerSend ==
  /\ FromClient("send")
  /\ LET m == Head(toServer)
         Tell(q) == IF InCM THEN ipc' = ipc \o q /\ UNCHANGED toClient
                            ELSE toClient' = toClient \o q /\ UNCHANGED ipc
     IN  /\ cmIds' = IF InCM THEN cmIds \cup {m.id} ELSE cmIds
         /\ \/ /\ rjobs' = Append(rjobs, new_read(m.id, m.num, FALSE))
               /\ Tell(<<Msg("dir", m.id, m.num, 0)>>)
               /\ UNCHANGED faults
            \/ /\ Fault(1)
               /\ Tell(<<Msg("error", m.id, m.num, 0)>>)
               /\ UNCHANGED rjobs
  /\ UNCHANGED <<mode, wjobs, disk, ask, ui, saved, skips, unwritten, up, lost>>

\* FileAction::Receive, FS::NewWrite: a write job, or a refusal.
ServerReceive ==
  /\ FromClient("receive")
  /\ LET m == Head(toServer)
     IN  \/ /\ wjobs' = With(m.id, new_write(m.num, TRUE, FALSE))
            /\ UNCHANGED <<toClient, faults>>
         \/ /\ Fault(1)
            /\ Answer(<<Msg("error", m.id, m.num, 0)>>)
            /\ UNCHANGED wjobs
  /\ UNCHANGED <<mode, sender, disk, ask, ui, saved, skips, unwritten, up, lost>>

\* FileAction::Cancel: of whatever job has this id.
ServerCancel ==
  /\ FromClient("cancel")
  /\ LET id == Head(toServer).id
     IN  /\ cmIds' = cmIds \ {id}
         /\ IF Upload
              THEN /\ IF id \in DOMAIN wjobs
                        THEN /\ disk' = [disk EXCEPT ![id] = remove_download_file(wjobs[id], @)]
                             /\ wjobs' = Without(id)
                        ELSE UNCHANGED <<disk, wjobs>>
                   /\ UNCHANGED rjobs
              ELSE rjobs' = remove_job(id, rjobs) /\ UNCHANGED <<disk, wjobs>>
  /\ UNCHANGED <<mode, ipc, toClient, ask, ui, saved, skips, unwritten, up, faults, lost>>

\* FileAction::SendConfirm.  The manager that reads takes the confirmation as
\* one of the file it is at (SendConfirmForRead).
ServerConfirm ==
  /\ FromClient("confirm")
  /\ LET m == Head(toServer)
         C(j) == confirm(j, IF InCM THEN j.num ELSE m.num, m.n)
     IN  IF Upload
           THEN /\ wjobs' = IF m.id \in DOMAIN wjobs
                              THEN [wjobs EXCEPT ![m.id] = confirm_write(@, m.num, m.n, disk[m.id])]
                              ELSE wjobs
                /\ UNCHANGED rjobs
           ELSE /\ rjobs' = IF InCM /\ m.id \notin cmIds THEN rjobs ELSE map_job(m.id, C)
                /\ UNCHANGED wjobs
  /\ UNCHANGED <<mode, ipc, cmIds, disk, toClient, ask, ui, saved, skips, unwritten, up, faults, lost>>

\* FS::CheckDigest.
CheckDigest ==
  /\ FromClient("digest")
  /\ LET m == Head(toServer)
         t == is_write_need_confirmation(m.n = 1, disk[m.id][m.num])
     IN  IF m.id \notin DOMAIN wjobs THEN UNCHANGED toClient
         ELSE Answer(<<IF t = NoSuchFile THEN Msg("confirm", m.id, m.num, 0)
                                         ELSE Msg("need", m.id, m.num, t)>>)
  /\ UNCHANGED <<mode, sender, wjobs, disk, ask, ui, saved, skips, unwritten, up, faults, lost>>

\* A block that is written to the disk, or whose writing fails after the file
\* was started.
Write(m) ==
  /\ wjobs' = [wjobs EXCEPT ![m.id] = write(@, m.num)]
  /\ disk' = [disk EXCEPT ![m.id] = Written(wjobs[m.id], m.num, m.n, @)]

WriteFails(m) ==
  /\ Fault(1) /\ unwritten' = unwritten \cup {m.id}
  /\ wjobs' = [wjobs EXCEPT ![m.id] = write(@, m.num)]
  /\ disk' = [disk EXCEPT ![m.id] = Started(wjobs[m.id], m.num, @)]

\* FS::WriteBlock: an error is reported to the client.
WriteBlock ==
  /\ FromClient("block")
  /\ LET m == Head(toServer)
     IN  \/ /\ m.id \in DOMAIN wjobs
            /\ Write(m)
            /\ UNCHANGED <<toClient, unwritten, faults>>
         \/ /\ m.id \in DOMAIN wjobs
            /\ WriteFails(m)
            /\ Answer(<<Msg("error", m.id, m.num, 0)>>)
         \/ /\ m.id \notin DOMAIN wjobs
            /\ UNCHANGED <<wjobs, disk, toClient, unwritten, faults>>
  /\ UNCHANGED <<mode, sender, ask, ui, saved, skips, up, lost>>

\* FS::WriteDone and FS::WriteError (a job of one file that was skipped ends
\* with an error that says so).
WriteDone ==
  /\ FromClient("done")
  /\ LET m == Head(toServer)
     IN  IF m.id \in DOMAIN wjobs
           THEN /\ disk' = [disk EXCEPT ![m.id] = modify_time(wjobs[m.id], @)]
                /\ wjobs' = Without(m.id)
                /\ Answer(<<Msg("done", m.id, m.num, 0)>>)
           ELSE UNCHANGED <<disk, wjobs, toClient>>
  /\ UNCHANGED <<mode, sender, ask, ui, saved, skips, unwritten, up, faults, lost>>

WriteError ==
  /\ FromClient("error") \/ FromClient("skipped")
  /\ LET m == Head(toServer)
     IN  IF m.id \in DOMAIN wjobs
           THEN wjobs' = Without(m.id) /\ Answer(<<m>>)
           ELSE UNCHANGED <<wjobs, toClient>>
  /\ UNCHANGED <<mode, sender, disk, ask, ui, saved, skips, unwritten, up, faults, lost>>

\* The connection passes on what its manager read, unless the job was
\* cancelled.
FromCM ==
  /\ up /\ ipc # << >>
  /\ ipc' = Tail(ipc)
  /\ LET m == Head(ipc)
     IN  IF m.id \in cmIds
           THEN /\ toClient' = Append(toClient, m)
                /\ cmIds' = IF m.t \in {"done", "error", "skipped"} THEN cmIds \ {m.id} ELSE cmIds
           ELSE UNCHANGED <<toClient, cmIds>>
  /\ UNCHANGED <<mode, rjobs, wjobs, disk, toServer, ask, ui, saved, skips, unwritten, up, faults, lost>>

-----------------------------------------------------------------------------
(* The client handles a message.                                           *)

FromServer(t) ==
  /\ up /\ toClient # << >> /\ Head(toClient).t = t
  /\ toClient' = Tail(toClient)

ClientDir ==
  /\ FromServer("dir")
  /\ LET m == Head(toClient)
     IN  wjobs' = IF m.id \in DOMAIN wjobs THEN [wjobs EXCEPT ![m.id].files = TRUE] ELSE wjobs
  /\ UNCHANGED <<mode, sender, disk, toServer, ask, ui, saved, skips, unwritten, up, faults, lost>>

\* A file of which the receiver has t blocks, or another version: it is
\* resumed, treated as the files before, or the user is asked.
Decide(m, t, resume) ==
  LET s == Strategy(m.id)
  IN  \/ /\ t > 0 /\ resume
         /\ Confirm(m.id, m.num, t, TRUE, s) /\ UNCHANGED ask
      \/ /\ ~(t > 0 /\ resume) /\ s # "ask"
         /\ Confirm(m.id, m.num, IF s = "skip" THEN Skip ELSE 0, TRUE, s) /\ UNCHANGED ask
      \/ /\ ~(t > 0 /\ resume) /\ s = "ask"
         /\ ask' = ask \cup {<<m.id, m.num>>}
         /\ UNCHANGED <<rjobs, wjobs, toServer, skips>>

\* A digest of the file that is about to be sent, on a download.
ClientDigest ==
  /\ FromServer("digest")
  /\ LET m == Head(toClient)
         j == wjobs[m.id]
         t == is_write_need_confirmation(j.resume, disk[m.id][m.num])
     IN  IF m.id \notin DOMAIN wjobs \/ ~j.files
           THEN UNCHANGED <<rjobs, wjobs, toServer, ask, skips>>
         ELSE IF t = NoSuchFile
           THEN Confirm(m.id, m.num, 0, TRUE, j.strategy) /\ UNCHANGED ask
         ELSE Decide(m, t, j.resume)
  /\ UNCHANGED <<mode, ipc, cmIds, disk, ui, saved, unwritten, up, faults, lost>>

\* The receiver's digest of the file it has, on an upload.
ClientNeed ==
  /\ FromServer("need")
  /\ LET m == Head(toClient)
     IN  IF HasJob(m.id)
           THEN Decide(m, m.n, \E i \in DOMAIN rjobs : rjobs[i].id = m.id /\ rjobs[i].resume)
           ELSE UNCHANGED <<rjobs, wjobs, toServer, ask, skips>>
  /\ UNCHANGED <<mode, ipc, cmIds, disk, ui, saved, unwritten, up, faults, lost>>

ClientConfirm ==
  /\ FromServer("confirm")
  /\ LET m == Head(toClient)
         C(j) == confirm(j, m.num, m.n)
     IN  rjobs' = map_job(m.id, C)
  /\ UNCHANGED <<mode, ipc, cmIds, wjobs, disk, toServer, ask, ui, saved, skips, unwritten, up, faults, lost>>

\* A block; an error in writing it goes unnoticed.
ClientBlock ==
  /\ FromServer("block")
  /\ LET m == Head(toClient)
     IN  \/ m.id \in DOMAIN wjobs /\ wjobs[m.id].files /\ Write(m) /\ UNCHANGED <<unwritten, faults>>
         \/ m.id \in DOMAIN wjobs /\ wjobs[m.id].files /\ WriteFails(m)
         \/ ~(m.id \in DOMAIN wjobs /\ wjobs[m.id].files) /\ UNCHANGED <<wjobs, disk, unwritten, faults>>
  /\ UNCHANGED <<mode, sender, toServer, ask, ui, saved, skips, up, lost>>

ClientDone ==
  /\ FromServer("done")
  /\ LET m == Head(toClient)
     IN  /\ handle_job_status(m.id, "done")
         /\ IF m.id \in DOMAIN wjobs /\ ~Upload
              THEN /\ disk' = [disk EXCEPT ![m.id] = modify_time(wjobs[m.id], @)]
                   /\ wjobs' = Without(m.id)
              ELSE UNCHANGED <<disk, wjobs>>
  /\ UNCHANGED <<mode, sender, toServer, ask, saved, skips, unwritten, up, faults, lost>>

\* An error ends the job, on the client; one that is skipped counts as done.
ClientError ==
  /\ FromServer("error") \/ FromServer("skipped")
  /\ LET m == Head(toClient)
     IN  /\ handle_job_status(m.id, IF m.t = "skipped" THEN "done" ELSE "error")
         /\ wjobs' = IF Upload THEN wjobs ELSE Without(m.id)
         /\ rjobs' = IF Upload THEN remove_job(m.id, rjobs) ELSE rjobs
  /\ UNCHANGED <<mode, ipc, cmIds, disk, toServer, ask, saved, skips, unwritten, up, faults, lost>>

-----------------------------------------------------------------------------
(* The connection is lost; a new one finds the jobs in the peer's config.  *)

MetaOf(id) ==
  IF ~HasJob(id) THEN 0
  ELSE IF Upload THEN (CHOOSE j \in {rjobs[i] : i \in DOMAIN rjobs} : j.id = id).num
  ELSE wjobs[id].num

\* The end of the session loop, with sync_jobs_status_to_local.
ConnectionLost ==
  /\ up /\ mode \in LostModes /\ lost < MaxLost
  /\ up' = FALSE /\ lost' = lost + 1
  /\ saved' = [id \in Job |-> MetaOf(id)]
  /\ ui' = [id \in Job |-> IF ui[id] \in {"running", "paused"}
                             THEN IF HasJob(id) THEN "paused" ELSE "lost" ELSE ui[id]]
  /\ rjobs' = << >> /\ wjobs' = << >> /\ cmIds' = {} /\ ask' = {}
  /\ toServer' = << >> /\ toClient' = << >> /\ ipc' = << >>
  /\ UNCHANGED <<mode, disk, skips, unwritten, faults>>

\* A new session: load_last_jobs adds the jobs, which wait for ResumeJob.
Reconnect ==
  /\ ~up /\ up' = TRUE
  /\ LET Loaded(id) == IF saved[id] # 0 THEN <<new_read(id, saved[id], TRUE)>> ELSE << >>
     IN  IF Upload
           THEN /\ rjobs' = FlattenSeq([id \in 1..Cardinality(Job) |-> Loaded(id)])
                /\ UNCHANGED wjobs
           ELSE /\ wjobs' = [id \in {x \in Job : saved[x] # 0} |-> new_write(saved[id], FALSE, TRUE)]
                /\ UNCHANGED rjobs
  /\ UNCHANGED <<mode, ipc, cmIds, disk, toServer, toClient, ask, ui, saved, skips, unwritten, faults, lost>>

-----------------------------------------------------------------------------
Command(id) ==
  \/ SendFiles(id) \/ ResumeJob(id) \/ CancelJob(id)
  \/ \E num \in File, n \in {Skip, 0}, remember \in BOOLEAN :
       SetConfirmOverrideFile(id, num, n, remember)

ServerStep ==
  \/ ServerSend \/ ServerReceive \/ ServerCancel \/ ServerConfirm
  \/ CheckDigest \/ WriteBlock \/ WriteDone \/ WriteError

ClientStep ==
  \/ ClientDir \/ ClientDigest \/ ClientNeed \/ ClientConfirm
  \/ ClientBlock \/ ClientDone \/ ClientError

Next ==
  \/ \E id \in Job : Command(id)
  \/ FileTimer \/ ServerStep \/ FromCM \/ ClientStep
  \/ ConnectionLost \/ Reconnect

Spec == Init /\ [][Next]_vars

\* The timers run and the streams deliver; nobody has to answer a dialog,
\* start, resume or cancel anything.
Fairness ==
  WF_vars(FileTimer) /\ WF_vars(ServerStep) /\ WF_vars(FromCM) /\ WF_vars(ClientStep)

-----------------------------------------------------------------------------
(* Properties.                                                             *)

\* A confirmation on its way to the side that reads is for the file that its job
\* waits at, so that none opens, skips or seeks in another file.  The manager
\* that reads relies on it: it is not told the file (SendConfirmForRead) and
\* takes the confirmation as one of the file it is at.
ConfirmsFit ==
  LET q == IF Upload THEN toClient ELSE toServer
  IN  \A k \in DOMAIN q, i \in DOMAIN rjobs :
        q[k].t = "confirm" /\ q[k].id = rjobs[i].id =>
          rjobs[i].num = q[k].num /\ rjobs[i].waiting /\ ~rjobs[i].confirmed

\* When the client's job table says that a job is done, the receiver has the
\* whole of every file of it that was not skipped: no block is lost, written
\* twice or to another file, whatever was skipped, interrupted, resumed or
\* could not be read on the way.  (A block that cannot be written is the one
\* thing that no side holds against the job.)
DoneWhole ==
  \A id \in Job : ui[id] = "done" /\ id \notin unwritten =>
    \A f \in File : <<id, f>> \in skips \/ disk[id][f].file = "whole"

\* A file that the user or the overwrite strategy decided to skip stays as it
\* was, through the rest of the job, its cancellation and its resumption.
SkippedKept ==
  [][\A id \in Job, f \in File :
       <<id, f>> \in skips => disk'[id][f].file = disk[id][f].file]_vars

\* Cancelling a job that met no fault leaves no part of the file that was being
\* received: a block that is still on its way does not start it again.
CancelClean ==
  \A id \in Job :
    ui[id] = "cancelled" /\ saved[id] = 0 /\ faults = 0 /\ toServer = << >> =>
      \A f \in File : disk[id][f].download => f \in Leftover[mode]

\* A job that runs ends, is paused by a lost connection, or waits for a dialog
\* to be answered: a job ahead of it that failed or was cancelled does not hold
\* it up for ever.
JobEnds ==
  \A id \in Job : ui[id] = "running" ~> (ui[id] # "running" \/ ask # {})
=============================================================================
