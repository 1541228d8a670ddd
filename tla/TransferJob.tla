---------------------------- MODULE TransferJob ----------------------------
(***************************************************************************)
(* The transfer jobs of libs/hbb_common/src/fs.rs.  A read job sends the   *)
(* files of a directory one after the other: it offers a file with its     *)
(* digest, waits until the offer is confirmed (or skipped), and sends the  *)
(* blocks of the file and an empty one.  A write job collects the blocks   *)
(* of a file in `<file>.download', beside a `<file>.digest' that says which*)
(* file it is a part of, and renames it when it is told of another file or *)
(* of the end of the job.  What an earlier session left of a file is found *)
(* by its .digest, and the transfer of that file resumes where it stopped. *)
(*                                                                         *)
(* A file is the sequence of the numbers of its blocks; the operators give *)
(* what the methods of a job do to the job and to the disk.  Overwrite     *)
(* detection, which all versions since 1.1.10 have, is on.                 *)
(***************************************************************************)
EXTENDS Integers, Sequences

CONSTANTS
  Job,       \* job ids
  Size       \* blocks of each file of a job

File == 1..Len(Size)

ASSUME SizeAssumption == Size \in Seq(Nat)

Closed == -1            \* data_stream is None
Skip   == -1            \* Union::Skip(true); n >= 0 is Union::OffsetBlk(n)
Eof    == 0             \* the empty block after the last one

Block == UNION {1..Size[f] : f \in File}

Whole(f) == [b \in 1..Size[f] |-> b]

ReadJob ==
  [id : Job, num : 1..Len(Size)+1, pos : {Closed} \cup Nat, confirmed : BOOLEAN,
   waiting : BOOLEAN, skipped : BOOLEAN, last : BOOLEAN, resume : BOOLEAN,
   strategy : {"ask", "overwrite", "skip"}]

WriteJob ==
  [num : 1..Len(Size)+1, open : BOOLEAN, files : BOOLEAN, last : BOOLEAN,
   resume : BOOLEAN, strategy : {"ask", "overwrite", "skip"}]

\* What the receiver's disk holds of one file.  `old' is a file that was
\* there before and differs from the one to be sent.
Entry ==
  [file : {"none", "old", "whole", "broken"}, download : BOOLEAN,
   part : Seq(Block), digest : BOOLEAN]

new_read(id, num, last) ==
  [id |-> id, num |-> num, pos |-> Closed, confirmed |-> FALSE, waiting |-> FALSE,
   skipped |-> FALSE, last |-> last, resume |-> FALSE, strategy |-> "ask"]

new_write(num, files, last) ==
  [num |-> num, open |-> FALSE, files |-> files, last |-> last,
   resume |-> FALSE, strategy |-> "ask"]

-----------------------------------------------------------------------------
(* The reader.                                                             *)

\* A mistake: the job goes on waiting for the confirmation of the last file.
NextFile_StillWaiting(j) ==
  [j EXCEPT !.num = @ + 1, !.pos = Closed, !.confirmed = FALSE]

\* What the end of a file, a file that cannot be opened and a file that
\* cannot be read have in common.
NextFile(j) ==
  [j EXCEPT !.num = @ + 1, !.pos = Closed, !.confirmed = FALSE, !.waiting = FALSE]

MustOpen(j) == ~j.last /\ j.num \in File /\ j.pos = Closed

open_data_stream(j) ==
  IF MustOpen(j)
    THEN [j EXCEPT !.pos = 0, !.confirmed = FALSE, !.waiting = FALSE] ELSE j

\* A mistake: the file is offered at every tick until the answer comes.
SendsDigest_Again(j) ==
  LET o == open_data_stream(j)
  IN  ~j.last /\ o.num \in File /\ ~o.confirmed

SendsDigest(j) ==
  LET o == open_data_stream(j)
  IN  ~j.last /\ o.num \in File /\ ~o.confirmed /\ ~o.waiting

init_data_stream(j) ==
  IF SendsDigest(j) THEN [open_data_stream(j) EXCEPT !.waiting = TRUE] ELSE j

\* A mistake: the end of the file is noticed one block late.
AtEof_Late(j) == j.pos > Size[j.num]

AtEof(j) == j.pos >= Size[j.num]

read(j) ==
  IF AtEof(j) THEN NextFile(j) ELSE [j EXCEPT !.pos = @ + 1]

job_completed(j) == ~j.confirmed /\ ~j.waiting

job_skipped(j) == j.skipped /\ Len(Size) = 1

set_file_skipped(j) == [NextFile(j) EXCEPT !.skipped = TRUE]

\* A mistake: Skip(true) is taken for Skip(false).
confirm_NoSkip(j, num, n) ==
  IF j.num # num THEN j
  ELSE [j EXCEPT !.confirmed = TRUE, !.skipped = FALSE, !.pos = IF n > 0 THEN n ELSE @]

\* confirm with set_stream_offset, on the side that reads.
confirm(j, num, n) ==
  IF j.num # num THEN j
  ELSE IF n = Skip THEN set_file_skipped(j)
  ELSE [j EXCEPT !.confirmed = TRUE, !.skipped = FALSE, !.pos = IF n > 0 THEN n ELSE @]

-----------------------------------------------------------------------------
(* The writer; d is what the disk holds for the job.                       *)

\* modify_time: the part becomes the file.
modify_time(j, d) ==
  IF ~(j.files /\ j.num \in File) THEN d
  ELSE [d EXCEPT ![j.num] =
          [file |-> IF ~@.download THEN @.file
                    ELSE IF @.part = Whole(j.num) THEN "whole" ELSE "broken",
           download |-> FALSE, part |-> << >>, digest |-> FALSE]]

remove_download_file(j, d) ==
  IF ~(j.files /\ j.num \in File) THEN d
  ELSE [d EXCEPT ![j.num] = [@ EXCEPT !.download = FALSE, !.part = << >>, !.digest = FALSE]]

StartsFile(j, num) == num # j.num \/ ~j.open

\* The disk after `write' has opened the file of the block.
Started(j, num, d) ==
  IF StartsFile(j, num)
    THEN [modify_time(j, d) EXCEPT ![num] =
            [@ EXCEPT !.download = TRUE, !.part = << >>, !.digest = TRUE]]
    ELSE d

write(j, num) == [j EXCEPT !.num = num, !.open = TRUE]

Written(j, num, b, d) ==
  [Started(j, num, d) EXCEPT ![num].part = @ \o (IF b = Eof THEN << >> ELSE <<b>>)]

\* A mistake: the part is not opened, and the next block starts it anew.
confirm_write_NoSeek(j, num, n, d) ==
  IF j.num # num THEN j
  ELSE IF n = Skip THEN [j EXCEPT !.num = @ + 1, !.open = FALSE] ELSE j

\* confirm with set_stream_offset, on the side that writes: the part is
\* opened at its end.
confirm_write(j, num, n, d) ==
  IF j.num # num THEN j
  ELSE IF n = Skip THEN [j EXCEPT !.num = @ + 1, !.open = FALSE]
  ELSE IF n > 0 /\ d[num].download /\ d[num].digest THEN [j EXCEPT !.open = TRUE]
  ELSE j

NoSuchFile == -1

\* NoSuchFile, or the transferred_size of the digest that asks for a
\* confirmation.
is_write_need_confirmation(resume, e) ==
  IF resume /\ e.digest /\ e.download /\ Len(e.part) > 0 THEN Len(e.part)
  ELSE IF e.file # "none" THEN 0 ELSE NoSuchFile
=============================================================================
