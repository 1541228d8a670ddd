------------------------ MODULE FileTransferProofs ------------------------
(***************************************************************************)
(* Theorems about FileTransfer, for any jobs, files, faults and lost       *)
(* connections, in every direction.                                        *)
(***************************************************************************)
EXTENDS FileTransfer, SequenceLemmas

-----------------------------------------------------------------------------
(* Jobs and messages.                                                      *)

Num == 1..Len(Size)+1

\* What the assumptions say of files, jobs and blocks.
LEMMA Constants ==
  /\ Len(Size) \in Nat /\ File = 1..Len(Size) /\ File \subseteq Num /\ Num \subseteq Nat \ {0}
  /\ Num = 1..Len(Size)+1 /\ 1 \in Num
  /\ \A f \in File : Size[f] \in Nat /\ f + 1 \in Num /\ 1..Size[f] \subseteq Block
  /\ Block \subseteq Nat \ {0}
  /\ Job = 1..Cardinality(Job) /\ Cardinality(Job) \in Nat /\ Job \subseteq Nat
<1>1. Len(Size) \in Nat /\ \A f \in File : Size[f] \in Nat
  BY SizeAssumption, LenProperties, ElementOfSeq DEF File
<1>2. Job = 1..Cardinality(Job) /\ Cardinality(Job) \in Nat
  BY TransferAssumption, FS_CardinalityType
<1>3. Job \subseteq Nat
  BY <1>2
<1>4. Block \subseteq Nat \ {0} /\ \A f \in File : 1..Size[f] \subseteq Block
  BY <1>1 DEF Block
<1> QED BY <1>1, <1>2, <1>3, <1>4 DEF File, Num

\* A reader that waits for the confirmation of its file, or has it, has the file open.
Reader ==
  {j \in ReadJob : /\ j.confirmed => j.waiting
                   /\ j.waiting <=> j.pos # Closed
                   /\ j.waiting => j.num \in File /\ ~j.last}

\* The reader waits for the confirmation of file f.
At(j, f) == j.num = f /\ j.waiting /\ ~j.confirmed

\* new_read.
LEMMA NewReader ==
  ASSUME NEW id \in Job, NEW num \in Num, NEW last \in BOOLEAN
  PROVE  new_read(id, num, last) \in Reader /\ new_read(id, num, last).id = id
         /\ new_read(id, num, last).last = last
BY DEF new_read, Reader, ReadJob, Num, Closed

\* The end of a file, a file that cannot be opened and one that cannot be read.
LEMMA NextReader ==
  ASSUME NEW j \in Reader, j.num \in File
  PROVE  /\ NextFile(j) \in Reader /\ NextFile(j).id = j.id /\ NextFile(j).last = j.last
         /\ ~NextFile(j).waiting /\ ~NextFile(j).confirmed /\ NextFile(j).num = j.num + 1
<1>1. j.num + 1 \in Num
  BY Constants
<1> QED BY <1>1 DEF NextFile, Reader, ReadJob, Num, Closed

\* init_data_stream: the job waits for the confirmation of the file it offers.
LEMMA InitReader ==
  ASSUME NEW j \in Reader
  PROVE  /\ init_data_stream(j) \in Reader /\ init_data_stream(j).id = j.id
         /\ init_data_stream(j).num = j.num /\ init_data_stream(j).last = j.last
         /\ SendsDigest(j) => ~j.waiting /\ ~j.last /\ At(init_data_stream(j), j.num) /\ j.num \in File
         /\ ~SendsDigest(j) => init_data_stream(j) = j
         /\ init_data_stream(j).confirmed => init_data_stream(j) = j
<1>1. CASE SendsDigest(j)
  <2>0. j \in ReadJob
    BY DEF Reader
  <2>1. MustOpen(j) /\ ~j.last /\ j.num \in File /\ ~j.waiting /\ ~j.confirmed
    BY <1>1 DEF SendsDigest, open_data_stream, MustOpen, Reader
  <2> DEFINE z == 0
  <2>2. z \in Nat /\ init_data_stream(j) = [j EXCEPT !.pos = z, !.confirmed = FALSE, !.waiting = TRUE]
    BY <1>1, <2>1 DEF init_data_stream, open_data_stream, Reader, ReadJob
  <2> HIDE DEF z
  <2>3. init_data_stream(j) \in ReadJob
    BY <2>0, <2>2 DEF ReadJob
  <2>4. /\ init_data_stream(j).id = j.id /\ init_data_stream(j).num = j.num
        /\ init_data_stream(j).last = j.last /\ init_data_stream(j).pos = z
        /\ init_data_stream(j).confirmed = FALSE /\ init_data_stream(j).waiting = TRUE
    BY <2>0, <2>2 DEF ReadJob
  <2>5. z # Closed
    BY <2>2 DEF Closed
  <2>6. At(init_data_stream(j), j.num) /\ ~init_data_stream(j).confirmed
    BY <2>4 DEF At
  <2>7. init_data_stream(j) \in Reader
    BY <2>1, <2>3, <2>4, <2>5 DEF Reader
  <2> QED BY <1>1, <2>1, <2>4, <2>6, <2>7
<1>2. CASE ~SendsDigest(j)
  BY <1>2 DEF init_data_stream, Reader
<1> QED BY <1>1, <1>2

\* read, of a file that is confirmed.
LEMMA ReadReader ==
  ASSUME NEW j \in Reader, j.confirmed
  PROVE  /\ read(j) \in Reader /\ read(j).id = j.id /\ read(j).last = j.last /\ j.num \in File
         /\ j.pos \in Nat /\ ~AtEof(j) => j.pos + 1 \in Block
<1>1. j.num \in File /\ j.pos \in Nat /\ j.waiting /\ Size[j.num] \in Nat
  BY Constants DEF Reader, ReadJob
<1>2. CASE AtEof(j)
  BY <1>1, <1>2, NextReader DEF read
<1>3. CASE ~AtEof(j)
  <2>1. j.pos + 1 \in 1..Size[j.num]
    BY <1>1, <1>3 DEF AtEof
  <2>2. j.pos + 1 \in Block
    BY <1>1, <2>1, Constants
  <2>3. read(j) = [j EXCEPT !.pos = @ + 1]
    BY <1>3 DEF read
  <2> QED BY <1>1, <2>2, <2>3 DEF Reader, ReadJob, Closed
<1> QED BY <1>1, <1>2, <1>3

\* confirm, of the file that the job waits at or of another one.
LEMMA ConfirmReader ==
  ASSUME NEW j \in Reader, NEW num \in Num, NEW n \in {Skip} \cup Nat,
         j.num = num => At(j, num)
  PROVE  /\ confirm(j, num, n) \in Reader /\ confirm(j, num, n).id = j.id
         /\ confirm(j, num, n).last = j.last
<1>1. CASE j.num # num
  BY <1>1 DEF confirm
<1>2. CASE j.num = num
  <2>1. At(j, num) /\ j.num \in File /\ j.waiting /\ ~j.last
    BY <1>2 DEF At, Reader
  <2>2. CASE n = Skip
    <3>1. confirm(j, num, n) = [NextFile(j) EXCEPT !.skipped = TRUE]
      BY <1>2, <2>2 DEF confirm, set_file_skipped
    <3>2. NextFile(j) \in Reader /\ NextFile(j).id = j.id /\ NextFile(j).last = j.last
      BY <2>1, NextReader
    <3> HIDE DEF NextFile
    <3> QED BY <3>1, <3>2 DEF Reader, ReadJob
  <2>3. CASE n # Skip
    <3>1. confirm(j, num, n) = [j EXCEPT !.confirmed = TRUE, !.skipped = FALSE, !.pos = IF n > 0 THEN n ELSE @]
      BY <1>2, <2>3 DEF confirm
    <3>2. n \in Nat /\ j.pos \in Nat
      BY <2>1, <2>3 DEF Reader, ReadJob, Skip
    <3> DEFINE p == IF n > 0 THEN n ELSE j.pos
    <3>0. p \in Nat /\ j \in ReadJob
      BY <3>2 DEF Reader
    <3>3. confirm(j, num, n) = [j EXCEPT !.confirmed = TRUE, !.skipped = FALSE, !.pos = p]
      BY <3>0, <3>1, <3>2 DEF ReadJob
    <3> HIDE DEF p
    <3>4. confirm(j, num, n) \in ReadJob
      BY <3>0, <3>3 DEF ReadJob
    <3>5. /\ confirm(j, num, n).id = j.id /\ confirm(j, num, n).num = j.num
          /\ confirm(j, num, n).last = j.last /\ confirm(j, num, n).pos = p
          /\ confirm(j, num, n).confirmed /\ (confirm(j, num, n).waiting <=> j.waiting)
      BY <3>0, <3>3 DEF ReadJob
    <3>6. p # Closed
      BY <3>0 DEF Closed
    <3> QED BY <2>1, <3>4, <3>5, <3>6 DEF Reader
  <2> QED BY <2>2, <2>3
<1> QED BY <1>1, <1>2

-----------------------------------------------------------------------------
(* The streams.                                                            *)

FromReader == {"digest", "block", "done", "error", "skipped"}

\* What its sender puts into a message.
Sound(m) ==
  /\ m.t \in {"digest", "need", "confirm", "block"} => m.num \in File
  /\ m.t = "block" => m.n \in {Eof} \cup Block
  /\ m.t = "need" => m.n \in Nat
  /\ m.t = "confirm" => m.n \in {Skip} \cup Nat

\* What the streams carry on an upload (u) and on a download, and what a
\* manager that reads (cm) tells.
ToServer(u) ==
  {m \in Message : Sound(m) /\ m.t \in
     IF u THEN {"receive", "cancel", "confirm"} \cup FromReader
          ELSE {"send", "cancel", "confirm"}}

ToClient(u) ==
  {m \in Message : Sound(m) /\ m.t \in
     IF u THEN {"confirm", "need", "done", "error", "skipped"}
          ELSE {"dir"} \cup FromReader}

Told(cm) == {m \in Message : cm /\ Sound(m) /\ m.t \in {"dir"} \cup FromReader}

\* The messages that are about a job, and those that offer one of its files,
\* ask for it or confirm it.  The request for a job that is read counts as an
\* offer: it comes before the first one.
About(id) == {m \in Message : m.id = id}

OfferS(u, id) == {m \in About(id) : m.t \in IF u THEN {"digest"} ELSE {"send", "confirm"}}
OfferC(u, id) == {m \in About(id) : m.t \in IF u THEN {"need", "confirm"} ELSE {"digest"}}
OfferI(id)    == {m \in About(id) : m.t = "digest"}

\* Those that are not for the file that job j waits at.
Wrong(P, j) == {m \in P : m.t = "send" \/ ~At(j, m.num)}

\* With streams S and C, the queue I of the manager and the dialogs A: of the
\* files of a job one is on offer at most, ...
One(u, S, C, I, A, id) ==
  /\ Lone(S, OfferS(u, id)) /\ Lone(C, OfferC(u, id)) /\ Lone(I, OfferI(id))
  /\ \A f, g \in File : <<id, f>> \in A /\ <<id, g>> \in A => f = g
  /\ ~(Has(S, OfferS(u, id)) /\ Has(C, OfferC(u, id)))
  /\ ~(Has(S, OfferS(u, id)) /\ Has(I, OfferI(id)))
  /\ ~(Has(C, OfferC(u, id)) /\ Has(I, OfferI(id)))
  /\ \A f \in File : <<id, f>> \in A =>
       ~Has(S, OfferS(u, id)) /\ ~Has(C, OfferC(u, id)) /\ ~Has(I, OfferI(id))

\* ... none is, ...
None(u, S, C, I, A, id) ==
  /\ ~Has(S, OfferS(u, id)) /\ ~Has(C, OfferC(u, id)) /\ ~Has(I, OfferI(id))
  /\ \A f \in File : <<id, f>> \notin A

\* ... it is the one that job j waits at, ...
Right(u, S, C, I, A, j) ==
  /\ ~Has(S, Wrong(OfferS(u, j.id), j)) /\ ~Has(C, Wrong(OfferC(u, j.id), j))
  /\ ~Has(I, Wrong(OfferI(j.id), j))
  /\ \A f \in File : <<j.id, f>> \in A => At(j, f)

\* ... or there is nothing about the job at all.
Quiet(S, C, I, A, id) ==
  /\ ~Has(S, About(id)) /\ ~Has(C, About(id)) /\ ~Has(I, About(id))
  /\ \A f \in File : <<id, f>> \notin A

Pipe(u, S, C, I, A, R) ==
  /\ \A id \in Job : One(u, S, C, I, A, id)
  /\ \A i \in DOMAIN R : Right(u, S, C, I, A, R[i])

-----------------------------------------------------------------------------
(* What is put into a stream and what is taken from it.                    *)

\* r has fewer messages than q.
Less(q, r) == \A P : (Has(r, P) => Has(q, P)) /\ (Lone(q, P) => Lone(r, P))

\* Message m was the first of q, and r is the rest.
Takes(q, r, m) ==
  Less(q, r) /\ \A P : m \in P => Has(q, P) /\ (Lone(q, P) => ~Has(r, P))

\* Message m is the last of r, after q.
Puts(q, r, m) ==
  \A P : /\ Has(r, P) <=> Has(q, P) \/ m \in P
         /\ Lone(q, P) /\ (m \in P => ~Has(q, P)) => Lone(r, P)

\* The first message of a stream is taken.
LEMMA Taking ==
  ASSUME NEW T, NEW q \in Seq(T), q # << >>
  PROVE  Head(q) \in T /\ Tail(q) \in Seq(T) /\ Takes(q, Tail(q), Head(q))
<1>1. Head(q) \in T /\ Tail(q) \in Seq(T)
  BY HeadTailProperties
<1>2. ASSUME NEW P
      PROVE  /\ Has(Tail(q), P) => Has(q, P)
             /\ Lone(q, P) => Lone(Tail(q), P)
             /\ Head(q) \in P => Has(q, P) /\ (Lone(q, P) => ~Has(Tail(q), P))
  <2>1. q[1] = Head(q) /\ 1 \in DOMAIN q
    BY HeadTailProperties, LenProperties, EmptySeq
  <2>2. Head(q) \in P => Has(q, P)
    BY <2>1 DEF Has
  <2> QED BY <2>2, TailHas
<1> QED BY <1>1, <1>2 DEF Takes, Less

\* A message is put into a stream.
LEMMA Putting ==
  ASSUME NEW T, NEW q \in Seq(T), NEW m \in T
  PROVE  /\ Append(q, m) \in Seq(T) /\ q \o <<m>> \in Seq(T)
         /\ Puts(q, Append(q, m), m) /\ q \o <<m>> = Append(q, m)
<1>1. q \o <<m>> = Append(q, m) /\ <<m>> \in Seq(T) /\ Append(q, m) \in Seq(T)
  BY AppendIsConcat
<1>2. ASSUME NEW P
      PROVE  /\ Has(q \o <<m>>, P) <=> Has(q, P) \/ m \in P
             /\ Lone(q, P) /\ (m \in P => ~Has(q, P)) => Lone(q \o <<m>>, P)
  BY <1>1, ConcatHas, SingleHas
<1> QED BY <1>1, <1>2 DEF Puts

\* A job that has no file on offer, and what it may do.
LEMMA NoneIsOne ==
  ASSUME NEW u, NEW S, NEW C, NEW I, NEW A, NEW j
  PROVE  /\ None(u, S, C, I, A, j.id) => Right(u, S, C, I, A, j)
         /\ Right(u, S, C, I, A, j) /\ ~(j.waiting /\ ~j.confirmed) => None(u, S, C, I, A, j.id)
<1>1. ASSUME NEW q, NEW P PROVE Has(q, Wrong(P, j)) => Has(q, P)
  BY DEF Has, Wrong
<1>2. ASSUME NEW q, NEW P, ~(j.waiting /\ ~j.confirmed) PROVE Has(q, P) => Has(q, Wrong(P, j))
  BY <1>2 DEF Has, Wrong, At
<1>3. None(u, S, C, I, A, j.id) => Right(u, S, C, I, A, j)
  BY <1>1 DEF None, Right
<1>4. Right(u, S, C, I, A, j) /\ ~(j.waiting /\ ~j.confirmed) => None(u, S, C, I, A, j.id)
  BY <1>2 DEF None, Right, At
<1> QED BY <1>3, <1>4

\* A job about which nothing is on its way has no file on offer.
LEMMA QuietIsNone ==
  ASSUME NEW u, NEW S, NEW C, NEW I, NEW A, NEW id
  PROVE  Quiet(S, C, I, A, id) => None(u, S, C, I, A, id)
<1>1. \A q : /\ Has(q, OfferS(u, id)) => Has(q, About(id))
             /\ Has(q, OfferC(u, id)) => Has(q, About(id))
             /\ Has(q, OfferI(id)) => Has(q, About(id))
  BY DEF Has, OfferS, OfferC, OfferI
<1> QED BY <1>1 DEF Quiet, None

\* Fewer messages and dialogs.
LEMMA LessIsFine ==
  ASSUME NEW u, NEW S, NEW C, NEW I, NEW A, NEW SS, NEW CC, NEW II, NEW AA,
         Less(S, SS), Less(C, CC), Less(I, II), AA \subseteq A
  PROVE  /\ \A id : One(u, S, C, I, A, id) => One(u, SS, CC, II, AA, id)
         /\ \A id : None(u, S, C, I, A, id) => None(u, SS, CC, II, AA, id)
         /\ \A j : Right(u, S, C, I, A, j) => Right(u, SS, CC, II, AA, j)
         /\ \A id : Quiet(S, C, I, A, id) => Quiet(SS, CC, II, AA, id)
         /\ \A R : Pipe(u, S, C, I, A, R) => Pipe(u, SS, CC, II, AA, R)
<1>1. \A id : One(u, S, C, I, A, id) => One(u, SS, CC, II, AA, id)
  BY DEF Less, One
<1>2. \A id : None(u, S, C, I, A, id) => None(u, SS, CC, II, AA, id)
  BY DEF Less, None
<1>3. \A j : Right(u, S, C, I, A, j) => Right(u, SS, CC, II, AA, j)
  BY DEF Less, Right
<1>4. \A id : Quiet(S, C, I, A, id) => Quiet(SS, CC, II, AA, id)
  BY DEF Less, Quiet
<1>5. \A R : Pipe(u, S, C, I, A, R) => Pipe(u, SS, CC, II, AA, R)
  BY <1>1, <1>3 DEF Pipe
<1> QED BY <1>1, <1>2, <1>3, <1>4, <1>5

\* A stream that stays as it is.
LEMMA SameIsLess ==
  ASSUME NEW q PROVE Less(q, q)
BY DEF Less

\* Jobs R that are read wait at the file that message m of theirs is for.
For(m, R) == \A i \in DOMAIN R : R[i].id = m.id => m.t # "send" /\ At(R[i], m.num)

\* The connection takes a message.
LEMMA TakeFromS ==
  ASSUME NEW u, NEW S, NEW C, NEW I, NEW A, NEW R, NEW SS, NEW m \in Message,
         Pipe(u, S, C, I, A, R), Takes(S, SS, m)
  PROVE  /\ Pipe(u, SS, C, I, A, R)
         /\ m \in OfferS(u, m.id) => None(u, SS, C, I, A, m.id) /\ For(m, R)
         /\ \A id : Quiet(S, C, I, A, id) => Quiet(SS, C, I, A, id) /\ id # m.id
<1>1. Less(S, SS) /\ m.id \in Job
  BY DEF Takes, Message
<1>2. /\ Pipe(u, SS, C, I, A, R)
      /\ \A id : Quiet(S, C, I, A, id) => Quiet(SS, C, I, A, id)
  BY <1>1, LessIsFine, SameIsLess
<1>3. ~Quiet(S, C, I, A, m.id)
  BY DEF Quiet, Takes, About
<1>4. ASSUME m \in OfferS(u, m.id) PROVE None(u, SS, C, I, A, m.id)
  <2>1. One(u, S, C, I, A, m.id) /\ Has(S, OfferS(u, m.id))
    BY <1>1, <1>4 DEF Pipe, Takes
  <2> QED BY <1>4, <2>1 DEF One, None, Takes
<1>5. ASSUME m \in OfferS(u, m.id), NEW i \in DOMAIN R, R[i].id = m.id
      PROVE  m.t # "send" /\ At(R[i], m.num)
  <2>1. ~Has(S, Wrong(OfferS(u, m.id), R[i]))
    BY <1>5 DEF Pipe, Right
  <2>2. m \notin Wrong(OfferS(u, m.id), R[i])
    BY <2>1 DEF Takes
  <2> QED BY <1>5, <2>2 DEF Wrong
<1> QED BY <1>2, <1>3, <1>4, <1>5 DEF For

\* The client takes a message.
LEMMA TakeFromC ==
  ASSUME NEW u, NEW S, NEW C, NEW I, NEW A, NEW R, NEW CC, NEW m \in Message,
         Pipe(u, S, C, I, A, R), Takes(C, CC, m)
  PROVE  /\ Pipe(u, S, CC, I, A, R)
         /\ m \in OfferC(u, m.id) => None(u, S, CC, I, A, m.id) /\ For(m, R)
         /\ \A id : Quiet(S, C, I, A, id) => Quiet(S, CC, I, A, id) /\ id # m.id
<1>1. Less(C, CC) /\ m.id \in Job
  BY DEF Takes, Message
<1>2. /\ Pipe(u, S, CC, I, A, R)
      /\ \A id : Quiet(S, C, I, A, id) => Quiet(S, CC, I, A, id)
  BY <1>1, LessIsFine, SameIsLess
<1>3. ~Quiet(S, C, I, A, m.id)
  BY DEF Quiet, Takes, About
<1>4. ASSUME m \in OfferC(u, m.id) PROVE None(u, S, CC, I, A, m.id)
  <2>1. One(u, S, C, I, A, m.id) /\ Has(C, OfferC(u, m.id))
    BY <1>1, <1>4 DEF Pipe, Takes
  <2> QED BY <1>4, <2>1 DEF One, None, Takes
<1>5. ASSUME m \in OfferC(u, m.id), NEW i \in DOMAIN R, R[i].id = m.id
      PROVE  m.t # "send" /\ At(R[i], m.num)
  <2>1. ~Has(C, Wrong(OfferC(u, m.id), R[i]))
    BY <1>5 DEF Pipe, Right
  <2>2. m \notin Wrong(OfferC(u, m.id), R[i])
    BY <2>1 DEF Takes
  <2> QED BY <1>5, <2>2 DEF Wrong
<1> QED BY <1>2, <1>3, <1>4, <1>5 DEF For

\* The connection takes what the manager told it.
LEMMA TakeFromI ==
  ASSUME NEW u, NEW S, NEW C, NEW I, NEW A, NEW R, NEW II, NEW m \in Message,
         Pipe(u, S, C, I, A, R), Takes(I, II, m)
  PROVE  /\ Pipe(u, S, C, II, A, R)
         /\ m \in OfferI(m.id) => None(u, S, C, II, A, m.id) /\ For(m, R)
         /\ \A id : Quiet(S, C, I, A, id) => Quiet(S, C, II, A, id) /\ id # m.id
<1>1. Less(I, II) /\ m.id \in Job
  BY DEF Takes, Message
<1>2. /\ Pipe(u, S, C, II, A, R)
      /\ \A id : Quiet(S, C, I, A, id) => Quiet(S, C, II, A, id)
  BY <1>1, LessIsFine, SameIsLess
<1>3. ~Quiet(S, C, I, A, m.id)
  BY DEF Quiet, Takes, About
<1>4. ASSUME m \in OfferI(m.id) PROVE None(u, S, C, II, A, m.id)
  <2>1. One(u, S, C, I, A, m.id) /\ Has(I, OfferI(m.id))
    BY <1>1, <1>4 DEF Pipe, Takes
  <2> QED BY <1>4, <2>1 DEF One, None, Takes
<1>5. ASSUME m \in OfferI(m.id), NEW i \in DOMAIN R, R[i].id = m.id
      PROVE  m.t # "send" /\ At(R[i], m.num)
  <2>1. ~Has(I, Wrong(OfferI(m.id), R[i]))
    BY <1>5 DEF Pipe, Right
  <2>2. m \notin Wrong(OfferI(m.id), R[i])
    BY <2>1 DEF Takes
  <2> QED BY <1>5, <2>2 DEF Wrong
<1> QED BY <1>2, <1>3, <1>4, <1>5 DEF For

\* A dialog is answered.
LEMMA TakeFromA ==
  ASSUME NEW u, NEW S, NEW C, NEW I, NEW A, NEW R, NEW id \in Job, NEW f \in File,
         Pipe(u, S, C, I, A, R), <<id, f>> \in A
  PROVE  /\ Pipe(u, S, C, I, A \ {<<id, f>>}, R)
         /\ None(u, S, C, I, A \ {<<id, f>>}, id)
         /\ \A i \in DOMAIN R : R[i].id = id => At(R[i], f)
         /\ \A x : Quiet(S, C, I, A, x) => Quiet(S, C, I, A \ {<<id, f>>}, x) /\ x # id
<1> DEFINE B == A \ {<<id, f>>}
<1>1. B \subseteq A
  OBVIOUS
<1>2. \A g \in File : <<id, g>> \in B => g # f /\ <<id, g>> \in A
  OBVIOUS
<1> HIDE DEF B
<1>3. /\ Pipe(u, S, C, I, B, R)
      /\ \A x : Quiet(S, C, I, A, x) => Quiet(S, C, I, B, x)
  BY <1>1, LessIsFine, SameIsLess
<1>4. None(u, S, C, I, B, id)
  BY <1>2 DEF Pipe, One, None
<1>5. \A i \in DOMAIN R : R[i].id = id => At(R[i], f)
  BY DEF Pipe, Right
<1>6. ~Quiet(S, C, I, A, id)
  BY DEF Quiet
<1> QED BY <1>3, <1>4, <1>5, <1>6 DEF B

\* The client sends a message: one that offers, asks or confirms follows
\* another that was taken.
LEMMA GiveToS ==
  ASSUME NEW u, NEW S, NEW C, NEW I, NEW A, NEW R, NEW SS, NEW m \in Message,
         Pipe(u, S, C, I, A, R), Puts(S, SS, m),
         m \in OfferS(u, m.id) => None(u, S, C, I, A, m.id) /\ For(m, R)
  PROVE  /\ Pipe(u, SS, C, I, A, R)
         /\ \A id : id # m.id => (Quiet(S, C, I, A, id) => Quiet(SS, C, I, A, id))
<1>1. \A id : m \in OfferS(u, id) => id = m.id
  BY DEF OfferS, About
<1>2. ASSUME NEW id \in Job PROVE One(u, SS, C, I, A, id)
  <2>1. One(u, S, C, I, A, id)
    BY DEF Pipe
  <2>2. CASE m \notin OfferS(u, id)
    BY <2>1, <2>2 DEF One, Puts
  <2>3. CASE m \in OfferS(u, id)
    BY <1>1, <2>1, <2>3 DEF One, None, Puts
  <2> QED BY <2>2, <2>3
<1>3. ASSUME NEW i \in DOMAIN R PROVE Right(u, SS, C, I, A, R[i])
  <2>1. Right(u, S, C, I, A, R[i])
    BY DEF Pipe
  <2>2. m \notin Wrong(OfferS(u, R[i].id), R[i])
    BY <1>1 DEF Wrong, For
  <2> QED BY <2>1, <2>2 DEF Right, Puts
<1>4. \A id : id # m.id => (Quiet(S, C, I, A, id) => Quiet(SS, C, I, A, id))
  BY DEF Quiet, Puts, About
<1> QED BY <1>2, <1>3, <1>4 DEF Pipe

\* The connection or its manager sends a message.
LEMMA GiveToC ==
  ASSUME NEW u, NEW S, NEW C, NEW I, NEW A, NEW R, NEW CC, NEW m \in Message,
         Pipe(u, S, C, I, A, R), Puts(C, CC, m),
         m \in OfferC(u, m.id) => None(u, S, C, I, A, m.id) /\ For(m, R)
  PROVE  /\ Pipe(u, S, CC, I, A, R)
         /\ \A id : id # m.id => (Quiet(S, C, I, A, id) => Quiet(S, CC, I, A, id))
<1>1. \A id : m \in OfferC(u, id) => id = m.id
  BY DEF OfferC, About
<1>2. ASSUME NEW id \in Job PROVE One(u, S, CC, I, A, id)
  <2>1. One(u, S, C, I, A, id)
    BY DEF Pipe
  <2>2. CASE m \notin OfferC(u, id)
    BY <2>1, <2>2 DEF One, Puts
  <2>3. CASE m \in OfferC(u, id)
    BY <1>1, <2>1, <2>3 DEF One, None, Puts
  <2> QED BY <2>2, <2>3
<1>3. ASSUME NEW i \in DOMAIN R PROVE Right(u, S, CC, I, A, R[i])
  <2>1. Right(u, S, C, I, A, R[i])
    BY DEF Pipe
  <2>2. m \notin Wrong(OfferC(u, R[i].id), R[i])
    BY <1>1 DEF Wrong, For
  <2> QED BY <2>1, <2>2 DEF Right, Puts
<1>4. \A id : id # m.id => (Quiet(S, C, I, A, id) => Quiet(S, CC, I, A, id))
  BY DEF Quiet, Puts, About
<1> QED BY <1>2, <1>3, <1>4 DEF Pipe

\* The manager that reads tells something.
LEMMA GiveToI ==
  ASSUME NEW u, NEW S, NEW C, NEW I, NEW A, NEW R, NEW II, NEW m \in Message,
         Pipe(u, S, C, I, A, R), Puts(I, II, m),
         m \in OfferI(m.id) => None(u, S, C, I, A, m.id) /\ For(m, R)
  PROVE  /\ Pipe(u, S, C, II, A, R)
         /\ \A id : id # m.id => (Quiet(S, C, I, A, id) => Quiet(S, C, II, A, id))
<1>1. \A id : m \in OfferI(id) => id = m.id
  BY DEF OfferI, About
<1>2. ASSUME NEW id \in Job PROVE One(u, S, C, II, A, id)
  <2>1. One(u, S, C, I, A, id)
    BY DEF Pipe
  <2>2. CASE m \notin OfferI(id)
    BY <2>1, <2>2 DEF One, Puts
  <2>3. CASE m \in OfferI(id)
    BY <1>1, <2>1, <2>3 DEF One, None, Puts
  <2> QED BY <2>2, <2>3
<1>3. ASSUME NEW i \in DOMAIN R PROVE Right(u, S, C, II, A, R[i])
  <2>1. Right(u, S, C, I, A, R[i])
    BY DEF Pipe
  <2>2. m \notin Wrong(OfferI(R[i].id), R[i])
    BY <1>1 DEF Wrong, For
  <2> QED BY <2>1, <2>2 DEF Right, Puts
<1>4. \A id : id # m.id => (Quiet(S, C, I, A, id) => Quiet(S, C, II, A, id))
  BY DEF Quiet, Puts, About
<1> QED BY <1>2, <1>3, <1>4 DEF Pipe

\* The user is asked.
LEMMA GiveToA ==
  ASSUME NEW u, NEW S, NEW C, NEW I, NEW A, NEW R, NEW id \in Job, NEW f \in File,
         Pipe(u, S, C, I, A, R), None(u, S, C, I, A, id),
         \A i \in DOMAIN R : R[i].id = id => At(R[i], f)
  PROVE  /\ Pipe(u, S, C, I, A \cup {<<id, f>>}, R)
         /\ \A x : x # id => (Quiet(S, C, I, A, x) => Quiet(S, C, I, A \cup {<<id, f>>}, x))
<1> DEFINE B == A \cup {<<id, f>>}
<1>1. \A x, g : <<x, g>> \in B <=> <<x, g>> \in A \/ (x = id /\ g = f)
  OBVIOUS
<1> HIDE DEF B
<1>2. ASSUME NEW x \in Job PROVE One(u, S, C, I, B, x)
  <2>1. One(u, S, C, I, A, x)
    BY DEF Pipe
  <2> QED BY <1>1, <2>1 DEF One, None
<1>3. ASSUME NEW i \in DOMAIN R PROVE Right(u, S, C, I, B, R[i])
  <2>1. Right(u, S, C, I, A, R[i])
    BY DEF Pipe
  <2> QED BY <1>1, <2>1 DEF Right
<1>4. \A x : x # id => (Quiet(S, C, I, A, x) => Quiet(S, C, I, B, x))
  BY <1>1 DEF Quiet
<1> QED BY <1>2, <1>3, <1>4 DEF Pipe, B

\* To the offers job j is as k.
Alike(j, k) ==
  j.id = k.id /\ (j.num = k.num /\ (j.waiting <=> k.waiting) /\ (j.confirmed <=> k.confirmed))

\* The jobs change: those that do have no offer.
LEMMA ReadersChange ==
  ASSUME NEW u, NEW S, NEW C, NEW I, NEW A, NEW R, NEW Q, Pipe(u, S, C, I, A, R),
         \A i \in DOMAIN Q : \/ \E k \in DOMAIN R : Alike(Q[i], R[k])
                             \/ None(u, S, C, I, A, Q[i].id)
  PROVE  Pipe(u, S, C, I, A, Q)
<1>1. ASSUME NEW i \in DOMAIN Q PROVE Right(u, S, C, I, A, Q[i])
  <2>1. CASE None(u, S, C, I, A, Q[i].id)
    BY <2>1, NoneIsOne
  <2>2. ASSUME NEW k \in DOMAIN R, Alike(Q[i], R[k]) PROVE Right(u, S, C, I, A, Q[i])
    <3>1. Right(u, S, C, I, A, R[k])
      BY DEF Pipe
    <3>2. Q[i].id = R[k].id /\ \A f : At(Q[i], f) <=> At(R[k], f)
      BY <2>2 DEF Alike, At
    <3>3. \A P : Wrong(P, Q[i]) = Wrong(P, R[k])
      BY <3>2 DEF Wrong
    <3> QED BY <3>1, <3>2, <3>3 DEF Right
  <2> QED BY <2>1, <2>2
<1> QED BY <1>1 DEF Pipe

-----------------------------------------------------------------------------
(* The writer and its disk.                                                *)

Disk == [File -> Entry]

\* new_write and write.
LEMMA WriterTypes ==
  /\ \A num \in Num, files, last \in BOOLEAN : new_write(num, files, last) \in WriteJob
  /\ \A j \in WriteJob, num \in Num : write(j, num) \in WriteJob
  /\ \A j \in WriteJob, s \in {"ask", "overwrite", "skip"} : [j EXCEPT !.strategy = s] \in WriteJob
  /\ \A j \in WriteJob : [j EXCEPT !.files = TRUE] \in WriteJob
  /\ \A j \in WriteJob : [j EXCEPT !.last = FALSE, !.resume = TRUE] \in WriteJob
BY DEF new_write, write, WriteJob, Num

\* confirm, on the side that writes.
LEMMA ConfirmWriter ==
  ASSUME NEW j \in WriteJob, NEW num \in File, NEW n \in {Skip} \cup Nat, NEW d
  PROVE  confirm_write(j, num, n, d) \in WriteJob
<1>1. CASE j.num # num
  BY <1>1 DEF confirm_write
<1>2. CASE j.num = num /\ n = Skip
  <2>1. j.num + 1 \in Num
    BY <1>2, Constants
  <2>2. confirm_write(j, num, n, d) = [j EXCEPT !.num = j.num + 1, !.open = FALSE]
    BY <1>2 DEF confirm_write, WriteJob
  <2> QED BY <2>1, <2>2 DEF WriteJob, Num
<1>3. CASE j.num = num /\ n # Skip
  <2>1. confirm_write(j, num, n, d) \in {j, [j EXCEPT !.open = TRUE]}
    BY <1>3 DEF confirm_write
  <2>2. [j EXCEPT !.open = TRUE] \in WriteJob
    BY DEF WriteJob
  <2> QED BY <2>1, <2>2
<1> QED BY <1>1, <1>2, <1>3

\* What the methods of a write job leave of one file.
LEMMA EntryTypes ==
  ASSUME NEW e \in Entry
  PROVE  /\ \A file \in {"none", "old", "whole", "broken"} :
              [file |-> file, download |-> FALSE, part |-> << >>, digest |-> FALSE] \in Entry
         /\ [e EXCEPT !.download = FALSE, !.part = << >>, !.digest = FALSE] \in Entry
         /\ [e EXCEPT !.download = TRUE, !.part = << >>, !.digest = TRUE] \in Entry
         /\ \A p \in Seq(Block) : [e EXCEPT !.part = p] \in Entry
         /\ e.part \in Seq(Block)
<1> DEFINE T == Seq(Block)
           z == << >>
<1>1. z \in T
  OBVIOUS
<1>2. Entry = [file : {"none", "old", "whole", "broken"}, download : BOOLEAN, part : T, digest : BOOLEAN]
  BY DEF Entry
<1> HIDE DEF T, z
<1>3. e \in [file : {"none", "old", "whole", "broken"}, download : BOOLEAN, part : T, digest : BOOLEAN]
  BY <1>2
<1>4. /\ \A file \in {"none", "old", "whole", "broken"} :
           [file |-> file, download |-> FALSE, part |-> z, digest |-> FALSE] \in Entry
      /\ [e EXCEPT !.download = FALSE, !.part = z, !.digest = FALSE] \in Entry
      /\ [e EXCEPT !.download = TRUE, !.part = z, !.digest = TRUE] \in Entry
      /\ \A p \in T : [e EXCEPT !.part = p] \in Entry
      /\ e.part \in T
  BY <1>1, <1>2, <1>3
<1> QED BY <1>4 DEF T, z

\* What the methods of a write job leave on the disk.
LEMMA DiskTypes ==
  ASSUME NEW j \in WriteJob, NEW d \in Disk
  PROVE  /\ modify_time(j, d) \in Disk
         /\ remove_download_file(j, d) \in Disk
         /\ \A num \in File : Started(j, num, d) \in Disk
         /\ \A num \in File, b \in {Eof} \cup Block : Written(j, num, b, d) \in Disk
<1>1. ASSUME NEW c \in Disk, NEW f \in File, NEW e \in Entry
      PROVE  [c EXCEPT ![f] = e] \in Disk
  BY DEF Disk
<1>0. \A c \in Disk, f \in File : c[f] \in Entry
  BY DEF Disk
<1>2. modify_time(j, d) \in Disk
  <2>1. CASE ~(j.files /\ j.num \in File)
    BY <2>1 DEF modify_time
  <2>2. CASE j.files /\ j.num \in File
    <3> DEFINE e == d[j.num]
               file == IF ~e.download THEN e.file
                       ELSE IF e.part = Whole(j.num) THEN "whole" ELSE "broken"
    <3>1. e \in Entry
      BY <1>0, <2>2
    <3>2. file \in {"none", "old", "whole", "broken"}
      BY <3>1 DEF Entry
    <3> DEFINE g == [file |-> file, download |-> FALSE, part |-> << >>, digest |-> FALSE]
    <3>3. modify_time(j, d) = [d EXCEPT ![j.num] = g]
      BY <2>2 DEF modify_time, Disk
    <3> HIDE DEF e, file
    <3>4. g \in Entry
      BY <3>1, <3>2, EntryTypes
    <3> HIDE DEF g
    <3>5. j.num \in File
      BY <2>2
    <3>6. [d EXCEPT ![j.num] = g] \in Disk
      BY <3>4, <3>5 DEF Disk
    <3> QED BY <3>3, <3>6
  <2> QED BY <2>1, <2>2
<1>3. remove_download_file(j, d) \in Disk
  <2>1. CASE ~(j.files /\ j.num \in File)
    BY <2>1 DEF remove_download_file
  <2>2. CASE j.files /\ j.num \in File
    <3> DEFINE e == d[j.num]
               r == [e EXCEPT !.download = FALSE, !.part = << >>, !.digest = FALSE]
    <3>1. e \in Entry
      BY <1>0, <2>2
    <3>2. r \in Entry
      BY <3>1, EntryTypes
    <3>3. remove_download_file(j, d) = [d EXCEPT ![j.num] = r]
      BY <2>2 DEF remove_download_file, Disk
    <3> HIDE DEF r, e
    <3>4. [d EXCEPT ![j.num] = r] \in Disk
      BY <2>2, <3>2 DEF Disk
    <3> QED BY <3>3, <3>4
  <2> QED BY <2>1, <2>2
<1>4. ASSUME NEW num \in File PROVE Started(j, num, d) \in Disk
  <2>1. CASE ~StartsFile(j, num)
    BY <2>1 DEF Started
  <2>2. CASE StartsFile(j, num)
    <3> DEFINE c == modify_time(j, d)
               e == c[num]
               r == [e EXCEPT !.download = TRUE, !.part = << >>, !.digest = TRUE]
    <3>1. e \in Entry
      BY <1>0, <1>2
    <3>2. r \in Entry
      BY <3>1, EntryTypes
    <3>3. Started(j, num, d) = [c EXCEPT ![num] = r]
      BY <2>2 DEF Started
    <3> HIDE DEF r, c
    <3> QED BY <1>1, <1>2, <3>2, <3>3 DEF c
  <2> QED BY <2>1, <2>2
<1>5. ASSUME NEW num \in File, NEW b \in {Eof} \cup Block PROVE Written(j, num, b, d) \in Disk
  <2> DEFINE c == Started(j, num, d)
             e == c[num]
             x == IF b = Eof THEN << >> ELSE <<b>>
             p == e.part \o x
             r == [e EXCEPT !.part = p]
  <2>1. c \in Disk /\ e \in Entry
    BY <1>0, <1>4
  <2>2. x \in Seq(Block)
    OBVIOUS
  <2>6. e.part \in Seq(Block)
    BY <2>1, EntryTypes
  <2>3. p \in Seq(Block)
    <3> HIDE DEF x, e
    <3> QED BY <2>2, <2>6, ConcatProperties
  <2>4. Written(j, num, b, d) = [c EXCEPT ![num] = r]
    BY <2>1 DEF Written, Disk
  <2> HIDE DEF c, p, e
  <2>5. r \in Entry
    BY <2>1, <2>3, EntryTypes
  <2> HIDE DEF r
  <2> QED BY <1>1, <2>1, <2>4, <2>5
<1> QED BY <1>2, <1>3, <1>4, <1>5

-----------------------------------------------------------------------------
(* The invariant.                                                          *)

JobsOf(id) == {j \in Reader : j.id = id}

Writers(W) == DOMAIN W \subseteq Job /\ \A id \in DOMAIN W : W[id] \in WriteJob

\* The jobs that are read, each once, and what is on its way.
Good(u, cm, R, S, C, I, A) ==
  /\ R \in Seq(Reader) /\ \A id \in Job : Lone(R, JobsOf(id))
  /\ S \in Seq(ToServer(u)) /\ C \in Seq(ToClient(u)) /\ I \in Seq(Told(cm))
  /\ Pipe(u, S, C, I, A, R)

\* Of a job that has not been started, or has not been resumed, nothing is on
\* its way and nothing is read.
Idle(u, R, S, C, I, A, W, w, v) ==
  \A x \in Job :
    /\ w[x] \in {"none", "paused"} =>
         /\ Quiet(S, C, I, A, x)
         /\ \A i \in DOMAIN R : R[i].id = x => u /\ w[x] = "paused" /\ R[i].last
    /\ w[x] = "none" => v[x] = 0 /\ x \notin DOMAIN W
    /\ w[x] = "paused" => v[x] # 0

Typed ==
  /\ mode \in Modes /\ Writers(wjobs) /\ disk \in [Job -> Disk]
  /\ cmIds \subseteq Job /\ ask \subseteq Job \X File
  /\ ui \in [Job -> {"none", "running", "paused", "done", "error", "cancelled", "lost"}]
  /\ saved \in [Job -> 0..Len(Size)+1]
  /\ skips \subseteq Job \X File /\ unwritten \subseteq Job
  /\ up \in BOOLEAN /\ faults \in 0..MaxFaults /\ lost \in 0..MaxLost

OneOffer ==
  /\ Typed
  /\ Good(Upload, InCM, rjobs, toServer, toClient, ipc, ask)
  /\ Idle(Upload, rjobs, toServer, toClient, ipc, ask, wjobs, ui, saved)
  /\ ~up => toServer = << >> /\ toClient = << >> /\ ipc = << >> /\ ask = {}

\* Seq is monotonic.
LEMMA SeqSubset ==
  ASSUME NEW A, NEW B, A \subseteq B, NEW q \in Seq(A)
  PROVE  q \in Seq(B)
BY LenProperties, ElementOfSeq, IsASeq

\* The invariant gives the types.
LEMMA OneOfferTypes ==
  OneOffer => TypeOK
<1> SUFFICES ASSUME OneOffer PROVE TypeOK
  OBVIOUS
<1>1. /\ Reader \subseteq ReadJob /\ ToServer(Upload) \subseteq Message
      /\ ToClient(Upload) \subseteq Message /\ Told(InCM) \subseteq Message
  BY DEF Reader, ToServer, ToClient, Told
<1>2. /\ rjobs \in Seq(ReadJob) /\ toServer \in Seq(Message)
      /\ toClient \in Seq(Message) /\ ipc \in Seq(Message)
  BY <1>1, SeqSubset DEF OneOffer, Good
<1> HIDE DEF Message
<1> QED BY <1>2 DEF OneOffer, Typed, TypeOK, Writers, Disk

\* A step of a session that is up.
LEMMA Together ==
  ASSUME Typed', up', mode' = mode,
         Good(Upload, InCM, rjobs', toServer', toClient', ipc', ask'),
         Idle(Upload, rjobs', toServer', toClient', ipc', ask', wjobs', ui', saved')
  PROVE  OneOffer'
<1>1. Upload' = Upload /\ InCM' = InCM
  BY DEF Upload, InCM
<1>2. /\ Good(Upload, InCM, rjobs, toServer, toClient, ipc, ask)'
      /\ Idle(Upload, rjobs, toServer, toClient, ipc, ask, wjobs, ui, saved)'
  BY <1>1
<1> QED BY <1>2 DEF OneOffer

\* What keeps Idle: a job that is idle was so before, and nothing came to it.
LEMMA IdleKept ==
  ASSUME NEW u, NEW R, NEW S, NEW C, NEW I, NEW A, NEW W, NEW w, NEW v,
         NEW RR, NEW SS, NEW CC, NEW II, NEW AA, NEW WW, NEW ww, NEW vv,
         Idle(u, R, S, C, I, A, W, w, v),
         \A x \in Job : ww[x] \in {"none", "paused"} =>
           /\ ww[x] = w[x] /\ vv[x] = v[x]
           /\ Quiet(S, C, I, A, x) => Quiet(SS, CC, II, AA, x)
           /\ x \in DOMAIN WW => x \in DOMAIN W
           /\ \A i \in DOMAIN RR : RR[i].id = x =>
                \E k \in DOMAIN R : R[k].id = x /\ (R[k].last => RR[i].last)
  PROVE  Idle(u, RR, SS, CC, II, AA, WW, ww, vv)
<1> SUFFICES ASSUME NEW x \in Job, ww[x] \in {"none", "paused"}
             PROVE  /\ Quiet(SS, CC, II, AA, x)
                    /\ \A i \in DOMAIN RR : RR[i].id = x => u /\ ww[x] = "paused" /\ RR[i].last
                    /\ ww[x] = "none" => vv[x] = 0 /\ x \notin DOMAIN WW
                    /\ ww[x] = "paused" => vv[x] # 0
  BY Zenon DEF Idle
<1>1. /\ Quiet(S, C, I, A, x)
      /\ \A i \in DOMAIN R : R[i].id = x => u /\ w[x] = "paused" /\ R[i].last
      /\ w[x] = "none" => v[x] = 0 /\ x \notin DOMAIN W
      /\ w[x] = "paused" => v[x] # 0
  BY DEF Idle
<1> QED BY <1>1

-----------------------------------------------------------------------------
(* Tables of jobs.                                                         *)

\* write_jobs with a job more, less, or changed.
LEMMA WriterTable ==
  ASSUME Writers(wjobs), NEW id \in Job
  PROVE  /\ Writers(Without(id)) /\ DOMAIN Without(id) \subseteq DOMAIN wjobs
         /\ \A j \in WriteJob : /\ Writers(With(id, j)) /\ DOMAIN With(id, j) = DOMAIN wjobs \cup {id}
                                /\ Writers([wjobs EXCEPT ![id] = j])
                                /\ DOMAIN [wjobs EXCEPT ![id] = j] = DOMAIN wjobs
BY DEF Writers, Without, With

\* read_jobs after a change of jobs in place.
LEMMA Mapped ==
  ASSUME NEW R \in Seq(Reader), \A id \in Job : Lone(R, JobsOf(id)), NEW Q,
         Q = [i \in DOMAIN R |-> Q[i]],
         \A i \in DOMAIN R : Q[i] \in Reader /\ Q[i].id = R[i].id
  PROVE  Q \in Seq(Reader) /\ DOMAIN Q = DOMAIN R /\ \A id \in Job : Lone(Q, JobsOf(id))
<1>1. DOMAIN R = 1..Len(R) /\ Len(R) \in Nat /\ \A i \in DOMAIN R : R[i] \in Reader
  BY LenProperties, ElementOfSeq
<1>2. Q \in [1..Len(R) -> Reader] /\ DOMAIN Q = DOMAIN R
  BY <1>1
<1>3. Q \in Seq(Reader)
  BY <1>1, <1>2, IsASeq
<1>4. \A id \in Job, i \in DOMAIN R : Q[i] \in JobsOf(id) <=> R[i] \in JobsOf(id)
  BY <1>1 DEF JobsOf
<1>5. \A id \in Job : Lone(Q, JobsOf(id))
  BY <1>2, <1>4 DEF Lone
<1> QED BY <1>2, <1>3, <1>5

\* A job that a table has is there once.
LEMMA Unique ==
  ASSUME NEW R \in Seq(Reader), \A id \in Job : Lone(R, JobsOf(id)),
         NEW i \in DOMAIN R, NEW k \in DOMAIN R, R[i].id = R[k].id
  PROVE  i = k
<1>1. R[i] \in Reader /\ R[k] \in Reader
  BY ElementOfSeq, LenProperties
<1>2. R[i].id \in Job
  BY <1>1 DEF Reader, ReadJob
<1>3. R[i] \in JobsOf(R[i].id) /\ R[k] \in JobsOf(R[i].id)
  BY <1>1 DEF JobsOf
<1> QED BY <1>2, <1>3 DEF Lone

\* remove_job.
LEMMA Removed ==
  ASSUME NEW R \in Seq(Reader), \A x \in Job : Lone(R, JobsOf(x)), NEW id \in Job
  PROVE  /\ remove_job(id, R) \in Seq(Reader)
         /\ \A x \in Job : Lone(remove_job(id, R), JobsOf(x))
         /\ \A k \in DOMAIN remove_job(id, R) : \E i \in DOMAIN R : remove_job(id, R)[k] = R[i]
         /\ \A k \in DOMAIN remove_job(id, R) : remove_job(id, R)[k].id # id
<1> DEFINE P == PositionsOf(id, R)
<1>1. CASE P = {}
  BY <1>1 DEF remove_job, PositionsOf
<1>2. CASE P # {}
  <2>1. DOMAIN R = 1..Len(R) /\ Len(R) \in Nat /\ \A i \in DOMAIN R : R[i] \in Reader
    BY LenProperties, ElementOfSeq
  <2>2. P \subseteq Nat
    BY <2>1 DEF PositionsOf
  <2>3. Min(P) \in P
    <3>1. \E n \in P : \A k \in P : n <= k
      BY <1>2, <2>2, LeastElement
    <3> QED BY <3>1 DEF Min
  <2> DEFINE n == Min(P)
             Q == RemoveAt(R, n)
  <2>4. n \in 1..Len(R) /\ R[n].id = id
    BY <2>1, <2>3 DEF PositionsOf
  <2>5. remove_job(id, R) = Q
    BY <1>2 DEF remove_job
  <2> HIDE DEF n
  <2>6. Q \in Seq(Reader)
    BY <2>4, RemoveAtHas
  <2>7. \A x \in Job : Lone(Q, JobsOf(x))
    BY <2>4, RemoveAtHas
  <2>8. ~Has(Q, JobsOf(id))
    <3>1. R[n] \in JobsOf(id)
      BY <2>1, <2>4 DEF JobsOf
    <3> QED BY <2>4, <3>1, RemoveAtHas
  <2>9. ASSUME NEW k \in DOMAIN Q PROVE \E i \in DOMAIN R : Q[k] = R[i]
    <3> DEFINE one == {Q[k]}
    <3>1. Has(Q, one)
      BY DEF Has
    <3> HIDE DEF Q
    <3>2. Has(R, one)
      BY <2>4, <3>1, RemoveAtHas DEF Q
    <3> QED BY <3>2 DEF Has
  <2>10. \A k \in DOMAIN Q : Q[k] \in Reader
    BY <2>6, ElementOfSeq, LenProperties
  <2>11. \A k \in DOMAIN Q : Q[k].id # id
    BY <2>8, <2>10 DEF Has, JobsOf
  <2> QED BY <2>5, <2>6, <2>7, <2>9, <2>11
<1> QED BY <1>1, <1>2

\* A job is added that read_jobs does not have.
LEMMA Appended ==
  ASSUME NEW R \in Seq(Reader), \A x \in Job : Lone(R, JobsOf(x)), NEW j \in Reader,
         \A i \in DOMAIN R : R[i].id # j.id
  PROVE  /\ Append(R, j) \in Seq(Reader)
         /\ \A x \in Job : Lone(Append(R, j), JobsOf(x))
         /\ \A k \in DOMAIN Append(R, j) :
              Append(R, j)[k] = j \/ \E i \in DOMAIN R : Append(R, j)[k] = R[i]
<1>1. Append(R, j) \in Seq(Reader) /\ Puts(R, Append(R, j), j)
  BY Putting
<1>2. \A x \in Job : j \in JobsOf(x) => ~Has(R, JobsOf(x))
  BY DEF Has, JobsOf
<1>3. \A x \in Job : Lone(Append(R, j), JobsOf(x))
  BY <1>1, <1>2 DEF Puts
<1>4. ASSUME NEW k \in DOMAIN Append(R, j)
      PROVE  Append(R, j)[k] = j \/ \E i \in DOMAIN R : Append(R, j)[k] = R[i]
  <2> DEFINE y == Append(R, j)[k]
             one == {y}
  <2>1. Has(Append(R, j), one)
    BY DEF Has
  <2> HIDE DEF y
  <2>2. Has(R, one) \/ j \in one
    BY <1>1, <2>1 DEF Puts
  <2> QED BY <2>2 DEF Has, y
<1> QED BY <1>1, <1>3, <1>4

-----------------------------------------------------------------------------
(* Handlers.                                                               *)

SM == Head(toServer)
CM == Head(toClient)

\* What becomes of the jobs that are read when message m is handled: one that
\* changes is m's, and m was about its offer.
Follow(R, Q, m, offer) ==
  /\ Q \in Seq(Reader) /\ \A x \in Job : Lone(Q, JobsOf(x))
  /\ \A i \in DOMAIN Q :
       \/ \E k \in DOMAIN R : Alike(Q[i], R[k]) /\ (R[k].last => Q[i].last)
       \/ Q[i].id = m.id /\ offer

\* A handler that leaves read_jobs alone.
LEMMA FollowSame ==
  ASSUME NEW R \in Seq(Reader), \A x \in Job : Lone(R, JobsOf(x)), NEW m, NEW offer
  PROVE  Follow(R, R, m, offer)
BY DEF Follow, Alike

\* What the connection may find at the head of its stream.
LEMMA GotFromClient ==
  ASSUME OneOffer, NEW t, FromClient(t)
  PROVE  /\ SM \in ToServer(Upload) /\ SM \in Message /\ SM.id \in Job /\ SM.num \in Num
         /\ SM.t = t /\ Sound(SM) /\ up
         /\ toServer' \in Seq(ToServer(Upload))
         /\ Pipe(Upload, toServer', toClient, ipc, ask, rjobs)
         /\ SM \in OfferS(Upload, SM.id) =>
              None(Upload, toServer', toClient, ipc, ask, SM.id) /\ For(SM, rjobs)
         /\ ui[SM.id] \notin {"none", "paused"}
         /\ \A x : Quiet(toServer, toClient, ipc, ask, x) => Quiet(toServer', toClient, ipc, ask, x)
<1>1. toServer \in Seq(ToServer(Upload)) /\ toServer # << >> /\ toServer' = Tail(toServer)
  BY DEF OneOffer, Good, FromClient
<1>2. SM \in ToServer(Upload) /\ toServer' \in Seq(ToServer(Upload)) /\ Takes(toServer, toServer', SM)
  BY <1>1, Taking DEF SM
<1>3. SM \in Message /\ SM.id \in Job /\ SM.num \in Num /\ Sound(SM)
  BY <1>2 DEF ToServer, Message, Num
<1>4. Pipe(Upload, toServer, toClient, ipc, ask, rjobs)
  BY DEF OneOffer, Good
<1>5. /\ Pipe(Upload, toServer', toClient, ipc, ask, rjobs)
      /\ SM \in OfferS(Upload, SM.id) =>
           None(Upload, toServer', toClient, ipc, ask, SM.id) /\ For(SM, rjobs)
      /\ \A x : Quiet(toServer, toClient, ipc, ask, x) =>
                  Quiet(toServer', toClient, ipc, ask, x) /\ x # SM.id
  BY <1>2, <1>3, <1>4, TakeFromS
<1>6. ui[SM.id] \notin {"none", "paused"}
  BY <1>3, <1>5 DEF OneOffer, Idle
<1>7. SM.t = t /\ up
  BY DEF FromClient, SM
<1> QED BY <1>2, <1>3, <1>5, <1>6, <1>7

\* What the client may find at the head of its stream.
LEMMA GotFromServer ==
  ASSUME OneOffer, NEW t, FromServer(t)
  PROVE  /\ CM \in ToClient(Upload) /\ CM \in Message /\ CM.id \in Job /\ CM.num \in Num
         /\ CM.t = t /\ Sound(CM) /\ up
         /\ toClient' \in Seq(ToClient(Upload))
         /\ Pipe(Upload, toServer, toClient', ipc, ask, rjobs)
         /\ CM \in OfferC(Upload, CM.id) =>
              None(Upload, toServer, toClient', ipc, ask, CM.id) /\ For(CM, rjobs)
         /\ ui[CM.id] \notin {"none", "paused"}
         /\ \A x : Quiet(toServer, toClient, ipc, ask, x) => Quiet(toServer, toClient', ipc, ask, x)
<1>1. toClient \in Seq(ToClient(Upload)) /\ toClient # << >> /\ toClient' = Tail(toClient)
  BY DEF OneOffer, Good, FromServer
<1>2. CM \in ToClient(Upload) /\ toClient' \in Seq(ToClient(Upload)) /\ Takes(toClient, toClient', CM)
  BY <1>1, Taking DEF CM
<1>3. CM \in Message /\ CM.id \in Job /\ CM.num \in Num /\ Sound(CM)
  BY <1>2 DEF ToClient, Message, Num
<1>4. Pipe(Upload, toServer, toClient, ipc, ask, rjobs)
  BY DEF OneOffer, Good
<1>5. /\ Pipe(Upload, toServer, toClient', ipc, ask, rjobs)
      /\ CM \in OfferC(Upload, CM.id) =>
           None(Upload, toServer, toClient', ipc, ask, CM.id) /\ For(CM, rjobs)
      /\ \A x : Quiet(toServer, toClient, ipc, ask, x) =>
                  Quiet(toServer, toClient', ipc, ask, x) /\ x # CM.id
  BY <1>2, <1>3, <1>4, TakeFromC
<1>6. ui[CM.id] \notin {"none", "paused"}
  BY <1>3, <1>5 DEF OneOffer, Idle
<1>7. CM.t = t /\ up
  BY DEF FromServer, CM
<1> QED BY <1>2, <1>3, <1>5, <1>6, <1>7

\* The connection or its manager handles a message, and answers at most once.
LEMMA ServerHandles ==
  ASSUME OneOffer, NEW t, FromClient(t), Typed',
         mode' = mode /\ ask' = ask /\ ui' = ui /\ saved' = saved /\ up' = up,
         DOMAIN wjobs' \subseteq DOMAIN wjobs \cup {SM.id},
         Follow(rjobs, rjobs', SM, SM \in OfferS(Upload, SM.id)),
         \/ toClient' = toClient /\ ipc' = ipc
         \/ \E a \in ToClient(Upload) :
              /\ a.id = SM.id /\ toClient' = toClient \o <<a>> /\ ipc' = ipc
              /\ a \in OfferC(Upload, a.id) => SM \in OfferS(Upload, SM.id) /\ For(a, rjobs')
         \/ \E a \in Told(InCM) :
              a.id = SM.id /\ ipc' = ipc \o <<a>> /\ toClient' = toClient /\ a.t # "digest"
  PROVE  OneOffer'
<1>1. /\ SM.id \in Job /\ up /\ toServer' \in Seq(ToServer(Upload))
      /\ Pipe(Upload, toServer', toClient, ipc, ask, rjobs)
      /\ SM \in OfferS(Upload, SM.id) => None(Upload, toServer', toClient, ipc, ask, SM.id)
      /\ ui[SM.id] \notin {"none", "paused"}
      /\ \A x : Quiet(toServer, toClient, ipc, ask, x) => Quiet(toServer', toClient, ipc, ask, x)
  BY GotFromClient
<1>2. toClient \in Seq(ToClient(Upload)) /\ ipc \in Seq(Told(InCM))
  BY DEF OneOffer, Good
<1>3. Pipe(Upload, toServer', toClient, ipc, ask, rjobs')
  <2>1. \A i \in DOMAIN rjobs' : \/ \E k \in DOMAIN rjobs : Alike(rjobs'[i], rjobs[k])
                                 \/ None(Upload, toServer', toClient, ipc, ask, rjobs'[i].id)
    BY <1>1 DEF Follow
  <2> QED BY <1>1, <2>1, ReadersChange
<1> DEFINE Answered ==
             /\ toClient' \in Seq(ToClient(Upload)) /\ ipc' \in Seq(Told(InCM))
             /\ Pipe(Upload, toServer', toClient', ipc', ask, rjobs')
             /\ \A x : x # SM.id => (Quiet(toServer, toClient, ipc, ask, x) =>
                                     Quiet(toServer', toClient', ipc', ask, x))
<1>4. Answered
  <2>1. CASE toClient' = toClient /\ ipc' = ipc
    BY <1>1, <1>2, <1>3, <2>1
  <2>2. ASSUME NEW a \in ToClient(Upload),
               a.id = SM.id, toClient' = toClient \o <<a>>, ipc' = ipc,
               a \in OfferC(Upload, a.id) => SM \in OfferS(Upload, SM.id) /\ For(a, rjobs')
        PROVE  Answered
    <3>1. toClient' \in Seq(ToClient(Upload)) /\ Puts(toClient, toClient', a)
      BY <1>2, <2>2, Putting
    <3>2. a \in Message
      BY DEF ToClient
    <3>3. a \in OfferC(Upload, a.id) =>
            None(Upload, toServer', toClient, ipc, ask, a.id) /\ For(a, rjobs')
      BY <1>1, <2>2
    <3>4. /\ Pipe(Upload, toServer', toClient', ipc, ask, rjobs')
          /\ \A x : x # a.id => (Quiet(toServer', toClient, ipc, ask, x) =>
                                 Quiet(toServer', toClient', ipc, ask, x))
      BY <1>3, <3>1, <3>2, <3>3, GiveToC
    <3> QED BY <1>1, <1>2, <2>2, <3>1, <3>4
  <2>3. ASSUME NEW a \in Told(InCM),
               a.id = SM.id, ipc' = ipc \o <<a>>, toClient' = toClient, a.t # "digest"
        PROVE  Answered
    <3>1. ipc' \in Seq(Told(InCM)) /\ Puts(ipc, ipc', a)
      BY <1>2, <2>3, Putting
    <3>2. a \in Message /\ a \notin OfferI(a.id)
      BY <2>3 DEF Told, OfferI
    <3>4. /\ Pipe(Upload, toServer', toClient, ipc', ask, rjobs')
          /\ \A x : x # a.id => (Quiet(toServer', toClient, ipc, ask, x) =>
                                 Quiet(toServer', toClient, ipc', ask, x))
      BY <1>3, <3>1, <3>2, GiveToI
    <3> QED BY <1>1, <1>2, <2>3, <3>1, <3>4
  <2> QED BY <2>1, <2>2, <2>3
<1>5. Good(Upload, InCM, rjobs', toServer', toClient', ipc', ask')
  BY <1>1, <1>4 DEF Good, Follow
<1>6. Idle(Upload, rjobs', toServer', toClient', ipc', ask', wjobs', ui', saved')
  <2>1. Idle(Upload, rjobs, toServer, toClient, ipc, ask, wjobs, ui, saved)
    BY DEF OneOffer
  <2>2. ASSUME NEW x \in Job, ui'[x] \in {"none", "paused"}
        PROVE  /\ ui'[x] = ui[x] /\ saved'[x] = saved[x]
               /\ Quiet(toServer, toClient, ipc, ask, x) => Quiet(toServer', toClient', ipc', ask', x)
               /\ x \in DOMAIN wjobs' => x \in DOMAIN wjobs
               /\ \A i \in DOMAIN rjobs' : rjobs'[i].id = x =>
                    \E k \in DOMAIN rjobs : rjobs[k].id = x /\ (rjobs[k].last => rjobs'[i].last)
    <3>1. x # SM.id
      BY <1>1, <2>2
    <3> QED BY <1>4, <2>2, <3>1 DEF Follow, Alike
  <2>3. \A x \in Job : ui'[x] \in {"none", "paused"} =>
          /\ ui'[x] = ui[x] /\ saved'[x] = saved[x]
          /\ Quiet(toServer, toClient, ipc, ask, x) => Quiet(toServer', toClient', ipc', ask', x)
          /\ x \in DOMAIN wjobs' => x \in DOMAIN wjobs
          /\ \A i \in DOMAIN rjobs' : rjobs'[i].id = x =>
               \E k \in DOMAIN rjobs : rjobs[k].id = x /\ (rjobs[k].last => rjobs'[i].last)
    BY <2>2
  <2> QED BY <2>1, <2>3, IdleKept
<1> QED BY <1>1, <1>5, <1>6, Together

\* The client handles a message: it sends at most one, or asks the user.
LEMMA ClientHandles ==
  ASSUME OneOffer, NEW t, FromServer(t), Typed',
         mode' = mode /\ ipc' = ipc /\ saved' = saved /\ up' = up,
         \A x \in Job : x # CM.id => ui'[x] = ui[x],
         ui'[CM.id] \notin {"none", "paused"},
         DOMAIN wjobs' \subseteq DOMAIN wjobs,
         Follow(rjobs, rjobs', CM, CM \in OfferC(Upload, CM.id)),
         \/ toServer' = toServer /\ ask' = ask
         \/ \E a \in ToServer(Upload) :
              /\ a.id = CM.id /\ toServer' = Append(toServer, a) /\ ask' = ask
              /\ a \in OfferS(Upload, a.id) => CM \in OfferC(Upload, CM.id) /\ For(a, rjobs')
         \/ /\ toServer' = toServer /\ ask' = ask \cup {<<CM.id, CM.num>>}
            /\ CM \in OfferC(Upload, CM.id) /\ CM.num \in File /\ rjobs' = rjobs
  PROVE  OneOffer'
<1>1. /\ CM.id \in Job /\ up /\ toClient' \in Seq(ToClient(Upload))
      /\ Pipe(Upload, toServer, toClient', ipc, ask, rjobs)
      /\ CM \in OfferC(Upload, CM.id) =>
           None(Upload, toServer, toClient', ipc, ask, CM.id) /\ For(CM, rjobs)
      /\ \A x : Quiet(toServer, toClient, ipc, ask, x) => Quiet(toServer, toClient', ipc, ask, x)
  BY GotFromServer
<1>2. toServer \in Seq(ToServer(Upload)) /\ ipc \in Seq(Told(InCM))
  BY DEF OneOffer, Good
<1>3. Pipe(Upload, toServer, toClient', ipc, ask, rjobs')
  <2>1. \A i \in DOMAIN rjobs' : \/ \E k \in DOMAIN rjobs : Alike(rjobs'[i], rjobs[k])
                                 \/ None(Upload, toServer, toClient', ipc, ask, rjobs'[i].id)
    BY <1>1 DEF Follow
  <2> QED BY <1>1, <2>1, ReadersChange
<1> DEFINE Answered ==
             /\ toServer' \in Seq(ToServer(Upload))
             /\ Pipe(Upload, toServer', toClient', ipc, ask', rjobs')
             /\ \A x : x # CM.id => (Quiet(toServer, toClient, ipc, ask, x) =>
                                     Quiet(toServer', toClient', ipc, ask', x))
<1>4. Answered
  <2>1. CASE toServer' = toServer /\ ask' = ask
    BY <1>1, <1>2, <1>3, <2>1
  <2>2. ASSUME NEW a \in ToServer(Upload),
               a.id = CM.id, toServer' = Append(toServer, a), ask' = ask,
               a \in OfferS(Upload, a.id) => CM \in OfferC(Upload, CM.id) /\ For(a, rjobs')
        PROVE  Answered
    <3>1. toServer' \in Seq(ToServer(Upload)) /\ Puts(toServer, toServer', a)
      BY <1>2, <2>2, Putting
    <3>2. a \in Message
      BY DEF ToServer
    <3>3. a \in OfferS(Upload, a.id) =>
            None(Upload, toServer, toClient', ipc, ask, a.id) /\ For(a, rjobs')
      BY <1>1, <2>2
    <3>4. /\ Pipe(Upload, toServer', toClient', ipc, ask, rjobs')
          /\ \A x : x # a.id => (Quiet(toServer, toClient', ipc, ask, x) =>
                                 Quiet(toServer', toClient', ipc, ask, x))
      BY <1>3, <3>1, <3>2, <3>3, GiveToS
    <3> QED BY <1>1, <2>2, <3>1, <3>4
  <2>3. ASSUME toServer' = toServer, ask' = ask \cup {<<CM.id, CM.num>>},
               CM \in OfferC(Upload, CM.id), CM.num \in File, rjobs' = rjobs
        PROVE  Answered
    <3>1. \A i \in DOMAIN rjobs' : rjobs'[i].id = CM.id => At(rjobs'[i], CM.num)
      BY <1>1, <2>3 DEF For
    <3>2. /\ Pipe(Upload, toServer, toClient', ipc, ask', rjobs')
          /\ \A x : x # CM.id => (Quiet(toServer, toClient', ipc, ask, x) =>
                                  Quiet(toServer, toClient', ipc, ask', x))
      BY <1>1, <1>3, <2>3, <3>1, GiveToA
    <3> QED BY <1>1, <1>2, <2>3, <3>2
  <2> QED BY <2>1, <2>2, <2>3
<1>5. Good(Upload, InCM, rjobs', toServer', toClient', ipc', ask')
  BY <1>1, <1>2, <1>4 DEF Good, Follow
<1>6. Idle(Upload, rjobs', toServer', toClient', ipc', ask', wjobs', ui', saved')
  <2>1. Idle(Upload, rjobs, toServer, toClient, ipc, ask, wjobs, ui, saved)
    BY DEF OneOffer
  <2>2. ASSUME NEW x \in Job, ui'[x] \in {"none", "paused"}
        PROVE  /\ ui'[x] = ui[x] /\ saved'[x] = saved[x]
               /\ Quiet(toServer, toClient, ipc, ask, x) => Quiet(toServer', toClient', ipc', ask', x)
               /\ x \in DOMAIN wjobs' => x \in DOMAIN wjobs
               /\ \A i \in DOMAIN rjobs' : rjobs'[i].id = x =>
                    \E k \in DOMAIN rjobs : rjobs[k].id = x /\ (rjobs[k].last => rjobs'[i].last)
    <3>1. x # CM.id
      BY <2>2
    <3> QED BY <1>4, <2>2, <3>1 DEF Follow, Alike
  <2>3. \A x \in Job : ui'[x] \in {"none", "paused"} =>
          /\ ui'[x] = ui[x] /\ saved'[x] = saved[x]
          /\ Quiet(toServer, toClient, ipc, ask, x) => Quiet(toServer', toClient', ipc', ask', x)
          /\ x \in DOMAIN wjobs' => x \in DOMAIN wjobs
          /\ \A i \in DOMAIN rjobs' : rjobs'[i].id = x =>
               \E k \in DOMAIN rjobs : rjobs[k].id = x /\ (rjobs[k].last => rjobs'[i].last)
    BY <2>2
  <2> QED BY <2>1, <2>3, IdleKept
<1> QED BY <1>1, <1>5, <1>6, Together

\* Msg.
LEMMA MsgType ==
  ASSUME NEW t \in {"receive", "send", "cancel", "confirm", "dir", "digest", "need",
                    "block", "done", "error", "skipped"},
         NEW id \in Job, NEW num \in Num, NEW n \in Int
  PROVE  /\ Msg(t, id, num, n) \in Message
         /\ Msg(t, id, num, n).t = t /\ Msg(t, id, num, n).id = id
         /\ Msg(t, id, num, n).num = num /\ Msg(t, id, num, n).n = n
BY DEF Msg, Message, Num

\* Faults are bounded.
LEMMA FaultType ==
  ASSUME Typed, NEW n \in Nat, Fault(n)
  PROVE  faults' \in 0..MaxFaults
BY TransferAssumption DEF Typed, Fault

\* The part of the disk that belongs to one job.
LEMMA DiskSet ==
  ASSUME disk \in [Job -> Disk], NEW id \in Job, NEW d \in Disk
  PROVE  [disk EXCEPT ![id] = d] \in [Job -> Disk] /\ disk[id] \in Disk
OBVIOUS

\* Jobs are removed.
LEMMA FollowLess ==
  ASSUME NEW R, NEW Q \in Seq(Reader), \A x \in Job : Lone(Q, JobsOf(x)), NEW m, NEW offer,
         \A k \in DOMAIN Q : \E i \in DOMAIN R : Q[k] = R[i]
  PROVE  Follow(R, Q, m, offer)
BY DEF Follow, Alike

\* The job of message m changes.
LEMMA FollowMapped ==
  ASSUME NEW R \in Seq(Reader), \A x \in Job : Lone(R, JobsOf(x)), NEW m, NEW Q,
         Q = [i \in DOMAIN R |-> Q[i]],
         \A i \in DOMAIN R : R[i].id # m.id => Q[i] = R[i],
         \A i \in DOMAIN R : R[i].id = m.id => Q[i] \in Reader /\ Q[i].id = m.id
  PROVE  Follow(R, Q, m, TRUE)
<1>1. \A i \in DOMAIN R : R[i] \in Reader
  BY LenProperties, ElementOfSeq
<1>2. \A i \in DOMAIN R : Q[i] \in Reader /\ Q[i].id = R[i].id
  BY <1>1
<1>3. Q \in Seq(Reader) /\ DOMAIN Q = DOMAIN R /\ \A id \in Job : Lone(Q, JobsOf(id))
  BY <1>2, Mapped
<1> QED BY <1>3 DEF Follow, Alike

\* What the invariant says of read_jobs.
LEMMA Readers ==
  ASSUME OneOffer
  PROVE  /\ rjobs \in Seq(Reader) /\ \A x \in Job : Lone(rjobs, JobsOf(x))
         /\ DOMAIN rjobs = 1..Len(rjobs) /\ Len(rjobs) \in Nat
         /\ \A i \in DOMAIN rjobs : rjobs[i] \in Reader /\ rjobs[i].id \in Job
<1>1. rjobs \in Seq(Reader) /\ \A x \in Job : Lone(rjobs, JobsOf(x))
  BY DEF OneOffer, Good
<1>2. DOMAIN rjobs = 1..Len(rjobs) /\ Len(rjobs) \in Nat /\ \A i \in DOMAIN rjobs : rjobs[i] \in Reader
  BY <1>1, LenProperties, ElementOfSeq
<1> QED BY <1>1, <1>2 DEF Reader, ReadJob

\* FileAction::Send: the request is the job's only message, and a job is added
\* that is not there.
LEMMA ServerSendKeeps == OneOffer /\ ServerSend => OneOffer'
<1> SUFFICES ASSUME OneOffer, ServerSend PROVE OneOffer'
  OBVIOUS
<1>1. FromClient("send")
  BY DEF ServerSend
<1>2. /\ SM \in ToServer(Upload) /\ SM \in Message /\ SM.id \in Job /\ SM.num \in Num /\ SM.t = "send"
      /\ SM \in OfferS(Upload, SM.id) => For(SM, rjobs)
  BY <1>1, GotFromClient
<1>3. ~Upload /\ SM \in OfferS(Upload, SM.id)
  BY <1>2 DEF ToServer, OfferS, About, FromReader
<1>4. \A i \in DOMAIN rjobs : rjobs[i].id # SM.id
  BY <1>2, <1>3 DEF For
<1>5. /\ mode' = mode /\ ask' = ask /\ ui' = ui /\ saved' = saved /\ up' = up /\ wjobs' = wjobs
      /\ disk' = disk /\ skips' = skips /\ unwritten' = unwritten /\ lost' = lost
  BY DEF ServerSend
<1> DEFINE j == new_read(SM.id, SM.num, FALSE)
<1>6. j \in Reader /\ j.id = SM.id
  BY <1>2, NewReader
<1>7. \/ rjobs' = Append(rjobs, j) /\ faults' = faults
      \/ rjobs' = rjobs /\ Fault(1)
  BY DEF ServerSend, SM
<1>8. Follow(rjobs, rjobs', SM, SM \in OfferS(Upload, SM.id))
  <2>1. rjobs \in Seq(Reader) /\ \A x \in Job : Lone(rjobs, JobsOf(x))
    BY Readers
  <2> HIDE DEF j
  <2>2. CASE rjobs' = Append(rjobs, j)
    BY <1>3, <1>4, <1>6, <2>1, <2>2, Appended DEF Follow, Alike
  <2>3. CASE rjobs' = rjobs
    BY <2>1, <2>3, FollowSame
  <2> QED BY <1>7, <2>2, <2>3
<1>9. Typed'
  <2>1. faults' \in 0..MaxFaults
    BY <1>7, FaultType DEF OneOffer, Typed
  <2>2. cmIds' \subseteq Job
    BY <1>2 DEF ServerSend, SM, OneOffer, Typed
  <2> QED BY <1>5, <2>1, <2>2 DEF OneOffer, Typed
<1>10. \A s \in {"dir", "error"} : /\ Msg(s, SM.id, SM.num, 0) \in ToClient(Upload)
                                   /\ InCM => Msg(s, SM.id, SM.num, 0) \in Told(InCM)
                                   /\ Msg(s, SM.id, SM.num, 0).id = SM.id
                                   /\ Msg(s, SM.id, SM.num, 0).t = s
  BY <1>2, <1>3 DEF Msg, ToClient, Told, Message, Sound, FromReader, Num
<1>11. \E s \in {"dir", "error"} :
         IF InCM THEN ipc' = ipc \o <<Msg(s, SM.id, SM.num, 0)>> /\ toClient' = toClient
                 ELSE toClient' = toClient \o <<Msg(s, SM.id, SM.num, 0)>> /\ ipc' = ipc
  BY DEF ServerSend, SM
<1>12. \/ \E a \in ToClient(Upload) :
            /\ a.id = SM.id /\ toClient' = toClient \o <<a>> /\ ipc' = ipc
            /\ a \in OfferC(Upload, a.id) => SM \in OfferS(Upload, SM.id) /\ For(a, rjobs')
       \/ \E a \in Told(InCM) :
            a.id = SM.id /\ ipc' = ipc \o <<a>> /\ toClient' = toClient /\ a.t # "digest"
  <2> HIDE DEF j
  <2>1. PICK s \in {"dir", "error"} :
         IF InCM THEN ipc' = ipc \o <<Msg(s, SM.id, SM.num, 0)>> /\ toClient' = toClient
                 ELSE toClient' = toClient \o <<Msg(s, SM.id, SM.num, 0)>> /\ ipc' = ipc
    BY <1>11
  <2> DEFINE a == Msg(s, SM.id, SM.num, 0)
  <2>2. a \in ToClient(Upload) /\ (InCM => a \in Told(InCM)) /\ a.id = SM.id /\ a.t = s
    BY <1>10
  <2>3. IF InCM THEN ipc' = ipc \o <<a>> /\ toClient' = toClient
                ELSE toClient' = toClient \o <<a>> /\ ipc' = ipc
    BY <2>1
  <2> HIDE DEF a
  <2>4. a \notin OfferC(Upload, a.id)
    BY <1>3, <2>2 DEF OfferC
  <2> QED BY <2>2, <2>3, <2>4
<1> HIDE DEF j
<1>13. DOMAIN wjobs' \subseteq DOMAIN wjobs \cup {SM.id}
  BY <1>5
<1> QED BY <1>1, <1>5, <1>8, <1>9, <1>12, <1>13, ServerHandles

\* FileAction::Receive.
LEMMA ServerReceiveKeeps == OneOffer /\ ServerReceive => OneOffer'
<1> SUFFICES ASSUME OneOffer, ServerReceive PROVE OneOffer'
  OBVIOUS
<1>1. FromClient("receive")
  BY DEF ServerReceive
<1>2. /\ SM \in ToServer(Upload) /\ SM.id \in Job /\ SM.num \in Num /\ SM.t = "receive"
  BY <1>1, GotFromClient
<1>3. Upload
  BY <1>2 DEF ToServer
<1>4. /\ mode' = mode /\ ask' = ask /\ ui' = ui /\ saved' = saved /\ up' = up /\ rjobs' = rjobs
      /\ disk' = disk /\ skips' = skips /\ unwritten' = unwritten /\ lost' = lost /\ ipc' = ipc
      /\ cmIds' = cmIds
  BY DEF ServerReceive, sender
<1> DEFINE j == new_write(SM.num, TRUE, FALSE)
           a == Msg("error", SM.id, SM.num, 0)
<1>5. \/ wjobs' = With(SM.id, j) /\ toClient' = toClient /\ faults' = faults
      \/ Fault(1) /\ toClient' = toClient \o <<a>> /\ wjobs' = wjobs
  BY DEF ServerReceive, Answer, SM
<1>6. j \in WriteJob
  BY <1>2, WriterTypes
<1>7. a \in ToClient(Upload) /\ a.id = SM.id /\ a \notin OfferC(Upload, a.id)
  <2>1. a \in Message /\ a.t = "error" /\ a.id = SM.id
    BY <1>2, MsgType
  <2> HIDE DEF a
  <2> QED BY <1>3, <2>1 DEF ToClient, Sound, OfferC
<1> HIDE DEF j, a
<1>8. Writers(wjobs') /\ DOMAIN wjobs' \subseteq DOMAIN wjobs \cup {SM.id}
  <2>1. Writers(wjobs)
    BY DEF OneOffer, Typed
  <2>2. Writers(With(SM.id, j)) /\ DOMAIN With(SM.id, j) = DOMAIN wjobs \cup {SM.id}
    BY <1>2, <1>6, <2>1, WriterTable
  <2> QED BY <1>5, <2>1, <2>2
<1>9. faults' \in 0..MaxFaults
  BY <1>5, FaultType DEF OneOffer, Typed
<1>10. Typed'
  BY <1>4, <1>8, <1>9 DEF OneOffer, Typed
<1>11. Follow(rjobs, rjobs', SM, SM \in OfferS(Upload, SM.id))
  BY <1>4, Readers, FollowSame
<1> QED BY <1>1, <1>4, <1>5, <1>7, <1>8, <1>10, <1>11, ServerHandles

\* FileAction::Cancel.
LEMMA ServerCancelKeeps == OneOffer /\ ServerCancel => OneOffer'
<1> SUFFICES ASSUME OneOffer, ServerCancel PROVE OneOffer'
  OBVIOUS
<1>1. FromClient("cancel")
  BY DEF ServerCancel
<1>2. SM.id \in Job
  BY <1>1, GotFromClient
<1>3. /\ mode' = mode /\ ask' = ask /\ ui' = ui /\ saved' = saved /\ up' = up
      /\ skips' = skips /\ unwritten' = unwritten /\ lost' = lost /\ ipc' = ipc
      /\ cmIds' \subseteq cmIds /\ toClient' = toClient /\ faults' = faults
  BY DEF ServerCancel
<1>4. Writers(wjobs) /\ disk \in [Job -> Disk]
  BY DEF OneOffer, Typed
<1>5. /\ Writers(wjobs') /\ DOMAIN wjobs' \subseteq DOMAIN wjobs \cup {SM.id}
      /\ disk' \in [Job -> Disk]
  <2>1. CASE Upload /\ SM.id \in DOMAIN wjobs
    <3>1. wjobs[SM.id] \in WriteJob /\ disk[SM.id] \in Disk
      BY <1>2, <1>4, <2>1 DEF Writers
    <3> DEFINE d == remove_download_file(wjobs[SM.id], disk[SM.id])
    <3>2. d \in Disk
      BY <3>1, DiskTypes
    <3>3. disk' = [disk EXCEPT ![SM.id] = d] /\ wjobs' = Without(SM.id)
      BY <2>1 DEF ServerCancel, SM
    <3> HIDE DEF d
    <3> QED BY <1>2, <1>4, <3>2, <3>3, DiskSet, WriterTable
  <2>2. CASE ~(Upload /\ SM.id \in DOMAIN wjobs)
    <3>1. disk' = disk /\ wjobs' = wjobs
      BY <2>2 DEF ServerCancel, SM
    <3> QED BY <1>4, <3>1
  <2> QED BY <2>1, <2>2
<1>6. rjobs' = rjobs \/ rjobs' = remove_job(SM.id, rjobs)
  BY DEF ServerCancel, SM
<1>7. Follow(rjobs, rjobs', SM, SM \in OfferS(Upload, SM.id))
  <2>1. rjobs \in Seq(Reader) /\ \A x \in Job : Lone(rjobs, JobsOf(x))
    BY Readers
  <2>2. CASE rjobs' = rjobs
    BY <2>1, <2>2, FollowSame
  <2>3. CASE rjobs' = remove_job(SM.id, rjobs)
    BY <1>2, <2>1, <2>3, Removed, FollowLess
  <2> QED BY <1>6, <2>2, <2>3
<1>8. Typed'
  BY <1>3, <1>5 DEF OneOffer, Typed
<1> QED BY <1>1, <1>3, <1>5, <1>7, <1>8, ServerHandles

\* FileAction::SendConfirm: the confirmation is of the file that the job waits
\* at.
LEMMA ServerConfirmKeeps == OneOffer /\ ServerConfirm => OneOffer'
<1> SUFFICES ASSUME OneOffer, ServerConfirm PROVE OneOffer'
  OBVIOUS
<1>1. FromClient("confirm")
  BY DEF ServerConfirm
<1>2. /\ SM \in Message /\ SM.id \in Job /\ SM.num \in Num /\ SM.t = "confirm" /\ Sound(SM)
      /\ SM \in OfferS(Upload, SM.id) => For(SM, rjobs)
  BY <1>1, GotFromClient
<1>3. SM.num \in File /\ SM.n \in {Skip} \cup Nat
  BY <1>2 DEF Sound
<1>4. /\ mode' = mode /\ ask' = ask /\ ui' = ui /\ saved' = saved /\ up' = up
      /\ disk' = disk /\ skips' = skips /\ unwritten' = unwritten /\ lost' = lost /\ ipc' = ipc
      /\ cmIds' = cmIds /\ toClient' = toClient /\ faults' = faults
  BY DEF ServerConfirm
<1>5. Writers(wjobs') /\ DOMAIN wjobs' = DOMAIN wjobs
  <2>1. Writers(wjobs)
    BY DEF OneOffer, Typed
  <2>2. CASE Upload /\ SM.id \in DOMAIN wjobs
    <3> DEFINE j == confirm_write(wjobs[SM.id], SM.num, SM.n, disk[SM.id])
    <3>1. wjobs[SM.id] \in WriteJob
      BY <2>1, <2>2 DEF Writers
    <3>2. j \in WriteJob
      BY <1>3, <3>1, ConfirmWriter
    <3>3. wjobs' = [wjobs EXCEPT ![SM.id] = j]
      BY <2>2 DEF ServerConfirm, SM
    <3> HIDE DEF j
    <3> QED BY <1>2, <2>1, <3>2, <3>3, WriterTable
  <2>3. CASE ~(Upload /\ SM.id \in DOMAIN wjobs)
    <3>1. wjobs' = wjobs
      BY <2>3 DEF ServerConfirm, SM
    <3> QED BY <2>1, <3>1
  <2> QED BY <2>2, <2>3
<1>6. Typed'
  BY <1>4, <1>5 DEF OneOffer, Typed
<1>7. Follow(rjobs, rjobs', SM, SM \in OfferS(Upload, SM.id))
  <2>1. /\ rjobs \in Seq(Reader) /\ \A x \in Job : Lone(rjobs, JobsOf(x))
        /\ \A i \in DOMAIN rjobs : rjobs[i] \in Reader
    BY Readers
  <2>2. CASE rjobs' = rjobs
    BY <2>1, <2>2, FollowSame
  <2>3. CASE rjobs' # rjobs
    <3> DEFINE C(j) == confirm(j, IF InCM THEN j.num ELSE SM.num, SM.n)
               Q == [i \in DOMAIN rjobs |-> IF rjobs[i].id = SM.id THEN C(rjobs[i]) ELSE rjobs[i]]
    <3>1. ~Upload /\ rjobs' = Q
      BY <2>3 DEF ServerConfirm, SM, map_job
    <3>2. SM \in OfferS(Upload, SM.id)
      BY <1>2, <3>1 DEF OfferS, About
    <3>3. ASSUME NEW i \in DOMAIN rjobs, rjobs[i].id = SM.id
          PROVE  C(rjobs[i]) \in Reader /\ C(rjobs[i]).id = SM.id
      <4>1. At(rjobs[i], SM.num) /\ rjobs[i].num = SM.num
        BY <1>2, <3>2, <3>3 DEF For, At
      <4>2. C(rjobs[i]) = confirm(rjobs[i], SM.num, SM.n)
        BY <4>1
      <4> HIDE DEF C
      <4> QED BY <1>2, <1>3, <2>1, <3>3, <4>1, <4>2, ConfirmReader
    <3> HIDE DEF C
    <3>4. /\ Q = [i \in DOMAIN rjobs |-> Q[i]]
          /\ \A i \in DOMAIN rjobs : rjobs[i].id # SM.id => Q[i] = rjobs[i]
          /\ \A i \in DOMAIN rjobs : rjobs[i].id = SM.id => Q[i] \in Reader /\ Q[i].id = SM.id
      BY <3>3
    <3> HIDE DEF Q
    <3>5. Follow(rjobs, Q, SM, TRUE)
      BY <2>1, <3>4, FollowMapped
    <3> QED BY <3>1, <3>2, <3>5 DEF Follow
  <2> QED BY <2>2, <2>3
<1> QED BY <1>1, <1>4, <1>5, <1>6, <1>7, ServerHandles

\* is_write_need_confirmation.
LEMMA NeedType ==
  ASSUME NEW r, NEW e \in Entry
  PROVE  is_write_need_confirmation(r, e) \in {NoSuchFile} \cup Nat
<1>1. Len(e.part) \in Nat
  BY EntryTypes, LenProperties
<1> QED BY <1>1 DEF is_write_need_confirmation

\* FS::CheckDigest: the digest becomes a question or a confirmation.
LEMMA CheckDigestKeeps == OneOffer /\ CheckDigest => OneOffer'
<1> SUFFICES ASSUME OneOffer, CheckDigest PROVE OneOffer'
  OBVIOUS
<1>1. FromClient("digest")
  BY DEF CheckDigest
<1>2. /\ SM \in ToServer(Upload) /\ SM \in Message /\ SM.id \in Job /\ SM.num \in Num
      /\ SM.t = "digest" /\ Sound(SM)
      /\ SM \in OfferS(Upload, SM.id) => For(SM, rjobs)
  BY <1>1, GotFromClient
<1>3. Upload /\ SM \in OfferS(Upload, SM.id) /\ SM.num \in File
  BY <1>2 DEF ToServer, OfferS, About, Sound
<1>4. /\ mode' = mode /\ ask' = ask /\ ui' = ui /\ saved' = saved /\ up' = up /\ wjobs' = wjobs
      /\ disk' = disk /\ skips' = skips /\ unwritten' = unwritten /\ lost' = lost /\ ipc' = ipc
      /\ cmIds' = cmIds /\ rjobs' = rjobs /\ faults' = faults
  BY DEF CheckDigest, sender
<1>5. Typed'
  BY <1>4 DEF OneOffer, Typed
<1>6. Follow(rjobs, rjobs', SM, SM \in OfferS(Upload, SM.id))
  BY <1>4, Readers, FollowSame
<1>7. \/ toClient' = toClient
      \/ \E a \in ToClient(Upload) :
           /\ a.id = SM.id /\ toClient' = toClient \o <<a>>
           /\ a \in OfferC(Upload, a.id) => SM \in OfferS(Upload, SM.id) /\ For(a, rjobs')
  <2> DEFINE n == is_write_need_confirmation(SM.n = 1, disk[SM.id][SM.num])
             a == IF n = NoSuchFile THEN Msg("confirm", SM.id, SM.num, 0)
                                    ELSE Msg("need", SM.id, SM.num, n)
  <2>1. toClient' = toClient \/ toClient' = toClient \o <<a>>
    BY DEF CheckDigest, Answer, SM
  <2>2. n \in {NoSuchFile} \cup Nat
    <3>1. disk[SM.id][SM.num] \in Entry
      BY <1>2, <1>3 DEF OneOffer, Typed, Disk
    <3> QED BY <3>1, NeedType
  <2> HIDE DEF n
  <2>3. /\ a \in Message /\ a.t \in {"confirm", "need"} /\ a.id = SM.id /\ a.num = SM.num
        /\ a.t = "confirm" => a.n = 0
        /\ a.t = "need" => a.n \in Nat
    <3>1. CASE n = NoSuchFile
      BY <1>2, <3>1, MsgType
    <3>2. CASE n # NoSuchFile
      BY <1>2, <2>2, <3>2, MsgType
    <3> QED BY <3>1, <3>2
  <2> HIDE DEF a
  <2>4. a \in ToClient(Upload)
    BY <1>3, <2>3 DEF ToClient, Sound
  <2>5. For(a, rjobs')
    BY <1>2, <1>3, <1>4, <2>3 DEF For
  <2> QED BY <1>3, <2>1, <2>3, <2>4, <2>5
<1>8. DOMAIN wjobs' \subseteq DOMAIN wjobs \cup {SM.id}
  BY <1>4
<1> QED BY <1>1, <1>4, <1>5, <1>6, <1>7, <1>8, ServerHandles

\* The disk after a block that was written or not.
LEMMA BlockTypes ==
  ASSUME Typed, NEW m \in Message, m.t = "block", Sound(m), m.id \in DOMAIN wjobs,
         \/ Write(m) /\ unwritten' = unwritten /\ faults' = faults
         \/ WriteFails(m)
  PROVE  /\ Writers(wjobs') /\ DOMAIN wjobs' = DOMAIN wjobs /\ disk' \in [Job -> Disk]
         /\ unwritten' \subseteq Job /\ faults' \in 0..MaxFaults
<1>1. /\ m.id \in Job /\ m.num \in File /\ m.num \in Num /\ m.n \in {Eof} \cup Block
      /\ Writers(wjobs) /\ wjobs[m.id] \in WriteJob
      /\ disk \in [Job -> Disk] /\ disk[m.id] \in Disk
  BY Constants DEF Sound, Message, Typed, Writers
<1> DEFINE j == write(wjobs[m.id], m.num)
           c == Written(wjobs[m.id], m.num, m.n, disk[m.id])
           d == Started(wjobs[m.id], m.num, disk[m.id])
<1>2. j \in WriteJob /\ c \in Disk /\ d \in Disk
  BY <1>1, WriterTypes, DiskTypes
<1>3. /\ wjobs' = [wjobs EXCEPT ![m.id] = j]
      /\ disk' = [disk EXCEPT ![m.id] = c] \/ disk' = [disk EXCEPT ![m.id] = d]
  BY DEF Write, WriteFails
<1> HIDE DEF j, c, d
<1>4. Writers(wjobs') /\ DOMAIN wjobs' = DOMAIN wjobs
  BY <1>1, <1>2, <1>3, WriterTable
<1>5. disk' \in [Job -> Disk]
  BY <1>1, <1>2, <1>3
<1>6. unwritten' \subseteq Job /\ faults' \in 0..MaxFaults
  BY <1>1, FaultType DEF WriteFails, Typed
<1> QED BY <1>4, <1>5, <1>6

\* FS::WriteBlock.
LEMMA WriteBlockKeeps == OneOffer /\ WriteBlock => OneOffer'
<1> SUFFICES ASSUME OneOffer, WriteBlock PROVE OneOffer'
  OBVIOUS
<1>1. FromClient("block")
  BY DEF WriteBlock
<1>2. /\ SM \in ToServer(Upload) /\ SM \in Message /\ SM.id \in Job /\ SM.num \in Num
      /\ SM.t = "block" /\ Sound(SM)
  BY <1>1, GotFromClient
<1>3. Upload
  BY <1>2 DEF ToServer
<1>4. /\ mode' = mode /\ ask' = ask /\ ui' = ui /\ saved' = saved /\ up' = up
      /\ skips' = skips /\ lost' = lost /\ ipc' = ipc /\ cmIds' = cmIds /\ rjobs' = rjobs
  BY DEF WriteBlock, sender
<1> DEFINE a == Msg("error", SM.id, SM.num, 0)
<1>5. a \in ToClient(Upload) /\ a.id = SM.id /\ a \notin OfferC(Upload, a.id)
  <2>1. a \in Message /\ a.t = "error" /\ a.id = SM.id
    BY <1>2, MsgType
  <2> HIDE DEF a
  <2> QED BY <1>3, <2>1 DEF ToClient, Sound, OfferC
<1>6. /\ Writers(wjobs') /\ DOMAIN wjobs' = DOMAIN wjobs /\ disk' \in [Job -> Disk]
      /\ unwritten' \subseteq Job /\ faults' \in 0..MaxFaults
  <2>1. CASE SM.id \in DOMAIN wjobs
    <3>1. \/ Write(SM) /\ unwritten' = unwritten /\ faults' = faults
          \/ WriteFails(SM)
      BY <2>1 DEF WriteBlock, SM
    <3> QED BY <1>2, <2>1, <3>1, BlockTypes DEF OneOffer
  <2>2. CASE SM.id \notin DOMAIN wjobs
    <3>1. wjobs' = wjobs /\ disk' = disk /\ unwritten' = unwritten /\ faults' = faults
      BY <2>2 DEF WriteBlock, SM
    <3> QED BY <3>1 DEF OneOffer, Typed
  <2> QED BY <2>1, <2>2
<1>7. toClient' = toClient \/ toClient' = toClient \o <<a>>
  BY DEF WriteBlock, Answer, SM
<1> HIDE DEF a
<1>8. Typed'
  BY <1>4, <1>6 DEF OneOffer, Typed
<1>9. Follow(rjobs, rjobs', SM, SM \in OfferS(Upload, SM.id))
  BY <1>4, Readers, FollowSame
<1>10. DOMAIN wjobs' \subseteq DOMAIN wjobs \cup {SM.id}
  BY <1>6
<1> QED BY <1>1, <1>4, <1>5, <1>7, <1>8, <1>9, <1>10, ServerHandles

\* FS::WriteDone.
LEMMA WriteDoneKeeps == OneOffer /\ WriteDone => OneOffer'
<1> SUFFICES ASSUME OneOffer, WriteDone PROVE OneOffer'
  OBVIOUS
<1>1. FromClient("done")
  BY DEF WriteDone
<1>2. /\ SM \in ToServer(Upload) /\ SM \in Message /\ SM.id \in Job /\ SM.num \in Num
      /\ SM.t = "done" /\ Sound(SM)
  BY <1>1, GotFromClient
<1>3. Upload
  BY <1>2 DEF ToServer
<1>4. /\ mode' = mode /\ ask' = ask /\ ui' = ui /\ saved' = saved /\ up' = up
      /\ skips' = skips /\ lost' = lost /\ ipc' = ipc /\ cmIds' = cmIds /\ rjobs' = rjobs
      /\ unwritten' = unwritten /\ faults' = faults
  BY DEF WriteDone, sender
<1> DEFINE a == Msg("done", SM.id, SM.num, 0)
<1>5. a \in ToClient(Upload) /\ a.id = SM.id /\ a \notin OfferC(Upload, a.id)
  <2>1. a \in Message /\ a.t = "done" /\ a.id = SM.id
    BY <1>2, MsgType
  <2> HIDE DEF a
  <2> QED BY <1>3, <2>1 DEF ToClient, Sound, OfferC
<1>6. Writers(wjobs') /\ DOMAIN wjobs' \subseteq DOMAIN wjobs /\ disk' \in [Job -> Disk]
  <2>0. Writers(wjobs) /\ disk \in [Job -> Disk]
    BY DEF OneOffer, Typed
  <2>1. CASE SM.id \in DOMAIN wjobs
    <3>1. wjobs[SM.id] \in WriteJob /\ disk[SM.id] \in Disk
      BY <1>2, <2>0, <2>1 DEF Writers
    <3> DEFINE d == modify_time(wjobs[SM.id], disk[SM.id])
    <3>2. d \in Disk
      BY <3>1, DiskTypes
    <3>3. disk' = [disk EXCEPT ![SM.id] = d] /\ wjobs' = Without(SM.id)
      BY <2>1 DEF WriteDone, SM
    <3> HIDE DEF d
    <3> QED BY <1>2, <2>0, <3>2, <3>3, DiskSet, WriterTable
  <2>2. CASE SM.id \notin DOMAIN wjobs
    <3>1. wjobs' = wjobs /\ disk' = disk
      BY <2>2 DEF WriteDone, SM
    <3> QED BY <2>0, <3>1
  <2> QED BY <2>1, <2>2
<1>7. toClient' = toClient \/ toClient' = toClient \o <<a>>
  BY DEF WriteDone, Answer, SM
<1> HIDE DEF a
<1>8. Typed'
  BY <1>4, <1>6 DEF OneOffer, Typed
<1>9. Follow(rjobs, rjobs', SM, SM \in OfferS(Upload, SM.id))
  BY <1>4, Readers, FollowSame
<1>10. DOMAIN wjobs' \subseteq DOMAIN wjobs \cup {SM.id}
  BY <1>6
<1> QED BY <1>1, <1>4, <1>5, <1>7, <1>8, <1>9, <1>10, ServerHandles

\* FS::WriteError.
LEMMA WriteErrorKeeps == OneOffer /\ WriteError => OneOffer'
<1> SUFFICES ASSUME OneOffer, WriteError, NEW t \in {"error", "skipped"}, FromClient(t) PROVE OneOffer'
  BY DEF WriteError
<1>2. /\ SM \in ToServer(Upload) /\ SM \in Message /\ SM.id \in Job /\ SM.t = t /\ Sound(SM)
  BY GotFromClient
<1>3. Upload
  BY <1>2 DEF ToServer
<1>4. /\ mode' = mode /\ ask' = ask /\ ui' = ui /\ saved' = saved /\ up' = up
      /\ skips' = skips /\ lost' = lost /\ ipc' = ipc /\ cmIds' = cmIds /\ rjobs' = rjobs
      /\ unwritten' = unwritten /\ faults' = faults /\ disk' = disk
  BY DEF WriteError, sender
<1>5. SM \in ToClient(Upload) /\ SM \notin OfferC(Upload, SM.id)
  BY <1>2, <1>3 DEF ToClient, OfferC
<1>6. \/ wjobs' = Without(SM.id) /\ toClient' = toClient \o <<SM>>
      \/ wjobs' = wjobs /\ toClient' = toClient
  BY DEF WriteError, Answer, SM
<1>7. Writers(wjobs') /\ DOMAIN wjobs' \subseteq DOMAIN wjobs \cup {SM.id}
  <2>1. Writers(wjobs)
    BY DEF OneOffer, Typed
  <2>2. Writers(Without(SM.id)) /\ DOMAIN Without(SM.id) \subseteq DOMAIN wjobs
    BY <1>2, <2>1, WriterTable
  <2> QED BY <1>6, <2>1, <2>2
<1>8. Typed'
  BY <1>4, <1>7 DEF OneOffer, Typed
<1>9. Follow(rjobs, rjobs', SM, SM \in OfferS(Upload, SM.id))
  BY <1>4, Readers, FollowSame
<1> QED BY <1>4, <1>5, <1>6, <1>7, <1>8, <1>9, ServerHandles

\* Every handler of the controlled side.
LEMMA ServerStepKeeps == OneOffer /\ ServerStep => OneOffer'
BY ServerSendKeeps, ServerReceiveKeeps, ServerCancelKeeps, ServerConfirmKeeps,
   CheckDigestKeeps, WriteBlockKeeps, WriteDoneKeeps, WriteErrorKeeps DEF ServerStep

\* The connection passes on what its manager told it, or drops it.
LEMMA FromCMKeeps == OneOffer /\ FromCM => OneOffer'
<1> SUFFICES ASSUME OneOffer, FromCM PROVE OneOffer'
  OBVIOUS
<1> DEFINE m == Head(ipc)
<1>1. /\ ipc \in Seq(Told(InCM)) /\ ipc # << >> /\ ipc' = Tail(ipc) /\ up
      /\ toClient \in Seq(ToClient(Upload)) /\ toServer \in Seq(ToServer(Upload))
      /\ Pipe(Upload, toServer, toClient, ipc, ask, rjobs)
  BY DEF OneOffer, Good, FromCM
<1>2. m \in Told(InCM) /\ ipc' \in Seq(Told(InCM)) /\ Takes(ipc, ipc', m)
  BY <1>1, Taking
<1>3. /\ mode' = mode /\ ask' = ask /\ ui' = ui /\ saved' = saved /\ up' = up
      /\ skips' = skips /\ lost' = lost /\ rjobs' = rjobs /\ wjobs' = wjobs
      /\ unwritten' = unwritten /\ faults' = faults /\ disk' = disk /\ toServer' = toServer
      /\ cmIds' \subseteq cmIds
      /\ toClient' = toClient \/ toClient' = Append(toClient, m)
  BY DEF FromCM
<1> HIDE DEF m
<1>4. m \in Message /\ m.id \in Job /\ ~Upload /\ m \in ToClient(Upload)
  BY <1>2 DEF Told, ToClient, Message, InCM, Upload
<1>5. /\ Pipe(Upload, toServer, toClient, ipc', ask, rjobs)
      /\ m \in OfferI(m.id) => None(Upload, toServer, toClient, ipc', ask, m.id) /\ For(m, rjobs)
      /\ \A x : Quiet(toServer, toClient, ipc, ask, x) =>
                  Quiet(toServer, toClient, ipc', ask, x) /\ x # m.id
  BY <1>1, <1>2, <1>4, TakeFromI
<1>6. /\ toClient' \in Seq(ToClient(Upload))
      /\ Pipe(Upload, toServer, toClient', ipc', ask, rjobs)
      /\ \A x : Quiet(toServer, toClient, ipc, ask, x) => Quiet(toServer, toClient', ipc', ask, x)
  <2>1. CASE toClient' = toClient
    BY <1>1, <1>5, <2>1
  <2>2. CASE toClient' = Append(toClient, m)
    <3>1. toClient' \in Seq(ToClient(Upload)) /\ Puts(toClient, toClient', m)
      BY <1>1, <1>4, <2>2, Putting
    <3>2. m \in OfferC(Upload, m.id) => m \in OfferI(m.id)
      BY <1>4 DEF OfferC, OfferI
    <3>3. /\ Pipe(Upload, toServer, toClient', ipc', ask, rjobs)
          /\ \A x : x # m.id => (Quiet(toServer, toClient, ipc', ask, x) =>
                                 Quiet(toServer, toClient', ipc', ask, x))
      BY <1>4, <1>5, <3>1, <3>2, GiveToC
    <3> QED BY <1>5, <3>1, <3>3
  <2> QED BY <1>3, <2>1, <2>2
<1>7. Good(Upload, InCM, rjobs', toServer', toClient', ipc', ask')
  BY <1>1, <1>2, <1>3, <1>6, Readers DEF Good
<1>8. Idle(Upload, rjobs', toServer', toClient', ipc', ask', wjobs', ui', saved')
  BY <1>3, <1>6 DEF OneOffer, Idle
<1>9. Typed'
  BY <1>3 DEF OneOffer, Typed
<1> QED BY <1>1, <1>3, <1>7, <1>8, <1>9, Together

\* The directory arrives.
LEMMA ClientDirKeeps == OneOffer /\ ClientDir => OneOffer'
<1> SUFFICES ASSUME OneOffer, ClientDir PROVE OneOffer'
  OBVIOUS
<1>1. FromServer("dir")
  BY DEF ClientDir
<1>2. CM.id \in Job /\ ui[CM.id] \notin {"none", "paused"}
  BY <1>1, GotFromServer
<1>3. /\ mode' = mode /\ ask' = ask /\ ui' = ui /\ saved' = saved /\ up' = up
      /\ skips' = skips /\ lost' = lost /\ ipc' = ipc /\ cmIds' = cmIds /\ rjobs' = rjobs
      /\ unwritten' = unwritten /\ faults' = faults /\ disk' = disk /\ toServer' = toServer
  BY DEF ClientDir, sender
<1>4. Writers(wjobs') /\ DOMAIN wjobs' \subseteq DOMAIN wjobs
  <2>1. Writers(wjobs)
    BY DEF OneOffer, Typed
  <2>2. CASE CM.id \in DOMAIN wjobs
    <3> DEFINE j == [wjobs[CM.id] EXCEPT !.files = TRUE]
    <3>1. j \in WriteJob
      BY <2>1, <2>2, WriterTypes DEF Writers
    <3>2. wjobs' = [wjobs EXCEPT ![CM.id] = j]
      BY <2>2 DEF ClientDir, CM
    <3> HIDE DEF j
    <3> QED BY <1>2, <2>1, <3>1, <3>2, WriterTable
  <2>3. CASE CM.id \notin DOMAIN wjobs
    <3>1. wjobs' = wjobs
      BY <2>3 DEF ClientDir, CM
    <3> QED BY <2>1, <3>1
  <2> QED BY <2>2, <2>3
<1>5. Typed'
  BY <1>3, <1>4 DEF OneOffer, Typed
<1>6. Follow(rjobs, rjobs', CM, CM \in OfferC(Upload, CM.id))
  BY <1>3, Readers, FollowSame
<1> QED BY <1>1, <1>2, <1>3, <1>4, <1>5, <1>6, ClientHandles

\* A block arrives.
LEMMA ClientBlockKeeps == OneOffer /\ ClientBlock => OneOffer'
<1> SUFFICES ASSUME OneOffer, ClientBlock PROVE OneOffer'
  OBVIOUS
<1>1. FromServer("block")
  BY DEF ClientBlock
<1>2. /\ CM \in Message /\ CM.id \in Job /\ CM.t = "block" /\ Sound(CM)
      /\ ui[CM.id] \notin {"none", "paused"}
  BY <1>1, GotFromServer
<1>3. /\ mode' = mode /\ ask' = ask /\ ui' = ui /\ saved' = saved /\ up' = up
      /\ skips' = skips /\ lost' = lost /\ ipc' = ipc /\ cmIds' = cmIds /\ rjobs' = rjobs
      /\ toServer' = toServer
  BY DEF ClientBlock, sender
<1>4. /\ Writers(wjobs') /\ DOMAIN wjobs' = DOMAIN wjobs /\ disk' \in [Job -> Disk]
      /\ unwritten' \subseteq Job /\ faults' \in 0..MaxFaults
  <2>1. \/ /\ CM.id \in DOMAIN wjobs
           /\ (Write(CM) /\ unwritten' = unwritten /\ faults' = faults) \/ WriteFails(CM)
        \/ wjobs' = wjobs /\ disk' = disk /\ unwritten' = unwritten /\ faults' = faults
    BY DEF ClientBlock, CM
  <2>2. CASE /\ CM.id \in DOMAIN wjobs
             /\ (Write(CM) /\ unwritten' = unwritten /\ faults' = faults) \/ WriteFails(CM)
    BY <1>2, <2>2, BlockTypes DEF OneOffer
  <2>3. CASE wjobs' = wjobs /\ disk' = disk /\ unwritten' = unwritten /\ faults' = faults
    BY <2>3 DEF OneOffer, Typed
  <2> QED BY <2>1, <2>2, <2>3
<1>5. Typed'
  BY <1>3, <1>4 DEF OneOffer, Typed
<1>6. Follow(rjobs, rjobs', CM, CM \in OfferC(Upload, CM.id))
  BY <1>3, Readers, FollowSame
<1>7. DOMAIN wjobs' \subseteq DOMAIN wjobs
  BY <1>4
<1> QED BY <1>1, <1>2, <1>3, <1>5, <1>6, <1>7, ClientHandles

\* The end of a job arrives.
LEMMA ClientDoneKeeps == OneOffer /\ ClientDone => OneOffer'
<1> SUFFICES ASSUME OneOffer, ClientDone PROVE OneOffer'
  OBVIOUS
<1>1. FromServer("done")
  BY DEF ClientDone
<1>2. CM.id \in Job
  BY <1>1, GotFromServer
<1>3. /\ mode' = mode /\ ask' = ask /\ saved' = saved /\ up' = up
      /\ skips' = skips /\ lost' = lost /\ ipc' = ipc /\ cmIds' = cmIds /\ rjobs' = rjobs
      /\ unwritten' = unwritten /\ faults' = faults /\ toServer' = toServer
  BY DEF ClientDone, sender
<1>4. Writers(wjobs') /\ DOMAIN wjobs' \subseteq DOMAIN wjobs /\ disk' \in [Job -> Disk]
  <2>0. Writers(wjobs) /\ disk \in [Job -> Disk]
    BY DEF OneOffer, Typed
  <2>1. CASE CM.id \in DOMAIN wjobs /\ ~Upload
    <3>1. wjobs[CM.id] \in WriteJob /\ disk[CM.id] \in Disk
      BY <1>2, <2>0, <2>1 DEF Writers
    <3> DEFINE d == modify_time(wjobs[CM.id], disk[CM.id])
    <3>2. d \in Disk
      BY <3>1, DiskTypes
    <3>3. disk' = [disk EXCEPT ![CM.id] = d] /\ wjobs' = Without(CM.id)
      BY <2>1 DEF ClientDone, CM
    <3> HIDE DEF d
    <3> QED BY <1>2, <2>0, <3>2, <3>3, DiskSet, WriterTable
  <2>2. CASE ~(CM.id \in DOMAIN wjobs /\ ~Upload)
    <3>1. wjobs' = wjobs /\ disk' = disk
      BY <2>2 DEF ClientDone, CM
    <3> QED BY <2>0, <3>1
  <2> QED BY <2>1, <2>2
<1>5. /\ ui' \in [Job -> {"none", "running", "paused", "done", "error", "cancelled", "lost"}]
      /\ \A x \in Job : x # CM.id => ui'[x] = ui[x]
      /\ ui'[CM.id] \notin {"none", "paused"}
  <2>1. handle_job_status(CM.id, "done") /\ Typed
    BY DEF ClientDone, CM, OneOffer
  <2> QED BY <1>2, <2>1 DEF Typed, handle_job_status
<1>6. Typed'
  BY <1>3, <1>4, <1>5 DEF OneOffer, Typed
<1>7. Follow(rjobs, rjobs', CM, CM \in OfferC(Upload, CM.id))
  BY <1>3, Readers, FollowSame
<1> QED BY <1>1, <1>3, <1>4, <1>5, <1>6, <1>7, ClientHandles

\* An error arrives.
LEMMA ClientErrorKeeps == OneOffer /\ ClientError => OneOffer'
<1> SUFFICES ASSUME OneOffer, ClientError, NEW t \in {"error", "skipped"}, FromServer(t) PROVE OneOffer'
  BY DEF ClientError
<1>2. CM.id \in Job
  BY GotFromServer
<1>3. /\ mode' = mode /\ ask' = ask /\ saved' = saved /\ up' = up
      /\ skips' = skips /\ lost' = lost /\ ipc' = ipc /\ cmIds' = cmIds /\ disk' = disk
      /\ unwritten' = unwritten /\ faults' = faults /\ toServer' = toServer
  BY DEF ClientError
<1>4. Writers(wjobs') /\ DOMAIN wjobs' \subseteq DOMAIN wjobs
  <2>1. Writers(wjobs)
    BY DEF OneOffer, Typed
  <2>2. wjobs' = wjobs \/ wjobs' = Without(CM.id)
    BY DEF ClientError, CM
  <2> QED BY <1>2, <2>1, <2>2, WriterTable
<1>5. /\ ui' \in [Job -> {"none", "running", "paused", "done", "error", "cancelled", "lost"}]
      /\ \A x \in Job : x # CM.id => ui'[x] = ui[x]
      /\ ui'[CM.id] \notin {"none", "paused"}
  <2>1. Typed /\ (handle_job_status(CM.id, "done") \/ handle_job_status(CM.id, "error"))
    BY DEF ClientError, CM, OneOffer
  <2> QED BY <1>2, <2>1 DEF Typed, handle_job_status
<1>6. Typed'
  BY <1>3, <1>4, <1>5 DEF OneOffer, Typed
<1>7. Follow(rjobs, rjobs', CM, CM \in OfferC(Upload, CM.id))
  <2>1. rjobs \in Seq(Reader) /\ \A x \in Job : Lone(rjobs, JobsOf(x))
    BY Readers
  <2>2. CASE rjobs' = rjobs
    BY <2>1, <2>2, FollowSame
  <2>3. CASE rjobs' = remove_job(CM.id, rjobs)
    BY <1>2, <2>1, <2>3, Removed, FollowLess
  <2> QED BY <2>2, <2>3 DEF ClientError, CM
<1> QED BY <1>3, <1>4, <1>5, <1>6, <1>7, ClientHandles

\* A confirmation arrives, on an upload.
LEMMA ClientConfirmKeeps == OneOffer /\ ClientConfirm => OneOffer'
<1> SUFFICES ASSUME OneOffer, ClientConfirm PROVE OneOffer'
  OBVIOUS
<1>1. FromServer("confirm")
  BY DEF ClientConfirm
<1>2. /\ CM \in ToClient(Upload) /\ CM \in Message /\ CM.id \in Job /\ CM.num \in Num
      /\ CM.t = "confirm" /\ Sound(CM)
      /\ CM \in OfferC(Upload, CM.id) => For(CM, rjobs)
      /\ ui[CM.id] \notin {"none", "paused"}
  BY <1>1, GotFromServer
<1>3. Upload /\ CM \in OfferC(Upload, CM.id) /\ CM.n \in {Skip} \cup Nat
  BY <1>2 DEF ToClient, OfferC, About, Sound, FromReader
<1>4. /\ mode' = mode /\ ask' = ask /\ ui' = ui /\ saved' = saved /\ up' = up /\ wjobs' = wjobs
      /\ skips' = skips /\ lost' = lost /\ ipc' = ipc /\ cmIds' = cmIds /\ disk' = disk
      /\ unwritten' = unwritten /\ faults' = faults /\ toServer' = toServer
  BY DEF ClientConfirm
<1>5. Typed'
  BY <1>4 DEF OneOffer, Typed
<1>6. Follow(rjobs, rjobs', CM, CM \in OfferC(Upload, CM.id))
  <2>1. /\ rjobs \in Seq(Reader) /\ \A x \in Job : Lone(rjobs, JobsOf(x))
        /\ \A i \in DOMAIN rjobs : rjobs[i] \in Reader
    BY Readers
  <2> DEFINE C(j) == confirm(j, CM.num, CM.n)
             Q == [i \in DOMAIN rjobs |-> IF rjobs[i].id = CM.id THEN C(rjobs[i]) ELSE rjobs[i]]
  <2>2. rjobs' = Q
    BY DEF ClientConfirm, CM, map_job
  <2>3. ASSUME NEW i \in DOMAIN rjobs, rjobs[i].id = CM.id
        PROVE  C(rjobs[i]) \in Reader /\ C(rjobs[i]).id = CM.id
    <3>1. At(rjobs[i], CM.num)
      BY <1>2, <1>3, <2>3 DEF For
    <3> QED BY <1>2, <1>3, <2>1, <2>3, <3>1, ConfirmReader
  <2> HIDE DEF C
  <2>4. /\ Q = [i \in DOMAIN rjobs |-> Q[i]]
        /\ \A i \in DOMAIN rjobs : rjobs[i].id # CM.id => Q[i] = rjobs[i]
        /\ \A i \in DOMAIN rjobs : rjobs[i].id = CM.id => Q[i] \in Reader /\ Q[i].id = CM.id
    BY <2>3
  <2> HIDE DEF Q
  <2>5. Follow(rjobs, Q, CM, TRUE)
    BY <2>1, <2>4, FollowMapped
  <2> QED BY <1>3, <2>2, <2>5 DEF Follow
<1>7. DOMAIN wjobs' \subseteq DOMAIN wjobs
  BY <1>4
<1> QED BY <1>1, <1>2, <1>4, <1>5, <1>6, <1>7, ClientHandles

Strategies == {"ask", "overwrite", "skip"}

\* default_overwrite_strategy, of a job that the client has.
LEMMA StrategyType ==
  ASSUME OneOffer, NEW id, HasJob(id)
  PROVE  Strategy(id) \in Strategies
<1>1. CASE Upload
  <2>1. PICK i \in DOMAIN rjobs : rjobs[i].id = id
    BY <1>1 DEF HasJob
  <2> DEFINE X == {rjobs[k] : k \in DOMAIN rjobs}
             c == CHOOSE j \in X : j.id = id
  <2>2. c \in X
    BY <2>1
  <2>3. X \subseteq Reader
    BY Readers
  <2>4. Strategy(id) = c.strategy
    BY <1>1 DEF Strategy
  <2>5. c \in Reader
    BY <2>2, <2>3
  <2> HIDE DEF c
  <2> QED BY <2>4, <2>5 DEF Reader, ReadJob, Strategies
<1>2. CASE ~Upload
  BY <1>2 DEF HasJob, Strategy, OneOffer, Typed, Writers, WriteJob, Strategies
<1> QED BY <1>1, <1>2

\* The client confirms the file that job id waits at.
LEMMA ConfirmSteps ==
  ASSUME OneOffer, NEW id \in Job, NEW num \in File, NEW n \in {Skip} \cup Nat,
         NEW tell \in BOOLEAN, NEW s \in Strategies, HasJob(id), Confirm(id, num, n, tell, s),
         \A i \in DOMAIN rjobs : rjobs[i].id = id => At(rjobs[i], num),
         NEW m, m.id = id
  PROVE  /\ Follow(rjobs, rjobs', m, TRUE) /\ (~Upload => rjobs' = rjobs)
         /\ Writers(wjobs') /\ DOMAIN wjobs' = DOMAIN wjobs /\ skips' \subseteq Job \X File
         /\ ~tell => toServer' = toServer
         /\ tell => \E a \in ToServer(Upload) :
                      /\ a.id = id /\ toServer' = Append(toServer, a)
                      /\ a \in OfferS(Upload, a.id) => For(a, rjobs')
<1>1. /\ rjobs \in Seq(Reader) /\ \A x \in Job : Lone(rjobs, JobsOf(x))
      /\ \A i \in DOMAIN rjobs : rjobs[i] \in Reader
  BY Readers
<1>2. num \in Num
  BY Constants
<1>3. Follow(rjobs, rjobs', m, TRUE) /\ (~Upload => rjobs' = rjobs)
  <2>1. CASE ~Upload
    <3>1. rjobs' = rjobs
      BY <2>1 DEF Confirm
    <3> QED BY <1>1, <3>1, FollowSame
  <2>2. CASE Upload
    <3> DEFINE C(j) == [confirm(j, num, n) EXCEPT !.strategy = s]
               Q == [i \in DOMAIN rjobs |-> IF rjobs[i].id = id THEN C(rjobs[i]) ELSE rjobs[i]]
    <3>1. rjobs' = Q
      BY <2>2 DEF Confirm, map_job
    <3>2. ASSUME NEW i \in DOMAIN rjobs, rjobs[i].id = id
          PROVE  C(rjobs[i]) \in Reader /\ C(rjobs[i]).id = id
      <4> DEFINE c == confirm(rjobs[i], num, n)
      <4>1. c \in Reader /\ c.id = id
        BY <1>1, <1>2, <3>2, ConfirmReader
      <4>2. C(rjobs[i]) = [c EXCEPT !.strategy = s]
        OBVIOUS
      <4> HIDE DEF c, C
      <4>3. c \in ReadJob
        BY <4>1 DEF Reader
      <4>4. C(rjobs[i]) \in ReadJob
        BY <4>2, <4>3 DEF ReadJob, Strategies
      <4>5. /\ C(rjobs[i]).id = c.id /\ C(rjobs[i]).confirmed = c.confirmed
            /\ C(rjobs[i]).waiting = c.waiting /\ C(rjobs[i]).pos = c.pos
            /\ C(rjobs[i]).num = c.num /\ C(rjobs[i]).last = c.last
        BY <4>2, <4>3 DEF ReadJob
      <4> QED BY <4>1, <4>4, <4>5 DEF Reader
    <3> HIDE DEF C
    <3>3. /\ Q = [i \in DOMAIN rjobs |-> Q[i]]
          /\ \A i \in DOMAIN rjobs : rjobs[i].id # m.id => Q[i] = rjobs[i]
          /\ \A i \in DOMAIN rjobs : rjobs[i].id = m.id => Q[i] \in Reader /\ Q[i].id = m.id
      BY <3>2
    <3> HIDE DEF Q
    <3> QED BY <1>1, <2>2, <3>1, <3>3, FollowMapped
  <2> QED BY <2>1, <2>2
<1>4. Writers(wjobs') /\ DOMAIN wjobs' = DOMAIN wjobs
  <2>0. Writers(wjobs)
    BY DEF OneOffer, Typed
  <2>1. CASE Upload
    BY <2>0, <2>1 DEF Confirm
  <2>2. CASE ~Upload
    <3> DEFINE c == confirm_write(wjobs[id], num, n, disk[id])
               j == [c EXCEPT !.strategy = s]
    <3>1. wjobs[id] \in WriteJob
      BY <2>0, <2>2 DEF HasJob, Writers
    <3>2. c \in WriteJob
      BY <3>1, ConfirmWriter
    <3>3. wjobs' = [wjobs EXCEPT ![id] = j]
      BY <2>2 DEF Confirm
    <3> HIDE DEF c
    <3>4. j \in WriteJob
      BY <3>2, WriterTypes DEF Strategies
    <3> HIDE DEF j
    <3> QED BY <2>0, <3>3, <3>4, WriterTable
  <2> QED BY <2>1, <2>2
<1>5. skips' \subseteq Job \X File
  BY DEF Confirm, OneOffer, Typed
<1>6. ~tell => toServer' = toServer
  BY DEF Confirm
<1>7. ASSUME tell
      PROVE  \E a \in ToServer(Upload) :
               /\ a.id = id /\ toServer' = Append(toServer, a)
               /\ a \in OfferS(Upload, a.id) => For(a, rjobs')
  <2> DEFINE a == Msg("confirm", id, num, n)
  <2>1. n \in Int
    BY DEF Skip
  <2>2. a \in Message /\ a.t = "confirm" /\ a.id = id /\ a.num = num /\ a.n = n
    BY <1>2, <2>1, MsgType
  <2>3. toServer' = Append(toServer, a)
    BY <1>7 DEF Confirm
  <2> HIDE DEF a
  <2>4. a \in ToServer(Upload)
    BY <2>2 DEF ToServer, Sound
  <2>5. a \in OfferS(Upload, a.id) => For(a, rjobs')
    <3>1. a \in OfferS(Upload, a.id) => ~Upload
      BY <2>2 DEF OfferS
    <3> QED BY <1>3, <2>2, <3>1 DEF For
  <2> QED BY <2>2, <2>3, <2>4, <2>5
<1> QED BY <1>3, <1>4, <1>5, <1>6, <1>7

\* The client decides on an offer, or asks.
LEMMA DecideSteps ==
  ASSUME OneOffer, NEW n \in Nat, NEW resume, HasJob(CM.id), Decide(CM, n, resume),
         CM.id \in Job, CM.num \in File, For(CM, rjobs)
  PROVE  /\ Follow(rjobs, rjobs', CM, TRUE)
         /\ Writers(wjobs') /\ DOMAIN wjobs' = DOMAIN wjobs /\ skips' \subseteq Job \X File
         /\ ask' \subseteq Job \X File
         /\ \/ toServer' = toServer /\ ask' = ask
            \/ \E a \in ToServer(Upload) :
                 /\ a.id = CM.id /\ toServer' = Append(toServer, a) /\ ask' = ask
                 /\ a \in OfferS(Upload, a.id) => For(a, rjobs')
            \/ toServer' = toServer /\ ask' = ask \cup {<<CM.id, CM.num>>} /\ rjobs' = rjobs
<1>1. Strategy(CM.id) \in Strategies
  BY StrategyType
<1>2. \A i \in DOMAIN rjobs : rjobs[i].id = CM.id => At(rjobs[i], CM.num)
  BY DEF For
<1>3. ASSUME NEW k \in {Skip} \cup Nat, Confirm(CM.id, CM.num, k, TRUE, Strategy(CM.id)), ask' = ask
      PROVE  /\ Follow(rjobs, rjobs', CM, TRUE)
             /\ Writers(wjobs') /\ DOMAIN wjobs' = DOMAIN wjobs /\ skips' \subseteq Job \X File
             /\ ask' \subseteq Job \X File
             /\ \E a \in ToServer(Upload) :
                 /\ a.id = CM.id /\ toServer' = Append(toServer, a) /\ ask' = ask
                 /\ a \in OfferS(Upload, a.id) => For(a, rjobs')
  <2>1. /\ Follow(rjobs, rjobs', CM, TRUE)
        /\ Writers(wjobs') /\ DOMAIN wjobs' = DOMAIN wjobs /\ skips' \subseteq Job \X File
        /\ \E a \in ToServer(Upload) :
             /\ a.id = CM.id /\ toServer' = Append(toServer, a)
             /\ a \in OfferS(Upload, a.id) => For(a, rjobs')
    BY <1>1, <1>2, <1>3, ConfirmSteps
  <2>2. ask' \subseteq Job \X File
    BY <1>3 DEF OneOffer, Typed
  <2> QED BY <1>3, <2>1, <2>2
<1>4. \/ \E k \in {Skip} \cup Nat : Confirm(CM.id, CM.num, k, TRUE, Strategy(CM.id)) /\ ask' = ask
      \/ /\ ask' = ask \cup {<<CM.id, CM.num>>}
         /\ rjobs' = rjobs /\ wjobs' = wjobs /\ toServer' = toServer /\ skips' = skips
  <2>1. n \in {Skip} \cup Nat /\ (IF Strategy(CM.id) = "skip" THEN Skip ELSE 0) \in {Skip} \cup Nat
    OBVIOUS
  <2> QED BY <2>1 DEF Decide
<1>5. CASE /\ ask' = ask \cup {<<CM.id, CM.num>>}
           /\ rjobs' = rjobs /\ wjobs' = wjobs /\ toServer' = toServer /\ skips' = skips
  <2>1. Follow(rjobs, rjobs', CM, TRUE)
    BY <1>5, Readers, FollowSame
  <2>2. /\ Writers(wjobs') /\ DOMAIN wjobs' = DOMAIN wjobs /\ skips' \subseteq Job \X File
        /\ ask' \subseteq Job \X File
    BY <1>5 DEF OneOffer, Typed
  <2> QED BY <1>5, <2>1, <2>2
<1> QED BY <1>3, <1>4, <1>5

\* A digest arrives, on a download: it becomes a confirmation or a dialog, or
\* is dropped.
LEMMA ClientDigestKeeps == OneOffer /\ ClientDigest => OneOffer'
<1> SUFFICES ASSUME OneOffer, ClientDigest PROVE OneOffer'
  OBVIOUS
<1>1. FromServer("digest")
  BY DEF ClientDigest
<1>2. /\ CM \in ToClient(Upload) /\ CM \in Message /\ CM.id \in Job /\ CM.num \in Num
      /\ CM.t = "digest" /\ Sound(CM)
      /\ CM \in OfferC(Upload, CM.id) => For(CM, rjobs)
      /\ ui[CM.id] \notin {"none", "paused"}
  BY <1>1, GotFromServer
<1>3. ~Upload /\ CM \in OfferC(Upload, CM.id) /\ CM.num \in File
  BY <1>2 DEF ToClient, OfferC, About, Sound
<1>4. /\ mode' = mode /\ ui' = ui /\ saved' = saved /\ up' = up
      /\ lost' = lost /\ ipc' = ipc /\ cmIds' = cmIds /\ disk' = disk
      /\ unwritten' = unwritten /\ faults' = faults
  BY DEF ClientDigest
<1> DEFINE Fine ==
             /\ Follow(rjobs, rjobs', CM, TRUE)
             /\ Writers(wjobs') /\ DOMAIN wjobs' = DOMAIN wjobs /\ skips' \subseteq Job \X File
             /\ ask' \subseteq Job \X File
             /\ \/ toServer' = toServer /\ ask' = ask
                \/ \E a \in ToServer(Upload) :
                     /\ a.id = CM.id /\ toServer' = Append(toServer, a) /\ ask' = ask
                     /\ a \in OfferS(Upload, a.id) => For(a, rjobs')
                \/ toServer' = toServer /\ ask' = ask \cup {<<CM.id, CM.num>>} /\ rjobs' = rjobs
           j == wjobs[CM.id]
           n == is_write_need_confirmation(j.resume, disk[CM.id][CM.num])
<1>5. Fine
  <2>1. CASE CM.id \notin DOMAIN wjobs \/ ~j.files
    <3>1. rjobs' = rjobs /\ wjobs' = wjobs /\ toServer' = toServer /\ ask' = ask /\ skips' = skips
      BY <2>1 DEF ClientDigest, CM
    <3>2. Follow(rjobs, rjobs', CM, TRUE)
      BY <3>1, Readers, FollowSame
    <3> QED BY <3>1, <3>2 DEF OneOffer, Typed
  <2>2. CASE CM.id \in DOMAIN wjobs /\ j.files
    <3>1. HasJob(CM.id) /\ n \in {NoSuchFile} \cup Nat /\ j.strategy \in Strategies
      <4>1. HasJob(CM.id)
        BY <1>3, <2>2 DEF HasJob
      <4>2. disk[CM.id][CM.num] \in Entry
        BY <1>2, <1>3 DEF OneOffer, Typed, Disk
      <4>3. n \in {NoSuchFile} \cup Nat
        BY <4>2, NeedType
      <4>4. j.strategy \in Strategies
        BY <2>2 DEF OneOffer, Typed, Writers, WriteJob, Strategies
      <4> QED BY <4>1, <4>3, <4>4
    <3>2. CASE n = NoSuchFile
      <4>1. Confirm(CM.id, CM.num, 0, TRUE, j.strategy) /\ ask' = ask
        BY <2>2, <3>2 DEF ClientDigest, CM
      <4> HIDE DEF j, n
      <4>2. /\ Follow(rjobs, rjobs', CM, TRUE)
            /\ Writers(wjobs') /\ DOMAIN wjobs' = DOMAIN wjobs /\ skips' \subseteq Job \X File
            /\ \E a \in ToServer(Upload) :
                 /\ a.id = CM.id /\ toServer' = Append(toServer, a)
                 /\ a \in OfferS(Upload, a.id) => For(a, rjobs')
        <5>1. 0 \in {Skip} \cup Nat
          OBVIOUS
        <5>2. \A i \in DOMAIN rjobs : rjobs[i].id = CM.id => At(rjobs[i], CM.num)
          BY <1>2, <1>3 DEF For
        <5> QED BY <1>2, <1>3, <3>1, <4>1, <5>1, <5>2, ConfirmSteps
      <4>3. ask' \subseteq Job \X File
        BY <4>1 DEF OneOffer, Typed
      <4> QED BY <4>1, <4>2, <4>3
    <3>3. CASE n # NoSuchFile
      <4>1. Decide(CM, n, j.resume) /\ n \in Nat
        BY <2>2, <3>1, <3>3 DEF ClientDigest, CM
      <4> HIDE DEF j, n
      <4> QED BY <1>2, <1>3, <3>1, <4>1, DecideSteps
    <3> QED BY <3>2, <3>3
  <2> QED BY <2>1, <2>2
<1> HIDE DEF j, n
<1>6. Typed'
  BY <1>4, <1>5 DEF OneOffer, Typed
<1>7. Follow(rjobs, rjobs', CM, CM \in OfferC(Upload, CM.id))
  BY <1>3, <1>5 DEF Follow
<1>8. DOMAIN wjobs' \subseteq DOMAIN wjobs
  BY <1>5
<1> QED BY <1>1, <1>2, <1>3, <1>4, <1>5, <1>6, <1>7, <1>8, ClientHandles

\* The receiver's question arrives, on an upload.
LEMMA ClientNeedKeeps == OneOffer /\ ClientNeed => OneOffer'
<1> SUFFICES ASSUME OneOffer, ClientNeed PROVE OneOffer'
  OBVIOUS
<1>1. FromServer("need")
  BY DEF ClientNeed
<1>2. /\ CM \in ToClient(Upload) /\ CM \in Message /\ CM.id \in Job /\ CM.num \in Num
      /\ CM.t = "need" /\ Sound(CM)
      /\ CM \in OfferC(Upload, CM.id) => For(CM, rjobs)
      /\ ui[CM.id] \notin {"none", "paused"}
  BY <1>1, GotFromServer
<1>3. Upload /\ CM \in OfferC(Upload, CM.id) /\ CM.num \in File /\ CM.n \in Nat
  BY <1>2 DEF ToClient, OfferC, About, Sound, FromReader
<1>4. /\ mode' = mode /\ ui' = ui /\ saved' = saved /\ up' = up
      /\ lost' = lost /\ ipc' = ipc /\ cmIds' = cmIds /\ disk' = disk
      /\ unwritten' = unwritten /\ faults' = faults
  BY DEF ClientNeed
<1> DEFINE Fine ==
             /\ Follow(rjobs, rjobs', CM, TRUE)
             /\ Writers(wjobs') /\ DOMAIN wjobs' = DOMAIN wjobs /\ skips' \subseteq Job \X File
             /\ ask' \subseteq Job \X File
             /\ \/ toServer' = toServer /\ ask' = ask
                \/ \E a \in ToServer(Upload) :
                     /\ a.id = CM.id /\ toServer' = Append(toServer, a) /\ ask' = ask
                     /\ a \in OfferS(Upload, a.id) => For(a, rjobs')
                \/ toServer' = toServer /\ ask' = ask \cup {<<CM.id, CM.num>>} /\ rjobs' = rjobs
<1>5. Fine
  <2>1. CASE ~HasJob(CM.id)
    <3>1. rjobs' = rjobs /\ wjobs' = wjobs /\ toServer' = toServer /\ ask' = ask /\ skips' = skips
      BY <2>1 DEF ClientNeed, CM
    <3>2. Follow(rjobs, rjobs', CM, TRUE)
      BY <3>1, Readers, FollowSame
    <3> QED BY <3>1, <3>2 DEF OneOffer, Typed
  <2>2. CASE HasJob(CM.id)
    <3> DEFINE r == \E i \in DOMAIN rjobs : rjobs[i].id = CM.id /\ rjobs[i].resume
    <3>1. Decide(CM, CM.n, r)
      BY <2>2 DEF ClientNeed, CM
    <3> HIDE DEF r
    <3> QED BY <1>2, <1>3, <2>2, <3>1, DecideSteps
  <2> QED BY <2>1, <2>2
<1>6. Typed'
  BY <1>4, <1>5 DEF OneOffer, Typed
<1>7. Follow(rjobs, rjobs', CM, CM \in OfferC(Upload, CM.id))
  BY <1>3, <1>5 DEF Follow
<1>8. DOMAIN wjobs' \subseteq DOMAIN wjobs
  BY <1>5
<1> QED BY <1>1, <1>2, <1>3, <1>4, <1>5, <1>6, <1>7, <1>8, ClientHandles

\* Every handler of the client.
LEMMA ClientStepKeeps == OneOffer /\ ClientStep => OneOffer'
BY ClientDirKeeps, ClientDigestKeeps, ClientNeedKeeps, ClientConfirmKeeps,
   ClientBlockKeeps, ClientDoneKeeps, ClientErrorKeeps DEF ClientStep

-----------------------------------------------------------------------------
(* The start, the user's commands and lost connections.                    *)

\* No message, no dialog.
LEMMA Nothing ==
  ASSUME NEW u, NEW R
  PROVE  /\ \A id : /\ None(u, << >>, << >>, << >>, {}, id) /\ One(u, << >>, << >>, << >>, {}, id)
                    /\ Quiet(<< >>, << >>, << >>, {}, id)
         /\ Pipe(u, << >>, << >>, << >>, {}, R)
<1> DEFINE q == << >>
<1>1. \A P : ~Has(q, P) /\ Lone(q, P)
  BY EmptyHas
<1> HIDE DEF q
<1>2. /\ \A id : None(u, q, q, q, {}, id) /\ One(u, q, q, q, {}, id) /\ Quiet(q, q, q, {}, id)
      /\ Pipe(u, q, q, q, {}, R)
  BY <1>1 DEF None, One, Quiet, Pipe, Right
<1> QED BY <1>2 DEF q

\* The initial states.
LEMMA StartsFine ==
  ASSUME NEW jobs \in SUBSET Job, NEW n \in 0..MaxLost, InitWith(jobs, n)
  PROVE  OneOffer
<1>1. disk \in [Job -> Disk]
  <2>1. PICK file \in [File -> {"none", "old"}], part \in SUBSET Leftover[mode] :
          disk = [id \in Job |-> [f \in File |-> Fresh(f, file[f], f \in part)]]
    BY DEF InitWith
  <2>2. part \subseteq {f \in File : Size[f] > 0}
    BY <2>1, TransferAssumption DEF InitWith
  <2>3. ASSUME NEW f \in File PROVE Fresh(f, file[f], f \in part) \in Entry
    <3> DEFINE T == Seq(Block)
               p == IF f \in part THEN <<1>> ELSE << >>
               b == f \in part
    <3>1. p \in T
      <4>1. CASE f \in part
        <5>1. 1 \in 1..Size[f] /\ 1..Size[f] \subseteq Block
          BY <2>2, <4>1, Constants
        <5> QED BY <4>1, <5>1
      <4>2. CASE f \notin part
        BY <4>2
      <4> QED BY <4>1, <4>2
    <3>2. Fresh(f, file[f], f \in part) = [file |-> file[f], download |-> b, part |-> p, digest |-> b]
      BY DEF Fresh
    <3>3. Entry = [file : {"none", "old", "whole", "broken"}, download : BOOLEAN, part : T, digest : BOOLEAN]
      BY DEF Entry
    <3>4. file[f] \in {"none", "old", "whole", "broken"} /\ b \in BOOLEAN
      BY <2>1
    <3> HIDE DEF T, p, b
    <3> QED BY <3>1, <3>2, <3>3, <3>4
  <2> QED BY <2>1, <2>3 DEF Disk
<1>2. Typed
  <2>1. Writers(wjobs)
    BY DEF InitWith, Writers
  <2>2. ui \in [Job -> {"none", "running", "paused", "done", "error", "cancelled", "lost"}]
    BY DEF InitWith
  <2>3. saved \in [Job -> 0..Len(Size)+1]
    BY Constants DEF InitWith
  <2>4. faults \in 0..MaxFaults /\ lost \in 0..MaxLost
    BY TransferAssumption DEF InitWith
  <2> QED BY <1>1, <2>1, <2>2, <2>3, <2>4 DEF InitWith, Typed
<1>3. /\ rjobs = << >> /\ toServer = << >> /\ toClient = << >> /\ ipc = << >> /\ ask = {} /\ wjobs = << >>
      /\ saved = [id \in Job |-> 0]
      /\ \A id \in Job : ui[id] \in {"none", "cancelled"}
  BY DEF InitWith
<1>4. Good(Upload, InCM, rjobs, toServer, toClient, ipc, ask)
  <2>1. \A id \in Job : Lone(<< >>, JobsOf(id))
    BY EmptyHas
  <2>2. /\ << >> \in Seq(Reader) /\ << >> \in Seq(ToServer(Upload))
        /\ << >> \in Seq(ToClient(Upload)) /\ << >> \in Seq(Told(InCM))
    OBVIOUS
  <2>3. Pipe(Upload, toServer, toClient, ipc, ask, rjobs)
    BY <1>3, Nothing
  <2> QED BY <1>3, <2>1, <2>2, <2>3 DEF Good
<1>5. Idle(Upload, rjobs, toServer, toClient, ipc, ask, wjobs, ui, saved)
  <2>1. \A x \in Job : Quiet(toServer, toClient, ipc, ask, x)
    BY <1>3, Nothing
  <2>2. DOMAIN rjobs = {} /\ DOMAIN wjobs = {}
    BY <1>3
  <2>3. \A x \in Job : saved[x] = 0 /\ ui[x] # "paused"
    BY <1>3
  <2> QED BY <2>1, <2>2, <2>3 DEF Idle
<1> QED BY <1>2, <1>3, <1>4, <1>5 DEF OneOffer

\* A command about job id, with at most one message.
LEMMA CommandSteps ==
  ASSUME OneOffer, NEW id \in Job, up, Typed', ask' \subseteq ask,
         mode' = mode /\ up' = up /\ toClient' = toClient /\ ipc' = ipc /\ saved' = saved,
         \A x \in Job : x # id => ui'[x] = ui[x],
         ui'[id] \notin {"none", "paused"},
         DOMAIN wjobs' \subseteq DOMAIN wjobs \cup {id},
         NEW m, m.id = id,
         Follow(rjobs, rjobs', m, None(Upload, toServer, toClient, ipc, ask', id)),
         \/ toServer' = toServer
         \/ \E a \in ToServer(Upload) :
              /\ a.id = id /\ toServer' = Append(toServer, a)
              /\ a \in OfferS(Upload, a.id) =>
                   None(Upload, toServer, toClient, ipc, ask', id) /\ For(a, rjobs')
  PROVE  OneOffer'
<1>1. /\ toServer \in Seq(ToServer(Upload)) /\ ipc \in Seq(Told(InCM))
      /\ toClient \in Seq(ToClient(Upload))
      /\ Pipe(Upload, toServer, toClient, ipc, ask, rjobs)
  BY DEF OneOffer, Good
<1>2. /\ Pipe(Upload, toServer, toClient, ipc, ask', rjobs)
      /\ \A x : Quiet(toServer, toClient, ipc, ask, x) => Quiet(toServer, toClient, ipc, ask', x)
  BY <1>1, LessIsFine, SameIsLess
<1>3. Pipe(Upload, toServer, toClient, ipc, ask', rjobs')
  <2>1. \A i \in DOMAIN rjobs' : \/ \E k \in DOMAIN rjobs : Alike(rjobs'[i], rjobs[k])
                                 \/ None(Upload, toServer, toClient, ipc, ask', rjobs'[i].id)
    BY DEF Follow
  <2> QED BY <1>2, <2>1, ReadersChange
<1> DEFINE Answered ==
             /\ toServer' \in Seq(ToServer(Upload))
             /\ Pipe(Upload, toServer', toClient, ipc, ask', rjobs')
             /\ \A x : x # id => (Quiet(toServer, toClient, ipc, ask, x) =>
                                  Quiet(toServer', toClient, ipc, ask', x))
<1>4. Answered
  <2>1. CASE toServer' = toServer
    BY <1>1, <1>2, <1>3, <2>1
  <2>2. ASSUME NEW a \in ToServer(Upload), a.id = id, toServer' = Append(toServer, a),
               a \in OfferS(Upload, a.id) =>
                 None(Upload, toServer, toClient, ipc, ask', id) /\ For(a, rjobs')
        PROVE  Answered
    <3>1. toServer' \in Seq(ToServer(Upload)) /\ Puts(toServer, toServer', a)
      BY <1>1, <2>2, Putting
    <3>2. a \in Message
      BY DEF ToServer
    <3>4. /\ Pipe(Upload, toServer', toClient, ipc, ask', rjobs')
          /\ \A x : x # a.id => (Quiet(toServer, toClient, ipc, ask', x) =>
                                 Quiet(toServer', toClient, ipc, ask', x))
      BY <1>3, <2>2, <3>1, <3>2, GiveToS
    <3> QED BY <1>2, <2>2, <3>1, <3>4
  <2> QED BY <2>1, <2>2
<1>5. Good(Upload, InCM, rjobs', toServer', toClient', ipc', ask')
  BY <1>1, <1>4 DEF Good, Follow
<1>6. Idle(Upload, rjobs', toServer', toClient', ipc', ask', wjobs', ui', saved')
  <2>1. Idle(Upload, rjobs, toServer, toClient, ipc, ask, wjobs, ui, saved)
    BY DEF OneOffer
  <2>2. ASSUME NEW x \in Job, ui'[x] \in {"none", "paused"}
        PROVE  /\ ui'[x] = ui[x] /\ saved'[x] = saved[x]
               /\ Quiet(toServer, toClient, ipc, ask, x) => Quiet(toServer', toClient', ipc', ask', x)
               /\ x \in DOMAIN wjobs' => x \in DOMAIN wjobs
               /\ \A i \in DOMAIN rjobs' : rjobs'[i].id = x =>
                    \E k \in DOMAIN rjobs : rjobs[k].id = x /\ (rjobs[k].last => rjobs'[i].last)
    <3>1. x # id
      BY <2>2
    <3> QED BY <1>4, <2>2, <3>1 DEF Follow, Alike
  <2>3. \A x \in Job : ui'[x] \in {"none", "paused"} =>
          /\ ui'[x] = ui[x] /\ saved'[x] = saved[x]
          /\ Quiet(toServer, toClient, ipc, ask, x) => Quiet(toServer', toClient', ipc', ask', x)
          /\ x \in DOMAIN wjobs' => x \in DOMAIN wjobs
          /\ \A i \in DOMAIN rjobs' : rjobs'[i].id = x =>
               \E k \in DOMAIN rjobs : rjobs[k].id = x /\ (rjobs[k].last => rjobs'[i].last)
    BY <2>2
  <2> QED BY <2>1, <2>3, IdleKept
<1> QED BY <1>5, <1>6, Together

\* Of an idle job nothing is on offer, and on a download it is not read.
LEMMA IdleJobs ==
  ASSUME OneOffer, NEW id \in Job, ui[id] \in {"none", "paused"}
  PROVE  /\ None(Upload, toServer, toClient, ipc, ask, id)
         /\ \A i \in DOMAIN rjobs : rjobs[i].id = id => Upload /\ ui[id] = "paused"
<1>1. /\ Quiet(toServer, toClient, ipc, ask, id)
      /\ \A i \in DOMAIN rjobs : rjobs[i].id = id => Upload /\ ui[id] = "paused"
  BY DEF OneOffer, Idle
<1> QED BY <1>1, QuietIsNone

\* A job is started.
LEMMA SendFilesKeeps ==
  ASSUME OneOffer, NEW id \in Job, SendFiles(id)
  PROVE  OneOffer'
<1>1. ui[id] = "none" /\ up
  BY DEF SendFiles
<1>2. /\ None(Upload, toServer, toClient, ipc, ask, id)
      /\ \A i \in DOMAIN rjobs : rjobs[i].id # id
  BY <1>1, IdleJobs
<1>3. /\ mode' = mode /\ up' = up /\ toClient' = toClient /\ ipc' = ipc /\ ask' = ask /\ saved' = saved
      /\ cmIds' = cmIds /\ disk' = disk /\ skips' = skips /\ unwritten' = unwritten /\ lost' = lost
  BY DEF SendFiles
<1>4. /\ ui' \in [Job -> {"none", "running", "paused", "done", "error", "cancelled", "lost"}]
      /\ \A x \in Job : x # id => ui'[x] = ui[x]
      /\ ui'[id] \notin {"none", "paused"}
  <2>1. Typed /\ (handle_job_status(id, "running") \/ handle_job_status(id, "error"))
    BY DEF SendFiles, OneOffer
  <2> QED BY <2>1 DEF Typed, handle_job_status
<1> DEFINE j == new_read(id, 1, FALSE)
           w == new_write(1, FALSE, FALSE)
           r == Msg("receive", id, 1, 0)
           s == Msg("send", id, 1, 0)
<1>5. j \in Reader /\ j.id = id
  BY Constants, NewReader
<1>6. w \in WriteJob
  BY Constants, WriterTypes
<1>7. /\ r \in Message /\ r.t = "receive" /\ r.id = id
      /\ s \in Message /\ s.t = "send" /\ s.id = id
  BY Constants, MsgType
<1>8. \/ /\ Upload /\ rjobs' = Append(rjobs, j) /\ toServer' = Append(toServer, r)
         /\ wjobs' = wjobs /\ faults' = faults
      \/ Fault(1) /\ rjobs' = rjobs /\ wjobs' = wjobs /\ toServer' = toServer
      \/ /\ ~Upload /\ wjobs' = With(id, w) /\ toServer' = Append(toServer, s)
         /\ rjobs' = rjobs /\ faults' = faults
  BY DEF SendFiles
<1> HIDE DEF j, w, r, s
<1>9. Writers(wjobs') /\ DOMAIN wjobs' \subseteq DOMAIN wjobs \cup {id}
  <2>1. Writers(wjobs)
    BY DEF OneOffer, Typed
  <2>2. Writers(With(id, w)) /\ DOMAIN With(id, w) = DOMAIN wjobs \cup {id}
    BY <1>6, <2>1, WriterTable
  <2> QED BY <1>8, <2>1, <2>2
<1>10. faults' \in 0..MaxFaults
  BY <1>8, FaultType DEF OneOffer, Typed
<1>11. Typed'
  BY <1>3, <1>4, <1>9, <1>10 DEF OneOffer, Typed
<1>12. rjobs \in Seq(Reader) /\ \A x \in Job : Lone(rjobs, JobsOf(x))
  BY Readers
<1>13. Follow(rjobs, rjobs', s, None(Upload, toServer, toClient, ipc, ask', id))
  <2>1. CASE rjobs' = rjobs
    BY <1>12, <2>1, FollowSame
  <2>2. CASE rjobs' = Append(rjobs, j)
    <3> DEFINE Q == Append(rjobs, j)
    <3>1. \A i \in DOMAIN rjobs : rjobs[i].id # j.id
      BY <1>2, <1>5
    <3>2. /\ Q \in Seq(Reader) /\ \A x \in Job : Lone(Q, JobsOf(x))
          /\ \A k \in DOMAIN Q : Q[k] = j \/ \E i \in DOMAIN rjobs : Q[k] = rjobs[i]
      BY <1>5, <1>12, <3>1, Appended
    <3> HIDE DEF Q
    <3>3. ASSUME NEW k \in DOMAIN Q
          PROVE  \/ \E i \in DOMAIN rjobs : Alike(Q[k], rjobs[i]) /\ (rjobs[i].last => Q[k].last)
                 \/ Q[k].id = s.id /\ None(Upload, toServer, toClient, ipc, ask', id)
      <4>1. CASE Q[k] = j
        BY <1>2, <1>3, <1>5, <1>7, <4>1
      <4>2. CASE \E i \in DOMAIN rjobs : Q[k] = rjobs[i]
        BY <4>2 DEF Alike
      <4> QED BY <3>2, <4>1, <4>2
    <3>4. rjobs' = Q
      BY <2>2 DEF Q
    <3> QED BY <3>2, <3>3, <3>4 DEF Follow
  <2> QED BY <1>8, <2>1, <2>2
<1>14. \/ toServer' = toServer
       \/ \E a \in ToServer(Upload) :
            /\ a.id = id /\ toServer' = Append(toServer, a)
            /\ a \in OfferS(Upload, a.id) =>
                 None(Upload, toServer, toClient, ipc, ask', id) /\ For(a, rjobs')
  <2>1. Upload => r \in ToServer(Upload) /\ r \notin OfferS(Upload, r.id)
    BY <1>7 DEF ToServer, Sound, OfferS
  <2>2. ~Upload => s \in ToServer(Upload)
    BY <1>7 DEF ToServer, Sound
  <2>3. rjobs' = rjobs => For(s, rjobs')
    BY <1>2, <1>7 DEF For
  <2> QED BY <1>2, <1>3, <1>7, <1>8, <2>1, <2>2, <2>3
<1>15. ask' \subseteq ask
  BY <1>3
<1> QED BY <1>1, <1>3, <1>4, <1>7, <1>9, <1>11, <1>13, <1>14, <1>15, CommandSteps

\* A job is resumed.
LEMMA ResumeJobKeeps ==
  ASSUME OneOffer, NEW id \in Job, ResumeJob(id)
  PROVE  OneOffer'
<1>1. ui[id] = "paused" /\ up
  BY DEF ResumeJob
<1>2. /\ None(Upload, toServer, toClient, ipc, ask, id)
      /\ \A i \in DOMAIN rjobs : rjobs[i].id = id => Upload
  BY <1>1, IdleJobs
<1>3. /\ mode' = mode /\ up' = up /\ toClient' = toClient /\ ipc' = ipc /\ ask' = ask /\ saved' = saved
      /\ cmIds' = cmIds /\ disk' = disk /\ skips' = skips /\ unwritten' = unwritten /\ lost' = lost
      /\ faults' = faults
  BY DEF ResumeJob
<1>4. /\ ui' \in [Job -> {"none", "running", "paused", "done", "error", "cancelled", "lost"}]
      /\ \A x \in Job : x # id => ui'[x] = ui[x]
      /\ ui'[id] \notin {"none", "paused"}
  <2>1. Typed /\ handle_job_status(id, "running")
    BY DEF ResumeJob, OneOffer
  <2> QED BY <2>1 DEF Typed, handle_job_status
<1>5. saved[id] \in Num
  <2>1. saved[id] \in 0..Len(Size)+1 /\ saved[id] # 0
    BY <1>1 DEF OneOffer, Typed, Idle
  <2> QED BY <2>1, Constants DEF Num
<1> DEFINE Resume(j) == [j EXCEPT !.last = FALSE, !.resume = TRUE]
           Q == [i \in DOMAIN rjobs |-> IF rjobs[i].id = id THEN Resume(rjobs[i]) ELSE rjobs[i]]
           r == Msg("receive", id, saved[id], 0)
           s == Msg("send", id, saved[id], 0)
<1>7. /\ r \in Message /\ r.t = "receive" /\ r.id = id
      /\ s \in Message /\ s.t = "send" /\ s.id = id
  BY <1>5, MsgType
<1>8. \/ /\ Upload /\ rjobs' = Q /\ toServer' = Append(toServer, r) /\ wjobs' = wjobs
      \/ /\ ~Upload /\ toServer' = Append(toServer, s) /\ rjobs' = rjobs
         /\ wjobs' = [wjobs EXCEPT ![id].last = FALSE, ![id].resume = TRUE]
  BY DEF ResumeJob, map_job
<1>9. Writers(wjobs') /\ DOMAIN wjobs' \subseteq DOMAIN wjobs \cup {id}
  <2>1. Writers(wjobs)
    BY DEF OneOffer, Typed
  <2>2. CASE wjobs' = wjobs
    BY <2>1, <2>2
  <2>3. CASE wjobs' = [wjobs EXCEPT ![id].last = FALSE, ![id].resume = TRUE]
    <3> DEFINE v == [wjobs[id] EXCEPT !.last = FALSE, !.resume = TRUE]
    <3>1. wjobs' = [wjobs EXCEPT ![id] = v]
      BY <2>3
    <3>2. id \in DOMAIN wjobs => v \in WriteJob
      BY <2>1, WriterTypes DEF Writers
    <3> HIDE DEF v
    <3> QED BY <2>1, <3>1, <3>2 DEF Writers
  <2> QED BY <1>8, <2>2, <2>3
<1>10. Typed'
  BY <1>3, <1>4, <1>9 DEF OneOffer, Typed
<1>11. /\ rjobs \in Seq(Reader) /\ \A x \in Job : Lone(rjobs, JobsOf(x))
       /\ \A i \in DOMAIN rjobs : rjobs[i] \in Reader
  BY Readers
<1> HIDE DEF r, s
<1>12. Follow(rjobs, rjobs', s, None(Upload, toServer, toClient, ipc, ask', id))
  <2>1. CASE rjobs' = rjobs
    BY <1>11, <2>1, FollowSame
  <2>2. CASE rjobs' = Q
    <3>1. ASSUME NEW i \in DOMAIN rjobs, rjobs[i].id = id
          PROVE  Resume(rjobs[i]) \in Reader /\ Resume(rjobs[i]).id = id
      <4> DEFINE c == rjobs[i]
                 d == Resume(c)
      <4>1. c \in Reader /\ c \in ReadJob
        BY <1>11 DEF Reader
      <4>2. d = [c EXCEPT !.last = FALSE, !.resume = TRUE]
        OBVIOUS
      <4> HIDE DEF c, d, Resume
      <4>3. d \in ReadJob
        BY <4>1, <4>2 DEF ReadJob
      <4>4. /\ d.id = c.id /\ d.confirmed = c.confirmed /\ d.waiting = c.waiting
            /\ d.pos = c.pos /\ d.num = c.num /\ ~d.last
        BY <4>1, <4>2 DEF ReadJob
      <4>5. d \in Reader
        BY <4>1, <4>3, <4>4 DEF Reader
      <4> QED BY <3>1, <4>4, <4>5 DEF c, d
    <3> HIDE DEF Resume
    <3>2. /\ Q = [i \in DOMAIN rjobs |-> Q[i]]
          /\ \A i \in DOMAIN rjobs : rjobs[i].id # s.id => Q[i] = rjobs[i]
          /\ \A i \in DOMAIN rjobs : rjobs[i].id = s.id => Q[i] \in Reader /\ Q[i].id = s.id
      BY <1>7, <3>1
    <3> HIDE DEF Q
    <3>3. Follow(rjobs, Q, s, TRUE)
      BY <1>11, <3>2, FollowMapped
    <3> QED BY <1>2, <1>3, <2>2, <3>3 DEF Follow
  <2> QED BY <1>8, <2>1, <2>2
<1> HIDE DEF Q, Resume
<1>13. \/ toServer' = toServer
       \/ \E a \in ToServer(Upload) :
            /\ a.id = id /\ toServer' = Append(toServer, a)
            /\ a \in OfferS(Upload, a.id) =>
                 None(Upload, toServer, toClient, ipc, ask', id) /\ For(a, rjobs')
  <2>1. Upload => r \in ToServer(Upload) /\ r \notin OfferS(Upload, r.id)
    BY <1>7 DEF ToServer, Sound, OfferS
  <2>2. ~Upload => s \in ToServer(Upload)
    BY <1>7 DEF ToServer, Sound
  <2>3. ~Upload /\ rjobs' = rjobs => For(s, rjobs')
    BY <1>2, <1>7 DEF For
  <2>4. CASE Upload /\ toServer' = Append(toServer, r)
    BY <1>7, <2>1, <2>4
  <2>5. CASE ~Upload /\ toServer' = Append(toServer, s) /\ rjobs' = rjobs
    BY <1>2, <1>3, <1>7, <2>2, <2>3, <2>5
  <2> QED BY <1>8, <2>4, <2>5
<1>14. ask' \subseteq ask
  BY <1>3
<1> QED BY <1>1, <1>3, <1>4, <1>7, <1>9, <1>10, <1>12, <1>13, <1>14, CommandSteps

\* A job is cancelled by the user.
LEMMA CancelJobKeeps ==
  ASSUME OneOffer, NEW id \in Job, CancelJob(id)
  PROVE  OneOffer'
<1>1. up
  BY DEF CancelJob
<1>2. /\ mode' = mode /\ up' = up /\ toClient' = toClient /\ ipc' = ipc /\ ask' = ask /\ saved' = saved
      /\ cmIds' = cmIds /\ skips' = skips /\ unwritten' = unwritten /\ lost' = lost
      /\ faults' = faults
  BY DEF CancelJob
<1>3. /\ ui' \in [Job -> {"none", "running", "paused", "done", "error", "cancelled", "lost"}]
      /\ \A x \in Job : x # id => ui'[x] = ui[x]
      /\ ui'[id] \notin {"none", "paused"}
  BY DEF CancelJob, OneOffer, Typed
<1>4. Writers(wjobs') /\ DOMAIN wjobs' \subseteq DOMAIN wjobs \cup {id} /\ disk' \in [Job -> Disk]
  <2>0. Writers(wjobs) /\ disk \in [Job -> Disk]
    BY DEF OneOffer, Typed
  <2>1. CASE ~Upload /\ id \in DOMAIN wjobs
    <3>1. wjobs[id] \in WriteJob /\ disk[id] \in Disk
      BY <2>0, <2>1 DEF Writers
    <3> DEFINE d == remove_download_file(wjobs[id], disk[id])
    <3>2. d \in Disk
      BY <3>1, DiskTypes
    <3>3. disk' = [disk EXCEPT ![id] = d] /\ wjobs' = Without(id)
      BY <2>1 DEF CancelJob
    <3> HIDE DEF d
    <3> QED BY <2>0, <3>2, <3>3, DiskSet, WriterTable
  <2>2. CASE ~(~Upload /\ id \in DOMAIN wjobs)
    <3>1. disk' = disk /\ wjobs' = wjobs
      BY <2>2 DEF CancelJob
    <3> QED BY <2>0, <3>1
  <2> QED BY <2>1, <2>2
<1>5. Typed'
  BY <1>2, <1>3, <1>4 DEF OneOffer, Typed
<1> DEFINE a == Msg("cancel", id, 1, 0)
<1>6. a \in Message /\ a.t = "cancel" /\ a.id = id /\ toServer' = Append(toServer, a)
  BY Constants, MsgType DEF CancelJob
<1> HIDE DEF a
<1>7. a \in ToServer(Upload) /\ a \notin OfferS(Upload, a.id)
  BY <1>6 DEF ToServer, Sound, OfferS
<1>8. Follow(rjobs, rjobs', a, None(Upload, toServer, toClient, ipc, ask', id))
  <2>1. rjobs \in Seq(Reader) /\ \A x \in Job : Lone(rjobs, JobsOf(x))
    BY Readers
  <2>2. CASE rjobs' = rjobs
    BY <2>1, <2>2, FollowSame
  <2>3. CASE rjobs' = remove_job(id, rjobs)
    BY <2>1, <2>3, Removed, FollowLess
  <2> QED BY <2>2, <2>3 DEF CancelJob
<1>9. ask' \subseteq ask
  BY <1>2
<1> QED BY <1>1, <1>2, <1>3, <1>4, <1>5, <1>6, <1>7, <1>8, <1>9, CommandSteps

\* A dialog is answered by the user.
LEMMA SetConfirmKeeps ==
  ASSUME OneOffer, NEW id \in Job, NEW num \in File, NEW n \in {Skip, 0}, NEW remember \in BOOLEAN,
         SetConfirmOverrideFile(id, num, n, remember)
  PROVE  OneOffer'
<1>1. up /\ <<id, num>> \in ask /\ ask' = ask \ {<<id, num>>}
  BY DEF SetConfirmOverrideFile
<1>2. Pipe(Upload, toServer, toClient, ipc, ask, rjobs)
  BY DEF OneOffer, Good
<1>3. /\ None(Upload, toServer, toClient, ipc, ask', id)
      /\ \A i \in DOMAIN rjobs : rjobs[i].id = id => At(rjobs[i], num)
      /\ ~Quiet(toServer, toClient, ipc, ask, id)
  BY <1>1, <1>2, TakeFromA
<1>4. ui[id] \notin {"none", "paused"}
  BY <1>3 DEF OneOffer, Idle
<1>5. /\ mode' = mode /\ up' = up /\ toClient' = toClient /\ ipc' = ipc /\ saved' = saved /\ ui' = ui
      /\ cmIds' = cmIds /\ disk' = disk /\ unwritten' = unwritten /\ lost' = lost /\ faults' = faults
  BY DEF SetConfirmOverrideFile
<1> DEFINE m == Msg("cancel", id, 1, 0)
<1>6. m.id = id
  BY DEF Msg
<1> HIDE DEF m
<1> DEFINE Fine ==
             /\ Follow(rjobs, rjobs', m, TRUE)
             /\ Writers(wjobs') /\ DOMAIN wjobs' = DOMAIN wjobs /\ skips' \subseteq Job \X File
             /\ \/ toServer' = toServer
                \/ \E a \in ToServer(Upload) :
                     /\ a.id = id /\ toServer' = Append(toServer, a)
                     /\ a \in OfferS(Upload, a.id) => For(a, rjobs')
<1>7. Fine
  <2>1. CASE ~HasJob(id)
    <3>1. rjobs' = rjobs /\ wjobs' = wjobs /\ toServer' = toServer /\ skips' = skips
      BY <2>1 DEF SetConfirmOverrideFile
    <3>2. Follow(rjobs, rjobs', m, TRUE)
      BY <3>1, Readers, FollowSame
    <3> QED BY <3>1, <3>2 DEF OneOffer, Typed
  <2>2. CASE HasJob(id)
    <3> DEFINE s == IF ~remember THEN Strategy(id) ELSE IF n = Skip THEN "skip" ELSE "overwrite"
    <3>1. s \in Strategies
      <4>1. Strategy(id) \in Strategies
        BY <2>2, StrategyType
      <4>2. "skip" \in Strategies /\ "overwrite" \in Strategies
        BY DEF Strategies
      <4> QED BY <4>1, <4>2
    <3>2. Confirm(id, num, n, ~Upload, s)
      BY <2>2 DEF SetConfirmOverrideFile
    <3> HIDE DEF s
    <3>3. n \in {Skip} \cup Nat
      OBVIOUS
    <3>4. /\ Follow(rjobs, rjobs', m, TRUE)
          /\ Writers(wjobs') /\ DOMAIN wjobs' = DOMAIN wjobs /\ skips' \subseteq Job \X File
          /\ Upload => toServer' = toServer
          /\ ~Upload => \E a \in ToServer(Upload) :
                          /\ a.id = id /\ toServer' = Append(toServer, a)
                          /\ a \in OfferS(Upload, a.id) => For(a, rjobs')
      <4> DEFINE tell == ~Upload
      <4>0. tell \in BOOLEAN
        OBVIOUS
      <4>1. Confirm(id, num, n, tell, s)
        BY <3>2
      <4> HIDE DEF tell
      <4>2. /\ Follow(rjobs, rjobs', m, TRUE)
            /\ Writers(wjobs') /\ DOMAIN wjobs' = DOMAIN wjobs /\ skips' \subseteq Job \X File
            /\ ~tell => toServer' = toServer
            /\ tell => \E a \in ToServer(Upload) :
                         /\ a.id = id /\ toServer' = Append(toServer, a)
                         /\ a \in OfferS(Upload, a.id) => For(a, rjobs')
        BY <1>3, <1>6, <2>2, <3>1, <3>3, <4>0, <4>1, ConfirmSteps, ZenonT(90)
      <4> QED BY <4>2 DEF tell
    <3> QED BY <3>4
  <2> QED BY <2>1, <2>2
<1>8. Typed'
  BY <1>1, <1>5, <1>7 DEF OneOffer, Typed
<1>9. Follow(rjobs, rjobs', m, None(Upload, toServer, toClient, ipc, ask', id))
  BY <1>3, <1>7 DEF Follow
<1>10. /\ ask' \subseteq ask /\ DOMAIN wjobs' \subseteq DOMAIN wjobs \cup {id}
       /\ ui'[id] \notin {"none", "paused"} /\ \A x \in Job : x # id => ui'[x] = ui[x]
  BY <1>1, <1>4, <1>5, <1>7
<1>11. \/ toServer' = toServer
       \/ \E a \in ToServer(Upload) :
            /\ a.id = id /\ toServer' = Append(toServer, a)
            /\ a \in OfferS(Upload, a.id) =>
                 None(Upload, toServer, toClient, ipc, ask', id) /\ For(a, rjobs')
  BY <1>3, <1>7
<1> HIDE DEF Fine
<1> QED BY <1>1, <1>5, <1>6, <1>8, <1>9, <1>10, <1>11, CommandSteps

\* Every command of the user.
LEMMA CommandKeeps ==
  ASSUME OneOffer, NEW id \in Job, Command(id)
  PROVE  OneOffer'
BY SendFilesKeeps, ResumeJobKeeps, CancelJobKeeps, SetConfirmKeeps DEF Command

\* The file number with which a job is saved.
LEMMA MetaType ==
  ASSUME OneOffer, NEW id \in Job
  PROVE  MetaOf(id) \in 0..Len(Size)+1 /\ (HasJob(id) <=> MetaOf(id) # 0)
<1>1. CASE ~HasJob(id)
  BY <1>1, Constants DEF MetaOf
<1>2. CASE HasJob(id) /\ Upload
  <2>1. PICK i \in DOMAIN rjobs : rjobs[i].id = id
    BY <1>2 DEF HasJob
  <2> DEFINE X == {rjobs[k] : k \in DOMAIN rjobs}
             c == CHOOSE j \in X : j.id = id
  <2>2. c \in X
    BY <2>1
  <2>3. X \subseteq Reader
    BY Readers
  <2>4. MetaOf(id) = c.num
    BY <1>2 DEF MetaOf
  <2>5. c \in Reader
    BY <2>2, <2>3
  <2> HIDE DEF c
  <2>6. c.num \in 1..Len(Size)+1
    BY <2>5 DEF Reader, ReadJob
  <2> QED BY <1>2, <2>4, <2>6, Constants
<1>3. CASE HasJob(id) /\ ~Upload
  <2>1. wjobs[id] \in WriteJob
    BY <1>3 DEF HasJob, OneOffer, Typed, Writers
  <2>2. MetaOf(id) = wjobs[id].num /\ wjobs[id].num \in 1..Len(Size)+1
    BY <1>3, <2>1 DEF MetaOf, WriteJob
  <2> QED BY <1>3, <2>2, Constants
<1> QED BY <1>1, <1>2, <1>3

\* The connection is lost: nothing is on its way any more.
LEMMA ConnectionLostKeeps == OneOffer /\ ConnectionLost => OneOffer'
<1> SUFFICES ASSUME OneOffer, ConnectionLost PROVE OneOffer'
  OBVIOUS
<1>1. /\ mode' = mode /\ disk' = disk /\ skips' = skips /\ unwritten' = unwritten /\ faults' = faults
      /\ rjobs' = << >> /\ wjobs' = << >> /\ cmIds' = {} /\ ask' = {}
      /\ toServer' = << >> /\ toClient' = << >> /\ ipc' = << >>
      /\ up' = FALSE /\ lost' = lost + 1 /\ lost < MaxLost
      /\ saved' = [id \in Job |-> MetaOf(id)]
      /\ ui' = [id \in Job |-> IF ui[id] \in {"running", "paused"}
                                 THEN IF HasJob(id) THEN "paused" ELSE "lost" ELSE ui[id]]
  BY DEF ConnectionLost
<1>2. Typed'
  <2>1. saved' \in [Job -> 0..Len(Size)+1]
    BY <1>1, MetaType
  <2>2. ui' \in [Job -> {"none", "running", "paused", "done", "error", "cancelled", "lost"}]
    <3>1. ui \in [Job -> {"none", "running", "paused", "done", "error", "cancelled", "lost"}]
      BY DEF OneOffer, Typed
    <3> QED BY <1>1, <3>1
  <2>3. Writers(wjobs')
    BY <1>1 DEF Writers
  <2>4. lost' \in 0..MaxLost
    BY <1>1, TransferAssumption DEF OneOffer, Typed
  <2>5. /\ mode' \in Modes /\ disk' \in [Job -> Disk] /\ cmIds' \subseteq Job /\ ask' \subseteq Job \X File
        /\ skips' \subseteq Job \X File /\ unwritten' \subseteq Job
        /\ up' \in BOOLEAN /\ faults' \in 0..MaxFaults
    BY <1>1 DEF OneOffer, Typed
  <2> QED BY <2>1, <2>2, <2>3, <2>4, <2>5 DEF Typed
<1>3. Good(Upload', InCM', rjobs', toServer', toClient', ipc', ask')
  <2>1. \A id \in Job : Lone(<< >>, JobsOf(id))
    BY EmptyHas
  <2>2. /\ << >> \in Seq(Reader) /\ << >> \in Seq(ToServer(Upload'))
        /\ << >> \in Seq(ToClient(Upload')) /\ << >> \in Seq(Told(InCM'))
    OBVIOUS
  <2>3. Pipe(Upload', toServer', toClient', ipc', ask', rjobs')
    BY <1>1, Nothing
  <2> QED BY <1>1, <2>1, <2>2, <2>3 DEF Good
<1>4. Idle(Upload', rjobs', toServer', toClient', ipc', ask', wjobs', ui', saved')
  <2>1. \A x \in Job : Quiet(toServer', toClient', ipc', ask', x)
    BY <1>1, Nothing
  <2>2. DOMAIN rjobs' = {} /\ DOMAIN wjobs' = {}
    BY <1>1
  <2>3. ASSUME NEW x \in Job
        PROVE  /\ ui'[x] = "none" => saved'[x] = 0
               /\ ui'[x] = "paused" => saved'[x] # 0
    <3>1. saved'[x] = MetaOf(x)
      BY <1>1
    <3>2. ui'[x] = "none" => ui[x] = "none"
      BY <1>1
    <3>3. ui'[x] = "paused" => HasJob(x)
      BY <1>1
    <3>4. ui[x] = "none" => ~HasJob(x)
      BY DEF OneOffer, Idle, HasJob
    <3> QED BY <3>1, <3>2, <3>3, <3>4, MetaType
  <2> QED BY <2>1, <2>2, <2>3 DEF Idle
<1> QED BY <1>1, <1>2, <1>3, <1>4 DEF OneOffer

\* A new session loads the jobs that were saved, each once.
LEMMA ReconnectKeeps == OneOffer /\ Reconnect => OneOffer'
<1> SUFFICES ASSUME OneOffer, Reconnect PROVE OneOffer'
  OBVIOUS
<1>1. /\ mode' = mode /\ disk' = disk /\ skips' = skips /\ unwritten' = unwritten /\ faults' = faults
      /\ cmIds' = cmIds /\ ask' = ask /\ toServer' = toServer /\ toClient' = toClient /\ ipc' = ipc
      /\ ui' = ui /\ saved' = saved /\ lost' = lost /\ up' = TRUE /\ ~up
  BY DEF Reconnect
<1>2. toServer = << >> /\ toClient = << >> /\ ipc = << >> /\ ask = {}
  BY <1>1 DEF OneOffer
<1>3. \A id \in Job : saved[id] \in 0..Len(Size)+1 /\ (saved[id] # 0 => saved[id] \in Num)
  <2>1. \A k \in 0..Len(Size)+1 : k # 0 => k \in Num
    BY Constants DEF Num
  <2> QED BY <2>1 DEF OneOffer, Typed
<1>4. Writers(wjobs') /\ \A x \in Job : x \in DOMAIN wjobs' => x \in DOMAIN wjobs \/ saved[x] # 0
  <2>1. CASE Upload
    BY <2>1 DEF Reconnect, OneOffer, Typed
  <2>2. CASE ~Upload
    <3>1. wjobs' = [id \in {x \in Job : saved[x] # 0} |-> new_write(saved[id], FALSE, TRUE)]
      BY <2>2 DEF Reconnect
    <3>2. \A id \in {x \in Job : saved[x] # 0} : new_write(saved[id], FALSE, TRUE) \in WriteJob
      BY <1>3, WriterTypes
    <3> QED BY <3>1, <3>2 DEF Writers
  <2> QED BY <2>1, <2>2
<1>5. Typed'
  BY <1>1, <1>4 DEF OneOffer, Typed
<1> DEFINE Loaded(id) == IF saved[id] # 0 THEN <<new_read(id, saved[id], TRUE)>> ELSE << >>
           L == [id \in 1..Cardinality(Job) |-> Loaded(id)]
           Q == FlattenSeq(L)
<1>6. /\ Q \in Seq(Reader) /\ \A x \in Job : Lone(Q, JobsOf(x))
      /\ \A k \in DOMAIN Q : Q[k].last /\ Q[k].id \in Job /\ saved[Q[k].id] # 0
  <2>1. Cardinality(Job) \in Nat /\ Job = 1..Cardinality(Job)
    BY Constants
  <2>2. ASSUME NEW id \in Job
        PROVE  /\ Loaded(id) \in Seq(Reader) /\ \A P : Lone(Loaded(id), P)
               /\ \A P : Has(Loaded(id), P) =>
                           \E j \in P : j.id = id /\ j.last /\ saved[id] # 0
    <3>1. CASE saved[id] = 0
      BY <3>1, EmptyHas
    <3>2. CASE saved[id] # 0
      <4> DEFINE j == new_read(id, saved[id], TRUE)
      <4>1. j \in Reader /\ j.id = id /\ j.last
        BY <1>3, <3>2, NewReader
      <4>2. Loaded(id) = <<j>>
        BY <3>2
      <4> HIDE DEF j, Loaded
      <4>3. <<j>> \in Seq(Reader)
        BY <4>1
      <4>4. \A P : Lone(<<j>>, P) /\ (Has(<<j>>, P) => j \in P)
        BY SingleHas
      <4>5. Loaded(id) \in Seq(Reader) /\ \A P : Lone(Loaded(id), P)
        BY <4>2, <4>3, <4>4
      <4>6. ASSUME NEW P, Has(Loaded(id), P)
            PROVE  \E k \in P : k.id = id /\ k.last /\ saved[id] # 0
        <5>1. j \in P
          BY <4>2, <4>4, <4>6
        <5> QED BY <3>2, <4>1, <5>1
      <4> QED BY <4>5, <4>6
    <3> QED BY <3>1, <3>2
  <2> HIDE DEF Loaded
  <2> DEFINE T == Seq(Reader)
  <2>3. L \in Seq(T) /\ DOMAIN L = Job /\ \A id \in Job : L[id] = Loaded(id)
    <3>1. L \in [1..Cardinality(Job) -> T]
      BY <2>1, <2>2
    <3>2. DOMAIN L = Job /\ \A id \in Job : L[id] = Loaded(id)
      BY <2>1
    <3> HIDE DEF T, L
    <3>3. L \in Seq(T)
      BY <2>1, <3>1, IsASeq
    <3> QED BY <3>2, <3>3
  <2> HIDE DEF L
  <2>4. Q \in Seq(Reader)
    BY <2>3, FlattenSeqType
  <2>5. ASSUME NEW x \in Job PROVE Lone(Q, JobsOf(x))
    <3> DEFINE P == JobsOf(x)
    <3>1. \A i \in DOMAIN L : Lone(L[i], P)
      BY <2>2, <2>3
    <3>2. \A i \in DOMAIN L : Has(L[i], P) => i = x
      BY <2>2, <2>3 DEF JobsOf
    <3> HIDE DEF P
    <3> QED BY <2>3, <3>1, <3>2, FlattenHas DEF P
  <2>6. ASSUME NEW k \in DOMAIN Q PROVE Q[k].last /\ Q[k].id \in Job /\ saved[Q[k].id] # 0
    <3> DEFINE y == Q[k]
               P == {y}
    <3>1. Has(Q, P)
      BY DEF Has
    <3> HIDE DEF y, P
    <3>2. PICK i \in DOMAIN L : Has(L[i], P)
      BY <2>3, <3>1, FlattenHas
    <3>3. PICK j \in P : j.id = i /\ j.last /\ saved[i] # 0
      BY <2>2, <2>3, <3>2
    <3>4. j = y
      BY DEF P
    <3> QED BY <2>3, <3>3, <3>4 DEF y
  <2> QED BY <2>4, <2>5, <2>6
<1>7. rjobs' = IF Upload THEN Q ELSE rjobs
  BY DEF Reconnect
<1> HIDE DEF Q
<1>8. rjobs' \in Seq(Reader) /\ \A x \in Job : Lone(rjobs', JobsOf(x))
  BY <1>6, <1>7, Readers
<1>9. Good(Upload, InCM, rjobs', toServer', toClient', ipc', ask')
  <2>1. Pipe(Upload, toServer', toClient', ipc', ask', rjobs')
    BY <1>1, <1>2, Nothing
  <2> QED BY <1>1, <1>8, <2>1 DEF Good, OneOffer
<1>10. Idle(Upload, rjobs', toServer', toClient', ipc', ask', wjobs', ui', saved')
  <2> SUFFICES ASSUME NEW x \in Job
               PROVE  /\ ui'[x] \in {"none", "paused"} =>
                           /\ Quiet(toServer', toClient', ipc', ask', x)
                           /\ \A i \in DOMAIN rjobs' : rjobs'[i].id = x =>
                                Upload /\ ui'[x] = "paused" /\ rjobs'[i].last
                      /\ ui'[x] = "none" => saved'[x] = 0 /\ x \notin DOMAIN wjobs'
                      /\ ui'[x] = "paused" => saved'[x] # 0
    BY DEF Idle
  <2>1. /\ ui[x] \in {"none", "paused"} =>
             /\ Quiet(toServer, toClient, ipc, ask, x)
             /\ \A i \in DOMAIN rjobs : rjobs[i].id = x => Upload /\ ui[x] = "paused" /\ rjobs[i].last
        /\ ui[x] = "none" => saved[x] = 0 /\ x \notin DOMAIN wjobs
        /\ ui[x] = "paused" => saved[x] # 0
    BY DEF OneOffer, Idle
  <2>2. ui[x] \in {"none", "paused"} =>
          \A i \in DOMAIN rjobs' : rjobs'[i].id = x => Upload /\ ui[x] = "paused" /\ rjobs'[i].last
    BY <1>6, <1>7, <2>1
  <2> QED BY <1>1, <1>4, <2>1, <2>2
<1> QED BY <1>1, <1>5, <1>9, <1>10, Together

-----------------------------------------------------------------------------
(* A tick of the file timer.                                               *)

Sent == {m \in Message : Sound(m) /\ m.t \in FromReader}

\* Job j becomes k: if an offer of it may be on its way, k still waits for it.
Turned(j, k) ==
  /\ k \in Reader /\ k.id = j.id /\ (k.last <=> j.last)
  /\ j.waiting /\ ~j.confirmed => Alike(k, j)

\* What a job says when its file is opened or cannot be opened.
LEMMA InitMsgs ==
  ASSUME NEW j \in Reader
  PROVE  /\ MustOpen(j) => /\ InitMsg(j, TRUE) \in Sent /\ InitMsg(j, TRUE).id = j.id
                           /\ InitMsg(j, TRUE).t = "error" /\ ~j.last
         /\ SendsDigest(j) => /\ InitMsg(j, FALSE) \in Sent /\ InitMsg(j, FALSE).id = j.id
                              /\ InitMsg(j, FALSE).num = j.num /\ ~j.last
<1>1. j.id \in Job /\ j.num \in Num /\ File \subseteq Num
  BY Constants DEF Reader, ReadJob, Num
<1>2. ASSUME MustOpen(j)
      PROVE  /\ InitMsg(j, TRUE) \in Sent /\ InitMsg(j, TRUE).id = j.id
             /\ InitMsg(j, TRUE).t = "error" /\ ~j.last
  <2>1. j.num + 1 \in Num /\ ~j.last
    BY <1>2, Constants DEF MustOpen
  <2> DEFINE m == Msg("error", j.id, j.num + 1, 0)
  <2>2. InitMsg(j, TRUE) = m
    BY DEF InitMsg
  <2>4. m \in Message /\ m.id = j.id /\ m.t = "error"
    BY <1>1, <2>1, MsgType
  <2> HIDE DEF InitMsg, m
  <2>3. /\ InitMsg(j, TRUE) \in Message /\ InitMsg(j, TRUE).id = j.id
        /\ InitMsg(j, TRUE).t = "error"
    BY <2>2, <2>4
  <2> QED BY <2>1, <2>3 DEF Sent, Sound, FromReader
<1>3. ASSUME SendsDigest(j)
      PROVE  /\ InitMsg(j, FALSE) \in Sent /\ InitMsg(j, FALSE).id = j.id
             /\ InitMsg(j, FALSE).num = j.num /\ ~j.last
  <2>1. j.num \in File /\ ~j.last
    BY <1>3, InitReader
  <2> DEFINE r == IF j.resume THEN 1 ELSE 0
             m == Msg("digest", j.id, j.num, r)
  <2>2. InitMsg(j, FALSE) = m /\ r \in Int
    BY DEF InitMsg
  <2> HIDE DEF r
  <2>4. m \in Message /\ m.id = j.id /\ m.t = "digest" /\ m.num = j.num
    BY <1>1, <2>2, MsgType
  <2> HIDE DEF InitMsg, m
  <2>3. /\ InitMsg(j, FALSE) \in Message /\ InitMsg(j, FALSE).id = j.id
        /\ InitMsg(j, FALSE).t = "digest" /\ InitMsg(j, FALSE).num = j.num
    BY <2>2, <2>4
  <2> QED BY <2>1, <2>3 DEF Sent, Sound, FromReader
<1> QED BY <1>2, <1>3

\* A job is read from: one that waits for a confirmation is left alone.
LEMMA OutcomeSteps ==
  ASSUME NEW j \in Reader, NEW fails \in BOOLEAN, fails => j.confirmed
  PROVE  /\ Turned(j, Outcome(j, fails).job)
         /\ j.waiting /\ ~j.confirmed => Outcome(j, fails).job = j /\ ~Outcome(j, fails).fin
         /\ j.confirmed \/ Outcome(j, fails).job = j
         /\ \/ Outcome(j, fails).out = << >>
            \/ \E m \in Sent : /\ m.id = j.id /\ m.t # "digest"
                               /\ Outcome(j, fails).out = <<m>>
<1>1. j.id \in Job /\ j.num \in Num
  BY DEF Reader, ReadJob, Num
<1>2. Turned(j, j)
  BY DEF Turned, Alike
<1>3. CASE j.confirmed
  <2>1. j.num \in File /\ j.waiting /\ j.num + 1 \in Num /\ j.pos \in Nat
    BY <1>3, Constants DEF Reader, ReadJob
  <2>2. CASE fails
    <3> DEFINE m == Msg("error", j.id, j.num + 1, 0)
    <3>1. Outcome(j, fails).job = NextFile(j) /\ Outcome(j, fails).out = <<m>>
      BY <1>3, <2>2 DEF Outcome
    <3>2. m \in Message /\ m.id = j.id /\ m.t = "error"
      BY <1>1, <2>1, MsgType
    <3> HIDE DEF m
    <3>3. m \in Sent
      BY <3>2 DEF Sent, Sound, FromReader
    <3>4. Turned(j, NextFile(j))
      BY <1>3, <2>1, NextReader DEF Turned
    <3> QED BY <1>3, <3>1, <3>2, <3>3, <3>4
  <2>3. CASE ~fails
    <3> DEFINE b == IF AtEof(j) THEN Eof ELSE j.pos + 1
               m == Msg("block", j.id, j.num, b)
    <3>1. Outcome(j, fails).job = read(j) /\ Outcome(j, fails).out = <<m>>
      BY <1>3, <2>3 DEF Outcome
    <3>2. b \in {Eof} \cup Block /\ b \in Int
      BY <1>3, <2>1, ReadReader, Constants DEF Eof
    <3> HIDE DEF b
    <3>3. m \in Message /\ m.id = j.id /\ m.t = "block" /\ m.n = b /\ m.num = j.num
      BY <1>1, <3>2, MsgType
    <3> HIDE DEF m
    <3>4. m \in Sent
      BY <2>1, <3>2, <3>3 DEF Sent, Sound, FromReader
    <3>5. Turned(j, read(j))
      BY <1>3, ReadReader DEF Turned
    <3> QED BY <1>3, <3>1, <3>3, <3>4, <3>5
  <2> QED BY <2>2, <2>3
<1>4. CASE ~j.confirmed
  <2>1. CASE job_completed(j)
    <3> DEFINE t == IF job_skipped(j) THEN "skipped" ELSE "done"
               m == Msg(t, j.id, j.num, 0)
    <3>1. Outcome(j, fails).job = j /\ Outcome(j, fails).out = <<m>>
      BY <1>4, <2>1 DEF Outcome
    <3>2. t \in {"skipped", "done"}
      OBVIOUS
    <3> HIDE DEF t
    <3>3. m \in Message /\ m.id = j.id /\ m.t = t
      BY <1>1, <3>2, MsgType
    <3> HIDE DEF m
    <3>4. m \in Sent
      BY <3>2, <3>3 DEF Sent, Sound, FromReader
    <3>5. ~j.waiting
      BY <1>4, <2>1 DEF job_completed
    <3> QED BY <1>2, <3>1, <3>2, <3>3, <3>4, <3>5
  <2>2. CASE ~job_completed(j)
    <3>1. Outcome(j, fails).job = j /\ Outcome(j, fails).out = << >> /\ ~Outcome(j, fails).fin
      BY <1>4, <2>2 DEF Outcome
    <3> QED BY <1>2, <3>1
  <2> QED BY <2>1, <2>2
<1> QED BY <1>3, <1>4

\* Initialised and read from.
LEMMA InitTurned ==
  ASSUME NEW j \in Reader
  PROVE  /\ Turned(j, init_data_stream(j)) /\ (MustOpen(j) => Turned(j, NextFile(j)))
         /\ \A k : Turned(init_data_stream(j), k) => Turned(j, k)
         /\ \A k : MustOpen(j) /\ Turned(NextFile(j), k) => Turned(j, k)
<1>1. /\ Turned(j, init_data_stream(j))
      /\ \A k : Turned(init_data_stream(j), k) => Turned(j, k)
  <2>1. CASE SendsDigest(j)
    BY <2>1, InitReader DEF Turned
  <2>2. CASE ~SendsDigest(j)
    BY <2>2, InitReader DEF Turned, Alike
  <2> QED BY <2>1, <2>2
<1>2. ASSUME MustOpen(j)
      PROVE  Turned(j, NextFile(j)) /\ \A k : Turned(NextFile(j), k) => Turned(j, k)
  <2>1. j.num \in File /\ ~j.waiting
    BY <1>2 DEF MustOpen, Reader
  <2> QED BY <2>1, NextReader DEF Turned
<1> QED BY <1>1, <1>2

\* Stream r is q with b behind it.
Joins(q, r, b) ==
  \A P : /\ Has(r, P) <=> Has(q, P) \/ Has(b, P)
         /\ Lone(q, P) /\ Lone(b, P) /\ ~(Has(q, P) /\ Has(b, P)) => Lone(r, P)

\* Messages are put behind those of a stream.
LEMMA Joining ==
  ASSUME NEW T, NEW q \in Seq(T), NEW b \in Seq(T)
  PROVE  q \o b \in Seq(T) /\ Joins(q, q \o b, b)
<1>1. q \o b \in Seq(T)
  BY ConcatProperties
<1> QED BY <1>1, ConcatHas DEF Joins

\* Jobs Q offer files in b, at most one each, where no other is on offer.
Offers(u, S, C, I, A, Q, b) ==
  /\ \A id \in Job : /\ Lone(b, OfferI(id))
                     /\ Has(b, OfferI(id)) => None(u, S, C, I, A, id)
  /\ \A k \in DOMAIN Q : ~Has(b, Wrong(OfferI(Q[k].id), Q[k]))

\* A tick of the client, on an upload.
LEMMA OfferedToS ==
  ASSUME NEW S, NEW C, NEW I, NEW A, NEW Q, NEW b, NEW SS,
         Pipe(TRUE, S, C, I, A, Q), Offers(TRUE, S, C, I, A, Q, b), Joins(S, SS, b)
  PROVE  /\ Pipe(TRUE, SS, C, I, A, Q)
         /\ \A x : ~Has(b, About(x)) => (Quiet(S, C, I, A, x) => Quiet(SS, C, I, A, x))
<1>1. \A id : OfferS(TRUE, id) = OfferI(id)
  BY DEF OfferS, OfferI
<1>2. ASSUME NEW id \in Job PROVE One(TRUE, SS, C, I, A, id)
  <2>1. /\ One(TRUE, S, C, I, A, id) /\ Lone(b, OfferI(id))
        /\ Has(b, OfferI(id)) => None(TRUE, S, C, I, A, id)
    BY DEF Pipe, Offers
  <2>2. CASE Has(b, OfferI(id))
    BY <1>1, <2>1, <2>2 DEF One, None, Joins
  <2>3. CASE ~Has(b, OfferI(id))
    BY <1>1, <2>1, <2>3 DEF One, Joins
  <2> QED BY <2>2, <2>3
<1>3. ASSUME NEW k \in DOMAIN Q PROVE Right(TRUE, SS, C, I, A, Q[k])
  <2>1. Right(TRUE, S, C, I, A, Q[k]) /\ ~Has(b, Wrong(OfferI(Q[k].id), Q[k]))
    BY DEF Pipe, Offers
  <2> QED BY <1>1, <2>1 DEF Right, Joins
<1>4. \A x : ~Has(b, About(x)) => (Quiet(S, C, I, A, x) => Quiet(SS, C, I, A, x))
  BY DEF Quiet, Joins
<1> QED BY <1>2, <1>3, <1>4 DEF Pipe

\* A tick of the connection, on a download that it reads itself.
LEMMA OfferedToC ==
  ASSUME NEW S, NEW C, NEW I, NEW A, NEW Q, NEW b, NEW CC,
         Pipe(FALSE, S, C, I, A, Q), Offers(FALSE, S, C, I, A, Q, b), Joins(C, CC, b)
  PROVE  /\ Pipe(FALSE, S, CC, I, A, Q)
         /\ \A x : ~Has(b, About(x)) => (Quiet(S, C, I, A, x) => Quiet(S, CC, I, A, x))
<1>1. \A id : OfferC(FALSE, id) = OfferI(id)
  BY DEF OfferC, OfferI
<1>2. ASSUME NEW id \in Job PROVE One(FALSE, S, CC, I, A, id)
  <2>1. /\ One(FALSE, S, C, I, A, id) /\ Lone(b, OfferI(id))
        /\ Has(b, OfferI(id)) => None(FALSE, S, C, I, A, id)
    BY DEF Pipe, Offers
  <2>2. CASE Has(b, OfferI(id))
    BY <1>1, <2>1, <2>2 DEF One, None, Joins
  <2>3. CASE ~Has(b, OfferI(id))
    BY <1>1, <2>1, <2>3 DEF One, Joins
  <2> QED BY <2>2, <2>3
<1>3. ASSUME NEW k \in DOMAIN Q PROVE Right(FALSE, S, CC, I, A, Q[k])
  <2>1. Right(FALSE, S, C, I, A, Q[k]) /\ ~Has(b, Wrong(OfferI(Q[k].id), Q[k]))
    BY DEF Pipe, Offers
  <2> QED BY <1>1, <2>1 DEF Right, Joins
<1>4. \A x : ~Has(b, About(x)) => (Quiet(S, C, I, A, x) => Quiet(S, CC, I, A, x))
  BY DEF Quiet, Joins
<1> QED BY <1>2, <1>3, <1>4 DEF Pipe

\* A tick of the manager, on a download that it reads.
LEMMA OfferedToI ==
  ASSUME NEW u, NEW S, NEW C, NEW I, NEW A, NEW Q, NEW b, NEW II,
         Pipe(u, S, C, I, A, Q), Offers(u, S, C, I, A, Q, b), Joins(I, II, b)
  PROVE  /\ Pipe(u, S, C, II, A, Q)
         /\ \A x : ~Has(b, About(x)) => (Quiet(S, C, I, A, x) => Quiet(S, C, II, A, x))
<1>2. ASSUME NEW id \in Job PROVE One(u, S, C, II, A, id)
  <2>1. /\ One(u, S, C, I, A, id) /\ Lone(b, OfferI(id))
        /\ Has(b, OfferI(id)) => None(u, S, C, I, A, id)
    BY DEF Pipe, Offers
  <2>2. CASE Has(b, OfferI(id))
    BY <2>1, <2>2 DEF One, None, Joins
  <2>3. CASE ~Has(b, OfferI(id))
    BY <2>1, <2>3 DEF One, Joins
  <2> QED BY <2>2, <2>3
<1>3. ASSUME NEW k \in DOMAIN Q PROVE Right(u, S, C, II, A, Q[k])
  <2>1. Right(u, S, C, I, A, Q[k]) /\ ~Has(b, Wrong(OfferI(Q[k].id), Q[k]))
    BY DEF Pipe, Offers
  <2> QED BY <2>1 DEF Right, Joins
<1>4. \A x : ~Has(b, About(x)) => (Quiet(S, C, I, A, x) => Quiet(S, C, II, A, x))
  BY DEF Quiet, Joins
<1> QED BY <1>2, <1>3, <1>4 DEF Pipe

\* What a tick does to jobs R and what it sends.
Tick(R, Q, b) ==
  /\ Q \in Seq(Reader) /\ \A id \in Job : Lone(Q, JobsOf(id))
  /\ \A k \in DOMAIN Q : \E i \in DOMAIN R : Turned(R[i], Q[k])
  /\ b \in Seq(Sent)
  /\ \A id \in Job : /\ Lone(b, OfferI(id))
                     /\ Has(b, OfferI(id)) => \E i \in DOMAIN R : R[i].id = id /\ ~R[i].waiting
                     /\ Has(b, About(id)) => \E i \in DOMAIN R : R[i].id = id /\ (Upload => ~R[i].last)
  /\ \A k \in DOMAIN Q : ~Has(b, Wrong(OfferI(Q[k].id), Q[k]))

\* A tick keeps the invariant.
LEMMA TickKeeps ==
  ASSUME OneOffer, NEW b, Tick(rjobs, rjobs', b), Send(b), up, faults' \in 0..MaxFaults,
         UNCHANGED <<mode, cmIds, wjobs, disk, ask, ui, saved, skips, unwritten, up, lost>>
  PROVE  OneOffer'
<1> DEFINE S == toServer
           C == toClient
           I == ipc
           A == ask
           Q == rjobs'
<1>1. Typed' /\ up' /\ mode' = mode /\ ask' = ask /\ wjobs' = wjobs /\ ui' = ui /\ saved' = saved
  BY DEF OneOffer, Typed
<1>2. /\ Pipe(Upload, S, C, I, A, rjobs) /\ S \in Seq(ToServer(Upload))
      /\ C \in Seq(ToClient(Upload)) /\ I \in Seq(Told(InCM))
      /\ Idle(Upload, rjobs, S, C, I, A, wjobs, ui, saved)
  BY DEF OneOffer, Good
<1>3. /\ Q \in Seq(Reader) /\ \A id \in Job : Lone(Q, JobsOf(id))
      /\ \A k \in DOMAIN Q : \E i \in DOMAIN rjobs : Turned(rjobs[i], Q[k])
      /\ b \in Seq(Sent)
  BY DEF Tick
<1>4. \A i \in DOMAIN rjobs : Right(Upload, S, C, I, A, rjobs[i])
  BY <1>2 DEF Pipe
<1>5. Pipe(Upload, S, C, I, A, Q)
  <2>1. ASSUME NEW k \in DOMAIN Q
        PROVE  \/ \E i \in DOMAIN rjobs : Alike(Q[k], rjobs[i])
               \/ None(Upload, S, C, I, A, Q[k].id)
    <3>1. PICK i \in DOMAIN rjobs : Turned(rjobs[i], Q[k])
      BY <1>3
    <3>2. CASE rjobs[i].waiting /\ ~rjobs[i].confirmed
      BY <3>1, <3>2 DEF Turned
    <3>3. CASE ~(rjobs[i].waiting /\ ~rjobs[i].confirmed)
      <4>1. None(Upload, S, C, I, A, rjobs[i].id)
        BY <1>4, <3>3, NoneIsOne
      <4> QED BY <3>1, <4>1 DEF Turned
    <3> QED BY <3>2, <3>3
  <2> QED BY <1>2, <2>1, ReadersChange
<1>6. Offers(Upload, S, C, I, A, Q, b)
  <2>1. ASSUME NEW id \in Job, Has(b, OfferI(id)) PROVE None(Upload, S, C, I, A, id)
    <3>1. PICK i \in DOMAIN rjobs : rjobs[i].id = id /\ ~rjobs[i].waiting
      BY <2>1 DEF Tick
    <3>2. None(Upload, S, C, I, A, rjobs[i].id)
      BY <1>4, <3>1, NoneIsOne
    <3> QED BY <3>1, <3>2
  <2> QED BY <2>1 DEF Offers, Tick
<1>7. /\ S' \in Seq(ToServer(Upload)) /\ C' \in Seq(ToClient(Upload)) /\ I' \in Seq(Told(InCM))
      /\ Pipe(Upload, S', C', I', A, Q)
      /\ \A x : ~Has(b, About(x)) => (Quiet(S, C, I, A, x) => Quiet(S', C', I', A, x))
  <2>1. CASE Upload
    <3>1. S' = S \o b /\ C' = C /\ I' = I
      BY <2>1 DEF Send, Upload, InCM
    <3>2. Sent \subseteq ToServer(Upload)
      BY <2>1 DEF Sent, ToServer
    <3>3. b \in Seq(ToServer(Upload))
      BY <1>3, <3>2, SeqSubset
    <3>4. S' \in Seq(ToServer(Upload)) /\ Joins(S, S', b)
      BY <1>2, <3>1, <3>3, Joining
    <3>5. Upload = TRUE
      BY <2>1
    <3>6. /\ Pipe(Upload, S', C, I, A, Q)
          /\ \A x : ~Has(b, About(x)) => (Quiet(S, C, I, A, x) => Quiet(S', C, I, A, x))
      BY <1>5, <1>6, <3>4, <3>5, OfferedToS
    <3> QED BY <1>2, <3>1, <3>4, <3>6
  <2>2. CASE ~Upload /\ InCM
    <3>1. S' = S /\ C' = C /\ I' = I \o b
      BY <2>2 DEF Send, Upload, InCM
    <3>2. Sent \subseteq Told(InCM)
      BY <2>2 DEF Sent, Told
    <3>3. b \in Seq(Told(InCM))
      BY <1>3, <3>2, SeqSubset
    <3>4. I' \in Seq(Told(InCM)) /\ Joins(I, I', b)
      BY <1>2, <3>1, <3>3, Joining
    <3>6. /\ Pipe(Upload, S, C, I', A, Q)
          /\ \A x : ~Has(b, About(x)) => (Quiet(S, C, I, A, x) => Quiet(S, C, I', A, x))
      BY <1>5, <1>6, <3>4, OfferedToI
    <3> QED BY <1>2, <3>1, <3>4, <3>6
  <2>3. CASE ~Upload /\ ~InCM
    <3>1. S' = S /\ C' = C \o b /\ I' = I
      BY <2>3 DEF Send, Upload, InCM
    <3>2. Sent \subseteq ToClient(Upload)
      BY <2>3 DEF Sent, ToClient
    <3>3. b \in Seq(ToClient(Upload))
      BY <1>3, <3>2, SeqSubset
    <3>4. C' \in Seq(ToClient(Upload)) /\ Joins(C, C', b)
      BY <1>2, <3>1, <3>3, Joining
    <3>5. Upload = FALSE
      BY <2>3 DEF Upload
    <3>6. /\ Pipe(Upload, S, C', I, A, Q)
          /\ \A x : ~Has(b, About(x)) => (Quiet(S, C, I, A, x) => Quiet(S, C', I, A, x))
      BY <1>5, <1>6, <3>4, <3>5, OfferedToC
    <3> QED BY <1>2, <3>1, <3>4, <3>6
  <2> QED BY <2>1, <2>2, <2>3
<1>8. Good(Upload, InCM, Q, S', C', I', A)
  BY <1>3, <1>7 DEF Good
<1>9. Idle(Upload, Q, S', C', I', A, wjobs, ui, saved)
  <2>1. ASSUME NEW x \in Job, ui[x] \in {"none", "paused"}
        PROVE  /\ Quiet(S, C, I, A, x) => Quiet(S', C', I', A, x)
               /\ \A k \in DOMAIN Q : Q[k].id = x =>
                    \E i \in DOMAIN rjobs : rjobs[i].id = x /\ (rjobs[i].last => Q[k].last)
    <3>1. \A i \in DOMAIN rjobs : rjobs[i].id = x => Upload /\ rjobs[i].last
      BY <1>2, <2>1 DEF Idle
    <3>2. ~Has(b, About(x))
      BY <3>1 DEF Tick
    <3>3. \A k \in DOMAIN Q : Q[k].id = x =>
             \E i \in DOMAIN rjobs : rjobs[i].id = x /\ (rjobs[i].last => Q[k].last)
      BY <1>3 DEF Turned
    <3> QED BY <1>7, <3>2, <3>3
  <2> HIDE DEF S, C, I, A, Q
  <2> QED BY <1>2, <2>1, IdleKept
<1> QED BY <1>1, <1>8, <1>9, Together

\* There is a first job among those that are not of the last session.
LEMMA FirstJob ==
  ASSUME OneOffer, \E i \in DOMAIN rjobs : ~rjobs[i].last
  PROVE  First \in DOMAIN rjobs /\ ~rjobs[First].last
<1> DEFINE P == {i \in DOMAIN rjobs : ~rjobs[i].last}
<1>1. DOMAIN rjobs = 1..Len(rjobs) /\ Len(rjobs) \in Nat
  BY Readers
<1>2. P # {} /\ P \subseteq Nat
  BY <1>1
<1>3. PICK n \in P : \A k \in P : n <= k
  BY <1>2, LeastElement
<1>4. ASSUME NEW k \in 1..n-1 PROVE rjobs[k].last
  <2>1. k \in DOMAIN rjobs /\ k < n /\ k \in Int /\ n \in Int
    BY <1>1, <1>3
  <2> QED BY <1>3, <2>1
<1>5. \E i \in DOMAIN rjobs : ~rjobs[i].last /\ \A k \in 1..i-1 : rjobs[k].last
  BY <1>3, <1>4
<1> QED BY <1>5 DEF First

\* handle_read_jobs: every job may offer a file, the first one is read from.
LEMMA HandleReadJobs ==
  ASSUME OneOffer, \E i \in DOMAIN rjobs : ~rjobs[i].last, NEW fails \in BOOLEAN,
         NEW Fail \in SUBSET {i \in DOMAIN rjobs : MustOpen(rjobs[i])},
         handle_read_jobs(Fail, fails)
  PROVE  \E b : Tick(rjobs, rjobs', b) /\ Send(b)
<1> DEFINE R == rjobs
           js == [i \in DOMAIN R |-> IF i \in Fail THEN NextFile(R[i]) ELSE init_data_stream(R[i])]
           tells == [i \in DOMAIN R |-> IF i \in Fail \/ SendsDigest(R[i])
                                          THEN <<InitMsg(R[i], i \in Fail)>> ELSE << >>]
           F == First
           o == Outcome(js[F], fails)
           done == [js EXCEPT ![F] = o.job]
           told == FlattenSeq(tells)
           b == told \o o.out
<1>1. /\ fails => js[F].confirmed
      /\ rjobs' = IF o.fin THEN remove_job(o.job.id, done) ELSE done
      /\ Send(b)
  BY DEF handle_read_jobs
<1>2. F \in DOMAIN R /\ ~R[F].last
  BY FirstJob
<1>3. /\ R \in Seq(Reader) /\ \A x \in Job : Lone(R, JobsOf(x))
      /\ DOMAIN R = 1..Len(R) /\ Len(R) \in Nat
      /\ \A i \in DOMAIN R : R[i] \in Reader /\ R[i].id \in Job
  BY Readers
<1>4. \A i \in Fail : i \in DOMAIN R /\ MustOpen(R[i])
  OBVIOUS
<1>5. \A i, k \in DOMAIN R : R[i].id = R[k].id => i = k
  BY <1>3, Unique
<1>6. ASSUME NEW i \in DOMAIN R
      PROVE  /\ Turned(R[i], js[i]) /\ (\A k : Turned(js[i], k) => Turned(R[i], k))
             /\ i \notin Fail /\ SendsDigest(R[i]) => At(js[i], R[i].num) /\ ~R[i].waiting
  <2>1. CASE i \in Fail
    <3>1. js[i] = NextFile(R[i])
      BY <2>1
    <3> HIDE DEF js
    <3> QED BY <1>3, <1>4, <2>1, <3>1, InitTurned
  <2>2. CASE i \notin Fail
    <3>1. js[i] = init_data_stream(R[i])
      BY <2>2
    <3> HIDE DEF js
    <3> QED BY <1>3, <3>1, InitTurned, InitReader
  <2> QED BY <2>1, <2>2
<1>7. js = [i \in DOMAIN R |-> js[i]] /\ DOMAIN js = DOMAIN R
  OBVIOUS
<1> HIDE DEF js
<1>8. /\ Turned(js[F], o.job)
      /\ js[F].waiting /\ ~js[F].confirmed => o.job = js[F] /\ ~o.fin
      /\ \/ o.out = << >>
         \/ \E m \in Sent : m.id = R[F].id /\ m.t # "digest" /\ o.out = <<m>>
  <2>1. js[F] \in Reader /\ js[F].id = R[F].id
    BY <1>2, <1>6 DEF Turned
  <2> QED BY <1>1, <2>1, OutcomeSteps
<1> HIDE DEF o
<1>9. /\ done = [i \in DOMAIN R |-> done[i]] /\ DOMAIN done = DOMAIN R
      /\ done[F] = o.job /\ \A i \in DOMAIN R : i # F => done[i] = js[i]
  BY <1>2, <1>7
<1>10. ASSUME NEW i \in DOMAIN R
       PROVE  /\ Turned(R[i], done[i])
              /\ i \notin Fail /\ SendsDigest(R[i]) =>
                   /\ At(done[i], R[i].num) /\ ~R[i].waiting
                   /\ i = F => ~o.fin
  <2>1. CASE i = F
    <3>1. Turned(R[i], done[i])
      BY <1>6, <1>8, <1>9, <2>1
    <3>2. ASSUME i \notin Fail, SendsDigest(R[i])
          PROVE  At(done[i], R[i].num) /\ ~R[i].waiting /\ ~o.fin
      <4>1. At(js[i], R[i].num) /\ ~R[i].waiting
        BY <1>6, <3>2
      <4>2. o.job = js[i] /\ ~o.fin
        BY <1>8, <2>1, <4>1 DEF At
      <4> QED BY <1>9, <2>1, <4>1, <4>2
    <3> HIDE DEF done
    <3> QED BY <3>1, <3>2
  <2>2. CASE i # F
    <3>1. done[i] = js[i]
      BY <1>9, <2>2
    <3> HIDE DEF done
    <3> QED BY <1>6, <2>2, <3>1
  <2> QED BY <2>1, <2>2
<1> HIDE DEF done
<1>11. done \in Seq(Reader) /\ \A id \in Job : Lone(done, JobsOf(id))
  <2>1. \A i \in DOMAIN R : done[i] \in Reader /\ done[i].id = R[i].id
    BY <1>10 DEF Turned
  <2> QED BY <1>3, <1>9, <2>1, Mapped
<1> DEFINE Q == rjobs'
<1>12. /\ Q \in Seq(Reader) /\ \A id \in Job : Lone(Q, JobsOf(id))
       /\ \A k \in DOMAIN Q : \E i \in DOMAIN R : Q[k] = done[i] /\ (o.fin => i # F)
  <2>1. CASE o.fin
    <3>1. Q = remove_job(o.job.id, done)
      BY <1>1, <2>1
    <3>2. o.job.id \in Job
      BY <1>8 DEF Turned, Reader, ReadJob
    <3>3. /\ Q \in Seq(Reader) /\ \A id \in Job : Lone(Q, JobsOf(id))
          /\ \A k \in DOMAIN Q : (\E i \in DOMAIN done : Q[k] = done[i]) /\ Q[k].id # o.job.id
      BY <1>11, <3>1, <3>2, Removed
    <3> QED BY <1>9, <3>3
  <2>2. CASE ~o.fin
    <3>1. Q = done
      BY <1>1, <2>2
    <3> QED BY <1>9, <1>11, <2>2, <3>1
  <2> QED BY <2>1, <2>2
<1> HIDE DEF Q
\* What is sent.
<1> DEFINE From(i, m) == /\ m.id = R[i].id /\ ~R[i].last
                         /\ m.t # "error" => /\ i \notin Fail /\ SendsDigest(R[i])
                                             /\ m.num = R[i].num
<1>13. ASSUME NEW i \in DOMAIN R
       PROVE  /\ tells[i] \in Seq(Sent) /\ \A P : Lone(tells[i], P)
              /\ \A P : Has(tells[i], P) => \E m \in P : From(i, m)
  <2>1. CASE i \in Fail
    <3> DEFINE m == InitMsg(R[i], TRUE)
    <3>1. m \in Sent /\ m.id = R[i].id /\ m.t = "error" /\ ~R[i].last
      BY <1>3, <1>4, <2>1, InitMsgs
    <3>2. tells[i] = <<m>>
      <4>1. (i \in Fail) = TRUE
        BY <2>1
      <4> QED BY <2>1, <4>1
    <3> HIDE DEF m, tells
    <3>3. <<m>> \in Seq(Sent) /\ \A P : Lone(<<m>>, P) /\ (Has(<<m>>, P) => m \in P)
      BY <3>1, SingleHas
    <3>4. ASSUME NEW P, Has(tells[i], P) PROVE m \in P
      BY <3>2, <3>3, <3>4
    <3>5. tells[i] \in Seq(Sent) /\ \A P : Lone(tells[i], P)
      BY <3>2, <3>3
    <3>6. From(i, m)
      BY <3>1
    <3> HIDE DEF From
    <3> QED BY <3>4, <3>5, <3>6
  <2>2. CASE i \notin Fail /\ SendsDigest(R[i])
    <3> DEFINE m == InitMsg(R[i], FALSE)
    <3>1. m \in Sent /\ m.id = R[i].id /\ m.num = R[i].num /\ ~R[i].last
      BY <1>3, <2>2, InitMsgs
    <3>2. tells[i] = <<m>>
      <4>1. (i \in Fail) = FALSE
        BY <2>2
      <4> QED BY <2>2, <4>1
    <3> HIDE DEF m, tells
    <3>3. <<m>> \in Seq(Sent) /\ \A P : Lone(<<m>>, P) /\ (Has(<<m>>, P) => m \in P)
      BY <3>1, SingleHas
    <3>4. ASSUME NEW P, Has(tells[i], P) PROVE m \in P
      BY <3>2, <3>3, <3>4
    <3>5. tells[i] \in Seq(Sent) /\ \A P : Lone(tells[i], P)
      BY <3>2, <3>3
    <3>6. From(i, m)
      BY <2>2, <3>1
    <3> HIDE DEF From
    <3> QED BY <3>4, <3>5, <3>6
  <2>3. CASE i \notin Fail /\ ~SendsDigest(R[i])
    <3>1. tells[i] = << >>
      BY <2>3
    <3> HIDE DEF tells
    <3> QED BY <3>1, EmptyHas
  <2> QED BY <2>1, <2>2, <2>3
<1>14. tells \in Seq(Seq(Sent)) /\ DOMAIN tells = DOMAIN R
  <2> DEFINE T == Seq(Sent)
  <2>1. tells \in [1..Len(R) -> T] /\ DOMAIN tells = DOMAIN R
    BY <1>3, <1>13
  <2> HIDE DEF T, tells
  <2>2. tells \in Seq(T)
    BY <1>3, <2>1, IsASeq
  <2> QED BY <2>1, <2>2 DEF T
<1> HIDE DEF tells
<1>15. told \in Seq(Sent) /\ \A P : Has(told, P) => \E i \in DOMAIN R : Has(tells[i], P)
  BY <1>14, FlattenSeqType, FlattenHas
<1>16. ASSUME NEW id \in Job PROVE Lone(told, OfferI(id))
  <2> DEFINE P == OfferI(id)
  <2>1. \A i \in DOMAIN tells : Lone(tells[i], P)
    BY <1>13, <1>14
  <2>2. \A i \in DOMAIN R : Has(tells[i], P) => R[i].id = id
    <3>1. \A m \in P : m.id = id
      BY DEF OfferI, About
    <3> HIDE DEF P
    <3>2. ASSUME NEW i \in DOMAIN R, Has(tells[i], P) PROVE R[i].id = id
      <4>1. PICK m \in P : From(i, m)
        <5> HIDE DEF From
        <5> QED BY <1>13, <3>2
      <4> QED BY <3>1, <4>1
    <3> QED BY <3>2
  <2>3. \A i, k \in DOMAIN tells : Has(tells[i], P) /\ Has(tells[k], P) => i = k
    BY <1>5, <1>14, <2>2
  <2> HIDE DEF P
  <2> QED BY <1>14, <2>1, <2>3, FlattenHas DEF P
<1> HIDE DEF told
<1>23. ASSUME NEW P, Has(told, P) PROVE \E i \in DOMAIN R : \E m \in P : From(i, m)
  <2>1. PICK i \in DOMAIN R : Has(tells[i], P)
    BY <1>15, <1>23
  <2> HIDE DEF From
  <2> QED BY <1>13, <2>1
<1>17. /\ o.out \in Seq(Sent)
       /\ \A P : Has(o.out, P) => \E m \in P : m.id = R[F].id /\ m.t # "digest"
  <2>1. CASE o.out = << >>
    BY <2>1, EmptyHas
  <2>2. ASSUME NEW m \in Sent, m.id = R[F].id, m.t # "digest", o.out = <<m>>
        PROVE  /\ o.out \in Seq(Sent)
               /\ \A P : Has(o.out, P) => \E k \in P : k.id = R[F].id /\ k.t # "digest"
    <3>1. <<m>> \in Seq(Sent) /\ \A P : Has(<<m>>, P) => m \in P
      BY SingleHas
    <3> QED BY <2>2, <3>1
  <2> QED BY <1>8, <2>1, <2>2
<1>18. /\ b \in Seq(Sent)
       /\ \A P : Has(b, P) <=> Has(told, P) \/ Has(o.out, P)
       /\ \A id \in Job : ~Has(o.out, OfferI(id)) /\ Lone(b, OfferI(id))
  <2>1. \A id \in Job : ~Has(o.out, OfferI(id))
    BY <1>17 DEF OfferI
  <2>2. \A id \in Job : Lone(o.out, OfferI(id))
    BY <2>1 DEF Has, Lone
  <2>3. b \in Seq(Sent) /\ Joins(told, b, o.out)
    BY <1>15, <1>17, Joining
  <2> HIDE DEF b
  <2> QED BY <1>16, <2>1, <2>2, <2>3 DEF Joins
<1> HIDE DEF b
\* A file that is on offer is one that its job waits at.
<1>19. ASSUME NEW P, Has(b, P), \A m \in P : m.t = "digest"
       PROVE  \E i \in DOMAIN R, m \in P : /\ m.id = R[i].id /\ m.num = R[i].num
                                           /\ i \notin Fail /\ SendsDigest(R[i])
  <2>1. ~Has(o.out, P)
    BY <1>17, <1>19
  <2>2. Has(told, P)
    BY <1>18, <1>19, <2>1
  <2>3. PICK i \in DOMAIN R : \E m \in P : From(i, m)
    <3> HIDE DEF From
    <3> QED BY <1>23, <2>2
  <2> QED BY <1>19, <2>3
<1>20. ASSUME NEW id \in Job
       PROVE  /\ Has(b, OfferI(id)) => \E i \in DOMAIN R : R[i].id = id /\ ~R[i].waiting
              /\ Has(b, About(id)) => \E i \in DOMAIN R : R[i].id = id /\ (Upload => ~R[i].last)
  <2>1. ASSUME Has(b, OfferI(id)) PROVE \E i \in DOMAIN R : R[i].id = id /\ ~R[i].waiting
    <3>1. \A m \in OfferI(id) : m.t = "digest" /\ m.id = id
      BY DEF OfferI, About
    <3>2. PICK i \in DOMAIN R, m \in OfferI(id) : m.id = R[i].id /\ i \notin Fail /\ SendsDigest(R[i])
      BY <1>19, <2>1, <3>1
    <3> QED BY <1>10, <3>1, <3>2
  <2>2. ASSUME Has(b, About(id)) PROVE \E i \in DOMAIN R : R[i].id = id /\ ~R[i].last
    <3>1. \A m \in About(id) : m.id = id
      BY DEF About
    <3>2. CASE Has(told, About(id))
      <4>1. PICK i \in DOMAIN R : \E m \in About(id) : From(i, m)
        <5> HIDE DEF From
        <5> QED BY <1>23, <3>2
      <4> QED BY <3>1, <4>1
    <3>3. CASE Has(o.out, About(id))
      BY <1>2, <1>17, <3>1, <3>3
    <3> QED BY <1>18, <2>2, <3>2, <3>3
  <2> QED BY <2>1, <2>2
<1>21. ASSUME NEW k \in DOMAIN Q PROVE ~Has(b, Wrong(OfferI(Q[k].id), Q[k]))
  <2> DEFINE P == Wrong(OfferI(Q[k].id), Q[k])
  <2> SUFFICES ASSUME Has(b, P) PROVE FALSE
    OBVIOUS
  <2>1. \A m \in P : m.t = "digest" /\ m.id = Q[k].id /\ ~At(Q[k], m.num)
    BY DEF Wrong, OfferI, About
  <2> HIDE DEF P
  <2>2. PICK i \in DOMAIN R, m \in P : /\ m.id = R[i].id /\ m.num = R[i].num
                                       /\ i \notin Fail /\ SendsDigest(R[i])
    BY <1>19, <2>1
  <2>3. PICK n \in DOMAIN R : Q[k] = done[n]
    BY <1>12
  <2>4. R[n].id = R[i].id
    BY <1>10, <2>1, <2>2, <2>3 DEF Turned
  <2>5. n = i
    BY <1>5, <2>4
  <2> QED BY <1>10, <2>1, <2>2, <2>3, <2>5
<1>22. \A k \in DOMAIN Q : \E i \in DOMAIN R : Turned(R[i], Q[k])
  BY <1>10, <1>12
<1> QED BY <1>1, <1>12, <1>18, <1>20, <1>21, <1>22 DEF Tick, Q

\* The jobs from position d on, which may have changed.
LEMMA Shifted ==
  ASSUME NEW R \in Seq(Reader), \A x \in Job : Lone(R, JobsOf(x)), NEW Q \in Seq(Reader), NEW d \in Nat,
         \A k \in DOMAIN Q : k + d \in DOMAIN R /\ Q[k].id = R[k + d].id
  PROVE  \A x \in Job : Lone(Q, JobsOf(x))
<1>1. \A i, k \in DOMAIN R : R[i].id = R[k].id => i = k
  BY Unique
<1>2. DOMAIN Q = 1..Len(Q) /\ Len(Q) \in Nat
  BY LenProperties
<1>3. \A i, k \in DOMAIN Q : Q[i].id = Q[k].id => i + d = k + d
  BY <1>1
<1>4. \A i, k \in DOMAIN Q : Q[i].id = Q[k].id => i = k
  BY <1>2, <1>3
<1> QED BY <1>4 DEF Lone, JobsOf

\* The jobs behind those that could not open their file.
LEMMA Behind ==
  ASSUME NEW R \in Seq(Reader), NEW n \in 0..Len(R) - 1, NEW j \in Reader
  PROVE  LET rest == SubSeq(R, n + 2, Len(R))
             whole == <<j>> \o rest
         IN  /\ rest \in Seq(Reader) /\ whole \in Seq(Reader)
             /\ \A k \in DOMAIN rest : k + (n + 1) \in DOMAIN R /\ rest[k] = R[k + (n + 1)] /\ k + (n + 1) # n + 1
             /\ whole[1] = j
             /\ \A k \in DOMAIN whole : k + n \in DOMAIN R /\ (k = 1 \/ whole[k] = R[k + n])
<1> DEFINE rest == SubSeq(R, n + 2, Len(R))
           whole == <<j>> \o rest
<1> DEFINE L == Len(R)
<1>1. /\ L \in Nat /\ DOMAIN R = 1..L /\ n \in Nat /\ n + 1 <= L
      /\ \A i \in 1..L : R[i] \in Reader
  BY LenProperties, ElementOfSeq
<1>2. /\ rest \in Seq(Reader) /\ DOMAIN rest = 1..L - (n + 1)
      /\ \A k \in 1..L - (n + 1) : rest[k] = R[k + (n + 1)]
  <2> DEFINE m == n + 2
  <2>1. m \in Int /\ L \in Int /\ \A i \in m..L : R[i] \in Reader
    BY <1>1
  <2>2. rest = SubSeq(R, m, L)
    OBVIOUS
  <2> HIDE DEF m, L
  <2>3. /\ rest \in Seq(Reader) /\ Len(rest) = IF m <= L THEN L - m + 1 ELSE 0
        /\ \A k \in 1..L - m + 1 : rest[k] = R[m + k - 1]
    BY <2>1, <2>2, SubSeqProperties
  <2> HIDE DEF rest
  <2>4. Len(rest) = L - (n + 1) /\ L - m + 1 = L - (n + 1)
    BY <1>1, <2>3 DEF m
  <2>5. DOMAIN rest = 1..L - (n + 1)
    BY <2>3, <2>4, LenProperties
  <2>6. ASSUME NEW k \in 1..L - (n + 1) PROVE rest[k] = R[k + (n + 1)]
    <3>1. m + k - 1 = k + (n + 1)
      BY <1>1 DEF m
    <3> QED BY <2>3, <2>4, <3>1
  <2> QED BY <2>3, <2>5, <2>6
<1> HIDE DEF rest, L
<1>3. ASSUME NEW k \in DOMAIN rest
      PROVE  k + (n + 1) \in DOMAIN R /\ rest[k] = R[k + (n + 1)] /\ k + (n + 1) # n + 1
  <2>1. k \in 1..L - (n + 1)
    BY <1>2
  <2>2. k + (n + 1) \in 1..L /\ k + (n + 1) # n + 1
    BY <1>1, <2>1
  <2> QED BY <1>1, <1>2, <2>1, <2>2
<1>4. /\ whole \in Seq(Reader) /\ DOMAIN whole = 1..L - n
      /\ whole[1] = j /\ \A k \in 1..L - n : k > 1 => whole[k] = rest[k - 1]
  <2> DEFINE one == <<j>>
  <2>1. one \in Seq(Reader) /\ Len(one) = 1 /\ one[1] = j
    OBVIOUS
  <2> HIDE DEF one
  <2>2. /\ one \o rest \in Seq(Reader) /\ Len(one \o rest) = Len(one) + Len(rest)
        /\ \A k \in 1..Len(one) + Len(rest) :
             (one \o rest)[k] = IF k <= Len(one) THEN one[k] ELSE rest[k - Len(one)]
    BY <1>2, <2>1, ConcatProperties
  <2>3. Len(rest) = L - (n + 1)
    BY <1>1, <1>2, LenProperties
  <2>4. Len(one) + Len(rest) = L - n /\ L - n >= 1
    BY <1>1, <2>1, <2>3
  <2>5. whole = one \o rest
    BY DEF one
  <2> HIDE DEF whole
  <2>6. whole \in Seq(Reader) /\ DOMAIN whole = 1..L - n
    BY <2>2, <2>4, <2>5, LenProperties
  <2>7. ASSUME NEW k \in 1..L - n
        PROVE  whole[k] = IF k <= 1 THEN one[k] ELSE rest[k - 1]
    BY <2>1, <2>2, <2>4, <2>5
  <2>8. 1 \in 1..L - n
    BY <1>1, <2>4
  <2>9. ASSUME NEW k \in 1..L - n, k > 1 PROVE whole[k] = rest[k - 1]
    BY <1>1, <2>7, <2>9
  <2> QED BY <2>1, <2>6, <2>7, <2>8, <2>9
<1> HIDE DEF whole
<1>5. ASSUME NEW k \in DOMAIN whole PROVE k + n \in DOMAIN R /\ (k = 1 \/ whole[k] = R[k + n])
  <2>1. k \in 1..L - n
    BY <1>4
  <2>2. k + n \in DOMAIN R
    BY <1>1, <2>1
  <2>3. CASE k > 1
    <3>1. k - 1 \in 1..L - (n + 1) /\ (k - 1) + (n + 1) = k + n
      BY <1>1, <2>1, <2>3
    <3>2. whole[k] = rest[k - 1]
      BY <1>4, <2>1, <2>3
    <3>3. rest[k - 1] = R[(k - 1) + (n + 1)]
      BY <1>2, <3>1
    <3> QED BY <2>2, <3>1, <3>2, <3>3
  <2>4. k = 1 \/ k > 1
    BY <1>1, <2>1
  <2> QED BY <2>2, <2>3, <2>4
<1> QED BY <1>2, <1>3, <1>4, <1>5 DEF rest, whole

\* handle_read_jobs_tick: jobs that cannot open their file are dropped, and
\* the next one is looked at.
LEMMA HandleReadJobsTick ==
  ASSUME OneOffer, InCM, NEW fails \in BOOLEAN, NEW n \in 0..Len(rjobs),
         handle_read_jobs_tick(n, fails)
  PROVE  \E b : Tick(rjobs, rjobs', b) /\ Send(b)
<1> DEFINE R == rjobs
           Q == rjobs'
           errs == [i \in 1..n |-> InitMsg(R[i], TRUE)]
<1>1. /\ R \in Seq(Reader) /\ \A x \in Job : Lone(R, JobsOf(x))
      /\ DOMAIN R = 1..Len(R) /\ Len(R) \in Nat
      /\ \A i \in DOMAIN R : R[i] \in Reader /\ R[i].id \in Job
  BY Readers
<1>2. ~Upload
  BY DEF InCM, Upload
<1>3. \A i \in 1..n : i \in DOMAIN R /\ MustOpen(R[i])
  <2>1. \A i \in 1..n : MustOpen(R[i])
    BY DEF handle_read_jobs_tick
  <2>2. 1..n \subseteq DOMAIN R
    BY <1>1
  <2> QED BY <2>1, <2>2
<1>4. /\ errs \in Seq(Sent)
      /\ \A P : Has(errs, P) => \E m \in P : \E i \in DOMAIN R : m.id = R[i].id /\ m.t = "error"
  <2>1. \A i \in 1..n : /\ i \in DOMAIN R /\ errs[i] \in Sent /\ errs[i].id = R[i].id
                        /\ errs[i].t = "error"
    BY <1>1, <1>3, InitMsgs
  <2>2. errs \in [1..n -> Sent] /\ DOMAIN errs = 1..n
    BY <2>1
  <2>4. n \in Nat
    BY <1>1
  <2> HIDE DEF errs
  <2>3. errs \in Seq(Sent)
    BY <2>2, <2>4, IsASeq
  <2> QED BY <2>1, <2>2, <2>3 DEF Has
<1>5. ASSUME NEW id PROVE ~Has(errs, OfferI(id))
  <2>1. \A m \in OfferI(id) : m.t # "error"
    BY DEF OfferI
  <2> HIDE DEF errs
  <2> QED BY <1>4, <2>1
<1>6. CASE n = Len(rjobs)
  <2>1. Q = << >> /\ Send(errs)
    BY <1>6 DEF handle_read_jobs_tick
  <2> HIDE DEF errs, Q
  <2>2. \A id \in Job : Lone(errs, OfferI(id))
    BY <1>5 DEF Has, Lone
  <2>3. \A id \in Job : Has(errs, About(id)) => \E i \in DOMAIN R : R[i].id = id
    BY <1>4 DEF About
  <2>4. << >> \in Seq(Reader) /\ \A id \in Job : Lone(<< >>, JobsOf(id))
    BY EmptyHas
  <2>5. Tick(R, Q, errs)
    BY <1>2, <1>4, <1>5, <2>1, <2>2, <2>3, <2>4 DEF Tick
  <2> QED BY <2>1, <2>5 DEF Q
<1>7. CASE n # Len(rjobs)
  <2> DEFINE p == n + 1
             j == R[p]
             s == init_data_stream(j)
             o == Outcome(s, fails)
             rest == SubSeq(R, n + 2, Len(R))
             d == IF SendsDigest(j) THEN <<InitMsg(j, FALSE)>> ELSE << >>
             b == (errs \o d) \o o.out
  <2>1. /\ fails => s.confirmed
        /\ Q = IF o.fin THEN rest ELSE <<o.job>> \o rest
        /\ Send(b)
    BY <1>7 DEF handle_read_jobs_tick
  <2>2. n \in 0..Len(R) - 1 /\ p \in DOMAIN R /\ j \in Reader /\ n \in Nat
    <3> DEFINE L == Len(R)
    <3>1. L \in Nat /\ DOMAIN R = 1..L /\ \A i \in DOMAIN R : R[i] \in Reader
      BY <1>1
    <3>2. n \in 0..L /\ n # L
      BY <1>7
    <3> HIDE DEF L
    <3>3. n \in Nat /\ n < L
      BY <3>1, <3>2
    <3>4. n \in 0..L - 1 /\ p \in 1..L
      BY <3>1, <3>3
    <3> HIDE DEF p
    <3>5. p \in DOMAIN R
      BY <3>1, <3>4
    <3>6. R[p] \in Reader
      BY <3>1, <3>5
    <3> QED BY <3>3, <3>4, <3>5, <3>6 DEF L
  <2> HIDE DEF p
  <2>3. /\ s \in Reader /\ s.id = j.id /\ Turned(j, s) /\ (\A k : Turned(s, k) => Turned(j, k))
        /\ SendsDigest(j) => At(s, j.num) /\ ~j.waiting
    BY <2>2, InitReader, InitTurned
  <2> HIDE DEF s
  <2>4. /\ Turned(s, o.job)
        /\ s.waiting /\ ~s.confirmed => o.job = s /\ ~o.fin
        /\ \/ o.out = << >>
           \/ \E m \in Sent : m.id = j.id /\ m.t # "digest" /\ o.out = <<m>>
    BY <2>1, <2>3, OutcomeSteps
  <2> HIDE DEF o
  <2>5. Turned(j, o.job) /\ o.job \in Reader
    BY <2>3, <2>4 DEF Turned
  <2>6. SendsDigest(j) => At(o.job, j.num) /\ ~j.waiting /\ ~o.fin
    BY <2>3, <2>4 DEF At
  <2> DEFINE Gives(k, i) == /\ i \in DOMAIN R
                            /\ (i = p /\ Q[k] = o.job /\ ~o.fin) \/ (i # p /\ Q[k] = R[i])
  <2>7. /\ Q \in Seq(Reader) /\ \A x \in Job : Lone(Q, JobsOf(x))
        /\ \A k \in DOMAIN Q : \E i : Gives(k, i)
    <3> DEFINE whole == <<o.job>> \o rest
    <3>1. /\ rest \in Seq(Reader) /\ whole \in Seq(Reader)
          /\ \A k \in DOMAIN rest : k + (n + 1) \in DOMAIN R /\ rest[k] = R[k + (n + 1)] /\ k + (n + 1) # n + 1
          /\ whole[1] = o.job
          /\ \A k \in DOMAIN whole : k + n \in DOMAIN R /\ (k = 1 \/ whole[k] = R[k + n])
      BY <1>1, <2>2, <2>5, Behind
    <3>2. CASE o.fin
      <4>1. Q = rest
        BY <2>1, <3>2
      <4> HIDE DEF rest, Q, whole
      <4>2. n + 1 \in Nat /\ \A k \in DOMAIN rest : k + (n + 1) \in DOMAIN R /\ rest[k].id = R[k + (n + 1)].id
        BY <2>2, <3>1
      <4>3. \A x \in Job : Lone(rest, JobsOf(x))
        BY <1>1, <3>1, <4>2, Shifted
      <4>4. \A k \in DOMAIN Q : Gives(k, k + (n + 1))
        BY <3>1, <4>1 DEF p
      <4> HIDE DEF Gives
      <4> QED BY <3>1, <4>1, <4>3, <4>4
    <3>3. CASE ~o.fin
      <4>1. Q = whole
        BY <2>1, <3>3
      <4>0. DOMAIN whole = 1..Len(whole) /\ Len(whole) \in Nat
        BY <3>1, LenProperties
      <4> HIDE DEF rest, Q, whole
      <4>2. ASSUME NEW k \in DOMAIN whole
            PROVE  k + n \in DOMAIN R /\ whole[k].id = R[k + n].id /\ Gives(k, k + n)
        <5>1. k + n \in DOMAIN R /\ k \in Nat /\ (k = 1 <=> k + n = p)
          BY <2>2, <3>1, <4>0 DEF p
        <5>2. CASE k = 1
          <6>1. k + n = p /\ whole[k] = o.job /\ o.job.id = R[k + n].id
            BY <2>5, <3>1, <5>1, <5>2 DEF Turned
          <6> QED BY <3>3, <4>1, <5>1, <6>1
        <5>3. CASE k # 1
          <6>1. k + n # p /\ whole[k] = R[k + n]
            BY <3>1, <5>1, <5>3
          <6> QED BY <4>1, <5>1, <6>1
        <5> QED BY <5>2, <5>3
      <4>3. \A x \in Job : Lone(whole, JobsOf(x))
        <5> HIDE DEF Gives
        <5> QED BY <1>1, <2>2, <3>1, <4>2, Shifted
      <4> HIDE DEF Gives
      <4> QED BY <3>1, <4>1, <4>2, <4>3
    <3> QED BY <3>2, <3>3
  <2> HIDE DEF Q
  \* What is sent.
  <2>8. /\ d \in Seq(Sent) /\ \A P : Lone(d, P)
        /\ \A P : Has(d, P) => \E m \in P : m.id = j.id /\ m.num = j.num /\ SendsDigest(j)
    <3>1. CASE SendsDigest(j)
      <4> DEFINE m == InitMsg(j, FALSE)
      <4>1. d = <<m>>
        BY <3>1
      <4>2. m \in Sent /\ m.id = j.id /\ m.num = j.num
        BY <2>2, <3>1, InitMsgs
      <4> HIDE DEF m, d, j
      <4>3. <<m>> \in Seq(Sent) /\ \A P : Lone(<<m>>, P) /\ (Has(<<m>>, P) => m \in P)
        BY <4>2, SingleHas
      <4>4. ASSUME NEW P, Has(d, P) PROVE m \in P
        BY <4>1, <4>3, <4>4
      <4>5. d \in Seq(Sent) /\ \A P : Lone(d, P)
        BY <4>1, <4>3
      <4> QED BY <3>1, <4>2, <4>4, <4>5
    <3>2. CASE ~SendsDigest(j)
      BY <3>2, EmptyHas
    <3> QED BY <3>1, <3>2
  <2> HIDE DEF d
  <2>9. /\ o.out \in Seq(Sent)
        /\ \A P : Has(o.out, P) => \E m \in P : m.id = j.id /\ m.t # "digest"
    <3>1. CASE o.out = << >>
      BY <3>1, EmptyHas
    <3>2. ASSUME NEW m \in Sent, m.id = j.id, m.t # "digest", o.out = <<m>>
          PROVE  /\ o.out \in Seq(Sent)
                 /\ \A P : Has(o.out, P) => \E k \in P : k.id = j.id /\ k.t # "digest"
      <4>1. <<m>> \in Seq(Sent) /\ \A P : Has(<<m>>, P) => m \in P
        BY SingleHas
      <4> QED BY <3>2, <4>1
    <3> QED BY <2>4, <3>1, <3>2
  <2>10. /\ b \in Seq(Sent) /\ \A P : Has(b, P) <=> Has(errs, P) \/ Has(d, P) \/ Has(o.out, P)
         /\ \A id \in Job : Lone(b, OfferI(id)) /\ (Has(b, OfferI(id)) <=> Has(d, OfferI(id)))
    <3> DEFINE e == errs \o d
    <3> HIDE DEF errs
    <3>1. e \in Seq(Sent) /\ Joins(errs, e, d)
      BY <1>4, <2>8, Joining
    <3> HIDE DEF e
    <3>2. e \o o.out \in Seq(Sent) /\ Joins(e, e \o o.out, o.out)
      BY <2>9, <3>1, Joining
    <3>3. b = e \o o.out
      BY DEF e
    <3> HIDE DEF b
    <3>4. \A P : Has(b, P) <=> Has(errs, P) \/ Has(d, P) \/ Has(o.out, P)
      BY <3>1, <3>2, <3>3 DEF Joins
    <3>5. \A id : ~Has(o.out, OfferI(id))
      BY <2>9 DEF OfferI
    <3>6. \A id : Lone(errs, OfferI(id)) /\ Lone(o.out, OfferI(id))
      BY <1>5, <3>5 DEF Has, Lone
    <3>7. \A id : Lone(e, OfferI(id))
      BY <1>5, <2>8, <3>1, <3>6 DEF Joins
    <3>8. \A id : Lone(b, OfferI(id))
      BY <3>2, <3>3, <3>5, <3>6, <3>7 DEF Joins
    <3> QED BY <1>5, <3>2, <3>3, <3>4, <3>5, <3>8
  <2> HIDE DEF b, errs, j
  <2>11. ASSUME NEW id \in Job
         PROVE  /\ Has(b, OfferI(id)) => \E i \in DOMAIN R : R[i].id = id /\ ~R[i].waiting
                /\ Has(b, About(id)) => \E i \in DOMAIN R : R[i].id = id
    <3>1. ASSUME Has(b, OfferI(id)) PROVE j.id = id /\ ~j.waiting
      <4>1. Has(d, OfferI(id))
        BY <2>10, <3>1
      <4>2. \A m \in OfferI(id) : m.id = id
        BY DEF OfferI, About
      <4> QED BY <2>6, <2>8, <4>1, <4>2
    <3>2. ASSUME Has(b, About(id)) PROVE \E i \in DOMAIN R : R[i].id = id
      <4>1. \A m \in About(id) : m.id = id
        BY DEF About
      <4>2. CASE Has(errs, About(id))
        BY <1>4, <4>1, <4>2
      <4>3. CASE Has(d, About(id)) \/ Has(o.out, About(id))
        <5>1. j.id = id
          BY <2>8, <2>9, <4>1, <4>3
        <5> QED BY <2>2, <5>1 DEF j
      <4> QED BY <2>10, <3>2, <4>2, <4>3
    <3> QED BY <2>2, <3>1, <3>2 DEF j
  <2>12. ASSUME NEW k \in DOMAIN Q PROVE ~Has(b, Wrong(OfferI(Q[k].id), Q[k]))
    <3> DEFINE P == Wrong(OfferI(Q[k].id), Q[k])
    <3> SUFFICES ASSUME Has(b, P) PROVE FALSE
      OBVIOUS
    <3>1. \A m \in P : m.t = "digest" /\ m.id = Q[k].id /\ ~At(Q[k], m.num)
      BY DEF Wrong, OfferI, About
    <3> HIDE DEF P
    <3>2. ~Has(errs, P) /\ ~Has(o.out, P)
      BY <1>4, <2>9, <3>1
    <3>3. PICK m \in P : m.id = j.id /\ m.num = j.num /\ SendsDigest(j)
      BY <2>8, <2>10, <3>2
    <3>4. PICK i : Gives(k, i)
      <4> HIDE DEF Gives
      <4> QED BY <2>7
    <3>5. CASE i = p
      BY <2>6, <3>1, <3>3, <3>4, <3>5
    <3>6. CASE i # p
      <4>1. i \in DOMAIN R /\ R[i].id = R[p].id
        BY <3>1, <3>3, <3>4, <3>6 DEF j
      <4> QED BY <1>1, <2>2, <3>6, <4>1, Unique
    <3> QED BY <3>5, <3>6
  <2>13. ASSUME NEW k \in DOMAIN Q PROVE \E i \in DOMAIN R : Turned(R[i], Q[k])
    <3>1. PICK i : Gives(k, i)
      <4> HIDE DEF Gives
      <4> QED BY <2>7
    <3>2. CASE i = p
      <4>1. Turned(R[p], Q[k])
        BY <2>5, <3>1, <3>2 DEF j
      <4> QED BY <2>2, <4>1
    <3>3. CASE i # p
      <4>1. Q[k] = R[i] /\ i \in DOMAIN R /\ R[i] \in Reader
        BY <1>1, <3>1, <3>3
      <4>2. Turned(R[i], R[i])
        BY <4>1 DEF Turned, Alike
      <4> QED BY <4>1, <4>2
    <3> QED BY <3>2, <3>3
  <2>14. Tick(R, Q, b)
    BY <1>2, <2>7, <2>10, <2>11, <2>12, <2>13 DEF Tick
  <2> QED BY <2>1, <2>14 DEF Q
<1> QED BY <1>6, <1>7

\* A tick of the file timer, on whatever side.
LEMMA FileTimerKeeps == OneOffer /\ FileTimer => OneOffer'
<1> SUFFICES ASSUME OneOffer, FileTimer PROVE OneOffer'
  OBVIOUS
<1>1. /\ up /\ \E i \in DOMAIN rjobs : ~rjobs[i].last
      /\ UNCHANGED <<mode, cmIds, wjobs, disk, ask, ui, saved, skips, unwritten, up, lost>>
  BY DEF FileTimer
<1>2. PICK fails \in BOOLEAN, n \in 0..Len(rjobs) :
        /\ LET k == n + (IF fails THEN 1 ELSE 0)
           IN  IF k = 0 THEN UNCHANGED faults ELSE Fault(k)
        /\ IF InCM THEN handle_read_jobs_tick(n, fails)
           ELSE \E Fail \in SUBSET {i \in DOMAIN rjobs : MustOpen(rjobs[i])} :
                  Cardinality(Fail) = n /\ handle_read_jobs(Fail, fails)
  BY DEF FileTimer
<1>3. faults' \in 0..MaxFaults
  <2> DEFINE k == n + (IF fails THEN 1 ELSE 0)
  <2>1. n \in Nat
    BY Readers
  <2>2. k \in Nat /\ (faults' = faults \/ Fault(k))
    BY <1>2, <2>1
  <2> HIDE DEF k
  <2> QED BY <2>2, FaultType DEF OneOffer, Typed
<1>4. \E b : Tick(rjobs, rjobs', b) /\ Send(b)
  <2>1. CASE InCM
    BY <1>2, <2>1, HandleReadJobsTick
  <2>2. CASE ~InCM
    <3>1. PICK Fail \in SUBSET {i \in DOMAIN rjobs : MustOpen(rjobs[i])} :
            handle_read_jobs(Fail, fails)
      BY <1>2, <2>2
    <3> QED BY <1>1, <3>1, HandleReadJobs
  <2> QED BY <2>1, <2>2
<1> QED BY <1>1, <1>3, <1>4, TickKeeps

\* The invariant is inductive.
LEMMA OneOfferInductive ==
  /\ Init => OneOffer
  /\ OneOffer /\ [Next]_vars => OneOffer'
<1>1. Init => OneOffer
  <2>1. Job \subseteq Job /\ 0 \in 0..MaxLost
    BY TransferAssumption
  <2> QED BY <2>1, StartsFine DEF Init
<1>2. OneOffer /\ Next => OneOffer'
  BY CommandKeeps, FileTimerKeeps, ServerStepKeeps, FromCMKeeps, ClientStepKeeps,
     ConnectionLostKeeps, ReconnectKeeps DEF Next
<1>3. OneOffer /\ UNCHANGED vars => OneOffer'
  <2> SUFFICES ASSUME OneOffer, UNCHANGED vars PROVE OneOffer'
    OBVIOUS
  <2>1. /\ mode' = mode /\ rjobs' = rjobs /\ ipc' = ipc /\ cmIds' = cmIds /\ wjobs' = wjobs
        /\ disk' = disk /\ toServer' = toServer /\ toClient' = toClient /\ ask' = ask /\ ui' = ui
        /\ saved' = saved /\ skips' = skips /\ unwritten' = unwritten /\ up' = up
        /\ faults' = faults /\ lost' = lost
    BY DEF vars, sender
  <2>2. Upload' = Upload /\ InCM' = InCM
    BY <2>1 DEF Upload, InCM
  <2> QED BY <2>1, <2>2 DEF OneOffer, Typed
<1> QED BY <1>1, <1>2, <1>3

-----------------------------------------------------------------------------
(* Of the files of a job one is on offer at a time, at most, and it is the *)
(* one the job waits at: its digest on the way to the receiver, the        *)
(* receiver's question or an open dialog, or the confirmation on its way   *)
(* back (fs.rs, init_data_stream and confirm; connection.rs and io_loop.rs *)
(* between them), whatever is cancelled, skipped, resumed, lost or fails.  *)
THEOREM OneFileOnOffer == Spec => []OneOffer
BY OneOfferInductive, PTL DEF Spec

(* Jobs, messages and the receiver's disk have the types they are declared *)
(* with; in particular nothing is written that is not a block of a file,   *)
(* and no file after the last is started (fs.rs, read and write).          *)
THEOREM TypeCorrect == Spec => []TypeOK
<1>1. OneOffer => TypeOK
  BY OneOfferTypes
<1> QED BY <1>1, OneFileOnOffer, PTL

(* The confirmations that reach a job that is read are for the file it     *)
(* waits at (fs.rs, confirm; ui_cm_interface.rs, SendConfirmForRead).      *)
THEOREM ConfirmsReachTheirFile == Spec => []ConfirmsFit
<1>1. ASSUME OneOffer PROVE ConfirmsFit
  <2> DEFINE q == IF Upload THEN toClient ELSE toServer
  <2> SUFFICES ASSUME NEW k \in DOMAIN q, NEW i \in DOMAIN rjobs,
                      q[k].t = "confirm", q[k].id = rjobs[i].id
               PROVE  At(rjobs[i], q[k].num)
    BY DEF ConfirmsFit, At
  <2>1. Right(Upload, toServer, toClient, ipc, ask, rjobs[i])
    BY <1>1 DEF OneOffer, Good, Pipe
  <2>2. CASE Upload
    <3> DEFINE P == Wrong(OfferC(Upload, rjobs[i].id), rjobs[i])
    <3>1. q = toClient /\ toClient \in Seq(ToClient(Upload))
      BY <1>1, <2>2 DEF OneOffer, Good
    <3>2. toClient[k] \in Message
      BY <3>1, LenProperties, ElementOfSeq DEF ToClient
    <3>3. toClient[k] \notin P
      BY <2>1, <3>1 DEF Right, Has
    <3>4. toClient[k] \in OfferC(Upload, rjobs[i].id)
      BY <2>2, <3>1, <3>2 DEF OfferC, About
    <3> QED BY <3>1, <3>3, <3>4 DEF Wrong
  <2>3. CASE ~Upload
    <3> DEFINE P == Wrong(OfferS(Upload, rjobs[i].id), rjobs[i])
    <3>1. q = toServer /\ toServer \in Seq(ToServer(Upload))
      BY <1>1, <2>3 DEF OneOffer, Good
    <3>2. toServer[k] \in Message
      BY <3>1, LenProperties, ElementOfSeq DEF ToServer
    <3>3. toServer[k] \notin P
      BY <2>1, <3>1 DEF Right, Has
    <3>4. toServer[k] \in OfferS(Upload, rjobs[i].id)
      BY <2>3, <3>1, <3>2 DEF OfferS, About
    <3> QED BY <3>1, <3>3, <3>4 DEF Wrong
  <2> QED BY <2>2, <2>3
<1>2. OneOffer => ConfirmsFit
  BY <1>1
<1> QED BY <1>2, OneFileOnOffer, PTL

-----------------------------------------------------------------------------
(* What a cancelled job leaves.  OneOffer says nothing of the parts on the *)
(* disk: TidyInv adds whose they are, and which files were never sent.     *)

\* The messages of the three streams, whichever they are in.
Flying(S, C, I) == Range(S) \cup Range(C) \cup Range(I)
InFlight == Flying(toServer, toClient, ipc)

\* File f is still to be sent by reader j, or to be confirmed.
Before(j, f) == j.num < f \/ (j.num = f /\ ~j.confirmed)

\* The messages after or during which file f of a job is not sent: on an upload
\* those that skip it, on a download its offer and the start of the job.
Hold(u, id, f) ==
  {m \in About(id) :
     IF u THEN m.t = "skipped" \/ (m.t = "confirm" /\ m.num = f /\ m.n = Skip)
          ELSE m.t = "send" \/ (m.t = "digest" /\ m.num = f)}

\* A job of one file, which was skipped.
AllSkipped(j) == j.skipped /\ Len(Size) = 1

\* No block of file f of job id was sent: J are the readers, M the messages in
\* flight and A the open dialogs.
Unsent(u, J, M, A, id, f) ==
  \/ \E j \in J : j.id = id /\ (Before(j, f) \/ AllSkipped(j))
  \/ \E m \in M : m \in Hold(u, id, f)
  \/ ~u /\ <<id, f>> \in A

\* The blocks of file f of job id that are on their way.
Blocks(id, f) == {m \in About(id) : m.t = "block" /\ m.num = f}
\* What the disk d of a job holds of file f was there before (L), or belongs to
\* the file the writer is at.
Owned(L, W, d, id) ==
  \A f \in File : d[f].download =>
    f \in L \/ (id \in DOMAIN W /\ W[id].num = f /\ W[id].files)

\* A file of which nothing was sent has no part, other than one left over, and no
\* block on its way; a reader is past the files that were skipped; and a part
\* belongs to the writer.
Tidy(u, L, J, M, A, W, d, id) ==
  /\ \A f \in File : Unsent(u, J, M, A, id, f) =>
       (d[f].download => f \in L) /\ \A m \in M : m \notin Blocks(id, f)
  /\ \A j \in J : j.id = id => \A f \in File :
       AllSkipped(j) \/ (u /\ \E m \in M : m \in Hold(u, id, f)) => f < j.num
  /\ Owned(L, W, d, id)

\* The messages that start and that end the write job of an upload.
Starts(id) == {m \in About(id) : m.t = "receive"}
Cancels(id) == {m \in About(id) : m.t = "cancel"}

\* After every message of P in q there is one of Q.
Ahead(q, P, Q) == \A k \in DOMAIN q : q[k] \in P => \E l \in DOMAIN q : k < l /\ q[l] \in Q

\* The write job of an upload is started once; when the job was cancelled, there
\* is no write job, or the message that removes it is on its way, behind the one
\* that starts it.
Ends(u, S, W, s, id) ==
  /\ u => /\ Lone(S, Starts(id)) /\ (Has(S, Starts(id)) => id \notin DOMAIN W)
          /\ id \in DOMAIN W => W[id].files
  /\ s = "cancelled" => IF u THEN (id \in DOMAIN W => Has(S, Cancels(id))) /\ Ahead(S, Starts(id), Cancels(id))
                       ELSE id \notin DOMAIN W

\* A job that was not interrupted, met no fault and has not ended by itself.
Going == {"none", "running", "cancelled"}
Straight(x) ==
  /\ faults = 0 /\ saved[x] = 0 /\ lost =< 1 /\ (Upload => lost = 0)
  /\ ui[x] \in Going

\* Both, of job x.
TidyJob(u, L, R, S, C, I, A, W, D, w, x) ==
  /\ Tidy(u, L, Range(R), Flying(S, C, I), A, W, D[x], x)
  /\ Ends(u, S, W, w[x], x)

\* Nobody reports an error.
NoErrors == \A m \in InFlight : m.t # "error"

\* Without a connection there are no jobs; without a loss nothing was saved;
\* without a fault nobody reports one; and the jobs that Straight describes are
\* tidy.
TidyInv ==
  /\ OneOffer
  /\ ~up => wjobs = << >> /\ rjobs = << >>
  /\ lost = 0 => up /\ \A x \in Job : saved[x] = 0
  /\ faults = 0 => NoErrors
  /\ \A x \in Job : Straight(x) =>
       TidyJob(Upload, Leftover[mode], rjobs, toServer, toClient, ipc, ask, wjobs, disk, ui, x)

\* How a reader may change: it stays at its file or passes on, and a confirmed
\* file is not skipped.
Later(j, k) ==
  /\ j.num =< k.num
  /\ j.num = k.num /\ j.confirmed => k.confirmed
  /\ k.skipped => j.skipped \/ (~j.confirmed /\ j.num < k.num)

\* What a later reader has still to send, the earlier one had too.
LEMMA LaterUnsent ==
  ASSUME NEW j \in Reader, NEW k \in Reader, Later(j, k), NEW f \in File,
         Before(k, f) \/ AllSkipped(k)
  PROVE  Before(j, f) \/ AllSkipped(j)
<1>1. j.num \in Num /\ k.num \in Num /\ j.num \in Nat /\ k.num \in Nat /\ f \in Nat /\ Len(Size) \in Nat
  BY Constants DEF Reader, ReadJob, Num
<1>2. CASE Before(k, f)
  BY <1>1, <1>2 DEF Before, Later
<1>3. CASE AllSkipped(k) /\ ~j.skipped
  <2>1. f = 1 /\ j.num < k.num /\ k.num =< 2 /\ ~j.confirmed
    BY <1>1, <1>3, Constants DEF AllSkipped, Later, Num
  <2> QED BY <2>1, <1>1 DEF Before
<1> QED BY <1>2, <1>3 DEF AllSkipped

\* The readers of job id are those of before, further on, or start the job.
Fwd(u, J, M, A, K, id) ==
  \A k \in K : k.id = id =>
    \/ \E j \in J : j.id = id /\ Later(j, k)
    \/ ~u /\ ~k.skipped /\ \A f \in File : Unsent(u, J, M, A, id, f)

\* A step of a job keeps it tidy if its readers only move on, a new message
\* that holds a file back finds it unsent and its readers past it, a block is
\* sent of a file that nothing holds back, and the parts of files that were not
\* sent stay as they were.
LEMMA TidyStep ==
  ASSUME NEW u, NEW L, NEW J \in SUBSET Reader, NEW M, NEW A, NEW W, NEW d, NEW id,
         NEW K \in SUBSET Reader, NEW N, NEW B, NEW V, NEW e,
         Tidy(u, L, J, M, A, W, d, id),
         Fwd(u, J, M, A, K, id),
         \A m \in N : m.id = id => m \in M \/
           \A f \in File :
             /\ m \in Hold(u, id, f) => Unsent(u, J, M, A, id, f)
             /\ m \in Hold(u, id, f) => \A k \in K : u /\ k.id = id => f < k.num
             /\ m \in Blocks(id, f) => ~Unsent(u, K, N, B, id, f),
         ~u => \A f \in File : <<id, f>> \in B => Unsent(u, J, M, A, id, f),
         \A f \in File : Unsent(u, J, M, A, id, f) /\ e[f].download => f \in L \/ d[f].download,
         Owned(L, V, e, id)
  PROVE  Tidy(u, L, K, N, B, V, e, id)
<1>0. \A f \in File : Unsent(u, K, N, B, id, f) => Unsent(u, J, M, A, id, f)
  <2> SUFFICES ASSUME NEW f \in File, Unsent(u, K, N, B, id, f) PROVE Unsent(u, J, M, A, id, f)
    OBVIOUS
  <2>1. CASE \E k \in K : k.id = id /\ (Before(k, f) \/ AllSkipped(k))
    <3>1. PICK k \in K : k.id = id /\ (Before(k, f) \/ AllSkipped(k))
      BY <2>1
    <3>2. ASSUME NEW j \in J, j.id = id, Later(j, k) PROVE Unsent(u, J, M, A, id, f)
      BY <3>1, <3>2, LaterUnsent DEF Unsent
    <3> QED BY <3>1, <3>2 DEF Fwd
  <2>2. CASE \E m \in N : m \in Hold(u, id, f)
    <3>1. PICK m \in N : m \in Hold(u, id, f)
      BY <2>2
    <3>2. m.id = id
      BY <3>1 DEF Hold, About
    <3>3. CASE m \in M
      BY <3>1, <3>3 DEF Unsent
    <3> QED BY <3>1, <3>2, <3>3
  <2>3. CASE ~u /\ <<id, f>> \in B
    BY <2>3
  <2> QED BY <2>1, <2>2, <2>3 DEF Unsent
<1>1. ASSUME NEW f \in File, Unsent(u, K, N, B, id, f)
      PROVE  (e[f].download => f \in L) /\ \A m \in N : m \notin Blocks(id, f)
  <2>1. Unsent(u, J, M, A, id, f)
    BY <1>0, <1>1
  <2>2. (d[f].download => f \in L) /\ \A m \in M : m \notin Blocks(id, f)
    BY <2>1 DEF Tidy
  <2>3. \A m \in Blocks(id, f) : m.id = id
    BY DEF Blocks, About
  <2> QED BY <1>1, <2>1, <2>2, <2>3
<1>2. ASSUME NEW k \in K, k.id = id, NEW f \in File,
             AllSkipped(k) \/ (u /\ \E m \in N : m \in Hold(u, id, f))
      PROVE  f < k.num
  <2>0. (\E j \in J : j.id = id /\ Later(j, k)) \/ (~u /\ ~k.skipped)
    BY <1>2 DEF Fwd
  <2> SUFFICES ASSUME NEW j \in J, j.id = id /\ Later(j, k) PROVE f < k.num
    BY <2>0, <1>2 DEF AllSkipped
  <2>1. j.id = id /\ Later(j, k)
    OBVIOUS
  <2>2. j.num \in Num /\ k.num \in Num /\ j.num \in Nat /\ k.num \in Nat /\ f \in Nat /\ Len(Size) \in Nat
    BY Constants DEF Reader, ReadJob, Num
  <2>3. ASSUME f < j.num PROVE f < k.num
    BY <2>1, <2>2, <2>3 DEF Later
  <2>4. CASE AllSkipped(k)
    <3>1. CASE j.skipped
      <4>1. AllSkipped(j)
        BY <2>4, <3>1 DEF AllSkipped
      <4>2. f < j.num
        BY <2>1, <4>1 DEF Tidy
      <4> QED BY <4>2, <2>3
    <3>2. CASE ~j.skipped
      <4>1. j.num < k.num /\ f = 1 /\ j.num >= 1
        BY <2>1, <2>2, <2>4, <3>2, Constants DEF AllSkipped, Later, Num
      <4> QED BY <4>1, <2>2
    <3> QED BY <3>1, <3>2
  <2>5. CASE u /\ \E m \in N : m \in Hold(u, id, f)
    <3>1. PICK m \in N : m \in Hold(u, id, f)
      BY <2>5
    <3>2. m.id = id
      BY <3>1 DEF Hold, About
    <3>3. CASE m \in M
      <4>1. f < j.num
        BY <2>1, <2>5, <3>1, <3>3 DEF Tidy
      <4> QED BY <4>1, <2>3
    <3>4. CASE m \notin M
      BY <3>1, <3>2, <3>4, <1>2, <2>5
    <3> QED BY <3>3, <3>4
  <2> QED BY <2>4, <2>5, <1>2
<1> QED BY <1>1, <1>2 DEF Tidy

\* A reader that stays as it is.
LEMMA SameLater ==
  ASSUME NEW j \in Reader
  PROVE  Later(j, j)
BY Constants DEF Later, Reader, ReadJob, Num

\* The parts on the disk were there before.
Clean(L, d) == \A f \in File : d[f].download => f \in L

\* Cancelling removes the part the writer is at, finishing renames it (fs.rs,
\* remove_download_file and modify_time): no other is left.
LEMMA PartRemoved ==
  ASSUME NEW L, NEW W, NEW d \in Disk, NEW id \in DOMAIN W, W[id] \in WriteJob, Owned(L, W, d, id)
  PROVE  /\ Clean(L, remove_download_file(W[id], d)) /\ Clean(L, modify_time(W[id], d))
         /\ \A f \in File : remove_download_file(W[id], d)[f].download => d[f].download
         /\ \A f \in File : modify_time(W[id], d)[f].download => d[f].download
<1> DEFINE j == W[id]
<1>1. \A f \in File : d[f].download => f \in L \/ (j.num = f /\ j.files)
  BY DEF Owned
<1>2. \A f \in File : d[f] \in Entry
  BY DEF Disk
<1> HIDE DEF j
<1>3. \A f \in File : remove_download_file(j, d)[f].download =>
        d[f].download /\ ~(j.num = f /\ j.files)
  BY <1>2 DEF remove_download_file, Disk, Entry
<1>4. \A f \in File : modify_time(j, d)[f].download =>
        d[f].download /\ ~(j.num = f /\ j.files)
  BY <1>2 DEF modify_time, Disk, Entry
<1> QED BY <1>1, <1>3, <1>4 DEF Clean, j

\* Writing a block (fs.rs, write) finishes the file the writer was at when it
\* is another's block, so what is left is the part of the block's file.
LEMMA PartWritten ==
  ASSUME NEW L, NEW W, NEW d \in Disk, NEW id \in DOMAIN W, W[id] \in WriteJob, W[id].files,
         Owned(L, W, d, id), NEW num \in File, NEW b \in {Eof} \cup Block,
         NEW V, id \in DOMAIN V, V[id] = write(W[id], num)
  PROVE  /\ Owned(L, V, Written(W[id], num, b, d), id)
         /\ \A f \in File : f # num /\ Written(W[id], num, b, d)[f].download => d[f].download
         /\ V[id].files
<1> DEFINE j == W[id]
           s == Started(j, num, d)
           e == Written(j, num, b, d)
<1>0. j \in WriteJob /\ j.files /\ (\A f \in File : d[f].download => f \in L \/ j.num = f)
  BY DEF Owned
<1>1. V[id].num = num /\ V[id].files
  BY <1>0 DEF write, WriteJob
<1>2. s \in Disk /\ e \in Disk
  BY DiskTypes
<1> HIDE DEF j
<1>5. \A f \in File : f # num /\ s[f].download => d[f].download /\ j.num # f
  <2>1. CASE ~StartsFile(j, num)
    BY <2>1 DEF Started, StartsFile
  <2>2. CASE StartsFile(j, num)
    <3> DEFINE g == modify_time(j, d)
    <3>1. g \in Disk
      BY <1>0, DiskTypes
    <3>2. \A f \in File : g[f].download => d[f].download /\ j.num # f
      BY <1>0 DEF modify_time, Disk, Entry
    <3>3. s = [g EXCEPT ![num] = [@ EXCEPT !.download = TRUE, !.part = << >>, !.digest = TRUE]]
      BY <2>2 DEF Started
    <3> HIDE DEF g, s
    <3>4. \A f \in File : f # num => s[f] = g[f]
      BY <3>1, <3>3 DEF Disk
    <3> QED BY <3>2, <3>4
  <2> QED BY <2>1, <2>2
<1> HIDE DEF s
<1>6. \A f \in File : f # num => e[f] = s[f]
  BY <1>2 DEF Written, s, Disk
<1> HIDE DEF e
<1>7. \A f \in File : f # num /\ e[f].download => d[f].download /\ j.num # f
  BY <1>5, <1>6
<1>8. Owned(L, V, e, id)
  BY <1>0, <1>1, <1>7 DEF Owned
<1> QED BY <1>1, <1>7, <1>8 DEF e, j

\* A confirmation (fs.rs, confirm) moves the writer past a file it skips, of
\* which it has no part of its own.
LEMMA PartConfirmed ==
  ASSUME NEW L, NEW W, NEW d, NEW id \in DOMAIN W, W[id] \in WriteJob,
         Owned(L, W, d, id), NEW num \in File, NEW n \in {Skip} \cup Nat, NEW c,
         n = Skip => (d[num].download => num \in L),
         NEW V, id \in DOMAIN V, V[id].num = confirm_write(W[id], num, n, c).num,
         V[id].files = confirm_write(W[id], num, n, c).files
  PROVE  Owned(L, V, d, id) /\ (W[id].files => V[id].files)
<1> DEFINE j == W[id]
           k == confirm_write(j, num, n, c)
<1>1. j \in WriteJob /\ (\A f \in File : d[f].download => f \in L \/ (j.num = f /\ j.files))
  BY DEF Owned
<1> HIDE DEF j
<1>2. k.files = j.files
  BY <1>1 DEF confirm_write, WriteJob
<1>3. k.num = j.num \/ (n = Skip /\ j.num = num)
  BY <1>1 DEF confirm_write, WriteJob
<1>4. V[id].num = k.num /\ V[id].files = k.files
  BY DEF j
<1> HIDE DEF k
<1>5. Owned(L, V, d, id)
  BY <1>1, <1>2, <1>3, <1>4 DEF Owned
<1> QED BY <1>2, <1>4, <1>5 DEF j

\* The writer stays at its file.
LEMMA OwnedSame ==
  ASSUME NEW L, NEW W, NEW V, NEW d, NEW id, Owned(L, W, d, id),
         id \in DOMAIN W => /\ id \in DOMAIN V /\ V[id].num = W[id].num
                            /\ W[id].files => V[id].files
  PROVE  Owned(L, V, d, id)
BY DEF Owned

\* Without a writer nobody owns a part.
LEMMA CleanOwned ==
  ASSUME NEW L, NEW d
  PROVE  /\ Clean(L, d) => \A W, id : Owned(L, W, d, id)
         /\ \A W, id : id \notin DOMAIN W /\ Owned(L, W, d, id) => Clean(L, d)
BY DEF Clean, Owned

\* The server takes a message: the start of a write job, its cancellation or
\* another.
LEMMA EndsTake ==
  ASSUME NEW u, NEW T, NEW S \in Seq(T), S # << >>, NEW W, NEW V, NEW c, NEW id,
         Ends(u, S, W, c, id),
         id \in DOMAIN V => \/ id \in DOMAIN W /\ (u /\ W[id].files => V[id].files)
                            \/ u /\ Head(S) \in Starts(id) /\ V[id].files,
         Head(S) \in Cancels(id) => (u => id \notin DOMAIN V)
  PROVE  Ends(u, Tail(S), V, c, id)
<1> DEFINE Q == Tail(S)
           P == Starts(id)
           X == Cancels(id)
<1>1. \A O : (Has(Q, O) => Has(S, O)) /\ (Lone(S, O) => Lone(Q, O))
  BY TailHas
<1>2. \A O : Has(S, O) /\ Head(S) \notin O => Has(Q, O)
  BY TailHas
<1>3. Lone(S, P) /\ Head(S) \in P => ~Has(Q, P)
  BY TailHas
<1>4. Q \in Seq(T) /\ DOMAIN S = 1..Len(S) /\ DOMAIN Q = 1..Len(S) - 1 /\ Len(S) \in Nat \ {0}
      /\ Head(S) = S[1] /\ \A k \in DOMAIN Q : Q[k] = S[k + 1]
  BY HeadTailProperties, LenProperties, EmptySeq
<1>5. Ahead(S, P, X) => Ahead(Q, P, X) /\ (Head(S) \in P => Has(Q, X))
  <2> SUFFICES ASSUME Ahead(S, P, X) PROVE Ahead(Q, P, X) /\ (Head(S) \in P => Has(Q, X))
    OBVIOUS
  <2> HIDE DEF Q, P, X
  <2>1. ASSUME NEW k \in DOMAIN Q, Q[k] \in P PROVE \E l \in DOMAIN Q : k < l /\ Q[l] \in X
    <3>1. k + 1 \in DOMAIN S /\ S[k + 1] \in P
      BY <1>4, <2>1
    <3>2. PICK l \in DOMAIN S : k + 1 < l /\ S[l] \in X
      BY <3>1 DEF Ahead
    <3>3. l - 1 \in DOMAIN Q /\ k < l - 1 /\ Q[l - 1] = S[l]
      BY <1>4, <3>2
    <3> QED BY <3>2, <3>3
  <2>2. ASSUME Head(S) \in P PROVE Has(Q, X)
    <3>1. 1 \in DOMAIN S /\ S[1] \in P
      BY <1>4, <2>2
    <3>2. PICK l \in DOMAIN S : 1 < l /\ S[l] \in X
      BY <3>1 DEF Ahead
    <3>3. l - 1 \in DOMAIN Q /\ Q[l - 1] = S[l]
      BY <1>4, <3>2
    <3> QED BY <3>2, <3>3 DEF Has
  <2> QED BY <2>1, <2>2 DEF Ahead
<1>6. u => /\ Lone(Q, P) /\ (Has(Q, P) => id \notin DOMAIN V)
           /\ id \in DOMAIN V => V[id].files
  <2> SUFFICES ASSUME u PROVE /\ Lone(Q, P) /\ (Has(Q, P) => id \notin DOMAIN V)
                              /\ id \in DOMAIN V => V[id].files
    OBVIOUS
  <2>1. Lone(S, P) /\ (Has(S, P) => id \notin DOMAIN W) /\ (id \in DOMAIN W => W[id].files)
    BY DEF Ends
  <2> HIDE DEF Q, P, X
  <2>2. Lone(Q, P) /\ (Head(S) \in P => ~Has(Q, P)) /\ (Has(Q, P) => Has(S, P))
    BY <2>1, <1>1, <1>3
  <2> QED BY <2>1, <2>2 DEF P
<1>7. c = "cancelled" => IF u THEN (id \in DOMAIN V => Has(Q, X)) /\ Ahead(Q, P, X) ELSE id \notin DOMAIN V
  <2> SUFFICES ASSUME c = "cancelled" PROVE IF u THEN (id \in DOMAIN V => Has(Q, X)) /\ Ahead(Q, P, X) ELSE id \notin DOMAIN V
    OBVIOUS
  <2>1. IF u THEN (id \in DOMAIN W => Has(S, X)) /\ Ahead(S, P, X) ELSE id \notin DOMAIN W
    BY DEF Ends
  <2> HIDE DEF Q, P, X
  <2>2. CASE u
    BY <2>1, <2>2, <1>2, <1>5 DEF P, X
  <2> QED BY <2>1, <2>2
<1> QED BY <1>6, <1>7 DEF Ends

\* Messages are sent to the server that start no write job.
LEMMA EndsGrow ==
  ASSUME NEW u, NEW T, NEW S \in Seq(T), NEW b \in Seq(T), NEW W, NEW V, NEW c, NEW id,
         Ends(u, S, W, c, id),
         u => ~Has(b, Starts(id)),
         id \in DOMAIN V => id \in DOMAIN W /\ (u /\ W[id].files => V[id].files)
  PROVE  Ends(u, S \o b, V, c, id)
<1> DEFINE Q == S \o b
           P == Starts(id)
           X == Cancels(id)
<1>1. \A O : (Has(Q, O) <=> Has(S, O) \/ Has(b, O)) /\ (Lone(S, O) /\ ~Has(b, O) => Lone(Q, O))
  BY ConcatHas DEF Lone, Has
<1>2. DOMAIN S = 1..Len(S) /\ DOMAIN b = 1..Len(b) /\ DOMAIN Q = 1..Len(S) + Len(b)
      /\ Len(S) \in Nat /\ Len(b) \in Nat
      /\ (\A k \in DOMAIN S : Q[k] = S[k]) /\ \A k \in DOMAIN Q : k > Len(S) => k - Len(S) \in DOMAIN b /\ Q[k] = b[k - Len(S)]
  BY ConcatProperties, LenProperties
<1>3. Ahead(S, P, X) /\ ~Has(b, P) => Ahead(Q, P, X)
  <2> SUFFICES ASSUME Ahead(S, P, X), ~Has(b, P), NEW k \in DOMAIN Q, Q[k] \in P
               PROVE  \E l \in DOMAIN Q : k < l /\ Q[l] \in X
    BY DEF Ahead
  <2> HIDE DEF Q, P, X
  <2>1. k \in DOMAIN S
    BY <1>2 DEF Has
  <2>2. PICK l \in DOMAIN S : k < l /\ S[l] \in X
    BY <2>1, <1>2 DEF Ahead
  <2> QED BY <2>2, <1>2
<1> HIDE DEF Q
<1> QED BY <1>1, <1>3 DEF Ends, P, X, Q

\* The stream to the server stays as it is.
LEMMA EndsSame ==
  ASSUME NEW u, NEW S, NEW W, NEW V, NEW c, NEW id, Ends(u, S, W, c, id),
         id \in DOMAIN V => id \in DOMAIN W /\ (u /\ W[id].files => V[id].files)
  PROVE  Ends(u, S, V, c, id)
BY DEF Ends

\* The job is cancelled, and the server is told.
LEMMA EndsCancel ==
  ASSUME NEW u, NEW T, NEW S \in Seq(T), NEW m \in T, NEW W, NEW V, NEW c, NEW id,
         Ends(u, S, W, c, id), m \in Cancels(id),
         id \in DOMAIN V => u /\ id \in DOMAIN W /\ (u /\ W[id].files => V[id].files)
  PROVE  Ends(u, Append(S, m), V, "cancelled", id)
<1> DEFINE Q == Append(S, m)
           P == Starts(id)
           X == Cancels(id)
<1>0. m \notin P
  BY DEF Starts, Cancels
<1>1. \A O : (Has(Q, O) <=> Has(S, O) \/ m \in O) /\ (Lone(S, O) /\ m \notin O => Lone(Q, O))
  BY Putting DEF Puts
<1>2. DOMAIN S = 1..Len(S) /\ DOMAIN Q = 1..Len(S) + 1 /\ Len(S) \in Nat
      /\ (\A k \in DOMAIN S : Q[k] = S[k]) /\ Q[Len(S) + 1] = m
  BY AppendProperties, LenProperties
<1>3. Ahead(Q, P, X)
  <2> SUFFICES ASSUME NEW k \in DOMAIN Q, Q[k] \in P PROVE \E l \in DOMAIN Q : k < l /\ Q[l] \in X
    BY DEF Ahead
  <2> HIDE DEF Q, P, X
  <2>1. k # Len(S) + 1
    BY <1>0, <1>2
  <2>2. Len(S) + 1 \in DOMAIN Q /\ k < Len(S) + 1 /\ m \in X
    BY <1>2, <2>1 DEF X
  <2> QED BY <2>2, <1>2
<1> HIDE DEF Q
<1> QED BY <1>0, <1>1, <1>3 DEF Ends, P, X, Q

\* What a sequence holds, in two ways to say it.
LEMMA RangeHas ==
  /\ \A q, x : x \in Range(q) <=> Has(q, {x})
  /\ Range(<< >>) = {} /\ \A m : Range(<<m>>) = {m}
BY DEF Range, Has

\* The elements of a sequence over T are in T.
LEMMA RangeType ==
  ASSUME NEW T, NEW q \in Seq(T)
  PROVE  Range(q) \subseteq T
BY LenProperties, ElementOfSeq DEF Range

\* Taking the first message of a stream.
LEMMA RangeTail ==
  ASSUME NEW T, NEW q \in Seq(T), q # << >>
  PROVE  Head(q) \in Range(q) /\ Range(Tail(q)) \subseteq Range(q)
<1>1. Head(q) \in Range(q)
  BY HeadTailProperties, LenProperties, EmptySeq DEF Range
<1>2. \A x : Has(Tail(q), {x}) => Has(q, {x})
  BY TailHas
<1> QED BY <1>1, <1>2, RangeHas

\* Sending several messages.
LEMMA RangeConcat ==
  ASSUME NEW T, NEW q \in Seq(T), NEW b \in Seq(T)
  PROVE  Range(q \o b) = Range(q) \cup Range(b)
<1>1. \A x : Has(q \o b, {x}) <=> Has(q, {x}) \/ Has(b, {x})
  BY ConcatHas
<1> QED BY <1>1, RangeHas

\* Sending one message.
LEMMA RangePut ==
  ASSUME NEW T, NEW q \in Seq(T), NEW m \in T
  PROVE  Range(q \o <<m>>) = Range(q) \cup {m} /\ Append(q, m) = q \o <<m>>
<1>1. Append(q, m) = q \o <<m>> /\ <<m>> \in Seq(T)
  BY Putting
<1>2. Range(q \o <<m>>) = Range(q) \cup Range(<<m>>)
  BY <1>1, RangeConcat
<1>3. Range(<<m>>) = {m}
  BY RangeHas
<1> QED BY <1>1, <1>2, <1>3

\* A step of another job.
LEMMA OtherJobs ==
  ASSUME NEW u, NEW L, NEW J \in SUBSET Reader, NEW M, NEW A, NEW W, NEW d, NEW id,
         NEW K \in SUBSET Reader, NEW N, NEW B, NEW V,
         Tidy(u, L, J, M, A, W, d, id),
         \A k \in K : k.id = id => k \in J,
         \A m \in N : m.id = id => m \in M,
         \A f \in File : <<id, f>> \in B => <<id, f>> \in A,
         id \in DOMAIN W <=> id \in DOMAIN V,
         id \in DOMAIN W => V[id] = W[id]
  PROVE  Tidy(u, L, K, N, B, V, d, id)
<1>1. Owned(L, V, d, id)
  BY DEF Tidy, Owned
<1>2. Fwd(u, J, M, A, K, id)
  BY SameLater DEF Fwd
<1>3. ~u => \A f \in File : <<id, f>> \in B => Unsent(u, J, M, A, id, f)
  BY DEF Unsent
<1> QED BY <1>1, <1>2, <1>3, TidyStep

\* The parts of the state, and what they hold.
LEMMA Views ==
  ASSUME OneOffer
  PROVE  /\ Range(rjobs) \in SUBSET Reader
         /\ toServer \in Seq(ToServer(Upload)) /\ toClient \in Seq(ToClient(Upload)) /\ ipc \in Seq(Told(InCM))
         /\ Range(toServer) \subseteq ToServer(Upload) /\ Range(toClient) \subseteq ToClient(Upload)
         /\ Range(ipc) \subseteq Told(InCM)
         /\ InFlight \subseteq Message /\ Writers(wjobs) /\ disk \in [Job -> Disk]
<1>1. rjobs \in Seq(Reader)
  BY DEF OneOffer, Good
<1>2. toServer \in Seq(ToServer(Upload)) /\ toClient \in Seq(ToClient(Upload)) /\ ipc \in Seq(Told(InCM))
  BY DEF OneOffer, Good
<1>3. Range(toServer) \subseteq ToServer(Upload) /\ Range(toClient) \subseteq ToClient(Upload)
         /\ Range(ipc) \subseteq Told(InCM) /\ Range(rjobs) \subseteq Reader
  BY <1>1, <1>2, RangeType
<1>4. InFlight \subseteq Message
  BY <1>3 DEF InFlight, Flying, ToServer, ToClient, Told
<1> QED BY <1>1, <1>2, <1>3, <1>4 DEF OneOffer, Typed

\* One message more in a stream.
LEMMA Added ==
  ASSUME OneOffer, NEW a \in Message
  PROVE  /\ Range(toClient \o <<a>>) = Range(toClient) \cup {a}
         /\ Range(ipc \o <<a>>) = Range(ipc) \cup {a}
         /\ Range(Append(toServer, a)) = Range(toServer) \cup {a}
         /\ Range(Append(toClient, a)) = Range(toClient) \cup {a}
<1>1. toClient \in Seq(Message) /\ ipc \in Seq(Message) /\ toServer \in Seq(Message)
  BY OneOfferTypes DEF TypeOK
<1>2. Range(toClient \o <<a>>) = Range(toClient) \cup {a} /\ Append(toClient, a) = toClient \o <<a>>
  BY <1>1, RangePut
<1>3. Range(ipc \o <<a>>) = Range(ipc) \cup {a}
  BY <1>1, RangePut
<1>4. Range(toServer \o <<a>>) = Range(toServer) \cup {a} /\ Append(toServer, a) = toServer \o <<a>>
  BY <1>1, RangePut
<1> QED BY <1>2, <1>3, <1>4

\* A step of job id: what it does to the stream to the server.
Streams(S, SS, id) ==
  \/ SS = S
  \/ S # << >> /\ SS = Tail(S) /\ Head(S).id = id
  \/ \E a \in ToServer(Upload) : a.id = id /\ SS = Append(S, a)

\* A step of job id keeps the invariant if it leaves what belongs to other jobs
\* alone, says nothing of an error unless there was one, and keeps job id tidy.
LEMMA JobTidies ==
  ASSUME TidyInv, NEW id \in Job, up, OneOffer',
         mode' = mode /\ up' = up /\ lost' = lost /\ saved' = saved,
         faults' = 0 => faults = 0,
         \A x \in Job : x # id =>
           /\ ui'[x] = ui[x] /\ disk'[x] = disk[x]
           /\ x \in DOMAIN wjobs <=> x \in DOMAIN wjobs'
           /\ x \in DOMAIN wjobs => wjobs'[x] = wjobs[x],
         \A k \in Range(rjobs') : k.id # id => k \in Range(rjobs),
         \A m \in Flying(toServer', toClient', ipc') :
           m \in InFlight \/ (m.id = id /\ (m.t = "error" => faults' # 0)),
         \A x \in Job, f \in File : x # id /\ <<x, f>> \in ask' => <<x, f>> \in ask,
         Streams(toServer, toServer', id),
         saved[id] = 0 /\ ui'[id] \in Going => ui[id] \in Going,
         Straight(id) /\ faults' = 0 /\ ui'[id] \in Going
           /\ TidyJob(Upload, Leftover[mode], rjobs, toServer, toClient, ipc, ask, wjobs, disk, ui, id) =>
           TidyJob(Upload, Leftover[mode], rjobs', toServer', toClient', ipc', ask', wjobs', disk', ui', id)
  PROVE  TidyInv'
<1> DEFINE L == Leftover[mode]
           N == Flying(toServer', toClient', ipc')
<1>0. /\ OneOffer
      /\ lost = 0 => up /\ \A x \in Job : saved[x] = 0
      /\ faults = 0 => NoErrors
      /\ \A x \in Job : Straight(x) =>
           TidyJob(Upload, L, rjobs, toServer, toClient, ipc, ask, wjobs, disk, ui, x)
  BY DEF TidyInv
<1>1. Range(rjobs) \in SUBSET Reader /\ toServer \in Seq(ToServer(Upload))
  BY <1>0, Views
<1>2. Range(rjobs') \in SUBSET Reader
  <2>1. rjobs' \in Seq(Reader)
    BY DEF OneOffer, Good
  <2> QED BY <2>1, RangeType
<1>3. faults' = 0 => NoErrors'
  BY <1>0 DEF NoErrors, InFlight
<1>4. ASSUME NEW x \in Job, Straight(x)'
      PROVE  TidyJob(Upload, L, rjobs', toServer', toClient', ipc', ask', wjobs', disk', ui', x)
  <2>1. faults' = 0 /\ saved[x] = 0 /\ lost =< 1 /\ (Upload => lost = 0) /\ ui'[x] \in Going
    BY <1>4 DEF Straight, Upload
  <2>2. ui[x] \in Going
    BY <2>1
  <2>3. Straight(x)
    BY <2>1, <2>2 DEF Straight
  <2>4. TidyJob(Upload, L, rjobs, toServer, toClient, ipc, ask, wjobs, disk, ui, x)
    BY <2>3, <1>0
  <2>5. CASE x = id
    BY <2>1, <2>3, <2>4, <2>5
  <2>6. CASE x # id
    <3>0. /\ ui'[x] = ui[x] /\ disk'[x] = disk[x] /\ (x \in DOMAIN wjobs <=> x \in DOMAIN wjobs')
          /\ x \in DOMAIN wjobs => wjobs'[x] = wjobs[x]
      BY <2>6
    <3>1. /\ \A k \in Range(rjobs') : k.id = x => k \in Range(rjobs)
          /\ \A m \in N : m.id = x => m \in InFlight
          /\ \A f \in File : <<x, f>> \in ask' => <<x, f>> \in ask
      BY <2>6
    <3>2. Tidy(Upload, L, Range(rjobs), InFlight, ask, wjobs, disk[x], x)
          /\ Ends(Upload, toServer, wjobs, ui[x], x)
      BY <2>4 DEF TidyJob, InFlight
    <3> HIDE DEF N, L
    <3>3. Tidy(Upload, L, Range(rjobs'), N, ask', wjobs', disk[x], x)
      BY <3>0, <3>1, <3>2, <1>1, <1>2, OtherJobs
    <3>5. x \in DOMAIN wjobs' => x \in DOMAIN wjobs /\ (Upload /\ wjobs[x].files => wjobs'[x].files)
      BY <3>0
    <3>4. Ends(Upload, toServer', wjobs', ui[x], x)
      <4> DEFINE T == ToServer(Upload)
      <4>0. toServer \in Seq(T) /\ Ends(Upload, toServer, wjobs, ui[x], x)
        BY <1>1, <3>2
      <4>1. CASE toServer' = toServer
        BY <4>0, <4>1, <3>5, EndsSame
      <4>2. CASE toServer # << >> /\ toServer' = Tail(toServer) /\ Head(toServer).id = id
        <5>1. Head(toServer) \notin Cancels(x)
          BY <4>2, <2>6 DEF Cancels, About
        <5> HIDE DEF T
        <5> QED BY <5>1, <4>0, <4>2, <3>5, EndsTake
      <4>3. CASE \E a \in T : a.id = id /\ toServer' = Append(toServer, a)
        <5>1. PICK a \in T : a.id = id /\ toServer' = Append(toServer, a)
          BY <4>3
        <5>2. a \notin Starts(x) /\ ~Has(<<a>>, Starts(x))
          BY <5>1, <2>6, SingleHas DEF Starts, About
        <5> HIDE DEF T
        <5>3. <<a>> \in Seq(T) /\ Append(toServer, a) = toServer \o <<a>>
          BY <4>0, Putting
        <5>4. Ends(Upload, toServer \o <<a>>, wjobs', ui[x], x)
          BY <5>2, <5>3, <4>0, <3>5, EndsGrow
        <5> QED BY <5>1, <5>3, <5>4
      <4> QED BY <4>1, <4>2, <4>3 DEF Streams
    <3> QED BY <3>0, <3>3, <3>4 DEF TidyJob, N
  <2> QED BY <2>5, <2>6
<1> QED BY <1>0, <1>3, <1>4 DEF TidyInv, Upload

\* The server takes a message.
LEMMA TakenFromClient ==
  ASSUME TidyInv, NEW t, FromClient(t)
  PROVE  /\ SM \in InFlight /\ SM \in Range(toServer)
         /\ Flying(toServer', toClient, ipc) \subseteq InFlight
         /\ Streams(toServer, toServer', SM.id)
<1>1. OneOffer
  BY DEF TidyInv
<1>2. toServer \in Seq(ToServer(Upload))
  BY <1>1, Views
<1>3. SM \in Range(toServer) /\ Range(toServer') \subseteq Range(toServer)
  BY <1>2, RangeTail DEF FromClient, SM
<1> QED BY <1>3 DEF InFlight, Flying, Streams, FromClient, SM

\* A handler of the server keeps the invariant if it touches the job of its
\* message only and neither sends a block nor holds a file back.
LEMMA ServerTidies ==
  ASSUME TidyInv, NEW t, FromClient(t), OneOffer',
         mode' = mode /\ ask' = ask /\ ui' = ui /\ saved' = saved /\ up' = up /\ lost' = lost,
         faults' = 0 => faults = 0,
         \A x \in Job : x # SM.id =>
           /\ disk'[x] = disk[x]
           /\ x \in DOMAIN wjobs <=> x \in DOMAIN wjobs'
           /\ x \in DOMAIN wjobs => wjobs'[x] = wjobs[x],
         \A k \in Range(rjobs') : k.id # SM.id => k \in Range(rjobs),
         \A m \in Flying(toServer', toClient', ipc') : m \in InFlight \/
           /\ m.id = SM.id /\ (m.t = "error" => faults' # 0) /\ m.t # "block"
           /\ \A f \in File : m \notin Hold(Upload, SM.id, f),
         SM \in Cancels(SM.id) /\ Upload => SM.id \notin DOMAIN wjobs',
         (/\ faults' = 0
          /\ Tidy(Upload, Leftover[mode], Range(rjobs), InFlight, ask, wjobs, disk[SM.id], SM.id)
          /\ Ends(Upload, toServer, wjobs, ui[SM.id], SM.id)) =>
                /\ Fwd(Upload, Range(rjobs), InFlight, ask, Range(rjobs'), SM.id)
                /\ \A f \in File : Unsent(Upload, Range(rjobs), InFlight, ask, SM.id, f)
                                     /\ disk'[SM.id][f].download =>
                                   f \in Leftover[mode] \/ disk[SM.id][f].download
                /\ Owned(Leftover[mode], wjobs', disk'[SM.id], SM.id)
                /\ SM.id \in DOMAIN wjobs' =>
                     \/ SM.id \in DOMAIN wjobs /\ (Upload /\ wjobs[SM.id].files => wjobs'[SM.id].files)
                     \/ Upload /\ SM \in Starts(SM.id) /\ wjobs'[SM.id].files
  PROVE  TidyInv'
<1> DEFINE id == SM.id
           L == Leftover[mode]
           J == Range(rjobs)
           K == Range(rjobs')
           N == Flying(toServer', toClient', ipc')
<1>0. OneOffer /\ up
  BY DEF TidyInv, FromClient
<1>1. id \in Job /\ toServer \in Seq(ToServer(Upload)) /\ toServer # << >> /\ toServer' = Tail(toServer)
  BY <1>0, GotFromClient, Views DEF FromClient
<1>2. J \in SUBSET Reader
  BY <1>0, Views
<1>3. K \in SUBSET Reader
  <2>1. rjobs' \in Seq(Reader)
    BY DEF OneOffer, Good
  <2> QED BY <2>1, RangeType
<1>4. ASSUME faults' = 0, TidyJob(Upload, L, rjobs, toServer, toClient, ipc, ask, wjobs, disk, ui, id)
      PROVE  TidyJob(Upload, L, rjobs', toServer', toClient', ipc', ask', wjobs', disk', ui', id)
  <2>1. Tidy(Upload, L, J, InFlight, ask, wjobs, disk[id], id) /\ Ends(Upload, toServer, wjobs, ui[id], id)
    BY <1>4 DEF TidyJob, InFlight
  <2>2. /\ Fwd(Upload, J, InFlight, ask, K, id)
        /\ \A f \in File : Unsent(Upload, J, InFlight, ask, id, f) /\ disk'[id][f].download =>
                             f \in L \/ disk[id][f].download
        /\ Owned(L, wjobs', disk'[id], id)
        /\ id \in DOMAIN wjobs' =>
             \/ id \in DOMAIN wjobs /\ (Upload /\ wjobs[id].files => wjobs'[id].files)
             \/ Upload /\ SM \in Starts(id) /\ wjobs'[id].files
    BY <1>4, <2>1
  <2>3. \A m \in N : m.id = id => m \in InFlight \/
           \A f \in File :
             /\ m \in Hold(Upload, id, f) => Unsent(Upload, J, InFlight, ask, id, f)
             /\ m \in Hold(Upload, id, f) => \A k \in K : Upload /\ k.id = id => f < k.num
             /\ m \in Blocks(id, f) => ~Unsent(Upload, K, N, ask, id, f)
    BY DEF Blocks
  <2>4. \A f \in File : <<id, f>> \in ask /\ ~Upload => Unsent(Upload, J, InFlight, ask, id, f)
    BY DEF Unsent
  <2> HIDE DEF J, K, N, L, id
  <2>5. Tidy(Upload, L, K, N, ask, wjobs', disk'[id], id)
    BY <2>1, <2>2, <2>3, <2>4, <1>2, <1>3, TidyStep
  <2>6. Ends(Upload, toServer', wjobs', ui[id], id)
    <3> DEFINE T == ToServer(Upload)
               V == wjobs'
               Q == toServer
    <3>1. Q \in Seq(T) /\ Q # << >> /\ Head(Q) = SM /\ toServer' = Tail(Q)
      BY <1>1 DEF SM
    <3>2. Head(Q) \in Cancels(id) => (Upload => id \notin DOMAIN V)
      BY <3>1 DEF id
    <3>3. id \in DOMAIN V => \/ id \in DOMAIN wjobs /\ (Upload /\ wjobs[id].files => V[id].files)
                             \/ Upload /\ Head(Q) \in Starts(id) /\ V[id].files
      BY <2>2, <3>1
    <3> HIDE DEF T, V
    <3>4. Ends(Upload, Tail(Q), V, ui[id], id)
      BY <2>1, <3>1, <3>2, <3>3, EndsTake
    <3> QED BY <3>1, <3>4 DEF V
  <2> QED BY <2>5, <2>6 DEF TidyJob, N, K
<1>5. \A m \in N : m \in InFlight \/ (m.id = id /\ (m.t = "error" => faults' # 0))
  OBVIOUS
<1>6. Streams(toServer, toServer', id)
  BY TakenFromClient
<1>7. \A x \in Job : x # id =>
           /\ ui'[x] = ui[x] /\ disk'[x] = disk[x]
           /\ x \in DOMAIN wjobs <=> x \in DOMAIN wjobs'
           /\ x \in DOMAIN wjobs => wjobs'[x] = wjobs[x]
  OBVIOUS
<1>8. \A k \in K : k.id # id => k \in J
  OBVIOUS
<1> HIDE DEF id
<1> QED BY <1>0, <1>1, <1>4, <1>5, <1>6, <1>7, <1>8, JobTidies

\* A fault is counted.
LEMMA FaultCounts ==
  ASSUME TidyInv, NEW n \in Nat \ {0}, Fault(n)
  PROVE  faults' # 0
BY TransferAssumption DEF TidyInv, OneOffer, Typed, Fault

\* No reader is new.
LEMMA SameReaders ==
  ASSUME NEW J \in SUBSET Reader, NEW K, K \subseteq J, NEW u, NEW M, NEW A, NEW id
  PROVE  Fwd(u, J, M, A, K, id)
BY SameLater DEF Fwd

\* The reader of the job moved on, the others are as they were.
LEMMA MovedOn ==
  ASSUME NEW u, NEW J, NEW M, NEW A, NEW K, NEW id,
         \A k \in K : (k \in J /\ k.id # id) \/ (k.id = id /\ \E j \in J : j.id = id /\ Later(j, k))
  PROVE  Fwd(u, J, M, A, K, id) /\ \A k \in K : k.id # id => k \in J
BY DEF Fwd

\* A reader that is confirmed, or told to skip its file, is further on.
LEMMA ConfirmLater ==
  ASSUME NEW j \in Reader, NEW num \in Num, NEW n \in {Skip} \cup Nat, j.num = num => At(j, num)
  PROVE  Later(j, confirm(j, num, n))
<1>1. j \in ReadJob /\ j.num \in Nat /\ num \in Nat
  BY Constants DEF Reader, ReadJob, Num
<1>2. CASE j.num # num
  BY <1>1, <1>2 DEF confirm, Later
<1>3. CASE j.num = num /\ n = Skip
  <2> DEFINE k == set_file_skipped(j)
  <2>1. k.num = j.num + 1 /\ ~j.confirmed
    BY <1>1, <1>3 DEF At, set_file_skipped, NextFile, ReadJob
  <2>2. confirm(j, num, n) = k
    BY <1>3 DEF confirm
  <2> HIDE DEF k
  <2> QED BY <1>1, <2>1, <2>2 DEF Later
<1>4. CASE j.num = num /\ n # Skip
  <2> DEFINE k == confirm(j, num, n)
  <2>1. k.num = j.num /\ k.confirmed /\ ~k.skipped
    BY <1>1, <1>4 DEF confirm, ReadJob
  <2> HIDE DEF k
  <2>2. Later(j, k)
    BY <1>1, <2>1 DEF Later
  <2> QED BY <2>2 DEF k
<1> QED BY <1>2, <1>3, <1>4

\* FileAction::Send: the new reader has sent nothing, as the request said.
LEMMA ServerSendTidies == TidyInv /\ ServerSend => TidyInv'
<1> SUFFICES ASSUME TidyInv, ServerSend PROVE TidyInv'
  OBVIOUS
<1>1. FromClient("send") /\ OneOffer
  BY DEF ServerSend, TidyInv
<1>2. OneOffer'
  BY <1>1, ServerSendKeeps
<1>3. /\ SM \in ToServer(Upload) /\ SM \in Message /\ SM.id \in Job /\ SM.num \in Num /\ SM.t = "send"
  BY <1>1, GotFromClient
<1>4. ~Upload
  BY <1>3 DEF ToServer, FromReader
<1>5. mode' = mode /\ ask' = ask /\ ui' = ui /\ saved' = saved /\ up' = up /\ wjobs' = wjobs
      /\ disk' = disk /\ lost' = lost
  BY DEF ServerSend
<1> DEFINE j == new_read(SM.id, SM.num, FALSE)
           a == Msg("dir", SM.id, SM.num, 0)
           b == Msg("error", SM.id, SM.num, 0)
<1>6. j \in Reader /\ j.id = SM.id /\ ~j.skipped
  BY <1>3, NewReader DEF new_read
<1>7. \/ /\ rjobs' = Append(rjobs, j) /\ faults' = faults
         /\ \/ ipc' = ipc \o <<a>> /\ toClient' = toClient
            \/ toClient' = toClient \o <<a>> /\ ipc' = ipc
      \/ /\ rjobs' = rjobs /\ Fault(1)
         /\ \/ ipc' = ipc \o <<b>> /\ toClient' = toClient
            \/ toClient' = toClient \o <<b>> /\ ipc' = ipc
  BY DEF ServerSend, SM
<1>8. /\ a \in Message /\ a.t = "dir" /\ a.id = SM.id
      /\ b \in Message /\ b.t = "error" /\ b.id = SM.id
  BY <1>3, MsgType
<1>9. /\ SM \in InFlight /\ Flying(toServer', toClient, ipc) \subseteq InFlight
  BY <1>1, TakenFromClient
<1> HIDE DEF j, a, b
<1>10. Fault(1) => faults' # 0
  BY FaultCounts
<1> DEFINE T == IF faults' = 0 THEN {a} ELSE {a, b}
<1>11. Flying(toServer', toClient', ipc') \subseteq InFlight \cup T
  <2>1. /\ Range(toClient \o <<a>>) = Range(toClient) \cup {a} /\ Range(toClient \o <<b>>) = Range(toClient) \cup {b}
        /\ Range(ipc \o <<a>>) = Range(ipc) \cup {a} /\ Range(ipc \o <<b>>) = Range(ipc) \cup {b}
    BY <1>1, <1>8, Added
  <2> QED BY <2>1, <1>7, <1>9, <1>10 DEF Flying
<1>12. \A m \in T : /\ m.id = SM.id /\ (m.t = "error" => faults' # 0) /\ m.t # "block"
                    /\ \A f \in File : m \notin Hold(Upload, SM.id, f)
  <2>1. \A f \in File : a \notin Hold(Upload, SM.id, f) /\ b \notin Hold(Upload, SM.id, f)
    BY <1>4, <1>8 DEF Hold
  <2> QED BY <1>8, <2>1
<1> HIDE DEF T
<1>21. \A m \in Flying(toServer', toClient', ipc') : m \in InFlight \/
           /\ m.id = SM.id /\ (m.t = "error" => faults' # 0) /\ m.t # "block"
           /\ \A f \in File : m \notin Hold(Upload, SM.id, f)
  BY <1>11, <1>12
<1>13. Range(rjobs') = Range(rjobs) \cup {j} \/ rjobs' = rjobs
  <2>1. rjobs \in Seq(Reader)
    BY <1>1, Readers
  <2>2. Range(rjobs \o <<j>>) = Range(rjobs) \cup {j} /\ Append(rjobs, j) = rjobs \o <<j>>
    BY <2>1, <1>6, RangePut
  <2> QED BY <2>2, <1>7
<1>14. SM \notin Cancels(SM.id)
  BY <1>3 DEF Cancels
<1>15. Fwd(Upload, Range(rjobs), InFlight, ask, Range(rjobs'), SM.id)
  <2>1. \A f \in File : Unsent(Upload, Range(rjobs), InFlight, ask, SM.id, f)
    BY <1>3, <1>4, <1>9 DEF Unsent, Hold, About
  <2>2. Range(rjobs) \in SUBSET Reader
    BY <1>1, Views
  <2> QED BY <1>4, <1>6, <1>13, <2>1, <2>2, SameLater DEF Fwd
<1>16. \A k \in Range(rjobs') : k.id # SM.id => k \in Range(rjobs)
  BY <1>6, <1>13
<1>17. faults' = 0 => faults = 0
  BY <1>7, <1>10
<1>18. \A x : /\ disk'[x] = disk[x] /\ (x \in DOMAIN wjobs <=> x \in DOMAIN wjobs')
              /\ x \in DOMAIN wjobs => wjobs'[x] = wjobs[x]
  BY <1>5
<1>19. Tidy(Upload, Leftover[mode], Range(rjobs), InFlight, ask, wjobs, disk[SM.id], SM.id) =>
         /\ Owned(Leftover[mode], wjobs', disk'[SM.id], SM.id)
         /\ \A f \in File : disk'[SM.id][f].download => disk[SM.id][f].download
         /\ SM.id \in DOMAIN wjobs' => SM.id \in DOMAIN wjobs /\ ~Upload
  BY <1>4, <1>5 DEF Tidy
<1> QED BY <1>1, <1>2, <1>4, <1>5, <1>21, <1>14, <1>15, <1>16, <1>17, <1>18, <1>19, ServerTidies

\* FileAction::Receive: the job is not started twice.
LEMMA ServerReceiveTidies == TidyInv /\ ServerReceive => TidyInv'
<1> SUFFICES ASSUME TidyInv, ServerReceive PROVE TidyInv'
  OBVIOUS
<1>1. FromClient("receive") /\ OneOffer
  BY DEF ServerReceive, TidyInv
<1>2. OneOffer'
  BY <1>1, ServerReceiveKeeps
<1>3. /\ SM \in ToServer(Upload) /\ SM \in Message /\ SM.id \in Job /\ SM.num \in Num /\ SM.t = "receive"
  BY <1>1, GotFromClient
<1>4. Upload /\ SM \in Starts(SM.id) /\ SM \notin Cancels(SM.id)
  BY <1>3 DEF ToServer, FromReader, Starts, About, Cancels
<1>5. mode' = mode /\ ask' = ask /\ ui' = ui /\ saved' = saved /\ up' = up /\ rjobs' = rjobs
      /\ disk' = disk /\ lost' = lost /\ ipc' = ipc
  BY DEF ServerReceive, sender
<1> DEFINE w == new_write(SM.num, TRUE, FALSE)
           b == Msg("error", SM.id, SM.num, 0)
<1>6. w.files = TRUE
  BY DEF new_write
<1>7. \/ wjobs' = With(SM.id, w) /\ faults' = faults /\ toClient' = toClient
      \/ wjobs' = wjobs /\ Fault(1) /\ toClient' = toClient \o <<b>>
  BY DEF ServerReceive, SM, Answer
<1>8. b \in Message /\ b.t = "error" /\ b.id = SM.id
  BY <1>3, MsgType
<1>9. /\ SM \in Range(toServer) /\ Flying(toServer', toClient, ipc) \subseteq InFlight
  BY <1>1, TakenFromClient
<1> HIDE DEF w, b
<1>10. Fault(1) => faults' # 0
  BY FaultCounts
<1> DEFINE T == IF faults' = 0 THEN {} ELSE {b}
<1>11. Flying(toServer', toClient', ipc') \subseteq InFlight \cup T
  <2>1. Range(toClient \o <<b>>) = Range(toClient) \cup {b}
    BY <1>1, <1>8, Added
  <2> QED BY <2>1, <1>5, <1>7, <1>9, <1>10 DEF Flying
<1>12. \A m \in T : /\ m.id = SM.id /\ (m.t = "error" => faults' # 0) /\ m.t # "block"
                    /\ \A f \in File : m \notin Hold(Upload, SM.id, f)
  BY <1>4, <1>8 DEF Hold
<1> HIDE DEF T
<1>21. \A m \in Flying(toServer', toClient', ipc') : m \in InFlight \/
           /\ m.id = SM.id /\ (m.t = "error" => faults' # 0) /\ m.t # "block"
           /\ \A f \in File : m \notin Hold(Upload, SM.id, f)
  BY <1>11, <1>12
<1>13. Fwd(Upload, Range(rjobs), InFlight, ask, Range(rjobs'), SM.id)
  BY <1>1, <1>5, Views, SameReaders
<1>14. faults' = 0 => faults = 0 /\ wjobs' = With(SM.id, w)
  BY <1>7, <1>10
<1>15. \A x \in Job : x # SM.id => /\ x \in DOMAIN wjobs <=> x \in DOMAIN wjobs'
                                   /\ x \in DOMAIN wjobs => wjobs'[x] = wjobs[x]
  BY <1>7 DEF With
<1>16. ASSUME faults' = 0, Tidy(Upload, Leftover[mode], Range(rjobs), InFlight, ask, wjobs, disk[SM.id], SM.id),
              Ends(Upload, toServer, wjobs, ui[SM.id], SM.id)
       PROVE  /\ Owned(Leftover[mode], wjobs', disk'[SM.id], SM.id) /\ wjobs'[SM.id].files
              /\ \A f \in File : disk'[SM.id][f].download => disk[SM.id][f].download
  <2>1. SM.id \notin DOMAIN wjobs
    BY <1>4, <1>9, <1>16 DEF Ends, Has, Range
  <2>2. Clean(Leftover[mode], disk[SM.id])
    BY <2>1, <1>16, CleanOwned DEF Tidy
  <2>3. wjobs'[SM.id] = w
    BY <1>14, <1>16 DEF With
  <2> QED BY <2>2, <2>3, <1>5, <1>6, CleanOwned
<1>17. \A x : disk'[x] = disk[x]
  BY <1>5
<1>18. \A k \in Range(rjobs') : k.id # SM.id => k \in Range(rjobs)
  BY <1>5
<1> QED BY <1>1, <1>2, <1>4, <1>5, <1>21, <1>13, <1>14, <1>15, <1>16, <1>17, <1>18, ServerTidies

\* Removing or changing a write job leaves the others.
LEMMA TableOthers ==
  ASSUME NEW id
  PROVE  /\ id \notin DOMAIN Without(id)
         /\ \A x : x # id => /\ x \in DOMAIN wjobs <=> x \in DOMAIN Without(id)
                             /\ x \in DOMAIN wjobs => Without(id)[x] = wjobs[x]
         /\ \A j : /\ DOMAIN [wjobs EXCEPT ![id] = j] = DOMAIN wjobs
                   /\ \A x \in DOMAIN wjobs : x # id => [wjobs EXCEPT ![id] = j][x] = wjobs[x]
                   /\ id \in DOMAIN wjobs => [wjobs EXCEPT ![id] = j][id] = j
BY DEF Without

\* Changing the files of a job leaves those of the others.
LEMMA DiskOthers ==
  ASSUME disk \in [Job -> Disk], NEW id \in Job, NEW d
  PROVE  /\ [disk EXCEPT ![id] = d][id] = d
         /\ \A x \in Job : x # id => [disk EXCEPT ![id] = d][x] = disk[x]
OBVIOUS

\* FileAction::Cancel: reader, writer and the part go.
LEMMA ServerCancelTidies == TidyInv /\ ServerCancel => TidyInv'
<1> SUFFICES ASSUME TidyInv, ServerCancel PROVE TidyInv'
  OBVIOUS
<1>1. FromClient("cancel") /\ OneOffer
  BY DEF ServerCancel, TidyInv
<1>2. OneOffer'
  BY <1>1, ServerCancelKeeps
<1> DEFINE id == SM.id
           L == Leftover[mode]
<1>3. /\ SM \in Message /\ id \in Job /\ SM.t = "cancel"
  BY <1>1, GotFromClient
<1>4. SM \notin Starts(id)
  BY <1>3 DEF Starts
<1>5. mode' = mode /\ ask' = ask /\ ui' = ui /\ saved' = saved /\ up' = up /\ lost' = lost /\ faults' = faults
      /\ ipc' = ipc /\ toClient' = toClient
  BY DEF ServerCancel
<1>6. \/ /\ Upload /\ id \in DOMAIN wjobs /\ rjobs' = rjobs
         /\ disk' = [disk EXCEPT ![id] = remove_download_file(wjobs[id], disk[id])]
         /\ wjobs' = Without(id)
      \/ Upload /\ id \notin DOMAIN wjobs /\ disk' = disk /\ wjobs' = wjobs /\ rjobs' = rjobs
      \/ ~Upload /\ disk' = disk /\ wjobs' = wjobs /\ rjobs' = remove_job(id, rjobs)
  BY DEF ServerCancel, SM
<1>7. Flying(toServer', toClient', ipc') \subseteq InFlight
  BY <1>1, <1>5, TakenFromClient
<1>8. /\ Range(rjobs) \in SUBSET Reader /\ Writers(wjobs) /\ disk \in [Job -> Disk]
  BY <1>1, Views
<1>9. Range(rjobs') \subseteq Range(rjobs)
  <2>1. \A k \in DOMAIN remove_job(id, rjobs) : \E i \in DOMAIN rjobs : remove_job(id, rjobs)[k] = rjobs[i]
    BY <1>1, <1>3, Readers, Removed
  <2> QED BY <2>1, <1>6 DEF Range
<1> HIDE DEF id
<1>10. Fwd(Upload, Range(rjobs), InFlight, ask, Range(rjobs'), id)
  BY <1>8, <1>9, SameReaders
<1>11. \A x \in Job : x # id =>
           /\ disk'[x] = disk[x]
           /\ x \in DOMAIN wjobs <=> x \in DOMAIN wjobs'
           /\ x \in DOMAIN wjobs => wjobs'[x] = wjobs[x]
  BY <1>3, <1>6, <1>8, TableOthers, DiskOthers
<1>12. Upload => id \notin DOMAIN wjobs'
  BY <1>6, TableOthers
<1>13. ASSUME Tidy(Upload, L, Range(rjobs), InFlight, ask, wjobs, disk[id], id)
       PROVE  /\ Owned(L, wjobs', disk'[id], id)
              /\ \A f \in File : disk'[id][f].download => disk[id][f].download
              /\ id \in DOMAIN wjobs' => id \in DOMAIN wjobs /\ ~Upload
  <2>0. Owned(L, wjobs, disk[id], id)
    BY <1>13 DEF Tidy
  <2>1. CASE disk' = disk /\ wjobs' = wjobs
    BY <2>0, <2>1, <1>12
  <2>2. CASE /\ id \in DOMAIN wjobs
             /\ disk' = [disk EXCEPT ![id] = remove_download_file(wjobs[id], disk[id])]
             /\ wjobs' = Without(id)
    <3>1. disk'[id] = remove_download_file(wjobs[id], disk[id])
      BY <2>2, <1>3, <1>8, DiskOthers
    <3>2. wjobs[id] \in WriteJob /\ disk[id] \in Disk
      BY <2>2, <1>3, <1>8 DEF Writers
    <3>3. Clean(L, disk'[id]) /\ \A f \in File : disk'[id][f].download => disk[id][f].download
      BY <2>0, <2>2, <3>1, <3>2, PartRemoved
    <3> QED BY <2>2, <3>3, CleanOwned, TableOthers
  <2> QED BY <1>6, <2>1, <2>2
<1> QED BY <1>1, <1>2, <1>5, <1>7, <1>9, <1>10, <1>11, <1>12, <1>13, ServerTidies DEF id

\* Nothing about the writer or the disk changes.
LEMMA WriterSame ==
  ASSUME NEW u, NEW L, NEW J, NEW M, NEW A, NEW id, NEW W, NEW d, Tidy(u, L, J, M, A, W, d, id)
  PROVE  Owned(L, W, d, id)
BY DEF Tidy

\* FileAction::SendConfirm.
LEMMA ServerConfirmTidies == TidyInv /\ ServerConfirm => TidyInv'
<1> SUFFICES ASSUME TidyInv, ServerConfirm PROVE TidyInv'
  OBVIOUS
<1>1. FromClient("confirm") /\ OneOffer
  BY DEF ServerConfirm, TidyInv
<1>2. OneOffer'
  BY <1>1, ServerConfirmKeeps
<1> DEFINE id == SM.id
           L == Leftover[mode]
           C(j) == confirm(j, IF InCM THEN j.num ELSE SM.num, SM.n)
<1>3. /\ SM \in Message /\ id \in Job /\ SM.t = "confirm" /\ SM.num \in File /\ SM.n \in {Skip} \cup Nat
      /\ SM \in OfferS(Upload, id) => For(SM, rjobs)
  BY <1>1, GotFromClient DEF Sound
<1>4. SM \notin Starts(id) /\ SM \notin Cancels(id)
  BY <1>3 DEF Starts, Cancels
<1>5. mode' = mode /\ ask' = ask /\ ui' = ui /\ saved' = saved /\ up' = up /\ lost' = lost /\ faults' = faults
      /\ ipc' = ipc /\ toClient' = toClient /\ disk' = disk
  BY DEF ServerConfirm
<1>6. \/ /\ Upload /\ id \in DOMAIN wjobs /\ rjobs' = rjobs
         /\ wjobs' = [wjobs EXCEPT ![id] = confirm_write(wjobs[id], SM.num, SM.n, disk[id])]
      \/ wjobs' = wjobs /\ rjobs' = rjobs
      \/ ~Upload /\ wjobs' = wjobs /\ rjobs' = map_job(id, C)
  BY DEF ServerConfirm, SM
<1>7. Flying(toServer', toClient', ipc') \subseteq InFlight /\ SM \in InFlight
  BY <1>1, <1>5, TakenFromClient
<1>8. /\ Range(rjobs) \in SUBSET Reader /\ Writers(wjobs) /\ disk \in [Job -> Disk]
  BY <1>1, Views
<1>9. ~Upload => /\ Fwd(Upload, Range(rjobs), InFlight, ask, Range(map_job(id, C)), id)
                 /\ \A k \in Range(map_job(id, C)) : k.id # id => k \in Range(rjobs)
  <2> SUFFICES ASSUME ~Upload PROVE /\ Fwd(Upload, Range(rjobs), InFlight, ask, Range(map_job(id, C)), id)
                                    /\ \A k \in Range(map_job(id, C)) : k.id # id => k \in Range(rjobs)
    OBVIOUS
  <2>1. For(SM, rjobs)
    BY <1>3 DEF OfferS, About
  <2>2. ASSUME NEW i \in DOMAIN rjobs, rjobs[i].id = id
        PROVE  Later(rjobs[i], C(rjobs[i])) /\ C(rjobs[i]).id = id
    <3> DEFINE j == rjobs[i]
               n == IF InCM THEN j.num ELSE SM.num
    <3>1. j \in Reader /\ At(j, SM.num)
      BY <2>1, <2>2, <1>8 DEF For, Range
    <3>2. n = SM.num /\ SM.num \in Num
      BY <3>1, <1>3, Constants DEF At
    <3> HIDE DEF j, n
    <3>3. Later(j, confirm(j, n, SM.n)) /\ confirm(j, n, SM.n).id = j.id
      BY <1>3, <3>1, <3>2, ConfirmLater, ConfirmReader
    <3> QED BY <3>3, <2>2 DEF j, n
  <2> HIDE DEF C
  <2>3. ASSUME NEW k \in Range(map_job(id, C))
        PROVE  \E i \in DOMAIN rjobs : k = IF rjobs[i].id = id THEN C(rjobs[i]) ELSE rjobs[i]
    BY DEF Range, map_job
  <2>4. ASSUME NEW k \in Range(map_job(id, C))
        PROVE  \/ k \in Range(rjobs) /\ k.id # id
               \/ k.id = id /\ \E j \in Range(rjobs) : j.id = id /\ Later(j, k)
    <3>1. PICK i \in DOMAIN rjobs : k = IF rjobs[i].id = id THEN C(rjobs[i]) ELSE rjobs[i]
      BY <2>3
    <3>2. rjobs[i] \in Range(rjobs)
      BY DEF Range
    <3> QED BY <2>2, <3>1, <3>2
  <2> QED BY <2>4, MovedOn
<1>10. Fwd(Upload, Range(rjobs), InFlight, ask, Range(rjobs'), id)
      /\ \A k \in Range(rjobs') : k.id # id => k \in Range(rjobs)
  <2> HIDE DEF C
  <2>1. CASE rjobs' = rjobs
    BY <2>1, <1>8, SameReaders
  <2> QED BY <2>1, <1>6, <1>9
<1> HIDE DEF id, C
<1>11. \A x \in Job : x # id =>
           /\ x \in DOMAIN wjobs <=> x \in DOMAIN wjobs'
           /\ x \in DOMAIN wjobs => wjobs'[x] = wjobs[x]
  BY <1>6, TableOthers
<1>13. ASSUME Tidy(Upload, L, Range(rjobs), InFlight, ask, wjobs, disk[id], id)
       PROVE  /\ Owned(L, wjobs', disk'[id], id)
              /\ \A f \in File : disk'[id][f].download => disk[id][f].download
              /\ id \in DOMAIN wjobs' =>
                   id \in DOMAIN wjobs /\ (Upload /\ wjobs[id].files => wjobs'[id].files)
  <2>0. Owned(L, wjobs, disk[id], id)
    BY <1>13, WriterSame
  <2>1. CASE wjobs' = wjobs
    BY <2>0, <2>1, <1>5
  <2>2. CASE /\ Upload /\ id \in DOMAIN wjobs
             /\ wjobs' = [wjobs EXCEPT ![id] = confirm_write(wjobs[id], SM.num, SM.n, disk[id])]
    <3> DEFINE d == disk[id]
               V == wjobs'
    <3>1. id \in DOMAIN V /\ V[id] = confirm_write(wjobs[id], SM.num, SM.n, d)
      BY <2>2, TableOthers
    <3>2. wjobs[id] \in WriteJob
      BY <2>2, <1>8 DEF Writers
    <3>3. SM.n = Skip => (d[SM.num].download => SM.num \in L)
      <4> SUFFICES ASSUME SM.n = Skip PROVE d[SM.num].download => SM.num \in L
        OBVIOUS
      <4>1. SM \in Hold(Upload, id, SM.num)
        BY <1>3, <2>2 DEF Hold, About, id
      <4>2. Unsent(Upload, Range(rjobs), InFlight, ask, id, SM.num)
        BY <4>1, <1>7 DEF Unsent
      <4> QED BY <4>2, <1>13, <1>3 DEF Tidy
    <3> HIDE DEF d, V
    <3>4. Owned(L, wjobs, d, id)
      BY <2>0 DEF d
    <3>5. Owned(L, V, d, id) /\ (wjobs[id].files => V[id].files)
      BY <1>3, <2>2, <3>1, <3>2, <3>3, <3>4, PartConfirmed
    <3> QED BY <2>2, <3>5, <1>5 DEF d, V
  <2> QED BY <1>6, <2>1, <2>2
<1>14. \A x : disk'[x] = disk[x]
  BY <1>5
<1> QED BY <1>1, <1>2, <1>4, <1>5, <1>7, <1>10, <1>11, <1>13, <1>14, ServerTidies DEF id

\* The manager looks at its files, or asks.
LEMMA CheckDigestTidies == TidyInv /\ CheckDigest => TidyInv'
<1> SUFFICES ASSUME TidyInv, CheckDigest PROVE TidyInv'
  OBVIOUS
<1>1. FromClient("digest") /\ OneOffer
  BY DEF CheckDigest, TidyInv
<1>2. OneOffer'
  BY <1>1, CheckDigestKeeps
<1> DEFINE id == SM.id
           L == Leftover[mode]
           t == is_write_need_confirmation(SM.n = 1, disk[SM.id][SM.num])
           a == IF t = NoSuchFile THEN Msg("confirm", SM.id, SM.num, 0) ELSE Msg("need", SM.id, SM.num, t)
<1>3. /\ SM \in ToServer(Upload) /\ SM \in Message /\ id \in Job /\ SM.t = "digest" /\ SM.num \in File
  BY <1>1, GotFromClient DEF Sound
<1>4. SM \notin Starts(id) /\ SM \notin Cancels(id) /\ Upload
  BY <1>3 DEF Starts, Cancels, ToServer, FromReader
<1>5. mode' = mode /\ ask' = ask /\ ui' = ui /\ saved' = saved /\ up' = up /\ lost' = lost /\ faults' = faults
      /\ ipc' = ipc /\ disk' = disk /\ rjobs' = rjobs /\ wjobs' = wjobs
  BY DEF CheckDigest, sender
<1>6. toClient' = toClient \/ toClient' = toClient \o <<a>>
  BY DEF CheckDigest, SM, Answer
<1>7. Flying(toServer', toClient, ipc) \subseteq InFlight
  BY <1>1, TakenFromClient
<1>8. /\ Range(rjobs) \in SUBSET Reader /\ disk \in [Job -> Disk]
  BY <1>1, Views
<1>9. t \in {NoSuchFile} \cup Nat
  BY <1>3, <1>8, NeedType DEF Disk
<1>10. a \in Message /\ a.id = id /\ a.t \in {"confirm", "need"} /\ (a.t = "confirm" => a.n = 0)
  <2> HIDE DEF t
  <2> DEFINE num == SM.num
  <2>0. num \in Num /\ 0 \in Int /\ (t # NoSuchFile => t \in Int)
    BY <1>3, <1>9, Constants
  <2> HIDE DEF num, id
  <2>1. CASE t = NoSuchFile
    <3>1. a = Msg("confirm", id, num, 0)
      BY <2>1 DEF num, id
    <3>2. LET b == Msg("confirm", id, num, 0)
          IN  b \in Message /\ b.id = id /\ b.t = "confirm" /\ b.n = 0
      BY <1>3, <2>0, MsgType
    <3> HIDE DEF a
    <3> QED BY <3>1, <3>2
  <2>2. CASE t # NoSuchFile
    <3>1. a = Msg("need", id, num, t)
      BY <2>2 DEF num, id
    <3>2. LET b == Msg("need", id, num, t)
          IN  b \in Message /\ b.id = id /\ b.t = "need"
      BY <1>3, <2>0, <2>2, MsgType
    <3> HIDE DEF a
    <3> QED BY <3>1, <3>2
  <2> QED BY <2>1, <2>2
<1> HIDE DEF a
<1>11. \A f \in File : a \notin Hold(Upload, id, f)
  BY <1>4, <1>10 DEF Hold, Skip
<1>12. Range(toClient \o <<a>>) = Range(toClient) \cup {a}
  BY <1>1, <1>10, Added
<1>13. \A m \in Flying(toServer', toClient', ipc') : m \in InFlight \/
           /\ m.id = id /\ (m.t = "error" => faults' # 0) /\ m.t # "block"
           /\ \A f \in File : m \notin Hold(Upload, id, f)
  BY <1>5, <1>6, <1>7, <1>10, <1>11, <1>12 DEF Flying
<1>14. Fwd(Upload, Range(rjobs), InFlight, ask, Range(rjobs'), id)
  BY <1>5, <1>8, SameReaders
<1>15. Tidy(Upload, L, Range(rjobs), InFlight, ask, wjobs, disk[id], id) =>
         /\ Owned(L, wjobs', disk'[id], id)
         /\ \A f \in File : disk'[id][f].download => disk[id][f].download
         /\ id \in DOMAIN wjobs' => id \in DOMAIN wjobs /\ (Upload /\ wjobs[id].files => wjobs'[id].files)
  BY <1>5, WriterSame
<1>16. \A x : /\ disk'[x] = disk[x]
              /\ x \in DOMAIN wjobs <=> x \in DOMAIN wjobs'
              /\ x \in DOMAIN wjobs => wjobs'[x] = wjobs[x]
  BY <1>5
<1>17. \A k \in Range(rjobs') : k.id # SM.id => k \in Range(rjobs)
  BY <1>5
<1> HIDE DEF id
<1> QED BY <1>1, <1>2, <1>4, <1>5, <1>13, <1>14, <1>15, <1>16, <1>17, ServerTidies DEF id

\* A block is written: since it is on its way, nothing holds its file back.
LEMMA BlockTidies ==
  ASSUME TidyInv, NEW m \in InFlight, m.t = "block", m.num \in File, m.n \in {Eof} \cup Block,
         m.id \in Job, m.id \in DOMAIN wjobs, Upload \/ wjobs[m.id].files, Write(m),
         Tidy(Upload, Leftover[mode], Range(rjobs), InFlight, ask, wjobs, disk[m.id], m.id),
         Ends(Upload, toServer, wjobs, ui[m.id], m.id)
  PROVE  /\ \A f \in File : Unsent(Upload, Range(rjobs), InFlight, ask, m.id, f) /\ disk'[m.id][f].download =>
                              f \in Leftover[mode] \/ disk[m.id][f].download
         /\ Owned(Leftover[mode], wjobs', disk'[m.id], m.id)
         /\ wjobs'[m.id].files
<1> DEFINE id == m.id
           L == Leftover[mode]
           d == disk[id]
           e == Written(wjobs[id], m.num, m.n, d)
           V == wjobs'
<1>1. OneOffer
  BY DEF TidyInv
<1>2. Writers(wjobs) /\ disk \in [Job -> Disk] /\ InFlight \subseteq Message
  BY <1>1, Views
<1>3. wjobs[id] \in WriteJob /\ d \in Disk
  BY <1>2 DEF Writers
<1>4. wjobs[id].files
  BY DEF Ends
<1>5. disk'[id] = e
  BY <1>2, DiskOthers DEF Write
<1>6. id \in DOMAIN V /\ V[id] = write(wjobs[id], m.num)
  BY TableOthers DEF Write
<1>7. ~Unsent(Upload, Range(rjobs), InFlight, ask, id, m.num)
  <2>1. m \in Blocks(id, m.num)
    BY <1>2 DEF Blocks, About
  <2> QED BY <2>1 DEF Tidy
<1>8. Owned(L, wjobs, d, id)
  BY WriterSame
<1> HIDE DEF V, d
<1>9. /\ Owned(L, V, e, id)
      /\ \A f \in File : f # m.num /\ e[f].download => d[f].download
      /\ V[id].files
  BY <1>3, <1>4, <1>6, <1>8, PartWritten
<1> HIDE DEF e
<1> QED BY <1>5, <1>7, <1>9 DEF V, d

\* The server writes a block of an upload.
LEMMA WriteBlockTidies == TidyInv /\ WriteBlock => TidyInv'
<1> SUFFICES ASSUME TidyInv, WriteBlock PROVE TidyInv'
  OBVIOUS
<1>1. FromClient("block") /\ OneOffer
  BY DEF WriteBlock, TidyInv
<1>2. OneOffer'
  BY <1>1, WriteBlockKeeps
<1> DEFINE id == SM.id
           L == Leftover[mode]
           b == Msg("error", id, SM.num, 0)
<1>3. /\ SM \in ToServer(Upload) /\ SM \in Message /\ id \in Job /\ SM.t = "block" /\ SM.num \in File
      /\ SM.n \in {Eof} \cup Block /\ SM.num \in Num
  BY <1>1, GotFromClient DEF Sound
<1>4. SM \notin Starts(id) /\ SM \notin Cancels(id) /\ Upload
  BY <1>3 DEF Starts, Cancels, ToServer, FromReader
<1>5. mode' = mode /\ ask' = ask /\ ui' = ui /\ saved' = saved /\ up' = up /\ lost' = lost
      /\ ipc' = ipc /\ rjobs' = rjobs
  BY DEF WriteBlock, sender
<1>6. \/ id \in DOMAIN wjobs /\ Write(SM) /\ toClient' = toClient /\ faults' = faults
      \/ id \in DOMAIN wjobs /\ WriteFails(SM) /\ toClient' = toClient \o <<b>>
      \/ id \notin DOMAIN wjobs /\ wjobs' = wjobs /\ disk' = disk /\ toClient' = toClient /\ faults' = faults
  BY DEF WriteBlock, SM, Answer
<1>7. Flying(toServer', toClient, ipc) \subseteq InFlight /\ SM \in InFlight
  BY <1>1, TakenFromClient
<1>8. /\ Range(rjobs) \in SUBSET Reader /\ disk \in [Job -> Disk]
  BY <1>1, Views
<1>9. WriteFails(SM) => faults' # 0
  BY FaultCounts DEF WriteFails
<1>10. b \in Message /\ b.id = id /\ b.t = "error"
  BY <1>3, MsgType
<1> HIDE DEF b
<1>11. \A f \in File : b \notin Hold(Upload, id, f)
  BY <1>4, <1>10 DEF Hold
<1>12. Range(toClient \o <<b>>) = Range(toClient) \cup {b}
  BY <1>1, <1>10, Added
<1>13. \A m \in Flying(toServer', toClient', ipc') : m \in InFlight \/
           /\ m.id = id /\ (m.t = "error" => faults' # 0) /\ m.t # "block"
           /\ \A f \in File : m \notin Hold(Upload, id, f)
  BY <1>5, <1>6, <1>7, <1>9, <1>10, <1>11, <1>12 DEF Flying
<1>14. Fwd(Upload, Range(rjobs), InFlight, ask, Range(rjobs'), id)
  BY <1>5, <1>8, SameReaders
<1>15. ASSUME faults' = 0, Tidy(Upload, L, Range(rjobs), InFlight, ask, wjobs, disk[id], id),
              Ends(Upload, toServer, wjobs, ui[id], id)
       PROVE  /\ Owned(L, wjobs', disk'[id], id)
              /\ \A f \in File : Unsent(Upload, Range(rjobs), InFlight, ask, id, f) /\ disk'[id][f].download =>
                                   f \in L \/ disk[id][f].download
              /\ id \in DOMAIN wjobs' => id \in DOMAIN wjobs /\ (Upload /\ wjobs[id].files => wjobs'[id].files)
  <2>1. CASE wjobs' = wjobs /\ disk' = disk
    BY <1>15, <2>1, WriterSame
  <2>2. CASE id \in DOMAIN wjobs /\ Write(SM)
    <3>1. /\ Owned(L, wjobs', disk'[id], id) /\ wjobs'[id].files
          /\ \A f \in File : Unsent(Upload, Range(rjobs), InFlight, ask, id, f) /\ disk'[id][f].download =>
                                   f \in L \/ disk[id][f].download
      BY <1>15, <2>2, <1>3, <1>4, <1>7, BlockTidies
    <3> QED BY <2>2, <3>1
  <2> QED BY <1>6, <1>9, <1>15, <2>1, <2>2
<1>16. \A x \in Job : x # id =>
           /\ disk'[x] = disk[x]
           /\ x \in DOMAIN wjobs <=> x \in DOMAIN wjobs'
           /\ x \in DOMAIN wjobs => wjobs'[x] = wjobs[x]
  BY <1>3, <1>6, <1>8, TableOthers, DiskOthers DEF Write, WriteFails
<1>17. \A k \in Range(rjobs') : k.id # SM.id => k \in Range(rjobs)
  BY <1>5
<1>18. faults' = 0 => faults = 0
  BY <1>6, <1>9
<1> HIDE DEF id
<1> QED BY <1>1, <1>2, <1>4, <1>5, <1>13, <1>14, <1>15, <1>16, <1>17, <1>18, ServerTidies DEF id

\* The server finishes an upload.
LEMMA WriteDoneTidies == TidyInv /\ WriteDone => TidyInv'
<1> SUFFICES ASSUME TidyInv, WriteDone PROVE TidyInv'
  OBVIOUS
<1>1. FromClient("done") /\ OneOffer
  BY DEF WriteDone, TidyInv
<1>2. OneOffer'
  BY <1>1, WriteDoneKeeps
<1> DEFINE id == SM.id
           L == Leftover[mode]
           a == Msg("done", id, SM.num, 0)
<1>3. /\ SM \in ToServer(Upload) /\ SM \in Message /\ id \in Job /\ SM.t = "done" /\ SM.num \in Num
  BY <1>1, GotFromClient
<1>4. SM \notin Starts(id) /\ SM \notin Cancels(id) /\ Upload
  BY <1>3 DEF Starts, Cancels, ToServer, FromReader
<1>5. mode' = mode /\ ask' = ask /\ ui' = ui /\ saved' = saved /\ up' = up /\ lost' = lost /\ faults' = faults
      /\ ipc' = ipc /\ rjobs' = rjobs
  BY DEF WriteDone, sender
<1>6. \/ /\ id \in DOMAIN wjobs /\ wjobs' = Without(id) /\ toClient' = toClient \o <<a>>
         /\ disk' = [disk EXCEPT ![id] = modify_time(wjobs[id], disk[id])]
      \/ wjobs' = wjobs /\ disk' = disk /\ toClient' = toClient
  BY DEF WriteDone, SM, Answer
<1>7. Flying(toServer', toClient, ipc) \subseteq InFlight
  BY <1>1, TakenFromClient
<1>8. /\ Range(rjobs) \in SUBSET Reader /\ disk \in [Job -> Disk] /\ Writers(wjobs)
  BY <1>1, Views
<1>10. a \in Message /\ a.id = id /\ a.t = "done"
  BY <1>3, MsgType
<1> HIDE DEF a
<1>11. \A f \in File : a \notin Hold(Upload, id, f)
  BY <1>4, <1>10 DEF Hold
<1>12. Range(toClient \o <<a>>) = Range(toClient) \cup {a}
  BY <1>1, <1>10, Added
<1>13. \A m \in Flying(toServer', toClient', ipc') : m \in InFlight \/
           /\ m.id = id /\ (m.t = "error" => faults' # 0) /\ m.t # "block"
           /\ \A f \in File : m \notin Hold(Upload, id, f)
  BY <1>5, <1>6, <1>7, <1>10, <1>11, <1>12 DEF Flying
<1>14. Fwd(Upload, Range(rjobs), InFlight, ask, Range(rjobs'), id)
  BY <1>5, <1>8, SameReaders
<1> HIDE DEF id
<1>15. ASSUME Tidy(Upload, L, Range(rjobs), InFlight, ask, wjobs, disk[id], id)
       PROVE  /\ Owned(L, wjobs', disk'[id], id)
              /\ \A f \in File : disk'[id][f].download => disk[id][f].download
              /\ id \in DOMAIN wjobs' => id \in DOMAIN wjobs /\ (Upload /\ wjobs[id].files => wjobs'[id].files)
  <2>0. Owned(L, wjobs, disk[id], id)
    BY <1>15, WriterSame
  <2>1. CASE wjobs' = wjobs /\ disk' = disk
    BY <2>0, <2>1
  <2>2. CASE /\ id \in DOMAIN wjobs /\ wjobs' = Without(id)
             /\ disk' = [disk EXCEPT ![id] = modify_time(wjobs[id], disk[id])]
    <3>1. disk'[id] = modify_time(wjobs[id], disk[id])
      BY <2>2, <1>3, <1>8, DiskOthers DEF id
    <3>2. wjobs[id] \in WriteJob /\ disk[id] \in Disk
      BY <2>2, <1>3, <1>8 DEF Writers
    <3>3. Clean(L, disk'[id]) /\ \A f \in File : disk'[id][f].download => disk[id][f].download
      BY <2>0, <2>2, <3>1, <3>2, PartRemoved
    <3> QED BY <2>2, <3>3, CleanOwned, TableOthers
  <2> QED BY <1>6, <2>1, <2>2
<1>16. \A x \in Job : x # id =>
           /\ disk'[x] = disk[x]
           /\ x \in DOMAIN wjobs <=> x \in DOMAIN wjobs'
           /\ x \in DOMAIN wjobs => wjobs'[x] = wjobs[x]
  BY <1>3, <1>6, <1>8, TableOthers, DiskOthers
<1>17. \A k \in Range(rjobs') : k.id # SM.id => k \in Range(rjobs)
  BY <1>5
<1> QED BY <1>1, <1>2, <1>4, <1>5, <1>13, <1>14, <1>15, <1>16, <1>17, ServerTidies DEF id

\* The server hears of an error of the client, so there was one.
LEMMA WriteErrorTidies == TidyInv /\ WriteError => TidyInv'
<1> SUFFICES ASSUME TidyInv, WriteError PROVE TidyInv'
  OBVIOUS
<1>0. PICK t \in {"error", "skipped"} : FromClient(t)
  BY DEF WriteError
<1>1. FromClient(t) /\ OneOffer
  BY <1>0 DEF TidyInv
<1>2. OneOffer'
  BY <1>1, WriteErrorKeeps
<1> DEFINE id == SM.id
           L == Leftover[mode]
<1>3. /\ SM \in ToServer(Upload) /\ SM \in Message /\ id \in Job /\ SM.t = t
  BY <1>1, GotFromClient
<1>4. SM \notin Starts(id) /\ SM \notin Cancels(id) /\ Upload
  BY <1>3 DEF Starts, Cancels, ToServer, FromReader
<1>5. mode' = mode /\ ask' = ask /\ ui' = ui /\ saved' = saved /\ up' = up /\ lost' = lost /\ faults' = faults
      /\ ipc' = ipc /\ rjobs' = rjobs /\ disk' = disk
  BY DEF WriteError, sender
<1>6. \/ id \in DOMAIN wjobs /\ wjobs' = Without(id) /\ toClient' = toClient \o <<SM>>
      \/ wjobs' = wjobs /\ toClient' = toClient
  BY DEF WriteError, SM, Answer
<1>7. Flying(toServer', toClient, ipc) \subseteq InFlight /\ SM \in InFlight
  BY <1>1, TakenFromClient
<1>8. Range(rjobs) \in SUBSET Reader
  BY <1>1, Views
<1>12. Range(toClient \o <<SM>>) = Range(toClient) \cup {SM}
  BY <1>1, <1>3, Added
<1>13. \A m \in Flying(toServer', toClient', ipc') : m \in InFlight
  BY <1>5, <1>6, <1>7, <1>12 DEF Flying
<1>14. Fwd(Upload, Range(rjobs), InFlight, ask, Range(rjobs'), id)
  BY <1>5, <1>8, SameReaders
<1> HIDE DEF id
<1>15. ASSUME faults' = 0, Tidy(Upload, L, Range(rjobs), InFlight, ask, wjobs, disk[id], id)
       PROVE  /\ Owned(L, wjobs', disk'[id], id)
              /\ \A f \in File : disk'[id][f].download => disk[id][f].download
              /\ id \in DOMAIN wjobs' => id \in DOMAIN wjobs /\ (Upload /\ wjobs[id].files => wjobs'[id].files)
  <2>0. Owned(L, wjobs, disk[id], id)
    BY <1>15, WriterSame
  <2>1. CASE wjobs' = wjobs
    BY <2>0, <2>1, <1>5
  <2>2. CASE wjobs' = Without(id)
    <3>1. t = "skipped"
      BY <1>0, <1>3, <1>5, <1>7, <1>15 DEF TidyInv, NoErrors
    <3>2. \A f \in File : Unsent(Upload, Range(rjobs), InFlight, ask, id, f)
      BY <3>1, <1>3, <1>4, <1>7 DEF Unsent, Hold, About, id
    <3>3. Clean(L, disk[id])
      BY <3>2, <1>15 DEF Tidy, Clean
    <3> QED BY <2>2, <3>3, <1>5, CleanOwned, TableOthers
  <2> QED BY <1>6, <2>1, <2>2
<1>16. \A x \in Job : x # id =>
           /\ x \in DOMAIN wjobs <=> x \in DOMAIN wjobs'
           /\ x \in DOMAIN wjobs => wjobs'[x] = wjobs[x]
  BY <1>6, TableOthers
<1>17. \A k \in Range(rjobs') : k.id # SM.id => k \in Range(rjobs)
  BY <1>5
<1>18. \A x : disk'[x] = disk[x]
  BY <1>5
<1> QED BY <1>1, <1>2, <1>4, <1>5, <1>13, <1>14, <1>15, <1>16, <1>17, <1>18, ServerTidies DEF id

\* Every handler of the server.
LEMMA ServerStepTidies == TidyInv /\ ServerStep => TidyInv'
BY ServerSendTidies, ServerReceiveTidies, ServerCancelTidies, ServerConfirmTidies, CheckDigestTidies,
   WriteBlockTidies, WriteDoneTidies, WriteErrorTidies DEF ServerStep

\* The manager's messages are passed on.
LEMMA FromCMTidies == TidyInv /\ FromCM => TidyInv'
<1> SUFFICES ASSUME TidyInv, FromCM PROVE TidyInv'
  OBVIOUS
<1>1. OneOffer /\ up /\ ipc # << >>
  BY DEF TidyInv, FromCM
<1>2. OneOffer'
  BY <1>1, FromCMKeeps
<1> DEFINE m == Head(ipc)
           L == Leftover[mode]
<1>3. /\ mode' = mode /\ ask' = ask /\ ui' = ui /\ saved' = saved /\ up' = up /\ lost' = lost /\ faults' = faults
      /\ rjobs' = rjobs /\ wjobs' = wjobs /\ disk' = disk /\ toServer' = toServer
      /\ ipc' = Tail(ipc) /\ (toClient' = toClient \/ toClient' = Append(toClient, m))
  BY DEF FromCM
<1>4. ipc \in Seq(Told(InCM)) /\ InFlight \subseteq Message /\ Range(rjobs) \in SUBSET Reader
  BY <1>1, Views
<1>5. m \in Range(ipc) /\ Range(ipc') \subseteq Range(ipc)
  BY <1>1, <1>3, <1>4, RangeTail
<1>6. m \in InFlight /\ m.id \in Job /\ m \in Message
  BY <1>4, <1>5 DEF InFlight, Flying, Message
<1> HIDE DEF m
<1>7. Flying(toServer', toClient', ipc') \subseteq InFlight
  <2>1. Range(Append(toClient, m)) = Range(toClient) \cup {m}
    BY <1>1, <1>6, Added
  <2> QED BY <2>1, <1>3, <1>5, <1>6 DEF InFlight, Flying
<1> DEFINE id == m.id
           N == Flying(toServer', toClient', ipc')
<1>8. ASSUME Tidy(Upload, L, Range(rjobs), InFlight, ask, wjobs, disk[id], id)
      PROVE  Tidy(Upload, L, Range(rjobs), N, ask, wjobs, disk[id], id)
  <2> HIDE DEF N, id
  <2>1. \A k \in N : k.id = id => k \in InFlight
    BY <1>7 DEF N
  <2> QED BY <1>8, <1>4, <2>1, OtherJobs
<1>9. TidyJob(Upload, L, rjobs, toServer, toClient, ipc, ask, wjobs, disk, ui, id) =>
        TidyJob(Upload, L, rjobs', toServer', toClient', ipc', ask', wjobs', disk', ui', id)
  BY <1>3, <1>8 DEF TidyJob, InFlight
<1>10. Streams(toServer, toServer', id)
  BY <1>3 DEF Streams
<1>11. \A x : /\ ui'[x] = ui[x] /\ disk'[x] = disk[x]
              /\ x \in DOMAIN wjobs <=> x \in DOMAIN wjobs'
              /\ x \in DOMAIN wjobs => wjobs'[x] = wjobs[x]
  BY <1>3
<1>12. \A k \in Range(rjobs') : k \in Range(rjobs)
  BY <1>3
<1> HIDE DEF id
<1>13. id \in Job
  BY <1>6 DEF id
<1> QED BY <1>1, <1>2, <1>3, <1>7, <1>9, <1>10, <1>11, <1>12, <1>13, JobTidies

\* A step of the client keeps the invariant if it touches one job only and
\* sends a confirmation at most.
LEMMA ClientTidies ==
  ASSUME TidyInv, NEW id \in Job, up, OneOffer', Range(toClient') \subseteq Range(toClient),
         mode' = mode /\ ipc' = ipc /\ saved' = saved /\ up' = up /\ lost' = lost,
         faults' = 0 => faults = 0,
         \A x \in Job : x # id =>
           /\ ui'[x] = ui[x] /\ disk'[x] = disk[x]
           /\ x \in DOMAIN wjobs <=> x \in DOMAIN wjobs'
           /\ x \in DOMAIN wjobs => wjobs'[x] = wjobs[x],
         ui'[id] \in Going => ui'[id] = ui[id],
         \A k \in Range(rjobs') : k.id # id => k \in Range(rjobs),
         \A x \in Job, f \in File : x # id /\ <<x, f>> \in ask' => <<x, f>> \in ask,
         \/ toServer' = toServer
         \/ \E a \in ToServer(Upload) :
              /\ a.id = id /\ a.t = "confirm" /\ toServer' = Append(toServer, a)
              /\ \A f \in File : a \in Hold(Upload, id, f) =>
                   /\ Unsent(Upload, Range(rjobs), InFlight, ask, id, f)
                   /\ \A k \in Range(rjobs') : k.id = id => f < k.num,
         (/\ faults' = 0 /\ ui'[id] \in Going
          /\ Tidy(Upload, Leftover[mode], Range(rjobs), InFlight, ask, wjobs, disk[id], id)
          /\ Ends(Upload, toServer, wjobs, ui[id], id)) =>
                /\ Fwd(Upload, Range(rjobs), InFlight, ask, Range(rjobs'), id)
                /\ ~Upload => \A f \in File : <<id, f>> \in ask' =>
                                Unsent(Upload, Range(rjobs), InFlight, ask, id, f)
                /\ \A f \in File : Unsent(Upload, Range(rjobs), InFlight, ask, id, f) /\ disk'[id][f].download =>
                                   f \in Leftover[mode] \/ disk[id][f].download
                /\ Owned(Leftover[mode], wjobs', disk'[id], id)
                /\ id \in DOMAIN wjobs' =>
                     id \in DOMAIN wjobs /\ (Upload /\ wjobs[id].files => wjobs'[id].files)
  PROVE  TidyInv'
<1> DEFINE L == Leftover[mode]
           J == Range(rjobs)
           K == Range(rjobs')
           N == Flying(toServer', toClient', ipc')
           T == ToServer(Upload)
<1>0. OneOffer
  BY DEF TidyInv
<1>1. toServer \in Seq(T) /\ J \in SUBSET Reader
  BY <1>0, Views
<1>2. \A a \in T : a \in Message
  BY DEF ToServer
<1>3. K \in SUBSET Reader
  <2>1. rjobs' \in Seq(Reader)
    BY DEF OneOffer, Good
  <2> QED BY <2>1, RangeType
<1>4. \A m \in N : m \in InFlight \/
        /\ m.id = id /\ m.t = "confirm"
        /\ \A f \in File : m \in Hold(Upload, id, f) =>
             /\ Unsent(Upload, J, InFlight, ask, id, f)
             /\ \A k \in K : k.id = id => f < k.num
  <2> HIDE DEF T, J, K
  <2>1. CASE toServer' = toServer
    BY <2>1 DEF InFlight, Flying
  <2>2. ASSUME NEW a \in T, a.id = id /\ a.t = "confirm" /\ toServer' = Append(toServer, a),
               \A f \in File : a \in Hold(Upload, id, f) =>
                   /\ Unsent(Upload, J, InFlight, ask, id, f)
                   /\ \A k \in K : k.id = id => f < k.num
        PROVE  \A m \in N : m \in InFlight \/
                /\ m.id = id /\ m.t = "confirm"
                /\ \A f \in File : m \in Hold(Upload, id, f) =>
                     /\ Unsent(Upload, J, InFlight, ask, id, f)
                     /\ \A k \in K : k.id = id => f < k.num
    <3>1. Range(Append(toServer, a)) = Range(toServer) \cup {a}
      BY <1>0, <1>2, Added
    <3>2. \A m \in N : m \in InFlight \/ m = a
      BY <3>1, <2>2 DEF InFlight, Flying
    <3> QED BY <3>2, <2>2
  <2> QED BY <2>1, <2>2 DEF T, J, K
<1>5. Streams(toServer, toServer', id)
  BY DEF Streams
<1>6. ASSUME faults' = 0, ui'[id] \in Going,
             TidyJob(Upload, L, rjobs, toServer, toClient, ipc, ask, wjobs, disk, ui, id)
      PROVE  TidyJob(Upload, L, rjobs', toServer', toClient', ipc', ask', wjobs', disk', ui', id)
  <2>1. Tidy(Upload, L, J, InFlight, ask, wjobs, disk[id], id) /\ Ends(Upload, toServer, wjobs, ui[id], id)
    BY <1>6 DEF TidyJob, InFlight
  <2>2. /\ Fwd(Upload, J, InFlight, ask, K, id)
        /\ ~Upload => \A f \in File : <<id, f>> \in ask' => Unsent(Upload, J, InFlight, ask, id, f)
        /\ \A f \in File : Unsent(Upload, J, InFlight, ask, id, f) /\ disk'[id][f].download =>
                             f \in L \/ disk[id][f].download
        /\ Owned(L, wjobs', disk'[id], id)
        /\ id \in DOMAIN wjobs' =>
             id \in DOMAIN wjobs /\ (Upload /\ wjobs[id].files => wjobs'[id].files)
    BY <1>6, <2>1
  <2>3. \A m \in N : m.id = id => m \in InFlight \/
           \A f \in File :
             /\ m \in Hold(Upload, id, f) => Unsent(Upload, J, InFlight, ask, id, f)
             /\ m \in Hold(Upload, id, f) => \A k \in K : Upload /\ k.id = id => f < k.num
             /\ m \in Blocks(id, f) => ~Unsent(Upload, K, N, ask', id, f)
    <3> HIDE DEF N, K, J
    <3>1. \A m, f : m.t = "confirm" => m \notin Blocks(id, f)
      BY DEF Blocks
    <3> QED BY <1>4, <3>1
  <2> HIDE DEF J, K, N, L, T
  <2>5. Tidy(Upload, L, K, N, ask', wjobs', disk'[id], id)
    BY <2>1, <2>2, <2>3, <1>1, <1>3, TidyStep
  <2>6. Ends(Upload, toServer', wjobs', ui[id], id)
    <3>1. CASE toServer' = toServer
      BY <2>1, <2>2, <3>1, EndsSame
    <3>2. CASE \E a \in T : a.id = id /\ a.t = "confirm" /\ toServer' = Append(toServer, a)
      <4>1. PICK a \in T : a.t = "confirm" /\ toServer' = Append(toServer, a)
        BY <3>2
      <4>2. a \notin Starts(id) /\ ~Has(<<a>>, Starts(id))
        BY <4>1, SingleHas DEF Starts
      <4>3. <<a>> \in Seq(T) /\ Append(toServer, a) = toServer \o <<a>>
        BY <1>1, Putting
      <4>4. Ends(Upload, toServer \o <<a>>, wjobs', ui[id], id)
        BY <1>1, <2>1, <2>2, <4>2, <4>3, EndsGrow
      <4> QED BY <4>1, <4>3, <4>4
    <3> QED BY <3>1, <3>2 DEF T
  <2>7. ui'[id] = ui[id]
    BY <1>6
  <2> QED BY <2>5, <2>6, <2>7 DEF TidyJob, N, K
<1>7. \A m \in N : m \in InFlight \/ (m.id = id /\ (m.t = "error" => faults' # 0))
  <2> HIDE DEF N
  <2> QED BY <1>4
<1>8. \A k \in K : k.id # id => k \in J
  OBVIOUS
<1> HIDE DEF T
<1>9. saved[id] = 0 /\ ui'[id] \in Going => ui[id] \in Going
  OBVIOUS
<1> QED BY <1>0, <1>5, <1>6, <1>7, <1>8, <1>9, JobTidies

\* The client takes a message.
LEMMA TakenFromServer ==
  ASSUME TidyInv, NEW t, FromServer(t)
  PROVE  /\ CM \in InFlight /\ CM \in Range(toClient)
         /\ Range(toClient') \subseteq Range(toClient)
         /\ CM \in ToClient(Upload) /\ CM \in Message /\ CM.id \in Job /\ CM.num \in Num
         /\ CM.t = t /\ Sound(CM) /\ up
         /\ CM \in OfferC(Upload, CM.id) => For(CM, rjobs)
<1>1. OneOffer
  BY DEF TidyInv
<1>2. toClient \in Seq(ToClient(Upload))
  BY <1>1, Views
<1>3. CM \in Range(toClient) /\ Range(toClient') \subseteq Range(toClient)
  BY <1>2, RangeTail DEF FromServer, CM
<1> QED BY <1>1, <1>3, GotFromServer DEF InFlight, Flying

\* FileResponse::Dir.
LEMMA ClientDirTidies == TidyInv /\ ClientDir => TidyInv'
<1> SUFFICES ASSUME TidyInv, ClientDir PROVE TidyInv'
  OBVIOUS
<1>1. FromServer("dir") /\ OneOffer
  BY DEF ClientDir, TidyInv
<1>2. OneOffer'
  BY <1>1, ClientDirKeeps
<1> DEFINE id == CM.id
           L == Leftover[mode]
<1>3. id \in Job /\ up /\ Range(toClient') \subseteq Range(toClient)
  BY <1>1, TakenFromServer
<1>4. mode' = mode /\ ask' = ask /\ ui' = ui /\ saved' = saved /\ up' = up /\ lost' = lost /\ faults' = faults
      /\ ipc' = ipc /\ rjobs' = rjobs /\ disk' = disk /\ toServer' = toServer
  BY DEF ClientDir, sender
<1>5. wjobs' = wjobs \/ (id \in DOMAIN wjobs /\ wjobs' = [wjobs EXCEPT ![id].files = TRUE])
  BY DEF ClientDir, CM
<1>6. Range(rjobs) \in SUBSET Reader /\ Writers(wjobs)
  BY <1>1, Views
<1>7. Fwd(Upload, Range(rjobs), InFlight, ask, Range(rjobs'), id)
  BY <1>4, <1>6, SameReaders
<1>8. \A x : x # id => /\ x \in DOMAIN wjobs <=> x \in DOMAIN wjobs'
                       /\ x \in DOMAIN wjobs => wjobs'[x] = wjobs[x]
  BY <1>5
<1>9. id \in DOMAIN wjobs <=> id \in DOMAIN wjobs'
  BY <1>5
<1>10. id \in DOMAIN wjobs => wjobs'[id].num = wjobs[id].num /\ (wjobs[id].files => wjobs'[id].files)
  <2> SUFFICES ASSUME id \in DOMAIN wjobs
               PROVE  wjobs'[id].num = wjobs[id].num /\ (wjobs[id].files => wjobs'[id].files)
    OBVIOUS
  <2>1. wjobs[id] \in WriteJob
    BY <1>6 DEF Writers
  <2>2. wjobs'[id] = wjobs[id] \/ wjobs'[id] = [wjobs[id] EXCEPT !.files = TRUE]
    BY <1>5
  <2> QED BY <2>1, <2>2 DEF WriteJob
<1>11. Tidy(Upload, L, Range(rjobs), InFlight, ask, wjobs, disk[id], id) => Owned(L, wjobs', disk'[id], id)
  <2> SUFFICES ASSUME Tidy(Upload, L, Range(rjobs), InFlight, ask, wjobs, disk[id], id)
               PROVE  Owned(L, wjobs', disk[id], id)
    BY <1>4
  <2> QED BY <1>9, <1>10, WriterSame, OwnedSame
<1>12. \A f \in File : ~Upload /\ <<id, f>> \in ask' => Unsent(Upload, Range(rjobs), InFlight, ask, id, f)
  BY <1>4 DEF Unsent
<1>13. \A x : disk'[x] = disk[x] /\ ui'[x] = ui[x]
  BY <1>4
<1>14. \A k \in Range(rjobs') : k \in Range(rjobs)
  BY <1>4
<1> HIDE DEF id
<1> QED BY <1>2, <1>3, <1>4, <1>7, <1>8, <1>9, <1>10, <1>11, <1>12, <1>13, <1>14, ClientTidies

\* FileResponse::Block: written if the job is still there.
LEMMA ClientBlockTidies == TidyInv /\ ClientBlock => TidyInv'
<1> SUFFICES ASSUME TidyInv, ClientBlock PROVE TidyInv'
  OBVIOUS
<1>1. FromServer("block") /\ OneOffer
  BY DEF ClientBlock, TidyInv
<1>2. OneOffer'
  BY <1>1, ClientBlockKeeps
<1> DEFINE id == CM.id
           L == Leftover[mode]
<1>3. /\ id \in Job /\ up /\ Range(toClient') \subseteq Range(toClient) /\ CM \in InFlight /\ CM.t = "block"
      /\ CM.num \in File /\ CM.n \in {Eof} \cup Block
  BY <1>1, TakenFromServer DEF Sound
<1>4. mode' = mode /\ ask' = ask /\ ui' = ui /\ saved' = saved /\ up' = up /\ lost' = lost
      /\ ipc' = ipc /\ rjobs' = rjobs /\ toServer' = toServer
  BY DEF ClientBlock, sender
<1>5. \/ id \in DOMAIN wjobs /\ wjobs[id].files /\ Write(CM) /\ faults' = faults
      \/ id \in DOMAIN wjobs /\ WriteFails(CM)
      \/ wjobs' = wjobs /\ disk' = disk /\ faults' = faults
  BY DEF ClientBlock, CM
<1>6. Range(rjobs) \in SUBSET Reader /\ disk \in [Job -> Disk]
  BY <1>1, Views
<1>7. Fwd(Upload, Range(rjobs), InFlight, ask, Range(rjobs'), id)
  BY <1>4, <1>6, SameReaders
<1>8. WriteFails(CM) => faults' # 0
  BY FaultCounts DEF WriteFails
<1>9. ASSUME faults' = 0, Tidy(Upload, L, Range(rjobs), InFlight, ask, wjobs, disk[id], id),
             Ends(Upload, toServer, wjobs, ui[id], id)
      PROVE  /\ Owned(L, wjobs', disk'[id], id)
             /\ \A f \in File : Unsent(Upload, Range(rjobs), InFlight, ask, id, f) /\ disk'[id][f].download =>
                                  f \in L \/ disk[id][f].download
             /\ id \in DOMAIN wjobs' => id \in DOMAIN wjobs /\ (Upload /\ wjobs[id].files => wjobs'[id].files)
  <2>1. CASE wjobs' = wjobs /\ disk' = disk
    BY <1>9, <2>1, WriterSame
  <2>2. CASE id \in DOMAIN wjobs /\ wjobs[id].files /\ Write(CM)
    <3>1. /\ Owned(L, wjobs', disk'[id], id) /\ wjobs'[id].files
          /\ \A f \in File : Unsent(Upload, Range(rjobs), InFlight, ask, id, f) /\ disk'[id][f].download =>
                                   f \in L \/ disk[id][f].download
      BY <1>9, <2>2, <1>3, BlockTidies
    <3> QED BY <2>2, <3>1
  <2> QED BY <1>5, <1>8, <1>9, <2>1, <2>2
<1>10. \A x \in Job : x # id =>
           /\ ui'[x] = ui[x] /\ disk'[x] = disk[x]
           /\ x \in DOMAIN wjobs <=> x \in DOMAIN wjobs'
           /\ x \in DOMAIN wjobs => wjobs'[x] = wjobs[x]
  BY <1>3, <1>4, <1>5, <1>6, TableOthers, DiskOthers DEF Write, WriteFails
<1>11. \A k \in Range(rjobs') : k \in Range(rjobs)
  BY <1>4
<1>12. faults' = 0 => faults = 0
  BY <1>5, <1>8
<1>13. \A f \in File : ~Upload /\ <<id, f>> \in ask' => Unsent(Upload, Range(rjobs), InFlight, ask, id, f)
  BY <1>4 DEF Unsent
<1> HIDE DEF id
<1>14. ui'[id] = ui[id]
  BY <1>4
<1> QED BY <1>2, <1>3, <1>4, <1>7, <1>9, <1>10, <1>11, <1>12, <1>13, <1>14, ClientTidies

\* A job that ends by itself is no longer going, unless it was cancelled
\* before.
LEMMA StatusGoing ==
  ASSUME OneOffer, NEW id \in Job, NEW s, s \notin Going, handle_job_status(id, s)
  PROVE  /\ \A x \in Job : x # id => ui'[x] = ui[x]
         /\ ui'[id] \in Going => ui'[id] = ui[id] /\ ui[id] = "cancelled"
BY DEF OneOffer, Typed, handle_job_status

\* FileResponse::Done: the part is renamed, and the job is gone.
LEMMA ClientDoneTidies == TidyInv /\ ClientDone => TidyInv'
<1> SUFFICES ASSUME TidyInv, ClientDone PROVE TidyInv'
  OBVIOUS
<1>1. FromServer("done") /\ OneOffer
  BY DEF ClientDone, TidyInv
<1>2. OneOffer'
  BY <1>1, ClientDoneKeeps
<1> DEFINE id == CM.id
           L == Leftover[mode]
<1>3. /\ id \in Job /\ up /\ Range(toClient') \subseteq Range(toClient)
  BY <1>1, TakenFromServer
<1>4. mode' = mode /\ ask' = ask /\ saved' = saved /\ up' = up /\ lost' = lost /\ faults' = faults
      /\ ipc' = ipc /\ rjobs' = rjobs /\ toServer' = toServer
  BY DEF ClientDone, sender
<1>5. \/ /\ id \in DOMAIN wjobs /\ ~Upload /\ wjobs' = Without(id)
         /\ disk' = [disk EXCEPT ![id] = modify_time(wjobs[id], disk[id])]
      \/ wjobs' = wjobs /\ disk' = disk
  BY DEF ClientDone, CM
<1>6. Range(rjobs) \in SUBSET Reader /\ disk \in [Job -> Disk]
  BY <1>1, Views
<1>7. Fwd(Upload, Range(rjobs), InFlight, ask, Range(rjobs'), id)
  BY <1>4, <1>6, SameReaders
<1>8. /\ \A x \in Job : x # id => ui'[x] = ui[x]
      /\ ui'[id] \in Going => ui'[id] = ui[id] /\ ui[id] = "cancelled"
  <2>1. handle_job_status(id, "done") /\ "done" \notin Going
    BY DEF ClientDone, CM, Going
  <2> QED BY <1>1, <1>3, <2>1, StatusGoing
<1>9. ASSUME ui'[id] \in Going, Tidy(Upload, L, Range(rjobs), InFlight, ask, wjobs, disk[id], id),
             Ends(Upload, toServer, wjobs, ui[id], id)
      PROVE  /\ Owned(L, wjobs', disk'[id], id)
             /\ \A f \in File : disk'[id][f].download => disk[id][f].download
             /\ id \in DOMAIN wjobs' => id \in DOMAIN wjobs /\ (Upload /\ wjobs[id].files => wjobs'[id].files)
  <2>1. wjobs' = wjobs /\ disk' = disk
    BY <1>5, <1>8, <1>9 DEF Ends
  <2> QED BY <1>9, <2>1, WriterSame
<1>10. \A x \in Job : x # id =>
           /\ disk'[x] = disk[x]
           /\ x \in DOMAIN wjobs <=> x \in DOMAIN wjobs'
           /\ x \in DOMAIN wjobs => wjobs'[x] = wjobs[x]
  BY <1>3, <1>5, <1>6, TableOthers, DiskOthers
<1>11. \A k \in Range(rjobs') : k \in Range(rjobs)
  BY <1>4
<1>13. \A f \in File : ~Upload /\ <<id, f>> \in ask' => Unsent(Upload, Range(rjobs), InFlight, ask, id, f)
  BY <1>4 DEF Unsent
<1> HIDE DEF id
<1> QED BY <1>2, <1>3, <1>4, <1>7, <1>8, <1>9, <1>10, <1>11, <1>13, ClientTidies

\* FileResponse::Error: there was a fault.
LEMMA ClientErrorTidies == TidyInv /\ ClientError => TidyInv'
<1> SUFFICES ASSUME TidyInv, ClientError PROVE TidyInv'
  OBVIOUS
<1>0. PICK t \in {"error", "skipped"} : FromServer(t)
  BY DEF ClientError
<1>1. FromServer(t) /\ OneOffer
  BY <1>0 DEF TidyInv
<1>2. OneOffer'
  BY <1>1, ClientErrorKeeps
<1> DEFINE id == CM.id
           L == Leftover[mode]
<1>3. /\ id \in Job /\ up /\ Range(toClient') \subseteq Range(toClient)
  BY <1>1, TakenFromServer
<1>4. mode' = mode /\ ask' = ask /\ saved' = saved /\ up' = up /\ lost' = lost /\ faults' = faults
      /\ ipc' = ipc /\ disk' = disk /\ toServer' = toServer
  BY DEF ClientError
<1>5. /\ wjobs' = IF Upload THEN wjobs ELSE Without(id)
      /\ rjobs' = IF Upload THEN remove_job(id, rjobs) ELSE rjobs
  BY DEF ClientError, CM
<1>6. Range(rjobs) \in SUBSET Reader /\ disk \in [Job -> Disk]
  BY <1>1, Views
<1>11. Range(rjobs') \subseteq Range(rjobs)
  <2>1. \A k \in DOMAIN remove_job(id, rjobs) : \E i \in DOMAIN rjobs : remove_job(id, rjobs)[k] = rjobs[i]
    BY <1>1, <1>3, Readers, Removed
  <2> QED BY <2>1, <1>5 DEF Range
<1>7. Fwd(Upload, Range(rjobs), InFlight, ask, Range(rjobs'), id)
  BY <1>6, <1>11, SameReaders
<1>8. /\ \A x \in Job : x # id => ui'[x] = ui[x]
      /\ ui'[id] \in Going => ui'[id] = ui[id] /\ ui[id] = "cancelled"
  <2> DEFINE s == IF CM.t = "skipped" THEN "done" ELSE "error"
  <2>1. handle_job_status(id, s) /\ s \notin Going
    BY DEF ClientError, CM, Going
  <2> HIDE DEF s
  <2> QED BY <1>1, <1>3, <2>1, StatusGoing
<1> HIDE DEF id
<1>9. ASSUME ui'[id] \in Going, Tidy(Upload, L, Range(rjobs), InFlight, ask, wjobs, disk[id], id),
             Ends(Upload, toServer, wjobs, ui[id], id)
      PROVE  /\ Owned(L, wjobs', disk'[id], id)
             /\ \A f \in File : disk'[id][f].download => disk[id][f].download
             /\ id \in DOMAIN wjobs' => id \in DOMAIN wjobs /\ (Upload /\ wjobs[id].files => wjobs'[id].files)
  <2>0. Owned(L, wjobs, disk[id], id)
    BY <1>9, WriterSame
  <2>1. CASE Upload
    BY <2>0, <2>1, <1>4, <1>5
  <2>2. CASE ~Upload
    <3>1. id \notin DOMAIN wjobs /\ id \notin DOMAIN wjobs'
      BY <2>2, <1>5, <1>8, <1>9, TableOthers DEF Ends
    <3> QED BY <2>0, <3>1, <1>4, CleanOwned
  <2> QED BY <2>1, <2>2
<1>10. \A x \in Job : x # id =>
           /\ x \in DOMAIN wjobs <=> x \in DOMAIN wjobs'
           /\ x \in DOMAIN wjobs => wjobs'[x] = wjobs[x]
  BY <1>5, TableOthers
<1>12. \A x : disk'[x] = disk[x]
  BY <1>4
<1>14. \A k \in Range(rjobs') : k \in Range(rjobs)
  BY <1>11
<1>13. \A f \in File : ~Upload /\ <<id, f>> \in ask' => Unsent(Upload, Range(rjobs), InFlight, ask, id, f)
  BY <1>4 DEF Unsent
<1>15. id \in Job
  BY <1>3 DEF id
<1> QED BY <1>2, <1>3, <1>4, <1>7, <1>8, <1>9, <1>10, <1>12, <1>13, <1>14, <1>15, ClientTidies

\* FileAction::SendConfirm, from the server that receives.
LEMMA ClientConfirmTidies == TidyInv /\ ClientConfirm => TidyInv'
<1> SUFFICES ASSUME TidyInv, ClientConfirm PROVE TidyInv'
  OBVIOUS
<1>1. FromServer("confirm") /\ OneOffer
  BY DEF ClientConfirm, TidyInv
<1>2. OneOffer'
  BY <1>1, ClientConfirmKeeps
<1> DEFINE id == CM.id
           L == Leftover[mode]
           C(j) == confirm(j, CM.num, CM.n)
<1>3. /\ id \in Job /\ up /\ Range(toClient') \subseteq Range(toClient) /\ CM.t = "confirm"
      /\ CM \in ToClient(Upload) /\ CM \in Message /\ CM.num \in Num /\ CM.n \in {Skip} \cup Nat
      /\ CM \in OfferC(Upload, id) => For(CM, rjobs)
  BY <1>1, TakenFromServer DEF Sound
<1>4. mode' = mode /\ ask' = ask /\ ui' = ui /\ saved' = saved /\ up' = up /\ lost' = lost /\ faults' = faults
      /\ ipc' = ipc /\ disk' = disk /\ toServer' = toServer /\ wjobs' = wjobs
  BY DEF ClientConfirm
<1>5. rjobs' = map_job(id, C)
  BY DEF ClientConfirm, CM
<1>6. Range(rjobs) \in SUBSET Reader
  BY <1>1, Views
<1>7. For(CM, rjobs)
  BY <1>3 DEF OfferC, About, ToClient, FromReader
<1>8. ASSUME NEW i \in DOMAIN rjobs, rjobs[i].id = id
      PROVE  Later(rjobs[i], C(rjobs[i])) /\ C(rjobs[i]).id = id
  <2> DEFINE j == rjobs[i]
  <2>1. j \in Reader /\ At(j, CM.num)
    BY <1>6, <1>7, <1>8 DEF For, Range
  <2> HIDE DEF j
  <2>3. Later(j, confirm(j, CM.num, CM.n)) /\ confirm(j, CM.num, CM.n).id = j.id
    BY <1>3, <2>1, ConfirmLater, ConfirmReader
  <2> QED BY <2>3, <1>8 DEF j
<1> HIDE DEF C
<1>9. ASSUME NEW k \in Range(map_job(id, C))
      PROVE  \E i \in DOMAIN rjobs : k = IF rjobs[i].id = id THEN C(rjobs[i]) ELSE rjobs[i]
  BY DEF Range, map_job
<1>10. /\ Fwd(Upload, Range(rjobs), InFlight, ask, Range(rjobs'), id)
       /\ \A k \in Range(rjobs') : k.id # id => k \in Range(rjobs)
  <2>1. /\ Fwd(Upload, Range(rjobs), InFlight, ask, Range(map_job(id, C)), id)
        /\ \A k \in Range(map_job(id, C)) : k.id # id => k \in Range(rjobs)
    <3>1. ASSUME NEW k \in Range(map_job(id, C))
          PROVE  \/ k \in Range(rjobs) /\ k.id # id
                 \/ k.id = id /\ \E j \in Range(rjobs) : j.id = id /\ Later(j, k)
      <4>1. PICK i \in DOMAIN rjobs : k = IF rjobs[i].id = id THEN C(rjobs[i]) ELSE rjobs[i]
        BY <1>9
      <4>2. rjobs[i] \in Range(rjobs)
        BY DEF Range
      <4> QED BY <1>8, <4>1, <4>2
    <3> QED BY <3>1, MovedOn
  <2> QED BY <2>1, <1>5
<1> HIDE DEF id
<1>11. Tidy(Upload, L, Range(rjobs), InFlight, ask, wjobs, disk[id], id) => Owned(L, wjobs', disk'[id], id)
  BY <1>4, WriterSame
<1>12. \A x : /\ disk'[x] = disk[x] /\ ui'[x] = ui[x] /\ (x \in DOMAIN wjobs <=> x \in DOMAIN wjobs')
              /\ x \in DOMAIN wjobs => wjobs'[x] = wjobs[x]
  BY <1>4
<1>13. \A f \in File : ~Upload /\ <<id, f>> \in ask' => Unsent(Upload, Range(rjobs), InFlight, ask, id, f)
  BY <1>4 DEF Unsent
<1>15. id \in Job
  BY <1>3 DEF id
<1>16. id \in DOMAIN wjobs' => id \in DOMAIN wjobs /\ (Upload /\ wjobs[id].files => wjobs'[id].files)
  BY <1>4
<1>17. \A x : disk'[x] = disk[x] /\ ui'[x] = ui[x]
  BY <1>4
<1>18. \A x \in Job : x # id => /\ x \in DOMAIN wjobs <=> x \in DOMAIN wjobs'
                                /\ x \in DOMAIN wjobs => wjobs'[x] = wjobs[x]
  BY <1>4
<1> QED BY <1>2, <1>3, <1>4, <1>10, <1>11, <1>13, <1>15, <1>16, <1>17, <1>18, ClientTidies

\* What a confirmation, or a step that leaves all as it is, does for job id.
Confirms(id) ==
  /\ \A x \in Job : x # id => /\ x \in DOMAIN wjobs <=> x \in DOMAIN wjobs'
                              /\ x \in DOMAIN wjobs => wjobs'[x] = wjobs[x]
  /\ \A k \in Range(rjobs') : k.id # id => k \in Range(rjobs)
  /\ \/ toServer' = toServer
     \/ \E a \in ToServer(Upload) :
          /\ a.id = id /\ a.t = "confirm" /\ toServer' = Append(toServer, a)
          /\ \A f \in File : a \in Hold(Upload, id, f) =>
               /\ Unsent(Upload, Range(rjobs), InFlight, ask, id, f)
               /\ \A k \in Range(rjobs') : k.id = id => f < k.num
  /\ Fwd(Upload, Range(rjobs), InFlight, ask, Range(rjobs'), id)
  /\ Tidy(Upload, Leftover[mode], Range(rjobs), InFlight, ask, wjobs, disk[id], id) =>
       /\ Owned(Leftover[mode], wjobs', disk[id], id)
       /\ id \in DOMAIN wjobs' => id \in DOMAIN wjobs /\ (Upload /\ wjobs[id].files => wjobs'[id].files)

\* Such a step keeps the invariant, and so does one that opens a dialog about a
\* file that was not sent.
LEMMA ConfirmsTidies ==
  ASSUME TidyInv, NEW id \in Job, up, OneOffer', Confirms(id), Range(toClient') \subseteq Range(toClient),
         mode' = mode /\ ipc' = ipc /\ saved' = saved /\ up' = up /\ lost' = lost /\ faults' = faults
           /\ ui' = ui /\ disk' = disk,
         \A x \in Job, f \in File : <<x, f>> \in ask' => <<x, f>> \in ask \/
           (x = id /\ (~Upload => Unsent(Upload, Range(rjobs), InFlight, ask, id, f)))
  PROVE  TidyInv'
<1>1. \A x : disk'[x] = disk[x] /\ ui'[x] = ui[x]
  OBVIOUS
<1>2. \A x \in Job : x # id => /\ x \in DOMAIN wjobs <=> x \in DOMAIN wjobs'
                               /\ x \in DOMAIN wjobs => wjobs'[x] = wjobs[x]
  BY DEF Confirms
<1>3. \A k \in Range(rjobs') : k.id # id => k \in Range(rjobs)
  BY DEF Confirms
<1>4. \/ toServer' = toServer
      \/ \E a \in ToServer(Upload) :
           /\ a.id = id /\ a.t = "confirm" /\ toServer' = Append(toServer, a)
           /\ \A f \in File : a \in Hold(Upload, id, f) =>
                /\ Unsent(Upload, Range(rjobs), InFlight, ask, id, f)
                /\ \A k \in Range(rjobs') : k.id = id => f < k.num
  BY DEF Confirms
<1>5. Fwd(Upload, Range(rjobs), InFlight, ask, Range(rjobs'), id)
  BY DEF Confirms
<1>6. Tidy(Upload, Leftover[mode], Range(rjobs), InFlight, ask, wjobs, disk[id], id) =>
       /\ Owned(Leftover[mode], wjobs', disk'[id], id)
       /\ id \in DOMAIN wjobs' => id \in DOMAIN wjobs /\ (Upload /\ wjobs[id].files => wjobs'[id].files)
  BY DEF Confirms
<1>7. ~Upload => \A f \in File : <<id, f>> \in ask' => Unsent(Upload, Range(rjobs), InFlight, ask, id, f)
  BY DEF Unsent
<1>8. \A x \in Job, f \in File : x # id /\ <<x, f>> \in ask' => <<x, f>> \in ask
  OBVIOUS
<1> QED BY <1>1, <1>2, <1>3, <1>4, <1>5, <1>6, <1>7, <1>8, ClientTidies

\* Nothing is confirmed.
LEMMA NothingConfirms ==
  ASSUME TidyInv, NEW id \in Job, rjobs' = rjobs, wjobs' = wjobs, toServer' = toServer
  PROVE  Confirms(id)
<1>1. Range(rjobs) \in SUBSET Reader
  BY Views DEF TidyInv
<1>2. Fwd(Upload, Range(rjobs), InFlight, ask, Range(rjobs'), id)
  BY <1>1, SameReaders
<1> QED BY <1>2, WriterSame DEF Confirms

\* The client confirms a file that it, or the other side, waits at.
LEMMA ConfirmConfirms ==
  ASSUME TidyInv, NEW id \in Job, NEW num \in File, NEW n \in {Skip} \cup Nat,
         NEW tell \in BOOLEAN, NEW s \in Strategies, HasJob(id), Confirm(id, num, n, tell, s),
         \A i \in DOMAIN rjobs : rjobs[i].id = id => At(rjobs[i], num),
         ~Upload => Unsent(Upload, Range(rjobs), InFlight, ask, id, num)
  PROVE  Confirms(id)
<1> DEFINE L == Leftover[mode]
<1>0. OneOffer
  BY DEF TidyInv
<1>1. Range(rjobs) \in SUBSET Reader /\ Writers(wjobs)
  BY <1>0, Views
<1>2. num \in Num /\ num \in Nat
  BY Constants DEF Num
<1>3. /\ Fwd(Upload, Range(rjobs), InFlight, ask, Range(rjobs'), id)
      /\ \A k \in Range(rjobs') : k.id # id => k \in Range(rjobs)
      /\ Upload /\ n = Skip => \A k \in Range(rjobs') : k.id = id => num < k.num
  <2>1. CASE ~Upload
    <3>1. rjobs' = rjobs
      BY <2>1 DEF Confirm
    <3> QED BY <1>1, <2>1, <3>1, SameReaders
  <2>2. CASE Upload
    <3> DEFINE C(j) == [confirm(j, num, n) EXCEPT !.strategy = s]
    <3>1. rjobs' = map_job(id, C)
      BY <2>2 DEF Confirm
    <3>2. ASSUME NEW i \in DOMAIN rjobs, rjobs[i].id = id
          PROVE  /\ Later(rjobs[i], C(rjobs[i])) /\ C(rjobs[i]).id = id
                 /\ n = Skip => num < C(rjobs[i]).num
      <4> DEFINE j == rjobs[i]
                 c == confirm(j, num, n)
                 k == [c EXCEPT !.strategy = s]
      <4>1. j \in Reader /\ At(j, num)
        BY <1>1, <3>2 DEF Range
      <4> HIDE DEF j
      <4>2. Later(j, c) /\ c \in Reader /\ c.id = j.id
        BY <1>2, <4>1, ConfirmLater, ConfirmReader
      <4>3. n = Skip => c.num = num + 1
        BY <1>2, <4>1 DEF confirm, set_file_skipped, NextFile, At, Reader, ReadJob
      <4> HIDE DEF c
      <4>4. c \in ReadJob
        BY <4>2 DEF Reader
      <4>5. k.num = c.num /\ k.confirmed = c.confirmed /\ k.skipped = c.skipped /\ k.id = c.id
        BY <4>4 DEF ReadJob
      <4> HIDE DEF k
      <4>6. Later(j, k) /\ k.id = j.id /\ (n = Skip => num < k.num)
        BY <1>2, <4>2, <4>3, <4>5 DEF Later
      <4> QED BY <3>2, <4>6 DEF k, c, j
    <3> HIDE DEF C
    <3>3. ASSUME NEW k \in Range(map_job(id, C))
          PROVE  \E i \in DOMAIN rjobs : k = IF rjobs[i].id = id THEN C(rjobs[i]) ELSE rjobs[i]
      BY DEF Range, map_job
    <3>4. /\ Fwd(Upload, Range(rjobs), InFlight, ask, Range(map_job(id, C)), id)
          /\ \A k \in Range(map_job(id, C)) : k.id # id => k \in Range(rjobs)
          /\ n = Skip => \A k \in Range(map_job(id, C)) : k.id = id => num < k.num
      <4>1. ASSUME NEW k \in Range(map_job(id, C))
            PROVE  /\ \/ k \in Range(rjobs) /\ k.id # id
                      \/ k.id = id /\ \E j \in Range(rjobs) : j.id = id /\ Later(j, k)
                   /\ n = Skip /\ k.id = id => num < k.num
        <5>1. PICK i \in DOMAIN rjobs : k = IF rjobs[i].id = id THEN C(rjobs[i]) ELSE rjobs[i]
          BY <3>3
        <5>2. rjobs[i] \in Range(rjobs)
          BY DEF Range
        <5> QED BY <3>2, <5>1, <5>2
      <4> QED BY <4>1, MovedOn
    <3> QED BY <3>1, <3>4
  <2> QED BY <2>1, <2>2
<1>4. \/ toServer' = toServer
      \/ \E a \in ToServer(Upload) :
           /\ a.id = id /\ a.t = "confirm" /\ toServer' = Append(toServer, a)
           /\ \A f \in File : a \in Hold(Upload, id, f) =>
                /\ Unsent(Upload, Range(rjobs), InFlight, ask, id, f)
                /\ \A k \in Range(rjobs') : k.id = id => f < k.num
  <2>0. CASE ~tell
    BY <2>0 DEF Confirm
  <2> SUFFICES ASSUME tell
               PROVE \E a \in ToServer(Upload) :
                       /\ a.id = id /\ a.t = "confirm" /\ toServer' = Append(toServer, a)
                       /\ \A f \in File : a \in Hold(Upload, id, f) =>
                            /\ Unsent(Upload, Range(rjobs), InFlight, ask, id, f)
                            /\ \A k \in Range(rjobs') : k.id = id => f < k.num
    BY <2>0
  <2> DEFINE a == Msg("confirm", id, num, n)
  <2>1. n \in Int
    BY DEF Skip
  <2>2. a \in Message /\ a.t = "confirm" /\ a.id = id /\ a.num = num /\ a.n = n
    BY <1>2, <2>1, MsgType
  <2>3. toServer' = Append(toServer, a)
    BY DEF Confirm
  <2> HIDE DEF a
  <2>4. a \in ToServer(Upload)
    BY <2>2 DEF ToServer, Sound
  <2>5. \A f : a \in Hold(Upload, id, f) => Upload /\ f = num /\ n = Skip
    BY <2>2 DEF Hold
  <2>6. Upload => Unsent(Upload, Range(rjobs), InFlight, ask, id, num)
    <3> SUFFICES ASSUME Upload PROVE \E j \in Range(rjobs) : j.id = id /\ Before(j, num)
      BY DEF Unsent
    <3>1. PICK i \in DOMAIN rjobs : rjobs[i].id = id
      BY DEF HasJob
    <3> QED BY <3>1 DEF Range, At, Before
  <2>7. \A f \in File : a \in Hold(Upload, id, f) =>
                            /\ Unsent(Upload, Range(rjobs), InFlight, ask, id, f)
                            /\ \A k \in Range(rjobs') : k.id = id => f < k.num
    BY <1>3, <2>5, <2>6
  <2> QED BY <2>2, <2>3, <2>4, <2>7
<1>5. /\ \A x \in Job : x # id => /\ x \in DOMAIN wjobs <=> x \in DOMAIN wjobs'
                                  /\ x \in DOMAIN wjobs => wjobs'[x] = wjobs[x]
      /\ Tidy(Upload, L, Range(rjobs), InFlight, ask, wjobs, disk[id], id) =>
           /\ Owned(L, wjobs', disk[id], id)
           /\ id \in DOMAIN wjobs' => id \in DOMAIN wjobs /\ (Upload /\ wjobs[id].files => wjobs'[id].files)
  <2>1. CASE Upload
    <3>1. wjobs' = wjobs
      BY <2>1 DEF Confirm
    <3> QED BY <3>1, WriterSame
  <2>2. CASE ~Upload
    <3> DEFINE d == disk[id]
               c == confirm_write(wjobs[id], num, n, d)
               V == wjobs'
    <3>0. id \in DOMAIN wjobs /\ V = [wjobs EXCEPT ![id] = [c EXCEPT !.strategy = s]]
      BY <2>2 DEF Confirm, HasJob
    <3>1. id \in DOMAIN V /\ V[id] = [c EXCEPT !.strategy = s]
      BY <3>0, TableOthers
    <3>2. wjobs[id] \in WriteJob
      BY <1>1, <3>0 DEF Writers
    <3>3. c \in WriteJob
      BY <3>2, ConfirmWriter
    <3>4. \A x : x # id => /\ x \in DOMAIN wjobs <=> x \in DOMAIN V
                           /\ x \in DOMAIN wjobs => V[x] = wjobs[x]
      BY <3>0, TableOthers
    <3> HIDE DEF V
    <3>5. V[id].num = c.num /\ V[id].files = c.files
      <4> HIDE DEF c
      <4> QED BY <3>1, <3>3 DEF WriteJob
    <3> HIDE DEF d
    <3>6. ASSUME Tidy(Upload, L, Range(rjobs), InFlight, ask, wjobs, disk[id], id)
          PROVE  Owned(L, V, d, id)
      <4>1. Owned(L, wjobs, d, id)
        BY <3>6, WriterSame DEF d
      <4>2. n = Skip => (d[num].download => num \in L)
        BY <2>2, <3>6 DEF Tidy, d
      <4> QED BY <3>0, <3>1, <3>2, <3>5, <4>1, <4>2, PartConfirmed
    <3> QED BY <2>2, <3>0, <3>4, <3>6 DEF V, d
  <2> QED BY <2>1, <2>2
<1> QED BY <1>3, <1>4, <1>5 DEF Confirms

\* The client decides about a file by the strategy of its job, or asks the
\* user.
LEMMA DecideConfirms ==
  ASSUME TidyInv, NEW n \in Nat, NEW resume, HasJob(CM.id), Decide(CM, n, resume),
         CM.id \in Job, CM.num \in File, For(CM, rjobs),
         ~Upload => Unsent(Upload, Range(rjobs), InFlight, ask, CM.id, CM.num)
  PROVE  Confirms(CM.id) /\ (ask' = ask \/ ask' = ask \cup {<<CM.id, CM.num>>})
<1>0. OneOffer
  BY DEF TidyInv
<1>1. Strategy(CM.id) \in Strategies
  BY <1>0, StrategyType
<1>2. \A i \in DOMAIN rjobs : rjobs[i].id = CM.id => At(rjobs[i], CM.num)
  BY DEF For
<1>3. ASSUME NEW k \in {Skip} \cup Nat, Confirm(CM.id, CM.num, k, TRUE, Strategy(CM.id))
      PROVE  Confirms(CM.id)
  BY <1>1, <1>2, <1>3, ConfirmConfirms
<1>4. \/ \E k \in {Skip} \cup Nat : Confirm(CM.id, CM.num, k, TRUE, Strategy(CM.id)) /\ ask' = ask
      \/ /\ ask' = ask \cup {<<CM.id, CM.num>>}
         /\ rjobs' = rjobs /\ wjobs' = wjobs /\ toServer' = toServer
  <2>1. n \in {Skip} \cup Nat /\ (IF Strategy(CM.id) = "skip" THEN Skip ELSE 0) \in {Skip} \cup Nat
    OBVIOUS
  <2> QED BY <2>1 DEF Decide
<1> QED BY <1>3, <1>4, NothingConfirms

\* FileResponse::Digest, of a download.
LEMMA ClientDigestTidies == TidyInv /\ ClientDigest => TidyInv'
<1> SUFFICES ASSUME TidyInv, ClientDigest PROVE TidyInv'
  OBVIOUS
<1>1. FromServer("digest") /\ OneOffer
  BY DEF ClientDigest, TidyInv
<1>2. OneOffer'
  BY <1>1, ClientDigestKeeps
<1>3. /\ CM.id \in Job /\ up /\ Range(toClient') \subseteq Range(toClient) /\ CM \in InFlight
      /\ CM \in ToClient(Upload) /\ CM \in Message /\ CM.t = "digest" /\ CM.num \in File
      /\ CM \in OfferC(Upload, CM.id) => For(CM, rjobs)
  BY <1>1, TakenFromServer DEF Sound
<1>4. ~Upload /\ For(CM, rjobs)
  BY <1>3 DEF ToClient, OfferC, About
<1>5. Unsent(Upload, Range(rjobs), InFlight, ask, CM.id, CM.num)
  BY <1>3, <1>4 DEF Unsent, Hold, About
<1>6. /\ mode' = mode /\ ipc' = ipc /\ saved' = saved /\ up' = up /\ lost' = lost /\ faults' = faults
      /\ ui' = ui /\ disk' = disk
  BY DEF ClientDigest
<1> DEFINE j == wjobs[CM.id]
           n == is_write_need_confirmation(j.resume, disk[CM.id][CM.num])
<1>7. Confirms(CM.id) /\ (ask' = ask \/ ask' = ask \cup {<<CM.id, CM.num>>})
  <2>1. CASE CM.id \notin DOMAIN wjobs \/ ~j.files
    <3>1. rjobs' = rjobs /\ wjobs' = wjobs /\ toServer' = toServer /\ ask' = ask
      BY <2>1 DEF ClientDigest, CM
    <3> QED BY <1>3, <3>1, NothingConfirms
  <2>2. CASE CM.id \in DOMAIN wjobs /\ j.files
    <3>1. HasJob(CM.id)
      BY <1>4, <2>2 DEF HasJob
    <3>2. j.strategy \in Strategies
      BY <1>1, <2>2 DEF OneOffer, Typed, Writers, WriteJob, Strategies
    <3>3. n \in {NoSuchFile} \cup Nat
      <4>1. disk[CM.id][CM.num] \in Entry
        BY <1>1, <1>3 DEF OneOffer, Typed, Disk
      <4> QED BY <4>1, NeedType
    <3>4. CASE n = NoSuchFile
      <4>1. Confirm(CM.id, CM.num, 0, TRUE, j.strategy) /\ ask' = ask
        BY <2>2, <3>4 DEF ClientDigest, CM
      <4> HIDE DEF j, n
      <4>2. 0 \in {Skip} \cup Nat
        OBVIOUS
      <4>3. \A i \in DOMAIN rjobs : rjobs[i].id = CM.id => At(rjobs[i], CM.num)
        BY <1>4 DEF For
      <4>4. Confirms(CM.id)
        BY <1>3, <1>5, <3>1, <3>2, <4>1, <4>2, <4>3, ConfirmConfirms
      <4> QED BY <4>1, <4>4
    <3>5. CASE n # NoSuchFile
      <4>1. Decide(CM, n, j.resume) /\ n \in Nat
        BY <2>2, <3>3, <3>5 DEF ClientDigest, CM
      <4> HIDE DEF j, n
      <4> QED BY <1>3, <1>4, <1>5, <3>1, <4>1, DecideConfirms
    <3> QED BY <3>4, <3>5
  <2> QED BY <2>1, <2>2
<1>8. \A x \in Job, f \in File : <<x, f>> \in ask' => <<x, f>> \in ask \/
         (x = CM.id /\ (~Upload => Unsent(Upload, Range(rjobs), InFlight, ask, CM.id, f)))
  BY <1>5, <1>7
<1> HIDE DEF j, n
<1> QED BY <1>2, <1>3, <1>6, <1>7, <1>8, ConfirmsTidies

\* FileResponse::Digest, of an upload: the server has the file.
LEMMA ClientNeedTidies == TidyInv /\ ClientNeed => TidyInv'
<1> SUFFICES ASSUME TidyInv, ClientNeed PROVE TidyInv'
  OBVIOUS
<1>1. FromServer("need") /\ OneOffer
  BY DEF ClientNeed, TidyInv
<1>2. OneOffer'
  BY <1>1, ClientNeedKeeps
<1>3. /\ CM.id \in Job /\ up /\ Range(toClient') \subseteq Range(toClient) /\ CM.n \in Nat
      /\ CM \in ToClient(Upload) /\ CM \in Message /\ CM.t = "need" /\ CM.num \in File
      /\ CM \in OfferC(Upload, CM.id) => For(CM, rjobs)
  BY <1>1, TakenFromServer DEF Sound
<1>4. Upload /\ For(CM, rjobs)
  BY <1>3 DEF ToClient, OfferC, About, FromReader
<1>6. /\ mode' = mode /\ ipc' = ipc /\ saved' = saved /\ up' = up /\ lost' = lost /\ faults' = faults
      /\ ui' = ui /\ disk' = disk
  BY DEF ClientNeed
<1>7. Confirms(CM.id) /\ (ask' = ask \/ ask' = ask \cup {<<CM.id, CM.num>>})
  <2>1. CASE ~HasJob(CM.id)
    <3>1. rjobs' = rjobs /\ wjobs' = wjobs /\ toServer' = toServer /\ ask' = ask
      BY <2>1 DEF ClientNeed, CM
    <3> QED BY <1>3, <3>1, NothingConfirms
  <2>2. CASE HasJob(CM.id)
    <3> DEFINE r == \E i \in DOMAIN rjobs : rjobs[i].id = CM.id /\ rjobs[i].resume
    <3>1. Decide(CM, CM.n, r)
      BY <2>2 DEF ClientNeed, CM
    <3> HIDE DEF r
    <3> QED BY <1>3, <1>4, <2>2, <3>1, DecideConfirms
  <2> QED BY <2>1, <2>2
<1>8. \A x \in Job, f \in File : <<x, f>> \in ask' => <<x, f>> \in ask \/
         (x = CM.id /\ (~Upload => Unsent(Upload, Range(rjobs), InFlight, ask, CM.id, f)))
  BY <1>4, <1>7
<1> QED BY <1>2, <1>3, <1>6, <1>7, <1>8, ConfirmsTidies

\* Every handler of the client.
LEMMA ClientStepTidies == TidyInv /\ ClientStep => TidyInv'
BY ClientDirTidies, ClientDigestTidies, ClientNeedTidies, ClientConfirmTidies,
   ClientBlockTidies, ClientDoneTidies, ClientErrorTidies DEF ClientStep

\* The user answers a dialog.
LEMMA SetConfirmTidies ==
  ASSUME TidyInv, NEW id \in Job, NEW num \in File, NEW n \in {Skip, 0}, NEW remember \in BOOLEAN,
         SetConfirmOverrideFile(id, num, n, remember)
  PROVE  TidyInv'
<1>0. OneOffer
  BY DEF TidyInv
<1>1. up /\ <<id, num>> \in ask /\ ask' = ask \ {<<id, num>>}
  BY DEF SetConfirmOverrideFile
<1>2. OneOffer'
  BY <1>0, SetConfirmKeeps
<1>3. \A i \in DOMAIN rjobs : rjobs[i].id = id => At(rjobs[i], num)
  BY <1>0, <1>1, TakeFromA DEF OneOffer, Good
<1>4. ~Upload => Unsent(Upload, Range(rjobs), InFlight, ask, id, num)
  BY <1>1 DEF Unsent
<1>5. /\ mode' = mode /\ ipc' = ipc /\ saved' = saved /\ up' = up /\ lost' = lost /\ faults' = faults
      /\ ui' = ui /\ disk' = disk /\ toClient' = toClient
  BY DEF SetConfirmOverrideFile
<1>6. Confirms(id)
  <2>1. CASE ~HasJob(id)
    <3>1. rjobs' = rjobs /\ wjobs' = wjobs /\ toServer' = toServer
      BY <2>1 DEF SetConfirmOverrideFile
    <3> QED BY <3>1, NothingConfirms
  <2>2. CASE HasJob(id)
    <3> DEFINE s == IF ~remember THEN Strategy(id) ELSE IF n = Skip THEN "skip" ELSE "overwrite"
               tell == ~Upload
    <3>1. s \in Strategies
      <4>1. Strategy(id) \in Strategies
        BY <1>0, <2>2, StrategyType
      <4>2. "skip" \in Strategies /\ "overwrite" \in Strategies
        BY DEF Strategies
      <4> QED BY <4>1, <4>2
    <3>2. Confirm(id, num, n, tell, s) /\ tell \in BOOLEAN /\ n \in {Skip} \cup Nat
      BY <2>2 DEF SetConfirmOverrideFile
    <3> HIDE DEF s, tell
    <3> QED BY <1>3, <1>4, <2>2, <3>1, <3>2, ConfirmConfirms
  <2> QED BY <2>1, <2>2
<1>7. \A x \in Job, f \in File : <<x, f>> \in ask' => <<x, f>> \in ask
  BY <1>1
<1>8. Range(toClient') \subseteq Range(toClient)
  BY <1>5
<1> QED BY <1>1, <1>2, <1>5, <1>6, <1>7, <1>8, ConfirmsTidies

\* The user cancels a job: the client's half goes at once, with its part; the
\* server is told.
LEMMA CancelJobTidies ==
  ASSUME TidyInv, NEW id \in Job, CancelJob(id)
  PROVE  TidyInv'
<1> DEFINE L == Leftover[mode]
           J == Range(rjobs)
           K == Range(rjobs')
           N == Flying(toServer', toClient', ipc')
           T == ToServer(Upload)
           a == Msg("cancel", id, 1, 0)
<1>0. OneOffer
  BY DEF TidyInv
<1>1. OneOffer' /\ up
  BY <1>0, CancelJobKeeps DEF CancelJob
<1>2. /\ mode' = mode /\ up' = up /\ toClient' = toClient /\ ipc' = ipc /\ ask' = ask /\ saved' = saved
      /\ lost' = lost /\ faults' = faults /\ ui[id] \in {"running", "paused"}
  BY DEF CancelJob
<1>3. ui'[id] = "cancelled" /\ \A x \in Job : x # id => ui'[x] = ui[x]
  BY <1>0 DEF CancelJob, OneOffer, Typed
<1>4. \/ /\ ~Upload /\ id \in DOMAIN wjobs /\ wjobs' = Without(id)
         /\ disk' = [disk EXCEPT ![id] = remove_download_file(wjobs[id], disk[id])]
      \/ (Upload \/ id \notin DOMAIN wjobs) /\ wjobs' = wjobs /\ disk' = disk
  BY DEF CancelJob
<1>5. a \in Message /\ a.t = "cancel" /\ a.id = id /\ toServer' = Append(toServer, a)
  BY Constants, MsgType DEF CancelJob
<1> HIDE DEF a
<1>6. a \in T /\ a \in Cancels(id) /\ \A f : a \notin Hold(Upload, id, f) /\ a \notin Blocks(id, f)
  BY <1>5 DEF ToServer, Sound, Cancels, About, Hold, Blocks
<1>7. toServer \in Seq(T) /\ J \in SUBSET Reader /\ disk \in [Job -> Disk] /\ Writers(wjobs)
  BY <1>0, Views
<1>8. K \subseteq J
  <2>1. \A k \in DOMAIN remove_job(id, rjobs) : \E i \in DOMAIN rjobs : remove_job(id, rjobs)[k] = rjobs[i]
    BY <1>0, Readers, Removed
  <2>2. rjobs' = rjobs \/ rjobs' = remove_job(id, rjobs)
    BY DEF CancelJob
  <2> QED BY <2>1, <2>2 DEF Range
<1>9. N \subseteq InFlight \cup {a}
  <2>1. Range(Append(toServer, a)) = Range(toServer) \cup {a}
    BY <1>0, <1>5, Added
  <2> QED BY <2>1, <1>2, <1>5 DEF InFlight, Flying
<1>10. Streams(toServer, toServer', id)
  BY <1>5, <1>6 DEF Streams
<1>11. \A x \in Job : x # id =>
           /\ disk'[x] = disk[x]
           /\ x \in DOMAIN wjobs <=> x \in DOMAIN wjobs'
           /\ x \in DOMAIN wjobs => wjobs'[x] = wjobs[x]
  BY <1>4, <1>7, TableOthers, DiskOthers
<1>12. saved[id] = 0 => ui[id] \in Going
  <2>1. ui[id] = "paused" => saved[id] # 0
    BY <1>0 DEF OneOffer, Idle
  <2> QED BY <1>2, <2>1 DEF Going
<1>13. id \in DOMAIN wjobs' => Upload /\ id \in DOMAIN wjobs /\ (Upload /\ wjobs[id].files => wjobs'[id].files)
  BY <1>4, TableOthers
<1>14. ASSUME TidyJob(Upload, L, rjobs, toServer, toClient, ipc, ask, wjobs, disk, ui, id)
       PROVE  TidyJob(Upload, L, rjobs', toServer', toClient', ipc', ask', wjobs', disk', ui', id)
  <2>1. Tidy(Upload, L, J, InFlight, ask, wjobs, disk[id], id) /\ Ends(Upload, toServer, wjobs, ui[id], id)
    BY <1>14 DEF TidyJob, InFlight
  <2>2. /\ Owned(L, wjobs', disk'[id], id)
        /\ \A f \in File : disk'[id][f].download => disk[id][f].download
    <3>0. Owned(L, wjobs, disk[id], id)
      BY <2>1, WriterSame
    <3>1. CASE wjobs' = wjobs /\ disk' = disk
      BY <3>0, <3>1
    <3>2. CASE /\ id \in DOMAIN wjobs /\ wjobs' = Without(id)
               /\ disk' = [disk EXCEPT ![id] = remove_download_file(wjobs[id], disk[id])]
      <4>1. disk'[id] = remove_download_file(wjobs[id], disk[id])
        BY <3>2, <1>7, DiskOthers
      <4>2. wjobs[id] \in WriteJob /\ disk[id] \in Disk
        BY <3>2, <1>7 DEF Writers
      <4>3. Clean(L, disk'[id]) /\ \A f \in File : disk'[id][f].download => disk[id][f].download
        BY <3>0, <3>2, <4>1, <4>2, PartRemoved
      <4> QED BY <4>3, CleanOwned
    <3> QED BY <1>4, <3>1, <3>2
  <2>3. \A f \in File : <<id, f>> \in ask /\ ~Upload => Unsent(Upload, J, InFlight, ask, id, f)
    BY DEF Unsent
  <2> HIDE DEF J, K, N, L, T
  <2>4. \A m \in N : m.id = id => m \in InFlight \/
           \A f \in File :
             /\ m \in Hold(Upload, id, f) => Unsent(Upload, J, InFlight, ask, id, f)
             /\ m \in Hold(Upload, id, f) => \A k \in K : Upload /\ k.id = id => f < k.num
             /\ m \in Blocks(id, f) => ~Unsent(Upload, K, N, ask, id, f)
    BY <1>6, <1>9
  <2>5. Fwd(Upload, J, InFlight, ask, K, id) /\ K \in SUBSET Reader
    BY <1>7, <1>8, SameReaders
  <2>6. Tidy(Upload, L, K, N, ask, wjobs', disk'[id], id)
    BY <2>1, <2>2, <2>3, <2>4, <2>5, <1>7, TidyStep
  <2>7. Ends(Upload, toServer', wjobs', "cancelled", id)
    <3>1. Ends(Upload, Append(toServer, a), wjobs', "cancelled", id)
      BY <2>1, <1>6, <1>7, <1>13, EndsCancel
    <3> QED BY <3>1, <1>5
  <2> QED BY <2>6, <2>7, <1>2, <1>3 DEF TidyJob, N, K
<1>15. \A k \in K : k.id # id => k \in J
  BY <1>8
<1>16. \A m \in N : m \in InFlight \/ (m.id = id /\ (m.t = "error" => faults' # 0))
  BY <1>5, <1>9
<1> HIDE DEF N
<1>17. \A m \in Flying(toServer', toClient', ipc') : m \in InFlight \/ (m.id = id /\ (m.t = "error" => faults' # 0))
  BY <1>16 DEF N
<1> QED BY <1>0, <1>1, <1>2, <1>3, <1>10, <1>11, <1>12, <1>14, <1>15, <1>17, JobTidies

\* The user resumes a job of the last connection, which was saved.
LEMMA ResumeJobTidies ==
  ASSUME TidyInv, NEW id \in Job, ResumeJob(id)
  PROVE  TidyInv'
<1>0. OneOffer
  BY DEF TidyInv
<1>1. OneOffer' /\ up
  BY <1>0, ResumeJobKeeps DEF ResumeJob
<1>2. /\ mode' = mode /\ up' = up /\ toClient' = toClient /\ ipc' = ipc /\ ask' = ask /\ saved' = saved
      /\ lost' = lost /\ faults' = faults /\ disk' = disk /\ ui[id] = "paused"
  BY DEF ResumeJob
<1>3. \A x \in Job : x # id => ui'[x] = ui[x]
  BY <1>0 DEF ResumeJob, OneOffer, Typed, handle_job_status
<1>4. saved[id] # 0 /\ saved[id] \in Num
  BY <1>0, <1>2, Constants DEF OneOffer, Typed, Idle, Num
<1>5. \E a \in ToServer(Upload) : a.id = id /\ a.t # "error" /\ toServer' = Append(toServer, a)
  <2> DEFINE r == Msg("receive", id, saved[id], 0)
             s == Msg("send", id, saved[id], 0)
  <2>1. /\ r \in Message /\ r.t = "receive" /\ r.id = id /\ s \in Message /\ s.t = "send" /\ s.id = id
    BY <1>4, MsgType
  <2>2. toServer' = IF Upload THEN Append(toServer, r) ELSE Append(toServer, s)
    BY DEF ResumeJob
  <2> HIDE DEF r, s
  <2>3. (Upload => r \in ToServer(Upload)) /\ (~Upload => s \in ToServer(Upload))
    BY <2>1 DEF ToServer, Sound
  <2> QED BY <2>1, <2>2, <2>3
<1>6. PICK a \in ToServer(Upload) : a.id = id /\ a.t # "error" /\ toServer' = Append(toServer, a)
  BY <1>5
<1>7. a \in Message
  BY DEF ToServer
<1>8. \A m \in Flying(toServer', toClient', ipc') : m \in InFlight \/ (m.id = id /\ (m.t = "error" => faults' # 0))
  <2>1. Range(Append(toServer, a)) = Range(toServer) \cup {a}
    BY <1>0, <1>7, Added
  <2> QED BY <2>1, <1>2, <1>6 DEF InFlight, Flying
<1>9. Streams(toServer, toServer', id)
  BY <1>6 DEF Streams
<1>10. \A k \in Range(rjobs') : k.id # id => k \in Range(rjobs)
  <2> DEFINE Resume(j) == [j EXCEPT !.last = FALSE, !.resume = TRUE]
  <2>1. rjobs' = rjobs \/ rjobs' = map_job(id, Resume)
    BY DEF ResumeJob
  <2>2. \A i \in DOMAIN rjobs : rjobs[i].id = id => Resume(rjobs[i]).id = id
    <3> SUFFICES ASSUME NEW i \in DOMAIN rjobs, rjobs[i].id = id PROVE Resume(rjobs[i]).id = id
      OBVIOUS
    <3>1. rjobs[i] \in ReadJob
      BY <1>0, Readers DEF Reader
    <3> QED BY <3>1 DEF ReadJob
  <2> HIDE DEF Resume
  <2>3. \A k \in Range(map_job(id, Resume)) : k.id # id => k \in Range(rjobs)
    BY <2>2 DEF Range, map_job
  <2> QED BY <2>1, <2>3
<1>11. \A x \in Job : x # id => /\ disk'[x] = disk[x]
                                /\ x \in DOMAIN wjobs <=> x \in DOMAIN wjobs'
                                /\ x \in DOMAIN wjobs => wjobs'[x] = wjobs[x]
  <2>1. wjobs' = wjobs \/ wjobs' = [wjobs EXCEPT ![id].last = FALSE, ![id].resume = TRUE]
    BY DEF ResumeJob
  <2> QED BY <1>2, <2>1
<1>12. ~Straight(id)
  BY <1>4 DEF Straight
<1>13. \A x \in Job, f \in File : x # id /\ <<x, f>> \in ask' => <<x, f>> \in ask
  BY <1>2
<1> QED BY <1>1, <1>2, <1>3, <1>4, <1>8, <1>9, <1>10, <1>11, <1>12, <1>13, JobTidies

\* Of a job that was not started there is nothing anywhere.
LEMMA QuietFlight ==
  ASSUME OneOffer, NEW id \in Job, ui[id] = "none"
  PROVE  /\ \A m \in InFlight : m.id # id
         /\ \A f \in File : <<id, f>> \notin ask
         /\ \A j \in Range(rjobs) : j.id # id
         /\ id \notin DOMAIN wjobs /\ ~Has(toServer, Starts(id))
<1>1. /\ Quiet(toServer, toClient, ipc, ask, id) /\ id \notin DOMAIN wjobs
      /\ \A i \in DOMAIN rjobs : rjobs[i].id # id
  BY DEF OneOffer, Idle
<1>2. InFlight \subseteq Message
  BY Views
<1>3. \A m \in InFlight : m.id = id => m \in About(id)
  BY <1>2 DEF About
<1>4. \A q : ~Has(q, About(id)) => \A m \in Range(q) : m \notin About(id)
  BY DEF Has, Range
<1>5. \A m \in InFlight : m.id # id
  BY <1>1, <1>3, <1>4 DEF InFlight, Flying, Quiet
<1>6. Starts(id) \subseteq About(id)
  BY DEF Starts
<1>7. ~Has(toServer, Starts(id))
  BY <1>1, <1>6 DEF Quiet, Has
<1> QED BY <1>1, <1>5, <1>7 DEF Quiet, Range

\* The user starts a job.
LEMMA SendFilesTidies ==
  ASSUME TidyInv, NEW id \in Job, SendFiles(id)
  PROVE  TidyInv'
<1> DEFINE L == Leftover[mode]
           J == Range(rjobs)
           K == Range(rjobs')
           N == Flying(toServer', toClient', ipc')
           T == ToServer(Upload)
           j == new_read(id, 1, FALSE)
           w == new_write(1, FALSE, FALSE)
           r == Msg("receive", id, 1, 0)
           s == Msg("send", id, 1, 0)
           a == IF Upload THEN r ELSE s
<1>0. OneOffer
  BY DEF TidyInv
<1>1. OneOffer' /\ up /\ ui[id] = "none"
  BY <1>0, SendFilesKeeps DEF SendFiles
<1>2. /\ mode' = mode /\ up' = up /\ toClient' = toClient /\ ipc' = ipc /\ ask' = ask /\ saved' = saved
      /\ disk' = disk /\ lost' = lost
  BY DEF SendFiles
<1>3. /\ \A x \in Job : x # id => ui'[x] = ui[x]
      /\ ui'[id] \in {"running", "error"}
  <2>1. Typed /\ (handle_job_status(id, "running") \/ handle_job_status(id, "error"))
    BY <1>0 DEF SendFiles, OneOffer
  <2> QED BY <1>1, <2>1 DEF Typed, handle_job_status
<1>4. /\ \A m \in InFlight : m.id # id
      /\ \A f \in File : <<id, f>> \notin ask
      /\ \A k \in J : k.id # id
      /\ id \notin DOMAIN wjobs /\ ~Has(toServer, Starts(id))
  BY <1>0, <1>1, QuietFlight
<1>5. j \in Reader /\ j.id = id /\ ~j.skipped
  BY Constants, NewReader DEF new_read
<1>6. /\ r \in Message /\ r.t = "receive" /\ r.id = id
      /\ s \in Message /\ s.t = "send" /\ s.id = id
  BY Constants, MsgType
<1>7. \/ /\ Upload /\ rjobs' = Append(rjobs, j) /\ toServer' = Append(toServer, r)
         /\ wjobs' = wjobs /\ faults' = faults
      \/ Fault(1) /\ rjobs' = rjobs /\ wjobs' = wjobs /\ toServer' = toServer
      \/ /\ ~Upload /\ wjobs' = With(id, w) /\ toServer' = Append(toServer, s)
         /\ rjobs' = rjobs /\ faults' = faults
  BY DEF SendFiles
<1>8. Fault(1) => faults' # 0
  BY FaultCounts
<1> HIDE DEF j, w, r, s
<1>9. a \in T /\ a \in Message /\ a.id = id /\ a.t \in {"receive", "send"} /\ (Upload => a.t = "receive")
  BY <1>6 DEF ToServer, Sound
<1>10. toServer' = toServer \/ toServer' = Append(toServer, a)
  BY <1>7
<1> HIDE DEF a
<1>11. N \subseteq InFlight \cup {a}
  <2>1. Range(Append(toServer, a)) = Range(toServer) \cup {a}
    BY <1>0, <1>9, Added
  <2> QED BY <2>1, <1>2, <1>10 DEF InFlight, Flying
<1>12. K \subseteq J \cup {j}
  <2>1. rjobs \in Seq(Reader)
    BY <1>0, Readers
  <2>2. Range(rjobs \o <<j>>) = J \cup {j} /\ Append(rjobs, j) = rjobs \o <<j>>
    BY <2>1, <1>5, RangePut
  <2> QED BY <2>2, <1>7
<1>13. \A x \in Job : x # id => /\ x \in DOMAIN wjobs <=> x \in DOMAIN wjobs'
                                /\ x \in DOMAIN wjobs => wjobs'[x] = wjobs[x]
  BY <1>7 DEF With
<1>14. Upload => wjobs' = wjobs
  BY <1>7
<1>15. ASSUME TidyJob(Upload, L, rjobs, toServer, toClient, ipc, ask, wjobs, disk, ui, id), ui'[id] \in Going
       PROVE  TidyJob(Upload, L, rjobs', toServer', toClient', ipc', ask', wjobs', disk', ui', id)
  <2>1. Clean(L, disk[id])
    BY <1>4, <1>15, CleanOwned DEF TidyJob, Tidy
  <2>2. Owned(L, wjobs', disk[id], id)
    BY <2>1, CleanOwned
  <2> HIDE DEF J, K, N, L, T
  <2>3. \A f \in File, m \in N : m \notin Blocks(id, f) /\ (Upload => m \notin Hold(Upload, id, f))
    <3> SUFFICES ASSUME NEW f \in File, NEW m \in N
                 PROVE  m \notin Blocks(id, f) /\ (Upload => m \notin Hold(Upload, id, f))
      OBVIOUS
    <3>1. CASE m \in InFlight
      BY <1>4, <3>1 DEF Blocks, Hold, About
    <3>2. CASE m = a
      BY <1>9, <3>2 DEF Blocks, Hold
    <3> QED BY <1>11, <3>1, <3>2
  <2>4. \A k \in K : k.id = id => ~AllSkipped(k)
    BY <1>4, <1>5, <1>12 DEF AllSkipped
  <2>5. Tidy(Upload, L, K, N, ask, wjobs', disk[id], id)
    BY <2>1, <2>2, <2>3, <2>4 DEF Tidy, Clean
  <2>6. Ends(Upload, toServer', wjobs', ui'[id], id)
    <3>1. ui'[id] # "cancelled"
      BY <1>3
    <3>2. Upload => Lone(toServer', Starts(id)) /\ id \notin DOMAIN wjobs'
      <4>1. toServer \in Seq(T)
        BY <1>0, Views DEF T
      <4>2. Puts(toServer, Append(toServer, a), a)
        BY <1>9, <4>1, Putting
      <4>3. Lone(toServer, Starts(id))
        BY <1>4 DEF Has, Lone
      <4>4. \A P : Lone(toServer, P) /\ ~Has(toServer, P) => Lone(Append(toServer, a), P)
        BY <4>2 DEF Puts
      <4> QED BY <1>4, <1>10, <1>14, <4>3, <4>4
    <3> QED BY <3>1, <3>2 DEF Ends
  <2> QED BY <2>5, <2>6, <1>2 DEF TidyJob, N, K
<1>16. \A k \in K : k.id # id => k \in J
  BY <1>5, <1>12
<1>17. \A m \in Flying(toServer', toClient', ipc') : m \in InFlight \/ (m.id = id /\ (m.t = "error" => faults' # 0))
  BY <1>9, <1>11
<1>18. Streams(toServer, toServer', id)
  BY <1>9, <1>10 DEF Streams
<1>19. faults' = 0 => faults = 0
  BY <1>7, <1>8
<1>20. ui[id] \in Going
  BY <1>1 DEF Going
<1>21. \A x : disk'[x] = disk[x]
  BY <1>2
<1> HIDE DEF N
<1> QED BY <1>0, <1>1, <1>2, <1>3, <1>13, <1>15, <1>16, <1>17, <1>18, <1>19, <1>20, <1>21, JobTidies

\* Every command of the user.
LEMMA CommandTidies ==
  ASSUME TidyInv, NEW id \in Job, Command(id)
  PROVE  TidyInv'
BY SendFilesTidies, ResumeJobTidies, CancelJobTidies, SetConfirmTidies DEF Command

\* Nothing is on its way, there is no writer, and the parts on the disk were
\* there before.
LEMMA AllQuiet ==
  ASSUME NEW u, NEW L, NEW W, NEW D, NEW w, NEW x, NEW R, Range(R) = {} \/ ~u,
         \A j \in Range(R) : ~j.skipped,
         x \notin DOMAIN W, Clean(L, D[x])
  PROVE  TidyJob(u, L, R, << >>, << >>, << >>, {}, W, D, w, x)
<1>1. Flying(<< >>, << >>, << >>) = {}
  BY RangeHas DEF Flying
<1>2. Owned(L, W, D[x], x)
  BY CleanOwned
<1>3. Tidy(u, L, Range(R), {}, {}, W, D[x], x)
  BY <1>2 DEF Tidy, Clean, AllSkipped
<1>4. \A P : ~Has(<< >>, P) /\ Lone(<< >>, P)
  BY DEF Has, Lone
<1>5. Ends(u, << >>, W, w[x], x)
  BY <1>4 DEF Ends, Ahead
<1> QED BY <1>1, <1>3, <1>5 DEF TidyJob

\* The connection is lost, which saves the jobs that go on; those that do not
\* had their part removed when they were cancelled.
LEMMA ConnectionLostTidies == TidyInv /\ ConnectionLost => TidyInv'
<1> SUFFICES ASSUME TidyInv, ConnectionLost PROVE TidyInv'
  OBVIOUS
<1>0. OneOffer
  BY DEF TidyInv
<1>1. OneOffer'
  BY <1>0, ConnectionLostKeeps
<1>2. /\ mode' = mode /\ disk' = disk /\ faults' = faults /\ lost' = lost + 1 /\ up' = FALSE
      /\ rjobs' = << >> /\ wjobs' = << >> /\ ask' = {}
      /\ toServer' = << >> /\ toClient' = << >> /\ ipc' = << >>
      /\ saved' = [id \in Job |-> MetaOf(id)]
  BY DEF ConnectionLost
<1>3. ui' = [id \in Job |-> IF ui[id] \in {"running", "paused"}
                             THEN IF HasJob(id) THEN "paused" ELSE "lost" ELSE ui[id]]
  BY DEF ConnectionLost
<1>4. lost \in Nat
  BY <1>0, TransferAssumption DEF OneOffer, Typed
<1>5. NoErrors'
  BY <1>2, RangeHas DEF NoErrors, InFlight, Flying
<1>6. ASSUME NEW x \in Job, Straight(x)'
      PROVE  TidyJob(Upload, Leftover[mode], rjobs', toServer', toClient', ipc', ask', wjobs', disk', ui', x)
  <2>1. faults = 0 /\ MetaOf(x) = 0 /\ lost = 0 /\ ~Upload /\ ui'[x] \in Going
    BY <1>2, <1>4, <1>6 DEF Straight, Upload
  <2>2. x \notin DOMAIN wjobs
    BY <1>0, <2>1, MetaType DEF HasJob
  <2>3. saved[x] = 0
    BY <2>1 DEF TidyInv
  <2>4. ui[x] \in Going
    BY <2>1, <1>3 DEF Going
  <2>5. Straight(x)
    BY <2>1, <2>3, <2>4 DEF Straight
  <2>6. Tidy(Upload, Leftover[mode], Range(rjobs), InFlight, ask, wjobs, disk[x], x)
    BY <2>5 DEF TidyInv, TidyJob, InFlight
  <2>7. Clean(Leftover[mode], disk[x])
    BY <2>2, <2>6, WriterSame, CleanOwned
  <2>8. x \notin DOMAIN << >> /\ Range(<< >>) = {}
    BY RangeHas
  <2>9. TidyJob(Upload, Leftover[mode], << >>, << >>, << >>, << >>, {}, << >>, disk, ui', x)
    BY <2>7, <2>8, AllQuiet
  <2> QED BY <2>9, <1>2
<1> QED BY <1>1, <1>2, <1>4, <1>5, <1>6 DEF TidyInv, Upload

\* The client reconnects, and loads the jobs that were saved.
LEMMA ReconnectTidies == TidyInv /\ Reconnect => TidyInv'
<1> SUFFICES ASSUME TidyInv, Reconnect PROVE TidyInv'
  OBVIOUS
<1>0. OneOffer /\ ~up
  BY DEF TidyInv, Reconnect
<1>1. OneOffer'
  BY <1>0, ReconnectKeeps
<1>2. /\ mode' = mode /\ disk' = disk /\ faults' = faults /\ lost' = lost /\ up' = TRUE
      /\ ask' = ask /\ toServer' = toServer /\ toClient' = toClient /\ ipc' = ipc
      /\ saved' = saved /\ ui' = ui
  BY DEF Reconnect
<1>3. /\ ask = {} /\ toServer = << >> /\ toClient = << >> /\ ipc = << >> /\ wjobs = << >> /\ rjobs = << >>
      /\ lost # 0
  BY <1>0 DEF TidyInv, OneOffer
<1>4. ~Upload => /\ wjobs' = [id \in {x \in Job : saved[x] # 0} |-> new_write(saved[id], FALSE, TRUE)]
                 /\ rjobs' = rjobs
  BY DEF Reconnect
<1>5. NoErrors'
  BY <1>2, <1>3, RangeHas DEF NoErrors, InFlight, Flying
<1>6. ASSUME NEW x \in Job, Straight(x)'
      PROVE  TidyJob(Upload, Leftover[mode], rjobs', toServer', toClient', ipc', ask', wjobs', disk', ui', x)
  <2>1. Straight(x) /\ ~Upload /\ saved[x] = 0
    BY <1>2, <1>3, <1>6 DEF Straight, Upload
  <2>2. x \notin DOMAIN wjobs /\ x \notin DOMAIN wjobs'
    BY <1>3, <1>4, <2>1
  <2>6. Tidy(Upload, Leftover[mode], Range(rjobs), InFlight, ask, wjobs, disk[x], x)
    BY <2>1 DEF TidyInv, TidyJob, InFlight
  <2>7. Clean(Leftover[mode], disk[x])
    BY <2>2, <2>6, WriterSame, CleanOwned
  <2>8. Range(<< >>) = {}
    BY RangeHas
  <2>9. TidyJob(Upload, Leftover[mode], << >>, << >>, << >>, << >>, {}, wjobs', disk, ui, x)
    BY <2>2, <2>7, <2>8, AllQuiet
  <2>10. rjobs' = << >>
    BY <2>1, <1>3, <1>4
  <2> QED BY <2>9, <2>10, <1>2, <1>3
<1> QED BY <1>0, <1>1, <1>2, <1>3, <1>5, <1>6 DEF TidyInv, Upload

\* No job was started.
LEMMA TidyInit == Init => TidyInv
<1> SUFFICES ASSUME Init PROVE TidyInv
  OBVIOUS
<1>1. OneOffer
  BY StartsFine, TransferAssumption DEF Init
<1>2. /\ rjobs = << >> /\ wjobs = << >> /\ toServer = << >> /\ toClient = << >> /\ ipc = << >>
      /\ ask = {} /\ saved = [id \in Job |-> 0] /\ up = TRUE
  BY DEF Init, InitWith
<1>3. PICK file \in [File -> {"none", "old"}], part \in SUBSET Leftover[mode] :
        disk = [id \in Job |-> [f \in File |-> Fresh(f, file[f], f \in part)]]
  BY DEF Init, InitWith
<1>4. \A x \in Job : Clean(Leftover[mode], disk[x])
  BY <1>3 DEF Clean, Fresh
<1>5. NoErrors
  BY <1>2, RangeHas DEF NoErrors, InFlight, Flying
<1>6. ASSUME NEW x \in Job
      PROVE  TidyJob(Upload, Leftover[mode], rjobs, toServer, toClient, ipc, ask, wjobs, disk, ui, x)
  <2>1. x \notin DOMAIN wjobs /\ Range(rjobs) = {}
    BY <1>2, RangeHas
  <2>2. TidyJob(Upload, Leftover[mode], rjobs, << >>, << >>, << >>, {}, wjobs, disk, ui, x)
    BY <2>1, <1>4, AllQuiet
  <2> QED BY <2>2, <1>2
<1> QED BY <1>1, <1>2, <1>5, <1>6 DEF TidyInv

\* What job j says in a tick in which nothing fails.
Said(j, m) ==
  /\ m \in Sent /\ m.id = j.id
  /\ \/ m.t = "digest" /\ m.num = j.num /\ ~j.waiting
     \/ m.t = "block" /\ m.num = j.num /\ j.confirmed
     \/ m.t = "done"
     \/ m.t = "skipped" /\ AllSkipped(j)

\* A reader that opens its file offers it.
LEMMA DigestSaid ==
  ASSUME NEW j \in Reader, SendsDigest(j)
  PROVE  Said(j, InitMsg(j, FALSE)) /\ InitMsg(j, FALSE).t = "digest"
<1> DEFINE m == InitMsg(j, FALSE)
<1>1. m \in Sent /\ m.id = j.id /\ m.num = j.num /\ ~j.waiting
  BY InitMsgs, InitReader
<1>2. m.t = "digest"
  BY DEF InitMsg, Msg
<1> HIDE DEF m
<1>3. Said(j, m)
  BY <1>1, <1>2 DEF Said
<1> QED BY <1>2, <1>3 DEF m

\* Opening a file and reading from it move a reader on.
LEMMA ReadLater ==
  ASSUME NEW j \in Reader
  PROVE  /\ j.confirmed => Later(j, read(j))
         /\ Later(j, init_data_stream(j))
<1>0. j \in ReadJob /\ j.num \in Nat /\ j.num + 1 \in Nat
  BY Constants DEF Reader, ReadJob, Num
<1>1. ASSUME j.confirmed PROVE Later(j, read(j))
  <2>1. CASE AtEof(j)
    <3> DEFINE k == NextFile(j)
    <3>1. k.num = j.num + 1 /\ k.skipped = j.skipped
      BY <1>0 DEF NextFile, ReadJob
    <3>2. read(j) = k
      BY <2>1 DEF read
    <3> HIDE DEF k
    <3> QED BY <1>0, <3>1, <3>2 DEF Later
  <2>2. CASE ~AtEof(j)
    <3> DEFINE k == [j EXCEPT !.pos = @ + 1]
    <3>1. k.num = j.num /\ k.skipped = j.skipped /\ k.confirmed = j.confirmed
      BY <1>0 DEF ReadJob
    <3>2. read(j) = k
      BY <2>2 DEF read
    <3> HIDE DEF k
    <3>3. j.num =< k.num /\ k.confirmed /\ (k.skipped => j.skipped)
      BY <1>0, <1>1, <3>1
    <3>4. Later(j, k)
      BY <3>3 DEF Later
    <3> QED BY <3>2, <3>4
  <2> QED BY <2>1, <2>2
<1>2. Later(j, init_data_stream(j))
  <2>1. CASE ~SendsDigest(j)
    <3>1. init_data_stream(j) = j
      BY <2>1, InitReader
    <3> QED BY <3>1, SameLater
  <2>2. CASE SendsDigest(j)
    <3>1. init_data_stream(j).num = j.num /\ ~j.confirmed
      BY <2>2, InitReader DEF Reader
    <3>2. init_data_stream(j).skipped = j.skipped
      <4>1. MustOpen(j)
        BY <2>2 DEF SendsDigest, open_data_stream, MustOpen, Reader
      <4> DEFINE o == [j EXCEPT !.pos = 0, !.confirmed = FALSE, !.waiting = FALSE]
      <4>2. init_data_stream(j) = [o EXCEPT !.waiting = TRUE]
        BY <2>2, <4>1 DEF init_data_stream, open_data_stream
      <4>3. o.skipped = j.skipped
        BY <1>0 DEF ReadJob
      <4>4. [o EXCEPT !.waiting = TRUE].skipped = o.skipped
        BY <1>0 DEF ReadJob
      <4> HIDE DEF o
      <4> QED BY <4>2, <4>3, <4>4
    <3> HIDE DEF init_data_stream
    <3> QED BY <1>0, <3>1, <3>2 DEF Later
  <2> QED BY <2>1, <2>2
<1> QED BY <1>1, <1>2

\* Reading from a job sends one message at most.
LEMMA OutcomeOut ==
  ASSUME NEW j \in Reader
  PROVE  Outcome(j, FALSE).out = << >> \/ \E a \in Sent : Outcome(j, FALSE).out = <<a>>
<1> DEFINE F == FALSE
<1>1. F \in BOOLEAN /\ ~F
  OBVIOUS
<1> HIDE DEF F
<1>2. Outcome(j, F).out = << >> \/ \E a \in Sent : a.id = j.id /\ a.t # "digest" /\ Outcome(j, F).out = <<a>>
  BY <1>1, OutcomeSteps
<1>3. Outcome(j, F).out = << >> \/ \E a \in Sent : Outcome(j, F).out = <<a>>
  BY <1>2
<1> QED BY <1>3 DEF F

\* What reading from a job sends, when nothing fails; a job that was skipped as
\* a whole is finished.
LEMMA OutcomeSaid ==
  ASSUME NEW j \in Reader
  PROVE  LET o == Outcome(init_data_stream(j), FALSE)
         IN  /\ o.job \in Reader /\ o.job.id = j.id /\ Later(j, o.job)
             /\ \/ o.out = << >>
                \/ \E m : Said(j, m) /\ o.out = <<m>> /\ (m.t = "skipped" => o.fin)
<1> DEFINE s == init_data_stream(j)
           o == Outcome(s, FALSE)
<1>0. s \in Reader /\ s.id = j.id /\ Later(j, s)
  BY InitReader, ReadLater
<1>1. CASE SendsDigest(j)
  <2>1. s.waiting /\ ~s.confirmed
    BY <1>1, InitReader DEF At
  <2> HIDE DEF s
  <2>2. ~job_completed(s)
    BY <2>1 DEF job_completed
  <2>3. o.job = s /\ o.out = << >>
    BY <2>1, <2>2 DEF Outcome
  <2> QED BY <1>0, <2>3 DEF s
<1>2. CASE ~SendsDigest(j)
  <2>0. s = j
    BY <1>2, InitReader
  <2>1. CASE j.confirmed
    <3> DEFINE b == IF AtEof(j) THEN Eof ELSE j.pos + 1
               m == Msg("block", j.id, j.num, b)
    <3>1. o.job = read(j) /\ o.out = <<m>>
      BY <2>0, <2>1 DEF Outcome
    <3>2. m.id = j.id /\ m.num = j.num /\ m.t = "block"
      BY DEF Msg
    <3>3. m \in Sent
      <4> DEFINE w == Outcome(j, FALSE).out
      <4>1. w = << >> \/ \E a \in Sent : w = <<a>>
        BY OutcomeOut
      <4>2. w = <<m>>
        BY <2>0, <3>1
      <4> HIDE DEF m, o, w
      <4>3. w # << >> /\ w[1] = m
        BY <4>2
      <4> QED BY <4>1, <4>3
    <3> HIDE DEF m
    <3>4. Said(j, m)
      BY <2>1, <3>2, <3>3 DEF Said
    <3>5. Later(j, read(j)) /\ read(j) \in Reader /\ read(j).id = j.id
      BY <2>1, ReadLater, ReadReader
    <3> HIDE DEF s, o
    <3>6. \E a : Said(j, a) /\ o.out = <<a>> /\ (a.t = "skipped" => o.fin)
      BY <3>1, <3>2, <3>4
    <3>7. o.job \in Reader /\ o.job.id = j.id /\ Later(j, o.job)
      BY <3>1, <3>5
    <3> QED BY <3>6, <3>7 DEF s, o
  <2>2. CASE ~j.confirmed /\ job_completed(j)
    <3> DEFINE t == IF job_skipped(j) THEN "skipped" ELSE "done"
               m == Msg(t, j.id, j.num, 0)
    <3>1. o.job = j /\ o.out = <<m>> /\ o.fin
      BY <2>0, <2>2 DEF Outcome
    <3>2. m.id = j.id /\ m.t = t
      BY DEF Msg
    <3>3. m \in Sent
      <4> DEFINE w == Outcome(j, FALSE).out
      <4>1. w = << >> \/ \E a \in Sent : w = <<a>>
        BY OutcomeOut
      <4>2. w = <<m>>
        BY <2>0, <3>1
      <4> HIDE DEF m, o, w
      <4>3. w # << >> /\ w[1] = m
        BY <4>2
      <4> QED BY <4>1, <4>3
    <3>4. t = "done" \/ (t = "skipped" /\ AllSkipped(j))
      BY DEF job_skipped, AllSkipped
    <3> HIDE DEF m, t
    <3>5. Said(j, m)
      BY <3>2, <3>3, <3>4 DEF Said
    <3> HIDE DEF s, o
    <3>6. \E a : Said(j, a) /\ o.out = <<a>> /\ (a.t = "skipped" => o.fin)
      BY <3>1, <3>5
    <3>7. o.job \in Reader /\ o.job.id = j.id /\ Later(j, o.job)
      BY <3>1, SameLater
    <3> QED BY <3>6, <3>7 DEF s, o
  <2>3. CASE ~j.confirmed /\ ~job_completed(j)
    <3>1. o.job = j /\ o.out = << >>
      BY <2>0, <2>3 DEF Outcome
    <3> HIDE DEF o, s
    <3>2. o.job \in Reader /\ o.job.id = j.id /\ Later(j, o.job)
      BY <3>1, SameLater
    <3> QED BY <3>1, <3>2 DEF o, s
  <2> QED BY <2>1, <2>2, <2>3
<1> QED BY <1>1, <1>2

\* A tick in which nothing fails: R are the readers before it, Q those after
\* it, and b is sent.
Plain(R, Q, b) ==
  /\ b \in Seq(Sent)
  /\ \A k \in Range(Q) : \E j \in Range(R) : j.id = k.id /\ Later(j, k)
  /\ \A m \in Range(b) : \E j \in Range(R) :
       Said(j, m) /\ (m.t = "skipped" => \A k \in Range(Q) : k.id # m.id)

\* A job has one reader at most.
LEMMA OneReader ==
  ASSUME OneOffer
  PROVE  \A j, k \in Range(rjobs) : j.id = k.id => j = k
<1>1. \A i, k \in DOMAIN rjobs : rjobs[i].id = rjobs[k].id => i = k
  BY Readers, Unique
<1> QED BY <1>1 DEF Range

\* A confirmed file, of which blocks may be sent, is held back by nothing: not
\* by a message that skips it, nor by its own offer.
LEMMA ConfirmedSends ==
  ASSUME TidyInv, NEW x \in Job, NEW j \in Range(rjobs), j.id = x, j.confirmed, NEW f \in File, j.num = f,
         Tidy(Upload, Leftover[mode], Range(rjobs), InFlight, ask, wjobs, disk[x], x)
  PROVE  ~AllSkipped(j) /\ ~(~Upload /\ <<x, f>> \in ask) /\ \A m \in InFlight : m \notin Hold(Upload, x, f)
<1>0. OneOffer
  BY DEF TidyInv
<1>1. f \in Nat /\ ~(f < f)
  BY DEF File
<1>2. ~AllSkipped(j) /\ (Upload => \A m \in InFlight : m \notin Hold(Upload, x, f))
  BY <1>1 DEF Tidy
<1>3. Right(Upload, toServer, toClient, ipc, ask, j)
  BY <1>0 DEF OneOffer, Good, Pipe, Range
<1>4. <<x, f>> \notin ask
  BY <1>3 DEF Right, At
<1>5. ASSUME ~Upload, NEW m \in InFlight, m \in Hold(Upload, x, f) PROVE FALSE
  <2>1. m \in About(x) /\ (m.t = "send" \/ (m.t = "digest" /\ m.num = f))
    BY <1>5 DEF Hold
  <2>2. CASE m \in Range(toServer)
    <3>1. m \in ToServer(Upload)
      BY <1>0, <2>2, Views
    <3>2. m \in Wrong(OfferS(Upload, j.id), j)
      BY <1>5, <2>1, <3>1 DEF ToServer, Wrong, OfferS
    <3> QED BY <1>3, <2>2, <3>2 DEF Right, Has, Range
  <2>3. CASE m \in Range(toClient)
    <3>1. m \in ToClient(Upload)
      BY <1>0, <2>3, Views
    <3>2. m \in Wrong(OfferC(Upload, j.id), j)
      BY <1>5, <2>1, <3>1 DEF ToClient, FromReader, Wrong, OfferC, At
    <3> QED BY <1>3, <2>3, <3>2 DEF Right, Has, Range
  <2>4. CASE m \in Range(ipc)
    <3>1. m \in Told(InCM)
      BY <1>0, <2>4, Views
    <3>2. m \in Wrong(OfferI(j.id), j)
      BY <2>1, <3>1 DEF Told, FromReader, Wrong, OfferI, At
    <3> QED BY <1>3, <2>4, <3>2 DEF Right, Has, Range
  <2> QED BY <1>5, <2>2, <2>3, <2>4 DEF InFlight, Flying
<1> QED BY <1>2, <1>4, <1>5

\* The tick keeps every job tidy.
LEMMA SaidTidies ==
  ASSUME TidyInv, OneOffer', NEW x \in Job, NEW b, Plain(rjobs, rjobs', b),
         Tidy(Upload, Leftover[mode], Range(rjobs), InFlight, ask, wjobs, disk[x], x)
  PROVE  Tidy(Upload, Leftover[mode], Range(rjobs'), InFlight \cup Range(b), ask, wjobs, disk[x], x)
<1> DEFINE L == Leftover[mode]
           J == Range(rjobs)
           K == Range(rjobs')
           M == InFlight
           N == M \cup Range(b)
<1>0. OneOffer
  BY DEF TidyInv
<1>1. J \in SUBSET Reader
  BY <1>0, Views
<1>2. K \in SUBSET Reader
  <2>1. rjobs' \in Seq(Reader)
    BY DEF OneOffer, Good
  <2> QED BY <2>1, RangeType
<1>3. \A j, k \in J : j.id = k.id => j = k
  BY <1>0, OneReader
<1>4. /\ \A k \in K : \E j \in J : j.id = k.id /\ Later(j, k)
      /\ \A m \in Range(b) : \E j \in J :
           Said(j, m) /\ (m.t = "skipped" => \A k \in K : k.id # m.id)
  BY DEF Plain
<1>5. Owned(L, wjobs, disk[x], x)
  BY WriterSame
<1>6. \A j \in J, f \in File : j.id = x /\ j.confirmed /\ j.num = f =>
        /\ ~AllSkipped(j) /\ ~(~Upload /\ <<x, f>> \in ask)
        /\ \A m \in M : m \notin Hold(Upload, x, f)
  BY ConfirmedSends
<1> HIDE DEF J, K, M, L
<1>7. Fwd(Upload, J, M, ask, K, x)
  BY <1>4 DEF Fwd
<1>8. ASSUME NEW m \in Range(b), m.id = x, NEW f \in File
      PROVE  /\ m \in Hold(Upload, x, f) => Unsent(Upload, J, M, ask, x, f)
             /\ m \in Hold(Upload, x, f) => \A k \in K : Upload /\ k.id = x => f < k.num
             /\ m \in Blocks(x, f) => ~Unsent(Upload, K, N, ask, x, f)
  <2>1. PICK j \in J : Said(j, m) /\ (m.t = "skipped" => \A k \in K : k.id # m.id)
    BY <1>4
  <2>2. j.id = x /\ j \in Reader
    BY <2>1, <1>1, <1>8 DEF Said
  <2>3. ~j.waiting => ~j.confirmed
    BY <2>2 DEF Reader
  <2>4. ASSUME m \in Hold(Upload, x, f) PROVE Before(j, f) \/ AllSkipped(j)
    BY <2>1, <2>3, <2>4 DEF Hold, Said, Before
  <2>5. ASSUME m \in Hold(Upload, x, f), Upload PROVE m.t = "skipped"
    BY <2>1, <2>5 DEF Hold, Said
  <2>6. ASSUME m \in Blocks(x, f) PROVE ~Unsent(Upload, K, N, ask, x, f)
    <3>1. j.confirmed /\ j.num = f
      BY <2>1, <2>6 DEF Blocks, Said
    <3>2. /\ ~AllSkipped(j) /\ ~(~Upload /\ <<x, f>> \in ask)
          /\ \A a \in M : a \notin Hold(Upload, x, f)
      BY <1>6, <2>2, <3>1
    <3>3. ASSUME NEW k \in K, k.id = x PROVE ~Before(k, f) /\ ~AllSkipped(k)
      <4>1. PICK i \in J : i.id = k.id /\ Later(i, k)
        BY <1>4, <3>3
      <4>2. i = j
        BY <1>3, <2>2, <3>3, <4>1
      <4>3. Later(j, k)
        BY <4>1, <4>2
      <4>4. k \in Reader
        BY <1>2, <3>3
      <4> QED BY <2>2, <3>1, <3>2, <4>3, <4>4, LaterUnsent, <1>8 DEF Before, File
    <3>4. ASSUME NEW a \in Range(b), a \in Hold(Upload, x, f) PROVE FALSE
      <4>1. a.id = x
        BY <3>4 DEF Hold, About
      <4>2. PICK i \in J : Said(i, a)
        BY <1>4, <3>4
      <4>3. i = j
        BY <1>3, <2>2, <4>1, <4>2 DEF Said
      <4>4. Said(j, a)
        BY <4>2, <4>3
      <4> QED BY <2>3, <3>1, <3>2, <3>4, <4>4 DEF Hold, Said
    <3> QED BY <3>2, <3>3, <3>4 DEF Unsent
  <2>7. m \in Hold(Upload, x, f) => Unsent(Upload, J, M, ask, x, f)
    BY <2>2, <2>4 DEF Unsent
  <2>8. m \in Hold(Upload, x, f) /\ Upload => \A k \in K : k.id # x
    BY <1>8, <2>1, <2>5
  <2> QED BY <2>6, <2>7, <2>8
<1>9. ~Upload => \A f \in File : <<x, f>> \in ask => Unsent(Upload, J, M, ask, x, f)
  BY DEF Unsent
<1>10. Tidy(Upload, L, J, M, ask, wjobs, disk[x], x)
  BY DEF J, M, L
<1>11. \A m \in N : m.id = x => m \in M \/
         \A f \in File :
           /\ m \in Hold(Upload, x, f) => Unsent(Upload, J, M, ask, x, f)
           /\ m \in Hold(Upload, x, f) => \A k \in K : Upload /\ k.id = x => f < k.num
           /\ m \in Blocks(x, f) => ~Unsent(Upload, K, N, ask, x, f)
  BY <1>8
<1> HIDE DEF N
<1>12. Tidy(Upload, L, K, N, ask, wjobs, disk[x], x)
  BY <1>1, <1>2, <1>5, <1>7, <1>9, <1>10, <1>11, TidyStep
<1> QED BY <1>12 DEF J, K, M, N, L

\* A sequence over a set is one over a larger set.
LEMMA Wider ==
  ASSUME NEW S, NEW T, S \subseteq T, NEW q \in Seq(S)
  PROVE  q \in Seq(T)
<1>1. Len(q) \in Nat /\ q \in [1..Len(q) -> S]
  BY LenProperties, ElementOfSeq
<1>2. q \in [1..Len(q) -> T]
  BY <1>1
<1> QED BY <1>1, <1>2, IsASeq

\* Where a tick sends its messages.
LEMMA SendFlies ==
  ASSUME OneOffer, NEW b \in Seq(Sent), Send(b)
  PROVE  /\ Flying(toServer', toClient', ipc') = InFlight \cup Range(b)
         /\ toServer' = toServer \/ (Upload /\ toServer' = toServer \o b)
<1> DEFINE T == ToServer(Upload) \cup ToClient(Upload) \cup Told(InCM) \cup Sent
<1>0. toServer \in Seq(ToServer(Upload)) /\ toClient \in Seq(ToClient(Upload)) /\ ipc \in Seq(Told(InCM))
  BY Views
<1>1. toServer \in Seq(T) /\ toClient \in Seq(T) /\ ipc \in Seq(T) /\ b \in Seq(T)
  <2>1. ToServer(Upload) \subseteq T /\ ToClient(Upload) \subseteq T /\ Told(InCM) \subseteq T /\ Sent \subseteq T
    OBVIOUS
  <2> HIDE DEF T
  <2> QED BY <1>0, <2>1, Wider
<1> HIDE DEF T
<1>2. CASE Upload
  <2>1. toServer' = toServer \o b /\ toClient' = toClient /\ ipc' = ipc
    BY <1>2 DEF Send, InCM, Upload
  <2>2. Range(toServer') = Range(toServer) \cup Range(b)
    BY <1>1, <2>1, RangeConcat
  <2> QED BY <1>2, <2>1, <2>2 DEF Flying, InFlight
<1>3. CASE ~Upload /\ InCM
  <2>1. ipc' = ipc \o b /\ toClient' = toClient /\ toServer' = toServer
    BY <1>3 DEF Send
  <2>2. Range(ipc') = Range(ipc) \cup Range(b)
    BY <1>1, <2>1, RangeConcat
  <2> QED BY <2>1, <2>2 DEF Flying, InFlight
<1>4. CASE ~Upload /\ ~InCM
  <2>1. toClient' = toClient \o b /\ toServer' = toServer /\ ipc' = ipc
    BY <1>4 DEF Send
  <2>2. Range(toClient') = Range(toClient) \cup Range(b)
    BY <1>1, <2>1, RangeConcat
  <2> QED BY <2>1, <2>2 DEF Flying, InFlight
<1> QED BY <1>2, <1>3, <1>4

\* The tick keeps the invariant.
LEMMA TickTidies ==
  ASSUME TidyInv, OneOffer', up, NEW b, Plain(rjobs, rjobs', b), Send(b), faults' = faults,
         UNCHANGED <<mode, wjobs, disk, ask, ui, saved, up, lost>>
  PROVE  TidyInv'
<1> DEFINE L == Leftover[mode]
<1>0. /\ OneOffer
      /\ lost = 0 => up /\ \A x \in Job : saved[x] = 0
      /\ faults = 0 => NoErrors
      /\ \A x \in Job : Straight(x) =>
           TidyJob(Upload, L, rjobs, toServer, toClient, ipc, ask, wjobs, disk, ui, x)
  BY DEF TidyInv
<1>1. b \in Seq(Sent)
  BY DEF Plain
<1>2. /\ Flying(toServer', toClient', ipc') = InFlight \cup Range(b)
      /\ toServer' = toServer \/ (Upload /\ toServer' = toServer \o b)
  BY <1>0, <1>1, SendFlies
<1>3. \A m \in Range(b) : m.t \in {"digest", "block", "done", "skipped"}
  BY DEF Plain, Said
<1>4. faults' = 0 => NoErrors'
  BY <1>0, <1>2, <1>3 DEF NoErrors, InFlight
<1>5. ASSUME NEW x \in Job, Straight(x)'
      PROVE  TidyJob(Upload, L, rjobs', toServer', toClient', ipc', ask', wjobs', disk', ui', x)
  <2>1. Straight(x)
    BY <1>5 DEF Straight, Upload
  <2>2. TidyJob(Upload, L, rjobs, toServer, toClient, ipc, ask, wjobs, disk, ui, x)
    BY <2>1, <1>0
  <2>3. Tidy(Upload, L, Range(rjobs), InFlight, ask, wjobs, disk[x], x) /\ Ends(Upload, toServer, wjobs, ui[x], x)
    BY <2>2 DEF TidyJob, InFlight
  <2>4. Tidy(Upload, L, Range(rjobs'), InFlight \cup Range(b), ask, wjobs, disk[x], x)
    BY <2>3, SaidTidies
  <2>5. Ends(Upload, toServer', wjobs, ui[x], x)
    <3>1. CASE Upload /\ toServer' = toServer \o b
      <4> DEFINE T == ToServer(Upload) \cup Sent
      <4>1. toServer \in Seq(T) /\ b \in Seq(T)
        <5>1. toServer \in Seq(ToServer(Upload))
          BY <1>0, Views
        <5>2. /\ toServer \in [1..Len(toServer) -> ToServer(Upload)] /\ Len(toServer) \in Nat
              /\ b \in [1..Len(b) -> Sent] /\ Len(b) \in Nat
          BY <1>1, <5>1, LenProperties, ElementOfSeq
        <5>3. toServer \in [1..Len(toServer) -> T] /\ b \in [1..Len(b) -> T]
          BY <5>2
        <5> HIDE DEF T
        <5> QED BY <5>2, <5>3, IsASeq
      <4> HIDE DEF T
      <4>2. ~Has(b, Starts(x))
        BY <1>3 DEF Has, Starts, Range
      <4>3. Ends(Upload, toServer \o b, wjobs, ui[x], x)
        BY <2>3, <4>1, <4>2, EndsGrow
      <4> QED BY <3>1, <4>3
    <3>2. CASE toServer' = toServer
      BY <2>3, <3>2
    <3> QED BY <1>2, <3>1, <3>2
  <2> QED BY <1>2, <2>4, <2>5 DEF TidyJob
<1>6. Upload' = Upload /\ Leftover[mode]' = L
  BY DEF Upload
<1>7. (lost = 0 => up /\ \A x \in Job : saved[x] = 0)'
  BY <1>0
<1> HIDE DEF L
<1> QED BY <1>4, <1>5, <1>6, <1>7 DEF TidyInv

\* handle_read_jobs, when every file can be opened and read.
LEMMA PlainReadJobs ==
  ASSUME OneOffer, \E i \in DOMAIN rjobs : ~rjobs[i].last, handle_read_jobs({}, FALSE)
  PROVE  \E b : Plain(rjobs, rjobs', b) /\ Send(b)
<1> DEFINE R == rjobs
           js == [i \in DOMAIN R |-> IF i \in {} THEN NextFile(R[i]) ELSE init_data_stream(R[i])]
           tells == [i \in DOMAIN R |-> IF i \in {} \/ SendsDigest(R[i])
                                          THEN <<InitMsg(R[i], i \in {})>> ELSE << >>]
           F == First
           o == Outcome(js[F], FALSE)
           done == [js EXCEPT ![F] = o.job]
           told == FlattenSeq(tells)
           b == told \o o.out
           Q == rjobs'
<1>1. /\ Q = IF o.fin THEN remove_job(o.job.id, done) ELSE done
      /\ Send(b)
  BY DEF handle_read_jobs
<1>2. F \in DOMAIN R
  BY FirstJob
<1>3. /\ R \in Seq(Reader) /\ \A x \in Job : Lone(R, JobsOf(x))
      /\ DOMAIN R = 1..Len(R) /\ Len(R) \in Nat
      /\ \A i \in DOMAIN R : R[i] \in Reader /\ R[i].id \in Job /\ R[i] \in Range(R)
  BY Readers DEF Range
<1>4. DOMAIN js = DOMAIN R /\ \A i \in DOMAIN R : js[i] = init_data_stream(R[i])
  OBVIOUS
<1>5. \A i \in DOMAIN R : js[i] \in Reader /\ js[i].id = R[i].id /\ Later(R[i], js[i])
  <2> HIDE DEF js
  <2> QED BY <1>3, <1>4, InitReader, ReadLater
<1>6. /\ o.job \in Reader /\ o.job.id = R[F].id /\ Later(R[F], o.job)
      /\ \/ o.out = << >>
         \/ \E m : Said(R[F], m) /\ o.out = <<m>> /\ (m.t = "skipped" => o.fin)
  <2>1. js[F] = init_data_stream(R[F]) /\ R[F] \in Reader
    BY <1>2, <1>3, <1>4
  <2> HIDE DEF js
  <2>2. o = Outcome(init_data_stream(R[F]), FALSE)
    BY <2>1
  <2> HIDE DEF o
  <2> QED BY <2>1, <2>2, OutcomeSaid
<1>7. /\ done = [i \in DOMAIN R |-> done[i]] /\ DOMAIN done = DOMAIN R
      /\ done[F] = o.job /\ \A i \in DOMAIN R : i # F => done[i] = js[i]
  <2> HIDE DEF o
  <2> QED BY <1>2, <1>4
<1> HIDE DEF js, o, done
<1>8. \A i \in DOMAIN R : done[i] \in Reader /\ done[i].id = R[i].id /\ Later(R[i], done[i])
  BY <1>5, <1>6, <1>7
<1>9. done \in Seq(Reader) /\ \A id \in Job : Lone(done, JobsOf(id))
  BY <1>3, <1>7, <1>8, Mapped
<1>10. \A k \in DOMAIN Q : (\E i \in DOMAIN R : Q[k] = done[i]) /\ (o.fin => Q[k].id # R[F].id)
  <2>1. CASE o.fin
    <3>1. Q = remove_job(o.job.id, done)
      BY <1>1, <2>1
    <3>2. o.job.id \in Job
      BY <1>2, <1>3, <1>6
    <3>3. \A k \in DOMAIN Q : (\E i \in DOMAIN done : Q[k] = done[i]) /\ Q[k].id # o.job.id
      BY <1>9, <3>1, <3>2, Removed
    <3> QED BY <1>6, <1>7, <3>3
  <2>2. CASE ~o.fin
    BY <1>1, <1>7, <2>2
  <2> QED BY <2>1, <2>2
<1> HIDE DEF Q
<1>11. \A k \in Range(Q) : \E j \in Range(R) : j.id = k.id /\ Later(j, k)
  <2> SUFFICES ASSUME NEW k \in Range(Q) PROVE \E j \in Range(R) : j.id = k.id /\ Later(j, k)
    OBVIOUS
  <2>1. PICK i \in DOMAIN R : k = done[i]
    BY <1>10 DEF Range
  <2> QED BY <1>3, <1>8, <2>1
<1>12. \A k \in Range(Q) : o.fin => k.id # R[F].id
  BY <1>10 DEF Range
\* What is sent.
<1>13. ASSUME NEW i \in DOMAIN R
       PROVE  /\ tells[i] \in Seq(Sent)
              /\ \A m : Has(tells[i], {m}) => Said(R[i], m) /\ m.t = "digest"
  <2>1. CASE SendsDigest(R[i])
    <3> DEFINE m == InitMsg(R[i], FALSE)
    <3>1. Said(R[i], m) /\ m.t = "digest"
      BY <1>3, <2>1, DigestSaid
    <3>2. tells[i] = <<m>>
      <4>1. (i \in {}) = FALSE
        OBVIOUS
      <4> QED BY <2>1, <4>1
    <3> HIDE DEF m, tells
    <3>3. m \in Sent
      BY <3>1 DEF Said
    <3>4. <<m>> \in Seq(Sent) /\ \A P : Has(<<m>>, P) => m \in P
      BY <3>3, SingleHas
    <3> QED BY <3>1, <3>2, <3>4
  <2>2. CASE ~SendsDigest(R[i])
    <3>1. tells[i] = << >>
      BY <2>2
    <3> HIDE DEF tells
    <3> QED BY <3>1, EmptyHas
  <2> QED BY <2>1, <2>2
<1>14. tells \in Seq(Seq(Sent)) /\ DOMAIN tells = DOMAIN R
  <2> DEFINE T == Seq(Sent)
  <2>1. tells \in [1..Len(R) -> T] /\ DOMAIN tells = DOMAIN R
    BY <1>3, <1>13
  <2> HIDE DEF T, tells
  <2>2. tells \in Seq(T)
    BY <1>3, <2>1, IsASeq
  <2> QED BY <2>1, <2>2 DEF T
<1> HIDE DEF tells
<1>15. told \in Seq(Sent) /\ \A P : Has(told, P) => \E i \in DOMAIN R : Has(tells[i], P)
  BY <1>14, FlattenSeqType, FlattenHas
<1> HIDE DEF told
<1>16. \A m \in Range(told) : \E j \in Range(R) : Said(j, m) /\ m.t = "digest"
  <2> SUFFICES ASSUME NEW m \in Range(told) PROVE \E j \in Range(R) : Said(j, m) /\ m.t = "digest"
    OBVIOUS
  <2>1. PICK i \in DOMAIN R : Has(tells[i], {m})
    BY <1>15, RangeHas
  <2> QED BY <1>3, <1>13, <2>1
<1>17. o.out \in Seq(Sent) /\ \A m \in Range(o.out) : Said(R[F], m) /\ (m.t = "skipped" => o.fin)
  <2>1. CASE o.out = << >>
    BY <2>1, EmptyHas, RangeHas
  <2>2. ASSUME NEW m, Said(R[F], m), o.out = <<m>>, m.t = "skipped" => o.fin
        PROVE  o.out \in Seq(Sent) /\ \A a \in Range(o.out) : Said(R[F], a) /\ (a.t = "skipped" => o.fin)
    <3>1. m \in Sent
      BY <2>2 DEF Said
    <3>2. <<m>> \in Seq(Sent)
      BY <3>1, SingleHas
    <3> QED BY <2>2, <3>2, RangeHas
  <2> QED BY <1>6, <2>1, <2>2
<1>18. b \in Seq(Sent) /\ Range(b) = Range(told) \cup Range(o.out)
  BY <1>15, <1>17, RangeConcat, ConcatProperties
<1> HIDE DEF b
<1>19. ASSUME NEW m \in Range(b)
       PROVE  \E j \in Range(R) : Said(j, m) /\ (m.t = "skipped" => \A k \in Range(Q) : k.id # m.id)
  <2>1. CASE m \in Range(told)
    BY <1>16, <2>1
  <2>2. CASE m \in Range(o.out)
    <3>1. Said(R[F], m) /\ (m.t = "skipped" => o.fin) /\ m.id = R[F].id
      BY <1>17, <2>2 DEF Said
    <3> QED BY <1>2, <1>3, <1>12, <3>1
  <2> QED BY <1>18, <2>1, <2>2
<1>20. Plain(R, Q, b)
  BY <1>11, <1>18, <1>19 DEF Plain
<1> QED BY <1>1, <1>20 DEF Q

\* handle_read_jobs_tick, when the first job's file can be opened and read.
LEMMA PlainReadJobsTick ==
  ASSUME OneOffer, InCM, rjobs # << >>, handle_read_jobs_tick(0, FALSE)
  PROVE  \E b : Plain(rjobs, rjobs', b) /\ Send(b)
<1> DEFINE R == rjobs
           Q == rjobs'
           errs == [i \in 1..0 |-> InitMsg(R[i], TRUE)]
           j == R[1]
           s == init_data_stream(j)
           o == Outcome(s, FALSE)
           rest == SubSeq(R, 2, Len(R))
           whole == <<o.job>> \o rest
           d == IF SendsDigest(j) THEN <<InitMsg(j, FALSE)>> ELSE << >>
           b == (errs \o d) \o o.out
<1>1. /\ R \in Seq(Reader) /\ \A x \in Job : Lone(R, JobsOf(x))
      /\ DOMAIN R = 1..Len(R) /\ Len(R) \in Nat
      /\ \A i \in DOMAIN R : R[i] \in Reader /\ R[i].id \in Job /\ R[i] \in Range(R)
  BY Readers DEF Range
<1>2. \A i, k \in DOMAIN R : R[i].id = R[k].id => i = k
  BY <1>1, Unique
<1>3. Len(R) # 0
  BY <1>1, EmptySeq
<1>4. 1 \in DOMAIN R /\ j \in Reader /\ 0 \in 0..Len(R) - 1
  BY <1>1, <1>3
<1>5. 0 + 1 = 1 /\ 0 + 2 = 2
  OBVIOUS
<1>6. /\ Q = IF o.fin THEN rest ELSE whole
      /\ Send(b)
  BY <1>3, <1>5 DEF handle_read_jobs_tick
<1>7. /\ o.job \in Reader /\ o.job.id = j.id /\ Later(j, o.job)
      /\ \/ o.out = << >>
         \/ \E m : Said(j, m) /\ o.out = <<m>> /\ (m.t = "skipped" => o.fin)
  BY <1>4, OutcomeSaid
<1> HIDE DEF s, o, j
<1>8. /\ rest \in Seq(Reader) /\ whole \in Seq(Reader)
      /\ \A k \in DOMAIN rest : k + 1 \in DOMAIN R /\ rest[k] = R[k + 1] /\ k + 1 # 1
      /\ whole[1] = o.job
      /\ \A k \in DOMAIN whole : k \in DOMAIN R /\ (k = 1 \/ whole[k] = R[k])
  <2> DEFINE n == 0
             r == SubSeq(R, n + 2, Len(R))
             w == <<o.job>> \o r
  <2>1. n \in 0..Len(R) - 1
    BY <1>4
  <2>2. n + 1 = 1 /\ n + 2 = 2 /\ n \in Nat /\ \A k \in Nat : k + n = k
    OBVIOUS
  <2> HIDE DEF n
  <2>3. /\ r \in Seq(Reader) /\ w \in Seq(Reader)
        /\ \A k \in DOMAIN r : k + (n + 1) \in DOMAIN R /\ r[k] = R[k + (n + 1)] /\ k + (n + 1) # n + 1
        /\ w[1] = o.job
        /\ \A k \in DOMAIN w : k + n \in DOMAIN R /\ (k = 1 \/ w[k] = R[k + n])
    BY <1>1, <1>7, <2>1, Behind
  <2>4. r = rest /\ w = whole
    BY <2>2
  <2> HIDE DEF r, w, rest, whole
  <2>5. DOMAIN whole \subseteq Nat
    BY <2>3, <2>4, LenProperties
  <2> QED BY <2>2, <2>3, <2>4, <2>5
<1> HIDE DEF rest, whole
<1>9. \A k \in DOMAIN Q : \/ Q[k] = o.job /\ ~o.fin
                          \/ Q[k] \in Range(R) /\ (o.fin => Q[k].id # j.id)
  <2>1. CASE o.fin
    <3>1. Q = rest
      BY <1>6, <2>1
    <3>2. ASSUME NEW k \in DOMAIN Q PROVE Q[k] \in Range(R) /\ Q[k].id # j.id
      <4>1. k + 1 \in DOMAIN R /\ Q[k] = R[k + 1] /\ k + 1 # 1
        BY <1>8, <3>1, <3>2
      <4>2. R[k + 1].id # R[1].id
        BY <1>2, <1>4, <4>1
      <4> QED BY <1>1, <4>1, <4>2 DEF j
    <3> QED BY <3>2
  <2>2. CASE ~o.fin
    <3>1. Q = whole
      BY <1>6, <2>2
    <3> QED BY <1>1, <1>8, <2>2, <3>1
  <2> QED BY <2>1, <2>2
<1> HIDE DEF Q
<1>10. j \in Range(R) /\ Range(R) \subseteq Reader
  BY <1>1, <1>4, RangeType DEF j
<1>11. \A k \in Range(Q) : \E i \in Range(R) : i.id = k.id /\ Later(i, k)
  <2> SUFFICES ASSUME NEW k \in Range(Q) PROVE \E i \in Range(R) : i.id = k.id /\ Later(i, k)
    OBVIOUS
  <2>1. k = o.job \/ k \in Range(R)
    BY <1>9 DEF Range
  <2>2. ASSUME k \in Range(R) PROVE Later(k, k)
    BY <1>10, <2>2, SameLater
  <2> QED BY <1>7, <1>10, <2>1, <2>2
<1>12. o.fin => \A k \in Range(Q) : k.id # j.id
  BY <1>9 DEF Range
<1>13. errs \in Seq(Sent) /\ Range(errs) = {}
  <2>1. errs = << >>
    OBVIOUS
  <2> HIDE DEF errs
  <2> QED BY <2>1, RangeHas, EmptyHas
<1>14. d \in Seq(Sent) /\ \A m \in Range(d) : Said(j, m) /\ m.t = "digest"
  <2>1. CASE SendsDigest(j)
    <3> DEFINE m == InitMsg(j, FALSE)
    <3>1. Said(j, m) /\ m.t = "digest"
      BY <1>4, <2>1, DigestSaid
    <3>2. d = <<m>>
      BY <2>1
    <3> HIDE DEF m, d
    <3>3. m \in Sent
      BY <3>1 DEF Said
    <3>4. <<m>> \in Seq(Sent)
      BY <3>3, SingleHas
    <3> QED BY <3>1, <3>2, <3>4, RangeHas
  <2>2. CASE ~SendsDigest(j)
    <3>1. d = << >>
      BY <2>2
    <3> HIDE DEF d
    <3> QED BY <3>1, EmptyHas, RangeHas
  <2> QED BY <2>1, <2>2
<1> HIDE DEF errs, d
<1>17. o.out \in Seq(Sent) /\ \A m \in Range(o.out) : Said(j, m) /\ (m.t = "skipped" => o.fin)
  <2>1. CASE o.out = << >>
    BY <2>1, EmptyHas, RangeHas
  <2>2. ASSUME NEW m, Said(j, m), o.out = <<m>>, m.t = "skipped" => o.fin
        PROVE  o.out \in Seq(Sent) /\ \A a \in Range(o.out) : Said(j, a) /\ (a.t = "skipped" => o.fin)
    <3>1. m \in Sent
      BY <2>2 DEF Said
    <3>2. <<m>> \in Seq(Sent)
      BY <3>1, SingleHas
    <3> QED BY <2>2, <3>2, RangeHas
  <2> QED BY <1>7, <2>1, <2>2
<1>18. b \in Seq(Sent) /\ Range(b) = Range(d) \cup Range(o.out)
  <2> DEFINE c == errs \o d
  <2>1. c \in Seq(Sent) /\ Range(c) = Range(d)
    <3>1. errs \in Seq(Sent) /\ d \in Seq(Sent)
      BY <1>13, <1>14
    <3>2. c \in Seq(Sent)
      BY <3>1, ConcatProperties
    <3>3. Range(c) = Range(errs) \cup Range(d)
      BY <3>1, RangeConcat
    <3> QED BY <1>13, <3>2, <3>3
  <2> HIDE DEF c
  <2>2. c \o o.out \in Seq(Sent) /\ Range(c \o o.out) = Range(d) \cup Range(o.out)
    BY <1>17, <2>1, RangeConcat, ConcatProperties
  <2> QED BY <2>2 DEF c
<1> HIDE DEF b
<1>19. ASSUME NEW m \in Range(b)
       PROVE  \E i \in Range(R) : Said(i, m) /\ (m.t = "skipped" => \A k \in Range(Q) : k.id # m.id)
  <2>1. CASE m \in Range(d)
    BY <1>10, <1>14, <2>1
  <2>2. CASE m \in Range(o.out)
    <3>1. Said(j, m) /\ (m.t = "skipped" => o.fin) /\ m.id = j.id
      BY <1>17, <2>2 DEF Said
    <3> QED BY <1>10, <1>12, <3>1
  <2> QED BY <1>18, <2>1, <2>2
<1>20. Plain(R, Q, b)
  BY <1>11, <1>18, <1>19 DEF Plain
<1> QED BY <1>6, <1>20 DEF Q

\* The timer of the jobs, with or without a fault.
LEMMA FileTimerTidies == TidyInv /\ FileTimer => TidyInv'
<1> SUFFICES ASSUME TidyInv, FileTimer PROVE TidyInv'
  OBVIOUS
<1>0. OneOffer /\ (lost = 0 => up /\ \A x \in Job : saved[x] = 0)
  BY DEF TidyInv
<1>1. /\ up /\ \E i \in DOMAIN rjobs : ~rjobs[i].last
      /\ UNCHANGED <<mode, cmIds, wjobs, disk, ask, ui, saved, skips, unwritten, up, lost>>
  BY DEF FileTimer
<1>2. OneOffer'
  BY <1>0, FileTimerKeeps
<1>3. PICK fails \in BOOLEAN, n \in 0..Len(rjobs) :
        /\ LET k == n + (IF fails THEN 1 ELSE 0)
           IN  IF k = 0 THEN UNCHANGED faults ELSE Fault(k)
        /\ IF InCM THEN handle_read_jobs_tick(n, fails)
           ELSE \E Fail \in SUBSET {i \in DOMAIN rjobs : MustOpen(rjobs[i])} :
                  Cardinality(Fail) = n /\ handle_read_jobs(Fail, fails)
  BY DEF FileTimer
<1>4. n \in Nat /\ DOMAIN rjobs = 1..Len(rjobs) /\ Len(rjobs) \in Nat
  BY <1>0, Readers
<1>5. CASE n = 0 /\ fails = FALSE
  <2>1. faults' = faults
    BY <1>3, <1>5
  <2>2. \E b : Plain(rjobs, rjobs', b) /\ Send(b)
    <3>1. CASE InCM
      <4>1. handle_read_jobs_tick(0, FALSE)
        BY <1>3, <1>5, <3>1
      <4>2. rjobs # << >>
        BY <1>1
      <4> QED BY <1>0, <3>1, <4>1, <4>2, PlainReadJobsTick
    <3>2. CASE ~InCM
      <4>1. PICK Fail \in SUBSET {i \in DOMAIN rjobs : MustOpen(rjobs[i])} :
              Cardinality(Fail) = 0 /\ handle_read_jobs(Fail, FALSE)
        BY <1>3, <1>5, <3>2
      <4>2. Fail = {}
        <5>1. IsFiniteSet(1..Len(rjobs))
          BY <1>4, FS_Interval
        <5>2. Fail \in SUBSET (1..Len(rjobs))
          BY <1>4
        <5>3. IsFiniteSet(Fail)
          BY <5>1, <5>2, FS_Subset
        <5> QED BY <4>1, <5>3, FS_EmptySet
      <4>3. handle_read_jobs({}, FALSE)
        BY <4>1, <4>2
      <4> QED BY <1>0, <1>1, <4>3, PlainReadJobs
    <3> QED BY <3>1, <3>2
  <2>3. PICK b : Plain(rjobs, rjobs', b) /\ Send(b)
    BY <2>2
  <2> QED BY <1>1, <1>2, <2>1, <2>3, TickTidies
<1>6. CASE ~(n = 0 /\ fails = FALSE)
  <2> DEFINE k == n + (IF fails THEN 1 ELSE 0)
  <2>1. k \in Nat \ {0}
    BY <1>4, <1>6
  <2>2. Fault(k)
    BY <1>3, <2>1
  <2> HIDE DEF k
  <2>3. faults' # 0
    BY <2>1, <2>2, FaultCounts
  <2>4. \A x \in Job : ~Straight(x)'
    BY <2>3 DEF Straight
  <2>5. (~up => wjobs = << >> /\ rjobs = << >>)'
    BY <1>1
  <2>6. (lost = 0 => up /\ \A x \in Job : saved[x] = 0)'
    BY <1>0, <1>1
  <2>7. (faults = 0 => NoErrors)'
    BY <2>3
  <2> QED BY <1>2, <2>4, <2>5, <2>6, <2>7 DEF TidyInv
<1> QED BY <1>5, <1>6

\* The invariant is inductive.
LEMMA TidyInvInductive ==
  /\ Init => TidyInv
  /\ TidyInv /\ [Next]_vars => TidyInv'
<1>1. TidyInv /\ Next => TidyInv'
  BY CommandTidies, FileTimerTidies, ServerStepTidies, FromCMTidies, ClientStepTidies,
     ConnectionLostTidies, ReconnectTidies DEF Next
<1>2. TidyInv /\ UNCHANGED vars => TidyInv'
  <2> SUFFICES ASSUME TidyInv, UNCHANGED vars PROVE TidyInv'
    OBVIOUS
  <2>1. OneOffer'
    BY OneOfferInductive DEF TidyInv
  <2>2. /\ mode' = mode /\ rjobs' = rjobs /\ ipc' = ipc /\ wjobs' = wjobs
        /\ disk' = disk /\ toServer' = toServer /\ toClient' = toClient /\ ask' = ask /\ ui' = ui
        /\ saved' = saved /\ up' = up /\ faults' = faults /\ lost' = lost
    BY DEF vars, sender
  <2>3. Upload' = Upload /\ NoErrors' = NoErrors /\ \A x \in Job : Straight(x)' = Straight(x)
    BY <2>2 DEF Upload, NoErrors, InFlight, Straight
  <2> QED BY <2>1, <2>2, <2>3 DEF TidyInv
<1> QED BY TidyInit, <1>1, <1>2

-----------------------------------------------------------------------------
(* Cancelling a job that met no fault and was not paused leaves no part of *)
(* a file that was not there before, whatever blocks are still on their    *)
(* way (io_loop.rs, CancelJob; connection.rs, FileAction::Cancel; fs.rs,   *)
(* remove_download_file).  The connection may be lost once while           *)
(* downloading.  It may not while uploading, since the cancellation may be *)
(* lost with it, and not twice, since then a job that was saved, cancelled *)
(* and lost again is no longer known to have been saved.                   *)
THEOREM CancelLeavesNoPart ==
  Spec => [](CancelClean \/ lost > 1 \/ (Upload /\ lost > 0))
<1>1. ASSUME TidyInv PROVE CancelClean \/ lost > 1 \/ (Upload /\ lost > 0)
  <2> SUFFICES ASSUME ~(lost > 1), ~(Upload /\ lost > 0), NEW x \in Job,
                      ui[x] = "cancelled", saved[x] = 0, faults = 0, toServer = << >>
               PROVE  Clean(Leftover[mode], disk[x])
    BY DEF CancelClean, Clean
  <2>1. lost \in Nat
    BY <1>1, TransferAssumption DEF TidyInv, OneOffer, Typed
  <2>2. Straight(x)
    BY <2>1 DEF Straight, Going
  <2>3. TidyJob(Upload, Leftover[mode], rjobs, toServer, toClient, ipc, ask, wjobs, disk, ui, x)
    BY <1>1, <2>2 DEF TidyInv
  <2>4. Ends(Upload, toServer, wjobs, "cancelled", x) /\ Owned(Leftover[mode], wjobs, disk[x], x)
    BY <2>3 DEF TidyJob, Tidy
  <2>5. ~Has(toServer, Cancels(x))
    BY DEF Has
  <2>6. x \notin DOMAIN wjobs
    BY <2>4, <2>5 DEF Ends
  <2> QED BY <2>4, <2>6, CleanOwned
<1>2. TidyInv => (CancelClean \/ lost > 1 \/ (Upload /\ lost > 0))
  BY <1>1
<1> QED BY <1>2, TidyInvInductive, PTL DEF Spec
=============================================================================
