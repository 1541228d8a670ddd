---------------------------- MODULE OutputBuffer ----------------------------
(***************************************************************************)
(* The history of a terminal (OutputBuffer of server/terminal_service.rs): *)
(* the output split into lines, trimmed at the front when it is too large, *)
(* replayed when a client comes back.  A byte is any value; `NL' is the    *)
(* newline.  The size is a usize, and the release build wraps it around.   *)
(***************************************************************************)
EXTENDS Integers, Sequences, SequencesExt, FiniteSetsExt

CONSTANTS
  NL,          \* the newline
  MaxSize,     \* MAX_OUTPUT_BUFFER_SIZE
  MaxLines,    \* MAX_BUFFER_LINES
  Width        \* 2 to the width of a usize

ASSUME BufferAssumption ==
  MaxSize \in Nat /\ MaxLines \in Nat \ {0} /\ Width \in Nat /\ MaxSize < Width

\* `hung': the loop that trims does not end.
OutputBufferType(Byte) ==
  [lines : Seq(Seq(Byte)), total : 0..Width - 1, incomplete : BOOLEAN, hung : BOOLEAN]

NewBuffer == [lines |-> << >>, total |-> 0, incomplete |-> FALSE, hung |-> FALSE]

\* The bytes of the first k of some lines.
Bytes(lines, k) == Len(FlattenSeq(SubSeq(lines, 1, k)))

\* data.split(newline), each line with its newline, and without an empty rest.
Split(data) ==
  LET ends   == {i \in DOMAIN data : data[i] = NL \/ i = Len(data)}
      end(k) == CHOOSE i \in ends : Cardinality({j \in ends : j <= i}) = k
  IN  [k \in 1..Cardinality(ends) |->
         SubSeq(data, IF k = 1 THEN 1 ELSE end(k - 1) + 1, end(k))]

\* Lines are dropped at the front while there are too many or the total is too
\* large.  When even dropping them all does not help, the loop goes on for ever.
Trim(b) ==
  LET left(k)     == (b.total - Bytes(b.lines, k)) % Width
      tooLarge(k) == left(k) > MaxSize \/ Len(b.lines) - k > MaxLines
      enough      == {k \in 0..Len(b.lines) : ~tooLarge(k)}
      n           == IF enough = {} THEN Len(b.lines) ELSE Min(enough)
  IN  [b EXCEPT !.lines = SubSeq(@, n + 1, Len(@)), !.total = left(n), !.hung = enough = {}]

\* The part of `data' up to its first newline completes the last line, the rest is
\* split.  The part that completes a line is not added to the total.
append(b, data) ==
  LET open    == b.incomplete /\ b.lines # << >>
      newline == SelectInSeq(data, LAMBDA x : x = NL)
      start   == IF open THEN newline ELSE 0
      new     == Split(SubSeq(data, start + 1, Len(data)))
      last(x) == [b.lines EXCEPT ![Len(b.lines)] = @ \o x]
  IN  CASE data = << >> -> b
        [] data # << >> /\ open /\ newline = 0 ->
             [b EXCEPT !.lines = last(data), !.total = (@ + Len(data)) % Width]
        [] OTHER ->
             Trim([b EXCEPT
               !.lines = (IF open THEN last(SubSeq(data, 1, newline)) ELSE @) \o new,
               !.total = (@ + Bytes(new, Len(new))) % Width,
               !.incomplete = \/ new # << >> /\ Last(data) # NL
                              \/ @ /\ ~open])

\* One chunk after another.
append_all(b, chunks) == FoldLeft(append, b, chunks)

\* As many whole lines as fit, the newest last; of a newest line that alone does
\* not fit, its end.
get_recent(b, max) ==
  LET n == Len(b.lines)
      fits == {k \in 0..n : Bytes(b.lines, n) - Bytes(b.lines, k) <= max}
      k == Min(fits)
  IN  IF k = n /\ n > 0 /\ max > 0
      THEN SubSeq(Last(b.lines), Len(Last(b.lines)) - max + 1, Len(Last(b.lines)))
      ELSE FlattenSeq(SubSeq(b.lines, k + 1, n))
=============================================================================
