--------------------------- MODULE MCOutputBuffer ---------------------------
(* A terminal whose shell writes short pieces of lines.                    *)
EXTENDS OutputBuffer

CONSTANTS Chunks     \* what the reader thread gets at a time

VARIABLE buffer

Init == buffer = NewBuffer

Next == \E data \in Chunks : ~buffer.hung /\ buffer' = append(buffer, data)

Spec == Init /\ [][Next]_buffer

(* append drops old data, and only while the buffer is too large           *)
(* (terminal_service.rs, "Trim old data if buffer is too large"): the loop *)
(* ends, because the total is the size of what is kept.                    *)
TrimEnds == ~buffer.hung

MCChunks == {<<1>>, <<NL>>, <<1, NL>>}
=============================================================================
