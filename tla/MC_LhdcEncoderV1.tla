-------------------------- MODULE MC_LhdcEncoderV1 --------------------------
(***************************************************************************)
(* Model-checking instance of LhdcEncoderV1.  As for MC_LhdcEncoder, a     *)
(* tick is 2 time units earning 3 PCM bytes and a frame is 2 bytes, so a   *)
(* tick owes 1 to 3 frames.  The codec fails, buffers (writes nothing),    *)
(* or writes 2 bytes reporting one frame, so buffers that span        *)
(* several reads, several buffers per tick and early returns all occur.    *)
(***************************************************************************)
EXTENDS LhdcEncoderV1

MC_Gaps     == {1, 2, 3}   \* early, on time, late tick
MC_Outcomes == {[result |-> -1, written |-> 0, frames |-> 0],   \* codec error
                [result |-> 0,  written |-> 0, frames |-> 0],   \* frame buffered
                [result |-> 0,  written |-> 2, frames |-> 1]}
MC_SinkAnswers == BOOLEAN

=============================================================================
