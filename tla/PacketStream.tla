---------------------------- MODULE PacketStream -----------------------------
(***************************************************************************)
(* What the LHDC packet assembler promises the A2DP sink, stated without   *)
(* pacer, PCM reads, codec or buffers.  The codec has produced the bytes   *)
(* 1 .. produced of one output stream; the sink has been handed the        *)
(* sequence stream of packets.  A burst (one media task tick) cuts all     *)
(* the bytes produced since the previous burst into packets, in order,    *)
(* each filled to its payload size but the last, and numbers them on from  *)
(* next_seq.  A new session (a feeding reset) numbers its packets from 0.  *)
(***************************************************************************)
EXTENDS Integers, Sequences, SequencesExt

CONSTANT SEQ_MOD   \* packets are numbered modulo SEQ_MOD

VARIABLES
  produced,  \* bytes of the output stream produced so far
  stream,    \* packets handed to the sink: [payload, seq, mtu]
  next_seq,  \* number of the next packet
  session    \* streams started so far

vars == <<produced, stream, next_seq, session>>

Init ==
  /\ produced = 0 /\ stream = <<>> /\ next_seq = 0 /\ session = 0

\* The packets a step appended to the stream.
NewPackets == SubSeq(stream', Len(stream) + 1, Len(stream'))

\* A burst: the packets appended carry exactly the bytes produced since the
\* previous burst, none empty or over its size, all but the last full, and
\* they are numbered consecutively from next_seq.
Emit ==
  /\ session' = session
  /\ produced' >= produced
  /\ Len(stream') >= Len(stream)
  /\ SubSeq(stream', 1, Len(stream)) = stream
  /\ LET new == NewPackets
     IN  /\ FlattenSeq([i \in DOMAIN new |-> new[i].payload])
              = [b \in 1 .. produced' - produced |-> produced + b]
         /\ \A i \in DOMAIN new :
              /\ 0 < Len(new[i].payload) /\ Len(new[i].payload) <= new[i].mtu
              /\ i < Len(new) => Len(new[i].payload) = new[i].mtu
              /\ new[i].seq = (next_seq + i - 1) % SEQ_MOD
         /\ next_seq' = (next_seq + Len(new)) % SEQ_MOD

\* A new session: nothing is emitted, numbering starts again at 0.
Restart ==
  /\ session' = session + 1
  /\ next_seq' = 0
  /\ UNCHANGED <<produced, stream>>

Next == Emit \/ Restart

Spec == Init /\ [][Next]_vars

=============================================================================
