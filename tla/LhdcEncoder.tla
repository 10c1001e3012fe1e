----------------------------- MODULE LhdcEncoder -----------------------------
(***************************************************************************)
(* The LHDC A2DP source encoder of src/stack/a2dp/a2dp_vendor_lhdc_encoder *)
(* .cc: the frame pacer (a2dp_lhdc_get_num_frame_iteration), the PCM read  *)
(* with underflow hand-back (a2dp_lhdc_read_feeding), the fragmenting     *)
(* packet assembler (a2dp_lhdc_encode_frames) and the calls that reset or  *)
(* reconfigure the control block a2dp_lhdc_encoder_cb.                     *)
(*                                                                         *)
(* Every entry point runs to completion on the media task, so each one is  *)
(* a single atomic action.  The loops inside a2dp_lhdc_encode_frames are   *)
(* operators (RECURSIVE where the code loops) over the tick's inputs, which *)
(* are chosen with \E: the elapsed time, how many PCM reads succeed before *)
(* an underflow, the codec's output length per frame and the answer of    *)
(* the enqueue callback.                                                   *)
(*                                                                         *)
(* Data is abstracted to what the properties tell apart: an encoded byte   *)
(* is its position in the codec's output stream (1, 2, 3, ...), so a       *)
(* packet payload is a sequence of positions.  Byte counts and times are   *)
(* scaled constants; the unsigned widths the code relies on are the        *)
(* constants U32 and U8 (2^32 and 2^8 in the code).                        *)
(***************************************************************************)
EXTENDS Integers, Sequences, FiniteSets, SequencesExt, Bitwise

CONSTANTS
  TICK_US,             \* A2DP_LHDC_ENCODER_INTERVAL_MS * 1000
  FEED_BYTES_PER_TICK, \* bytes_per_tick that a2dp_vendor_lhdc_feeding_reset computes
  PCM_BYTES_PER_FRAME, \* A2DP_LHDC_MEDIA_BYTES_PER_FRAME * channels * bits / 8 (pacer)
  ENC_BLOCK_BYTES,     \* LHDCBT_ENC_BLOCK_SIZE * channels * bits / 8 (read size)
  ENC_BLOCK_SAMPLES,   \* LHDCBT_ENC_BLOCK_SIZE (timestamp step per frame)
  MTU_SIZE_CAP,        \* BT_DEFAULT_BUFFER_SIZE - A2DP_LHDC_OFFSET - sizeof(BT_HDR)
  BT_BUF_SLOTS,        \* length of the local array p_btBufs[16]
  U32,                 \* 2^32: modulus of the uint32_t counters
  U8,                  \* 2^8: modulus of the uint8_t frame count nb_frame
  SEQ_MOD,             \* 2^8: buf_seq survives in the upper byte of uint16 layer_specific
  PeerMtus,            \* peer MTUs the stack may pass to init / user config update
  Gaps,                \* now_us - last_frame_us between two media task ticks
  OutLens,             \* values lhdc_encode_func may return for one PCM block
  SinkAnswers,         \* values enqueue_callback may return
  Latencies,           \* latency_mode_index values encoder_update may set
  A2DP_LHDC_HDR_NUM_SHIFT, \* position of the frame count in the header (not defined in the repository)
  MaxTicks,            \* bound on the number of ticks explored
  MaxResets            \* bound on the number of feeding resets explored

ASSUME /\ {TICK_US, PCM_BYTES_PER_FRAME, ENC_BLOCK_BYTES, U32, U8, SEQ_MOD} \subseteq Nat \ {0}
       /\ PeerMtus \subseteq Nat /\ Gaps \subseteq Nat /\ OutLens \subseteq Int
       /\ SinkAnswers \subseteq BOOLEAN /\ SinkAnswers # {}
       /\ Latencies \subseteq 0 .. 255 /\ A2DP_LHDC_HDR_NUM_SHIFT \in Nat

\* A2DP_LHDC_MPL_HDR_LEN in a2dp_vendor_lhdc_constants.h (no SCMS-T)
A2DP_LHDC_MPL_HDR_LEN == 1

\* The media payload header bits of a2dp_vendor_lhdc_constants.h.
A2DP_LHDC_HDR_F_MSK == 128
A2DP_LHDC_HDR_S_MSK == 64
A2DP_LHDC_HDR_L_MSK == 32
A2DP_LHDC_HDR_NUM_MSK == 15

VARIABLES
  counter,         \* lhdc_feeding_state.counter (uint32)
  bytes_per_tick,  \* lhdc_feeding_state.bytes_per_tick
  last_frame_set,  \* lhdc_feeding_state.last_frame_us # 0
  timestamp,       \* a2dp_lhdc_encoder_cb.timestamp (uint32)
  buf_seq,         \* a2dp_lhdc_encoder_cb.buf_seq, low byte
  TxAaMtuSize,     \* a2dp_lhdc_encoder_cb.TxAaMtuSize
  latency_mode_index, \* lhdc_encoder_params.latency_mode_index
  sent,            \* packets handed to enqueue_callback, in order
  \* history variables, read only by the properties
  ticks,           \* media task ticks so far
  epoch,           \* feeding resets so far
  encoded,         \* bytes the codec has returned so far
  earned,          \* exact PCM budget granted by the pacer so far
  readFrames,      \* PCM blocks read successfully so far
  flushed          \* PCM budget dropped by feeding reset / flush

vars == <<counter, bytes_per_tick, last_frame_set, timestamp, buf_seq,
          TxAaMtuSize, latency_mode_index, sent, ticks, epoch, encoded, earned, readFrames, flushed>>

\* seq and hdr are the high and low byte of the uint16 layer_specific;
\* frames (nb_frame_org) and latency are what the tick put into it.
Packet == [seq : 0 .. 255, hdr : 0 .. 255, frames : Nat, latency : 0 .. 255,
           ts : Nat, payload : Seq(Nat), tick : Nat, epoch : Nat, mtu : Nat,
           accepted : BOOLEAN]

MinOf(a, b) == IF a < b THEN a ELSE b

\* Bytes the codec put into write_buffer for the blocks of one tick (a
\* negative return is an encoder error and yields nothing).
RECURSIVE CodecBytes(_)
CodecBytes(outs) ==
  IF outs = <<>> THEN 0
  ELSE (IF Head(outs) > 0 THEN Head(outs) ELSE 0) + CodecBytes(Tail(outs))

-----------------------------------------------------------------------------
(* a2dp_lhdc_get_num_frame_iteration *)

\* us_this_tick: a nominal tick on the first call after a reset, else the
\* elapsed time truncated to uint32.
UsThisTick(gap) == IF last_frame_set THEN gap % U32 ELSE TICK_US

\* counter += bytes_per_tick * us_this_tick / interval; frames = counter /
\* pcm_bytes_per_frame; counter -= frames * pcm_bytes_per_frame.  The
\* product is computed in uint32; the frame count is stored in a uint8_t.
FramesDue(us) ==
  LET c1     == (counter + ((bytes_per_tick * us) % U32) \div TICK_US) % U32
      result == c1 \div PCM_BYTES_PER_FRAME
  IN  [nof |-> result % U8, counter |-> c1 - result * PCM_BYTES_PER_FRAME]

-----------------------------------------------------------------------------
(* a2dp_lhdc_encode_frames *)

\* Mutant of UnderflowRestore: the budget of the frames not read is lost.
UnderflowRestoreLost(c, left) == c

\* On underflow the PCM budget of the nb_frame frames not yet read goes
\* back to the counter.
UnderflowRestore(c, left) == (c + left * ENC_BLOCK_BYTES) % U32

\* The stream positions first, first + 1, ..., of n bytes of write_buffer.
RECURSIVE Positions(_, _)
Positions(first, n) ==
  IF n <= 0 THEN <<>> ELSE <<first>> \o Positions(first + 1, n - 1)

\* The inner while (out_len > 0) loop: copy one codec output of outLen bytes
\* into MTU-sized buffers.  st.done are the full buffers (p_btBufs), st.open
\* the partly filled p_buf (<<>> for NULL: a buffer is allocated only when
\* there is a byte to put in it), st.next the stream position of the next
\* byte of write_buffer.
RECURSIVE PlaceOutput(_, _, _)
PlaceOutput(st, outLen, maxLen) ==
  IF outLen <= 0 THEN st
  ELSE LET space == maxLen - Len(st.open)
           bytes == MinOf(outLen, space)
           buf   == st.open \o Positions(st.next, bytes)
           full  == Len(buf) >= maxLen
       IN  PlaceOutput([st EXCEPT !.done = IF full THEN Append(@, buf) ELSE @,
                                  !.open = IF full THEN <<>> ELSE buf,
                                  !.next = @ + bytes], outLen - bytes, maxLen)

\* The outer while (nb_frame) loop over the k blocks read: st.nb_frame
\* counts down, and the codec output of block Len(outs) - nb_frame + 1 is
\* copied by PlaceOutput.
RECURSIVE PlaceOutputs(_, _, _)
PlaceOutputs(st, outs, maxLen) ==
  IF st.nb_frame = 0 THEN st
  ELSE PlaceOutputs(PlaceOutput([st EXCEPT !.nb_frame = @ - 1],
                                outs[Len(outs) - st.nb_frame + 1], maxLen),
                    outs, maxLen)

\* The loop state before the first block of a tick: no buffer allocated.
LoopStart(outs) ==
  [done |-> <<>>, open |-> <<>>, next |-> encoded + 1, nb_frame |-> Len(outs)]

\* Mutant of CollectBuffers: the last, partly filled buffer is not kept.
CollectBuffersDropTail(outs, maxLen) ==
  PlaceOutputs(LoopStart(outs), outs, maxLen).done

\* The buffers of one tick: the outer loop, followed by
\* "if (p_buf) p_btBufs[bt_buf_num++] = p_buf".
CollectBuffers(outs, maxLen) ==
  LET st == PlaceOutputs(LoopStart(outs), outs, maxLen)
  IN  IF st.open = <<>> THEN st.done ELSE Append(st.done, st.open)

\* Mutant of HeaderBits: the L flag is tested against bt_buf_num - 2.
HeaderBitsLastOffByOne(i, n, nbOrg, latency) ==
  IF n = 1 THEN latency | (nbOrg * 2^A2DP_LHDC_HDR_NUM_SHIFT)
  ELSE (A2DP_LHDC_HDR_F_MSK | latency)
       | (IF i = 1 THEN A2DP_LHDC_HDR_S_MSK | (nbOrg * 2^A2DP_LHDC_HDR_NUM_SHIFT)
          ELSE IF i = n - 1 THEN A2DP_LHDC_HDR_L_MSK ELSE 0)

\* The bits OR-ed into layer_specific after buf_seq << 8, for the i-th of
\* n buffers: a single buffer gets latency | nb_frame_org << NUM_SHIFT; in
\* a fragmented group all get F | latency, the first also S and the frame
\* count, the last L.  The frame count is not masked with NUM_MSK.
HeaderBits(i, n, nbOrg, latency) ==
  IF n = 1 THEN latency | (nbOrg * 2^A2DP_LHDC_HDR_NUM_SHIFT)
  ELSE (A2DP_LHDC_HDR_F_MSK | latency)
       | (IF i = 1 THEN A2DP_LHDC_HDR_S_MSK | (nbOrg * 2^A2DP_LHDC_HDR_NUM_SHIFT)
          ELSE IF i = n THEN A2DP_LHDC_HDR_L_MSK ELSE 0)

\* layer_specific = buf_seq++, <<= 8, |= bits, in a uint16_t: the packet's
\* sequence byte and header byte.
LayerSpecific(seq, bits) ==
  LET ls == ((seq * 256) | bits) % 65536
  IN  [seq |-> ls \div 256, hdr |-> ls % 256]

\* The timestamp is advanced by the frame count the tick started with.
TimestampAdvance(ts, nbOrg, nbLeft) == (ts + nbOrg * ENC_BLOCK_SAMPLES) % U32

-----------------------------------------------------------------------------
(* Entry points *)

\* a2dp_vendor_lhdc_encoder_init: memset of the control block, then
\* a2dp_vendor_lhdc_encoder_update sets TxAaMtuSize = min(mtu_size, peer_mtu).
InitState(pm) ==
  /\ counter = 0 /\ bytes_per_tick = 0 /\ last_frame_set = FALSE
  /\ timestamp = 0 /\ buf_seq = 0
  /\ TxAaMtuSize = MinOf(MTU_SIZE_CAP, pm)
  /\ latency_mode_index \in Latencies

Init ==
  /\ \E pm \in PeerMtus \ {0} : InitState(pm)
  /\ sent = <<>>
  /\ ticks = 0 /\ epoch = 0 /\ encoded = 0
  /\ earned = 0 /\ readFrames = 0 /\ flushed = 0

\* a2dp_vendor_lhdc_feeding_reset: clear the feeding state, recompute
\* bytes_per_tick from the feeding parameters, restart buf_seq.
FeedingReset ==
  /\ epoch < MaxResets
  /\ counter' = 0
  /\ bytes_per_tick' = FEED_BYTES_PER_TICK
  /\ last_frame_set' = FALSE
  /\ buf_seq' = 0
  /\ epoch' = epoch + 1
  /\ flushed' = flushed + counter
  /\ UNCHANGED <<timestamp, TxAaMtuSize, latency_mode_index, sent, ticks, encoded, earned, readFrames>>

\* a2dp_vendor_lhdc_feeding_flush
FeedingFlush ==
  /\ counter' = 0
  /\ flushed' = flushed + counter
  /\ UNCHANGED <<bytes_per_tick, last_frame_set, timestamp, buf_seq,
                 TxAaMtuSize, latency_mode_index, sent, ticks, epoch, encoded, earned, readFrames>>

\* Mutant of UpdateEncoderUserConfig: a zero peer MTU is not refused.
UpdateEncoderUserConfigNoRefusal(pm, lat) ==
  /\ timestamp' = 0
  /\ TxAaMtuSize' = MinOf(MTU_SIZE_CAP, pm)
  /\ latency_mode_index' = lat
  /\ UNCHANGED <<counter, bytes_per_tick, last_frame_set, buf_seq, sent,
                 ticks, epoch, encoded, earned, readFrames, flushed>>

\* A2dpCodecConfigLhdc::updateEncoderUserConfig: the timestamp is zeroed
\* before the peer MTU is checked; a zero MTU is refused, otherwise
\* a2dp_vendor_lhdc_encoder_update recomputes TxAaMtuSize and the
\* latency_mode_index (lat) the new codec config selects.
UpdateEncoderUserConfig(pm, lat) ==
  /\ timestamp' = 0
  /\ TxAaMtuSize' = IF pm = 0 THEN TxAaMtuSize ELSE MinOf(MTU_SIZE_CAP, pm)
  /\ latency_mode_index' = IF pm = 0 THEN latency_mode_index ELSE lat
  /\ UNCHANGED <<counter, bytes_per_tick, last_frame_set, buf_seq, sent,
                 ticks, epoch, encoded, earned, readFrames, flushed>>

\* a2dp_vendor_lhdc_send_frames(timestamp_us), with now_us - last_frame_us
\* = gap.  If the pacer yields no frame nothing else happens.  Otherwise
\* the first k PCM reads succeed (k < nb: the (k+1)-th read underflows and
\* the budget of the nb - k frames left is handed back), outs[j] is the
\* codec's output length for the j-th block, and the buffers are enqueued
\* with their headers.  enqueue_callback's answer is not looked at.
SendFrames ==
  /\ ticks < MaxTicks
  /\ \E gap \in Gaps :
     LET us  == UsThisTick(gap)
         due == FramesDue(us)
         nb  == due.nof
     IN  /\ last_frame_set' = TRUE
         /\ earned' = earned + (bytes_per_tick * us) \div TICK_US
         /\ ticks' = ticks + 1
         /\ UNCHANGED <<bytes_per_tick, TxAaMtuSize, latency_mode_index, epoch, flushed>>
         /\ \/ /\ nb = 0
               /\ counter' = due.counter
               /\ UNCHANGED <<timestamp, buf_seq, sent, encoded, readFrames>>
            \/ /\ nb > 0
               /\ \E k \in 0 .. nb : \E outs \in [1 .. k -> OutLens] :
                  LET maxLen == TxAaMtuSize - A2DP_LHDC_MPL_HDR_LEN
                      bufs   == CollectBuffers(outs, maxLen)
                      n    == Len(bufs)
                  IN  \E answers \in [1 .. n -> SinkAnswers] :
                      /\ counter' = IF k < nb THEN UnderflowRestore(due.counter, nb - k)
                                    ELSE due.counter
                      /\ sent' = sent \o
                           [i \in 1 .. n |->
                              [frames |-> nb, latency |-> latency_mode_index % 256,
                               ts |-> timestamp, payload |-> bufs[i],
                               tick |-> ticks + 1, epoch |-> epoch, mtu |-> maxLen,
                               accepted |-> answers[i]]
                              @@ LayerSpecific((buf_seq + i - 1) % SEQ_MOD,
                                   HeaderBits(i, n, nb, latency_mode_index % 256))]
                      /\ buf_seq' = (buf_seq + n) % SEQ_MOD
                      /\ timestamp' = TimestampAdvance(timestamp, nb, nb - k)
                      /\ encoded' = encoded + CodecBytes(outs)
                      /\ readFrames' = readFrames + k

Next ==
  \/ SendFrames
  \/ FeedingReset
  \/ FeedingFlush
  \/ \E pm \in PeerMtus, lat \in Latencies : UpdateEncoderUserConfig(pm, lat)

Spec == Init /\ [][Next]_vars

-----------------------------------------------------------------------------
(* Properties *)

TypeOK ==
  /\ counter \in 0 .. U32 - 1
  /\ bytes_per_tick \in {0, FEED_BYTES_PER_TICK}
  /\ last_frame_set \in BOOLEAN
  /\ timestamp \in 0 .. U32 - 1
  /\ buf_seq \in 0 .. SEQ_MOD - 1
  /\ TxAaMtuSize \in {MinOf(MTU_SIZE_CAP, pm) : pm \in PeerMtus \ {0}}
  /\ latency_mode_index \in Latencies
  /\ sent \in Seq(Packet)
  /\ {ticks, epoch, encoded, earned, readFrames, flushed} \subseteq Nat

\* Indices of the packets one send_frames call produced.
TickGroup(t) == {i \in DOMAIN sent : sent[i].tick = t}

\* PCM budget conservation (pacer + underflow hand-back): every byte of
\* budget the pacer ever granted is either still in the counter, was spent
\* on a PCM block that was read, or was dropped by a feeding reset/flush.
PcmConservation ==
  earned = counter + readFrames * ENC_BLOCK_BYTES + flushed

\* Media payload header (encode_frames' tagging loop): read back from the
\* header byte, a tick that yields one packet has no F, S or L flag; a tick
\* that yields several has F on all, S only on the first and L only on the
\* last; the 4-bit frame count field of the first (or only) packet holds
\* the tick's nb_frame_org and is zero on the others; the bits below it
\* hold the latency index.
HeaderFlagsWellFormed ==
  \A i \in DOMAIN sent :
    LET g     == TickGroup(sent[i].tick)
        first == i - 1 \notin g
        last  == i + 1 \notin g
        h     == sent[i].hdr
        Flag(m) == (h \div m) % 2 = 1   \* m is a single-bit mask
        count == (h \div 2^A2DP_LHDC_HDR_NUM_SHIFT) % (A2DP_LHDC_HDR_NUM_MSK + 1)
    IN  /\ Flag(A2DP_LHDC_HDR_F_MSK) = (Cardinality(g) > 1)
        /\ Flag(A2DP_LHDC_HDR_S_MSK) = (Cardinality(g) > 1 /\ first)
        /\ Flag(A2DP_LHDC_HDR_L_MSK) = (Cardinality(g) > 1 /\ last)
        /\ count = IF first THEN sent[i].frames ELSE 0
        /\ h % 2^A2DP_LHDC_HDR_NUM_SHIFT = sent[i].latency

\* Refinement of the assembler (encode_frames' copy loop, tagging loop and
\* buf_seq, feeding_reset's restart of buf_seq): the packets handed to
\* enqueue_callback are a PacketStream of the codec's output, with the
\* sequence byte read back from layer_specific.
Stream == INSTANCE PacketStream
          WITH produced <- encoded,
               stream   <- [i \in DOMAIN sent |->
                              [payload |-> sent[i].payload, seq |-> sent[i].seq,
                               mtu |-> sent[i].mtu]],
               next_seq <- buf_seq,
               session  <- epoch

StreamRefinement == Stream!Spec

\* The local array p_btBufs holds 16 buffers: one send_frames call never
\* produces more buffers than that.
BtBufsFit ==
  \A t \in 1 .. ticks : Cardinality(TickGroup(t)) <= BT_BUF_SLOTS

\* Spec 4.4 step 6: once enqueue_callback refuses a packet, no later packet
\* of the same tick is handed to it.
SinkBackpressureHonoured ==
  \A i, j \in DOMAIN sent :
    (i < j /\ sent[i].tick = sent[j].tick /\ ~sent[i].accepted) => FALSE

\* Spec 4.4 step 5: each send_frames call advances the media timestamp by
\* the samples of the frames actually read in that tick.
TimestampTracksFramesRead ==
  [][ticks' = ticks + 1 =>
       timestamp' = (timestamp + (readFrames' - readFrames) * ENC_BLOCK_SAMPLES) % U32]_vars

=============================================================================
