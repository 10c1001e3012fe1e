---------------------------- MODULE LhdcEncoderV1 ----------------------------
(***************************************************************************)
(* The non-fragmenting LHDC encoder glue of src/unnamed/part_000: the      *)
(* frame pacer (a2dp_lhdc_get_num_frame_iteration), the PCM read with      *)
(* underflow hand-back, and a2dp_lhdc_encode_frames, which gives every     *)
(* non-empty codec output its own buffer, stamps each buffer with the      *)
(* running timestamp and stops at the first buffer enqueue_callback        *)
(* refuses, at a NULL handle or at a codec error.                          *)
(*                                                                         *)
(* As in LhdcEncoder, every entry point is one atomic action of the media  *)
(* task.  The two nested loops of a2dp_lhdc_encode_frames are one          *)
(* RECURSIVE operator, Run, over a record holding the code's locals and a  *)
(* program counter: "outer" is the head of while (nb_frame), "do" one     *)
(* pass of the do { } while body, "close" the code after it, "ret" a      *)
(* return.  The tick's inputs are chosen with \E: the elapsed time, the    *)
(* outcome of each PCM read (an underflow or the codec's answer) and the   *)
(* index of the first buffer enqueue_callback refuses.                     *)
(*                                                                         *)
(* An encoded byte is its position in the codec's output stream; a byte of *)
(* a buffer the code never wrote (read from uninitialised memory) is 0.    *)
(***************************************************************************)
EXTENDS Integers, Sequences, FiniteSets, SequencesExt

CONSTANTS
  TICK_US,             \* A2DP_LHDC_ENCODER_INTERVAL_MS * 1000
  FEED_BYTES_PER_TICK, \* bytes_per_tick that a2dp_vendor_lhdc_feeding_reset computes
  PCM_BYTES_PER_FRAME, \* A2DP_LHDC_MEDIA_BYTES_PER_FRAME * channels * bits / 8 (pacer)
  ENC_BLOCK_BYTES,     \* LHDCBT_ENC_BLOCK_SIZE * channels * bits / 8 (read, hand-back)
  LHDC_FRAME_SIZE,     \* lhdc_frame_size: samples per frame the codec reports
  U32,                 \* 2^32: modulus of the uint32_t counter and timestamp
  U8,                  \* 2^8: modulus of the uint8_t frame count nof
  Gaps,                \* now_us - last_frame_us between two media task ticks
  Outcomes,            \* answers of lhdc_encode_func: [result, written, frames]
  SinkAnswers,         \* values enqueue_callback may return
  MaxTicks,            \* bound on the number of ticks explored
  MaxResets            \* bound on the number of feeding resets explored

ASSUME /\ {TICK_US, PCM_BYTES_PER_FRAME, ENC_BLOCK_BYTES, U32, U8} \subseteq Nat \ {0}
       /\ Gaps \subseteq Nat /\ SinkAnswers \subseteq BOOLEAN /\ SinkAnswers # {}
       /\ Outcomes \subseteq [result : Int, written : Nat, frames : Nat]

\* The outcome of one a2dp_lhdc_read_feeding call: a zero-byte read
\* (underflow), or a block handed to lhdc_encode_func and the codec's answer.
Underflow == [read |-> FALSE, result |-> 0, written |-> 0, frames |-> 0]
Reads == {Underflow} \cup {[read |-> TRUE] @@ o : o \in Outcomes}

VARIABLES
  counter,         \* lhdc_feeding_state.counter (uint32)
  bytes_per_tick,  \* lhdc_feeding_state.bytes_per_tick
  last_frame_set,  \* lhdc_feeding_state.last_frame_us # 0
  timestamp,       \* a2dp_lhdc_encoder_cb.timestamp (uint32)
  sent,            \* buffers handed to enqueue_callback, in order
  \* history variables, read only by the properties
  ticks,           \* media task ticks so far
  epoch,           \* feeding resets so far
  encoded,         \* bytes the codec has written so far
  cframes,         \* frames the codec reported since the timestamp was zeroed
  earned,          \* exact PCM budget granted by the pacer so far
  readFrames,      \* PCM blocks read successfully so far
  abandoned,       \* granted frames neither read nor handed back (early return)
  flushed          \* PCM budget dropped by feeding reset / flush

vars == <<counter, bytes_per_tick, last_frame_set, timestamp, sent, ticks,
          epoch, encoded, cframes, earned, readFrames, abandoned, flushed>>

Packet == [payload : Seq(Nat), ts : Nat, frames : Nat, done : Nat, tick : Nat,
           before : Nat, accepted : BOOLEAN]

-----------------------------------------------------------------------------
(* a2dp_lhdc_get_num_frame_iteration *)

\* us_this_tick: a nominal tick on the first call after a reset, else the
\* elapsed time truncated to uint32.
UsThisTick(gap) == IF last_frame_set THEN gap % U32 ELSE TICK_US

\* counter += bytes_per_tick * us_this_tick / interval (uint32); result =
\* counter / pcm_bytes_per_frame; counter -= result * pcm_bytes_per_frame;
\* nof = result, stored in a uint8_t.
FramesDue(us) ==
  LET c1     == (counter + ((bytes_per_tick * us) % U32) \div TICK_US) % U32
      result == c1 \div PCM_BYTES_PER_FRAME
  IN  [nof |-> result % U8, counter |-> c1 - result * PCM_BYTES_PER_FRAME]

-----------------------------------------------------------------------------
(* a2dp_lhdc_encode_frames *)

\* Mutant of UnderflowRestore: the budget of the frames not read is lost.
UnderflowRestoreLost(c, left) == c

\* On underflow the PCM budget of the nb_frame frames not yet read goes
\* back to the counter (uint32).
UnderflowRestore(c, left) == (c + left * ENC_BLOCK_BYTES) % U32

\* lhdc_encode_func writes its output at packet + count, where packet is
\* already p_buf's data + p_buf->len; then p_buf->len += written.  The
\* buffer's first len' bytes are what is sent: the bytes between len and
\* len + count were never written (0 here), the data past len' is lost.
WriteAt(buf, count, data) ==
  LET base == Len(buf) + count
  IN  [j \in 1 .. Len(buf) + Len(data) |->
         IF j <= Len(buf) THEN buf[j] ELSE IF j > base THEN data[j - base] ELSE 0]

\* Mutant of KeepFilling: the do { } while loop runs while frames are left,
\* whatever the codec wrote.
KeepFillingAnyWrite(st) == st.nb_frame > 0

\* The condition of do { } while ((written == 0) && nb_frame): a buffer is
\* filled until the codec writes something or no frame is left.
KeepFilling(st) == st.written = 0 /\ st.nb_frame > 0

\* Head of while (nb_frame): allocate a fresh p_buf (len and
\* layer_specific 0) and set count = 0, or leave the loop.
Outer(st) ==
  IF st.nb_frame = 0 THEN [st EXCEPT !.pc = "ret"]
  ELSE [st EXCEPT !.pc = "do", !.buf = <<>>, !.count = 0, !.layer = 0,
                  !.first = st.cframes]

\* One pass of the do { } body with read outcome e.  An underflow hands the
\* budget of the frames left back and sets nb_frame = 0.  A codec error
\* frees p_buf and returns: the frame read is spent, the frames left are
\* abandoned.  Otherwise the output is written, nb_frame-- and
\* layer_specific += out_frames.  (The NULL handle check before the codec
\* call is not reachable here: feeding_params, hence bytes_per_tick, are
\* only set once a2dp_vendor_lhdc_encoder_update holds a handle.)
ReadBlock(st, e) ==
  LET next == IF ~e.read
              THEN [st EXCEPT !.counter = UnderflowRestore(@, st.nb_frame),
                              !.nb_frame = 0, !.i = @ + 1]
              ELSE IF e.result # 0
              THEN [st EXCEPT !.reads = @ + 1, !.abandoned = @ + st.nb_frame - 1,
                              !.i = @ + 1]
              ELSE [st EXCEPT !.buf = WriteAt(@, st.count,
                                        [j \in 1 .. e.written |-> st.next + j]),
                              !.count = @ + e.written, !.written = e.written,
                              !.next = @ + e.written, !.nb_frame = @ - 1,
                              !.layer = @ + e.frames, !.cframes = @ + e.frames,
                              !.reads = @ + 1, !.i = @ + 1]
  IN  [next EXCEPT !.pc = IF e.read /\ e.result # 0 THEN "ret"
                          ELSE IF KeepFilling(next) THEN "do" ELSE "close"]

\* Mutant of TimestampAdvance: advanced by the PCM frames the buffer
\* consumed (done_nb_frame) instead of the codec's frame count.
TimestampAdvanceByReads(ts, layer, done) == (ts + done * LHDC_FRAME_SIZE) % U32

\* timestamp += p_buf->layer_specific * lhdc_frame_size (uint32).
TimestampAdvance(ts, layer, done) == (ts + layer * LHDC_FRAME_SIZE) % U32

\* Mutant of Close: the answer of enqueue_callback is not looked at.
CloseIgnoringRefusal(st, refuseAt) ==
  IF st.buf = <<>> THEN [st EXCEPT !.pc = "outer"]
  ELSE LET done == st.remain - st.nb_frame
           ok   == st.npk + 1 # refuseAt
       IN  [st EXCEPT !.out = Append(@, [payload |-> st.buf, ts |-> st.ts,
                                         frames |-> st.layer, done |-> done,
                                         before |-> st.first, accepted |-> ok]),
                      !.ts = TimestampAdvance(@, st.layer, done),
                      !.remain = st.nb_frame, !.npk = @ + 1, !.pc = "outer"]

\* After the do loop: an empty p_buf is freed (the codec keeps the data for
\* the next call); otherwise the buffer is stamped with the running
\* timestamp, the timestamp advances, done_nb_frame = remain_nb_frame -
\* nb_frame frames are reported with it, and a refusal by enqueue_callback
\* returns, abandoning the frames left.  refuseAt is the index of the first
\* buffer of the tick the sink refuses (0: none).
Close(st, refuseAt) ==
  IF st.buf = <<>> THEN [st EXCEPT !.pc = "outer"]
  ELSE LET done == st.remain - st.nb_frame
           ok   == st.npk + 1 # refuseAt
       IN  [st EXCEPT !.out = Append(@, [payload |-> st.buf, ts |-> st.ts,
                                         frames |-> st.layer, done |-> done,
                                         before |-> st.first, accepted |-> ok]),
                      !.ts = TimestampAdvance(@, st.layer, done),
                      !.remain = st.nb_frame, !.npk = @ + 1,
                      !.abandoned = IF ok THEN @ ELSE @ + st.nb_frame,
                      !.pc = IF ok THEN "outer" ELSE "ret"]

\* The whole call, one location at a time; ev[i] is the outcome of the
\* i-th read.
RECURSIVE Run(_, _, _)
Run(st, ev, refuseAt) ==
  CASE st.pc = "outer" -> Run(Outer(st), ev, refuseAt)
    [] st.pc = "do"    -> Run(ReadBlock(st, ev[st.i]), ev, refuseAt)
    [] st.pc = "close" -> Run(Close(st, refuseAt), ev, refuseAt)
    [] OTHER           -> st

\* The locals at the call a2dp_lhdc_encode_frames(nb), after the pacer left
\* counter c.
TickStart(nb, c) ==
  [pc |-> "outer", i |-> 1, nb_frame |-> nb, remain |-> nb, buf |-> <<>>,
   count |-> 0, written |-> 0, layer |-> 0, first |-> cframes, ts |-> timestamp,
   out |-> <<>>, counter |-> c, reads |-> 0, abandoned |-> 0, next |-> encoded,
   cframes |-> cframes, npk |-> 0]

\* Indices of the first buffer the sink may refuse (0: it refuses none).
RefusePoints(nb) ==
  (IF TRUE \in SinkAnswers THEN {0} ELSE {}) \cup (IF FALSE \in SinkAnswers THEN 1 .. nb ELSE {})

-----------------------------------------------------------------------------
(* Entry points *)

\* After a2dp_vendor_lhdc_encoder_init: the control block is zeroed
\* (memset), the handle and feeding parameters are set by
\* a2dp_vendor_lhdc_encoder_update; bytes_per_tick waits for a feeding reset.
Init ==
  /\ counter = 0 /\ bytes_per_tick = 0 /\ last_frame_set = FALSE
  /\ timestamp = 0 /\ sent = <<>>
  /\ ticks = 0 /\ epoch = 0 /\ encoded = 0 /\ cframes = 0
  /\ earned = 0 /\ readFrames = 0 /\ abandoned = 0 /\ flushed = 0

\* a2dp_vendor_lhdc_feeding_reset: clear the feeding state and recompute
\* bytes_per_tick from the feeding parameters.
FeedingReset ==
  /\ epoch < MaxResets
  /\ counter' = 0 /\ last_frame_set' = FALSE
  /\ bytes_per_tick' = FEED_BYTES_PER_TICK
  /\ epoch' = epoch + 1
  /\ flushed' = flushed + counter
  /\ UNCHANGED <<timestamp, sent, ticks, encoded, cframes, earned, readFrames, abandoned>>

\* a2dp_vendor_lhdc_feeding_flush
FeedingFlush ==
  /\ counter' = 0
  /\ flushed' = flushed + counter
  /\ UNCHANGED <<bytes_per_tick, last_frame_set, timestamp, sent, ticks, epoch,
                 encoded, cframes, earned, readFrames, abandoned>>

\* A2dpCodecConfigLhdc::updateEncoderUserConfig zeroes the timestamp before
\* it looks at the peer MTU; the rest (peer MTU, codec parameters) leaves
\* the state modelled here unchanged.
UpdateEncoderUserConfig ==
  /\ timestamp' = 0 /\ cframes' = 0
  /\ UNCHANGED <<counter, bytes_per_tick, last_frame_set, sent, ticks, epoch,
                 encoded, earned, readFrames, abandoned, flushed>>

\* a2dp_vendor_lhdc_send_frames(timestamp_us) with now_us - last_frame_us =
\* gap: the pacer, then (one iteration, if it owes a frame)
\* a2dp_lhdc_encode_frames(nb_frame).
SendFrames ==
  /\ ticks < MaxTicks
  /\ \E gap \in Gaps :
     LET us  == UsThisTick(gap)
         due == FramesDue(us)
         nb  == due.nof
     IN  /\ last_frame_set' = TRUE
         /\ earned' = earned + (bytes_per_tick * us) \div TICK_US
         /\ ticks' = ticks + 1
         /\ UNCHANGED <<bytes_per_tick, epoch, flushed>>
         /\ \/ /\ nb = 0
               /\ counter' = due.counter
               /\ UNCHANGED <<timestamp, sent, encoded, cframes, readFrames, abandoned>>
            \/ /\ nb > 0
               /\ \E ev \in [1 .. nb -> Reads], refuseAt \in RefusePoints(nb) :
                  LET st == Run(TickStart(nb, due.counter), ev, refuseAt)
                  IN  /\ counter' = st.counter
                      /\ timestamp' = st.ts
                      /\ sent' = sent \o [j \in DOMAIN st.out |->
                                            st.out[j] @@ [tick |-> ticks + 1]]
                      /\ encoded' = st.next
                      /\ cframes' = st.cframes
                      /\ readFrames' = readFrames + st.reads
                      /\ abandoned' = abandoned + st.abandoned

Next ==
  \/ SendFrames
  \/ FeedingReset
  \/ FeedingFlush
  \/ UpdateEncoderUserConfig

Spec == Init /\ [][Next]_vars

-----------------------------------------------------------------------------
(* Properties *)

\* PCM budget conservation (pacer, underflow hand-back, early returns):
\* every byte of budget the pacer granted is still in the counter, was
\* spent on a block that was read, belongs to a frame a2dp_lhdc_encode_frames
\* abandoned when it returned early, or was dropped by a reset/flush.
PcmConservation ==
  earned = counter + readFrames * ENC_BLOCK_BYTES + abandoned * PCM_BYTES_PER_FRAME + flushed

\* Payload round trip (the do/while loop and the write at packet + count):
\* the payloads of all buffers handed to enqueue_callback, concatenated in
\* order, are exactly the bytes the codec wrote: no byte lost, no byte of
\* unwritten memory sent.
PayloadRoundTrip ==
  FlattenSeq([j \in DOMAIN sent |-> sent[j].payload]) = [b \in 1 .. encoded |-> b]

\* Timestamps (layer_specific and timestamp advance): every buffer carries
\* LHDC_FRAME_SIZE times the number of frames the codec reported before
\* the buffer's first byte, counted since the timestamp was last zeroed.
TimestampCountsCodecFrames ==
  \A j \in DOMAIN sent : sent[j].ts = (sent[j].before * LHDC_FRAME_SIZE) % U32

\* Spec 4.4 step 6: once enqueue_callback refuses a buffer, no later
\* buffer of the same tick is handed to it.
SinkBackpressureHonoured ==
  \A i, j \in DOMAIN sent :
    (i < j /\ sent[i].tick = sent[j].tick) => sent[i].accepted

=============================================================================
