----------------------------- MODULE LhdcSession -----------------------------
(***************************************************************************)
(* The life cycle of the LHDC encoder glue in                              *)
(* src/stack/a2dp/a2dp_vendor_lhdc_encoder.cc: loading the codec library,  *)
(* a2dp_vendor_lhdc_encoder_init / _update / _cleanup, the user config     *)
(* update, feeding reset and set_transmit_queue_length, with the codec     *)
(* handle they acquire and free.  The pacing and packet assembly of        *)
(* send_frames are modelled in LhdcEncoder; here a tick only matters by   *)
(* whether it calls the codec, with which handle and which MTU.            *)
(*                                                                         *)
(* The control block a2dp_lhdc_encoder_cb is the record cb; "memset(&cb,  *)
(* 0, ...)" is ZeroCb.  Codec handles are numbered in the order           *)
(* lhdc_get_handle_func returns them.  The outcomes of the library calls  *)
(* (dlopen/dlsym, lhdc_get_handle, copyOutOtaCodecConfig) are chosen with *)
(* \E.  The stack uses the encoder interface between encoder_init and     *)
(* encoder_cleanup, and only once A2dpCodecConfigLhdc::init loaded it.    *)
(***************************************************************************)
EXTENDS Integers, FiniteSets

CONSTANTS
  MTU_SIZE_CAP,            \* BT_DEFAULT_BUFFER_SIZE - A2DP_LHDC_OFFSET - sizeof(BT_HDR)
  A2DP_LHDC_QUALITY_LOW,   \* 2 (a2dp_vendor_lhdc_constants.h)
  A2DP_LHDC_QUALITY_ABR,   \* auto bit rate mode index (not defined in this repository)
  A2DP_LHDC_LATENCY_MID,   \* default latency mode index (not defined in this repository)
  PeerMtus,                \* peer MTUs the stack passes to init / user config update
  FeedingParams,           \* tA2DP_FEEDING_PARAMS values a codec config can yield
  CodecSpecifics,          \* codec_specific_1/2 values: [magic : BOOLEAN, low : 0..255]
  QueueLengths,            \* transmit queue lengths the stack reports
  MaxHandles               \* bound on the handles lhdc_get_handle_func hands out

ASSUME MaxHandles \in Nat /\ PeerMtus \subseteq 0 .. 65535

\* A2DP_LHDC_ENCODER_INTERVAL_MS
A2DP_LHDC_ENCODER_INTERVAL_MS == 20
\* A2DP_LHDC_MPL_HDR_LEN in a2dp_vendor_lhdc_constants.h
A2DP_LHDC_MPL_HDR_LEN == 1

\* The feeding parameters after the control block was zeroed.
NoFeeding == [sample_rate |-> 0, bits_per_sample |-> 0, channel_count |-> 0]

\* The record of the codec call a step made through the handle.
NoCall == [fn |-> "none", live |-> FALSE, mtu |-> 0]

VARIABLES
  loaded,      \* lhdc_encoder_lib_handle # NULL (and with it every lhdc_*_func)
  in_session,  \* between encoder_init and encoder_cleanup (stack contract)
  cb,          \* a2dp_lhdc_encoder_cb
  acquired,    \* handles lhdc_get_handle_func has returned so far
  frees,       \* frees[h]: times lhdc_free_handle_func was called on handle h (capped at 2)
  last_call    \* the codec call made by the last step with the handle (NoCall if none)

vars == <<loaded, in_session, cb, acquired, frees, last_call>>

Handles == 1 .. MaxHandles

ZeroCb == [has_lhdc_handle |-> FALSE, lhdc_handle |-> 0, peer_mtu |-> 0,
           TxAaMtuSize |-> 0, timestamp |-> 0, feeding |-> NoFeeding,
           bytes_per_tick |-> 0, quality_mode_index |-> 0,
           latency_mode_index |-> 0, TxQueueLength |-> 0]

MinOf(a, b) == IF a < b THEN a ELSE b

\* a2dp_vendor_lhdc_feeding_reset's bytes_per_tick, in its evaluation order.
BytesPerTick(fp) ==
  (((fp.sample_rate * fp.bits_per_sample) \div 8) * fp.channel_count
     * A2DP_LHDC_ENCODER_INTERVAL_MS) \div 1000

\* lhdc_free_handle_func(cb.lhdc_handle) when cb.has_lhdc_handle.
FreeHandle(c) ==
  IF c.has_lhdc_handle
  THEN [frees EXCEPT ![c.lhdc_handle] = MinOf(2, @ + 1)]
  ELSE frees

\* Quality mode selection of a2dp_vendor_lhdc_encoder_update: a
\* codec_specific_1 with the quality magic selects its low byte, anything
\* else selects A2DP_LHDC_QUALITY_LOW.
QualityFor(cs1) == IF cs1.magic THEN cs1.low ELSE A2DP_LHDC_QUALITY_LOW

\* Latency mode selection: the low byte of codec_specific_2 with the
\* latency magic, else A2DP_LHDC_LATENCY_MID.
LatencyFor(cs2) == IF cs2.magic THEN cs2.low ELSE A2DP_LHDC_LATENCY_MID

\* A handle is live when lhdc_get_handle_func returned it and it has not
\* been freed since.
Live(h) == h \in Handles /\ frees[h] = 0

\* A codec call fn made with the handle of control block c.
CallOn(fn, c) ==
  [fn |-> fn, live |-> Live(c.lhdc_handle), mtu |-> c.TxAaMtuSize]

-----------------------------------------------------------------------------
(* a2dp_vendor_lhdc_encoder_update *)

\* Mutant of ConfigureCodec: TxAaMtuSize is peer_mtu, not capped.
ConfigureCodecUncapped(c, pm, fp, cs1, cs2, copyOk) ==
  IF ~copyOk
  THEN /\ cb' = c
       /\ UNCHANGED last_call
  ELSE LET c1 == [c EXCEPT !.feeding = fp, !.TxAaMtuSize = pm,
                           !.quality_mode_index = QualityFor(cs1),
                           !.latency_mode_index = LatencyFor(cs2)]
       IN  /\ cb' = c1
           /\ last_call' = CallOn("init_handle_encode", c1)

\* Everything after the handle check: copyOutOtaCodecConfig may fail
\* (return), else the feeding and codec parameters, TxAaMtuSize, the
\* quality mode (lhdc_set_bitrate_func when it changes or falls back to
\* LOW), the latency mode, and lhdc_init_handle_encode_func with the
\* quality index, whose result is only logged.
ConfigureCodec(c, pm, fp, cs1, cs2, copyOk) ==
  IF ~copyOk
  THEN /\ cb' = c
       /\ UNCHANGED last_call
  ELSE LET q  == QualityFor(cs1)
           c1 == [c EXCEPT !.feeding = fp,
                           !.TxAaMtuSize = MinOf(MTU_SIZE_CAP, pm),
                           !.quality_mode_index = q,
                           !.latency_mode_index = LatencyFor(cs2)]
       IN  /\ cb' = c1
           /\ last_call' = CallOn("init_handle_encode", c1)

\* Mutant of EncoderUpdate: has_lhdc_handle is set before the handle
\* returned is checked for NULL.
EncoderUpdateTrustHandle(c, pm, fp, cs1, cs2, handleOk, copyOk) ==
  IF c.has_lhdc_handle
  THEN /\ UNCHANGED acquired
       /\ ConfigureCodec(c, pm, fp, cs1, cs2, copyOk)
  ELSE IF ~handleOk
  THEN /\ UNCHANGED acquired
       /\ ConfigureCodec([c EXCEPT !.has_lhdc_handle = TRUE, !.lhdc_handle = 0],
                         pm, fp, cs1, cs2, copyOk)
  ELSE /\ acquired < MaxHandles
       /\ acquired' = acquired + 1
       /\ ConfigureCodec([c EXCEPT !.has_lhdc_handle = TRUE, !.lhdc_handle = acquired + 1],
                         pm, fp, cs1, cs2, copyOk)

\* Without a handle one is requested first; a NULL handle returns before
\* anything else is set.
EncoderUpdate(c, pm, fp, cs1, cs2, handleOk, copyOk) ==
  IF c.has_lhdc_handle
  THEN /\ UNCHANGED acquired
       /\ ConfigureCodec(c, pm, fp, cs1, cs2, copyOk)
  ELSE IF ~handleOk
  THEN /\ cb' = c
       /\ UNCHANGED <<acquired, last_call>>
  ELSE /\ acquired < MaxHandles
       /\ acquired' = acquired + 1
       /\ ConfigureCodec([c EXCEPT !.has_lhdc_handle = TRUE, !.lhdc_handle = acquired + 1],
                         pm, fp, cs1, cs2, copyOk)

-----------------------------------------------------------------------------
(* Entry points *)

Init ==
  /\ loaded = FALSE /\ in_session = FALSE
  /\ cb = ZeroCb
  /\ acquired = 0
  /\ frees = [h \in Handles |-> 0]
  /\ last_call = NoCall

\* A2dpCodecConfigLhdc::init -> A2DP_VendorLoadEncoderLhdc.  Already loaded:
\* nothing.  Otherwise the control block is zeroed and dlopen either fails,
\* or a symbol is missing (load_func then calls A2DP_VendorUnloadEncoderLhdc,
\* which frees no handle since the block was just zeroed), or all load.
LoadEncoder(outcome) ==
  /\ ~loaded
  /\ cb' = ZeroCb
  /\ loaded' = (outcome = "ok")
  /\ UNCHANGED <<in_session, acquired, frees>>
  /\ last_call' = NoCall

\* A2DP_VendorUnloadEncoderLhdc, called by the stack outside a session:
\* the handle is freed if there is one, the block zeroed, the library closed.
UnloadEncoder ==
  /\ loaded /\ ~in_session
  /\ frees' = FreeHandle(cb)
  /\ cb' = ZeroCb
  /\ loaded' = FALSE
  /\ UNCHANGED <<in_session, acquired>>
  /\ last_call' = NoCall

\* Mutant of EncoderInit: the old handle is not freed before the memset.
EncoderInitNoFree(pm, fp, cs1, cs2, handleOk, copyOk) ==
  /\ loaded
  /\ in_session' = TRUE
  /\ UNCHANGED frees
  /\ EncoderUpdate([ZeroCb EXCEPT !.peer_mtu = pm], pm, fp, cs1, cs2, handleOk, copyOk)
  /\ UNCHANGED loaded

\* a2dp_vendor_lhdc_encoder_init: free the old handle, zero the block,
\* store peer_mtu (not checked), then encoder_update.
EncoderInit(pm, fp, cs1, cs2, handleOk, copyOk) ==
  /\ loaded
  /\ in_session' = TRUE
  /\ frees' = FreeHandle(cb)
  /\ EncoderUpdate([ZeroCb EXCEPT !.peer_mtu = pm], pm, fp, cs1, cs2, handleOk, copyOk)
  /\ UNCHANGED loaded

\* A2dpCodecConfigLhdc::updateEncoderUserConfig: peer_mtu and timestamp are
\* written first; a zero peer MTU then returns false, else encoder_update.
UpdateEncoderUserConfig(pm, fp, cs1, cs2, handleOk, copyOk) ==
  /\ in_session
  /\ LET c == [cb EXCEPT !.peer_mtu = pm, !.timestamp = 0]
     IN  IF pm = 0
         THEN /\ cb' = c
              /\ UNCHANGED <<acquired>>
              /\ last_call' = NoCall
         ELSE EncoderUpdate(c, pm, fp, cs1, cs2, handleOk, copyOk)
  /\ UNCHANGED <<loaded, in_session, frees>>

\* a2dp_vendor_lhdc_encoder_cleanup: free the handle, zero the block.
EncoderCleanup ==
  /\ in_session
  /\ frees' = FreeHandle(cb)
  /\ cb' = ZeroCb
  /\ in_session' = FALSE
  /\ last_call' = NoCall
  /\ UNCHANGED <<loaded, acquired>>

\* a2dp_vendor_lhdc_feeding_reset: bytes_per_tick from the feeding
\* parameters (the pacer state itself is LhdcEncoder's).
FeedingReset ==
  /\ in_session
  /\ cb' = [cb EXCEPT !.bytes_per_tick = BytesPerTick(cb.feeding)]
  /\ last_call' = NoCall
  /\ UNCHANGED <<loaded, in_session, acquired, frees>>

\* a2dp_vendor_lhdc_send_frames on a tick that owes frames (the pacer owes
\* none while bytes_per_tick is 0): lhdc_encode_func is called with
\* cb.lhdc_handle, whatever has_lhdc_handle says.
SendFrames ==
  /\ in_session
  /\ cb.bytes_per_tick > 0
  /\ last_call' = CallOn("encode", cb)
  /\ UNCHANGED <<loaded, in_session, cb, acquired, frees>>

\* a2dp_vendor_lhdc_set_transmit_queue_length: store the length; in ABR
\* mode the codec's bit rate is adjusted through the handle if the
\* function was loaded.
SetTransmitQueueLength(q) ==
  /\ in_session
  /\ cb' = [cb EXCEPT !.TxQueueLength = q]
  /\ last_call' = IF cb.quality_mode_index = A2DP_LHDC_QUALITY_ABR /\ loaded
                  THEN CallOn("adjust_bitrate", cb) ELSE NoCall
  /\ UNCHANGED <<loaded, in_session, acquired, frees>>

Next ==
  \/ \E o \in {"ok", "no_library", "no_symbol"} : LoadEncoder(o)
  \/ UnloadEncoder
  \/ \E pm \in PeerMtus, fp \in FeedingParams, cs1, cs2 \in CodecSpecifics,
        handleOk, copyOk \in BOOLEAN :
        \/ EncoderInit(pm, fp, cs1, cs2, handleOk, copyOk)
        \/ UpdateEncoderUserConfig(pm, fp, cs1, cs2, handleOk, copyOk)
  \/ EncoderCleanup
  \/ FeedingReset
  \/ SendFrames
  \/ \E q \in QueueLengths : SetTransmitQueueLength(q)

Spec == Init /\ [][Next]_vars

-----------------------------------------------------------------------------
(* Properties *)

Calls == [fn : {"none", "init_handle_encode", "encode", "adjust_bitrate"},
          live : BOOLEAN, mtu : Nat]

TypeOK ==
  /\ loaded \in BOOLEAN /\ in_session \in BOOLEAN
  /\ cb.has_lhdc_handle \in BOOLEAN /\ cb.lhdc_handle \in 0 .. MaxHandles
  /\ cb.TxAaMtuSize \in 0 .. MTU_SIZE_CAP
  /\ cb.feeding \in FeedingParams \cup {NoFeeding}
  /\ acquired \in 0 .. MaxHandles
  /\ frees \in [Handles -> 0 .. 2]
  /\ last_call \in Calls

\* Codec handle ownership (encoder_init / _update / _cleanup, Unload): no
\* handle is freed twice, and the handles returned and not yet freed are
\* exactly the one the control block holds.  A leak or a double free takes
\* a re-init, a failed update or a cleanup in the wrong place.
HandleOwnership ==
  /\ \A h \in Handles : frees[h] <= 1
  /\ {h \in 1 .. acquired : frees[h] = 0}
       = IF cb.has_lhdc_handle THEN {cb.lhdc_handle} ELSE {}

\* Spec section 6 (a): the codec is only ever called with a live handle.
\* send_frames does not check has_lhdc_handle; this holds only if no tick
\* can owe frames while the handle is missing or freed.
CodecCallsNeedLiveHandle ==
  last_call.fn # "none" => last_call.live

\* Every codec call from send_frames is made with a payload MTU of at least
\* one byte: max_mtu_len = TxAaMtuSize - A2DP_LHDC_MPL_HDR_LEN is 0 or wraps
\* around otherwise.
EncodeWithUsableMtu ==
  last_call.fn = "encode" => last_call.mtu > A2DP_LHDC_MPL_HDR_LEN

====
