--------------------------- MODULE MC_LhdcEncoder ----------------------------
(***************************************************************************)
(* Model-checking instance of LhdcEncoder.  Byte counts and times are      *)
(* scaled down: a tick is 2 time units and earns 3 PCM bytes, a frame is   *)
(* 2 PCM bytes, so the pacer yields 1 or 2 frames on a regular tick and    *)
(* more after a late one.  Codec outputs of 1 and 3 bytes against payload  *)
(* sizes of 1 and 2 bytes make single packets, fragmented groups and       *)
(* buffers carried across frames all occur.                                *)
(***************************************************************************)
EXTENDS LhdcEncoder

MC_Gaps        == {1, 2, 3}       \* early, on time, late tick
MC_OutLens     == {-1, 0, 1, 3}   \* encoder error, buffered, short, long output
MC_CoreOutLens == {-1, 0, 3}      \* encoder error, buffered, an output spanning buffers
MC_PeerMtus    == {0, 2, 4}       \* refused update; TxAaMtuSize 2 or 3: payload 1 or 2 bytes
MC_SinkAnswers == {TRUE}
MC_Latencies   == {1}           \* A2DP_LHDC_LATENCY_MID, the index encoder_update sets by default

\* A late tick after which the pacer owes 17 frames (the regular ratio of
\* one packet per frame then needs 17 entries of p_btBufs).
MC_LateGaps    == {2, 23}
MC_FrameSizedOutLens == {2}    \* one codec output fills one 2-byte payload
MC_WidePeerMtus == {4}         \* TxAaMtuSize 3: payload 2 bytes
MC_AnySinkAnswer == BOOLEAN
\* A tick 21 units after the first owes exactly 16 frames, one more than
\* the 4-bit frame count field of the header holds.
MC_HeaderGaps  == {2, 21}
=============================================================================
