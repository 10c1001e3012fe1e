---------------------------- MODULE MC_LhdcSession ----------------------------
(***************************************************************************)
(* Model values for LhdcSession.  Feeding parameters are two real A2DP     *)
(* configurations (96 kHz/24-bit and 44.1 kHz/16-bit stereo, the sample    *)
(* rates and widths A2DP_VendorGetTrackSampleRateLhdc and the codec        *)
(* config can yield), so bytes_per_tick changes when the configuration    *)
(* does.  Codec specific values: no magic (default modes), quality HIGH,  *)
(* and index 3 (ABR), which also serves as a latency index.               *)
(***************************************************************************)
EXTENDS LhdcSession

MC_FeedingParams ==
  {[sample_rate |-> 96000, bits_per_sample |-> 24, channel_count |-> 2],
   [sample_rate |-> 44100, bits_per_sample |-> 16, channel_count |-> 2]}

MC_CodecSpecifics ==
  {[magic |-> FALSE, low |-> 0], [magic |-> TRUE, low |-> 0], [magic |-> TRUE, low |-> 3]}

\* Peer MTUs: refused zero, a classic EDR L2CAP MTU, one above the cap.
MC_PeerMtus == {0, 672, 5000}

\* A one-byte peer MTU, which updateEncoderUserConfig accepts.
MC_TinyPeerMtus == {1, 672}

MC_QueueLengths == {0, 5}
================================================================================
