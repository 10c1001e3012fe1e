-------------------------- MODULE MC_LhdcCodecInfo --------------------------
(* Model values for LhdcCodecInfo: the btav_a2dp_codec_* enum values of    *)
(* the stack's bt_av.h, a set of octet 6 values of well-formed LHDC codec *)
(* information, and three malformed headers.                               *)
EXTENDS LhdcCodecInfo

\* The code uses A2DP_LHDC_SAMPLING_FREQ_88200 but no header of the
\* repository defines it; the next free bit above the mask is taken.
MC_FREQ_88200 == 8

\* Octet 6 values: no rate, one rate and several rates, each with no bit
\* depth, 24, 16 and both depths.
Octet6 == {0, 8, 1 + 8, 2 + 16, 4 + 24, 6 + 16, 7 + 24, 3 + 8, 5 + 16, 6 + 8, 16}

\* LOSC, media type, codec type, vendor id (LE), codec id (LE), octet 6.
Header(losc, media, vendor0) == <<losc, media, 255, vendor0, 5, 0, 0, 76, 72>>
MC_PeerInfos ==
  {Append(Header(9, 0, 58), o) : o \in Octet6}
    \cup {Append(Header(8, 0, 58), 13), Append(Header(9, 16, 58), 13), Append(Header(9, 0, 59), 13)}

MC_UserConfigs ==
  [sample_rate : {0, 2, 32}, bits_per_sample : {0, 1, 4}, channel_mode : {0, 1, 2},
   cs : {<<0, 7, 0, 0>>}]
MC_AudioConfigs ==
  [sample_rate : {0, 1}, bits_per_sample : {0, 1}, channel_mode : {2}, cs : {<<0, 0, 0, 0>>}]
====
