---------------------------- MODULE LhdcCodecInfo ----------------------------
(***************************************************************************)
(* LHDC codec information and configuration selection of                   *)
(* src/stack/a2dp/a2dp_vendor_lhdc.cc: the byte layout of the LHDC Media   *)
(* Codec Capabilities (A2DP_BuildInfoLhdc / A2DP_ParseInfoLhdc) and        *)
(* A2dpCodecConfigLhdc::setCodecConfig, which intersects the peer's        *)
(* capabilities with the local ones, picks a sample rate, bit depth and    *)
(* channel mode (user config first, then the audio config, the default,    *)
(* the best left), and writes the resulting OTA configuration.             *)
(*                                                                         *)
(* Codec information is the sequence of its 10 bytes, from the LOSC octet  *)
(* on.  The codec's own bit values come from a2dp_vendor_lhdc_constants.h; *)
(* the btav_a2dp_codec_* values of the stack's API header, which is not in *)
(* this repository, are CONSTANTS.  The peer's codec information and the   *)
(* user's and audio configuration are chosen with \E from small sets.      *)
(***************************************************************************)
EXTENDS Integers, Sequences, FiniteSets, Bitwise, SequencesExt

CONSTANTS
  A2DP_LHDC_SAMPLING_FREQ_88200,       \* used by the code, defined outside this repository
  BTAV_A2DP_CODEC_SAMPLE_RATE_44100, BTAV_A2DP_CODEC_SAMPLE_RATE_48000,
  BTAV_A2DP_CODEC_SAMPLE_RATE_88200, BTAV_A2DP_CODEC_SAMPLE_RATE_96000,
  BTAV_A2DP_CODEC_SAMPLE_RATE_176400, BTAV_A2DP_CODEC_SAMPLE_RATE_192000,
  BTAV_A2DP_CODEC_BITS_PER_SAMPLE_16, BTAV_A2DP_CODEC_BITS_PER_SAMPLE_24,
  BTAV_A2DP_CODEC_BITS_PER_SAMPLE_32,
  BTAV_A2DP_CODEC_CHANNEL_MODE_MONO, BTAV_A2DP_CODEC_CHANNEL_MODE_STEREO,
  AVDT_MEDIA_TYPE_AUDIO, A2DP_MEDIA_CT_NON_A2DP,
  PeerInfos,      \* codec information bytes a peer may send
  UserConfigs,    \* codec_user_config_ values (sample_rate, bits_per_sample, channel_mode, cs)
  AudioConfigs,   \* codec_audio_config_ values
  MaxCalls        \* bound on the setCodecConfig calls explored

\* The *_NONE values of the btav_a2dp_codec_* enums.
NONE == 0

\* a2dp_vendor_lhdc_constants.h
A2DP_LHDC_CODEC_LEN == 9
A2DP_LHDC_VENDOR_ID == 1338             \* 0x0000053a
A2DP_LHDC_CODEC_ID == 18508             \* 0x484C
A2DP_LHDC_SAMPLING_FREQ_MASK == 7
A2DP_LHDC_SAMPLING_FREQ_44100 == 4
A2DP_LHDC_SAMPLING_FREQ_48000 == 2
A2DP_LHDC_SAMPLING_FREQ_96000 == 1
A2DP_LHDC_BIT_FMT_MASK == 24            \* 0x18
A2DP_LHDC_BIT_FMT_24 == 8
A2DP_LHDC_BIT_FMT_16 == 16
A2DP_LHDC_CHANNEL_MODE_MONO == 4
A2DP_LHDC_CHANNEL_MODE_DUAL == 2
A2DP_LHDC_CHANNEL_MODE_STEREO == 1

BPS_16 == BTAV_A2DP_CODEC_BITS_PER_SAMPLE_16
BPS_24 == BTAV_A2DP_CODEC_BITS_PER_SAMPLE_24

\* a2dp_lhdc_caps and a2dp_lhdc_default_config (tA2DP_LHDC_CIE).
a2dp_lhdc_caps ==
  [vendorId |-> A2DP_LHDC_VENDOR_ID, codecId |-> A2DP_LHDC_CODEC_ID,
   sampleRate |-> A2DP_LHDC_SAMPLING_FREQ_44100 | A2DP_LHDC_SAMPLING_FREQ_48000
                  | A2DP_LHDC_SAMPLING_FREQ_88200 | A2DP_LHDC_SAMPLING_FREQ_96000,
   channelMode |-> A2DP_LHDC_CHANNEL_MODE_STEREO,
   bits_per_sample |-> BPS_16 | BPS_24]
a2dp_lhdc_default_config ==
  [vendorId |-> A2DP_LHDC_VENDOR_ID, codecId |-> A2DP_LHDC_CODEC_ID,
   sampleRate |-> A2DP_LHDC_SAMPLING_FREQ_96000,
   channelMode |-> A2DP_LHDC_CHANNEL_MODE_STEREO, bits_per_sample |-> BPS_24]

\* The status codes of the A2DP_*Info functions, by name.
Status == {"SUCCESS", "INVALID_PARAMS", "WRONG_CODEC", "BAD_SAMP_FREQ", "BAD_CH_MODE"}

\* Byte k (0 = least significant) of x.
ByteOf(x, k) == (x \div (2 ^ (8 * k))) % 256

-----------------------------------------------------------------------------
(* A2DP_BuildInfoLhdc / A2DP_ParseInfoLhdc *)

\* Mutant of BitFormat: the 16 and 24 bit fields are swapped.
BitFormatSwapped(bps) ==
  CASE bps = (BPS_24 | BPS_16) -> A2DP_LHDC_BIT_FMT_24 | A2DP_LHDC_BIT_FMT_16
    [] bps = BPS_24            -> A2DP_LHDC_BIT_FMT_16
    [] bps = BPS_16            -> A2DP_LHDC_BIT_FMT_24
    [] OTHER                   -> 0

\* The octet 6 bit depth field for a btav bits_per_sample value.
BitFormat(bps) ==
  CASE bps = (BPS_24 | BPS_16) -> A2DP_LHDC_BIT_FMT_24 | A2DP_LHDC_BIT_FMT_16
    [] bps = BPS_24            -> A2DP_LHDC_BIT_FMT_24
    [] bps = BPS_16            -> A2DP_LHDC_BIT_FMT_16
    [] OTHER                   -> 0

\* Mutant of A2DP_BuildInfoLhdc: the vendor id is written most significant
\* byte first.
A2DP_BuildInfoLhdcBigEndian(media_type, ie) ==
  LET para == (ie.sampleRate & A2DP_LHDC_SAMPLING_FREQ_MASK) | BitFormat(ie.bits_per_sample)
  IN  [status |-> IF para = 0 THEN "INVALID_PARAMS" ELSE "SUCCESS",
       bytes  |-> <<A2DP_LHDC_CODEC_LEN, (media_type * 16) % 256, A2DP_MEDIA_CT_NON_A2DP,
                    ByteOf(ie.vendorId, 3), ByteOf(ie.vendorId, 2),
                    ByteOf(ie.vendorId, 1), ByteOf(ie.vendorId, 0),
                    ByteOf(ie.codecId, 0), ByteOf(ie.codecId, 1), para>>]

\* LOSC, media type << 4, codec type, vendor id and codec id little endian,
\* then octet 6: the sample rate bits and the bit depth field.  A zero
\* octet 6 is refused (after it was written).
A2DP_BuildInfoLhdc(media_type, ie) ==
  LET para == (ie.sampleRate & A2DP_LHDC_SAMPLING_FREQ_MASK) | BitFormat(ie.bits_per_sample)
  IN  [status |-> IF para = 0 THEN "INVALID_PARAMS" ELSE "SUCCESS",
       bytes  |-> <<A2DP_LHDC_CODEC_LEN, (media_type * 16) % 256, A2DP_MEDIA_CT_NON_A2DP,
                    ByteOf(ie.vendorId, 0), ByteOf(ie.vendorId, 1),
                    ByteOf(ie.vendorId, 2), ByteOf(ie.vendorId, 3),
                    ByteOf(ie.codecId, 0), ByteOf(ie.codecId, 1), para>>]

\* A2DP_BitsSet(x) == A2DP_SET_ONE_BIT
OneBitSet(x) == \E k \in 0 .. 7 : x = 2 ^ k

\* The octet 6 bit depth field back to a btav value (0: not a known field).
BitsOfFormat(fmt) ==
  CASE fmt = A2DP_LHDC_BIT_FMT_24   -> BPS_24
    [] fmt = A2DP_LHDC_BIT_FMT_16   -> BPS_16
    [] fmt = A2DP_LHDC_BIT_FMT_MASK -> BPS_16 | BPS_24
    [] OTHER                        -> NONE

\* Checks, in the code's order, the LOSC, media and codec type, vendor and
\* codec id and the bit depth field; the channel mode is always stereo.  A
\* configuration (is_capability false) must have one sample rate bit.
A2DP_ParseInfoLhdc(info, is_capability) ==
  LET ie == [vendorId |-> info[4] + 256 * info[5] + 65536 * info[6] + 16777216 * info[7],
             codecId |-> info[8] + 256 * info[9],
             sampleRate |-> info[10] & A2DP_LHDC_SAMPLING_FREQ_MASK,
             channelMode |-> A2DP_LHDC_CHANNEL_MODE_STEREO,
             bits_per_sample |-> BitsOfFormat(info[10] & A2DP_LHDC_BIT_FMT_MASK)]
      status ==
        CASE info[1] # A2DP_LHDC_CODEC_LEN -> "WRONG_CODEC"
          [] info[2] \div 16 # AVDT_MEDIA_TYPE_AUDIO
             \/ info[3] # A2DP_MEDIA_CT_NON_A2DP -> "WRONG_CODEC"
          [] ie.vendorId # A2DP_LHDC_VENDOR_ID
             \/ ie.codecId # A2DP_LHDC_CODEC_ID -> "WRONG_CODEC"
          [] ie.bits_per_sample = NONE -> "WRONG_CODEC"
          [] is_capability -> "SUCCESS"
          [] ~OneBitSet(ie.sampleRate) -> "BAD_SAMP_FREQ"
          [] ~OneBitSet(ie.channelMode) -> "BAD_CH_MODE"
          [] OTHER -> "SUCCESS"
  IN  [status |-> status, ie |-> ie]

-----------------------------------------------------------------------------
(* Track getters: the feeding parameters encoder_update derives *)

\* Mutant of A2DP_VendorGetTrackSampleRateLhdc: the 44.1 and 48 kHz cases
\* are swapped.
GetTrackSampleRateSwapped(p_codec_info) ==
  LET p == A2DP_ParseInfoLhdc(p_codec_info, FALSE)
  IN  CASE p.status # "SUCCESS"                         -> -1
        [] p.ie.sampleRate = A2DP_LHDC_SAMPLING_FREQ_44100 -> 48000
        [] p.ie.sampleRate = A2DP_LHDC_SAMPLING_FREQ_48000 -> 44100
        [] p.ie.sampleRate = A2DP_LHDC_SAMPLING_FREQ_88200 -> 88200
        [] p.ie.sampleRate = A2DP_LHDC_SAMPLING_FREQ_96000 -> 96000
        [] OTHER                                        -> -1

\* A2DP_VendorGetTrackSampleRateLhdc: parse as a configuration, then the
\* rate in Hz of the one rate bit; -1 on a parse error or another value.
GetTrackSampleRate(p_codec_info) ==
  LET p == A2DP_ParseInfoLhdc(p_codec_info, FALSE)
  IN  CASE p.status # "SUCCESS"                         -> -1
        [] p.ie.sampleRate = A2DP_LHDC_SAMPLING_FREQ_44100 -> 44100
        [] p.ie.sampleRate = A2DP_LHDC_SAMPLING_FREQ_48000 -> 48000
        [] p.ie.sampleRate = A2DP_LHDC_SAMPLING_FREQ_88200 -> 88200
        [] p.ie.sampleRate = A2DP_LHDC_SAMPLING_FREQ_96000 -> 96000
        [] OTHER                                        -> -1

\* A2DP_VendorGetTrackChannelCountLhdc: 2 for stereo, else -1.
GetTrackChannelCount(p_codec_info) ==
  LET p == A2DP_ParseInfoLhdc(p_codec_info, FALSE)
  IN  IF p.status = "SUCCESS" /\ p.ie.channelMode = A2DP_LHDC_CHANNEL_MODE_STEREO
      THEN 2 ELSE -1

\* A2DP_VendorGetChannelModeCodeLhdc: the stereo mode bit, else -1.
GetChannelModeCode(p_codec_info) ==
  LET p == A2DP_ParseInfoLhdc(p_codec_info, FALSE)
  IN  IF p.status = "SUCCESS" /\ p.ie.channelMode = A2DP_LHDC_CHANNEL_MODE_STEREO
      THEN p.ie.channelMode ELSE -1

\* A2DP_VendorCodecEqualsLhdc: both parse (as capabilities) and agree on
\* the sample rate and the bit depth.
A2DP_VendorCodecEqualsLhdc(a, b) ==
  LET pa == A2DP_ParseInfoLhdc(a, TRUE)
      pb == A2DP_ParseInfoLhdc(b, TRUE)
  IN  /\ pa.status = "SUCCESS" /\ pb.status = "SUCCESS"
      /\ pa.ie.sampleRate = pb.ie.sampleRate
      /\ pa.ie.bits_per_sample = pb.ie.bits_per_sample

\* A2DP_IsVendorSourceCodecValidLhdc (and the identical
\* A2DP_IsVendorPeerSinkCodecValidLhdc): the liberal check, valid as a
\* configuration or as a capability.
A2DP_IsVendorSourceCodecValidLhdc(info) ==
  \/ A2DP_ParseInfoLhdc(info, FALSE).status = "SUCCESS"
  \/ A2DP_ParseInfoLhdc(info, TRUE).status = "SUCCESS"

\* A2DP_VendorGetEncoderInterfaceLhdc: the LHDC encoder interface, or NULL
\* for codec information that is not valid.
A2DP_VendorGetEncoderInterfaceLhdc(info) ==
  IF A2DP_IsVendorSourceCodecValidLhdc(info) THEN "a2dp_encoder_interface_lhdc" ELSE "NULL"

-----------------------------------------------------------------------------
(* Selection helpers of setCodecConfig *)

\* The sample rates in the order select_best_sample_rate tries them.
Rates == <<[lhdc |-> A2DP_LHDC_SAMPLING_FREQ_96000, btav |-> BTAV_A2DP_CODEC_SAMPLE_RATE_96000],
           [lhdc |-> A2DP_LHDC_SAMPLING_FREQ_88200, btav |-> BTAV_A2DP_CODEC_SAMPLE_RATE_88200],
           [lhdc |-> A2DP_LHDC_SAMPLING_FREQ_48000, btav |-> BTAV_A2DP_CODEC_SAMPLE_RATE_48000],
           [lhdc |-> A2DP_LHDC_SAMPLING_FREQ_44100, btav |-> BTAV_A2DP_CODEC_SAMPLE_RATE_44100]>>
NoRate == [lhdc |-> 0, btav |-> NONE]

\* The btav rates whose LHDC bit is in mask, OR-ed together.
RateBits(mask) ==
  FoldSet(LAMBDA r, acc : IF (mask & r.lhdc) # 0 THEN acc | r.btav ELSE acc, NONE, Range(Rates))

\* Mutant of select_best_sample_rate: the whole mask is stored as the
\* result's sample rate instead of the bit selected.
select_best_sample_rate_mask(sampleRate) ==
  LET c == SelectSeq(Rates, LAMBDA r : (sampleRate & r.lhdc) # 0)
  IN  IF c = <<>> THEN NoRate ELSE [Head(c) EXCEPT !.lhdc = sampleRate]

\* The first of 96, 88.2, 48, 44.1 kHz whose bit is in sampleRate.
select_best_sample_rate(sampleRate) ==
  LET c == SelectSeq(Rates, LAMBDA r : (sampleRate & r.lhdc) # 0)
  IN  IF c = <<>> THEN NoRate ELSE Head(c)

\* The rate of the audio config, if its bit is in sampleRate (the switch
\* covers the four LHDC rates; 176.4, 192 kHz and none select nothing).
select_audio_sample_rate(audio_rate, sampleRate) ==
  LET c == SelectSeq(Rates, LAMBDA r : r.btav = audio_rate /\ (sampleRate & r.lhdc) # 0)
  IN  IF c = <<>> THEN NoRate ELSE Head(c)

\* select_best_bits_per_sample: 24 before 16.
select_best_bits_per_sample(bps) ==
  IF (bps & BPS_24) # 0 THEN BPS_24 ELSE IF (bps & BPS_16) # 0 THEN BPS_16 ELSE NONE

\* select_audio_bits_per_sample: the audio config's 16 or 24, if in bps.
select_audio_bits_per_sample(audio_bps, bps) ==
  IF audio_bps \in {BPS_16, BPS_24} /\ (bps & audio_bps) # 0 THEN audio_bps ELSE NONE

\* select_best_channel_mode / select_audio_channel_mode: stereo only.
select_best_channel_mode(channelMode) ==
  IF (channelMode & A2DP_LHDC_CHANNEL_MODE_STEREO) # 0 THEN A2DP_LHDC_CHANNEL_MODE_STEREO ELSE NONE
select_audio_channel_mode(audio_cm, channelMode) ==
  IF audio_cm = BTAV_A2DP_CODEC_CHANNEL_MODE_STEREO THEN select_best_channel_mode(channelMode) ELSE NONE

-----------------------------------------------------------------------------
(* The three parameter blocks of setCodecConfig.  Each gives the value for *)
(* result_config_cie (res), codec_config_ (cfg, NONE: no match, fail),     *)
(* codec_capability_ (cap) and codec_selectable_capability_ (sel).         *)

\* Mutant of NegotiateSampleRate: the user's rate is ignored.
NegotiateSampleRateNoUser(sink, user, audio, cap, sel) ==
  LET sampleRate == a2dp_lhdc_caps.sampleRate & sink.sampleRate
      sel1 == sel | RateBits(sampleRate)
      pick == LET a == select_audio_sample_rate(audio.sample_rate, sampleRate)
                  d == select_best_sample_rate(a2dp_lhdc_default_config.sampleRate & sink.sampleRate)
              IN  IF a # NoRate THEN a ELSE IF d # NoRate THEN d
                  ELSE select_best_sample_rate(sampleRate)
  IN  [res |-> pick.lhdc, cfg |-> pick.btav, cap |-> cap | RateBits(sampleRate), sel |-> sel1]

\* Mutant of NegotiateSampleRate: without a user preference the common
\* capability is not added to codec_capability_.
NegotiateSampleRateNoCommonCap(sink, user, audio, cap, sel) ==
  LET sampleRate == a2dp_lhdc_caps.sampleRate & sink.sampleRate
      u == select_audio_sample_rate(user.sample_rate, sampleRate)
      userNone == user.sample_rate \in {BTAV_A2DP_CODEC_SAMPLE_RATE_176400,
                                        BTAV_A2DP_CODEC_SAMPLE_RATE_192000, NONE}
      cap1 == IF u # NoRate THEN user.sample_rate ELSE IF userNone THEN NONE ELSE cap
      pick == LET a == select_audio_sample_rate(audio.sample_rate, sampleRate)
                  d == select_best_sample_rate(a2dp_lhdc_default_config.sampleRate & sink.sampleRate)
              IN  IF a # NoRate THEN a ELSE IF d # NoRate THEN d
                  ELSE select_best_sample_rate(sampleRate)
  IN  IF u # NoRate THEN [res |-> u.lhdc, cfg |-> u.btav, cap |-> cap1, sel |-> sel | RateBits(sampleRate)]
      ELSE [res |-> pick.lhdc, cfg |-> pick.btav, cap |-> cap1, sel |-> sel | RateBits(sampleRate)]

\* Sample rate: the user's rate if the peer and the source both have it
\* (a user rate outside the LHDC rates clears the capability); otherwise
\* the capability becomes the common rates and the audio config's rate,
\* the default 96 kHz or the best common rate is taken.  The selectable
\* capability only ever gains rates.
NegotiateSampleRate(sink, user, audio, cap, sel) ==
  LET sampleRate == a2dp_lhdc_caps.sampleRate & sink.sampleRate
      u == select_audio_sample_rate(user.sample_rate, sampleRate)
      userNone == user.sample_rate \in {BTAV_A2DP_CODEC_SAMPLE_RATE_176400,
                                        BTAV_A2DP_CODEC_SAMPLE_RATE_192000, NONE}
      cap1 == IF u # NoRate THEN user.sample_rate ELSE IF userNone THEN NONE ELSE cap
      sel1 == sel | RateBits(sampleRate)
      pick == LET a == select_audio_sample_rate(audio.sample_rate, sampleRate)
                  d == select_best_sample_rate(a2dp_lhdc_default_config.sampleRate & sink.sampleRate)
              IN  IF a # NoRate THEN a ELSE IF d # NoRate THEN d
                  ELSE select_best_sample_rate(sampleRate)
  IN  IF u # NoRate THEN [res |-> u.lhdc, cfg |-> u.btav, cap |-> cap1, sel |-> sel1]
      ELSE [res |-> pick.lhdc, cfg |-> pick.btav, cap |-> cap1 | RateBits(sampleRate), sel |-> sel1]

\* Bits per sample: the user's 16 or 24 if both sides have it (32 or none
\* clears the capability); otherwise the capability becomes the common
\* depths, and the audio config's depth, the default 24 or the best depth
\* is taken from the source's capabilities alone.
NegotiateBitsPerSample(sink, user, audio, cap, sel) ==
  LET bits_per_sample == a2dp_lhdc_caps.bits_per_sample & sink.bits_per_sample
      u == IF user.bits_per_sample \in {BPS_16, BPS_24}
              /\ (bits_per_sample & user.bits_per_sample) # 0
           THEN user.bits_per_sample ELSE NONE
      pick == LET a == select_audio_bits_per_sample(audio.bits_per_sample, a2dp_lhdc_caps.bits_per_sample)
                  d == select_best_bits_per_sample(a2dp_lhdc_default_config.bits_per_sample)
              IN  IF a # NONE THEN a ELSE IF d # NONE THEN d
                  ELSE select_best_bits_per_sample(a2dp_lhdc_caps.bits_per_sample)
  IN  IF u # NONE
      THEN [res |-> u, cfg |-> u, cap |-> u, sel |-> a2dp_lhdc_caps.bits_per_sample]
      ELSE [res |-> pick, cfg |-> pick, cap |-> bits_per_sample,
            sel |-> a2dp_lhdc_caps.bits_per_sample]

\* Channel mode: stereo if the user asks for it and both sides have it;
\* otherwise the capability gains mono/stereo from the common modes and the
\* audio config, the default or the best mode is taken.
NegotiateChannelMode(sink, user, audio, cap, sel) ==
  LET channelMode == a2dp_lhdc_caps.channelMode & sink.channelMode
      stereo == (channelMode & A2DP_LHDC_CHANNEL_MODE_STEREO) # 0
      u == user.channel_mode = BTAV_A2DP_CODEC_CHANNEL_MODE_STEREO /\ stereo
      cap1 == IF u THEN user.channel_mode
              ELSE IF user.channel_mode = BTAV_A2DP_CODEC_CHANNEL_MODE_STEREO THEN cap ELSE NONE
      sel1 == IF stereo THEN sel | BTAV_A2DP_CODEC_CHANNEL_MODE_STEREO ELSE sel
      cap2 == (cap1 | (IF (channelMode & A2DP_LHDC_CHANNEL_MODE_MONO) # 0
                       THEN BTAV_A2DP_CODEC_CHANNEL_MODE_MONO ELSE NONE))
              | (IF (channelMode & (A2DP_LHDC_CHANNEL_MODE_STEREO | A2DP_LHDC_CHANNEL_MODE_DUAL)) # 0
                 THEN BTAV_A2DP_CODEC_CHANNEL_MODE_STEREO ELSE NONE)
      pick == LET a == select_audio_channel_mode(audio.channel_mode, channelMode)
                  d == select_best_channel_mode(a2dp_lhdc_default_config.channelMode & sink.channelMode)
              IN  IF a # NONE THEN a ELSE IF d # NONE THEN d ELSE select_best_channel_mode(channelMode)
      btav == IF pick = A2DP_LHDC_CHANNEL_MODE_STEREO THEN BTAV_A2DP_CODEC_CHANNEL_MODE_STEREO ELSE NONE
  IN  IF u THEN [res |-> A2DP_LHDC_CHANNEL_MODE_STEREO, cfg |-> user.channel_mode, cap |-> cap1, sel |-> sel1]
      ELSE [res |-> pick, cfg |-> btav, cap |-> cap2, sel |-> sel1]

-----------------------------------------------------------------------------
(* A2dpCodecConfigLhdc state *)

VARIABLES
  codec_config_,                 \* [sample_rate, bits_per_sample, channel_mode, cs]
  codec_capability_,             \* [sample_rate, bits_per_sample, channel_mode]
  codec_selectable_capability_,
  codec_user_config_,            \* set by the stack before setCodecConfig
  codec_audio_config_,
  ota_codec_config_,             \* codec information bytes
  ota_codec_peer_capability_,
  ota_codec_peer_config_,
  calls,                         \* setCodecConfig calls so far
  last                           \* history: outcome and parsed peer info of the last call

vars == <<codec_config_, codec_capability_, codec_selectable_capability_, codec_user_config_,
          codec_audio_config_, ota_codec_config_, ota_codec_peer_capability_,
          ota_codec_peer_config_, calls, last>>

NoInfo == [i \in 1 .. 10 |-> 0]
NoConfig == [sample_rate |-> NONE, bits_per_sample |-> NONE, channel_mode |-> NONE]
NoIe == [vendorId |-> 0, codecId |-> 0, sampleRate |-> 0, channelMode |-> 0, bits_per_sample |-> NONE]

\* The configuration members start zeroed; the stack has set the user and
\* audio configuration before it first asks for a configuration.
Init ==
  /\ codec_config_ = NoConfig @@ [cs |-> <<0, 0, 0, 0>>]
  /\ codec_capability_ = NoConfig
  /\ codec_selectable_capability_ = NoConfig
  /\ codec_user_config_ \in UserConfigs
  /\ codec_audio_config_ \in AudioConfigs
  /\ ota_codec_config_ = NoInfo
  /\ ota_codec_peer_capability_ = NoInfo
  /\ ota_codec_peer_config_ = NoInfo
  /\ calls = 0
  /\ last = [ok |-> FALSE, info |-> NoInfo, is_capability |-> FALSE, sink |-> NoIe, result |-> NoIe]

\* The codec-specific fields of the user configuration that are not zero
\* replace those of codec_config_.
MergeCodecSpecific(user_cs, config_cs) ==
  [i \in 1 .. 4 |-> IF user_cs[i] # 0 THEN user_cs[i] ELSE config_cs[i]]

\* setCodecConfig(p_peer_codec_info, is_capability): parse the peer's
\* information, select rate, depth and channel mode, build the result; on
\* any failure every member is restored (goto fail), so the call is a no-op.
SetCodecConfig(p_peer_codec_info, is_capability) ==
  LET parsed == A2DP_ParseInfoLhdc(p_peer_codec_info, is_capability)
      sink == parsed.ie
      user == codec_user_config_
      audio == codec_audio_config_
      r == NegotiateSampleRate(sink, user, audio, codec_capability_.sample_rate,
                               codec_selectable_capability_.sample_rate)
      b == NegotiateBitsPerSample(sink, user, audio, codec_capability_.bits_per_sample,
                                  codec_selectable_capability_.bits_per_sample)
      c == NegotiateChannelMode(sink, user, audio, codec_capability_.channel_mode,
                                codec_selectable_capability_.channel_mode)
      result_config_cie == [vendorId |-> a2dp_lhdc_caps.vendorId, codecId |-> a2dp_lhdc_caps.codecId,
                            sampleRate |-> r.res, channelMode |-> c.res, bits_per_sample |-> b.res]
      built == A2DP_BuildInfoLhdc(AVDT_MEDIA_TYPE_AUDIO, result_config_cie)
      peerCopy == A2DP_BuildInfoLhdc(AVDT_MEDIA_TYPE_AUDIO, sink).bytes
      ok == /\ parsed.status = "SUCCESS"
            /\ r.cfg # NONE /\ b.cfg # NONE /\ c.cfg # NONE
            /\ built.status = "SUCCESS"
  IN  /\ calls < MaxCalls
      /\ calls' = calls + 1
      /\ last' = [ok |-> ok, info |-> p_peer_codec_info, is_capability |-> is_capability, sink |-> sink,
                  result |-> result_config_cie]
      /\ UNCHANGED <<codec_user_config_, codec_audio_config_>>
      /\ IF ok
         THEN /\ codec_config_' =
                   [sample_rate |-> r.cfg, bits_per_sample |-> b.cfg, channel_mode |-> c.cfg,
                    cs |-> MergeCodecSpecific(user.cs, codec_config_.cs)]
              /\ codec_capability_' = [sample_rate |-> r.cap, bits_per_sample |-> b.cap,
                                       channel_mode |-> c.cap]
              /\ codec_selectable_capability_' = [sample_rate |-> r.sel, bits_per_sample |-> b.sel,
                                                  channel_mode |-> c.sel]
              /\ ota_codec_peer_capability_' =
                   IF is_capability THEN peerCopy ELSE ota_codec_peer_capability_
              /\ ota_codec_peer_config_' =
                   IF is_capability THEN ota_codec_peer_config_ ELSE peerCopy
              /\ ota_codec_config_' = built.bytes
         ELSE UNCHANGED <<codec_config_, codec_capability_, codec_selectable_capability_,
                          ota_codec_config_, ota_codec_peer_capability_, ota_codec_peer_config_>>

\* The stack calls setCodecConfig with what the peer reports: its
\* capabilities or its configuration, which may be the configuration this
\* side built last (ota_codec_config_) after the peer accepted it.
Next == \E info \in PeerInfos \cup {ota_codec_config_}, is_capability \in BOOLEAN :
          SetCodecConfig(info, is_capability)

Spec == Init /\ [][Next]_vars

-----------------------------------------------------------------------------
(* Properties *)

\* The LHDC bit of a btav sample rate value (0 if none).
LhdcRateOf(btav) == LET c == SelectSeq(Rates, LAMBDA x : x.btav = btav)
                    IN  IF c = <<>> THEN 0 ELSE Head(c).lhdc

\* After setCodecConfig returns true, the OTA configuration it wrote is one
\* the sink accepts as a configuration (A2DP_ParseInfoLhdc with
\* is_capability false: one sample rate bit, one channel mode), its rate is
\* one the sink and the source both listed, and it is the rate recorded in
\* codec_config_.
ConfigAcceptedByPeer ==
  last.ok =>
    LET p == A2DP_ParseInfoLhdc(ota_codec_config_, FALSE)
    IN  /\ p.status = "SUCCESS"
        /\ (p.ie.sampleRate & last.sink.sampleRate & a2dp_lhdc_caps.sampleRate) = p.ie.sampleRate
        /\ p.ie.sampleRate = LhdcRateOf(codec_config_.sample_rate)

\* After a successful call, the copy of the peer's capability (or
\* configuration) kept in ota_codec_peer_capability_ (ota_codec_peer_config_)
\* reads back, through A2DP_ParseInfoLhdc, as the peer information parsed.
PeerCopyRoundTrip ==
  last.ok =>
    LET copy == IF last.is_capability THEN ota_codec_peer_capability_ ELSE ota_codec_peer_config_
        p == A2DP_ParseInfoLhdc(copy, last.is_capability)
    IN  p.status = "SUCCESS" /\ p.ie = last.sink

\* A user preference the sink supports wins over the audio and default
\* configuration: the sample rate and bit depth of codec_user_config_ are
\* the ones configured whenever they are LHDC values the sink offers.
UserPreferenceHonoured ==
  last.ok =>
    /\ (LhdcRateOf(codec_user_config_.sample_rate) & last.sink.sampleRate & a2dp_lhdc_caps.sampleRate) # 0
         => codec_config_.sample_rate = codec_user_config_.sample_rate
    /\ (codec_user_config_.bits_per_sample \in {BPS_16, BPS_24}
        /\ (codec_user_config_.bits_per_sample & last.sink.bits_per_sample) # 0)
         => codec_config_.bits_per_sample = codec_user_config_.bits_per_sample

\* The configured sample rate is within codec_capability_, which in turn
\* is within codec_selectable_capability_, across every sequence of calls
\* (the capability is partly kept from the previous call).
CapabilityCoversConfig ==
  /\ (codec_config_.sample_rate & codec_capability_.sample_rate) = codec_config_.sample_rate
  /\ (codec_capability_.sample_rate & codec_selectable_capability_.sample_rate)
       = codec_capability_.sample_rate

\* The sample rate in Hz a btav_a2dp_codec_sample_rate_t value names.
BtavHz == <<[btav |-> BTAV_A2DP_CODEC_SAMPLE_RATE_44100, hz |-> 44100],
            [btav |-> BTAV_A2DP_CODEC_SAMPLE_RATE_48000, hz |-> 48000],
            [btav |-> BTAV_A2DP_CODEC_SAMPLE_RATE_88200, hz |-> 88200],
            [btav |-> BTAV_A2DP_CODEC_SAMPLE_RATE_96000, hz |-> 96000]>>

\* encoder_update feeds the encoder with the sample rate, channel count and
\* channel mode the track getters read from the OTA configuration, while
\* the stack reports codec_config_ to the audio path: after a successful
\* setCodecConfig both name the same rate, and the getters find a stereo
\* configuration (no -1 reaches the feeding parameters).
FeedingMatchesConfig ==
  last.ok =>
    /\ \E i \in DOMAIN BtavHz :
         /\ BtavHz[i].btav = codec_config_.sample_rate
         /\ GetTrackSampleRate(ota_codec_config_) = BtavHz[i].hz
    /\ GetTrackChannelCount(ota_codec_config_) = 2
    /\ GetChannelModeCode(ota_codec_config_) = A2DP_LHDC_CHANNEL_MODE_STEREO
    /\ A2DP_VendorGetEncoderInterfaceLhdc(ota_codec_config_) # "NULL"

\* The stack (outside this repository) reconfigures the stream whenever the
\* result of setCodecConfig differs, by A2DP_VendorCodecEqualsLhdc, from
\* the configuration in use.  When the peer reports back, as its
\* configuration, the one this side built, the call must succeed and
\* change nothing, else every report starts another reconfiguration.  It
\* relates a call to the one before it, through the capabilities the
\* earlier call left behind.
ConfigIsFixedPoint ==
  [][(ota_codec_config_ # NoInfo /\ last'.info = ota_codec_config_ /\ ~last'.is_capability)
       => /\ last'.ok
          /\ A2DP_VendorCodecEqualsLhdc(ota_codec_config_', ota_codec_config_)
          /\ codec_config_' = codec_config_]_vars

\* select_audio_bits_per_sample is documented to choose within the
\* capability computed just above it (the common bit depths); the bit depth
\* configured after a successful call is one the sink offered.
BitsWithinCapabilities ==
  last.ok => (codec_config_.bits_per_sample & last.sink.bits_per_sample) # 0
====
