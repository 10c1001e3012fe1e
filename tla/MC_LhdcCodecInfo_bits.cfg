CONSTANTS
  A2DP_LHDC_SAMPLING_FREQ_88200 <- MC_FREQ_88200
  BTAV_A2DP_CODEC_SAMPLE_RATE_44100 = 1
  BTAV_A2DP_CODEC_SAMPLE_RATE_48000 = 2
  BTAV_A2DP_CODEC_SAMPLE_RATE_88200 = 4
  BTAV_A2DP_CODEC_SAMPLE_RATE_96000 = 8
  BTAV_A2DP_CODEC_SAMPLE_RATE_176400 = 16
  BTAV_A2DP_CODEC_SAMPLE_RATE_192000 = 32
  BTAV_A2DP_CODEC_BITS_PER_SAMPLE_16 = 1
  BTAV_A2DP_CODEC_BITS_PER_SAMPLE_24 = 2
  BTAV_A2DP_CODEC_BITS_PER_SAMPLE_32 = 4
  BTAV_A2DP_CODEC_CHANNEL_MODE_MONO = 1
  BTAV_A2DP_CODEC_CHANNEL_MODE_STEREO = 2
  AVDT_MEDIA_TYPE_AUDIO = 0
  A2DP_MEDIA_CT_NON_A2DP = 255
  PeerInfos <- MC_PeerInfos
  UserConfigs <- MC_UserConfigs
  AudioConfigs <- MC_AudioConfigs
  MaxCalls = 2
SPECIFICATION Spec
INVARIANTS
  BitsWithinCapabilities
CHECK_DEADLOCK FALSE
