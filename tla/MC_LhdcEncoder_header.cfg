CONSTANTS
  TICK_US = 2
  FEED_BYTES_PER_TICK = 3
  PCM_BYTES_PER_FRAME = 2
  ENC_BLOCK_BYTES = 2
  ENC_BLOCK_SAMPLES = 1
  MTU_SIZE_CAP = 3
  BT_BUF_SLOTS = 16
  U32 = 65536
  U8 = 256
  SEQ_MOD = 256
  A2DP_LHDC_HDR_NUM_SHIFT = 1
  Latencies <- MC_Latencies
  MaxTicks = 2
  MaxResets = 1
  PeerMtus <- MC_WidePeerMtus
  Gaps <- MC_HeaderGaps
  OutLens <- MC_FrameSizedOutLens
  SinkAnswers <- MC_SinkAnswers
SPECIFICATION Spec
INVARIANT HeaderFlagsWellFormed
