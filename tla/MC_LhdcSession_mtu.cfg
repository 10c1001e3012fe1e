CONSTANTS
  MTU_SIZE_CAP = 4080
  A2DP_LHDC_QUALITY_LOW = 2
  A2DP_LHDC_QUALITY_ABR = 3
  A2DP_LHDC_LATENCY_MID = 1
  MaxHandles = 2
  PeerMtus <- MC_PeerMtus
  FeedingParams <- MC_FeedingParams
  CodecSpecifics <- MC_CodecSpecifics
  QueueLengths <- MC_QueueLengths
SPECIFICATION Spec
INVARIANT EncodeWithUsableMtu
