CONSTANTS
  TICK_US = 2
  FEED_BYTES_PER_TICK = 3
  PCM_BYTES_PER_FRAME = 2
  ENC_BLOCK_BYTES = 2
  LHDC_FRAME_SIZE = 2
  U32 = 64
  U8 = 256
  MaxTicks = 3
  MaxResets = 1
  Gaps <- MC_Gaps
  Outcomes <- MC_Outcomes
  SinkAnswers <- MC_SinkAnswers
SPECIFICATION Spec
INVARIANTS
  PcmConservation
  PayloadRoundTrip
  TimestampCountsCodecFrames
  SinkBackpressureHonoured
