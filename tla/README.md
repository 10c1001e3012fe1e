# TLA+ models of the LHDC A2DP source encoder

This directory holds TLA+ models of the LHDC vendor codec glue of the
Bluetooth stack in this repository, the TLC configurations that check them,
and `PROJECT.json`, which maps every definition to the source lines it models.

## The system

The repository has two copies of the encoder glue and one file of codec
negotiation:

| File | What it is |
|---|---|
| `src/stack/a2dp/a2dp_vendor_lhdc_encoder.cc` | encoder glue, *fragmenting* variant: a tick's codec output is split into MTU-sized packets (F/S/L header flags) |
| `src/unnamed/part_000` | encoder glue, *non-fragmenting* variant: one packet per non-empty codec output, enqueue result honoured |
| `src/stack/a2dp/a2dp_vendor_lhdc.cc` | capability parsing/building and codec config selection (`A2DP_ParseInfoLhdc`, `A2DP_BuildInfoLhdc`, `setCodecConfig`) |
| `src/stack/include/a2dp_vendor_lhdc_constants.h` | header byte masks, codec IDs, capability bits |

Parts of the encoder glue and how they interact (all run on the single A2DP
media task; the stack calls them through `a2dp_encoder_interface_lhdc`):

* **Library loader** (`A2DP_VendorLoadEncoderLhdc`/`Unload`): `dlopen`s the
  external codec library, resolves its symbols, unloads on a missing one.
* **Session lifecycle** (`encoder_init`, `encoder_update`,
  `updateEncoderUserConfig`, `cleanup`): fills the control block
  `a2dp_lhdc_encoder_cb`; `encoder_update` computes
  `TxAaMtuSize = min(mtu_size, peer_mtu)` and the codec parameters.
* **Pacer** (`a2dp_lhdc_get_num_frame_iteration`): on each tick adds
  `bytes_per_tick * us_this_tick / interval` to a uint32 `counter` and
  converts it to a whole number of frames (stored in a `uint8_t`).
* **PCM source adapter** (`a2dp_lhdc_read_feeding`): one frame of PCM per
  call; a zero-byte read is an underflow, a short read is zero-padded.
* **Frame encoder** (`lhdc_encode_func`, external): returns the length of the
  encoded frame, 0 while it buffers, negative on error.
* **Packet assembler** (`a2dp_lhdc_encode_frames`): copies the codec output
  into buffers of `TxAaMtuSize - 1` payload bytes, collects them in the
  local array `p_btBufs[16]`, writes the one-byte media payload header
  (F/S/L flags, frame count, sequence number `buf_seq`), the timestamp, and
  hands each buffer to `enqueue_callback`.
* **Feeding reset/flush**: clear the pacer; reset also recomputes
  `bytes_per_tick` and restarts `buf_seq`.

## Modules

### `LhdcEncoder.tla` — the fragmenting encoder (`a2dp_vendor_lhdc_encoder.cc`)

State (VARIABLES) corresponds to fields of the code:
`counter`, `bytes_per_tick`, `last_frame_set` (`last_frame_us != 0`) of
`lhdc_feeding_state`; `timestamp`, `buf_seq`, `TxAaMtuSize` of
`a2dp_lhdc_encoder_cb`; `latency_mode_index` of the encoder parameters;
`sent` is the sequence of buffers handed to `enqueue_callback`. Each
buffer records the two bytes of its uint16 `layer_specific` (`seq`, the
high byte, and `hdr`, the media payload header byte), its timestamp and
payload, and the frame count and latency index its tick put into the header. `ticks`, `epoch`, `encoded`,
`earned`, `readFrames` and `flushed` are history variables read only by
properties.

Actions, one per entry point, each atomic because each runs to completion on
the media task:

| Action | Code |
|---|---|
| `Init` / `InitState` | `a2dp_vendor_lhdc_encoder_init` (+ the MTU computation of `encoder_update`) |
| `SendFrames` | `a2dp_vendor_lhdc_send_frames`, including the pacer and all of `a2dp_lhdc_encode_frames` |
| `FeedingReset` | `a2dp_vendor_lhdc_feeding_reset` |
| `FeedingFlush` | `a2dp_vendor_lhdc_feeding_flush` |
| `UpdateEncoderUserConfig(pm, lat)` | `A2dpCodecConfigLhdc::updateEncoderUserConfig` (timestamp zeroing, zero-MTU refusal, MTU and latency index recomputed by `encoder_update`) |

The loops of `a2dp_lhdc_encode_frames` are operators: `PlaceOutput`
(RECURSIVE, the inner `while (out_len > 0)` copy loop), `PlaceOutputs`
(RECURSIVE, the outer `while (nb_frame)` loop over the tick's codec outputs),
`CollectBuffers` (that loop plus the final push of a partly filled buffer),
`HeaderBits` (the bits the tagging loop ORs in: `F | latency`, `S` and
`nb_frame_org << A2DP_LHDC_HDR_NUM_SHIFT` on the first buffer, `L` on the
last, `latency | nb_frame_org << SHIFT` on a single buffer; the count is
not masked, as in the code), `LayerSpecific` (`buf_seq << 8 | bits` in a
uint16), `UnderflowRestore`, `TimestampAdvance`. The pacer is `UsThisTick` and `FramesDue`, with the
uint32 product and uint8 frame count kept as `% U32` and `% U8`.

Inputs the code receives from outside are chosen with `\E` from small sets:
the gap between ticks (`Gaps`), how many PCM reads succeed before an underflow
(`0..nb`), the codec's return value per block (`OutLens`: error, buffered,
short, long), the enqueue answer (`SinkAnswers`), the peer MTU (`PeerMtus`)
and the latency index an update selects (`Latencies`).

`A2DP_LHDC_HDR_NUM_SHIFT` and the `A2DP_LHDC_LATENCY_*` values are used by
the code but defined in no file of the repository, so they are CONSTANTS.
The constants header gives F, S, L the bits 0x80, 0x40, 0x20 and the frame
count a 4-bit mask (0x0F). The MC modules take shift 1: the one layout in
which the 4-bit count field (bits 1..4) overlaps neither the flags nor
bit 0, which is left for the latency index. No shift fits the flags, a
4-bit count and a 2-bit latency (LOW, MID, HIGH) into one byte.

Data abstraction: an encoded byte is its position in the codec's output
stream, so a payload is a sequence of integers and concatenating all payloads
must give `1..encoded`. Byte counts and times are scaled down (see
`MC_LhdcEncoder.tla`); the ratios that matter are kept: a tick owes between
zero and a few frames, a codec frame may be shorter than, equal to or longer
than the MTU, so one, two and several packets per tick all occur.

### `PacketStream.tla` — what the packet assembler promises

An abstract specification with no pacer, PCM, codec or buffers. `produced`
bytes of one output stream exist; `stream` is the sequence of packets
(payload, sequence number, payload size) handed to the sink; `next_seq` is
the number of the next packet; `session` counts streams. `Emit` appends the
packets of one burst: their payloads, concatenated, are exactly the bytes
produced since the previous burst. Each is non-empty and at most its size,
all but the last are full, and they are numbered on from `next_seq` modulo
256. `Restart` begins a new session numbered from 0.

`LhdcEncoder` defines `Stream == INSTANCE PacketStream WITH produced <-
encoded, stream <- (payload, seq, mtu of each sent buffer), next_seq <-
buf_seq, session <- epoch`. `StreamRefinement == Stream!Spec` is a PROPERTY
of `encoder_core`. A tick that sends packets is an `Emit`, a feeding reset
is a `Restart`, and every other step is a stutter. The sequence number
compared is the one read back from `layer_specific`, so a frame count that
spilled into the high byte would be caught. This single property replaces
three invariants of earlier versions: the byte round trip, the MTU fill and
consecutive numbering.

### `LhdcSession.tla` — the session life cycle (`a2dp_vendor_lhdc_encoder.cc`)

State: `loaded` (library loaded by `A2DP_VendorLoadEncoderLhdc`),
`in_session` (between `encoder_init` and `encoder_cleanup`), `cb` (the
fields of `a2dp_lhdc_encoder_cb` the life cycle touches: handle, peer MTU,
`TxAaMtuSize`, timestamp, feeding parameters, `bytes_per_tick`, quality and
latency mode, queue length); `ZeroCb` is the `memset`. Codec handles are
numbered in the order `lhdc_get_handle_func` returns them; `acquired`,
`frees` records what happened to each, and `last_call`
records the last codec call (function, whether its handle was live, the MTU).

| Action | Code |
|---|---|
| `LoadEncoder(outcome)` | `A2DP_VendorLoadEncoderLhdc` (ok, `dlopen` fails, a symbol missing) |
| `UnloadEncoder` | `A2DP_VendorUnloadEncoderLhdc` |
| `EncoderInit(...)` | `a2dp_vendor_lhdc_encoder_init`: free the old handle, `memset`, then `EncoderUpdate` |
| `UpdateEncoderUserConfig(...)` | `updateEncoderUserConfig` then `EncoderUpdate` |
| `EncoderUpdate` / `ConfigureCodec` (operators) | `a2dp_vendor_lhdc_encoder_update`: get a handle, copy the codec config, feeding parameters, MTU, quality/latency selection, `lhdc_set_bitrate_func`, `lhdc_init_handle_encode_func` |
| `EncoderCleanup` | `a2dp_vendor_lhdc_encoder_cleanup` |
| `FeedingReset` | `a2dp_vendor_lhdc_feeding_reset` (recomputes `bytes_per_tick`) |
| `SendFrames` | a tick that owes frames calls `lhdc_encode_func` |
| `SetTransmitQueueLength(q)` | `a2dp_vendor_lhdc_set_transmit_queue_length` (ABR adjustment) |

The outcomes of library calls (`dlopen`/`dlsym`, `lhdc_get_handle_func`,
`copyOutOtaCodecConfig`) are chosen with `\E`. The stack's contract is
assumed: it calls the encoder interface only between `encoder_init` and
`encoder_cleanup`, and only while the library is loaded.

### `LhdcEncoderV1.tla` — the non-fragmenting encoder (`src/unnamed/part_000`)

Same pacer, reset and flush as `LhdcEncoder` (with `A2DP_LHDC_MEDIA_BYTES_PER_FRAME`
128 and the `uint8_t` `nof`). `a2dp_lhdc_encode_frames` differs: each
buffer is filled by a `do { } while ((written == 0) && nb_frame)` loop, so
one buffer holds one non-empty codec output; each buffer gets the running
timestamp, which then advances by the frames the codec reported
(`layer_specific * 512`); a codec error or a refusal by `enqueue_callback`
returns at once. The two loops are the RECURSIVE operator `Run` over a
record of the code's locals and a program counter (`Outer` = head of
`while (nb_frame)`, `ReadBlock` = one pass of the do body, `KeepFilling` =
its loop condition, `Close` = the code after it). `WriteAt` models the write
at `packet + count` where `packet` already includes `p_buf->len`. The
`lhdc_handle == NULL` check is not modelled as a branch: `bytes_per_tick`
stays 0, so no tick owes a frame, until a handle exists. The PCM read
block is taken to be the pacing frame (`LHDCBT_ENC_BLOCK_SIZE` = 128; the
library header is not in the repository).

### `LhdcDataPath.tla` — the stack's codec calls on each buffer (`a2dp_vendor_lhdc.cc`)

Extends `LhdcEncoder` (composition): the buffers the encoder enqueued
(`sent`) are taken in order by `SendToPeer`, which models what the stack's
data path does with each (outside this repository) through the two calls
of this repository it makes. `EncodedBuffer` is the buffer as
`a2dp_lhdc_encode_frames` leaves it: `bt_buf_new`'s offset
`A2DP_LHDC_OFFSET = AVDT_MEDIA_OFFSET + 1` (the build without SCMS-T,
whose payload size `LhdcEncoder` uses), the payload copied at the offset,
and the four timestamp bytes stored at the start of the data area. The data
area is a function from byte offset to cell (a codec byte, or a byte value
written by the glue), written with `:>` and `@@`. `GetPacketTimestamp` is
`A2DP_VendorGetPacketTimestampLhdc`, `BuildCodecHeader` is
`A2DP_VendorBuildCodecHeaderLhdc`, and `WireBytes` is what the lower layers
send, `data[offset .. offset + len - 1]`. The stack's
`AVDT_MEDIA_OFFSET` is not in the repository; the MC module uses 4, the
least that keeps the timestamp clear of the packet (a larger value gives
the same bytes on the wire).

### `LhdcCodecInfo.tla` — codec information and configuration (`a2dp_vendor_lhdc.cc`)

Codec information is the sequence of its 10 bytes (LOSC, media type, codec
type, vendor id and codec id little endian, octet 6 with the sample rate
bits and the bit depth field). `A2DP_BuildInfoLhdc` and `A2DP_ParseInfoLhdc`
are operators that return `[status, bytes]` and `[status, ie]`, with the
code's checks in the code's order. The state holds the members of
`A2dpCodecConfigLhdc` that `setCodecConfig` reads and writes:
`codec_config_`, `codec_capability_`, `codec_selectable_capability_`, the
user and audio configurations (set by the stack, outside this repository,
and chosen at `Init`), and the three OTA byte copies. The one action,
`SetCodecConfig(p_peer_codec_info, is_capability)`, is the whole function.
It parses, then runs the rate, bit-depth and channel blocks
(`NegotiateSampleRate`, `NegotiateBitsPerSample`, `NegotiateChannelMode`:
each is the user `switch` followed by the `do { } while (false)` fallback
chain of `select_audio_*`, the default and the best match). It then builds
the result, copies the non-zero codec-specific fields and writes the OTA
copies. On any `goto fail` the action changes nothing except the history
variable `last`, because the code restores every member. The btav enum
values come from the stack's `bt_av.h`, which is not in this repository, so
they are CONSTANTS. `A2DP_LHDC_SAMPLING_FREQ_88200` is used by the code but
defined in no header of the repository. The model takes 0x08, outside
`A2DP_LHDC_SAMPLING_FREQ_MASK`, so 88.2 kHz is never negotiated.
The track getters `encoder_update` uses for the feeding parameters
(`GetTrackSampleRate`, `GetTrackChannelCount`, `GetChannelModeCode`) are
operators over the OTA bytes: parse as a configuration, then the code's
`switch`. So are the queries the stack makes on codec information:
`A2DP_VendorCodecEqualsLhdc` (rate and depth compared),
`A2DP_IsVendorSourceCodecValidLhdc` (the liberal parse) and
`A2DP_VendorGetEncoderInterfaceLhdc`. `SetCodecConfig`'s peer information
comes from `PeerInfos` or is the configuration this side built last
(`ota_codec_config_`), which the peer reports back once it accepted it.

## Runs

| Run | Module / cfg | Expect | What it shows |
|---|---|---|---|
| `encoder_core` | `MC_LhdcEncoder.cfg` | pass | `PcmConservation`, `HeaderFlagsWellFormed`, `TypeOK` and the refinement `StreamRefinement` hold over 3 ticks with gaps 1..3 (early, on time, late), underflows, codec errors and buffering, 2 feeding resets, MTU updates including a refused zero MTU |
| `btbufs_overflow` | `MC_LhdcEncoder_btbufs.cfg` | violation | a late tick makes one call produce more than 16 buffers: `p_btBufs[16]` is overrun (stack overflow in the code) |
| `sink_backpressure` | `MC_LhdcEncoder_sink.cfg` | violation | packets are still enqueued after `enqueue_callback` refused one; spec §4.4 step 6 says emission stops |
| `timestamp_underflow` | `MC_LhdcEncoder_timestamp.cfg` | violation | after an underflow the timestamp advances by all frames asked for, not the frames read (spec §4.4 step 5) |
| `pacer_overflow` | `MC_LhdcEncoder_overflow.cfg` | violation | a late tick wraps the uint32 product `bytes_per_tick * us_this_tick` and loses PCM budget |
| `header_frame_count` | `MC_LhdcEncoder_header.cfg` | violation | a tick owing 16 frames ORs `16 << 1` into the header: the L flag is set on a single packet (header 0x21) and the count field reads 0 |
| `session_core` | `MC_LhdcSession.cfg` | pass | `HandleOwnership` (no leak, no double free over re-init, failed updates, cleanup), `CodecCallsNeedLiveHandle`, `TypeOK` |
| `session_mtu_zero` | `MC_LhdcSession_mtu.cfg` | violation | `encoder_init` with peer MTU 0 leaves `TxAaMtuSize` 0 and the codec is called with it |
| `v1_core` | `MC_LhdcEncoderV1.cfg` | pass | `PcmConservation` (with early returns), `PayloadRoundTrip`, `TimestampCountsCodecFrames`, `SinkBackpressureHonoured` over 3 ticks with underflows, codec errors, buffered frames, refusals, a reset, flushes and timestamp zeroing |
| `codecinfo_core` | `MC_LhdcCodecInfo.cfg` | pass | `ConfigAcceptedByPeer`, `PeerCopyRoundTrip`, `UserPreferenceHonoured`, `CapabilityCoversConfig`, `FeedingMatchesConfig` and the action property `ConfigIsFixedPoint` hold over two `setCodecConfig` calls with 14 peer infos or the configuration built last (as capability or configuration) and every user and audio configuration of the MC module |
| `wire_payload_clobbered` | `MC_LhdcDataPath.cfg` | violation | the data path's `A2DP_VendorBuildCodecHeaderLhdc` writes two header bytes into a one-byte slot: the packet's sequence number replaces the first LHDC payload byte of every packet |
| `codecinfo_bits_ignore_sink` | `MC_LhdcCodecInfo_bits.cfg` | violation | without a user bit depth, the configured depth is chosen from the source's capabilities: a 24-bit-only sink is configured with 16 bits |

What the properties say:

* `TypeOK` is checked only where it depends on the code: in `LhdcEncoder`
  the `TxAaMtuSize` range rests on `updateEncoderUserConfig` refusing a
  zero MTU, and in `LhdcSession` on the `min` with the MTU cap in
  `encoder_update`. `LhdcEncoderV1` and `LhdcCodecInfo` have no type
  invariant: their ranges would follow from the model's own `% U32` and
  `% 256`, which C's unsigned types give whatever the code does.

* `PcmConservation`: all budget the pacer earned is in the counter, spent on
  read frames, or dropped by reset/flush (in V1 also: abandoned by an early
  return, which spec §4.4 step 6 allows). It relates the pacer, the
  underflow hand-back and reset/flush over many ticks.
* `StreamRefinement`: the fragmenting encoder implements `PacketStream`
  (see above): bytes in order with none lost or repeated, packets filled
  to the MTU, numbering consecutive across ticks and restarted by a reset.
* `PayloadRoundTrip` (V1): the payloads of all packets, concatenated, are
  exactly the codec's output bytes, and no unwritten byte is sent.
* `HeaderFlagsWellFormed`: decoding the header byte gives back the F/S/L
  flags of the packet's place in its tick's group, the tick's frame count
  in the 4-bit field of the first (or only) packet and 0 in the others,
  and the latency index in bit 0.
* `HandleOwnership`: every handle obtained is freed at most once, and the
  unfreed ones are exactly the one the control block holds.
* `CodecCallsNeedLiveHandle`: no codec call uses a freed or missing handle.
* `TimestampCountsCodecFrames`: each V1 buffer carries 512 × the codec
  frames reported before it since the timestamp was zeroed.
* `SinkBackpressureHonoured`: nothing more is sent in a tick after a refusal.
* `ConfigAcceptedByPeer`: after a successful `setCodecConfig`, the OTA
  configuration parses as a configuration (one rate bit), its rate is one
  both sides listed, and it is the rate in `codec_config_`.
* `PeerCopyRoundTrip`: the peer copy kept in `ota_codec_peer_capability_`
  (or `_config_`) parses back to the peer information that was parsed.
* `UserPreferenceHonoured`: a user rate or bit depth the sink supports is
  the one configured.
* `CapabilityCoversConfig`: the configured rate is within
  `codec_capability_`, which is within `codec_selectable_capability_`. This
  must hold across calls, because both capabilities keep bits from the
  previous call.
* `FeedingMatchesConfig`: after a successful `setCodecConfig`, the sample
  rate `encoder_update` feeds the encoder with (read back from the OTA
  configuration by `A2DP_VendorGetTrackSampleRateLhdc`) is the rate of
  `codec_config_`, and the channel getters find stereo, so no -1 reaches
  the feeding parameters, and the stack gets the LHDC encoder interface
  for it.
* `ConfigIsFixedPoint` (action property): when the peer reports back, as
  its configuration, the one this side built, `setCodecConfig` succeeds,
  leaves `codec_config_` unchanged and builds a configuration
  `A2DP_VendorCodecEqualsLhdc` finds equal. Otherwise the stack would
  reconfigure the stream on every report. The second call starts from the
  capabilities the first left behind.
* `WireLayout` (violation run): each buffer reaches the peer as one header
  byte followed by its whole payload, with the timestamp the encoder stored.

Each property of a passing run has a mutant in `PROJECT.json` (a plausible
bug in the operator it depends on) that TLC finds violating it.

### Findings, at the code's real numbers

* `p_btBufs[16]` overflow (line 653): at 96 kHz/24-bit stereo the codec frame
  is ~660 bytes and the payload MTU ~671, so a tick owing 17 frames overflows
  the array; the pacer owes that after a tick ~85 ms late.
* uint32 product overflow (line 563): with `bytes_per_tick = 11520` the
  product wraps once a tick is more than ~373 ms late; the budget is lost.
* The timestamp after an underflow (line 700) and the ignored enqueue result
  (lines 675, 696) differ from what spec §4.4 says.
* `encoder_init` accepts a peer MTU of 0 (line 304; only
  `updateEncoderUserConfig` refuses it).
* Media payload header (`a2dp_vendor_lhdc.cc` lines 456-460): the encoder
  reserves one header byte (`A2DP_LHDC_OFFSET`, `max_mtu_len = MTU - 1`)
  and copies the payload right after it; `A2DP_VendorBuildCodecHeaderLhdc`
  moves the offset back by one byte and writes two, `frames_per_packet`
  low and high. The stack passes `layer_specific` (`buf_seq << 8 |`
  header bits), so every packet's first payload byte is replaced by its
  sequence number. The encoder's one-byte header says what it expects.
* Header frame count (line 689, and 671 for a single packet): the count
  is OR-ed in unmasked, so 16 frames or more set the L flag and leave the
  count field wrong. At 96 kHz/24-bit a pacing frame is 3072 PCM bytes and
  a tick earns 11520, so this takes a tick about 85 ms late
  (`header_frame_count`). At 128 frames the count also reaches the
  sequence byte.
* Latency byte (line 428, observation): with the vendor command magic,
  `latency_mode_index` is the unchecked low byte of `codec_specific_2`, and
  it is OR-ed into every header. Setting `MC_Latencies` to `{1, 192}`
  makes `encoder_core` fail `HeaderFlagsWellFormed` at once (header 0xC2).
* `a2dp_vendor_lhdc.cc` line 959: with no user bit depth,
  `select_audio_bits_per_sample` and both `select_best_bits_per_sample`
  fallbacks get `a2dp_lhdc_caps.bits_per_sample` instead of the common
  depths. A sink offering only 24 bits, with audio config 16, is sent a
  16-bit configuration (`codecinfo_bits_ignore_sink`).
* `part_000` line 596 (observation, no run of its own; the fragmenting
  variant has the same `nof = result` at line 571, and `pacer_overflow`
  shows the same loss of budget on a late tick): `nof = result` truncates to 8 bits after the counter
  was charged for `result` frames; at 96 kHz/24-bit stereo (768 bytes per
  pacing frame, 11520 per tick) a tick 341 to 373 ms late loses 256 frames
  of budget (beyond 373 ms the uint32 product wraps first).
  `LhdcEncoderV1` with `TICK_US = 1`, 2 bytes per tick, 1-byte frames,
  `U32 = 65536` and gaps {1, 128} shows `PcmConservation` violated this way.
* `part_000` line 691 (observation): each buffer of a tick gets its own
  running timestamp (`TimestampCountsCodecFrames` holds), whereas spec §4.4
  step 5 writes one timestamp per tick. A per-buffer RTP timestamp is the
  usual A2DP convention, so this is not counted as a bug.

## Bounds and why they suffice

`MC_LhdcEncoder.cfg`: interval 2, 3 bytes per tick, 2 bytes per pacing frame
and per read block, MTU cap 3 and peer MTUs {0, 2, 4} (payload MTU 1 or 2),
codec outputs {-1, 0, 3}, 3 ticks, 2 resets, latency index MID (1) and
header shift 1. The 3-byte output already ends inside a buffer and carries
it into the next frame, so the 1-byte output of the other configurations
adds states and no behaviour. One latency index keeps the run near a minute
(two took 20 minutes); which bytes the latency can take is a question
about `encoder_update`'s input, recorded as an observation above. With these a tick owes 0..4
frames, codec output fits, fills or overflows a buffer, and a tick yields
0, 1, 2 or more packets; buffers carry over between frames; the counter's
remainder carries between ticks; a reset happens before, between and after
ticks. `U32` is 64 (the uint32 counter width scaled), which the passing run
never reaches; the violation runs use late gaps to reach it or the 16-slot
array.

`MC_LhdcSession.cfg`: real constants (MTU cap 4080, peer MTUs 0, 672,
5000), two feeding parameter sets (96 kHz/24 and 44.1 kHz/16 stereo), three
codec-specific values (no magic, magic with quality 0 and ABR), at most 2
handles: enough for init, re-init, update and cleanup to each hold, replace
and free a handle. `MC_LhdcEncoderV1.cfg`: the scaling of `MC_LhdcEncoder`
with codec answers error / buffered / 2 bytes for one frame and a sink that
may refuse, so a buffer spans several reads, a tick yields several buffers
and every early return occurs.

`MC_LhdcCodecInfo.cfg`: octet 6 values with no rate, one rate and several
rates, each with no depth, 16, 24 or both. Three malformed headers: wrong
LOSC, media type and vendor id. User rates none, 48 kHz and 192 kHz, user
depths none, 16 and 32, every channel mode, and audio configurations with
no rate or 44.1 kHz and no depth or 16. So every branch of the three user
`switch`es and of each fallback chain is taken. The reachable `goto fail`s
are taken: parse errors and no common rate. The others cannot be reached.
The bit-depth fallback always finds a depth in the source's capabilities.
The parsed channel mode is always stereo. The result always has a rate bit,
so its `A2DP_BuildInfoLhdc` cannot refuse it. Two calls (`MaxCalls`) are enough for the capabilities carried over
from one call to the next, and for a configuration to be echoed back after
the call that built it. Two different successful calls followed by an
echo take three calls; the run then exceeds five minutes, so that case
is not checked. The stack calls `setCodecConfig` a finite number
of times per connection, so the run does not check deadlock at the bound.

## Fairness

No specification states fairness, and no liveness property is checked.
Every entry point runs to completion without waiting: no loop waits on
another actor, and there is no lock or retry. So what remains to say about
progress is that the next tick comes, and that the PCM source eventually
delivers. The first is the stack's media alarm and the second is the audio
HAL, both outside this repository. Under those assumptions the code's part
of progress already holds step by step: a tick's codec bytes are all
enqueued in the same tick (`StreamRefinement`), and an underflow's budget
goes back to the counter (`PcmConservation`). The tick bound `MaxTicks`
also makes any eventuality about later ticks false at the bound.

## Not modelled (yet) and why

* `a2dp_lhdc_read_feeding`'s statistics counters and `debug_codec_dump`:
  only logged.
* The codec library itself: a black box returning a length.
* `part_000`'s loader and `encoder_update` differ from the fragmenting
  variant's only in the codec parameters passed; their handle life cycle is
  the one `LhdcSession` checks.
* Concurrency between `updateEncoderUserConfig` on the caller's thread and
  the media task: the spec makes the caller serialise them.
* The rest of `a2dp_vendor_lhdc.cc`: `A2DP_CodecInfoMatchesCapabilityLhdc`
  (static and never called), `A2DP_VendorCodecTypeEqualsLhdc` and
  `A2DP_VendorAdjustCodecLhdc` (parse checks, called by the stack),
  `A2DP_VendorInitCodecConfigLhdc` (builds `a2dp_lhdc_caps`) and the
  codec-config constructor's local capability. They are pure or they copy
  constants.
* `A2DP_VendorGetTrackBitsPerSampleLhdc` switches on
  `a2dp_lhdc_caps.bits_per_sample` (16|24) rather than the parsed
  configuration, so it returns -1 for every configuration. Its callers are
  in the stack, so nothing in this repository observes the value; it is a
  hazard without a property.
* `bytes_per_tick` after `encoder_update` (line 357): only
  `feeding_reset` recomputes it, and `encoder_update` reports
  `restart_input = false`, so an update to new feeding parameters keeps
  the old rate until the stack resets the feeding. An earlier run showed
  this in `LhdcSession`; whether it bites depends on the stack restarting
  the stream on a codec change (AOSP usually does), so it is kept as an
  observation and a hazard, not a run.
* The SCMS-T build (`BTA_AV_CO_CP_SCMS_T`): one more byte of offset and one
  less of payload. The content-protection byte is written by the stack,
  outside this repository, so only the default build is modelled.
* A peer MTU of 1, or 0 at init: the code's copy loop then never terminates
  or underflows `max_mtu_len`; listed as a hazard.

## Plan

1. `LhdcEncoder` (done): pacer, read, assembler, reset/flush, MTU update.
2. `LhdcEncoderV1` (done).
3. `PacketStream` (done): `LhdcEncoder` refines it (`StreamRefinement`).
4. Liveness: not stated, see Fairness.
5. `LhdcSession` (done): loader, `encoder_update`, handle ownership.
6. `LhdcCodecInfo` (done): build/parse round trip and `setCodecConfig`.
7. `LhdcDataPath` (done): the encoder composed with the header builder
   and timestamp reader.
8. `LhdcEncoder`: make the codec-error path of the fragmenting variant a
   property (spec: a codec failure ends the tick; the code carries on).
