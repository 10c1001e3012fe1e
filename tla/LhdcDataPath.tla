----------------------------- MODULE LhdcDataPath -----------------------------
(***************************************************************************)
(* The fragmenting encoder composed with the two codec-specific calls the  *)
(* stack's A2DP data path makes on every buffer the encoder enqueued       *)
(* (src/stack/a2dp/a2dp_vendor_lhdc.cc): A2DP_VendorGetPacketTimestampLhdc *)
(* reads the timestamp the encoder stored at the start of the buffer's     *)
(* data, and A2DP_VendorBuildCodecHeaderLhdc prepends the media payload    *)
(* header, with frames_per_packet = the buffer's layer_specific.  The      *)
(* stack itself is outside this repository: it takes the buffers in the   *)
(* order they were enqueued and sends data[offset .. offset + len - 1].    *)
(*                                                                         *)
(* A buffer's data area is a function from byte offset to cell: a codec    *)
(* byte (its stream position, as in LhdcEncoder) or a byte value written   *)
(* by the glue.  Only the build without SCMS-T content protection is       *)
(* modelled, the one LhdcEncoder's payload size belongs to.                *)
(***************************************************************************)
EXTENDS LhdcEncoder

CONSTANT AVDT_MEDIA_OFFSET   \* headroom the stack's lower layers need (not in the repository)

ASSUME AVDT_MEDIA_OFFSET \in Nat

\* p_buf->offset of a new buffer, without BTA_AV_CO_CP_SCMS_T.
A2DP_LHDC_OFFSET == AVDT_MEDIA_OFFSET + A2DP_LHDC_MPL_HDR_LEN

VARIABLE wire   \* per buffer taken by the data path: timestamp read, bytes sent

dpVars == <<vars, wire>>

\* The two kinds of cell in a buffer's data area.
Codec(b) == [kind |-> "codec", v |-> b]
Byte(x)  == [kind |-> "byte", v |-> x]

\* The buffer as a2dp_lhdc_encode_frames hands it over: bt_buf_new set
\* offset and len, the copy loop put the payload at data[offset ..], and
\* *(uint32_t*)(p_buf + 1) = timestamp wrote its four bytes (little
\* endian) at data[0 .. 3] last, over anything there.
EncodedBuffer(p) ==
  [offset |-> A2DP_LHDC_OFFSET,
   len    |-> Len(p.payload),
   ls     |-> p.seq * 256 + p.hdr,
   data   |-> [k \in 0 .. 3 |-> Byte((p.ts \div 256^k) % 256)]
              @@ [k \in A2DP_LHDC_OFFSET .. A2DP_LHDC_OFFSET + Len(p.payload) - 1 |->
                    Codec(p.payload[k - A2DP_LHDC_OFFSET + 1])]]

\* A2DP_VendorGetPacketTimestampLhdc: *p_timestamp = *(const uint32_t*)p_data.
GetPacketTimestamp(buf) ==
  buf.data[0].v + 256 * buf.data[1].v + 65536 * buf.data[2].v + 16777216 * buf.data[3].v

\* A2DP_VendorBuildCodecHeaderLhdc: offset -= A2DP_LHDC_MPL_HDR_LEN,
\* len += A2DP_LHDC_MPL_HDR_LEN, then p[0] and p[1] at the new offset get
\* the low and the high byte of frames_per_packet.
BuildCodecHeader(buf, frames_per_packet) ==
  LET off == buf.offset - A2DP_LHDC_MPL_HDR_LEN
  IN  [buf EXCEPT !.offset = off,
                  !.len    = @ + A2DP_LHDC_MPL_HDR_LEN,
                  !.data   = (off :> Byte(frames_per_packet % 256))
                             @@ ((off + 1) :> Byte((frames_per_packet \div 256) % 256))
                             @@ @]

\* The bytes the lower layers send: data[offset .. offset + len - 1].
WireBytes(buf) == [k \in 1 .. buf.len |-> buf.data[buf.offset + k - 1]]

\* The data path on the oldest buffer not yet taken: read the timestamp,
\* build the codec header from layer_specific, send the data.
SendToPeer ==
  /\ Len(wire) < Len(sent)
  /\ LET buf == EncodedBuffer(sent[Len(wire) + 1])
     IN  wire' = Append(wire, [ts    |-> GetPacketTimestamp(buf),
                               bytes |-> WireBytes(BuildCodecHeader(buf, buf.ls))])
  /\ UNCHANGED vars

DpInit == Init /\ wire = <<>>

DpNext == (Next /\ UNCHANGED wire) \/ SendToPeer

DpSpec == DpInit /\ [][DpNext]_dpVars

-----------------------------------------------------------------------------
(* Properties *)

\* Spec 6 (packet wire layout), for A2DP_VendorBuildCodecHeaderLhdc and
\* the buffer layout of a2dp_lhdc_encode_frames: each buffer reaches the
\* peer as one metadata byte, the header byte of its layer_specific,
\* followed by its whole payload, and the data path reads back the
\* timestamp the encoder stored.
WireLayout ==
  \A i \in DOMAIN wire :
    /\ wire[i].ts = sent[i].ts
    /\ wire[i].bytes = <<Byte(sent[i].hdr)>>
                       \o [j \in DOMAIN sent[i].payload |-> Codec(sent[i].payload[j])]

=============================================================================
