--------------------------- MODULE MC_LhdcDataPath ----------------------------
(***************************************************************************)
(* Model-checking instance of LhdcDataPath, with the scaled encoder of     *)
(* MC_LhdcEncoder.  Four bytes of headroom are the least that keeps the    *)
(* timestamp clear of the header and payload; the stack's headroom is      *)
(* larger, and any larger value gives the same bytes on the wire.          *)
(***************************************************************************)
EXTENDS LhdcDataPath, MC_LhdcEncoder
=============================================================================
