---------------------------- MODULE MCProtoCodec ----------------------------
(* ProtoCodec for TLC, over the values and byte strings of                *)
(* ProtoCodecSamples.                                                      *)
EXTENDS ProtoCodec, ProtoCodecSamples
=============================================================================
