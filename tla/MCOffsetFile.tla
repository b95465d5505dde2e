---------------------------- MODULE MCOffsetFile ----------------------------
(* A scaled-down .mylite file: the preamble and the gap are 2 bytes, the   *)
(* lock byte is at 8, so pages of 2 bytes fit the split at 6 and a page of *)
(* 4 bytes straddles it, as pages above 4096 bytes do in the real file.       *)
EXTENDS OffsetFile

MCPageSizes == {2, 4}
=============================================================================
