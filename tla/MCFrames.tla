------------------------------ MODULE MCFrames ------------------------------
(***************************************************************************)
(* Payloads for an attach stream.  The bytes of some are those of headers: *)
(* a reader that loses its place finds frames in them.                     *)
(***************************************************************************)
EXTENDS AttachClient

ModelPayloads == {<<2>>, <<2, 0>>, <<3, 1, 0>>}
ModelOutputs == {<<2, 0>>}
=============================================================================
