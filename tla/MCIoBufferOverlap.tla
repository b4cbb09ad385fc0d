------------------------- MODULE MCIoBufferOverlap -------------------------
(* A two-byte EC whose callers' writes overlap: a block (a raw write of the EC
   editor) and its first byte (a parameter). *)
EXTENDS IoBuffer

MCByte == {0, 1}
MCOverlapping == {<<0, 2>>, <<0, 1>>}
=============================================================================
