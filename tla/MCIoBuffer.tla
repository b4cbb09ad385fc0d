----------------------------- MODULE MCIoBuffer -----------------------------
(* A four-byte EC.  Callers write a two-byte block (a raw write of the EC
   editor), two single registers (parameters) and, in vain, a block that runs
   over the end of the memory. *)
EXTENDS IoBufferProofs

MCByte == {0, 1}
MCShapes == {<<0, 2>>, <<2, 1>>, <<3, 1>>, <<3, 2>>}
=============================================================================
