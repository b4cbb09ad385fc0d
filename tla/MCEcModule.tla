------------------------------ MODULE MCEcModule ------------------------------
(* Two cells, refreshed one or two at a time (a chunk of 0 counts as 1, one of 3
   as 2), so that a tick may wrap round; two threads, each of which writes the
   whole memory or its last cell, in calls that would run over the end. *)
EXTENDS EcModule

MCByte == {0, 1}
MCUser == {"service", "tool"}
MCShapes == {<<0, 3>>, <<1, 2>>}
MCChunk == {0, 3}
================================================================================
