---------------------------- MODULE MCRegisters ----------------------------
(* Two fields in one register: a switch of one bit and a mode of two bits,
   two of whose patterns are the code of no value. *)
EXTENDS RegistersProofs

MCBit == {0, 1, 2}
MCByte == SUBSET MCBit
MCParam == {"boost", "light"}
MCOrder == <<"boost", "light">>
MCRegOf == [p \in MCParam |-> 0]
MCMask == [boost |-> {0}, light |-> {1, 2}]
MCCode == [p \in MCParam |-> [off |-> {}, on |-> MCMask[p]]]
=============================================================================
