------------------------- MODULE MCRegistersShared -------------------------
(* Register 0xbf of 13 of the 21 built-in profiles (supported-devices.json):
   UsbPowerShareEc is the whole byte, with the codes 0x08 and 0x28, and
   FnSuperSwapEc is its bit 0x10, with the codes 0x00 and 0x10.  The bits are
   0x08, 0x10 and 0x20; Right and Left are off and on. *)
EXTENDS Registers

MCBit == {3, 4, 5}
MCByte == SUBSET MCBit
MCParam == {"UsbPowerShareEc", "FnSuperSwapEc"}
MCOrder == <<"UsbPowerShareEc", "FnSuperSwapEc">>
MCRegOf == [p \in MCParam |-> 191]
MCMask == [UsbPowerShareEc |-> {3, 4, 5}, FnSuperSwapEc |-> {4}]
MCCode == [UsbPowerShareEc |-> [off |-> {3}, on |-> {3, 5}],
           FnSuperSwapEc |-> [off |-> {}, on |-> {4}]]
=============================================================================
