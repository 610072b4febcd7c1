--------------------------- MODULE MCUsbKeyboard ---------------------------
(***************************************************************************)
(* Instances of UsbKeyboard; the configurations give every constant.       *)
(***************************************************************************)
EXTENDS UsbKeyboard
=============================================================================
