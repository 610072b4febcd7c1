--------------------------- MODULE MCAudioConfig ---------------------------
(***************************************************************************)
(* AudioConfig with the ROMs of audio_interface.vhd.                       *)
(***************************************************************************)
EXTENDS AudioConfig

SCI_REG_ROM == <<18, 1, 5, 8, 10, 12, 14, 16, 18>>
SCI_DAT_ROM == <<0, 31, 245, 208, 5, 96, 67, 0, 1>>
=============================================================================
