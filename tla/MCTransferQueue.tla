--------------------------- MODULE MCTransferQueue ---------------------------
(* A small instance of TransferQueue for TLC. *)
EXTENDS TransferQueue

CONSTANTS up1, down1, name

MCTask == {up1, down1}
MCDownload == {down1}
MCName == {name}
=============================================================================
