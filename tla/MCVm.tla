-------------------------------- MODULE MCVm -------------------------------
(* Two directories of two PTEs, of which a script names one page each.                          *)
EXTENDS Vm

TwoPids == {0, 1}
TwoPages == {0, 2}
MCUintMax == 15
=============================================================================
