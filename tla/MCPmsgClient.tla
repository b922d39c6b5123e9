---------------------------- MODULE MCPmsgClient ----------------------------
(* PmsgClient on two servers and two descriptors: enough for a descriptor   *)
(* to be closed by one handle and given to the other, or to a file, while   *)
(* the UI is about to write to it.                                          *)
EXTENDS PmsgClient, TLC

CONSTANTS nvr1, nvr2

MCConns == {nvr1, nvr2}
MCFdsLive == 1..2
Symm == Permutations(MCConns)
=============================================================================
