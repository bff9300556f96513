---------------------------- MODULE MCSctpOutbound ----------------------------
(* Small instances of SctpOutbound for TLC. *)
EXTENDS SctpOutbound, TLC

CONSTANTS s1, s2
=============================================================================
