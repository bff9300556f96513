---------------------------- MODULE MCSctpInbound ----------------------------
(***************************************************************************)
(* SctpInbound on small instances.  Two streams compete for the channel    *)
(* slots, the reorder pool is smaller than the number of chunks that can   *)
(* be in flight, and a message may be one fragment longer than fits.       *)
(***************************************************************************)
EXTENDS SctpInbound

CONSTANTS s1, s2

TwoStreams == {s1, s2}
=============================================================================
