--------------------------- MODULE MCWebrtcRouter ---------------------------
(* Instances of WebrtcRouter for TLC. *)
EXTENDS WebrtcRouter

=============================================================================
