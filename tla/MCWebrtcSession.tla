--------------------------- MODULE MCWebrtcSession ---------------------------
(* Small instances of WebrtcSession for TLC. *)
EXTENDS WebrtcSession
CONSTANTS a, b

\* Bound: t opens a socket only when its first generation is referred to no more.
OneAtATime(t) == tab'[t].gen \in {0, 1}

\* Of the other tab nothing is assumed but that its handshakes end: it may stop
\* hearing its socket, and rebuilding its link, at any time.
FairToA == Init /\ [][Next /\ OneAtATime(b)]_vars /\ SharedFairness /\ TabFairness(a)

RepairedA == RepairedOf(a)
=============================================================================
