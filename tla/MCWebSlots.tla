----------------------------- MODULE MCWebSlots -----------------------------
(* Small instances of WebSlots for TLC. *)
EXTENDS WebSlots, TLC

CONSTANTS c1, c2, c3

Symmetry == Permutations(Conns)

\* What still matters of a state: no step reads the bytes, the requests or the
\* responses of a connection that was closed or given away, nor changes them but
\* for the rest of a forwarded body, so what the invariants say of them was
\* checked while the connection was open.  Only the number of its requests counts.
Kept(c) ==
    IF net[c] \in {"closed", "forwarded"} THEN Len(asked[c])
    ELSE <<ring[c], asked[c], owed[c], out[c]>>
Entered(c) == IF c \in gone THEN ref[c] ELSE 0
View == <<net, gone, slots, age, inbox, worker, ghosts,
          [c \in Conns |-> <<Kept(c), Entered(c)>>]>>
=============================================================================
