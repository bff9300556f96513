----------------------------- MODULE MCSafeMode -----------------------------
(***************************************************************************)
(* SafeMode on small instances: an archive of two files, the same archive  *)
(* cut short, one with a broken header and one broken in the middle.       *)
(***************************************************************************)
EXTENDS SafeMode, TLC

CONSTANTS c1, c2, c3, mine, seed, f1, f2

OwnStore     == {mine, f1}
FactoryStore == {seed}
AllFiles     == {mine, seed, f1, f2}
NoRead       == {f1}

Archive  == <<"magic", f1, f2, "end">>
CutShort == <<"magic", f1>>
NotGzip  == <<"junk", f2>>
Broken   == <<"magic", f2, "junk", "end">>

AllBodies == {Archive, CutShort, NotGzip, Broken}

Symmetry == Permutations(Clients)
=============================================================================
