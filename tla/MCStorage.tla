----------------------------- MODULE MCStorage -----------------------------
(***************************************************************************)
(* Storage on small instances, for TLC.                                    *)
(***************************************************************************)
EXTENDS Storage, TLC

CONSTANTS a, b, scrap, r1, r2, junk

MCNames == {a, b}
MCOneName == {a}
MCScraps == {scrap}
MCNoScraps == {}
MCValues == {r1, r2}
MCOneValue == {r1}

\* Nothing tells the two names apart.
MCSymmetry == Permutations(MCNames)
=============================================================================
