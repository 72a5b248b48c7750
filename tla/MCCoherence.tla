---------------------------- MODULE MCCoherence ----------------------------
(* Small instances of Coherence for TLC.                                    *)
EXTENDS Coherence, TLC

CONSTANTS c1, c2, c3, v1

TwoCaches == {c1, c2}
ThreeCaches == {c1, c2, c3}
OneValue == {v1}

(* Caches are interchangeable; getSharersList's order is a free choice.     *)
Symmetry == Permutations(Cache)
=============================================================================
