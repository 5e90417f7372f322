--------------------------- MODULE MCSignSession ---------------------------
(* Small instance of SignSession for TLC. *)
EXTENDS SignSession, TLC

CONSTANTS t1, t2, k1, d1, d2

MCSignHandles == {t1, t2}
MCShares == {k1}

(* Two digests, so that a pre-signature used twice shows; a hash of the *)
(* right length and one byte short.                                      *)
MCDigests == {d1, d2}
MCHashLens == {31, 32}
MCSeedLens == {0, 32}

MCSymmetry == Permutations(MCSignHandles) \cup Permutations(MCDigests)

=============================================================================
