-------------------------- MODULE MCKeygenSession --------------------------
(* Small instance of KeygenSession for TLC. *)
EXTENDS KeygenSession, TLC

CONSTANTS h1, h2, k1, k2

MCHandles == {h1, h2}
MCShares == {k1, k2}

(* Two and three parties; commitment buffers that fit two parties, three *)
(* parties, none, and one of a length that is no multiple of 32.         *)
MCParticipants == {2, 3}
MCCommitLens == {0, 33, 64, 96}
MCPkLens == {32, 33}

(* The seed lengths the wrapper accepts, and one it does not. *)
MCSeedLensValid == {0, 32}
MCSeedLensAll == {0, 16, 32}

MCSymmetry == Permutations(MCHandles) \cup Permutations(MCShares)

=============================================================================
