----------------------------- MODULE MCSessions -----------------------------
EXTENDS Sessions, TLC

CONSTANTS r1, r2, i1, i2, v1, v2, u1, u2, z1, z2

MCRequests == {r1, r2}
MCIds == {i1, i2}
MCVerifiers == {v1, v2}
MCUsers == {u1, u2}
MCZones == {z1, z2}
Symmetric ==
  Permutations(MCRequests) \cup Permutations(MCIds)
    \cup Permutations(MCVerifiers) \cup Permutations(MCZones)
=============================================================================
