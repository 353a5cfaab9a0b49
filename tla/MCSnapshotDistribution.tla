---------------------- MODULE MCSnapshotDistribution ----------------------
EXTENDS SnapshotDistribution, TLC

CONSTANTS p1, p2, g1, g2, g3

MCGlobalPrefix == (g2 :> 0)
MCNoPrefix  == << >>
MCRegionPrefix == (g3 :> 1)

Symmetry == Permutations({p1, p2})
=============================================================================
