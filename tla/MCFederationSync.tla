---------------------- MODULE MCFederationSync ----------------------
EXTENDS FederationSync

CONSTANTS p1, p2, u1, u2

MCNoPrefix == << >>
=============================================================================
