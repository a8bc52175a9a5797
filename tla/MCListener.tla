----------------------------- MODULE MCListener -----------------------------
EXTENDS Listener
CONSTANTS c1, c2
=============================================================================
