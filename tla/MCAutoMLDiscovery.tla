------------------------- MODULE MCAutoMLDiscovery -------------------------
(* A small instance of AutoMLDiscovery for TLC.                            *)
EXTENDS AutoMLDiscovery
=============================================================================
