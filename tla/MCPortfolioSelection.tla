------------------------ MODULE MCPortfolioSelection ------------------------
(* Small instances of PortfolioSelection for TLC.                          *)
EXTENDS PortfolioSelection

CONSTANTS Reruns   \* builds with a second attempt

\* One attempt of every build of a provider that serves, a second one for some;
\* of the others only yesterday's.
FewAttempts ==
    [provider : Serving, build : Builds, count : {0}]
        \cup [provider : Serving, build : Reruns, count : {1}]
        \cup [provider : Optional, build : Yesterday, count : {0}]
=============================================================================
