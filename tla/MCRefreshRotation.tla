---- MODULE MCRefreshRotation ----
EXTENDS RefreshRotation
CONSTANTS c1, c2, t0, t1, t2, none
====
