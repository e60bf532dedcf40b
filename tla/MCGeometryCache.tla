--------------------------- MODULE MCGeometryCache ---------------------------
(* Small instances of GeometryCache.                                       *)
EXTENDS GeometryCache

CONSTANTS t1, t2   \* targets

TwoTargets == {t1, t2}
OneCam == {0}
=============================================================================
