--------------------------- MODULE MCTargetMonitor ---------------------------
(* Small instances of TargetMonitor.                                       *)
EXTENDS TargetMonitor

CONSTANTS t1, t2,      \* targets
          p1, p2, p3   \* ping threads

TwoTargets == {t1, t2}
ThreeProbes == {p1, p2, p3}
=============================================================================
