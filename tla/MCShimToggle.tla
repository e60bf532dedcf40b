---------------------------- MODULE MCShimToggle ----------------------------
(* Small instances of ShimToggle.                                          *)
EXTENDS ShimToggle

CONSTANTS t1, t2   \* targets

OneTarget == {t1}
TwoTargets == {t1, t2}
OneLegacy == {t2}
NoLegacy == {}
OneSlot == {1}
TwoSlots == {1, 2}
=============================================================================
