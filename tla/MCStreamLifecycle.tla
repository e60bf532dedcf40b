------------------------- MODULE MCStreamLifecycle -------------------------
(* Small instances of StreamLifecycle: camera indices as StreamPool counts *)
(* them.                                                                   *)
EXTENDS StreamLifecycle

OneCamera == {0}
TwoCameras == {0, 1}
=============================================================================
