------------------------- MODULE MCControlSession -------------------------
(* TLC instances of ControlSession.                                        *)
EXTENDS ControlSession, TLC

CONSTANTS f1, f2, f3

TwoFds == {f1, f2}
ThreeFds == {f1, f2, f3}

(* Descriptor numbers are only compared: any permutation of them maps      *)
(* behaviours to behaviours.                                               *)
FdSymmetry == Permutations(Fds)
=============================================================================
