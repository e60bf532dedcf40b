---------------------------- MODULE MCConfigStores ----------------------------
(* Small instances of ConfigStores.                                        *)
EXTENDS ConfigStores

CONSTANTS t1, t2, root, user, cams, key

TwoTargets == {t1, t2}
TwoUsers == {root, user}
OneCamList == {cams}
OneKey == {key}
=============================================================================
