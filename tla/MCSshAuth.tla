----------------------------- MODULE MCSshAuth -----------------------------
(* Small instances of SshAuth.                                             *)
EXTENDS SshAuth

CONSTANTS t1, i1

OneTarget == {t1}
TwoUsers == {"root", "dev"}
RootKeyed == {<<t1, "root">>}
NoneSilent == {}
OneInstall == {i1}
NoOthers == {}
=============================================================================
