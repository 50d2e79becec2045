----------------------------- MODULE MCEtcdLock -----------------------------
(* Instances of EtcdLock for TLC.                                          *)
EXTENDS EtcdLock

CONSTANTS p1, p2, p3

ThreeProcs == {p1, p2, p3}
OnePatient == {p3}
=============================================================================
