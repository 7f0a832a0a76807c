------------------------------ MODULE MCK8smgr ------------------------------
(* Instances of K8smgr for TLC: the manager and one more application.       *)
EXTENDS K8smgr

CONSTANTS K8SMGR, PROC_A

MCProcs == {K8SMGR, PROC_A}
=============================================================================
