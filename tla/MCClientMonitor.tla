---------------------------- MODULE MCClientMonitor ----------------------------
(* Small instances of ClientMonitor for TLC.                                *)
EXTENDS ClientMonitor

CONSTANTS a, b

OneField  == {a}
TwoFields == {a, b}
==============================================================================
