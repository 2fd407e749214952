---------------------------- MODULE MCServerMonitor ----------------------------
(* Small instances of ServerMonitor for TLC.                                *)
EXTENDS ServerMonitor

CONSTANTS a

OneField  == {a}
NoOverrun == {{}}
==============================================================================
