---------------------------- MODULE MCMonitorFIFO ----------------------------
(* Small instances of MonitorFIFO for TLC.                                  *)
EXTENDS MonitorFIFO

CONSTANTS a, b, hidden

AllFields   == {a, b, hidden}
TwoSelected == {a, b}
OneField    == {a}
NoOverrun   == {{}}
SomeOverrun == {{}, {a}}
============================================================================
