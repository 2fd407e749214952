----------------------------- MODULE MCFairQueue -----------------------------
(* Small instances of FairQueue for TLC.                                    *)
EXTENDS FairQueue
============================================================================
