---------------------------- MODULE MC_OutboundSync ----------------------------
(* Small instances of OutboundSync.tla. *)
EXTENDS OutboundSync, TLC

CONSTANTS x, y
================================================================================
