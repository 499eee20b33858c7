---------------------------- MODULE AtomicSwitch ----------------------------
(***************************************************************************)
(* What activating a fetched snapshot promises: the reader is shown the    *)
(* snapshot main names, whole, or is told to come back; and main only ever *)
(* moves forward while nothing is shown.                                   *)
(* SnapshotActivation.tla is shown to implement this module.               *)
(***************************************************************************)
EXTENDS Naturals

CONSTANTS
    First,      \* snapshot installed to begin with
    Busy        \* shown while a switch is in progress: HTTP 503

VARIABLES
    shown,      \* snapshot a request is answered from, or Busy
    main        \* snapshot refs/heads/main names

vars == <<shown, main>>

Init == main = First /\ shown = First

Hide == shown # Busy /\ shown' = Busy /\ UNCHANGED main

Advance == shown = Busy /\ main' > main /\ UNCHANGED shown

Show == shown = Busy /\ shown' = main /\ UNCHANGED main

Next == Hide \/ Advance \/ Show

Spec == Init /\ [][Next]_vars
=============================================================================
