----------------------- MODULE MCSnapshotActivation -----------------------
(***************************************************************************)
(* SnapshotActivation for TLC: three commits, the second without a guide   *)
(* and with the first one's configuration, the third invalid in one set-up.*)
(***************************************************************************)
EXTENDS SnapshotActivation

Three == 1..3
TwoValid == {1, 2}

ThreeTrees ==
    << [content |-> 11, config |-> 21, guide |-> 31],
       [content |-> 12, config |-> 21, guide |-> None],
       [content |-> 13, config |-> 23, guide |-> 33] >>

\* Failures that activation rolls back, and the one that stops the process.
RolledBackFaults == {"moveIn", "sync", "ref", "crash"}
AllFaults == RolledBackFaults \cup {"moveOut", "cleanup"}
=============================================================================
