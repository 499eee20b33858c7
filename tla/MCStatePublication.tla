------------------------ MODULE MCStatePublication ------------------------
(***************************************************************************)
(* StatePublication for TLC.  One entry is enough for most questions: the  *)
(* entries meet only in the state tree and the marker set, which one entry *)
(* written twice already makes differ at every step.  The other bounds are *)
(* in the .cfg files, with what they are for.                              *)
(***************************************************************************)
EXTENDS StatePublication

AllMoves == {"content", "invalid", "stray", "state", "rewrite"}

\* Faults that are over when they have happened, and the one that is not.
FaultsAtOnce == {"mark", "fetch", "activate", "push", "crash", "invalid state", "contract"}
AllFaults == FaultsAtOnce \cup {"delay", "rename"}
=============================================================================
