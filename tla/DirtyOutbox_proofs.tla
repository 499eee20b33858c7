------------------------- MODULE DirtyOutbox_proofs -------------------------
(***************************************************************************)
(* What the outbox is for: it loses nothing that was acknowledged.         *)
(* StatePublication_refinement carries this over to the code's cycle.      *)
(***************************************************************************)
EXTENDS DirtyOutbox, TLAPS

VersionsOK == written \in [Entries -> Nat] /\ acked \in [Entries -> Nat]

Inv == VersionsOK /\ NothingLost

LEMMA OutboxStep == Inv /\ [Next]_vars => Inv'
  <1> SUFFICES ASSUME Inv, [Next]_vars
               PROVE  Inv'
    OBVIOUS
  <1>1. ASSUME UNCHANGED acked, UNCHANGED written, published \subseteq published',
               \A m \in dirty \ dirty' : Covered(m)
        PROVE  Inv'
    BY <1>1 DEF Inv, VersionsOK, NothingLost, Covered
  <1>2. ASSUME NEW e \in Entries, Write(e)
        PROVE  Inv'
    BY <1>2 DEF Write, Inv, VersionsOK, NothingLost, Covered
  <1>3. ASSUME NEW e \in Entries, Acknowledge(e)
        PROVE  Inv'
    <2>1. /\ VersionsOK' /\ acked'[e] = written[e]
          /\ \A f \in Entries \ {e} : acked'[f] = acked[f]
      BY <1>3 DEF Acknowledge, Inv, VersionsOK
    <2> QED
      BY <1>3, <2>1 DEF Acknowledge, Inv, NothingLost, Covered
  <1>4. ASSUME NEW t \in published', Publish(t)
        PROVE  Inv'
    BY <1>1, <1>4 DEF Publish
  <1>5. CASE Settle
    BY <1>1, <1>5 DEF Settle
  <1>6. CASE UNCHANGED vars
    BY <1>1, <1>6 DEF vars
  <1> QED
    BY <1>2, <1>3, <1>4, <1>5, <1>6 DEF Next

\* An acknowledged version stays marked until it, or a later one, has been
\* published: the promise that publish_state and recover_pending_push keep.
THEOREM OutboxKeeps == Spec => []NothingLost
  <1>1. Init => Inv
    BY DEF Init, Inv, VersionsOK, NothingLost, Covered
  <1>2. Inv => NothingLost
    BY DEF Inv
  <1> QED
    BY <1>1, <1>2, OutboxStep, PTL DEF Spec
=============================================================================
