--------------------- MODULE StatePublication_refinement ---------------------
(***************************************************************************)
(* Proof that StatePublication implements DirtyOutbox: whatever the task,  *)
(* the remote and the faults do, the reader's files, the acknowledgements, *)
(* the markers and the trees the remote branch has had move as the outbox  *)
(* says they may, for every set of entries and every bound.                *)
(***************************************************************************)
EXTENDS StatePublication_proofs

\* The trees the remote branch has had, as the outbox sees them.
BranchTrees == {Tree(c).v : c \in onMain}

\* No commit holds a version of an entry that the reader has not written yet.
TreesWritten ==
    \A c \in CommitNames : \A e \in Entries : Tree(c).v[e] <= state[e]

RInv == IInv /\ TreesWritten

-----------------------------------------------------------------------------
(* Every commit holds versions that were written *)

\* A commit added by a step does not change what was true of the others.
LEMMA AppendWritten ==
    ASSUME TypeInv, Next, TreesWritten,
           NEW x \in CommitRecords, commits' = Append(commits, x),
           \A e \in Entries : x.tree.v[e] <= state[e]
    PROVE  TreesWritten'
  <1>1. /\ state \in [Entries -> Nat] /\ state' \in [Entries -> Nat]
        /\ \A e \in Entries : state[e] <= state'[e]
    BY ReaderTypeNext, StateGrows DEF TypeInv, TypeOK, ReaderTypeOK
  <1>2. /\ commits'[NewCommit] = x
        /\ CommitNames' = CommitNames \cup {NewCommit}
        /\ \A c \in CommitNames : commits'[c] = commits[c] /\ commits[c] \in CommitRecords
    BY AppendCommit DEF TypeInv, TypeOK, RemoteTypeOK, CommitNames, NewCommit
  <1>3. ASSUME NEW r \in CommitRecords, NEW e \in Entries, r.tree.v[e] <= state[e]
        PROVE  r.tree.v[e] <= state'[e]
    <2>1. r.tree.v[e] \in Nat
      BY DEF CommitRecords, Trees
    <2> QED
      BY <1>1, <1>3, <2>1
  <1>4. \A c \in CommitNames : \A e \in Entries : commits'[c].tree.v[e] <= state'[e]
    BY <1>2, <1>3 DEF TreesWritten, Tree
  <1>5. \A e \in Entries : commits'[NewCommit].tree.v[e] <= state'[e]
    BY <1>2, <1>3
  <1> QED
    BY <1>2, <1>4, <1>5 DEF TreesWritten, Tree

LEMMA TreesWrittenNext ==
    ASSUME TypeInv, TreesWritten, Next
    PROVE  TreesWritten'
  <1>1. /\ state \in [Entries -> Nat] /\ state' \in [Entries -> Nat]
        /\ \A e \in Entries : state[e] <= state'[e]
        /\ remoteTip \in CommitNames
        /\ \A c \in CommitNames : Tree(c) \in Trees
    BY ReaderTypeNext, StateGrows, CommitFields
       DEF TypeInv, TypeOK, ReaderTypeOK, RemoteTypeOK
  <1>2. CASE UNCHANGED commits
    <2>1. SUFFICES ASSUME NEW c \in CommitNames, NEW e \in Entries
                   PROVE  Tree(c).v[e] <= state'[e]
      BY <1>2 DEF TreesWritten, Tree, CommitNames
    <2>2. Tree(c).v[e] \in Nat /\ Tree(c).v[e] <= state[e]
      BY <1>1 DEF TreesWritten, Trees
    <2> QED
      BY <1>1, <2>2
  <1>3. CASE BuildCandidate
    <2> DEFINE x == CommitOn(fetched, ReaderTree, Content(fetched), commits[fetched].bad)
    <2>1. x \in CommitRecords /\ commits' = Append(commits, x)
      BY <1>3, BuildType DEF BuildCandidate
    <2>2. x.tree.v = state
      BY DEF CommitOn, ReaderTree
    <2> HIDE DEF x
    <2>3. \A e \in Entries : x.tree.v[e] <= state[e]
      BY <1>1, <2>2
    <2> QED
      BY <2>1, <2>3, AppendWritten
  <1>4. ASSUME NEW kind \in {"content", "invalid", "stray", "state"}, Produce(kind)
        PROVE  TreesWritten'
    <2>1. Produced(kind) \in CommitRecords /\ commits' = Append(commits, Produced(kind))
      BY <1>4, ProducedType DEF Produce, TypeInv
    <2>2. Produced(kind).tree.v = Tree(remoteTip).v
      BY <1>1 DEF Produced, CommitOn, Trees
    <2>3. \A e \in Entries : Produced(kind).tree.v[e] <= state[e]
      BY <1>1, <2>2 DEF TreesWritten
    <2> QED
      BY <2>1, <2>3, AppendWritten
  <1> QED
    BY <1>2, <1>3, <1>4, CommitsFrame

LEMMA RInvInit == Init => RInv
  <1> SUFFICES ASSUME Init
               PROVE  RInv
    OBVIOUS
  <1>1. \A e \in Entries : commits[1].tree.v[e] <= state[e]
    BY DEF Init
  <1>2. CommitNames = {1}
    BY DEF Init, CommitNames
  <1> QED
    BY <1>1, <1>2, InvInit DEF RInv, TreesWritten, Tree

LEMMA RInvStep == RInv /\ [Next]_vars => RInv'
  <1> SUFFICES ASSUME RInv, [Next]_vars
               PROVE  RInv'
    OBVIOUS
  <1>1. CASE Next
    BY <1>1, InvStep, TreesWrittenNext DEF RInv, IInv
  <1>2. CASE UNCHANGED vars
    BY <1>2, InvStep
       DEF vars, remoteVars, readerVars, RInv, TreesWritten, CommitNames, Tree
  <1> QED
    BY <1>1, <1>2

-----------------------------------------------------------------------------
(* Every step is one of the outbox, or none *)

\* A step that puts nothing on the branch leaves its trees alone.
LEMMA SameBranchTrees ==
    ASSUME TypeInv, GraphInv, Next, UNCHANGED onMain
    PROVE  UNCHANGED BranchTrees
  <1>1. \A c \in onMain : Tree(c)' = Tree(c)
    BY MainGrows
  <1> QED
    BY <1>1 DEF BranchTrees, Tree

\* A commit that reaches the branch brings its tree, whoever pushed it.
LEMMA ArrivalPublishes ==
    ASSUME RInv, Next, NEW c \in CommitNames', onMain' = onMain \cup {c},
           UNCHANGED <<state, acked, markers>>
    PROVE  Outbox!Next
  <1>1. \A d \in onMain : commits'[d].tree = commits[d].tree
    BY MainGrows DEF RInv, IInv, Tree
  <1>2. /\ BranchTrees' = BranchTrees \cup {commits'[c].tree.v}
        /\ commits'[c].tree.v \in BranchTrees'
    BY <1>1 DEF BranchTrees, Tree
  <1>3. \A e \in Entries : commits'[c].tree.v[e] <= state[e]
    <2>1. TreesWritten'
      BY TreesWrittenNext DEF RInv, IInv
    <2> QED
      BY <2>1 DEF TreesWritten, Tree
  <1>4. Outbox!Publish(commits'[c].tree.v)
    BY <1>2, <1>3 DEF Outbox!Publish, BranchTrees
  <1> QED
    BY <1>2, <1>4 DEF Outbox!Next, BranchTrees

\* Markers that go vouch for versions on the branch.
LEMMA ClearingSettles ==
    ASSUME RInv, Next, ClearSettled \/ ClearMarkers
    PROVE  Outbox!Next
  <1>1. UNCHANGED <<state, acked, onMain>> /\ markers' \subseteq markers
    BY DEF ClearSettled, ClearMarkers, readerVars, remoteVars
  <1>2. UNCHANGED BranchTrees
    BY <1>1, SameBranchTrees DEF RInv, IInv
  <1>3. /\ onMain \subseteq CommitNames /\ markers \subseteq Markers
        /\ \A c \in CommitNames : Tree(c) \in Trees
    BY CommitFields DEF RInv, IInv, TypeInv, TypeOK, RemoteTypeOK, ReaderTypeOK
  <1>4. ASSUME NEW m \in markers \ markers'
        PROVE  \E t \in BranchTrees : t[m.entry] >= m.version
    <2>1. ASSUME NEW c \in onMain, Holds(c, m)
          PROVE  \E t \in BranchTrees : t[m.entry] >= m.version
      <3>1. Tree(c).v[m.entry] \in Nat /\ m.version \in Nat
        BY <1>3 DEF Markers, Trees
      <3>2. Tree(c).v[m.entry] >= m.version /\ Tree(c).v \in BranchTrees
        BY <2>1, <3>1 DEF Holds, BranchTrees
      <3> QED
        BY <3>2
    <2>2. CASE ClearSettled
      <3>1. m \in snap /\ pc = "settle" /\ fetched # 0
        BY <2>2 DEF ClearSettled, RInv, IInv, TypeInv, PhaseOK, FetchedLabels
      <3> QED
        BY <2>1, <3>1 DEF RInv, IInv, MarkerInv, GraphInv
    <2>3. CASE ClearMarkers
      <3>1. m \in pending.markers /\ pc = "clear" /\ pending # None
        BY <2>3 DEF ClearMarkers, RInv, IInv, TypeInv, PhaseOK, FinalLabels
      <3> QED
        BY <2>1, <3>1 DEF RInv, IInv, MarkerInv, GraphInv, FinalLabels
    <2> QED
      BY <2>2, <2>3
  <1>5. Outbox!Settle
    BY <1>1, <1>2, <1>4 DEF Outbox!Settle, Outbox!Covered, BranchTrees
  <1> QED
    BY <1>5 DEF Outbox!Next

LEMMA StepSimulation == RInv /\ [Next]_vars => [Outbox!Next]_(Outbox!vars)
  <1> SUFFICES ASSUME RInv, [Next]_vars
               PROVE  Outbox!Next \/ UNCHANGED Outbox!vars
    OBVIOUS
  <1>1. CASE UNCHANGED vars
    BY <1>1 DEF vars, remoteVars, readerVars, Outbox!vars, Tree
  <1>2. ASSUME Next, UNCHANGED <<state, acked, markers, onMain>>
        PROVE  UNCHANGED Outbox!vars
    BY <1>2, SameBranchTrees DEF RInv, IInv, BranchTrees, Outbox!vars
  <1>3. ASSUME Next, NEW e \in Entries, WriteState(e)
        PROVE  Outbox!Next
    <2>1. UNCHANGED BranchTrees
      BY <1>3, SameBranchTrees DEF WriteState, remoteVars, RInv, IInv
    <2>2. Outbox!Write(e)
      BY <1>3, <2>1 DEF WriteState, Outbox!Write, BranchTrees
    <2> QED
      BY <2>2 DEF Outbox!Next
  <1>4. ASSUME Next, MarkDirty
        PROVE  Outbox!Next
    <2>1. UNCHANGED BranchTrees
      BY <1>4, SameBranchTrees DEF MarkDirty, remoteVars, RInv, IInv
    <2>2. writing \in Entries
      BY <1>4 DEF MarkDirty, RInv, IInv, TypeInv, TypeOK, ReaderTypeOK
    <2>3. Outbox!Acknowledge(writing)
      BY <1>4, <2>1 DEF MarkDirty, Outbox!Acknowledge, BranchTrees
    <2> QED
      BY <2>2, <2>3 DEF Outbox!Next
  <1>5. ASSUME Next, MarkFails \/ Crash
        PROVE  UNCHANGED Outbox!vars
    BY <1>2, <1>5 DEF MarkFails, Crash, remoteVars
  <1>6. ASSUME Next, RemoteAccepts
        PROVE  Outbox!Next
    <2>1. pending.commit \in CommitNames'
      BY <1>6, CommitsGrow
         DEF RemoteAccepts, RInv, IInv, TypeInv, TypeOK, PhaseOK, MetaTypeOK
    <2> QED
      BY <1>6, <2>1, ArrivalPublishes DEF RemoteAccepts, readerVars
  <1>7. ASSUME Next, NEW r \in late, LateLands(r)
        PROVE  Outbox!Next
    <2>1. r.new \in CommitNames'
      BY <1>7, CommitsGrow DEF RInv, IInv, TypeInv, TypeOK, RemoteTypeOK
    <2> QED
      BY <1>7, <2>1, ArrivalPublishes DEF LateLands, readerVars
  <1>8. ASSUME Next, NEW kind \in {"content", "invalid", "stray", "state"}, Produce(kind)
        PROVE  Outbox!Next
    <2>1. NewCommit \in CommitNames'
      BY <1>8, ProduceAppends DEF RInv, IInv
    <2> QED
      BY <1>8, <2>1, ArrivalPublishes DEF Produce, readerVars
  <1>9. ASSUME Next, UNCHANGED <<state, acked, onMain>>
        PROVE  Outbox!Next \/ UNCHANGED Outbox!vars
    BY <1>2, <1>4, <1>9, ClearingSettles, MarkersFrame
  <1>10. ASSUME Next, UNCHANGED <<state, acked>>
         PROVE  Outbox!Next \/ UNCHANGED Outbox!vars
    BY <1>6, <1>7, <1>8, <1>9, <1>10, MainFrame DEF Rewrite
  <1> QED
    BY <1>1, <1>3, <1>4, <1>5, <1>10, ReaderFrame

\* Publication is an outbox: it clears only the markers of published versions
\* and puts nothing on the remote branch the reader did not write, through
\* every race, lost reply, late push and crash (crates/plainfeed-sync).
THEOREM PublicationIsOutbox == Spec => ImplementsOutbox
  <1>1. Init => Outbox!Init
    <2> SUFFICES ASSUME Init
                 PROVE  Outbox!Init
      OBVIOUS
    <2>1. onMain = {1} /\ Tree(1).v = state
      BY DEF Init, Tree
    <2> QED
      BY <2>1 DEF Init, Outbox!Init
  <1>2. Spec => []RInv
    BY RInvInit, RInvStep, PTL DEF Spec
  <1> QED
    BY <1>1, <1>2, StepSimulation, PTL DEF Spec, ImplementsOutbox, Outbox!Spec
=============================================================================
