----------------------- MODULE StatePublication_proofs -----------------------
(***************************************************************************)
(* Proofs about StatePublication, for every set of entries and every bound. *)
(***************************************************************************)
EXTENDS StatePublication, TLAPS

FetchedLabels == {"advance", "swapOut", "swapIn", "actSync", "actRef", "unlock",
                  "record", "build", "settle", "push"}
FinalLabels == {"checkout", "finalize", "clear", "unpend"}
SwapLabels == {"swapOut", "swapIn", "actSync", "actRef", "unlock"}

\* What a label of the sync task says about the task's other variables.
PhaseOK ==
    /\ pc \in FetchedLabels \cup FinalLabels => fetched # 0
    /\ pc \in {"recover", "push"} \cup FinalLabels => pending # None
    /\ push # "none" => pc = "push"

\* An activation knows what to put back.
BackupOK == pc \in SwapLabels => backup # None

TypeInv == TypeOK /\ PhaseOK /\ BackupOK

-----------------------------------------------------------------------------
(* Which actions write which variables *)

\* Who makes commit objects.
LEMMA CommitsFrame ==
    ASSUME Next
    PROVE  \/ UNCHANGED commits
           \/ BuildCandidate
           \/ \E kind \in {"content", "invalid", "stray", "state"} : Produce(kind)
  BY DEF Next, Reader, Task, Failure, Operator, Remote, Recovery, Activation,
      Finalization, remoteVars, WriteState, MarkDirty, MarkFails, StartPublish,
      StartPull, RecoverNotLanded, RecoverUnconfirmed, RecoverForked, RecoverConfirmed,
      TakeSnapshot, PreflightRefused, Preflight, FetchFails,
      FetchViolates, MeetTemporary, StateInvalid, RepositoryRefused,
      FetchRefused, FetchSame,
      FetchNew, AdvanceRefused, Advance, ActivateSwapOut, ActivateSwapIn, ActivateSync,
      ActivateRef, ActivateUnlock, ActivateFails, ActivateStrands, RecordPull, NothingToCommit,
      ClearSettled, PushOk, PushStale, PushExhausted, PushFails, FinalizeCheckout,
      FinalizeSync, ClearMarkers, ClearPending, Crash, AcknowledgeConflict,
      RecoverLocal, RemoteAccepts, RemoteRefuses, LateLands, Rewrite

\* Who moves the remote branch.
LEMMA MainFrame ==
    ASSUME Next
    PROVE  \/ UNCHANGED <<remoteTip, onMain, rewritten>>
           \/ RemoteAccepts
           \/ \E r \in late : LateLands(r)
           \/ \E kind \in {"content", "invalid", "stray", "state"} : Produce(kind)
           \/ \E c \in Anc(remoteTip) : Rewrite(c)
  BY DEF Next, Reader, Task, Failure, Operator, Remote, Recovery, Activation,
      Finalization, remoteVars, WriteState, MarkDirty, MarkFails, StartPublish,
      StartPull, RecoverNotLanded, RecoverUnconfirmed, RecoverForked, RecoverConfirmed,
      TakeSnapshot, PreflightRefused, Preflight, FetchFails,
      FetchViolates, MeetTemporary, StateInvalid, RepositoryRefused,
      FetchRefused, FetchSame,
      FetchNew, AdvanceRefused, Advance, ActivateSwapOut, ActivateSwapIn, ActivateSync,
      ActivateRef, ActivateUnlock, ActivateFails, ActivateStrands, RecordPull, NothingToCommit,
      ClearSettled, BuildCandidate, PushOk, PushStale, PushExhausted, PushFails,
      FinalizeCheckout, FinalizeSync, ClearMarkers, ClearPending, Crash,
      AcknowledgeConflict, RecoverLocal, RemoteRefuses

\* Who leaves requests behind.
LEMMA LateFrame ==
    ASSUME Next
    PROVE  \/ UNCHANGED late
           \/ PushFails
           \/ Crash
           \/ \E r \in late : LateLands(r)
  BY DEF Next, Reader, Task, Failure, Operator, Remote, Recovery, Activation,
      Finalization, remoteVars, WriteState, MarkDirty, MarkFails, StartPublish,
      StartPull, RecoverNotLanded, RecoverUnconfirmed, RecoverForked, RecoverConfirmed,
      TakeSnapshot, PreflightRefused, Preflight, FetchFails,
      FetchViolates, MeetTemporary, StateInvalid, RepositoryRefused,
      FetchRefused, FetchSame,
      FetchNew, AdvanceRefused, Advance, ActivateSwapOut, ActivateSwapIn, ActivateSync,
      ActivateRef, ActivateUnlock, ActivateFails, ActivateStrands, RecordPull, NothingToCommit,
      ClearSettled, BuildCandidate, PushOk, PushStale, PushExhausted, FinalizeCheckout,
      FinalizeSync, ClearMarkers, ClearPending, AcknowledgeConflict, RecoverLocal,
      RemoteAccepts, RemoteRefuses, Produce, Rewrite

\* Who writes reader state.
LEMMA ReaderFrame ==
    ASSUME Next
    PROVE  \/ UNCHANGED <<state, writing, acked>>
           \/ \E e \in Entries : WriteState(e)
           \/ MarkDirty
           \/ MarkFails
           \/ Crash
  BY DEF Next, Reader, Task, Failure, Operator, Remote, Recovery, Activation,
      Finalization, readerVars, StartPublish, StartPull, RecoverNotLanded,
      RecoverUnconfirmed, RecoverForked, RecoverConfirmed, TakeSnapshot,
      PreflightRefused, Preflight, FetchFails,
      FetchViolates, MeetTemporary, StateInvalid, RepositoryRefused,
      FetchRefused, FetchSame, FetchNew,
      AdvanceRefused, Advance, ActivateSwapOut, ActivateSwapIn, ActivateSync,
      ActivateRef, ActivateUnlock, ActivateFails, ActivateStrands, RecordPull, NothingToCommit,
      ClearSettled, BuildCandidate, PushOk, PushStale, PushExhausted, PushFails,
      FinalizeCheckout, FinalizeSync, ClearMarkers, ClearPending, AcknowledgeConflict,
      RecoverLocal, RemoteAccepts, RemoteRefuses, LateLands, Produce, Rewrite

\* Who creates or clears dirty markers.
LEMMA MarkersFrame ==
    ASSUME Next
    PROVE  \/ UNCHANGED markers
           \/ MarkDirty
           \/ ClearSettled
           \/ ClearMarkers
  BY DEF Next, Reader, Task, Failure, Operator, Remote, Recovery, Activation,
      Finalization, WriteState, MarkFails, StartPublish, StartPull, RecoverNotLanded,
      RecoverUnconfirmed, RecoverForked, RecoverConfirmed, TakeSnapshot,
      PreflightRefused, Preflight, FetchFails,
      FetchViolates, MeetTemporary, StateInvalid, RepositoryRefused,
      FetchRefused, FetchSame, FetchNew,
      AdvanceRefused, Advance, ActivateSwapOut, ActivateSwapIn, ActivateSync,
      ActivateRef, ActivateUnlock, ActivateFails, ActivateStrands, RecordPull, NothingToCommit,
      BuildCandidate, PushOk, PushStale, PushExhausted, PushFails, FinalizeCheckout,
      FinalizeSync, ClearPending, Crash, AcknowledgeConflict, RecoverLocal,
      RemoteAccepts, RemoteRefuses, LateLands, Produce, Rewrite

\* Who moves the local branch.
LEMMA LocalTipFrame ==
    ASSUME Next
    PROVE  \/ UNCHANGED localTip
           \/ ActivateRef
           \/ FinalizeCheckout
  BY DEF Next, Reader, Task, Failure, Operator, Remote, Recovery, Activation,
      Finalization, treeVars, WriteState, MarkDirty, MarkFails, StartPublish, StartPull,
      RecoverNotLanded, RecoverUnconfirmed, RecoverForked, RecoverConfirmed,
      TakeSnapshot, PreflightRefused, Preflight, FetchFails,
      FetchViolates, MeetTemporary, StateInvalid, RepositoryRefused,
      FetchRefused, FetchSame,
      FetchNew, AdvanceRefused, Advance, ActivateSwapOut, ActivateSwapIn, ActivateSync,
      ActivateUnlock, ActivateFails, ActivateStrands, RecordPull, NothingToCommit, ClearSettled,
      BuildCandidate, PushOk, PushStale, PushExhausted, PushFails, FinalizeSync,
      ClearMarkers, ClearPending, Crash, AcknowledgeConflict, RecoverLocal,
      RemoteAccepts, RemoteRefuses, LateLands, Produce, Rewrite

\* Who writes pending-push.toml.
LEMMA PendingFrame ==
    ASSUME Next
    PROVE  \/ UNCHANGED pending
           \/ RecoverNotLanded
           \/ BuildCandidate
           \/ PushStale
           \/ PushExhausted
           \/ ClearPending
  BY DEF Next, Reader, Task, Failure, Operator, Remote, Recovery, Activation,
      Finalization, metaVars, StopWithConflict, WriteState, MarkDirty, MarkFails,
      StartPublish, StartPull, RecoverUnconfirmed, RecoverForked, RecoverConfirmed,
      TakeSnapshot, PreflightRefused, Preflight, FetchFails,
      FetchViolates, MeetTemporary, StateInvalid, RepositoryRefused,
      FetchRefused, FetchSame,
      FetchNew, AdvanceRefused, Advance, ActivateSwapOut, ActivateSwapIn, ActivateSync,
      ActivateRef, ActivateUnlock, ActivateFails, ActivateStrands, RecordPull, NothingToCommit,
      ClearSettled, PushOk, PushFails, FinalizeCheckout, FinalizeSync, ClearMarkers,
      Crash, AcknowledgeConflict, RecoverLocal, RemoteAccepts, RemoteRefuses, LateLands,
      Produce, Rewrite

\* Who writes sync.toml.
LEMMA SyncFrame ==
    ASSUME Next
    PROVE  \/ UNCHANGED sync
           \/ ActivateSync
           \/ RecordPull
           \/ NothingToCommit
           \/ FinalizeSync
           \/ RecoverLocal
  BY DEF Next, Reader, Task, Failure, Operator, Remote, Recovery, Activation,
      Finalization, metaVars, StopWithConflict, WriteState, MarkDirty, MarkFails,
      StartPublish, StartPull, RecoverNotLanded, RecoverUnconfirmed, RecoverForked,
      RecoverConfirmed, TakeSnapshot, PreflightRefused, Preflight, FetchFails,
      FetchViolates, MeetTemporary, StateInvalid, RepositoryRefused,
      FetchRefused, FetchSame, FetchNew, AdvanceRefused, Advance, ActivateSwapOut,
      ActivateSwapIn, ActivateRef, ActivateUnlock, ActivateFails, ActivateStrands, ClearSettled,
      BuildCandidate, PushOk, PushStale, PushExhausted, PushFails, FinalizeCheckout,
      ClearMarkers, ClearPending, Crash, AcknowledgeConflict, RemoteAccepts,
      RemoteRefuses, LateLands, Produce, Rewrite

\* Who else counts moves on the remote.
LEMMA MovesFrame ==
    ASSUME Next
    PROVE  \/ UNCHANGED moves
           \/ \E kind \in {"content", "invalid", "stray", "state"} : Produce(kind)
           \/ \E c \in Anc(remoteTip) : Rewrite(c)
  BY DEF Next, Reader, Task, Failure, Operator, Remote, Recovery, Activation,
      Finalization, remoteVars, WriteState, MarkDirty, MarkFails, StartPublish,
      StartPull, RecoverNotLanded, RecoverUnconfirmed, RecoverForked, RecoverConfirmed,
      TakeSnapshot, PreflightRefused, Preflight, FetchFails,
      FetchViolates, MeetTemporary, StateInvalid, RepositoryRefused,
      FetchRefused, FetchSame,
      FetchNew, AdvanceRefused, Advance, ActivateSwapOut, ActivateSwapIn, ActivateSync,
      ActivateRef, ActivateUnlock, ActivateFails, ActivateStrands, RecordPull, NothingToCommit,
      ClearSettled, BuildCandidate, PushOk, PushStale, PushExhausted, PushFails,
      FinalizeCheckout, FinalizeSync, ClearMarkers, ClearPending, Crash,
      AcknowledgeConflict, RecoverLocal, RemoteAccepts, RemoteRefuses, LateLands

\* Who touches the live areas and their lock.
LEMMA LiveFrame ==
    ASSUME Next
    PROVE  \/ UNCHANGED <<live, lock, backup>>
           \/ FetchNew
           \/ Advance
           \/ ActivateSwapOut
           \/ ActivateSwapIn
           \/ ActivateUnlock
           \/ ActivateFails \/ ActivateStrands
           \/ RecoverLocal
  BY DEF Next, Reader, Task, Failure, Operator, Remote, Recovery, Activation,
      Finalization, treeVars, WriteState, MarkDirty, MarkFails, StartPublish, StartPull,
      RecoverNotLanded, RecoverUnconfirmed, RecoverForked, RecoverConfirmed,
      TakeSnapshot, PreflightRefused, Preflight, FetchFails,
      FetchViolates, MeetTemporary, StateInvalid, RepositoryRefused,
      FetchRefused, FetchSame,
      AdvanceRefused, ActivateSync, ActivateRef, RecordPull, NothingToCommit,
      ClearSettled, BuildCandidate, PushOk, PushStale, PushExhausted, PushFails,
      FinalizeCheckout, FinalizeSync, ClearMarkers, ClearPending, Crash,
      AcknowledgeConflict, RemoteAccepts, RemoteRefuses, LateLands, Produce, Rewrite

\* Who raises and clears conflicts.
LEMMA ConflictFrame ==
    ASSUME Next
    PROVE  \/ UNCHANGED conflict
           \/ RecoverUnconfirmed
           \/ RecoverForked
           \/ MeetTemporary \/ StateInvalid \/ RepositoryRefused
           \/ PreflightRefused
           \/ FetchViolates
           \/ FetchRefused
           \/ AdvanceRefused
           \/ ActivateFails \/ ActivateStrands
           \/ PushExhausted
           \/ AcknowledgeConflict
  BY DEF Next, Reader, Task, Failure, Operator, Remote, Recovery, Activation,
      Finalization, metaVars, WriteState, MarkDirty, MarkFails, StartPublish, StartPull,
      RecoverNotLanded, RecoverConfirmed, TakeSnapshot, Preflight, FetchFails,
      FetchSame, FetchNew, Advance, ActivateSwapOut, ActivateSwapIn, ActivateSync,
      ActivateRef, ActivateUnlock, RecordPull, NothingToCommit, ClearSettled,
      BuildCandidate, PushOk, PushStale, PushFails, FinalizeCheckout, FinalizeSync,
      ClearMarkers, ClearPending, Crash, RecoverLocal, RemoteAccepts, RemoteRefuses,
      LateLands, Produce, Rewrite

-----------------------------------------------------------------------------
(* Appending a commit leaves the others as they were *)

LEMMA AppendCommit ==
    ASSUME NEW S, NEW s \in Seq(S), NEW x \in S
    PROVE  /\ Append(s, x) \in Seq(S)
           /\ DOMAIN s = 1..Len(s) /\ DOMAIN Append(s, x) = 1..(Len(s) + 1)
           /\ Len(Append(s, x)) = Len(s) + 1 /\ Len(s) \in Nat
           /\ \A c \in DOMAIN s : Append(s, x)[c] = s[c] /\ s[c] \in S
           /\ Append(s, x)[Len(s) + 1] = x
           /\ DOMAIN s \subseteq DOMAIN Append(s, x)
           /\ Len(s) + 1 \in DOMAIN Append(s, x)
           /\ Len(s) + 1 \notin DOMAIN s
  OBVIOUS

LEMMA AfterTipType ==
    AfterTip \in {"record", "build", "snapshot"}
  BY DEF AfterTip

LEMMA RefusalType ==
    \A tip : Refusal(tip) \in Reasons \cup {None}
  BY DEF Refusal, Reasons

\* What a commit record built by Produce or BuildCandidate looks like.
LEMMA CommitOnType ==
    ASSUME TypeOK, NEW p \in DOMAIN commits, NEW t \in Trees, NEW n \in Nat,
           NEW b \in SUBSET {"stray", "invalid"}
    PROVE  CommitOn(p, t, n, b) \in CommitRecords
  <1>1. commits[p] \in CommitRecords /\ NewCommit \in Nat
    BY DEF TypeOK, RemoteTypeOK, CommitNames, NewCommit
  <1> QED
    BY <1>1 DEF CommitOn, CommitRecords, Anc

LEMMA ProducedShape ==
    ASSUME TypeOK, NEW kind \in {"content", "invalid", "stray", "state"}
    PROVE  \E t \in Trees, n \in Nat, b \in SUBSET {"stray", "invalid"} :
               Produced(kind) = CommitOn(remoteTip, t, n, b)
  <1>1. commits[remoteTip] \in CommitRecords /\ NewCommit \in Nat
    BY DEF TypeOK, RemoteTypeOK, CommitNames, NewCommit
  <1>2. /\ Tree(remoteTip) \in Trees /\ Content(remoteTip) \in Nat
        /\ [Tree(remoteTip) EXCEPT !.alien = TRUE] \in Trees
        /\ commits[remoteTip].bad \in SUBSET {"stray", "invalid"}
    BY <1>1 DEF CommitRecords, Tree, Content, Trees
  <1> QED
    BY <1>1, <1>2 DEF Produced

LEMMA ProducedType ==
    ASSUME TypeOK, NEW kind \in {"content", "invalid", "stray", "state"}
    PROVE  Produced(kind) \in CommitRecords
  <1>1. remoteTip \in DOMAIN commits
    BY DEF TypeOK, RemoteTypeOK, CommitNames
  <1> QED
    BY <1>1, ProducedShape, CommitOnType

-----------------------------------------------------------------------------
(* Type correctness *)

\* Commits are only ever added.
\* A step adds at most one commit, on top of one that is there.
LEMMA CommitsStep ==
    ASSUME TypeInv, Next
    PROVE  \/ UNCHANGED commits
           \/ \E p \in CommitNames, t \in Trees, n \in Nat, b \in SUBSET {"stray", "invalid"} :
                  commits' = Append(commits, CommitOn(p, t, n, b))
  <1> USE DEF TypeInv, TypeOK, RemoteTypeOK, CommitNames
  <1>1. CASE BuildCandidate
    <2>1. pc = "build" /\ fetched \in CommitNames
      BY <1>1 DEF BuildCandidate, TaskTypeOK, PhaseOK, FetchedLabels
    <2>2. commits[fetched] \in CommitRecords /\ ReaderTree \in Trees
      BY <2>1 DEF ReaderTypeOK, ReaderTree, Trees
    <2> QED
      BY <1>1, <2>1, <2>2 DEF BuildCandidate, CommitRecords, Content
  <1>2. ASSUME NEW kind \in {"content", "invalid", "stray", "state"}, Produce(kind)
        PROVE  \E p \in CommitNames, t \in Trees, n \in Nat, b \in SUBSET {"stray", "invalid"} :
                   commits' = Append(commits, CommitOn(p, t, n, b))
    BY <1>2, ProducedShape DEF Produce
  <1> QED
    BY <1>1, <1>2, CommitsFrame

\* Commits are never changed, and the graph stays well formed.
LEMMA CommitsGrow ==
    ASSUME TypeInv, Next
    PROVE  /\ commits' \in Seq(CommitRecords)
           /\ CommitNames \subseteq CommitNames'
           /\ \A c \in CommitNames : commits'[c] = commits[c]
           /\ (\A c \in CommitNames : c \in Anc(c) /\ Anc(c) \subseteq CommitNames)'
  <1> USE DEF TypeInv, TypeOK, RemoteTypeOK, CommitNames
  <1>1. CASE UNCHANGED commits
    BY <1>1 DEF Anc
  <1>2. ASSUME NEW p \in CommitNames, NEW t \in Trees, NEW n \in Nat,
               NEW b \in SUBSET {"stray", "invalid"},
               commits' = Append(commits, CommitOn(p, t, n, b))
        PROVE  /\ commits' \in Seq(CommitRecords)
               /\ CommitNames \subseteq CommitNames'
               /\ \A c \in CommitNames : commits'[c] = commits[c]
               /\ (\A c \in CommitNames : c \in Anc(c) /\ Anc(c) \subseteq CommitNames)'
    <2>1. CommitOn(p, t, n, b) \in CommitRecords
      BY CommitOnType
    <2>2. /\ commits' \in Seq(CommitRecords)
          /\ CommitNames \subseteq CommitNames'
          /\ \A c \in CommitNames : commits'[c] = commits[c]
          /\ CommitNames' = CommitNames \cup {NewCommit}
          /\ commits'[NewCommit] = CommitOn(p, t, n, b)
      BY <1>2, <2>1, AppendCommit DEF NewCommit
    <2>3. (CommitOn(p, t, n, b)).anc = Anc(p) \cup {NewCommit}
      BY DEF CommitOn
    <2>4. ASSUME NEW c \in CommitNames'
          PROVE  (c \in commits'[c].anc) /\ (commits'[c].anc \subseteq CommitNames')
      <3>1. CASE c \in CommitNames
        BY <2>2, <3>1 DEF Anc
      <3>2. CASE c = NewCommit
        BY <2>2, <2>3, <3>2
      <3> QED
        BY <2>2, <2>4, <3>1, <3>2
    <2> QED
      BY <2>2, <2>4 DEF Anc
  <1> QED
    BY <1>1, <1>2, CommitsStep

LEMMA NewCommitIsNamed ==
    ASSUME TypeInv, NEW x \in CommitRecords, commits' = Append(commits, x)
    PROVE  NewCommit \in CommitNames' /\ commits'[NewCommit] = x
  BY AppendCommit DEF TypeInv, TypeOK, RemoteTypeOK, CommitNames, NewCommit

LEMMA BuildType ==
    ASSUME TypeInv, BuildCandidate
    PROVE  CommitOn(fetched, ReaderTree, Content(fetched), commits[fetched].bad)
               \in CommitRecords
  <1>1. fetched \in CommitNames
    BY DEF TypeInv, TypeOK, BuildCandidate, TaskTypeOK, PhaseOK, FetchedLabels
  <1>2. commits[fetched] \in CommitRecords /\ ReaderTree \in Trees
    BY <1>1 DEF TypeInv, TypeOK, RemoteTypeOK, CommitNames, ReaderTypeOK, ReaderTree, Trees
  <1> QED
    BY <1>1, <1>2, CommitOnType DEF TypeInv, CommitNames, CommitRecords, Content

LEMMA CommitFields ==
    ASSUME TypeInv
    PROVE  /\ CommitNames \subseteq Nat
           /\ \A c \in CommitNames : Tree(c) \in Trees /\ Content(c) \in Nat
  <1>1. /\ \A c \in CommitNames : commits[c] \in CommitRecords
        /\ CommitNames \subseteq Nat
    BY DEF TypeInv, TypeOK, RemoteTypeOK, CommitNames
  <1> QED
    BY <1>1 DEF CommitRecords, Tree, Content

LEMMA RemoteTypeNext ==
    ASSUME TypeInv, Next
    PROVE  RemoteTypeOK'
  <1> USE DEF TypeInv, TypeOK, RemoteTypeOK
  <1>1. /\ commits' \in Seq(CommitRecords)
        /\ CommitNames \subseteq CommitNames'
        /\ (\A c \in CommitNames : c \in Anc(c) /\ Anc(c) \subseteq CommitNames)'
    BY CommitsGrow
  <1>2. (remoteTip \in CommitNames /\ onMain \subseteq CommitNames /\ rewritten \in BOOLEAN)'
    <2>1. CASE RemoteAccepts
      BY <1>1, <2>1 DEF RemoteAccepts, PhaseOK, MetaTypeOK
    <2>2. ASSUME NEW r \in late, LateLands(r)
          PROVE  (remoteTip \in CommitNames /\ onMain \subseteq CommitNames
                  /\ rewritten \in BOOLEAN)'
      BY <1>1, <2>2 DEF LateLands
    <2>3. ASSUME NEW kind \in {"content", "invalid", "stray", "state"}, Produce(kind)
          PROVE  (remoteTip \in CommitNames /\ onMain \subseteq CommitNames
                  /\ rewritten \in BOOLEAN)'
      BY <1>1, <2>3, ProducedType, NewCommitIsNamed DEF Produce
    <2>4. ASSUME NEW c \in Anc(remoteTip), Rewrite(c)
          PROVE  (remoteTip \in CommitNames /\ onMain \subseteq CommitNames
                  /\ rewritten \in BOOLEAN)'
      BY <1>1, <2>4 DEF Rewrite
    <2> QED
      BY <1>1, <2>1, <2>2, <2>3, <2>4, MainFrame
  <1>3. (late \subseteq [old : CommitNames, new : CommitNames])'
    <2>1. CASE Abandon /\ pending # None
      BY <1>1, <2>1 DEF Abandon, MetaTypeOK
    <2>2. CASE Crash
      BY <1>1, <2>1, <2>2 DEF Crash, Abandon, PhaseOK
    <2>3. CASE PushFails
      BY <2>1, <2>3 DEF PushFails, PhaseOK
    <2>4. ASSUME NEW r \in late, LateLands(r)
          PROVE  (late \subseteq [old : CommitNames, new : CommitNames])'
      BY <1>1, <2>4 DEF LateLands
    <2> QED
      BY <1>1, <2>2, <2>3, <2>4, LateFrame
  <1>4. moves' \in Nat
    <2>1. moves' = moves \/ moves' = moves + 1
      BY MovesFrame DEF Produce, Rewrite
    <2>2. moves \in Nat
      OBVIOUS
    <2> HIDE DEF TypeInv
    <2> QED
      BY <2>1, <2>2
  <1> QED
    BY <1>1, <1>2, <1>3, <1>4

LEMMA ReaderTypeNext ==
    ASSUME TypeInv, Next
    PROVE  ReaderTypeOK'
  <1> USE DEF ReaderTypeOK
  <1>1. ReaderTypeOK
    BY DEF TypeInv, TypeOK
  <1>2. (state \in [Entries -> Nat] /\ acked \in [Entries -> Nat]
         /\ writing \in Entries \cup {None})'
    BY <1>1, ReaderFrame DEF WriteState, MarkDirty, MarkFails, Crash
  <1>3. markers' \subseteq Markers
    BY <1>1, MarkersFrame DEF MarkDirty, ClearSettled, ClearMarkers, Markers
  <1> QED
    BY <1>2, <1>3

LEMMA TreeTypeNext ==
    ASSUME TypeInv, Next
    PROVE  TreeTypeOK'
  <1> USE DEF TypeInv, TypeOK, TreeTypeOK
  <1>1. CommitNames \subseteq CommitNames'
    BY CommitsGrow
  <1>2. localTip' \in CommitNames'
    BY <1>1, LocalTipFrame
       DEF ActivateRef, FinalizeCheckout, PhaseOK, FetchedLabels, FinalLabels,
           TaskTypeOK, MetaTypeOK
  <1>3. \A c \in CommitNames : Content(c) \in Nat
    BY CommitFields
  <1>4. live' \in Nat \cup {Mixed} /\ lock' \in BOOLEAN /\ backup' \in Nat \cup {Mixed, None}
    BY <1>3, LiveFrame
       DEF FetchNew, Advance, ActivateSwapOut, ActivateSwapIn, ActivateUnlock,
           ActivateFails, ActivateStrands, RecoverLocal, PhaseOK, FetchedLabels, TaskTypeOK,
           BackupOK, SwapLabels
  <1> QED
    BY <1>2, <1>4

LEMMA BuildPending ==
    ASSUME TypeInv, BuildCandidate
    PROVE  pending' \in Pendings
  <1>1. /\ commits \in Seq(CommitRecords) /\ fetched \in CommitNames
        /\ state \in [Entries -> Nat] /\ snap \in SUBSET Markers
    BY DEF TypeInv, TypeOK, BuildCandidate, PhaseOK, FetchedLabels, TaskTypeOK,
           ReaderTypeOK, RemoteTypeOK
  <1>2. NewCommit \in Nat
    BY <1>1 DEF NewCommit
  <1>3. ReaderTree \in Trees /\ fetched \in Nat
    BY <1>1, CommitFields DEF ReaderTree, Trees
  <1> QED
    BY <1>1, <1>2, <1>3 DEF BuildCandidate, Pendings

LEMMA MetaTypeNext ==
    ASSUME TypeInv, Next
    PROVE  MetaTypeOK'
  <1> USE DEF TypeInv, TypeOK, MetaTypeOK
  <1>1. CommitNames \subseteq CommitNames' /\ CommitNames \subseteq Nat
    BY CommitsGrow DEF RemoteTypeOK, CommitNames
  <1>2. \A c \in CommitNames : Tree(c) \in Trees
    BY CommitFields
  <1>3. /\ pending' \in Pendings \cup {None}
        /\ pending' # None => /\ pending'.prev \in CommitNames'
                             /\ pending'.commit \in CommitNames'
    <2>1. CASE BuildCandidate
      <3>1. NewCommit \in CommitNames'
        BY <2>1, BuildType, NewCommitIsNamed DEF BuildCandidate
      <3>2. fetched \in CommitNames
        BY <2>1 DEF BuildCandidate, PhaseOK, FetchedLabels, TaskTypeOK
      <3> QED
        BY <1>1, <2>1, <3>1, <3>2, BuildPending DEF BuildCandidate
    <2> QED
      BY <1>1, <2>1, PendingFrame
         DEF RecoverNotLanded, PushStale, PushExhausted, ClearPending
  <1>4. (sync \in [remote : CommitNames \cup {None}, tree : Trees \cup {None}])'
    <2> DEFINE Good(c, t) == c \in CommitNames /\ t \in Trees
    <2>1. ASSUME NEW c, NEW t, Good(c, t), sync' = [remote |-> c, tree |-> t]
          PROVE  (sync \in [remote : CommitNames \cup {None}, tree : Trees \cup {None}])'
      BY <1>1, <2>1
    <2>2. CASE ActivateSync \/ RecordPull \/ NothingToCommit
      <3>1. fetched \in CommitNames
        BY <2>2 DEF ActivateSync, RecordPull, NothingToCommit, PhaseOK, FetchedLabels,
                    TaskTypeOK
      <3> QED
        BY <1>2, <2>1, <2>2, <3>1 DEF ActivateSync, RecordPull, NothingToCommit
    <2>3. CASE FinalizeSync
      BY <2>1, <2>3 DEF FinalizeSync, PhaseOK, FinalLabels, Pendings
    <2>4. CASE RecoverLocal
      BY <1>2, <2>1, <2>4 DEF RecoverLocal, TreeTypeOK
    <2>5. CASE UNCHANGED sync
      BY <1>1, <2>5
    <2> QED
      BY <2>2, <2>3, <2>4, <2>5, SyncFrame
  <1>5. conflict' \in Reasons \cup {None}
    BY RefusalType, ConflictFrame
       DEF RecoverUnconfirmed, RecoverForked, MeetTemporary, StateInvalid,
           RepositoryRefused, PreflightRefused, FetchViolates, FetchRefused, AdvanceRefused,
           ActivateFails, ActivateStrands, PushExhausted, AcknowledgeConflict,
           StopWithConflict, Reasons
  <1> QED
    BY <1>3, <1>4, <1>5

\* What a step can do to each variable of the sync task.
LEMMA TaskFrame ==
    ASSUME TaskTypeOK, PhaseOK, Next
    PROVE  /\ fetched' \in {fetched, 0, remoteTip}
           /\ snap' \in {snap, {}, markers}
           /\ attempt' \in {attempt, 0, attempt + 1}
           /\ faults' \in {faults, faults + 1}
           /\ pc' \in Labels
           /\ route' \in {"none", "recover", "publish", "pull"}
           /\ push' \in {"none", "sent", "ok", "stale"}
  BY DEF Goto, Rest, StopWithConflict, Fault, AfterTip, taskVars, TaskTypeOK, Labels,
        Next, Reader, Task, Failure, Operator, Remote, Recovery, Activation, Finalization,
        WriteState, MarkDirty, MarkFails, StartPublish, StartPull, RecoverNotLanded,
            RecoverUnconfirmed, RecoverForked, RecoverConfirmed, TakeSnapshot,
            PreflightRefused, Preflight, FetchFails,
            FetchViolates, MeetTemporary, StateInvalid, RepositoryRefused,
            FetchRefused, FetchSame, FetchNew,
            AdvanceRefused, Advance, ActivateSwapOut, ActivateSwapIn, ActivateSync,
            ActivateRef, ActivateUnlock, ActivateFails, ActivateStrands, RecordPull, NothingToCommit,
            ClearSettled, BuildCandidate, PushOk, PushStale, PushExhausted, PushFails,
            FinalizeCheckout, FinalizeSync, ClearMarkers, ClearPending, Crash,
            AcknowledgeConflict, RecoverLocal, RemoteAccepts, RemoteRefuses, LateLands,
            Produce, Rewrite

\* A label that needs the fetched tip or the pending push is entered with it.
LEMMA PhaseNext ==
    ASSUME TypeInv, Next
    PROVE  PhaseOK'
  <1>1. /\ localTip # 0 /\ remoteTip # 0 /\ TaskTypeOK /\ PhaseOK
    BY DEF TypeInv, TypeOK, RemoteTypeOK, TreeTypeOK, CommitNames
  <1>2. (push # "none" => pc = "push")'
    BY <1>1
       DEF PhaseOK, Goto, Rest, StopWithConflict, taskVars,
        Next, Reader, Task, Failure, Operator, Remote, Recovery, Activation, Finalization,
        WriteState, MarkDirty, MarkFails, StartPublish, StartPull, RecoverNotLanded,
            RecoverUnconfirmed, RecoverForked, RecoverConfirmed, TakeSnapshot,
            PreflightRefused, Preflight, FetchFails,
            FetchViolates, MeetTemporary, StateInvalid, RepositoryRefused,
            FetchRefused, FetchSame, FetchNew,
            AdvanceRefused, Advance, ActivateSwapOut, ActivateSwapIn, ActivateSync,
            ActivateRef, ActivateUnlock, ActivateFails, ActivateStrands, RecordPull, NothingToCommit,
            ClearSettled, BuildCandidate, PushOk, PushStale, PushExhausted, PushFails,
            FinalizeCheckout, FinalizeSync, ClearMarkers, ClearPending, Crash,
            AcknowledgeConflict, RecoverLocal, RemoteAccepts, RemoteRefuses, LateLands,
            Produce, Rewrite
  <1>3. (pc \in FetchedLabels \cup FinalLabels => fetched # 0)'
    BY <1>1
       DEF PhaseOK, FetchedLabels, FinalLabels, Goto, Rest, StopWithConflict, AfterTip, taskVars,
        Next, Reader, Task, Failure, Operator, Remote, Recovery, Activation, Finalization,
        WriteState, MarkDirty, MarkFails, StartPublish, StartPull, RecoverNotLanded,
            RecoverUnconfirmed, RecoverForked, RecoverConfirmed, TakeSnapshot,
            PreflightRefused, Preflight, FetchFails,
            FetchViolates, MeetTemporary, StateInvalid, RepositoryRefused,
            FetchRefused, FetchSame, FetchNew,
            AdvanceRefused, Advance, ActivateSwapOut, ActivateSwapIn, ActivateSync,
            ActivateRef, ActivateUnlock, ActivateFails, ActivateStrands, RecordPull, NothingToCommit,
            ClearSettled, BuildCandidate, PushOk, PushStale, PushExhausted, PushFails,
            FinalizeCheckout, FinalizeSync, ClearMarkers, ClearPending, Crash,
            AcknowledgeConflict, RecoverLocal, RemoteAccepts, RemoteRefuses, LateLands,
            Produce, Rewrite
  <1>4. (pc \in {"recover", "push"} \cup FinalLabels => pending # None)'
    <2>1. CASE BuildCandidate
      BY <2>1, BuildPending, NoneAssumption
    <2>2. CASE RecoverNotLanded \/ PushStale \/ PushExhausted
      BY <2>2 DEF RecoverNotLanded, PushStale, PushExhausted, Goto, Rest, FinalLabels
    <2>3. CASE ClearPending
      BY <2>3 DEF ClearPending, Goto, Rest, FinalLabels
    <2>4. CASE UNCHANGED pending
      BY <1>1, <2>1, <2>4, AfterTipType
         DEF PhaseOK, FinalLabels, Goto, Rest, StopWithConflict, taskVars,
          Next, Reader, Task, Failure, Operator, Remote, Recovery, Activation, Finalization,
        WriteState, MarkDirty, MarkFails, StartPublish, StartPull, RecoverNotLanded,
            RecoverUnconfirmed, RecoverForked, RecoverConfirmed, TakeSnapshot,
            PreflightRefused, Preflight, FetchFails,
            FetchViolates, MeetTemporary, StateInvalid, RepositoryRefused,
            FetchRefused, FetchSame, FetchNew,
            AdvanceRefused, Advance, ActivateSwapOut, ActivateSwapIn, ActivateSync,
            ActivateRef, ActivateUnlock, ActivateFails, ActivateStrands, RecordPull, NothingToCommit,
            ClearSettled, BuildCandidate, PushOk, PushStale, PushExhausted, PushFails,
            FinalizeCheckout, FinalizeSync, ClearMarkers, ClearPending, Crash,
            AcknowledgeConflict, RecoverLocal, RemoteAccepts, RemoteRefuses, LateLands,
            Produce, Rewrite
    <2> QED
      BY <2>1, <2>2, <2>3, <2>4, PendingFrame
  <1> QED
    BY <1>2, <1>3, <1>4 DEF PhaseOK

LEMMA BackupNext ==
    ASSUME TypeInv, Next
    PROVE  BackupOK'
  <1>1. BackupOK /\ live # None
    BY NoneAssumption DEF TypeInv, TypeOK, TreeTypeOK
  <1>2. CASE FetchNew \/ Advance
    BY <1>1, <1>2 DEF FetchNew, Advance, BackupOK
  <1>3. CASE ActivateUnlock \/ ActivateFails \/ ActivateStrands \/ RecoverLocal
    BY <1>3, AfterTipType
       DEF ActivateUnlock, ActivateFails, ActivateStrands, RecoverLocal, Goto, Rest,
           StopWithConflict, taskVars, BackupOK, SwapLabels
  <1>4. CASE ActivateSwapOut \/ ActivateSwapIn
    BY <1>1, <1>4 DEF ActivateSwapOut, ActivateSwapIn, BackupOK, SwapLabels
  <1>5. CASE UNCHANGED <<live, lock, backup>>
    BY <1>1, <1>2, <1>3, <1>5, AfterTipType
       DEF BackupOK, SwapLabels, Goto, Rest, StopWithConflict, taskVars,
          Next, Reader, Task, Failure, Operator, Remote, Recovery, Activation, Finalization,
          WriteState, MarkDirty, MarkFails, StartPublish, StartPull, RecoverNotLanded,
          RecoverUnconfirmed, RecoverForked, RecoverConfirmed, TakeSnapshot,
          PreflightRefused, Preflight, FetchFails,
          FetchViolates, MeetTemporary, StateInvalid, RepositoryRefused,
          FetchRefused, FetchSame,
          AdvanceRefused, ActivateSwapOut, ActivateSwapIn, ActivateSync,
          ActivateRef, RecordPull, NothingToCommit,
          ClearSettled, BuildCandidate, PushOk, PushStale, PushExhausted, PushFails,
          FinalizeCheckout, FinalizeSync, ClearMarkers, ClearPending, Crash,
          AcknowledgeConflict, RemoteAccepts, RemoteRefuses, LateLands, Produce, Rewrite
  <1> QED
    BY <1>2, <1>3, <1>4, <1>5, LiveFrame

LEMMA TaskTypeNext ==
    ASSUME TypeInv, Next
    PROVE  TaskTypeOK'
  <1>1. /\ CommitNames \subseteq CommitNames' /\ remoteTip \in CommitNames
        /\ TaskTypeOK /\ PhaseOK /\ markers \subseteq Markers
    BY CommitsGrow DEF TypeInv, TypeOK, RemoteTypeOK, ReaderTypeOK
  <1> QED
    BY <1>1, TaskFrame DEF TaskTypeOK

LEMMA TypeInit ==
    ASSUME Init
    PROVE  TypeInv
  <1> DEFINE none == [e \in Entries |-> 0]
             tree == [alien |-> FALSE, v |-> none]
             first == [anc |-> {1}, content |-> 1, bad |-> {}, tree |-> tree]
  <1>1. tree \in Trees /\ first \in CommitRecords
    BY DEF CommitRecords, Trees
  <1>2. commits = <<first>>
    BY DEF Init
  <1>3. first.anc = {1} /\ first.tree = tree
    OBVIOUS
  <1> HIDE DEF first, tree
  <1>4. /\ commits \in Seq(CommitRecords)
        /\ CommitNames = {1} /\ commits[1] = first
    BY <1>1, <1>2 DEF CommitNames
  <1>5. \A c \in CommitNames : c \in Anc(c) /\ Anc(c) \subseteq CommitNames
    BY <1>3, <1>4 DEF Anc
  <1>6. RemoteTypeOK
    BY <1>4, <1>5 DEF Init, RemoteTypeOK
  <1>7. ReaderTypeOK /\ TreeTypeOK /\ TaskTypeOK /\ PhaseOK /\ BackupOK
    BY <1>4 DEF Init, ReaderTypeOK, TreeTypeOK, TaskTypeOK, PhaseOK, Labels,
                FetchedLabels, FinalLabels, BackupOK, SwapLabels
  <1>8. commits[1].tree \in Trees
    BY <1>1, <1>3, <1>4
  <1>9. MetaTypeOK
    BY <1>4, <1>8 DEF Init, MetaTypeOK
  <1> QED
    BY <1>6, <1>7, <1>9 DEF TypeInv, TypeOK

LEMMA TypeStep == TypeInv /\ [Next]_vars => TypeInv'
  <1> SUFFICES ASSUME TypeInv, [Next]_vars
               PROVE  TypeInv'
    OBVIOUS
  <1>1. CASE Next
    BY <1>1, RemoteTypeNext, ReaderTypeNext, TreeTypeNext, MetaTypeNext, TaskTypeNext,
       PhaseNext, BackupNext DEF TypeInv, TypeOK
  <1>2. CASE UNCHANGED vars
    BY <1>2 DEF vars, remoteVars, readerVars, treeVars, metaVars, taskVars, TypeInv, TypeOK,
                RemoteTypeOK, ReaderTypeOK, TreeTypeOK, MetaTypeOK, TaskTypeOK, PhaseOK,
                BackupOK, CommitNames, Anc
  <1> QED
    BY <1>1, <1>2

\* Every variable and file holds a value it can have, in every reachable state
\* and for every choice of entries and bounds.
THEOREM TypeCorrect == Spec => []TypeOK
  <1>1. Init => TypeInv
    BY TypeInit
  <1>2. TypeInv => TypeOK
    BY DEF TypeInv
  <1> QED
    BY <1>1, <1>2, TypeStep, PTL DEF Spec
-----------------------------------------------------------------------------
(***************************************************************************)
(* The inductive invariant.  NoLostMutation alone is not inductive: that   *)
(* clearing a marker is harmless depends on what pending-push.toml and the *)
(* task's variables promise while the push is under way.                   *)
(***************************************************************************)

\* new is one commit on top of old, and old is known to the remote branch.
Proposal(old, new) == old \in onMain /\ Anc(new) = Anc(old) \cup {new}

GraphInv ==
    /\ remoteTip \in onMain /\ localTip \in onMain
    /\ fetched # 0 => fetched \in onMain
    /\ \A c \in onMain : Anc(c) \subseteq onMain
    /\ \A r \in late : Proposal(r.old, r.new)
    /\ pending # None => Proposal(pending.prev, pending.commit)
    /\ pc \in FinalLabels \/ push = "ok" => pending.commit \in onMain

Holds(c, m) == m.version <= Tree(c).v[m.entry]

MarkerInv ==
    /\ \A m \in markers \cup snap : m.version <= state[m.entry]
    /\ pending # None => \A m \in pending.markers : Holds(pending.commit, m)
    /\ pc = "settle" => \A m \in snap : Holds(fetched, m)
    /\ NoLostMutation

IInv == TypeInv /\ GraphInv /\ MarkerInv

\* What a commit on the branch says does not change, and the branch's past grows.
LEMMA MainGrows ==
    ASSUME TypeInv, GraphInv, Next
    PROVE  /\ onMain \subseteq onMain' /\ onMain \subseteq CommitNames
           /\ \A c \in CommitNames : Anc(c)' = Anc(c) /\ Tree(c)' = Tree(c)
           /\ \A old, new \in CommitNames : Proposal(old, new) => Proposal(old, new)'
  <1>1. onMain \subseteq onMain'
    BY MainFrame DEF RemoteAccepts, LateLands, Produce, Rewrite
  <1>2. \A c \in CommitNames : Anc(c)' = Anc(c) /\ Tree(c)' = Tree(c)
    BY CommitsGrow DEF Anc, Tree
  <1> QED
    BY <1>1, <1>2 DEF TypeInv, TypeOK, RemoteTypeOK, Proposal

\* How the task comes to trust that its push has landed.
LEMMA LandedFrame ==
    ASSUME TypeInv, Next, pc' \in FinalLabels \/ push' = "ok"
    PROVE  \/ (pc \in FinalLabels \/ push = "ok") /\ UNCHANGED pending
           \/ RecoverConfirmed
           \/ RemoteAccepts
  <1>1. push # "none" => pc = "push"
    BY DEF TypeInv, PhaseOK
  <1> QED
    BY <1>1, AfterTipType
       DEF FinalLabels, Goto, Rest, StopWithConflict, taskVars, metaVars,
        Next, Reader, Task, Failure, Operator, Remote, Recovery, Activation, Finalization,
        WriteState, MarkDirty, MarkFails, StartPublish, StartPull,
        RecoverNotLanded, RecoverUnconfirmed, RecoverForked, TakeSnapshot,
        PreflightRefused, Preflight, FetchFails,
        FetchViolates, MeetTemporary, StateInvalid, RepositoryRefused,
        FetchRefused, FetchSame,
        FetchNew, AdvanceRefused, Advance, ActivateSwapOut, ActivateSwapIn,
        ActivateSync, ActivateRef, ActivateUnlock, ActivateFails,
        ActivateStrands, RecordPull, NothingToCommit, ClearSettled,
        BuildCandidate, PushOk, PushStale, PushExhausted, PushFails,
        FinalizeCheckout, FinalizeSync, ClearMarkers, ClearPending, Crash,
        AcknowledgeConflict, RecoverLocal, RemoteRefuses, LateLands, Produce,
        Rewrite

\* A new commit record, wherever it comes from, is on top of an existing one.
LEMMA BuildAppends ==
    ASSUME TypeInv, BuildCandidate
    PROVE  /\ fetched \in CommitNames /\ fetched # 0
           /\ NewCommit \in CommitNames'
           /\ commits'[NewCommit].anc = Anc(fetched) \cup {NewCommit}
           /\ commits'[NewCommit].tree = ReaderTree
  <1>1. fetched \in CommitNames /\ fetched # 0
    BY DEF TypeInv, TypeOK, BuildCandidate, TaskTypeOK, PhaseOK, FetchedLabels
  <1> DEFINE x == CommitOn(fetched, ReaderTree, Content(fetched), commits[fetched].bad)
  <1>2. x.anc = Anc(fetched) \cup {NewCommit} /\ x.tree = ReaderTree
    BY DEF CommitOn
  <1>3. x \in CommitRecords /\ commits' = Append(commits, x)
    BY BuildType DEF BuildCandidate
  <1> HIDE DEF x
  <1>4. NewCommit \in CommitNames' /\ commits'[NewCommit] = x
    BY <1>3, NewCommitIsNamed
  <1> QED
    BY <1>1, <1>2, <1>4

LEMMA ProduceAppends ==
    ASSUME TypeInv, NEW kind \in {"content", "invalid", "stray", "state"}, Produce(kind)
    PROVE  /\ NewCommit \in CommitNames'
           /\ commits'[NewCommit].anc = Anc(remoteTip) \cup {NewCommit}
  <1>1. /\ Produced(kind) \in CommitRecords
        /\ Produced(kind).anc = Anc(remoteTip) \cup {NewCommit}
    BY ProducedType, ProducedShape DEF CommitOn, TypeInv
  <1>2. commits' = Append(commits, Produced(kind))
    BY DEF Produce
  <1> QED
    BY <1>1, <1>2, NewCommitIsNamed

LEMMA GraphNext ==
    ASSUME TypeInv, GraphInv, Next
    PROVE  GraphInv'
  <1>1. /\ onMain \subseteq onMain' /\ onMain \subseteq CommitNames
        /\ \A c \in CommitNames : Anc(c)' = Anc(c)
        /\ \A old, new \in CommitNames : Proposal(old, new) => Proposal(old, new)'
    BY MainGrows
  <1>2. /\ remoteTip \in CommitNames /\ localTip \in CommitNames
        /\ late \subseteq [old : CommitNames, new : CommitNames]
        /\ pending # None => pending.prev \in CommitNames /\ pending.commit \in CommitNames
    BY DEF TypeInv, TypeOK, RemoteTypeOK, TreeTypeOK, MetaTypeOK
  <1>3. remoteTip' \in onMain'
    <2>1. \A c \in Anc(remoteTip) : c \in onMain
      BY DEF GraphInv
    <2> QED
      BY <1>1, <2>1, MainFrame DEF RemoteAccepts, LateLands, Produce, Rewrite, GraphInv
  <1>4. localTip' \in onMain'
    BY <1>1, LocalTipFrame
       DEF ActivateRef, FinalizeCheckout, GraphInv, FinalLabels, FetchedLabels, TypeInv, PhaseOK
  <1>5. fetched' # 0 => fetched' \in onMain'
    BY <1>1, TaskFrame DEF GraphInv, TypeInv, TypeOK
  <1>6. (\A c \in onMain : Anc(c) \subseteq onMain)'
    <2>1. ASSUME NEW old \in onMain, NEW new \in CommitNames', onMain' = onMain \cup {new},
                 Anc(new)' = Anc(old) \cup {new}
          PROVE  (\A c \in onMain : Anc(c) \subseteq onMain)'
      <3>1. \A c \in onMain : Anc(c)' = Anc(c) /\ Anc(c) \subseteq onMain
        BY <1>1 DEF GraphInv
      <3>2. \A c \in onMain' : Anc(c)' \subseteq onMain'
        BY <2>1, <3>1
      <3> QED
        BY <3>2
    <2>2. CommitNames \subseteq CommitNames'
      BY CommitsGrow
    <2>3. CASE RemoteAccepts
      <3>1. pending # None /\ Proposal(pending.prev, pending.commit)
        BY <2>3 DEF RemoteAccepts, TypeInv, PhaseOK, GraphInv
      <3>2. commits'[pending.commit].anc = Anc(pending.commit)
        BY <1>1, <1>2, <3>1 DEF Anc
      <3> QED
        BY <1>2, <2>1, <2>2, <2>3, <3>1, <3>2 DEF RemoteAccepts, Proposal, Anc
    <2>4. ASSUME NEW r \in late, LateLands(r)
          PROVE  (\A c \in onMain : Anc(c) \subseteq onMain)'
      <3>1. Proposal(r.old, r.new) /\ r.new \in CommitNames
        BY <1>2 DEF GraphInv
      <3> QED
        BY <1>1, <2>1, <2>2, <2>4, <3>1 DEF LateLands, Proposal
    <2>5. ASSUME NEW kind \in {"content", "invalid", "stray", "state"}, Produce(kind)
          PROVE  (\A c \in onMain : Anc(c) \subseteq onMain)'
      <3>1. commits'[NewCommit].anc = Anc(remoteTip) \cup {NewCommit}
        BY <2>5, ProduceAppends
      <3>2. onMain' = onMain \cup {NewCommit} /\ NewCommit \in CommitNames'
        BY <2>5, ProduceAppends DEF Produce
      <3>3. remoteTip \in onMain
        BY DEF GraphInv
      <3> QED
        BY <2>1, <3>1, <3>2, <3>3 DEF Anc
    <2>6. CASE UNCHANGED onMain
      BY <1>1, <2>6 DEF GraphInv
    <2> QED
      BY <2>3, <2>4, <2>5, <2>6, MainFrame DEF Rewrite
  <1>7. (\A r \in late : Proposal(r.old, r.new))'
    <2>1. \A r \in late : Proposal(r.old, r.new)'
      BY <1>1, <1>2 DEF GraphInv
    <2>2. ASSUME Abandon, pending # None
          PROVE  (\A r \in late : Proposal(r.old, r.new))'
      <3> DEFINE p == pending.prev
                 q == pending.commit
      <3>1. Proposal(p, q) /\ p \in CommitNames /\ q \in CommitNames
        BY <1>2, <2>2 DEF GraphInv
      <3>2. late' \subseteq late \cup {[old |-> p, new |-> q]}
        BY <2>2 DEF Abandon
      <3> HIDE DEF p, q
      <3>3. \A old, new \in CommitNames : Proposal(old, new) =>
                (old \in onMain' /\ commits'[new].anc = commits'[old].anc \cup {new})
        BY <1>1 DEF Proposal, Anc
      <3>4. \A r \in late' : r.old \in onMain' /\ commits'[r.new].anc = commits'[r.old].anc \cup {r.new}
        BY <2>1, <3>1, <3>2, <3>3 DEF Proposal, Anc
      <3> QED
        BY <3>4 DEF Proposal, Anc
    <2>3. CASE PushFails \/ Crash
      BY <2>1, <2>2, <2>3 DEF PushFails, Crash, Abandon, TypeInv, PhaseOK
    <2>4. CASE late' \subseteq late
      BY <2>1, <2>4
    <2> QED
      BY <2>3, <2>4, LateFrame DEF LateLands
  <1>8. (pending # None => Proposal(pending.prev, pending.commit))'
    <2>1. CASE BuildCandidate
      <3>1. fetched \in onMain /\ commits'[fetched].anc = Anc(fetched)
        BY <1>1, <2>1, BuildAppends DEF Anc, GraphInv
      <3>2. commits'[NewCommit].anc = commits'[fetched].anc \cup {NewCommit}
        BY <2>1, <3>1, BuildAppends
      <3>3. pending'.prev = fetched /\ pending'.commit = NewCommit
        BY <2>1 DEF BuildCandidate
      <3> QED
        BY <1>1, <3>1, <3>2, <3>3 DEF Proposal, Anc
    <2>2. CASE UNCHANGED pending
      <3>1. pending # None => /\ pending.prev \in onMain'
                             /\ commits'[pending.commit].anc
                                    = commits'[pending.prev].anc \cup {pending.commit}
        BY <1>1, <1>2 DEF GraphInv, Proposal, Anc
      <3> QED
        BY <2>2, <3>1 DEF Proposal, Anc
    <2> QED
      BY <2>1, <2>2, PendingFrame
         DEF RecoverNotLanded, PushStale, PushExhausted, ClearPending
  <1>9. (pc \in FinalLabels \/ push = "ok" => pending.commit \in onMain)'
    <2>1. CASE RecoverConfirmed
      <3>1. pending.commit \in Anc(remoteTip)
        BY <2>1 DEF RecoverConfirmed, Confirmed
      <3> QED
        BY <1>1, <2>1, <3>1 DEF RecoverConfirmed, GraphInv, metaVars
    <2>2. CASE RemoteAccepts
      BY <2>2 DEF RemoteAccepts, metaVars
    <2> QED
      BY <1>1, <2>1, <2>2, LandedFrame DEF GraphInv
  <1> QED
    BY <1>3, <1>4, <1>5, <1>6, <1>7, <1>8, <1>9 DEF GraphInv

-----------------------------------------------------------------------------
(* Markers: what one vouches for is at least in the reader's files, and what *)
(* a candidate vouches for is in its tree.                                   *)

LEMMA StateGrows ==
    ASSUME TypeInv, Next
    PROVE  \A e \in Entries : state[e] <= state'[e]
  <1>1. state \in [Entries -> Nat]
    BY DEF TypeInv, TypeOK, ReaderTypeOK
  <1> QED
    BY <1>1, ReaderFrame DEF WriteState, MarkDirty, MarkFails, Crash

LEMMA SettleFrame ==
    ASSUME Next, pc' = "settle"
    PROVE  \/ pc = "settle" /\ UNCHANGED <<snap, fetched>>
           \/ NothingToCommit
  BY AfterTipType
     DEF Goto, Rest, StopWithConflict, taskVars,
        Next, Reader, Task, Failure, Operator, Remote, Recovery, Activation, Finalization,
        WriteState, MarkDirty, MarkFails, StartPublish, StartPull,
        RecoverNotLanded, RecoverUnconfirmed, RecoverForked, RecoverConfirmed,
        TakeSnapshot, PreflightRefused, Preflight, FetchFails,
        FetchViolates, MeetTemporary, StateInvalid, RepositoryRefused, FetchRefused,
        FetchSame, FetchNew, AdvanceRefused, Advance, ActivateSwapOut,
        ActivateSwapIn, ActivateSync, ActivateRef, ActivateUnlock,
        ActivateFails, ActivateStrands, RecordPull, ClearSettled,
        BuildCandidate, PushOk, PushStale, PushExhausted, PushFails,
        FinalizeCheckout, FinalizeSync, ClearMarkers, ClearPending, Crash,
        AcknowledgeConflict, RecoverLocal, RemoteAccepts, RemoteRefuses,
        LateLands, Produce, Rewrite

LEMMA MarkerNext ==
    ASSUME TypeInv, GraphInv, MarkerInv, Next
    PROVE  MarkerInv'
  <1>1. /\ TypeOK /\ PhaseOK
        /\ state \in [Entries -> Nat] /\ state' \in [Entries -> Nat]
        /\ markers \subseteq Markers /\ snap \subseteq Markers
        /\ pending # None => /\ pending.markers \subseteq Markers
                            /\ pending.commit \in CommitNames
        /\ \A c \in CommitNames : Tree(c) \in Trees
    BY ReaderTypeNext, CommitFields
       DEF TypeInv, TypeOK, ReaderTypeOK, TaskTypeOK, MetaTypeOK, Pendings
  <1>2. /\ onMain \subseteq onMain' /\ onMain \subseteq CommitNames
        /\ \A c \in CommitNames : Tree(c)' = Tree(c)
    BY MainGrows
  <1>3. \A c \in CommitNames, m \in Markers : Holds(c, m) => Holds(c, m)'
    BY <1>2 DEF Holds
  <1>4. (\A m \in markers \cup snap : m.version <= state[m.entry])'
    <2>1. \A m \in markers \cup snap : m.version <= state'[m.entry]
      BY <1>1, StateGrows DEF MarkerInv, Markers
    <2>2. snap' \subseteq markers \cup snap
      BY <1>1, TaskFrame DEF TypeOK
    <2>3. \A m \in markers' : m.version <= state'[m.entry]
      <3>1. CASE MarkDirty
        <4>1. writing \in Entries /\ state' = state
          BY <1>1, <3>1 DEF MarkDirty, TypeOK, ReaderTypeOK
        <4>2. \A m \in markers' : m \in markers
                  \/ m = [entry |-> writing, version |-> state[writing]]
          BY <3>1 DEF MarkDirty
        <4> QED
          BY <1>1, <2>1, <4>1, <4>2
      <3> QED
        BY <2>1, <3>1, MarkersFrame DEF ClearSettled, ClearMarkers
    <2> QED
      BY <2>1, <2>2, <2>3
  <1>5. (pending # None => \A m \in pending.markers : Holds(pending.commit, m))'
    <2>1. CASE BuildCandidate
      <3>1. pending'.commit = NewCommit /\ pending'.markers = snap
        BY <2>1 DEF BuildCandidate
      <3>2. commits'[NewCommit].tree = ReaderTree
        BY <2>1, BuildAppends
      <3>3. \A m \in snap : m.version <= state[m.entry]
        BY DEF MarkerInv
      <3> QED
        BY <3>1, <3>2, <3>3 DEF Holds, ReaderTree, Tree
    <2>2. CASE UNCHANGED pending
      <3>1. pending # None => \A m \in pending.markers :
                m.version <= commits'[pending.commit].tree.v[m.entry]
        BY <1>1, <1>2 DEF MarkerInv, Holds, Tree
      <3> QED
        BY <2>2, <3>1 DEF Holds, Tree
    <2> QED
      BY <2>1, <2>2, PendingFrame
         DEF RecoverNotLanded, PushStale, PushExhausted, ClearPending
  <1>6. (pc = "settle" => \A m \in snap : Holds(fetched, m))'
    <2>1. CASE NothingToCommit
      <3>1. /\ fetched \in CommitNames /\ fetched' = fetched /\ snap' = snap
            /\ Tree(fetched) = ReaderTree
        BY <1>1, <2>1 DEF NothingToCommit, Goto, TypeOK, TaskTypeOK, PhaseOK, FetchedLabels
      <3>2. \A m \in snap : Holds(fetched, m)
        BY <3>1 DEF MarkerInv, Holds, ReaderTree
      <3> QED
        BY <1>1, <1>2, <3>1, <3>2 DEF Holds, Tree
    <2>2. CASE pc = "settle" /\ UNCHANGED <<snap, fetched>>
      <3>1. fetched \in CommitNames
        BY <1>1, <2>2 DEF TypeOK, TaskTypeOK, PhaseOK, FetchedLabels
      <3> QED
        BY <1>1, <1>2, <2>2, <3>1 DEF MarkerInv, Holds, Tree
    <2> QED
      BY <2>1, <2>2, SettleFrame
  <1>7. NoLostMutation'
    <2>1. ASSUME NEW e \in Entries, acked'[e] > 0
          PROVE  \/ [entry |-> e, version |-> acked'[e]] \in markers'
                 \/ \E c \in onMain' : Tree(c)'.v[e] >= acked'[e]
      <3> DEFINE m == [entry |-> e, version |-> acked[e]]
      <3>1. acked \in [Entries -> Nat] /\ m \in Markers
        BY DEF TypeInv, TypeOK, ReaderTypeOK, Markers
      <3>2. CASE acked'[e] # acked[e]
        <4>1. MarkDirty
          BY <3>2, ReaderFrame DEF WriteState, MarkFails, Crash
        <4>2. writing = e /\ acked'[e] = state[e]
          BY <3>1, <3>2, <4>1 DEF MarkDirty
        <4> QED
          BY <4>1, <4>2 DEF MarkDirty
      <3>3. CASE acked'[e] = acked[e]
        <4>1. m \in markers \/ \E c \in onMain : Tree(c).v[e] >= acked[e]
          BY <2>1, <3>3 DEF MarkerInv, NoLostMutation, Published
        <4>2. CASE \E c \in onMain : Tree(c).v[e] >= acked[e]
          BY <1>2, <3>3, <4>2
        <4>3. ASSUME NEW c \in onMain, Holds(c, m)
              PROVE  \E d \in onMain' : Tree(d)'.v[e] >= acked'[e]
          <5>1. m.entry = e /\ m.version = acked[e]
            OBVIOUS
          <5>2. Tree(c).v[e] \in Nat /\ acked[e] \in Nat
            BY <1>1, <1>2, <3>1 DEF Trees
          <5>3. Tree(c).v[e] >= acked[e]
            BY <4>3, <5>1, <5>2 DEF Holds
          <5> QED
            BY <1>2, <3>3, <5>3
        <4>4. CASE m \in markers /\ m \notin markers'
          <5>1. CASE ClearSettled
            <6>1. m \in snap /\ pc = "settle" /\ fetched # 0
              BY <1>1, <4>4, <5>1 DEF ClearSettled, PhaseOK, FetchedLabels
            <6> QED
              BY <4>3, <6>1 DEF MarkerInv, GraphInv
          <5>2. CASE ClearMarkers
            <6>1. m \in pending.markers /\ pc = "clear" /\ pending # None
              BY <1>1, <4>4, <5>2 DEF ClearMarkers, PhaseOK, FinalLabels
            <6> QED
              BY <4>3, <6>1 DEF MarkerInv, GraphInv, FinalLabels
          <5> QED
            BY <4>4, <5>1, <5>2, MarkersFrame DEF MarkDirty
        <4> QED
          BY <3>3, <4>1, <4>2, <4>4
      <3> QED
        BY <3>2, <3>3
    <2> QED
      BY <2>1 DEF NoLostMutation, Published, Tree
  <1> QED
    BY <1>4, <1>5, <1>6, <1>7 DEF MarkerInv

-----------------------------------------------------------------------------
(* The theorems *)

LEMMA InvInit == Init => IInv
  <1> SUFFICES ASSUME Init
               PROVE  IInv
    OBVIOUS
  <1>1. TypeInv
    BY TypeInit
  <1>2. CommitNames = {1} /\ Anc(1) = {1}
    BY DEF Init, CommitNames, Anc
  <1>3. GraphInv
    BY <1>2 DEF Init, GraphInv, FinalLabels
  <1>4. MarkerInv
    BY DEF Init, MarkerInv, NoLostMutation
  <1> QED
    BY <1>1, <1>3, <1>4 DEF IInv

LEMMA InvStep == IInv /\ [Next]_vars => IInv'
  <1> SUFFICES ASSUME IInv, [Next]_vars
               PROVE  IInv'
    OBVIOUS
  <1>1. TypeInv'
    BY TypeStep DEF IInv
  <1>2. CASE Next
    BY <1>1, <1>2, GraphNext, MarkerNext DEF IInv
  <1>3. CASE UNCHANGED vars
    BY <1>1, <1>3 DEF vars, remoteVars, readerVars, treeVars, metaVars, taskVars, IInv,
        GraphInv, MarkerInv, NoLostMutation, Published, Holds, Proposal, Anc, Tree
  <1> QED
    BY <1>2, <1>3

LEMMA Invariance == Spec => []IInv
  BY InvInit, InvStep, PTL DEF Spec

\* An acknowledged mutation is marked dirty or has been published, whatever
\* crashes, is lost, delayed or races: for any number of entries, commits and faults.
THEOREM MutationsSurvive == Spec => []NoLostMutation
  <1>1. IInv => NoLostMutation
    BY DEF IInv, MarkerInv
  <1> QED
    BY <1>1, Invariance, PTL

\* A candidate becomes local history only after it has been on the remote branch.
THEOREM LocalHistoryIsRemote == Spec => []LocalTipOnMain
  <1>1. IInv => LocalTipOnMain
    BY DEF IInv, GraphInv, LocalTipOnMain
  <1> QED
    BY <1>1, Invariance, PTL

-----------------------------------------------------------------------------
(***************************************************************************)
(* History.  That the local branch only moves forward rests on what the    *)
(* task has learnt by the time it moves it: a fetched tip that was audited *)
(* continues the local branch, and a pushed commit is on top of it.        *)
(***************************************************************************)

OnTopLabels == {"advance", "swapOut", "swapIn", "actSync", "actRef"}
AtTipLabels == {"unlock", "build"}
PushedLabels == {"push", "checkout"}
SettledLabels == {"finalize", "clear", "unpend"}

HistoryInv ==
    /\ pc \in OnTopLabels => localTip \in Anc(fetched)
    /\ pc \in AtTipLabels => localTip = fetched
    /\ pc \in PushedLabels => localTip \in {pending.prev, pending.commit}
    /\ pc \in SettledLabels => localTip = pending.commit
    /\ pc \in {"build", "push"} => route = "publish"
    /\ pc \in FinalLabels /\ route # "publish" => pending.commit \in Anc(fetched)
    /\ ~rewritten => onMain \subseteq Anc(remoteTip)
    /\ DivergenceIsGenuine

HInv == IInv /\ HistoryInv

LEMMA NoneIsNotDiverged == None # "diverged"
  BY NoneAssumption DEF Reasons

LEMMA DivergedIsOffBranch ==
    \A tip : Refusal(tip) = "diverged" <=> localTip \notin Anc(tip)
  BY NoneIsNotDiverged DEF Refusal

\* How the task comes to have a tip to activate.
LEMMA OnTopFrame ==
    ASSUME TypeInv, Next, pc' \in OnTopLabels
    PROVE  \/ pc \in OnTopLabels /\ UNCHANGED <<localTip, fetched>>
           \/ FetchNew
           \/ ClearPending /\ pc = "unpend" /\ route # "publish" /\ UNCHANGED <<localTip, fetched>>
  <1>1. PhaseOK
    BY DEF TypeInv
  <1> QED
    BY <1>1, AfterTipType
     DEF OnTopLabels, PhaseOK, Goto, Rest, StopWithConflict, taskVars,
         treeVars, metaVars, remoteVars, Next, Reader, Task, Failure,
         Operator, Remote, Recovery, Activation, Finalization, WriteState,
         MarkDirty, MarkFails, StartPublish, StartPull, RecoverNotLanded,
         RecoverUnconfirmed, RecoverForked, RecoverConfirmed, TakeSnapshot,
         PreflightRefused, Preflight, FetchFails,
         FetchViolates, MeetTemporary, StateInvalid, RepositoryRefused,
         FetchRefused, FetchSame,
         AdvanceRefused, Advance, ActivateSwapOut, ActivateSwapIn,
         ActivateSync, ActivateRef, ActivateUnlock, ActivateFails,
         ActivateStrands, RecordPull, NothingToCommit, ClearSettled,
         BuildCandidate, PushOk, PushStale, PushExhausted, PushFails,
         FinalizeCheckout, FinalizeSync, ClearMarkers, ClearPending, Crash,
         AcknowledgeConflict, RecoverLocal, RemoteAccepts, RemoteRefuses,
         LateLands, Produce, Rewrite

\* How the local branch comes to be the fetched tip.
LEMMA AtTipFrame ==
    ASSUME TypeInv, Next, pc' \in AtTipLabels
    PROVE  \/ pc \in AtTipLabels /\ UNCHANGED <<localTip, fetched>>
           \/ localTip = remoteTip /\ fetched' = remoteTip /\ localTip' = localTip
           \/ localTip' = fetched /\ fetched' = fetched
  <1>1. PhaseOK
    BY DEF TypeInv
  <1> QED
    BY <1>1, AfterTipType
     DEF AtTipLabels, PhaseOK, Goto, Rest, StopWithConflict, taskVars,
         treeVars, metaVars, remoteVars, Next, Reader, Task, Failure,
         Operator, Remote, Recovery, Activation, Finalization, WriteState,
         MarkDirty, MarkFails, StartPublish, StartPull, RecoverNotLanded,
         RecoverUnconfirmed, RecoverForked, RecoverConfirmed, TakeSnapshot,
         PreflightRefused, Preflight, FetchFails,
         FetchViolates, MeetTemporary, StateInvalid, RepositoryRefused,
         FetchRefused, FetchSame,
         FetchNew, AdvanceRefused, Advance, ActivateSwapOut, ActivateSwapIn,
         ActivateSync, ActivateRef, ActivateUnlock, ActivateFails,
         ActivateStrands, RecordPull, NothingToCommit, ClearSettled,
         BuildCandidate, PushOk, PushStale, PushExhausted, PushFails,
         FinalizeCheckout, FinalizeSync, ClearMarkers, ClearPending, Crash,
         AcknowledgeConflict, RecoverLocal, RemoteAccepts, RemoteRefuses,
         LateLands, Produce, Rewrite

\* Pushing starts with a candidate, or with a push found to have landed.
LEMMA PushedFrame ==
    ASSUME TypeInv, Next, pc' \in PushedLabels
    PROVE  \/ pc \in PushedLabels /\ UNCHANGED <<localTip, pending>>
           \/ BuildCandidate
           \/ RecoverConfirmed
  <1>1. PhaseOK
    BY DEF TypeInv
  <1> QED
    BY <1>1, AfterTipType
     DEF PushedLabels, PhaseOK, Goto, Rest, StopWithConflict, taskVars,
         treeVars, metaVars, remoteVars, Next, Reader, Task, Failure,
         Operator, Remote, Recovery, Activation, Finalization, WriteState,
         MarkDirty, MarkFails, StartPublish, StartPull, RecoverNotLanded,
         RecoverUnconfirmed, RecoverForked, TakeSnapshot, PreflightRefused,
         Preflight, FetchFails,
         FetchViolates, MeetTemporary, StateInvalid, RepositoryRefused,
         FetchRefused, FetchSame, FetchNew,
         AdvanceRefused, Advance, ActivateSwapOut, ActivateSwapIn,
         ActivateSync, ActivateRef, ActivateUnlock, ActivateFails,
         ActivateStrands, RecordPull, NothingToCommit, ClearSettled, PushOk,
         PushStale, PushExhausted, PushFails, FinalizeCheckout, FinalizeSync,
         ClearMarkers, ClearPending, Crash, AcknowledgeConflict, RecoverLocal,
         RemoteAccepts, RemoteRefuses, LateLands, Produce, Rewrite

\* A landed push is checked out before anything else.
LEMMA SettledFrame ==
    ASSUME TypeInv, Next, pc' \in SettledLabels
    PROVE  \/ pc \in SettledLabels /\ UNCHANGED <<localTip, pending>>
           \/ localTip' = pending.commit /\ pending' = pending
  <1>1. PhaseOK
    BY DEF TypeInv
  <1> QED
    BY <1>1, AfterTipType
     DEF SettledLabels, PhaseOK, Goto, Rest, StopWithConflict, taskVars,
         treeVars, metaVars, remoteVars, Next, Reader, Task, Failure,
         Operator, Remote, Recovery, Activation, Finalization, WriteState,
         MarkDirty, MarkFails, StartPublish, StartPull, RecoverNotLanded,
         RecoverUnconfirmed, RecoverForked, RecoverConfirmed, TakeSnapshot,
         PreflightRefused, Preflight, FetchFails,
         FetchViolates, MeetTemporary, StateInvalid, RepositoryRefused,
         FetchRefused, FetchSame,
         FetchNew, AdvanceRefused, Advance, ActivateSwapOut, ActivateSwapIn,
         ActivateSync, ActivateRef, ActivateUnlock, ActivateFails,
         ActivateStrands, RecordPull, NothingToCommit, ClearSettled,
         BuildCandidate, PushOk, PushStale, PushExhausted, PushFails,
         FinalizeCheckout, FinalizeSync, ClearMarkers, ClearPending, Crash,
         AcknowledgeConflict, RecoverLocal, RemoteAccepts, RemoteRefuses,
         LateLands, Produce, Rewrite

\* Only publish_state builds and pushes.
LEMMA PublishFrame ==
    ASSUME TypeInv, Next, pc' \in {"build", "push"}
    PROVE  \/ pc \in {"build", "push"} /\ UNCHANGED route
           \/ route' = "publish"
  <1>1. PhaseOK
    BY DEF TypeInv
  <1> QED
    BY <1>1, AfterTipType
     DEF AfterTip, PhaseOK, Goto, Rest, StopWithConflict, taskVars, treeVars,
         metaVars, remoteVars, Next, Reader, Task, Failure, Operator, Remote,
         Recovery, Activation, Finalization, WriteState, MarkDirty, MarkFails,
         StartPublish, StartPull, RecoverNotLanded, RecoverUnconfirmed,
         RecoverForked, RecoverConfirmed, TakeSnapshot, PreflightRefused,
         Preflight, FetchFails,
         FetchViolates, MeetTemporary, StateInvalid, RepositoryRefused,
         FetchRefused, FetchSame, FetchNew,
         AdvanceRefused, Advance, ActivateSwapOut, ActivateSwapIn,
         ActivateSync, ActivateRef, ActivateUnlock, ActivateFails,
         ActivateStrands, RecordPull, NothingToCommit, ClearSettled,
         BuildCandidate, PushOk, PushStale, PushExhausted, PushFails,
         FinalizeCheckout, FinalizeSync, ClearMarkers, ClearPending, Crash,
         AcknowledgeConflict, RecoverLocal, RemoteAccepts, RemoteRefuses,
         LateLands, Produce, Rewrite

\* Finalization starts after a push, or after a confirmed recovery.
LEMMA FinalFrame ==
    ASSUME TypeInv, Next, pc' \in FinalLabels
    PROVE  \/ pc \in FinalLabels /\ UNCHANGED <<fetched, pending, route>>
           \/ RecoverConfirmed
           \/ pc = "push" /\ UNCHANGED route
  <1>1. PhaseOK
    BY DEF TypeInv
  <1> QED
    BY <1>1, AfterTipType
     DEF FinalLabels, PhaseOK, Goto, Rest, StopWithConflict, taskVars,
         treeVars, metaVars, remoteVars, Next, Reader, Task, Failure,
         Operator, Remote, Recovery, Activation, Finalization, WriteState,
         MarkDirty, MarkFails, StartPublish, StartPull, RecoverNotLanded,
         RecoverUnconfirmed, RecoverForked, TakeSnapshot, PreflightRefused,
         Preflight, FetchFails,
         FetchViolates, MeetTemporary, StateInvalid, RepositoryRefused,
         FetchRefused, FetchSame, FetchNew,
         AdvanceRefused, Advance, ActivateSwapOut, ActivateSwapIn,
         ActivateSync, ActivateRef, ActivateUnlock, ActivateFails,
         ActivateStrands, RecordPull, NothingToCommit, ClearSettled,
         BuildCandidate, PushOk, PushStale, PushExhausted, PushFails,
         FinalizeCheckout, FinalizeSync, ClearMarkers, ClearPending, Crash,
         AcknowledgeConflict, RecoverLocal, RemoteAccepts, RemoteRefuses,
         LateLands, Produce, Rewrite

\* How the reason "diverged" is reported.
LEMMA DivergedFrame ==
    ASSUME TypeInv, Next, conflict' = "diverged"
    PROVE  \/ UNCHANGED conflict
           \/ FetchRefused
           \/ AdvanceRefused
  <1>1. PhaseOK
    BY DEF TypeInv
  <1> QED
    BY <1>1, AfterTipType, NoneIsNotDiverged
     DEF PhaseOK, Goto, Rest, StopWithConflict, taskVars, treeVars, metaVars,
         remoteVars, Next, Reader, Task, Failure, Operator, Remote, Recovery,
         Activation, Finalization, WriteState, MarkDirty, MarkFails,
         StartPublish, StartPull, RecoverNotLanded, RecoverUnconfirmed,
         RecoverForked, RecoverConfirmed, TakeSnapshot, PreflightRefused,
         Preflight, FetchFails,
         FetchViolates, MeetTemporary, StateInvalid, RepositoryRefused,
         FetchSame, FetchNew, Advance, ActivateSwapOut,
         ActivateSwapIn, ActivateSync, ActivateRef, ActivateUnlock,
         ActivateFails, ActivateStrands, RecordPull, NothingToCommit,
         ClearSettled, BuildCandidate, PushOk, PushStale, PushExhausted,
         PushFails, FinalizeCheckout, FinalizeSync, ClearMarkers,
         ClearPending, Crash, AcknowledgeConflict, RecoverLocal,
         RemoteAccepts, RemoteRefuses, LateLands, Produce, Rewrite

\* What others and our own pushes put on the branch continues it.
LEMMA BranchIsLinear ==
    ASSUME IInv, HistoryInv, Next
    PROVE  (~rewritten => onMain \subseteq Anc(remoteTip))'
  <1>1. /\ onMain \subseteq CommitNames /\ remoteTip \in CommitNames
        /\ \A c \in CommitNames : Anc(c)' = Anc(c)
        /\ late \subseteq [old : CommitNames, new : CommitNames]
        /\ pending # None => pending.prev \in CommitNames /\ pending.commit \in CommitNames
    BY MainGrows DEF IInv, TypeInv, TypeOK, RemoteTypeOK, MetaTypeOK
  <1>2. CASE RemoteAccepts
    <2>1. pending # None /\ Anc(pending.commit) = Anc(remoteTip) \cup {pending.commit}
      BY <1>2 DEF RemoteAccepts, IInv, TypeInv, PhaseOK, GraphInv, Proposal
    <2>2. commits'[pending.commit].anc = Anc(remoteTip) \cup {pending.commit}
      BY <1>1, <2>1 DEF Anc
    <2> QED
      BY <1>2, <2>2 DEF RemoteAccepts, HistoryInv, Anc
  <1>3. ASSUME NEW r \in late, LateLands(r)
        PROVE  (~rewritten => onMain \subseteq Anc(remoteTip))'
    <2>1. commits'[r.new].anc = Anc(remoteTip) \cup {r.new}
      BY <1>1, <1>3 DEF LateLands, IInv, GraphInv, Proposal, Anc
    <2> QED
      BY <1>3, <2>1 DEF LateLands, HistoryInv, Anc
  <1>4. ASSUME NEW kind \in {"content", "invalid", "stray", "state"}, Produce(kind)
        PROVE  (~rewritten => onMain \subseteq Anc(remoteTip))'
    <2>1. commits'[NewCommit].anc = Anc(remoteTip) \cup {NewCommit}
      BY <1>4, ProduceAppends DEF IInv
    <2> QED
      BY <1>4, <2>1 DEF Produce, HistoryInv, Anc
  <1>5. CASE UNCHANGED <<remoteTip, onMain, rewritten>>
    BY <1>1, <1>5 DEF HistoryInv, Anc
  <1> QED
    BY <1>2, <1>3, <1>4, <1>5, MainFrame DEF Rewrite

LEMMA HistoryNext ==
    ASSUME IInv, HistoryInv, Next
    PROVE  HistoryInv'
  <1>1. /\ TypeInv /\ GraphInv
        /\ localTip \in CommitNames /\ localTip \in onMain
        /\ remoteTip \in CommitNames /\ fetched \in CommitNames \cup {0}
        /\ \A c \in CommitNames : Anc(c)' = Anc(c) /\ c \in Anc(c)
        /\ pending # None => /\ pending.prev \in CommitNames /\ pending.commit \in CommitNames
                            /\ pending.prev \in Anc(pending.commit)
    BY MainGrows
       DEF IInv, TypeInv, TypeOK, RemoteTypeOK, TreeTypeOK, MetaTypeOK, TaskTypeOK,
           GraphInv, Proposal
  <1>2. /\ pc \in OnTopLabels \cup FinalLabels => fetched \in CommitNames
        /\ pc \in {"recover"} \cup PushedLabels \cup SettledLabels => pending # None
    BY <1>1 DEF TypeInv, PhaseOK, FetchedLabels, FinalLabels, OnTopLabels, PushedLabels,
                SettledLabels
  <1>3. \A tip : Refusal(tip) = "diverged" <=> localTip \notin Anc(tip)
    BY DivergedIsOffBranch
  <1>4. (pc \in OnTopLabels => localTip \in Anc(fetched))'
    <2>1. CASE pc \in OnTopLabels /\ UNCHANGED <<localTip, fetched>>
      BY <1>1, <1>2, <2>1 DEF HistoryInv, Anc
    <2>2. CASE FetchNew
      <3>1. Refusal(remoteTip) = None /\ fetched' = remoteTip /\ localTip' = localTip
        BY <2>2 DEF FetchNew
      <3>2. localTip \in Anc(remoteTip)
        BY <1>3, <3>1, NoneIsNotDiverged
      <3> QED
        BY <1>1, <3>1, <3>2 DEF Anc
    <2>3. CASE pc = "unpend" /\ route # "publish" /\ UNCHANGED <<localTip, fetched>>
      BY <1>1, <1>2, <2>3 DEF HistoryInv, FinalLabels, SettledLabels, Anc
    <2> QED
      BY <1>1, <2>1, <2>2, <2>3, OnTopFrame
  <1>5. (pc \in AtTipLabels => localTip = fetched)'
    BY <1>1, AtTipFrame DEF HistoryInv
  <1>6. (pc \in PushedLabels => localTip \in {pending.prev, pending.commit})'
    <2>1. CASE BuildCandidate
      BY <2>1 DEF BuildCandidate, HistoryInv, AtTipLabels, treeVars
    <2>2. CASE RecoverConfirmed
      BY <2>2 DEF RecoverConfirmed, treeVars, metaVars
    <2> QED
      BY <1>1, <2>1, <2>2, PushedFrame DEF HistoryInv
  <1>7. (pc \in SettledLabels => localTip = pending.commit)'
    BY <1>1, SettledFrame DEF HistoryInv
  <1>8. (pc \in {"build", "push"} => route = "publish")'
    BY <1>1, PublishFrame DEF HistoryInv
  <1>9. (pc \in FinalLabels /\ route # "publish" => pending.commit \in Anc(fetched))'
    <2>1. CASE pc \in FinalLabels /\ UNCHANGED <<fetched, pending, route>>
      BY <1>1, <1>2, <2>1 DEF HistoryInv, Anc
    <2>2. CASE RecoverConfirmed
      BY <1>1, <2>2 DEF RecoverConfirmed, Confirmed, metaVars, Anc
    <2>3. CASE pc = "push" /\ UNCHANGED route
      BY <2>3 DEF HistoryInv
    <2> QED
      BY <1>1, <2>1, <2>2, <2>3, FinalFrame
  <1>10. DivergenceIsGenuine'
    <2>1. rewritten => rewritten'
      BY MainFrame DEF RemoteAccepts, LateLands, Produce, Rewrite
    <2>2. CASE FetchRefused
      <3>1. conflict' = Refusal(remoteTip) /\ rewritten' = rewritten
        BY <2>2 DEF FetchRefused, StopWithConflict, remoteVars
      <3>2. ~rewritten => Refusal(remoteTip) # "diverged"
        BY <1>1, <1>3 DEF HistoryInv
      <3> QED
        BY <3>1, <3>2 DEF DivergenceIsGenuine
    <2>3. CASE AdvanceRefused
      <3>1. conflict' = Refusal(fetched) /\ localTip \in Anc(fetched)
        BY <2>3 DEF AdvanceRefused, StopWithConflict, HistoryInv, OnTopLabels
      <3>2. Refusal(fetched) # "diverged"
        BY <1>3, <3>1
      <3> QED
        BY <3>1, <3>2 DEF DivergenceIsGenuine
    <2> QED
      BY <1>1, <2>1, <2>2, <2>3, DivergedFrame DEF DivergenceIsGenuine, HistoryInv
  <1> QED
    BY <1>4, <1>5, <1>6, <1>7, <1>8, <1>9, <1>10, BranchIsLinear DEF HistoryInv

LEMMA HistoryInit == Init => HInv
  <1> SUFFICES ASSUME Init
               PROVE  HistoryInv
    BY InvInit DEF HInv
  <1>1. conflict # "diverged" /\ pc = "idle" /\ onMain \subseteq Anc(remoteTip)
    BY NoneIsNotDiverged DEF Init, Anc
  <1> QED
    BY <1>1 DEF HistoryInv, DivergenceIsGenuine, OnTopLabels, AtTipLabels, PushedLabels,
                SettledLabels, FinalLabels

LEMMA HistoryStep == HInv /\ [Next]_vars => HInv'
  <1> SUFFICES ASSUME HInv, [Next]_vars
               PROVE  HInv'
    OBVIOUS
  <1>1. CASE Next
    BY <1>1, InvStep, HistoryNext DEF HInv
  <1>2. CASE UNCHANGED vars
    BY <1>2, InvStep
       DEF vars, remoteVars, readerVars, treeVars, metaVars, taskVars, HInv, HistoryInv,
           DivergenceIsGenuine, Anc
  <1> QED
    BY <1>1, <1>2

LEMMA HistoryInvariance == Spec => []HInv
  BY HistoryInit, HistoryStep, PTL DEF Spec

\* "diverged" is reported only for a branch that somebody reset, whatever races,
\* crashes and late pushes came before (preflight_remote_history).
THEOREM DivergedIsRewritten == Spec => []DivergenceIsGenuine
  <1>1. HInv => DivergenceIsGenuine
    BY DEF HInv, HistoryInv
  <1> QED
    BY <1>1, HistoryInvariance, PTL

\* The local branch moves to descendants only, by activation, publication and
\* recovery alike (finalize_fast_forward_checkout).
THEOREM LocalFastForward == Spec => FastForwardOnly
  <1>1. HInv /\ [Next]_vars => [(localTip \in Anc(localTip)')]_vars
    <2> SUFFICES ASSUME HInv, Next
                 PROVE  localTip \in Anc(localTip)'
      OBVIOUS
    <2>1. /\ localTip \in CommitNames
          /\ \A c \in CommitNames : Anc(c)' = Anc(c) /\ c \in Anc(c)
      BY MainGrows DEF HInv, IInv, TypeInv, TypeOK, RemoteTypeOK, TreeTypeOK
    <2>2. CASE UNCHANGED localTip
      BY <2>1, <2>2 DEF Anc
    <2>3. CASE ActivateRef
      <3>1. localTip' = fetched /\ localTip \in Anc(fetched)
        BY <2>3 DEF ActivateRef, HInv, HistoryInv, OnTopLabels
      <3>2. fetched \in CommitNames
        BY <2>3 DEF ActivateRef, HInv, IInv, TypeInv, TypeOK, TaskTypeOK, PhaseOK, FetchedLabels
      <3> QED
        BY <2>1, <3>1, <3>2 DEF Anc
    <2>4. CASE FinalizeCheckout
      <3>1. /\ localTip' = pending.commit /\ pending # None
            /\ localTip \in {pending.prev, pending.commit}
        BY <2>4 DEF FinalizeCheckout, HInv, IInv, HistoryInv, PushedLabels, TypeInv, PhaseOK,
                    FinalLabels
      <3>2. /\ pending.commit \in CommitNames /\ pending.prev \in CommitNames
            /\ pending.prev \in Anc(pending.commit)
        BY <2>1, <3>1 DEF HInv, IInv, GraphInv, Proposal, TypeInv, TypeOK, MetaTypeOK
      <3> QED
        BY <2>1, <3>1, <3>2 DEF Anc
    <2> QED
      BY <2>2, <2>3, <2>4, LocalTipFrame DEF HInv
  <1> QED
    BY <1>1, HistoryInvariance, PTL DEF Spec, FastForwardOnly

-----------------------------------------------------------------------------
(***************************************************************************)
(* State and live areas.  What may be checked out, recorded or confirmed   *)
(* carries a tree of ours; and the live areas leave the local commit's     *)
(* content only under the lock.                                            *)
(***************************************************************************)

\* The labels at which the fetched tip has been audited.
AuditedLabels == SwapLabels \cup {"record"}

OwnInv ==
    /\ ForeignStateRejected
    /\ pending # None => ~pending.tree.alien /\ ~Tree(pending.commit).alien
    /\ pc \in AuditedLabels => ~Tree(fetched).alien

LEMMA AuditedTree ==
    \A tip : Refusal(tip) = None => Tree(tip) = Trusted
  BY NoneAssumption DEF Refusal, Reasons

\* An audited tip is the local one or has passed the audit.
LEMMA AuditedFrame ==
    ASSUME TypeInv, Next, pc' \in AuditedLabels
    PROVE  \/ pc \in AuditedLabels /\ UNCHANGED fetched
           \/ fetched' = remoteTip /\ Refusal(remoteTip) = None
           \/ fetched' = fetched /\ Refusal(fetched) = None
  <1>1. PhaseOK
    BY DEF TypeInv
  <1> QED
    BY <1>1, AfterTipType
     DEF AuditedLabels, SwapLabels, PhaseOK, Goto, Rest, StopWithConflict,
         taskVars, treeVars, metaVars, remoteVars, Next, Reader, Task,
         Failure, Operator, Remote, Recovery, Activation, Finalization,
         WriteState, MarkDirty, MarkFails, StartPublish, StartPull,
         RecoverNotLanded, RecoverUnconfirmed, RecoverForked,
         RecoverConfirmed, TakeSnapshot, PreflightRefused, Preflight,
         FetchFails,
         FetchViolates, MeetTemporary, StateInvalid, RepositoryRefused,
         FetchRefused, FetchSame, FetchNew, AdvanceRefused,
         Advance, ActivateSwapOut, ActivateSwapIn, ActivateSync, ActivateRef,
         ActivateUnlock, ActivateFails, ActivateStrands, RecordPull,
         NothingToCommit, ClearSettled, BuildCandidate, PushOk, PushStale,
         PushExhausted, PushFails, FinalizeCheckout, FinalizeSync,
         ClearMarkers, ClearPending, Crash, AcknowledgeConflict, RecoverLocal,
         RemoteAccepts, RemoteRefuses, LateLands, Produce, Rewrite

LEMMA OwnNext ==
    ASSUME IInv, OwnInv, Next
    PROVE  OwnInv'
  <1>1. /\ TypeInv
        /\ \A c \in CommitNames : Tree(c)' = Tree(c)
        /\ localTip \in CommitNames /\ remoteTip \in CommitNames
        /\ fetched \in CommitNames \cup {0}
        /\ pc \in AuditedLabels \cup {"advance", "build", "actRef"} => fetched \in CommitNames
        /\ pc \in FinalLabels => pending # None
        /\ pending # None => pending.commit \in CommitNames
    BY MainGrows
       DEF IInv, TypeInv, TypeOK, RemoteTypeOK, TreeTypeOK, MetaTypeOK, TaskTypeOK, PhaseOK,
           AuditedLabels, SwapLabels, FetchedLabels
  <1>2. ~Trusted.alien
    BY DEF OwnInv, ForeignStateRejected, Trusted
  <1>3. (~Tree(localTip).alien)'
    <2>1. CASE UNCHANGED localTip
      BY <1>1, <2>1 DEF OwnInv, ForeignStateRejected, Tree
    <2>2. CASE ActivateRef
      BY <1>1, <2>2 DEF ActivateRef, OwnInv, AuditedLabels, SwapLabels, Tree
    <2>3. CASE FinalizeCheckout
      BY <1>1, <2>3 DEF FinalizeCheckout, OwnInv, FinalLabels, Tree
    <2> QED
      BY <2>1, <2>2, <2>3, LocalTipFrame
  <1>4. (sync.tree # None => ~sync.tree.alien)'
    <2>1. CASE UNCHANGED sync
      BY <2>1 DEF OwnInv, ForeignStateRejected
    <2>2. CASE ActivateSync \/ RecordPull
      BY <2>2 DEF ActivateSync, RecordPull, OwnInv, AuditedLabels, SwapLabels
    <2>3. CASE NothingToCommit
      BY <2>3 DEF NothingToCommit, ReaderTree
    <2>4. CASE FinalizeSync
      BY <1>1, <2>4 DEF FinalizeSync, OwnInv, FinalLabels
    <2>5. CASE RecoverLocal
      BY <2>5 DEF RecoverLocal, OwnInv, ForeignStateRejected
    <2> QED
      BY <2>1, <2>2, <2>3, <2>4, <2>5, SyncFrame
  <1>5. (pending # None => ~pending.tree.alien /\ ~Tree(pending.commit).alien)'
    <2>1. CASE UNCHANGED pending
      BY <1>1, <2>1 DEF OwnInv, Tree
    <2>2. CASE BuildCandidate
      <3>1. /\ pending'.tree = ReaderTree /\ pending'.commit = NewCommit
            /\ commits'[NewCommit].tree = ReaderTree
        BY <1>1, <2>2, BuildAppends DEF BuildCandidate
      <3> QED
        BY <3>1 DEF Tree, ReaderTree
    <2> QED
      BY <2>1, <2>2, PendingFrame DEF RecoverNotLanded, PushStale, PushExhausted, ClearPending
  <1>6. (pc \in AuditedLabels => ~Tree(fetched).alien)'
    <2>1. CASE pc \in AuditedLabels /\ UNCHANGED fetched
      BY <1>1, <2>1 DEF OwnInv, Tree
    <2>2. CASE fetched' = remoteTip /\ Refusal(remoteTip) = None
      BY <1>1, <1>2, <2>2, AuditedTree DEF Tree
    <2>3. ASSUME fetched' = fetched, Refusal(fetched) = None, pc' \in AuditedLabels
          PROVE  ~Tree(fetched)'.alien
      <3>1. fetched \in CommitNames
        <4>1. fetched' # 0
          BY <1>1, <2>3, PhaseNext DEF PhaseOK, AuditedLabels, SwapLabels, FetchedLabels
        <4> QED
          BY <1>1, <2>3, <4>1
      <3> QED
        BY <1>1, <1>2, <2>3, <3>1, AuditedTree DEF Tree
    <2> QED
      BY <1>1, <2>1, <2>2, <2>3, AuditedFrame
  <1> QED
    BY <1>3, <1>4, <1>5, <1>6 DEF OwnInv, ForeignStateRejected

LEMMA OwnInvariance == Spec => [](IInv /\ OwnInv)
  <1>1. Init => IInv /\ OwnInv
    <2> SUFFICES ASSUME Init
                 PROVE  OwnInv
      BY InvInit
    <2>1. /\ ~Tree(1).alien /\ localTip = 1 /\ pending = None
          /\ pc \notin AuditedLabels
          /\ sync.tree \in {None, Tree(1)}
      BY DEF Init, Tree, AuditedLabels, SwapLabels
    <2> QED
      BY <2>1 DEF OwnInv, ForeignStateRejected
  <1>2. IInv /\ OwnInv /\ [Next]_vars => (IInv /\ OwnInv)'
    <2> SUFFICES ASSUME IInv, OwnInv, [Next]_vars
                 PROVE  (IInv /\ OwnInv)'
      OBVIOUS
    <2>1. CASE UNCHANGED vars
      BY <2>1, InvStep
         DEF vars, remoteVars, readerVars, treeVars, metaVars, taskVars, OwnInv,
             ForeignStateRejected, Tree
    <2> QED
      BY <2>1, InvStep, OwnNext
  <1> QED
    BY <1>1, <1>2, PTL DEF Spec

\* A state/ tree that another writer pushed is never the local one, never the
\* trusted one, and never taken for the outcome of a push of ours
\* (trusted_state_tree, audit_remote_changes, recover_pending_push).
THEOREM StateIsOurs == Spec => []ForeignStateRejected
  <1>1. OwnInv => ForeignStateRejected
    BY DEF OwnInv
  <1> QED
    BY <1>1, OwnInvariance, PTL

-----------------------------------------------------------------------------

\* While an activation can still be undone, and once it has moved the new areas in.
UndoLabels == {"swapOut", "swapIn", "actSync"}
MovedLabels == {"actSync", "actRef", "unlock"}

LiveInv ==
    /\ pc \in SwapLabels => lock
    /\ pc \in UndoLabels => backup = Content(localTip)
    /\ pc \in MovedLabels => live = Content(fetched)
    /\ pending # None => Content(pending.commit) = Content(pending.prev)
    /\ pc = "advance" => fetched # localTip
    /\ LiveMatchesOrLocked

\* An activation goes on, under its lock, or begins.
LEMMA SwapFrame ==
    ASSUME TypeInv, Next, pc' \in SwapLabels
    PROVE  \/ pc \in SwapLabels /\ UNCHANGED <<fetched, lock, backup>>
           \/ FetchNew
           \/ Advance
  <1>1. PhaseOK
    BY DEF TypeInv
  <1> QED
    BY <1>1, AfterTipType
     DEF SwapLabels, PhaseOK, Goto, Rest, StopWithConflict, taskVars,
         treeVars, metaVars, remoteVars, Next, Reader, Task, Failure,
         Operator, Remote, Recovery, Activation, Finalization, WriteState,
         MarkDirty, MarkFails, StartPublish, StartPull, RecoverNotLanded,
         RecoverUnconfirmed, RecoverForked, RecoverConfirmed, TakeSnapshot,
         PreflightRefused, Preflight, FetchFails,
         FetchViolates, MeetTemporary, StateInvalid, RepositoryRefused,
         FetchRefused, FetchSame,
         AdvanceRefused, ActivateSwapOut, ActivateSwapIn, ActivateSync,
         ActivateRef, ActivateUnlock, ActivateFails, ActivateStrands,
         RecordPull, NothingToCommit, ClearSettled, BuildCandidate, PushOk,
         PushStale, PushExhausted, PushFails, FinalizeCheckout, FinalizeSync,
         ClearMarkers, ClearPending, Crash, AcknowledgeConflict, RecoverLocal,
         RemoteAccepts, RemoteRefuses, LateLands, Produce, Rewrite

\* How a recovered push comes to be followed by an activation.
LEMMA AdvanceFrame ==
    ASSUME TypeInv, Next, pc' = "advance"
    PROVE  \/ pc = "advance" /\ UNCHANGED <<fetched, localTip>>
           \/ pc = "unpend" /\ fetched # pending.commit /\ UNCHANGED <<fetched, localTip>>
  <1>1. PhaseOK
    BY DEF TypeInv
  <1> QED
    BY <1>1, AfterTipType
     DEF PhaseOK, Goto, Rest, StopWithConflict, taskVars, treeVars, metaVars,
         remoteVars, Next, Reader, Task, Failure, Operator, Remote, Recovery,
         Activation, Finalization, WriteState, MarkDirty, MarkFails,
         StartPublish, StartPull, RecoverNotLanded, RecoverUnconfirmed,
         RecoverForked, RecoverConfirmed, TakeSnapshot, PreflightRefused,
         Preflight, FetchFails,
         FetchViolates, MeetTemporary, StateInvalid, RepositoryRefused,
         FetchRefused, FetchSame, FetchNew,
         AdvanceRefused, Advance, ActivateSwapOut, ActivateSwapIn,
         ActivateSync, ActivateRef, ActivateUnlock, ActivateFails,
         ActivateStrands, RecordPull, NothingToCommit, ClearSettled,
         BuildCandidate, PushOk, PushStale, PushExhausted, PushFails,
         FinalizeCheckout, FinalizeSync, ClearMarkers, ClearPending, Crash,
         AcknowledgeConflict, RecoverLocal, RemoteAccepts, RemoteRefuses,
         LateLands, Produce, Rewrite

\* Until the branch moves, an activation keeps what it would undo.
LEMMA UndoFrame ==
    ASSUME TypeInv, Next, pc' \in UndoLabels
    PROVE  \/ pc \in UndoLabels /\ UNCHANGED <<backup, localTip>>
           \/ FetchNew
           \/ Advance
  <1>1. PhaseOK
    BY DEF TypeInv
  <1> QED
    BY <1>1, AfterTipType
     DEF UndoLabels, PhaseOK, Goto, Rest, StopWithConflict, taskVars,
         treeVars, metaVars, remoteVars, Next, Reader, Task, Failure,
         Operator, Remote, Recovery, Activation, Finalization, WriteState,
         MarkDirty, MarkFails, StartPublish, StartPull, RecoverNotLanded,
         RecoverUnconfirmed, RecoverForked, RecoverConfirmed, TakeSnapshot,
         PreflightRefused, Preflight, FetchFails,
         FetchViolates, MeetTemporary, StateInvalid, RepositoryRefused,
         FetchRefused, FetchSame,
         AdvanceRefused, ActivateSwapOut, ActivateSwapIn, ActivateSync,
         ActivateRef, ActivateUnlock, ActivateFails, ActivateStrands,
         RecordPull, NothingToCommit, ClearSettled, BuildCandidate, PushOk,
         PushStale, PushExhausted, PushFails, FinalizeCheckout, FinalizeSync,
         ClearMarkers, ClearPending, Crash, AcknowledgeConflict, RecoverLocal,
         RemoteAccepts, RemoteRefuses, LateLands, Produce, Rewrite

\* Once moved in, the fetched areas stay.
LEMMA MovedFrame ==
    ASSUME TypeInv, Next, pc' \in MovedLabels
    PROVE  \/ pc \in MovedLabels /\ UNCHANGED <<live, fetched>>
           \/ live' = Content(fetched) /\ UNCHANGED <<commits, fetched>>
  <1>1. PhaseOK
    BY DEF TypeInv
  <1> QED
    BY <1>1, AfterTipType
     DEF MovedLabels, PhaseOK, Goto, Rest, StopWithConflict, taskVars,
         treeVars, metaVars, remoteVars, Next, Reader, Task, Failure,
         Operator, Remote, Recovery, Activation, Finalization, WriteState,
         MarkDirty, MarkFails, StartPublish, StartPull, RecoverNotLanded,
         RecoverUnconfirmed, RecoverForked, RecoverConfirmed, TakeSnapshot,
         PreflightRefused, Preflight, FetchFails,
         FetchViolates, MeetTemporary, StateInvalid, RepositoryRefused,
         FetchRefused, FetchSame,
         FetchNew, AdvanceRefused, Advance, ActivateSwapOut, ActivateSwapIn,
         ActivateSync, ActivateRef, ActivateUnlock, ActivateFails,
         ActivateStrands, RecordPull, NothingToCommit, ClearSettled,
         BuildCandidate, PushOk, PushStale, PushExhausted, PushFails,
         FinalizeCheckout, FinalizeSync, ClearMarkers, ClearPending, Crash,
         AcknowledgeConflict, RecoverLocal, RemoteAccepts, RemoteRefuses,
         LateLands, Produce, Rewrite

LEMMA NotBusy ==
    \A tip : Refusal(tip) = None /\ tip # localTip => ~lock
  BY NoneAssumption DEF Refusal, Reasons

LEMMA LiveNext ==
    ASSUME IInv, HistoryInv, LiveInv, Next, ~ActivateStrands
    PROVE  LiveInv'
  <1>1. /\ TypeInv
        /\ \A c \in CommitNames : commits'[c] = commits[c] /\ Content(c)' = Content(c)
        /\ localTip \in CommitNames /\ remoteTip \in CommitNames
        /\ pc \in SwapLabels \cup MovedLabels \cup {"advance"} => fetched \in CommitNames
        /\ pc \in FinalLabels => pending # None
        /\ pending # None => pending.commit \in CommitNames /\ pending.prev \in CommitNames
    BY CommitsGrow
       DEF IInv, TypeInv, TypeOK, RemoteTypeOK, TreeTypeOK, MetaTypeOK, TaskTypeOK, PhaseOK,
           SwapLabels, MovedLabels, FetchedLabels, Content
  <1>2. CASE FetchNew \/ Advance
    <2>1. ~lock /\ localTip' = localTip /\ commits' = commits /\ pending' = pending
      BY <1>2, NotBusy DEF FetchNew, Advance, LiveInv, remoteVars, metaVars
    <2>2. pc' = "swapOut" /\ lock' = TRUE /\ backup' = live
      BY <1>2 DEF FetchNew, Advance, Goto
    <2> QED
      BY <2>1, <2>2 DEF LiveInv, LiveMatchesOrLocked, Content, UndoLabels, MovedLabels
  <1>3. (pc \in SwapLabels => lock)'
    BY <1>1, <1>2, SwapFrame DEF LiveInv
  <1>4. (pc \in UndoLabels => backup = Content(localTip))'
    BY <1>1, <1>2, UndoFrame DEF LiveInv, Content
  <1>5. (pc \in MovedLabels => live = Content(fetched))'
    BY <1>1, MovedFrame DEF LiveInv, Content
  <1>6. (pending # None => Content(pending.commit) = Content(pending.prev))'
    <2>1. CASE UNCHANGED pending
      BY <1>1, <2>1 DEF LiveInv, Content
    <2>2. CASE BuildCandidate
      <3> DEFINE x == CommitOn(fetched, ReaderTree, Content(fetched), commits[fetched].bad)
      <3>1. x \in CommitRecords /\ commits' = Append(commits, x)
        BY <1>1, <2>2, BuildType DEF BuildCandidate
      <3>2. x.content = Content(fetched)
        BY DEF CommitOn
      <3> HIDE DEF x
      <3>3. commits'[NewCommit] = x
        BY <1>1, <3>1, NewCommitIsNamed
      <3>4. pending'.commit = NewCommit /\ pending'.prev = fetched /\ fetched \in CommitNames
        BY <1>1, <2>2, BuildAppends DEF BuildCandidate
      <3> QED
        BY <1>1, <3>2, <3>3, <3>4 DEF Content
    <2> QED
      BY <2>1, <2>2, PendingFrame DEF RecoverNotLanded, PushStale, PushExhausted, ClearPending
  <1>7. (pc = "advance" => fetched # localTip)'
    BY <1>1, AdvanceFrame DEF LiveInv, HistoryInv, SettledLabels
  <1>8. LiveMatchesOrLocked'
    <2>1. CASE UNCHANGED <<live, lock, backup>>
      <3>1. CASE UNCHANGED localTip
        BY <1>1, <2>1, <3>1 DEF LiveInv, LiveMatchesOrLocked, Content
      <3>2. CASE ActivateRef
        BY <2>1, <3>2 DEF ActivateRef, LiveInv, LiveMatchesOrLocked, SwapLabels
      <3>3. CASE FinalizeCheckout
        <4>1. /\ localTip' = pending.commit /\ pending # None
              /\ localTip \in {pending.prev, pending.commit}
          BY <1>1, <3>3 DEF FinalizeCheckout, HistoryInv, PushedLabels, FinalLabels
        <4> QED
          BY <1>1, <2>1, <4>1 DEF LiveInv, LiveMatchesOrLocked, Content
      <3> QED
        BY <1>1, <3>1, <3>2, <3>3, LocalTipFrame
    <2>2. CASE ActivateSwapOut \/ ActivateSwapIn
      BY <2>2 DEF ActivateSwapOut, ActivateSwapIn, LiveInv, LiveMatchesOrLocked, SwapLabels
    <2>3. CASE ActivateUnlock
      <3>1. live' = live /\ localTip' = localTip /\ live = Content(fetched) /\ localTip = fetched
        BY <2>3 DEF ActivateUnlock, LiveInv, HistoryInv, MovedLabels, AtTipLabels
      <3> QED
        BY <1>1, <3>1 DEF LiveMatchesOrLocked, Content
    <2>4. CASE ActivateFails
      <3>1. live' = Content(localTip) /\ localTip' = localTip
        BY <2>4 DEF ActivateFails, LiveInv, UndoLabels
      <3> QED
        BY <1>1, <3>1 DEF LiveMatchesOrLocked, Content
    <2>5. CASE RecoverLocal
      BY <1>1, <2>5 DEF RecoverLocal, LiveMatchesOrLocked, Content
    <2> QED
      BY <1>2, <2>1, <2>2, <2>3, <2>4, <2>5, LiveFrame DEF LiveInv
  <1> QED
    BY <1>3, <1>4, <1>5, <1>6, <1>7, <1>8 DEF LiveInv

LEMMA LiveStutters == LiveInv /\ UNCHANGED vars => LiveInv'
  BY DEF vars, remoteVars, treeVars, metaVars, taskVars, LiveInv, LiveMatchesOrLocked, Content

LEMMA LiveInit == Init => LiveInv
  BY DEF Init, LiveInv, LiveMatchesOrLocked, SwapLabels, UndoLabels, MovedLabels, Content

\* As long as no rename out of the live tree fails, the live areas are those of
\* the local commit or the lock shows that they may not be, through every other
\* fault, race and crash (activate_fetched_snapshot, recover_local_transition).
THEOREM LiveIsLocal ==
    ASSUME "rename" \notin Faults
    PROVE  Spec => []LiveMatchesOrLocked
  <1>1. Init => HInv /\ LiveInv
    BY HistoryInit, LiveInit
  <1>2. HInv /\ LiveInv /\ [Next]_vars => (HInv /\ LiveInv)'
    <2> SUFFICES ASSUME HInv, LiveInv, [Next]_vars
                 PROVE  (HInv /\ LiveInv)'
      OBVIOUS
    <2>1. CASE Next
      <3>1. ~ActivateStrands
        BY DEF ActivateStrands, Fault
      <3> QED
        BY <2>1, <3>1, HistoryStep, LiveNext DEF HInv
    <2>2. CASE UNCHANGED vars
      BY <2>2, HistoryStep, LiveStutters
    <2> QED
      BY <2>1, <2>2
  <1>3. HInv /\ LiveInv => LiveMatchesOrLocked
    BY DEF LiveInv
  <1> QED
    BY <1>1, <1>2, <1>3, PTL DEF Spec

-----------------------------------------------------------------------------
(***************************************************************************)
(* Trust.  The recorded tree is the local commit's from the preflight on,  *)
(* and otherwise unless a landed push is still to be recorded; while its   *)
(* record is there, pending-push.toml says so.                             *)
(***************************************************************************)

TrustLabels == SwapLabels \cup {"fetch", "advance", "record", "build", "settle", "push",
                                "clear", "unpend"}
SameTreeLabels == SwapLabels \cup {"record"}

TrustInv ==
    /\ pending # None => /\ pending.tree = Tree(pending.commit)
                         /\ pending.commit \notin Anc(pending.prev)
    /\ pc = "push" => localTip = pending.prev
    /\ pc \in TrustLabels => Trusted = Tree(localTip)
    /\ pc \in SameTreeLabels => Tree(fetched) = Tree(localTip)
    /\ ~rewritten => \/ Trusted = Tree(localTip)
                     \/ pending # None /\ localTip = pending.commit

\* How the task comes to each of its labels: every action is opened up here.
USE DEF Next, Reader, Task, Failure, Operator, Remote, Recovery, Activation,
    Finalization, WriteState, MarkDirty, MarkFails, StartPublish, StartPull,
    RecoverNotLanded, RecoverUnconfirmed, RecoverForked, RecoverConfirmed,
    TakeSnapshot, PreflightRefused, Preflight, FetchFails,
    FetchViolates, MeetTemporary, StateInvalid, RepositoryRefused, FetchRefused,
    FetchSame, FetchNew, AdvanceRefused, Advance, ActivateSwapOut,
    ActivateSwapIn, ActivateSync, ActivateRef, ActivateUnlock, ActivateFails,
    ActivateStrands, RecordPull, NothingToCommit, ClearSettled,
    BuildCandidate, PushOk, PushStale, PushExhausted, PushFails,
    FinalizeCheckout, FinalizeSync, ClearMarkers, ClearPending, Crash,
    AcknowledgeConflict, RecoverLocal, RemoteAccepts, RemoteRefuses,
    LateLands, Produce, Rewrite, Goto, Rest, StopWithConflict, taskVars,
    treeVars, metaVars, remoteVars, readerVars

\* How the task comes to rely on the recorded tree.
LEMMA TrustFrame ==
    ASSUME TypeInv, Next, pc' \in TrustLabels
    PROVE  \/ pc \in TrustLabels /\ UNCHANGED <<localTip, sync>>
           \/ Preflight \/ ActivateSync \/ ActivateRef \/ NothingToCommit \/ FinalizeSync
  BY AfterTipType DEF TypeInv, PhaseOK, TrustLabels, SwapLabels

\* How a fetched tip comes to have the local commit's state/ tree.
LEMMA SameTreeFrame ==
    ASSUME TypeInv, Next, pc' \in SameTreeLabels
    PROVE  \/ pc \in SameTreeLabels /\ UNCHANGED <<fetched, localTip>>
           \/ FetchNew \/ FetchSame \/ Advance \/ ActivateRef
  BY AfterTipType DEF TypeInv, PhaseOK, SameTreeLabels, SwapLabels

\* A push is under way from its candidate on.
LEMMA PushFrame ==
    ASSUME TypeInv, Next, pc' = "push"
    PROVE  \/ pc = "push" /\ UNCHANGED <<localTip, pending, fetched>>
           \/ BuildCandidate
  BY AfterTipType DEF TypeInv, PhaseOK

\* Which function the task is in tells whether a push is still on record:
\* recover_pending_push settles it before publish_state begins.
RouteInv ==
    /\ pc # "idle" => route # "none"
    /\ pc = "snapshot" => pending = None
    /\ route \in {"recover", "publish"} /\ pc \notin FinalLabels \cup {"idle", "recover", "push"} =>
           pending = None

LEMMA RouteNext ==
    ASSUME TypeInv, RouteInv, Next
    PROVE  RouteInv'
  <1>1. (pc # "idle" => route # "none")'
    BY AfterTipType DEF TypeInv, PhaseOK, RouteInv
  <1>2. (pc = "snapshot" => pending = None)'
    BY DEF TypeInv, TypeOK, TaskTypeOK, PhaseOK, RouteInv, AfterTip, FinalLabels
  <1>3. (route \in {"recover", "publish"}
           /\ pc \notin FinalLabels \cup {"idle", "recover", "push"} => pending = None)'
    BY AfterTipType DEF TypeInv, PhaseOK, RouteInv, FinalLabels
  <1> QED
    BY <1>1, <1>2, <1>3 DEF RouteInv

\* A request not known to be applied belongs to the pending push.
LEMMA AwaitFrame ==
    ASSUME TypeInv, Next, push' \in {"sent", "stale"}
    PROVE  \/ push \in {"sent", "stale"} /\ UNCHANGED pending /\ ~RemoteAccepts
           \/ BuildCandidate
  BY DEF TypeInv, PhaseOK

\* A cycle in which nothing fails: nothing is abandoned half way.
LEMMA NothingFails ==
    ASSUME TypeInv, Next, faults' = 0
    PROVE  /\ faults = 0
           /\ ~StateInvalid /\ ~RepositoryRefused /\ ~FetchViolates
           /\ ~MarkFails /\ ~FetchFails /\ ~ActivateFails /\ ~ActivateStrands
           /\ ~PushFails /\ ~Crash
  <1>1. faults \in Nat
    BY DEF TypeInv, TypeOK, TaskTypeOK
  <1>2. \/ StateInvalid \/ RepositoryRefused \/ FetchViolates
        \/ MarkFails \/ FetchFails \/ ActivateFails \/ ActivateStrands
        \/ PushFails \/ Crash
        => faults' = faults + 1
    BY DEF Fault
  <1>3. faults' \in {faults, faults + 1}
    BY DEF Fault
  <1> HIDE DEF StateInvalid, RepositoryRefused, FetchViolates, MarkFails, FetchFails,
               ActivateFails, ActivateStrands, PushFails, Crash
  <1>4. faults' = 0
    OBVIOUS
  <1>5. faults = 0 /\ faults' # faults + 1
    BY ONLY <1>1, <1>3, <1>4
  <1> QED
    BY ONLY <1>2, <1>5

LEMMA RecoverFrame ==
    ASSUME TypeInv, Next, pc' \in {"recover", "advance"}
    PROVE  \/ pc \in {"recover", "advance"}
           \/ pc = "idle" /\ pending # None
           \/ pc = "unpend" /\ route # "publish"
  BY AfterTipType DEF TypeInv, PhaseOK

LEMMA PendingKept ==
    ASSUME TypeInv, Next, faults' = 0, pc \in FinalLabels \cup {"push"}, UNCHANGED pending
    PROVE  pc' \in FinalLabels \cup {"push"}
  BY NothingFails DEF TypeInv, PhaseOK, FinalLabels

LEMMA LockKept ==
    ASSUME TypeInv, Next, faults' = 0, lock' = TRUE
    PROVE  \/ pc' \in SwapLabels
           \/ lock = TRUE /\ pc \notin SwapLabels
  BY NothingFails DEF TypeInv, PhaseOK, SwapLabels

LEMMA FetchedKept ==
    ASSUME TypeInv, Next, faults' = 0, fetched' # 0, pc \in FinalLabels => route = "publish"
    PROVE  /\ attempt' = attempt
           /\ \/ fetched' = remoteTip /\ remoteTip' = remoteTip
              \/ push' = "ok" \/ pc' \in FinalLabels
              \/ fetched' = fetched /\ push # "ok" /\ pc \notin FinalLabels
  BY NothingFails, AfterTipType DEF TypeInv, PhaseOK, FinalLabels

LEMMA AttemptFrame ==
    ASSUME TypeInv, Next
    PROVE  /\ attempt' \in {attempt, 0} \/ PushStale
           /\ push' = "stale" => UNCHANGED attempt /\ (push = "stale" \/ RemoteRefuses)
  BY DEF TypeInv, PhaseOK

HIDE DEF Next, Reader, Task, Failure, Operator, Remote, Recovery, Activation,
    Finalization, WriteState, MarkDirty, MarkFails, StartPublish, StartPull,
    RecoverNotLanded, RecoverUnconfirmed, RecoverForked, RecoverConfirmed,
    TakeSnapshot, PreflightRefused, Preflight, FetchFails,
    FetchViolates, MeetTemporary, StateInvalid, RepositoryRefused, FetchRefused,
    FetchSame, FetchNew, AdvanceRefused, Advance, ActivateSwapOut,
    ActivateSwapIn, ActivateSync, ActivateRef, ActivateUnlock, ActivateFails,
    ActivateStrands, RecordPull, NothingToCommit, ClearSettled,
    BuildCandidate, PushOk, PushStale, PushExhausted, PushFails,
    FinalizeCheckout, FinalizeSync, ClearMarkers, ClearPending, Crash,
    AcknowledgeConflict, RecoverLocal, RemoteAccepts, RemoteRefuses,
    LateLands, Produce, Rewrite, Goto, Rest, StopWithConflict, taskVars,
    treeVars, metaVars, remoteVars, readerVars

\* The commit of a candidate is a new object that holds the reader's state/.
LEMMA CandidateIsNew ==
    ASSUME TypeInv, BuildCandidate
    PROVE  /\ fetched \in CommitNames /\ NewCommit \in CommitNames' /\ NewCommit \notin CommitNames
           /\ pending'.prev = fetched /\ pending'.commit = NewCommit
           /\ pending'.tree = ReaderTree
           /\ commits'[NewCommit].tree = ReaderTree
           /\ commits'[NewCommit].anc = Anc(fetched) \cup {NewCommit}
  <1>1. NewCommit \notin CommitNames
    BY AppendCommit DEF NewCommit, CommitNames, TypeInv, TypeOK, RemoteTypeOK
  <1> QED
    BY <1>1, BuildAppends DEF BuildCandidate

\* Whoever passes the audit has the trusted tree, which is a tree.
LEMMA TrustedIsTree ==
    ASSUME TypeInv
    PROVE  /\ \A c \in CommitNames : Tree(c) \in Trees /\ Tree(c) # None
           /\ \A tip : Refusal(tip) = None => Tree(tip) = Trusted
  <1>1. \A c \in CommitNames : commits[c] \in CommitRecords
    BY AppendCommit DEF TypeInv, TypeOK, RemoteTypeOK, CommitNames
  <1>2. \A c \in CommitNames : Tree(c) \in Trees
    BY <1>1 DEF CommitRecords, Tree
  <1> QED
    BY <1>2, AuditedTree, NoneAssumption

LEMMA TrustNext ==
    ASSUME IInv, HistoryInv, TrustInv, Next
    PROVE  TrustInv'
  <1>1. /\ TypeInv /\ TypeInv'
        /\ CommitNames \subseteq CommitNames'
        /\ \A c \in CommitNames : /\ Anc(c)' = Anc(c) /\ Tree(c)' = Tree(c)
                                  /\ Anc(c) \subseteq CommitNames
        /\ localTip \in CommitNames /\ remoteTip \in CommitNames
        /\ pc \in TrustLabels \ {"fetch", "clear", "unpend"} => fetched \in CommitNames
        /\ pc \in FinalLabels \cup {"recover", "push"} => pending # None
        /\ pending # None => pending.commit \in CommitNames /\ pending.prev \in CommitNames
    BY MainGrows, CommitsGrow, TypeStep
       DEF IInv, TypeInv, TypeOK, RemoteTypeOK, TreeTypeOK, MetaTypeOK, TaskTypeOK, PhaseOK,
           TrustLabels, SwapLabels, FetchedLabels
  <1>2. /\ \A c \in CommitNames : Tree(c) \in Trees /\ Tree(c) # None
        /\ \A tip : Refusal(tip) = None => Tree(tip) = Trusted
    BY <1>1, TrustedIsTree
  <1>3. CASE BuildCandidate
    <2>1. /\ pending'.tree = Tree(pending.commit)'
          /\ (pending.commit \notin Anc(pending.prev))'
      BY <1>1, <1>3, CandidateIsNew DEF Tree, Anc
    <2>2. pending'.prev = fetched /\ localTip = fetched /\ localTip' = localTip /\ sync' = sync
      BY <1>3 DEF BuildCandidate, HistoryInv, AtTipLabels, treeVars
    <2>3. pc = "build" /\ pc' = "push" /\ Trusted = Tree(localTip)
      BY <1>3 DEF BuildCandidate, TrustInv, TrustLabels
    <2>4. (Trusted = Tree(localTip))'
      BY <1>1, <2>2, <2>3 DEF Trusted
    <2> QED
      BY <2>1, <2>2, <2>3, <2>4 DEF TrustInv, SameTreeLabels, SwapLabels
  <1>4. ASSUME ~BuildCandidate
        PROVE  (pending # None => /\ pending.tree = Tree(pending.commit)
                                  /\ pending.commit \notin Anc(pending.prev))'
    <2>1. CASE UNCHANGED pending
      BY <1>1, <2>1 DEF TrustInv
    <2> QED
      BY <1>4, <2>1, PendingFrame DEF RecoverNotLanded, PushStale, PushExhausted, ClearPending
  <1>5. ASSUME ~BuildCandidate
        PROVE  (pc = "push" => localTip = pending.prev)'
    BY <1>1, <1>5, PushFrame DEF TrustInv
  <1>6. (pc \in TrustLabels => Trusted = Tree(localTip))'
    <2>1. CASE pc \in TrustLabels /\ UNCHANGED <<localTip, sync>>
      BY <1>1, <2>1 DEF TrustInv, Trusted
    <2>2. CASE Preflight
      BY <1>1, <2>2 DEF Preflight, treeVars, metaVars, Trusted
    <2>3. CASE ActivateSync
      <3>1. pc = "actSync" /\ sync'.tree = Tree(fetched) /\ localTip' = localTip
        BY <2>3 DEF ActivateSync, treeVars
      <3>2. Tree(fetched) = Tree(localTip)
        BY <3>1 DEF TrustInv, SameTreeLabels, SwapLabels
      <3> QED
        BY <1>1, <1>2, <3>1, <3>2 DEF Trusted
    <2>4. CASE ActivateRef
      <3>1. pc = "actRef" /\ sync' = sync /\ localTip' = fetched
        BY <2>4 DEF ActivateRef, metaVars
      <3>2. /\ Tree(fetched) = Tree(localTip) /\ Trusted = Tree(localTip)
            /\ fetched \in CommitNames
        BY <1>1, <3>1 DEF TrustInv, SameTreeLabels, TrustLabels, SwapLabels
      <3> QED
        BY <1>1, <3>1, <3>2 DEF Trusted
    <2>5. CASE NothingToCommit
      <3>1. /\ sync'.tree = Tree(fetched) /\ localTip' = localTip /\ localTip = fetched
        BY <2>5 DEF NothingToCommit, treeVars, HistoryInv, AtTipLabels
      <3> QED
        BY <1>1, <1>2, <3>1 DEF Trusted
    <2>6. CASE FinalizeSync
      <3>1. /\ pending # None /\ localTip = pending.commit /\ localTip' = localTip
            /\ sync'.tree = pending.tree
        BY <1>1, <2>6 DEF FinalizeSync, HistoryInv, SettledLabels, FinalLabels, treeVars
      <3> QED
        BY <1>1, <1>2, <3>1 DEF Trusted, TrustInv
    <2> QED
      BY <1>1, <2>1, <2>2, <2>3, <2>4, <2>5, <2>6, TrustFrame
  <1>7. (pc \in SameTreeLabels => Tree(fetched) = Tree(localTip))'
    <2>1. CASE pc \in SameTreeLabels /\ UNCHANGED <<fetched, localTip>>
      <3>1. fetched \in CommitNames
        BY <1>1, <2>1 DEF SameTreeLabels, TrustLabels, SwapLabels
      <3> QED
        BY <1>1, <2>1, <3>1 DEF TrustInv
    <2>2. CASE FetchNew
      <3>1. /\ fetched' = remoteTip /\ Refusal(remoteTip) = None /\ localTip' = localTip
            /\ Trusted = Tree(localTip)
        BY <2>2 DEF FetchNew, TrustInv, TrustLabels
      <3> QED
        BY <1>1, <1>2, <3>1
    <2>3. CASE FetchSame
      BY <2>3 DEF FetchSame, treeVars, Tree
    <2>4. CASE Advance
      <3>1. /\ fetched' = fetched /\ Refusal(fetched) = None /\ localTip' = localTip
            /\ Trusted = Tree(localTip) /\ fetched \in CommitNames
        BY <1>1, <2>4 DEF Advance, Goto, TrustInv, TrustLabels
      <3> QED
        BY <1>1, <1>2, <3>1
    <2>5. CASE ActivateRef
      BY <2>5 DEF ActivateRef, Goto, Tree
    <2> QED
      BY <1>1, <2>1, <2>2, <2>3, <2>4, <2>5, SameTreeFrame
  <1>8. ASSUME ~rewritten', ~BuildCandidate
        PROVE  (\/ Trusted = Tree(localTip)
                \/ pending # None /\ localTip = pending.commit)'
    <2>1. ~rewritten
      BY <1>8, MainFrame DEF RemoteAccepts, LateLands, Produce, Rewrite
    <2>2. CASE UNCHANGED <<localTip, sync>>
      <3>1. Trusted = Tree(localTip) => (Trusted = Tree(localTip))'
        BY <1>1, <2>2 DEF Trusted
      <3>2. CASE UNCHANGED pending
        BY <2>1, <2>2, <3>1, <3>2 DEF TrustInv
      <3>3. CASE PushStale \/ PushExhausted \/ ClearPending
        BY <3>1, <3>3 DEF PushStale, PushExhausted, ClearPending, TrustInv, TrustLabels
      <3>4. CASE RecoverNotLanded
        <4>1. /\ pending # None /\ remoteTip = pending.prev
              /\ localTip \in Anc(remoteTip)
          BY <1>1, <2>1, <3>4 DEF RecoverNotLanded, HistoryInv, IInv, GraphInv
        <4>2. localTip # pending.commit
          BY <4>1 DEF TrustInv
        <4> QED
          BY <2>1, <3>1, <4>2 DEF TrustInv
      <3> QED
        BY <1>8, <3>2, <3>3, <3>4, PendingFrame
    <2>3. CASE pc' \in TrustLabels
      BY <1>6, <2>3
    <2>4. CASE RecordPull
      <3>1. /\ sync'.tree = Tree(fetched) /\ localTip' = localTip
            /\ Tree(fetched) = Tree(localTip)
        BY <2>4 DEF RecordPull, treeVars, TrustInv, SameTreeLabels
      <3> QED
        BY <1>1, <1>2, <3>1 DEF Trusted
    <2>5. CASE RecoverLocal
      <3>1. sync'.tree = Tree(localTip) /\ localTip' = localTip
        BY <2>5 DEF RecoverLocal
      <3> QED
        BY <1>1, <1>2, <3>1 DEF Trusted
    <2>6. CASE FinalizeCheckout
      <3>1. pc = "checkout" /\ localTip' = pending.commit /\ pending' = pending
        BY <2>6 DEF FinalizeCheckout, metaVars
      <3> QED
        BY <1>1, <3>1 DEF FinalLabels
    <2>7. CASE ActivateSync \/ ActivateRef \/ NothingToCommit \/ FinalizeSync
      <3>1. pc' \in {"actRef", "unlock", "settle", "clear"}
        BY <2>7 DEF ActivateSync, ActivateRef, NothingToCommit, FinalizeSync, Goto
      <3> QED
        BY <1>6, <3>1 DEF TrustLabels, SwapLabels
    <2> QED
      BY <2>2, <2>4, <2>5, <2>6, <2>7, SyncFrame, LocalTipFrame
  <1> QED
    BY <1>3, <1>4, <1>5, <1>6, <1>7, <1>8 DEF TrustInv

LEMMA TrustInit == Init => TrustInv
  <1> SUFFICES ASSUME Init
               PROVE  TrustInv
    OBVIOUS
  <1>1. /\ pc = "idle" /\ pending = None /\ localTip = 1
        /\ sync.tree \in {None, Tree(1)}
    BY DEF Init, Tree
  <1> QED
    BY <1>1 DEF TrustInv, TrustLabels, SameTreeLabels, SwapLabels, Trusted

LEMMA TrustStep == HInv /\ TrustInv /\ [Next]_vars => (HInv /\ TrustInv)'
  <1> SUFFICES ASSUME HInv, TrustInv, [Next]_vars
               PROVE  (HInv /\ TrustInv)'
    OBVIOUS
  <1>1. CASE Next
    BY <1>1, HistoryStep, TrustNext DEF HInv
  <1>2. CASE UNCHANGED vars
    BY <1>2, HistoryStep
       DEF vars, remoteVars, treeVars, metaVars, taskVars, TrustInv, Trusted, Tree, Anc
  <1> QED
    BY <1>1, <1>2

\* Whatever was cut short by a crash, a lost reply or a failed write, a cycle
\* that starts with no push to settle on a branch nobody reset finds the
\* recorded tree equal to the local commit's (trusted_state_tree).
THEOREM TrustIsKept == Spec => []TrustedTreeMatches
  <1>1. Init => HInv /\ TrustInv
    BY HistoryInit, TrustInit
  <1>2. HInv /\ TrustInv => TrustedTreeMatches
    BY DEF TrustInv, TrustedTreeMatches
  <1> QED
    BY <1>1, <1>2, TrustStep, PTL DEF Spec

-----------------------------------------------------------------------------
(***************************************************************************)
(* Landing.  A push is forgotten only once it is known not to have landed  *)
(* or has become local history.  All of it rests on no request being left  *)
(* travelling behind the client's back: late stays empty.                  *)
(***************************************************************************)

\* The ancestors of an ancestor are ancestors.
AncestryInv == \A c \in CommitNames : \A a \in Anc(c) : Anc(a) \subseteq Anc(c)

LandInv ==
    /\ late = {}
    /\ AncestryInv
    /\ RouteInv
    /\ push \in {"sent", "stale"} => pending.commit \notin onMain
    /\ pending # None =>
           \A c \in onMain : pending.commit \in Anc(c) /\ ~Tree(c).alien =>
               Tree(c) = Tree(pending.commit)
    /\ LandedPushTracked

LEMMA AncestryNext ==
    ASSUME TypeInv, AncestryInv, Next
    PROVE  AncestryInv'
  <1>1. /\ \A c \in CommitNames : commits'[c] = commits[c] /\ Anc(c) \subseteq CommitNames
        /\ CommitNames \subseteq CommitNames'
        /\ commits \in Seq(CommitRecords)
    BY CommitsGrow DEF TypeInv, TypeOK, RemoteTypeOK
  <1>2. CASE UNCHANGED commits
    BY <1>2 DEF AncestryInv, Anc, CommitNames
  <1>3. ASSUME NEW p \in CommitNames, NEW t \in Trees, NEW n \in Nat,
               NEW b \in SUBSET {"stray", "invalid"},
               commits' = Append(commits, CommitOn(p, t, n, b))
        PROVE  AncestryInv'
    <2> DEFINE x == CommitOn(p, t, n, b)
    <2>1. x \in CommitRecords /\ x.anc = Anc(p) \cup {NewCommit}
      BY CommitOnType DEF CommitOn, TypeInv, CommitNames
    <2> HIDE DEF x
    <2>2. commits' = Append(commits, x)
      BY <1>3 DEF x
    <2>3. CommitNames' = CommitNames \cup {NewCommit} /\ commits'[NewCommit] = x
      BY <1>1, <2>1, <2>2, AppendCommit DEF CommitNames, NewCommit
    <2>4. \A c \in CommitNames : \A a \in Anc(c) : a \in CommitNames /\ Anc(a) \subseteq Anc(c)
      BY <1>1 DEF AncestryInv
    <2>5. \A c \in CommitNames' : \A a \in commits'[c].anc : commits'[a].anc \subseteq commits'[c].anc
      BY <1>1, <2>1, <2>3, <2>4 DEF Anc
    <2> QED
      BY <2>5 DEF AncestryInv, Anc
  <1> QED
    BY <1>2, <1>3, CommitsStep

\* Others' commits keep the tree of the tip or are foreign.
LEMMA ProducedTree ==
    ASSUME TypeInv, NEW kind \in {"content", "invalid", "stray", "state"}, Produce(kind)
    PROVE  commits'[NewCommit].tree = Tree(remoteTip) \/ commits'[NewCommit].tree.alien
  <1>1. Tree(remoteTip) \in Trees
    BY TrustedIsTree DEF TypeInv, TypeOK, RemoteTypeOK
  <1>2. Produced(kind) \in CommitRecords /\ commits' = Append(commits, Produced(kind))
    BY ProducedType DEF Produce, TypeInv
  <1>3. commits'[NewCommit] = Produced(kind)
    BY <1>2, NewCommitIsNamed
  <1>4. Produced(kind).tree = Tree(remoteTip) \/ Produced(kind).tree.alien
    BY <1>1 DEF Produced, CommitOn, Trees
  <1> QED
    BY <1>3, <1>4

LEMMA LandNext ==
    ASSUME IInv, HistoryInv, TrustInv, LandInv, Next, late' = {}
    PROVE  LandInv'
  <1>1. /\ TypeInv /\ TypeInv'
        /\ CommitNames \subseteq CommitNames' /\ onMain \subseteq onMain'
        /\ \A c \in CommitNames : /\ Anc(c)' = Anc(c) /\ Tree(c)' = Tree(c)
                                  /\ Anc(c) \subseteq CommitNames /\ c \in Anc(c)
        /\ localTip \in CommitNames /\ remoteTip \in CommitNames /\ onMain \subseteq CommitNames
        /\ remoteTip \in onMain
        /\ \A c \in onMain : Anc(c) \subseteq onMain
        /\ pc = "actRef" => fetched \in CommitNames
        /\ pc \in FinalLabels \cup {"recover", "push"} => pending # None
        /\ pending # None => pending.commit \in CommitNames /\ pending.prev \in CommitNames
    BY MainGrows, CommitsGrow, TypeStep
       DEF IInv, TypeInv, TypeOK, RemoteTypeOK, TreeTypeOK, MetaTypeOK, TaskTypeOK, PhaseOK,
           FetchedLabels, GraphInv
  <1>2. AncestryInv' /\ RouteInv'
    BY <1>1, AncestryNext, RouteNext DEF LandInv
  \* A new commit on main is the pending one or somebody else's.
  <1>3. \/ UNCHANGED onMain
        \/ RemoteAccepts
        \/ \E kind \in {"content", "invalid", "stray", "state"} : Produce(kind)
    BY MainFrame DEF LandInv, Rewrite
  <1>4. ASSUME NEW kind \in {"content", "invalid", "stray", "state"}, Produce(kind)
        PROVE  /\ onMain' = onMain \cup {NewCommit} /\ NewCommit \notin CommitNames
               /\ commits'[NewCommit].anc = Anc(remoteTip) \cup {NewCommit}
               /\ \/ commits'[NewCommit].tree = Tree(remoteTip)
                  \/ commits'[NewCommit].tree.alien
               /\ UNCHANGED <<localTip, pending, push, rewritten>>
    <2>1. NewCommit \notin CommitNames
      BY <1>1, AppendCommit DEF NewCommit, CommitNames, TypeInv, TypeOK, RemoteTypeOK
    <2>2. /\ onMain' = onMain \cup {NewCommit}
          /\ UNCHANGED <<localTip, pending, push, rewritten>>
      BY <1>4 DEF Produce, treeVars, metaVars, taskVars
    <2> QED
      BY <1>1, <1>4, <2>1, <2>2, ProduceAppends, ProducedTree
  <1>5. (push \in {"sent", "stale"} => pending.commit \notin onMain)'
    <2>1. CASE BuildCandidate
      BY <1>1, <2>1, CandidateIsNew DEF BuildCandidate
    <2>2. ASSUME push \in {"sent", "stale"}, UNCHANGED pending, ~RemoteAccepts
          PROVE  (pending.commit \notin onMain)'
      <3>1. pending # None /\ pending.commit \notin onMain
        BY <1>1, <2>2 DEF LandInv, TypeInv, PhaseOK
      <3> QED
        BY <1>1, <1>3, <1>4, <2>2, <3>1
    <2> QED
      BY <1>1, <2>1, <2>2, AwaitFrame
  <1>6. (pending # None =>
           \A c \in onMain : pending.commit \in Anc(c) /\ ~Tree(c).alien =>
               Tree(c) = Tree(pending.commit))'
    <2>1. CASE BuildCandidate
      <3>1. onMain' = onMain /\ pending'.commit = NewCommit /\ NewCommit \notin CommitNames
        BY <1>1, <2>1, CandidateIsNew DEF BuildCandidate
      <3>2. \A c \in onMain' : NewCommit \notin Anc(c)'
        BY <1>1, <3>1
      <3> QED
        BY <3>1, <3>2
    <2>2. ASSUME UNCHANGED pending, pending # None
          PROVE  (\A c \in onMain : pending.commit \in Anc(c) /\ ~Tree(c).alien =>
                      Tree(c) = Tree(pending.commit))'
      <3> DEFINE p == pending.commit
                 Kept(c) == p \in Anc(c) /\ ~Tree(c).alien => Tree(c) = Tree(p)
      <3>1. p' = p /\ p \in CommitNames /\ \A c \in onMain : Kept(c)
        BY <1>1, <2>2 DEF LandInv
      <3>2. \A c \in onMain : Kept(c)'
        BY <1>1, <3>1
      <3>3. CASE UNCHANGED onMain
        BY <3>2, <3>3
      <3>4. CASE RemoteAccepts
        BY <3>2, <3>4 DEF RemoteAccepts, metaVars
      <3>5. ASSUME NEW kind \in {"content", "invalid", "stray", "state"}, Produce(kind)
            PROVE  (\A c \in onMain : Kept(c))'
        <4>1. ASSUME NEW c, c = NewCommit
              PROVE  Kept(c)'
          BY <1>1, <1>4, <3>1, <3>5, <4>1 DEF Anc, Tree
        <4> QED
          BY <1>4, <3>2, <3>5, <4>1
      <3> QED
        BY <1>3, <3>3, <3>4, <3>5
    <2> QED
      BY <2>1, <2>2, PendingFrame DEF RecoverNotLanded, PushStale, PushExhausted, ClearPending
  <1>7. LandedPushTracked'
    <2> SUFFICES ASSUME ~rewritten',
                        NEW c \in onMain', ~Tree(c)'.alien, Tree(c)' # Tree(localTip)',
                        localTip' \in Anc(c)'
                 PROVE  pending' # None /\ pending'.commit \in Anc(c)'
      BY DEF LandedPushTracked
    <2> DEFINE Tracked(a) == pending # None /\ pending.commit \in Anc(a)
    <2>1. ~rewritten
      BY MainFrame DEF RemoteAccepts, LateLands, Produce, Rewrite
    <2>2. \A a \in onMain : ~Tree(a).alien /\ Tree(a) # Tree(localTip) /\ localTip \in Anc(a) =>
              Tracked(a)
      BY <2>1 DEF LandInv, LandedPushTracked
    <2>3. \A a \in CommitNames : \A b \in Anc(a) : Anc(b) \subseteq Anc(a)
      BY DEF LandInv, AncestryInv
    <2>4. CASE RemoteAccepts
      <3>1. /\ localTip' = localTip /\ pending' = pending /\ onMain' = onMain \cup {pending.commit}
            /\ pending # None
        BY <1>1, <2>4 DEF RemoteAccepts, treeVars, metaVars, TypeInv, PhaseOK
      <3>2. CASE c = pending.commit
        BY <1>1, <3>1, <3>2
      <3>3. CASE c \in onMain
        BY <1>1, <2>2, <3>1, <3>3
      <3> QED
        BY <3>1, <3>2, <3>3
    <2>5. ASSUME NEW kind \in {"content", "invalid", "stray", "state"}, Produce(kind)
          PROVE  pending' # None /\ pending'.commit \in Anc(c)'
      <3>1. CASE c = NewCommit
        <4>1. /\ Tree(c)' = Tree(remoteTip) /\ Anc(c)' = Anc(remoteTip) \cup {c}
              /\ c \notin CommitNames /\ UNCHANGED <<localTip, pending>>
          BY <1>4, <2>5, <3>1 DEF Tree, Anc
        <4>2. Tracked(remoteTip)
          BY <1>1, <2>2, <4>1
        <4> QED
          BY <4>1, <4>2
      <3>2. CASE c \in onMain
        BY <1>1, <1>4, <2>2, <2>5, <3>2
      <3> QED
        BY <1>4, <2>5, <3>1, <3>2
    <2>6. CASE UNCHANGED onMain
      <3>1. c \in onMain /\ c \in CommitNames
        BY <1>1, <2>6
      <3>2. CASE UNCHANGED localTip
        <4>1. Tracked(c)
          BY <1>1, <2>2, <3>1, <3>2
        <4>2. CASE UNCHANGED pending
          BY <1>1, <3>1, <4>1, <4>2
        <4>3. ~BuildCandidate
          BY <4>1 DEF BuildCandidate, HistoryInv, LandInv, RouteInv, FinalLabels
        <4>4. ~RecoverNotLanded
          <5>1. c \in Anc(remoteTip)
            BY <2>1, <3>1 DEF HistoryInv
          <5>2. pending.commit \in Anc(remoteTip)
            BY <1>1, <2>3, <4>1, <5>1
          <5> QED
            BY <4>1, <5>2 DEF RecoverNotLanded, TrustInv
        <4>5. ~PushStale /\ ~PushExhausted
          BY <1>1, <3>1, <4>1 DEF PushStale, PushExhausted, LandInv
        <4>6. ~ClearPending
          BY <1>1, <3>1, <3>2, <4>1 DEF ClearPending, HistoryInv, SettledLabels, LandInv
        <4> QED
          BY <4>2, <4>3, <4>4, <4>5, <4>6, PendingFrame
      <3>3. CASE ActivateRef
        <4>1. /\ localTip' = fetched /\ pending' = pending /\ fetched \in CommitNames
              /\ localTip \in Anc(fetched) /\ Tree(fetched) = Tree(localTip)
          BY <1>1, <3>3
             DEF ActivateRef, metaVars, HistoryInv, OnTopLabels, TrustInv, SameTreeLabels,
                 SwapLabels
        <4>2. Tracked(c)
          BY <1>1, <2>2, <2>3, <3>1, <4>1
        <4> QED
          BY <1>1, <3>1, <4>1, <4>2
      <3>4. CASE FinalizeCheckout
        <4>1. localTip' = pending.commit /\ pending # None
          BY <1>1, <3>4 DEF FinalizeCheckout, FinalLabels
        <4>2. Tree(c) = Tree(pending.commit)
          BY <1>1, <3>1, <4>1 DEF LandInv
        <4> QED
          BY <1>1, <3>1, <4>1, <4>2
      <3> QED
        BY <3>2, <3>3, <3>4, LocalTipFrame
    <2> QED
      BY <1>3, <2>4, <2>5, <2>6
  <1> QED
    BY <1>2, <1>5, <1>6, <1>7 DEF LandInv

LEMMA LandInit == Init => LandInv
  <1> SUFFICES ASSUME Init
               PROVE  LandInv
    OBVIOUS
  <1>1. /\ onMain = {1} /\ CommitNames = {1} /\ Anc(1) = {1} /\ localTip = 1
        /\ push = "none" /\ pending = None /\ pc = "idle" /\ late = {}
    BY DEF Init, CommitNames, Anc
  <1> QED
    BY <1>1 DEF LandInv, AncestryInv, RouteInv, LandedPushTracked

LEMMA LandStutters == LandInv /\ UNCHANGED vars => LandInv'
  BY DEF vars, remoteVars, treeVars, metaVars, taskVars, LandInv, AncestryInv, RouteInv,
         LandedPushTracked, CommitNames, Anc, Tree

\* A request travels on behind the client only where requests can be delayed.
LEMMA NothingTravels ==
    ASSUME "delay" \notin Faults, late = {}, Next
    PROVE  late' = {}
  BY LateFrame DEF LateLands, PushFails, Crash, Abandon

\* A push of ours that landed is in local history or on record, through every
\* crash, lost reply and later attempt, as long as a request the client has
\* given up is not applied afterwards (recover_pending_push, publish_state).
THEOREM LandedPushIsTracked ==
    ASSUME "delay" \notin Faults
    PROVE  Spec => []LandedPushTracked
  <1>1. Init => HInv /\ TrustInv /\ LandInv
    BY HistoryInit, TrustInit, LandInit
  <1>2. HInv /\ TrustInv /\ LandInv /\ [Next]_vars => (HInv /\ TrustInv /\ LandInv)'
    <2> SUFFICES ASSUME HInv, TrustInv, LandInv, [Next]_vars
                 PROVE  LandInv'
      BY TrustStep
    <2>1. CASE Next
      BY <2>1, NothingTravels, LandNext DEF HInv, LandInv
    <2>2. CASE UNCHANGED vars
      BY <2>2, LandStutters
    <2> QED
      BY <2>1, <2>2
  <1>3. HInv /\ TrustInv /\ LandInv => LandedPushTracked
    BY DEF LandInv
  <1> QED
    BY <1>1, <1>2, <1>3, PTL DEF Spec

-----------------------------------------------------------------------------
(***************************************************************************)
(* Quiet cycles.  While nothing has failed and the producer only adds      *)
(* valid content, no check finds anything but a request's temporary, where *)
(* a command lists the state beside the service: the rest is the race,     *)
(* and every lost attempt is paid for by a move of the producer.           *)
(***************************************************************************)

QuietInv ==
    /\ ~rewritten
    /\ \A c \in CommitNames : ~Tree(c).alien /\ commits[c].bad = {}
    /\ pc \notin {"recover", "advance"}
    /\ pc \in FinalLabels => route = "publish"
    /\ pending # None => pc \in FinalLabels \cup {"push"}
    /\ lock = TRUE => pc \in SwapLabels
    /\ pc = "push" => pending.prev = fetched
    /\ moves >= attempt
    /\ fetched # 0 /\ remoteTip # fetched /\ push # "ok" /\ pc \notin FinalLabels =>
           moves >= attempt + 1
    /\ push = "stale" => moves >= attempt + 1
    /\ QuietConflictsAreRaces

\* The content the producer adds comes with the tree of the tip and nothing bad.
LEMMA ContentIsGood ==
    ASSUME TypeInv, Produce("content")
    PROVE  /\ commits'[NewCommit].tree = Tree(remoteTip)
           /\ commits'[NewCommit].bad = commits[remoteTip].bad \ {"invalid"}
  <1>1. Produced("content") \in CommitRecords /\ commits' = Append(commits, Produced("content"))
    BY ProducedType DEF Produce, TypeInv
  <1>2. commits'[NewCommit] = Produced("content")
    BY <1>1, NewCommitIsNamed
  <1> QED
    BY <1>2 DEF Produced, CommitOn

\* A candidate is as good as the tip it is built on.
LEMMA CandidateIsGood ==
    ASSUME TypeInv, BuildCandidate
    PROVE  commits'[NewCommit].bad = commits[fetched].bad
  <1> DEFINE x == CommitOn(fetched, ReaderTree, Content(fetched), commits[fetched].bad)
  <1>1. x \in CommitRecords /\ commits' = Append(commits, x)
    BY BuildType DEF BuildCandidate
  <1>2. x.bad = commits[fetched].bad
    BY DEF CommitOn
  <1> HIDE DEF x
  <1>3. commits'[NewCommit] = x
    BY <1>1, NewCommitIsNamed
  <1> QED
    BY <1>2, <1>3

LEMMA QuietNext ==
    ASSUME IInv, HistoryInv, TrustInv, LandInv, LiveInv, QuietInv, Next,
           faults' = 0, ProducerMoves \subseteq {"content"}
    PROVE  QuietInv'
  <1>1. /\ TypeInv /\ TypeInv'
        /\ \A c \in CommitNames : commits'[c] = commits[c] /\ Tree(c)' = Tree(c)
        /\ localTip \in CommitNames /\ remoteTip \in CommitNames
        /\ localTip \in onMain /\ remoteTip \in onMain
        /\ pc \in FinalLabels \cup {"recover", "push"} => pending # None
        /\ attempt \in Nat /\ moves \in Nat /\ MaxAttempts \in Nat
    BY MainGrows, CommitsGrow, TypeStep, AttemptsAssumption
       DEF IInv, TypeInv, TypeOK, RemoteTypeOK, TreeTypeOK, TaskTypeOK, PhaseOK, GraphInv
  <1>2. /\ faults = 0
        /\ ~StateInvalid /\ ~RepositoryRefused /\ ~FetchViolates
        /\ ~MarkFails /\ ~FetchFails /\ ~ActivateFails /\ ~ActivateStrands
        /\ ~PushFails /\ ~Crash
    BY <1>1, NothingFails
  <1>3. /\ \A c : ~Rewrite(c)
        /\ \A kind : Produce(kind) => kind = "content"
    BY DEF Rewrite, Produce
  <1>4. ~rewritten'
    BY <1>3, MainFrame DEF QuietInv, RemoteAccepts, LateLands, Produce
  <1>5. (\A c \in CommitNames : ~Tree(c).alien /\ commits[c].bad = {})'
    <2> DEFINE Good(c) == ~commits[c].tree.alien /\ commits[c].bad = {}
    <2>1. \A c \in CommitNames : Good(c) /\ Good(c)'
      BY <1>1 DEF QuietInv, Tree
    <2>2. ASSUME ~commits'[NewCommit].tree.alien, commits'[NewCommit].bad = {},
                 NEW x \in CommitRecords, commits' = Append(commits, x)
          PROVE  \A c \in CommitNames' : Good(c)'
      <3>1. CommitNames' = CommitNames \cup {NewCommit}
        BY <1>1, <2>2, AppendCommit DEF CommitNames, NewCommit, TypeInv, TypeOK, RemoteTypeOK
      <3> QED
        BY <2>1, <2>2, <3>1
    <2>3. CASE BuildCandidate
      <3>1. fetched \in CommitNames
        BY <1>1, <2>3, CandidateIsNew
      <3>2. ~commits'[NewCommit].tree.alien /\ commits'[NewCommit].bad = {}
        BY <1>1, <2>1, <2>3, <3>1, CandidateIsNew, CandidateIsGood DEF ReaderTree
      <3> QED
        BY <1>1, <2>2, <2>3, <3>2, BuildType DEF BuildCandidate, Tree
    <2>4. CASE Produce("content")
      <3>1. ~commits'[NewCommit].tree.alien /\ commits'[NewCommit].bad = {}
        BY <1>1, <2>1, <2>4, ContentIsGood DEF Tree
      <3> QED
        BY <1>1, <2>2, <2>4, <3>1, ProducedType DEF Produce, TypeInv, Tree
    <2>5. CASE UNCHANGED commits
      BY <2>1, <2>5 DEF Tree, CommitNames
    <2> QED
      BY <1>3, <2>3, <2>4, <2>5, CommitsFrame
  <1>6. (pc \notin {"recover", "advance"})'
    BY <1>1, RecoverFrame DEF QuietInv, FinalLabels
  <1>7. (pc \in FinalLabels => route = "publish")'
    BY <1>1, FinalFrame DEF QuietInv, HistoryInv, RecoverConfirmed
  <1>8. (pending # None => pc \in FinalLabels \cup {"push"})'
    BY <1>1, PendingFrame, PendingKept
       DEF QuietInv, RecoverNotLanded, BuildCandidate, PushStale, PushExhausted, ClearPending
  <1>9. (lock = TRUE => pc \in SwapLabels)'
    BY <1>1, LockKept DEF QuietInv
  <1>10. (pc = "push" => pending.prev = fetched)'
    BY <1>1, PushFrame DEF QuietInv, BuildCandidate
  \* The producer's moves are never taken back, and each moves the tip.
  <1>11. /\ moves' \in Nat /\ moves' >= moves
         /\ \/ remoteTip' = remoteTip
            \/ moves' = moves + 1 /\ attempt' = attempt
            \/ push' = "ok"
    <2>1. \A r : ~(r \in late /\ LateLands(r))
      BY DEF LandInv
    <2>2. remoteTip' = remoteTip \/ push' = "ok" \/ Produce("content")
      BY <1>3, <2>1, MainFrame DEF RemoteAccepts
    <2>3. moves' = moves \/ Produce("content")
      BY <1>3, MovesFrame
    <2>4. Produce("content") => moves' = moves + 1 /\ attempt' = attempt
      BY DEF Produce, taskVars
    <2> QED
      BY <1>1, <2>2, <2>3, <2>4
  <1>12. (moves >= attempt)'
    <2>1. CASE attempt' \in {attempt, 0}
      BY <1>1, <1>11, <2>1 DEF QuietInv
    <2>2. CASE PushStale
      BY <1>1, <1>11, <2>2 DEF PushStale, QuietInv
    <2> QED
      BY <1>1, <2>1, <2>2, AttemptFrame
  <1>13. (fetched # 0 /\ remoteTip # fetched /\ push # "ok" /\ pc \notin FinalLabels =>
              moves >= attempt + 1)'
    <2> SUFFICES ASSUME fetched' # 0, remoteTip' # fetched', push' # "ok", pc' \notin FinalLabels
                 PROVE  moves' >= attempt' + 1
      OBVIOUS
    <2>1. /\ attempt' = attempt
          /\ \/ fetched' = remoteTip /\ remoteTip' = remoteTip
             \/ fetched' = fetched /\ push # "ok" /\ pc \notin FinalLabels
      BY <1>1, FetchedKept DEF QuietInv
    <2>2. CASE remoteTip' = remoteTip
      BY <1>1, <1>11, <2>1, <2>2 DEF QuietInv
    <2>3. CASE moves' = moves + 1
      BY <1>1, <2>1, <2>3 DEF QuietInv
    <2> QED
      BY <1>11, <2>2, <2>3
  <1>14. (push = "stale" => moves >= attempt + 1)'
    <2>1. CASE RemoteRefuses
      <3>1. pc = "push" /\ fetched # 0 /\ remoteTip # fetched
        BY <1>1, <2>1
           DEF RemoteRefuses, TypeInv, PhaseOK, FetchedLabels, QuietInv
      <3>2. moves >= attempt + 1 /\ attempt' = attempt
        BY <2>1, <3>1 DEF RemoteRefuses, QuietInv, FinalLabels
      <3> QED
        BY <1>1, <1>11, <3>2
    <2> QED
      BY <1>1, <1>11, <2>1, AttemptFrame DEF QuietInv
  <1>15. QuietConflictsAreRaces'
    <2>1. pc \in {"preflight", "fetch"} => ~lock /\ pending = None
      BY <1>1 DEF QuietInv, FinalLabels, SwapLabels, TypeInv, TypeOK, TreeTypeOK
    <2>2. ~PreflightRefused
      BY <2>1 DEF PreflightRefused, LiveInv, LiveMatchesOrLocked, TrustInv, QuietInv
    <2>3. ~FetchRefused
      <3> SUFFICES ASSUME pc = "fetch"
                   PROVE  Refusal(remoteTip) = None
        BY DEF FetchRefused
      <3>1. localTip \in Anc(remoteTip)
        BY <1>1 DEF HistoryInv, QuietInv
      <3>2. Tree(remoteTip) = Trusted
        BY <1>1, <2>1, <3>1 DEF QuietInv, LandInv, LandedPushTracked, TrustInv
      <3>3. commits[remoteTip].bad = {}
        BY <1>1 DEF QuietInv
      <3> QED
        BY <2>1, <3>1, <3>2, <3>3 DEF Refusal, OutOfContract
    <2>4. ~RecoverUnconfirmed /\ ~RecoverForked /\ ~AdvanceRefused
      BY DEF QuietInv, RecoverUnconfirmed, RecoverForked, AdvanceRefused
    <2>5. CASE PushExhausted
      <3>1. conflict' = "race" /\ moves >= attempt + 1 /\ attempt + 1 >= MaxAttempts
        BY <2>5 DEF PushExhausted, QuietInv
      <3> QED
        BY <1>1, <1>11, <3>1 DEF QuietConflictsAreRaces
    <2>6. CASE MeetTemporary
      BY <2>6 DEF MeetTemporary, StopWithConflict, QuietConflictsAreRaces
    <2>7. CASE AcknowledgeConflict
      BY <2>7 DEF AcknowledgeConflict, QuietConflictsAreRaces
    <2>8. CASE UNCHANGED conflict
      <3>1. conflict # None => \/ conflict = "race" /\ moves >= MaxAttempts
                               \/ conflict = "invalid state" /\ Beside
        BY <1>2 DEF QuietInv, QuietConflictsAreRaces
      <3>2. moves >= MaxAttempts => moves' >= MaxAttempts
        BY <1>1, <1>11
      <3> QED
        BY <2>8, <3>1, <3>2 DEF QuietConflictsAreRaces
    <2> QED
      BY <1>2, <2>2, <2>3, <2>4, <2>5, <2>6, <2>7, <2>8, ConflictFrame
  <1> QED
    BY <1>4, <1>5, <1>6, <1>7, <1>8, <1>9, <1>10, <1>12, <1>13, <1>14, <1>15 DEF QuietInv

LEMMA QuietInit == Init => QuietInv
  <1> SUFFICES ASSUME Init
               PROVE  QuietInv
    OBVIOUS
  <1>1. CommitNames = {1} /\ commits[1].bad = {} /\ ~Tree(1).alien
    BY DEF Init, CommitNames, Tree
  <1> QED
    BY <1>1 DEF Init, QuietInv, QuietConflictsAreRaces, FinalLabels

\* Nothing travels behind the back of a client that gives up nothing.
LEMMA NothingAbandoned ==
    ASSUME TypeInv, Next, faults' = 0, late = {}
    PROVE  late' = {}
  BY NothingFails, LateFrame DEF LateLands

\* With nothing failing and a producer that only adds valid content, a cycle
\* never stops for anything but a race lost MaxAttempts times in a row, each
\* time to another commit, or, where a command publishes beside the service, the
\* temporary of a request (publish_state's loop, and every check before it).
THEOREM QuietStopsAreRaces == Spec => []QuietConflictsAreRaces
  <1> DEFINE Quiet == faults = 0 => LandInv /\ LiveInv /\ QuietInv
  <1>1. CASE ~(ProducerMoves \subseteq {"content"})
    <2>1. QuietConflictsAreRaces
      BY <1>1 DEF QuietConflictsAreRaces
    <2> QED
      BY <2>1, PTL
  <1>2. ASSUME ProducerMoves \subseteq {"content"}
        PROVE  Spec => []QuietConflictsAreRaces
    <2>1. Init => HInv /\ TrustInv /\ Quiet
      BY HistoryInit, TrustInit, LandInit, LiveInit, QuietInit
    <2>2. HInv /\ TrustInv /\ Quiet /\ [Next]_vars => (HInv /\ TrustInv /\ Quiet)'
      <3> SUFFICES ASSUME HInv, TrustInv, Quiet, [Next]_vars, faults' = 0
                   PROVE  (LandInv /\ LiveInv /\ QuietInv)'
        BY TrustStep
      <3>1. CASE Next
        <4>1. LandInv /\ LiveInv /\ QuietInv /\ ~ActivateStrands
          BY <3>1, NothingFails DEF HInv, IInv
        <4>2. late' = {}
          BY <3>1, <4>1, NothingAbandoned DEF HInv, IInv, LandInv
        <4> QED
          BY <1>2, <3>1, <4>1, <4>2, LandNext, LiveNext, QuietNext DEF HInv
      <3>2. CASE UNCHANGED vars
        <4>1. LandInv /\ LiveInv /\ QuietInv
          BY <3>2 DEF vars
        <4>2. LandInv'
          BY <3>2, <4>1, LandStutters
        <4>3. LiveInv'
          BY <3>2, <4>1, LiveStutters
        <4>4. QuietInv'
          BY <3>2, <4>1
             DEF vars, remoteVars, treeVars, metaVars, taskVars, QuietInv,
                 QuietConflictsAreRaces, CommitNames, Tree
        <4> QED
          BY <4>2, <4>3, <4>4
      <3> QED
        BY <3>1, <3>2
    <2>3. Quiet => QuietConflictsAreRaces
      BY DEF QuietConflictsAreRaces, QuietInv
    <2> QED
      BY <2>1, <2>2, <2>3, PTL DEF Spec
  <1> QED
    BY <1>1, <1>2
=============================================================================
