-------------------------- MODULE StatePublication --------------------------
(***************************************************************************)
(* The synchronization cycle of Plainfeed (crates/plainfeed-sync): reader  *)
(* mutations are written to state/ and journalled by dirty markers, the    *)
(* sync task publishes state/ as one commit on top of the remote main      *)
(* branch or pulls what the producer pushed, and every step of it can be   *)
(* cut short by a crash, a lost reply, or a remote that moves meanwhile.   *)
(*                                                                         *)
(* Abstractions.  A commit is an index of `commits`, its record holding    *)
(* what the code asks git for: its ancestors, the state/ tree, and the     *)
(* content/ tree named by the commit that last wrote it.  A state tree is  *)
(* a version per entry plus a flag for bytes Plainfeed never wrote.  The   *)
(* directories content/ and config/ are one value `live`, Mixed while an   *)
(* activation has moved only some of them (SnapshotActivation.tla opens    *)
(* that up).  A failed operation without an effect on the modelled state   *)
(* (last_error, timestamps) just ends the cycle.                           *)
(***************************************************************************)
EXTENDS Naturals, Sequences, FiniteSets

CONSTANTS
    Entries,        \* entry identifiers whose reader state can change
    None,           \* an absent file, field or request
    Mixed,          \* live areas partly moved by an activation
    MaxAttempts,    \* optimistic publication attempts; 3 in the code
    MaxVersion,     \* bound: writes per entry
    MaxMoves,       \* bound: moves of everyone else on the remote branch
    MaxFaults,      \* bound: crashes, lost replies and I/O errors together
    Commands,       \* which commands drive cycles: subset of {"tick","force"}
    ProducerMoves,  \* what others may do to the remote branch
    Faults,         \* what may fail
    Beside          \* a command synchronizes while the service answers requests

ASSUME AttemptsAssumption == MaxAttempts \in Nat \ {0}
ASSUME BesideAssumption == Beside \in BOOLEAN

Trees == [alien : BOOLEAN, v : [Entries -> Nat]]
Markers == [entry : Entries, version : Nat]
Pendings == [prev : Nat, commit : Nat, tree : Trees, markers : SUBSET Markers]

\* Why conflict.toml can stop synchronization.
Reasons == {"unconfirmed", "unfinalizable", "ownership", "trusted", "diverged",
            "state", "path", "validation", "busy", "activation", "race",
            "invalid state", "contract"}

ASSUME NoneAssumption ==
    None \notin Nat \cup {Mixed} /\ None \notin Entries /\ None \notin Reasons
    /\ None \notin Trees /\ None \notin Pendings
ASSUME MixedAssumption == Mixed \notin Nat

VARIABLES
    \* the remote repository
    commits,    \* every commit object ever made, by index
    remoteTip,  \* refs/heads/main on the remote
    late,       \* push requests still travelling after the client gave up
    moves,      \* moves others have made, up to MaxMoves
    \* the data root on disk
    localTip,   \* refs/heads/main of the local repository
    live,       \* content/ and config/ in the worktree
    lock,       \* .plainfeed/update.lock exists
    backup,     \* what the lock's holder found in live, to be put back
    state,      \* state/entries: version of each entry's file
    markers,    \* .plainfeed/dirty
    pending,    \* .plainfeed/pending-push.toml
    sync,       \* .plainfeed/sync.toml: last_remote_oid, last_state_tree_oid
    conflict,   \* .plainfeed/conflict.toml: the reason, or None
    \* the running processes
    writing,    \* entry renamed into place whose marker is not created yet
    pc,         \* where the sync task is
    route,      \* which function it is in
    attempt,    \* publish_state's loop counter
    snap,       \* publish_state's dirty_snapshot
    fetched,    \* tip returned by the last fetch, 0 if none
    push,       \* fate of the push in progress
    faults,     \* faults so far, up to MaxFaults
    \* history, read by the properties only
    onMain,     \* commits that have been on the remote main branch
    rewritten,  \* the remote branch was once moved backwards
    acked       \* version of each entry whose write_state last succeeded

remoteVars  == <<commits, remoteTip, late, moves, onMain, rewritten>>
readerVars  == <<state, writing, acked>>
treeVars    == <<localTip, live, lock, backup>>
metaVars    == <<pending, sync, conflict>>
taskVars    == <<pc, route, attempt, snap, fetched, push>>
vars == <<remoteVars, readerVars, treeVars, metaVars, taskVars, markers, faults>>

-----------------------------------------------------------------------------
(* What the code reads out of a commit *)

Anc(c) == commits[c].anc
Tree(c) == commits[c].tree
Content(c) == commits[c].content

CommitRecords ==
    [anc : SUBSET Nat, tree : Trees, content : Nat, bad : SUBSET {"stray", "invalid"}]

NewCommit == Len(commits) + 1

\* The object made by committing on top of p.
CommitOn(p, tree, content, bad) ==
    [anc |-> Anc(p) \cup {NewCommit}, tree |-> tree, content |-> content, bad |-> bad]

\* trusted_state_tree: the recorded tree, or the local commit's when none is.
Trusted == IF sync.tree = None THEN Tree(localTip) ELSE sync.tree

\* The commit publish_state diffs the fetched tip against.
AuditBase == IF route = "publish" /\ sync.remote # None THEN sync.remote ELSE localTip

\* changed_paths between the two commits names a path nobody owns.
OutOfContract(base, tip) == "stray" \in commits[tip].bad \ commits[base].bad

\* A slip the checks must catch: the state/ tree is not compared.
RefusalWithoutStateAudit(tip) ==
    IF localTip \notin Anc(tip) THEN "diverged"
    ELSE IF OutOfContract(AuditBase, tip) THEN "path"
    ELSE IF tip = localTip THEN None
    ELSE IF "invalid" \in commits[tip].bad THEN "validation"
    ELSE IF lock THEN "busy"
    ELSE None

\* Why the fetched tip is turned down: preflight_remote_history, then
\* audit_remote_changes, then what activation checks before its first rename.
Refusal(tip) ==
    IF localTip \notin Anc(tip) THEN "diverged"
    ELSE IF Tree(tip) # Trusted THEN "state"
    ELSE IF OutOfContract(AuditBase, tip) THEN "path"
    ELSE IF tip = localTip THEN None
    ELSE IF OutOfContract(localTip, tip) THEN "path"
    ELSE IF "invalid" \in commits[tip].bad THEN "validation"
    ELSE IF lock THEN "busy"
    ELSE None

-----------------------------------------------------------------------------
(* Ends of a cycle *)

Rest ==
    /\ pc' = "idle" /\ route' = "none"
    /\ attempt' = 0 /\ snap' = {} /\ fetched' = 0 /\ push' = "none"

StopWithConflict(reason) ==
    /\ conflict' = reason
    /\ Rest
    /\ UNCHANGED <<pending, sync>>

Goto(label) == pc' = label /\ UNCHANGED <<route, attempt, snap, fetched, push>>

Fault(kind) == kind \in Faults /\ faults < MaxFaults /\ faults' = faults + 1

-----------------------------------------------------------------------------
(* The reader: Store::write_state renames the file, then marks it dirty *)

WriteState(e) ==
    /\ writing = None
    /\ ~lock                        \* the server answers 503 while it is held
    /\ state[e] < MaxVersion
    /\ state' = [state EXCEPT ![e] = @ + 1]
    /\ writing' = e
    /\ UNCHANGED <<remoteVars, treeVars, metaVars, taskVars, markers, faults, acked>>

MarkDirty ==
    /\ writing # None
    /\ markers' = markers \cup {[entry |-> writing, version |-> state[writing]]}
    /\ acked' = [acked EXCEPT ![writing] = state[writing]]
    /\ writing' = None
    /\ UNCHANGED <<remoteVars, treeVars, metaVars, taskVars, faults, state>>

\* The marker cannot be created: the request fails, the new state stays.
MarkFails ==
    /\ writing # None
    /\ Fault("mark")
    /\ writing' = None
    /\ UNCHANGED <<remoteVars, treeVars, metaVars, taskVars, markers, state, acked>>

-----------------------------------------------------------------------------
(* run_synchronization: publish when due, otherwise pull *)

StartPublish ==
    /\ pc = "idle" /\ conflict = None
    /\ markers # {}
    /\ pc' = IF pending = None THEN "snapshot" ELSE "recover"
    /\ route' = "recover"
    /\ UNCHANGED <<remoteVars, readerVars, treeVars, metaVars, markers, faults,
                   attempt, snap, fetched, push>>

\* Force publishes whenever there is a marker; a tick may find it not yet due.
StartPull ==
    /\ pc = "idle" /\ conflict = None
    /\ markers = {} \/ "tick" \in Commands
    /\ pc' = "preflight" /\ route' = "pull"
    /\ UNCHANGED <<remoteVars, readerVars, treeVars, metaVars, markers, faults,
                   attempt, snap, fetched, push>>

-----------------------------------------------------------------------------
(* recover_pending_push *)

RecoverNotLanded ==
    /\ pc = "recover"
    /\ remoteTip = pending.prev
    /\ pending' = None
    /\ Goto("snapshot")
    /\ UNCHANGED <<remoteVars, readerVars, treeVars, markers, faults, sync, conflict>>

Confirmed == pending.commit \in Anc(remoteTip) /\ Tree(remoteTip) = pending.tree

RecoverUnconfirmed ==
    /\ pc = "recover"
    /\ remoteTip # pending.prev /\ ~Confirmed
    /\ StopWithConflict("unconfirmed")
    /\ UNCHANGED <<remoteVars, readerVars, treeVars, markers, faults>>

RecoverForked ==
    /\ pc = "recover"
    /\ remoteTip # pending.prev /\ Confirmed
    /\ localTip \notin {pending.prev, pending.commit}
    /\ StopWithConflict("unfinalizable")
    /\ UNCHANGED <<remoteVars, readerVars, treeVars, markers, faults>>

\* Slip: the local branch is not compared before it is moved.
RecoverWithoutLocalCheck ==
    /\ pc = "recover"
    /\ remoteTip # pending.prev /\ Confirmed
    /\ fetched' = remoteTip
    /\ pc' = "checkout"
    /\ UNCHANGED <<remoteVars, readerVars, treeVars, metaVars, markers, faults,
                   route, attempt, snap, push>>

RecoverConfirmed ==
    /\ pc = "recover"
    /\ remoteTip # pending.prev /\ Confirmed
    /\ localTip \in {pending.prev, pending.commit}
    /\ fetched' = remoteTip
    /\ pc' = "checkout"
    /\ UNCHANGED <<remoteVars, readerVars, treeVars, metaVars, markers, faults,
                   route, attempt, snap, push>>

-----------------------------------------------------------------------------
(* publish_state and run_pull_cycle up to the fetched tip *)

TakeSnapshot ==
    /\ pc = "snapshot"
    /\ IF markers = {}
         THEN Rest
         ELSE /\ snap' = markers /\ pc' = "preflight" /\ route' = "publish"
              /\ fetched' = 0
              /\ UNCHANGED <<attempt, push>>
    /\ UNCHANGED <<remoteVars, readerVars, treeVars, metaVars, markers, faults>>

\* validate_state refuses any file under state/entries it cannot take for an
\* entry's state.  A request of the service has its temporary there until the
\* rename, and a command in another process may list the directory just then.
MeetTemporary ==
    /\ Beside
    /\ pc = "snapshot" /\ markers # {} /\ writing = None
    /\ StopWithConflict("invalid state")
    /\ UNCHANGED <<remoteVars, readerVars, treeVars, markers, faults>>

\* Or it finds what a killed process or another program left there.
StateInvalid ==
    /\ pc = "snapshot" /\ markers # {}
    /\ Fault("invalid state")
    /\ StopWithConflict("invalid state")
    /\ UNCHANGED <<remoteVars, readerVars, treeVars, markers>>

\* preflight_repository_contract, before a cycle does anything.
RepositoryRefused ==
    /\ pc = "idle" /\ conflict = None
    /\ Fault("contract")
    /\ StopWithConflict("contract")
    /\ UNCHANGED <<remoteVars, readerVars, treeVars, markers>>

\* preflight_local_ownership, then trusted_state_tree.
PreflightRefused ==
    /\ pc = "preflight"
    /\ \/ live # Content(localTip) /\ StopWithConflict("ownership")
       \/ /\ live = Content(localTip)
          /\ Trusted # Tree(localTip)
          /\ StopWithConflict("trusted")
    /\ UNCHANGED <<remoteVars, readerVars, treeVars, markers, faults>>

Preflight ==
    /\ pc = "preflight"
    /\ live = Content(localTip) /\ Trusted = Tree(localTip)
    /\ Goto("fetch")
    /\ UNCHANGED <<remoteVars, readerVars, treeVars, metaVars, markers, faults>>

FetchFails ==
    /\ pc \in {"recover", "fetch"}
    /\ Fault("fetch")
    /\ Rest
    /\ UNCHANGED <<remoteVars, readerVars, treeVars, metaVars, markers>>

\* The remote offers what the repository contract excludes.  (The fetch of
\* recover_pending_push returns such an error without writing a conflict.)
FetchViolates ==
    /\ pc = "fetch"
    /\ Fault("contract")
    /\ StopWithConflict("contract")
    /\ UNCHANGED <<remoteVars, readerVars, treeVars, markers>>

\* What follows the fetch or, after a recovery, the rest of the remote branch.
AfterTip == CASE route = "pull" -> "record"
              [] route = "publish" -> "build"
              [] route \notin {"pull", "publish"} -> "snapshot"

FetchRefused ==
    /\ pc = "fetch"
    /\ Refusal(remoteTip) # None
    /\ StopWithConflict(Refusal(remoteTip))
    /\ UNCHANGED <<remoteVars, readerVars, treeVars, markers, faults>>

FetchSame ==
    /\ pc = "fetch"
    /\ remoteTip = localTip /\ Refusal(remoteTip) = None
    /\ fetched' = remoteTip
    /\ pc' = AfterTip
    /\ UNCHANGED <<remoteVars, readerVars, treeVars, metaVars, markers, faults,
                   route, attempt, snap, push>>

\* The tip moved: UpdateLock::acquire begins the activation.
FetchNew ==
    /\ pc = "fetch"
    /\ remoteTip # localTip /\ Refusal(remoteTip) = None
    /\ fetched' = remoteTip
    /\ lock' = TRUE /\ backup' = live
    /\ pc' = "swapOut"
    /\ UNCHANGED <<remoteVars, readerVars, metaVars, markers, faults,
                   localTip, live, route, attempt, snap, push>>

\* The end of recover_pending_push, when main has moved past the pushed commit.
AdvanceRefused ==
    /\ pc = "advance"
    /\ Refusal(fetched) # None
    /\ StopWithConflict(Refusal(fetched))
    /\ UNCHANGED <<remoteVars, readerVars, treeVars, markers, faults>>

Advance ==
    /\ pc = "advance"
    /\ Refusal(fetched) = None
    /\ lock' = TRUE /\ backup' = live
    /\ Goto("swapOut")
    /\ UNCHANGED <<remoteVars, readerVars, metaVars, markers, faults, localTip, live>>

-----------------------------------------------------------------------------
(* activate_fetched_snapshot, step by step because a crash may cut it *)

ActivateSwapOut ==
    /\ pc = "swapOut"
    /\ live' = Mixed
    /\ Goto("swapIn")
    /\ UNCHANGED <<remoteVars, readerVars, metaVars, markers, faults,
                   localTip, lock, backup>>

ActivateSwapIn ==
    /\ pc = "swapIn"
    /\ live' = Content(fetched)
    /\ Goto("actSync")
    /\ UNCHANGED <<remoteVars, readerVars, metaVars, markers, faults,
                   localTip, lock, backup>>

\* sync.toml is written before the branch moves.
ActivateSync ==
    /\ pc = "actSync"
    /\ sync' = [remote |-> fetched, tree |-> Tree(fetched)]
    /\ Goto("actRef")
    /\ UNCHANGED <<remoteVars, readerVars, treeVars, markers, faults, pending, conflict>>

ActivateRef ==
    /\ pc = "actRef"
    /\ localTip' = fetched
    /\ Goto("unlock")
    /\ UNCHANGED <<remoteVars, readerVars, metaVars, markers, faults,
                   live, lock, backup>>

ActivateUnlock ==
    /\ pc = "unlock"
    /\ lock' = FALSE /\ backup' = None
    /\ Goto(AfterTip)
    /\ UNCHANGED <<remoteVars, readerVars, metaVars, markers, faults, localTip, live>>

\* Slip: the lock is released without putting the old files back.
FailWithoutRollback ==
    /\ pc \in {"swapOut", "swapIn", "actSync"}
    /\ Fault("activate")
    /\ lock' = FALSE /\ backup' = None
    /\ StopWithConflict("activation")
    /\ UNCHANGED <<remoteVars, readerVars, markers, localTip, live>>

\* The backup directory, a rename into place, the sync.toml write or the branch
\* update fails: everything moved is moved back and the failure reported.  (A
\* failed branch update also restores sync.toml, so it ends as a failed write.)
ActivateFails ==
    /\ pc \in {"swapOut", "swapIn", "actSync"}
    /\ Fault("activate")
    /\ live' = backup
    /\ lock' = FALSE /\ backup' = None
    /\ StopWithConflict("activation")
    /\ UNCHANGED <<remoteVars, readerVars, markers, localTip>>

\* The rename of a live directory into the backup fails after another has been
\* replaced: the `?` there returns past rollback_activation.
ActivateStrands ==
    /\ pc = "swapIn"
    /\ Fault("rename")
    /\ lock' = FALSE /\ backup' = None
    /\ StopWithConflict("activation")
    /\ UNCHANGED <<remoteVars, readerVars, markers, localTip, live>>

\* run_pull_cycle's last write.
RecordPull ==
    /\ pc = "record"
    /\ sync' = [remote |-> fetched, tree |-> Tree(fetched)]
    /\ Rest
    /\ UNCHANGED <<remoteVars, readerVars, treeVars, markers, faults, pending, conflict>>

-----------------------------------------------------------------------------
(* publish_state from the candidate commit to the push *)

\* state/ as it is now.  That a command's commit may take in the temporary file
\* of a request of the service as well is a matter of ReaderState.tla.
ReaderTree == [alien |-> FALSE, v |-> state]

\* create_state_commit finds the remote tree already equal to state/.
NothingToCommit ==
    /\ pc = "build"
    /\ Tree(fetched) = ReaderTree
    /\ sync' = [remote |-> fetched, tree |-> Tree(fetched)]
    /\ Goto("settle")
    /\ UNCHANGED <<remoteVars, readerVars, treeVars, markers, faults, pending, conflict>>

\* Slip: the directory is listed again instead of using the snapshot.
ClearWhatIsThere ==
    /\ pc = "settle"
    /\ markers' = {}
    /\ Rest
    /\ UNCHANGED <<remoteVars, readerVars, treeVars, metaVars, faults>>

\* Slip: state that is already published keeps its markers.
SettleNothing ==
    /\ pc = "settle"
    /\ Rest
    /\ UNCHANGED <<remoteVars, readerVars, treeVars, metaVars, markers, faults>>

ClearSettled ==
    /\ pc = "settle"
    /\ markers' = markers \ snap
    /\ Rest
    /\ UNCHANGED <<remoteVars, readerVars, treeVars, metaVars, faults>>

\* Slip: pending-push.toml names a commit that is not made yet.
BuildJournalFirst ==
    /\ pc = "build"
    /\ Tree(fetched) # ReaderTree
    /\ pending' = [prev |-> fetched, commit |-> NewCommit,
                   tree |-> ReaderTree, markers |-> snap]
    /\ push' = "sent"
    /\ pc' = "push"
    /\ UNCHANGED <<readerVars, treeVars, markers, faults, sync, conflict,
                   remoteVars, route, attempt, snap, fetched>>

\* The candidate commit, pending-push.toml, and the request on its way.
BuildCandidate ==
    /\ pc = "build"
    /\ Tree(fetched) # ReaderTree
    /\ commits' = Append(commits, CommitOn(fetched, ReaderTree, Content(fetched),
                                          commits[fetched].bad))
    /\ pending' = [prev |-> fetched, commit |-> NewCommit,
                   tree |-> ReaderTree, markers |-> snap]
    /\ push' = "sent"
    /\ pc' = "push"
    /\ UNCHANGED <<readerVars, treeVars, markers, faults, sync, conflict,
                   remoteTip, late, moves, onMain, rewritten,
                   route, attempt, snap, fetched>>

\* Slip: the push counts as done once the request is sent.
PushOkOnceSent ==
    /\ pc = "push" /\ push \in {"sent", "ok"}
    /\ pc' = "checkout" /\ push' = "none"
    /\ UNCHANGED <<remoteVars, readerVars, treeVars, metaVars, markers, faults,
                   route, attempt, snap, fetched>>

PushOk ==
    /\ pc = "push" /\ push = "ok"
    /\ pc' = "checkout" /\ push' = "none"
    /\ UNCHANGED <<remoteVars, readerVars, treeVars, metaVars, markers, faults,
                   route, attempt, snap, fetched>>

\* Error::StaleRemote: the candidate is dropped and the loop starts over.
PushStale ==
    /\ pc = "push" /\ push = "stale"
    /\ attempt + 1 < MaxAttempts
    /\ pending' = None
    /\ attempt' = attempt + 1
    /\ push' = "none" /\ fetched' = 0
    /\ pc' = "preflight"
    /\ UNCHANGED <<remoteVars, readerVars, treeVars, markers, faults,
                   sync, conflict, route, snap>>

\* Slip: one attempt too few.
ExhaustedTooEarly ==
    /\ pc = "push" /\ push = "stale"
    /\ attempt + 2 >= MaxAttempts
    /\ pending' = None
    /\ conflict' = "race"
    /\ Rest
    /\ UNCHANGED <<remoteVars, readerVars, treeVars, markers, faults, sync>>

PushExhausted ==
    /\ pc = "push" /\ push = "stale"
    /\ attempt + 1 >= MaxAttempts
    /\ pending' = None
    /\ conflict' = "race"
    /\ Rest
    /\ UNCHANGED <<remoteVars, readerVars, treeVars, markers, faults, sync>>

\* A request the client no longer waits for is dropped, or still travels.
Abandon ==
    \/ late' = late
    \/ /\ push = "sent" /\ "delay" \in Faults
       /\ late' = late \cup {[old |-> pending.prev, new |-> pending.commit]}

\* Slip: every push error is taken for a refusal.
ForgetFailedPush ==
    /\ pc = "push"
    /\ Fault("push")
    /\ Abandon
    /\ Rest
    /\ pending' = None
    /\ UNCHANGED <<readerVars, treeVars, markers, sync, conflict,
                   commits, remoteTip, moves, onMain, rewritten>>

\* Any other push error, with the request applied or not: the outcome is
\* unknown and pending-push.toml stays behind.
PushFails ==
    /\ pc = "push"
    /\ Fault("push")
    /\ Abandon
    /\ Rest
    /\ UNCHANGED <<readerVars, treeVars, metaVars, markers,
                   commits, remoteTip, moves, onMain, rewritten>>

-----------------------------------------------------------------------------
(* Finalization of a landed push, shared by publish and recovery *)

FinalizeCheckout ==
    /\ pc = "checkout"
    /\ localTip' = pending.commit
    /\ Goto("finalize")
    /\ UNCHANGED <<remoteVars, readerVars, metaVars, markers, faults,
                   live, lock, backup>>

\* Slip: the trusted tree is left behind.
FinalizeRemoteOnly ==
    /\ pc = "finalize"
    /\ sync' = [sync EXCEPT !.remote = pending.commit]
    /\ Goto("clear")
    /\ UNCHANGED <<remoteVars, readerVars, treeVars, markers, faults, pending, conflict>>

FinalizeSync ==
    /\ pc = "finalize"
    /\ sync' = [remote |-> pending.commit, tree |-> pending.tree]
    /\ Goto("clear")
    /\ UNCHANGED <<remoteVars, readerVars, treeVars, markers, faults, pending, conflict>>

\* Slip: markers created since the snapshot go too.
ClearAllMarkers ==
    /\ pc = "clear"
    /\ markers' = {}
    /\ Goto("unpend")
    /\ UNCHANGED <<remoteVars, readerVars, treeVars, metaVars, faults>>

ClearMarkers ==
    /\ pc = "clear"
    /\ markers' = markers \ pending.markers
    /\ Goto("unpend")
    /\ UNCHANGED <<remoteVars, readerVars, treeVars, metaVars, faults>>

ClearPending ==
    /\ pc = "unpend"
    /\ pending' = None
    /\ \/ route = "publish" /\ Rest
       \/ route # "publish" /\ fetched = pending.commit /\ Goto("snapshot")
       \/ route # "publish" /\ fetched # pending.commit /\ Goto("advance")
    /\ UNCHANGED <<remoteVars, readerVars, treeVars, markers, faults, sync, conflict>>

-----------------------------------------------------------------------------
(* Crash, and what the operator runs from the command line *)

Crash ==
    /\ pc # "idle" \/ writing # None
    /\ Fault("crash")
    /\ writing' = None
    /\ Abandon
    /\ Rest
    /\ UNCHANGED <<treeVars, metaVars, markers, state, acked,
                   commits, remoteTip, moves, onMain, rewritten>>

AcknowledgeConflict ==
    /\ pc = "idle" /\ conflict # None
    /\ conflict' = None
    /\ UNCHANGED <<remoteVars, readerVars, treeVars, taskVars, markers, faults, pending, sync>>

\* recover_local_transition, refused unless it ends at the local commit.
RecoverLocal ==
    /\ pc = "idle" /\ lock
    /\ Content(localTip) \in {live, backup}
    /\ live' = Content(localTip)
    /\ sync' = [remote |-> localTip, tree |-> Tree(localTip)]
    /\ lock' = FALSE /\ backup' = None
    /\ UNCHANGED <<remoteVars, readerVars, taskVars, markers, faults,
                   localTip, pending, conflict>>

-----------------------------------------------------------------------------
(* The remote repository: its answer to a push, and everyone else's moves *)

RemoteAccepts ==
    /\ push = "sent" /\ remoteTip = pending.prev
    /\ remoteTip' = pending.commit
    /\ onMain' = onMain \cup {pending.commit}
    /\ push' = "ok"
    /\ UNCHANGED <<readerVars, treeVars, metaVars, markers, faults, commits, late,
                   moves, rewritten, pc, route, attempt, snap, fetched>>

RemoteRefuses ==
    /\ push = "sent" /\ remoteTip # pending.prev
    /\ push' = "stale"
    /\ UNCHANGED <<remoteVars, readerVars, treeVars, metaVars, markers, faults,
                   pc, route, attempt, snap, fetched>>

LateLands(r) ==
    /\ remoteTip = r.old
    /\ remoteTip' = r.new
    /\ onMain' = onMain \cup {r.new}
    /\ late' = late \ {r}
    /\ UNCHANGED <<readerVars, treeVars, metaVars, taskVars, markers, faults,
                   commits, moves, rewritten>>

\* What a commit of each kind changes.
Produced(kind) ==
    LET p == remoteTip
        bad == commits[p].bad
    IN  CASE kind = "content" -> CommitOn(p, Tree(p), NewCommit, bad \ {"invalid"})
          [] kind = "invalid" -> CommitOn(p, Tree(p), NewCommit, bad \cup {"invalid"})
          [] kind = "stray"   -> CommitOn(p, Tree(p), Content(p), bad \cup {"stray"})
          [] kind = "state"   -> CommitOn(p, [Tree(p) EXCEPT !.alien = TRUE], Content(p), bad)

Produce(kind) ==
    /\ kind \in ProducerMoves /\ moves < MaxMoves
    /\ moves' = moves + 1
    /\ commits' = Append(commits, Produced(kind))
    /\ remoteTip' = NewCommit
    /\ onMain' = onMain \cup {NewCommit}
    /\ UNCHANGED <<readerVars, treeVars, metaVars, taskVars, markers, faults, late, rewritten>>

\* Somebody resets the branch to an earlier commit.
Rewrite(c) ==
    /\ "rewrite" \in ProducerMoves /\ moves < MaxMoves
    /\ c # remoteTip
    /\ moves' = moves + 1
    /\ remoteTip' = c
    /\ rewritten' = TRUE
    /\ UNCHANGED <<readerVars, treeVars, metaVars, taskVars, markers, faults,
                   commits, late, onMain>>

-----------------------------------------------------------------------------

Init ==
    /\ commits = <<[anc |-> {1}, content |-> 1, bad |-> {},
                    tree |-> [alien |-> FALSE, v |-> [e \in Entries |-> 0]]]>>
    /\ remoteTip = 1 /\ localTip = 1 /\ onMain = {1}
    /\ late = {} /\ moves = 0 /\ rewritten = FALSE
    /\ live = 1 /\ lock = FALSE /\ backup = None
    /\ state = [e \in Entries |-> 0] /\ acked = [e \in Entries |-> 0]
    /\ writing = None /\ markers = {}
    /\ pending = None /\ conflict = None
    /\ sync \in {[remote |-> None, tree |-> None], [remote |-> 1, tree |-> commits[1].tree]}
    /\ pc = "idle" /\ route = "none" /\ attempt = 0
    /\ snap = {} /\ fetched = 0 /\ push = "none" /\ faults = 0

Reader == \/ \E e \in Entries : WriteState(e)
          \/ MarkDirty
          \/ MarkFails

Recovery == RecoverNotLanded \/ RecoverUnconfirmed \/ RecoverForked \/ RecoverConfirmed

Activation == ActivateSwapOut \/ ActivateSwapIn \/ ActivateSync \/ ActivateRef
              \/ ActivateUnlock

Finalization == FinalizeCheckout \/ FinalizeSync \/ ClearMarkers \/ ClearPending

\* Every step of a started cycle, failures aside.
Task ==
    \/ Recovery \/ TakeSnapshot \/ MeetTemporary \/ PreflightRefused \/ Preflight
    \/ FetchRefused \/ FetchSame \/ FetchNew \/ AdvanceRefused \/ Advance
    \/ Activation \/ RecordPull
    \/ NothingToCommit \/ ClearSettled \/ BuildCandidate
    \/ PushOk \/ PushStale \/ PushExhausted
    \/ Finalization

Failure == RepositoryRefused \/ StateInvalid \/ FetchFails \/ FetchViolates
           \/ ActivateFails \/ ActivateStrands \/ PushFails \/ Crash

Operator == AcknowledgeConflict \/ RecoverLocal

Remote ==
    \/ RemoteAccepts \/ RemoteRefuses
    \/ \E r \in late : LateLands(r)
    \/ \E kind \in {"content", "invalid", "stray", "state"} : Produce(kind)
    \/ \E c \in Anc(remoteTip) : Rewrite(c)

Next == Reader \/ StartPublish \/ StartPull \/ Task \/ Failure \/ Operator \/ Remote

Spec == Init /\ [][Next]_vars

\* A started cycle goes on, the remote answers, a request being handled is
\* finished; and since a marker at least 300 s old makes publication due on
\* every tick, a cycle that finds the task idle is in the end a publication.
Fairness ==
    /\ WF_vars(Task) /\ WF_vars(RemoteAccepts \/ RemoteRefuses) /\ WF_vars(MarkDirty)
    /\ SF_vars(StartPublish)

FairSpec == Spec /\ Fairness

-----------------------------------------------------------------------------
(* Properties *)

Labels == {"idle", "recover", "snapshot", "preflight", "fetch", "advance",
           "swapOut", "swapIn", "actSync", "actRef", "unlock", "record",
           "build", "settle", "push", "checkout", "finalize", "clear", "unpend"}

CommitNames == DOMAIN commits

RemoteTypeOK ==
    /\ commits \in Seq(CommitRecords)
    /\ \A c \in CommitNames : c \in Anc(c) /\ Anc(c) \subseteq CommitNames
    /\ remoteTip \in CommitNames
    /\ onMain \subseteq CommitNames
    /\ late \subseteq [old : CommitNames, new : CommitNames]
    /\ moves \in Nat /\ rewritten \in BOOLEAN

ReaderTypeOK ==
    /\ state \in [Entries -> Nat] /\ acked \in [Entries -> Nat]
    /\ writing \in Entries \cup {None}
    /\ markers \subseteq Markers

TreeTypeOK ==
    /\ localTip \in CommitNames
    /\ live \in Nat \cup {Mixed}
    /\ lock \in BOOLEAN
    /\ backup \in Nat \cup {Mixed, None}

MetaTypeOK ==
    /\ pending \in Pendings \cup {None}
    /\ pending # None => pending.prev \in CommitNames /\ pending.commit \in CommitNames
    /\ sync \in [remote : CommitNames \cup {None}, tree : Trees \cup {None}]
    /\ conflict \in Reasons \cup {None}

TaskTypeOK ==
    /\ pc \in Labels /\ route \in {"none", "recover", "publish", "pull"}
    /\ attempt \in Nat /\ faults \in Nat
    /\ snap \subseteq Markers
    /\ fetched \in CommitNames \cup {0}
    /\ push \in {"none", "sent", "ok", "stale"}

\* Every file and variable holds a value it can have, and whatever names a
\* commit names one that exists.
TypeOK == RemoteTypeOK /\ ReaderTypeOK /\ TreeTypeOK /\ MetaTypeOK /\ TaskTypeOK

\* A mutation whose file was written and marked, so that the reader was told it
\* succeeded, is still marked dirty, or its version (or a later one) has reached
\* the remote main branch (a repeated mark_read, which writes nothing and also
\* succeeds, is for ReaderState.tla): no
\* interleaving of snapshot, push, lost reply, crash and recovery may clear the
\* marker of a state that was never published (clear_snapshot, lib.rs 501, 546, 652).
Published(e, version) == \E c \in onMain : Tree(c).v[e] >= version

NoLostMutation ==
    \A e \in Entries :
        acked[e] > 0 =>
            \/ [entry |-> e, version |-> acked[e]] \in markers
            \/ Published(e, acked[e])

\* The cycle implements the outbox: it clears only markers of published
\* versions and puts nothing on the remote branch the reader did not write.
Outbox == INSTANCE DirtyOutbox
    WITH written <- state, dirty <- markers, published <- {Tree(c).v : c \in onMain}

ImplementsOutbox == Outbox!Spec

\* The local branch never names a commit the remote main branch did not have:
\* a candidate becomes local history only once its push is known to have landed.
LocalTipOnMain == localTip \in onMain

\* While nobody resets the remote branch the local one lies on it, so that
\* "diverged" is reported only for a real rewrite (preflight_remote_history).
DivergenceIsGenuine == conflict = "diverged" => rewritten

\* The local branch only ever moves forward (finalize_fast_forward_checkout,
\* reached from activation, from publish_state and from recovery).
FastForwardOnly == [][(localTip \in Anc(localTip)')]_vars

\* State that another writer pushed to state/ is never checked out, recorded
\* as trusted, or confirmed as the outcome of one of our pushes.
ForeignStateRejected ==
    /\ ~Tree(localTip).alien
    /\ sync.tree # None => ~sync.tree.alien

\* Between cycles, with no push to settle and a remote branch nobody reset, the
\* recorded trusted tree is the tree of the local commit, whatever was cut
\* short: the next cycle is not stopped by trusted_state_tree.
TrustedTreeMatches ==
    pc = "idle" /\ pending = None /\ ~rewritten => Trusted = Tree(localTip)

\* A push of ours that landed is in local history or still tracked by
\* pending-push.toml; it is never forgotten by a crash or a later retry.
LandedPushTracked ==
    ~rewritten =>
        \A c \in onMain :
            ~Tree(c).alien /\ Tree(c) # Tree(localTip) /\ localTip \in Anc(c) =>
                pending # None /\ pending.commit \in Anc(c)

\* As long as no rename out of the live tree fails (ActivateStrands), the live
\* areas are those of the local commit unless an activation is in progress or
\* was interrupted, which the lock still shows.
LiveMatchesOrLocked == ~lock => live = Content(localTip)

\* An acknowledged mutation is published in the end, or a conflict stops
\* synchronization until the operator looks.
DirtyIsSettled == markers # {} ~> (markers = {} \/ conflict # None)

\* With nothing failing and a producer that only adds valid content, two things
\* can stop synchronization: losing the race MaxAttempts times in one
\* publication, each time to a different commit; and, where a command publishes
\* beside the service, validate_state meeting the temporary file of a request
\* that is being written (lib.rs 405).  The service alone never stops for the
\* second reason: QuietStateValidates of ReaderState.tla.
QuietConflictsAreRaces ==
    faults = 0 /\ conflict # None /\ ProducerMoves \subseteq {"content"} =>
        \/ conflict = "race" /\ moves >= MaxAttempts
        \/ conflict = "invalid state" /\ Beside

\* docs/synchronization-plan.md:262 lists remote modification of state/ as the
\* reason for this stop.
StateConflictIsForeign ==
    conflict \in {"state", "trusted"} => \E c \in DOMAIN commits : Tree(c).alien

\* docs/synchronization-plan.md:240: if the remote advances, the candidate is
\* discarded and rebuilt; history that cannot be accounted for is the rest.
UnconfirmedIsGenuine ==
    conflict = "unconfirmed" =>
        rewritten \/ \E c \in DOMAIN commits : Tree(c).alien
=============================================================================
