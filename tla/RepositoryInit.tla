--------------------------- MODULE RepositoryInit ---------------------------
(***************************************************************************)
(* The first synchronization of a data root (crates/plainfeed-sync,        *)
(* initialize_repository_if_needed): the remote snapshot is fetched,       *)
(* audited, exported to a staging directory, validated, and moved into the *)
(* root one top-level name after the other before the branch is born.      *)
(* The network is awaited once; after that the service does nothing else,  *)
(* but it can be killed, a file operation can fail, and whoever shares the *)
(* directory can put files there at any time.                              *)
(*                                                                         *)
(* Abstractions.  A commit is a constant record of its paths and whether   *)
(* they parse; a top-level name of the root holds nothing, the user's own  *)
(* data, or that name's part of one commit.  One process at a time works   *)
(* on the root, as docs/operations.md asks for.                            *)
(***************************************************************************)
EXTENDS Contract, FiniteSets

CONSTANTS
    Snapshots,      \* the remote's commits, each [paths, valid]
    None,
    MaxMoves,       \* bound: moves of the remote branch
    MaxFaults,      \* bound: kills and failures
    MaxPuts,        \* bound: names the user puts into the root
    Faults          \* what may fail

Commits == DOMAIN Snapshots
PathsOf(c) == Snapshots[c].paths
Top(c) == {path[1] : path \in PathsOf(c)}
Names == UNION {Top(c) : c \in Commits}

ASSUME SnapshotsAssumption ==
    \A c \in Commits :
        /\ Snapshots[c].valid \in BOOLEAN
        /\ \A path \in PathsOf(c) : path \in Seq(STRING) /\ path # <<>>
ASSUME NoneAssumption ==
    /\ None \notin Commits /\ None \notin STRING /\ None # "user"
    /\ "user" \notin Commits

VARIABLES
    root,       \* what each top-level name holds
    git,        \* .git exists
    main,       \* refs/heads/main, None while unborn
    staged,     \* names in the staging directory
    sync,       \* commit that sync.toml names
    conflict,   \* conflict.toml: None, "bare" without any commit, "based" with
    markers,    \* .plainfeed/dirty holds something, from an earlier life
    pc,         \* where the process is
    target,     \* the fetched tip
    looking,    \* the name about to be renamed
    installed,  \* names renamed so far
    tip,        \* remote main branch
    moves, faults, puts,
    \* history, read by the properties only
    late,       \* a name put between the look at it and its rename
    spoiled     \* a kill or a failed removal has left names behind

disk == <<root, git, main, staged, sync, conflict, markers>>
process == <<pc, target, looking, installed>>
bounds == <<moves, faults, puts>>
history == <<late, spoiled>>
vars == <<disk, process, tip, bounds, history>>

\* A name that is a file at the top of the commit, not a directory.
IsFile(c, n) == <<n>> \in PathsOf(c)

\* What initialization accepts: a state tree, owned paths only, and files that parse.
Audited(c) == "state" \in Top(c) /\ \A path \in PathsOf(c) : RemoteMayChange(path)
Acceptable(c) == Audited(c) /\ Snapshots[c].valid

Fault(kind) == kind \in Faults /\ faults < MaxFaults /\ faults' = faults + 1

\* The cycle ends, with an error or without.
Rest == pc' = "idle" /\ target' = None /\ looking' = None /\ installed' = {}

Goto(label) == pc' = label /\ UNCHANGED <<target, looking, installed>>

-----------------------------------------------------------------------------
(* A cycle that finds no branch *)

\* Markers make a publication due, which refuses a repository without a branch.
\* An unborn .git may also pass the check and fail at its branch, without a
\* report; a report that is there already stays.
PublishRefused ==
    /\ pc = "idle" /\ main = None /\ markers
    /\ conflict = None /\ conflict' = "bare"
    /\ UNCHANGED <<root, git, main, staged, sync, markers, process, tip, bounds, history>>

\* Slip: the repository that an earlier fetch has made counts as a file in the way.
EmptyWithoutGit == \A n \in Names : root[n] = None /\ ~git

\* ensure_initialization_target_is_empty
TargetIsEmpty == \A n \in Names : root[n] = None

Begin ==
    /\ pc = "idle" /\ main = None /\ ~markers
    /\ TargetIsEmpty
    /\ conflict' = IF conflict = "bare" THEN None ELSE conflict
    /\ Goto("fetch")
    /\ UNCHANGED <<root, git, main, staged, sync, markers, tip, bounds, history>>

\* The fetch may have made the repository by then.
FetchFails ==
    /\ pc = "fetch" /\ Fault("network")
    /\ git' \in {git, TRUE}
    /\ Rest
    /\ UNCHANGED <<root, main, staged, sync, conflict, markers, tip, moves, puts, history>>

\* Slip: the tip is not kept.
FetchForgotten ==
    /\ pc = "fetch"
    /\ git' = TRUE
    /\ IF Audited(tip) THEN Goto("export") ELSE Rest
    /\ UNCHANGED <<root, main, staged, sync, conflict, markers, tip, bounds, history>>

FetchDone ==
    /\ pc = "fetch"
    /\ git' = TRUE
    /\ IF Audited(tip)
       THEN pc' = "export" /\ target' = tip /\ UNCHANGED <<looking, installed>>
       ELSE Rest
    /\ UNCHANGED <<root, main, staged, sync, conflict, markers, tip, bounds, history>>

\* What an earlier attempt left in the staging directory goes first.
Export ==
    /\ pc = "export"
    /\ staged' = Top(target)
    /\ IF Snapshots[target].valid THEN Goto("install") ELSE Rest
    /\ UNCHANGED <<root, git, main, sync, conflict, markers, tip, bounds, history>>

ExportFails ==
    /\ pc = "export" /\ Fault("export")
    /\ staged' \in SUBSET Top(target)
    /\ Rest
    /\ UNCHANGED <<root, git, main, sync, conflict, markers, tip, moves, puts, history>>

Exists(n) == root[n] # None \/ n = ".plainfeed"

\* Slip: the destination is not looked at.
LookAway(n) ==
    /\ pc = "install" /\ n \in staged
    /\ pc' = "rename" /\ looking' = n
    /\ UNCHANGED <<disk, target, installed, tip, bounds, history>>

\* The next name in the order of read_dir, and whether its destination exists.
Look(n) ==
    /\ pc = "install" /\ n \in staged
    /\ IF ~Exists(n) THEN pc' = "rename" /\ looking' = n
       ELSE pc' = "rollback" /\ UNCHANGED looking
    /\ UNCHANGED <<disk, target, installed, tip, bounds, history>>

\* A file replaces a file; a directory does not replace what is not empty.
Renamable == root[looking] = None \/ IsFile(target, looking)

Rename ==
    /\ pc = "rename" /\ Renamable
    /\ root' = [root EXCEPT ![looking] = target]
    /\ staged' = staged \ {looking}
    /\ installed' = installed \cup {looking}
    /\ pc' = "install" /\ looking' = None /\ late' = None
    /\ UNCHANGED <<git, main, sync, conflict, markers, target, tip, bounds, spoiled>>

RenameFails ==
    /\ pc = "rename"
    /\ \/ ~Renamable /\ UNCHANGED faults
       \/ Renamable /\ Fault("rename")
    /\ pc' = "rollback" /\ looking' = None /\ late' = None
    /\ UNCHANGED <<disk, target, installed, tip, moves, puts, spoiled>>

\* Slip: the branch is born before everything is in place.
FinalizeFirst ==
    /\ pc = "install"
    /\ main' = target
    /\ IF staged = {} THEN Goto("sync") ELSE Goto("install")
    /\ UNCHANGED <<root, git, staged, sync, conflict, markers, tip, bounds, history>>

\* set_head_branch and finalize_fast_forward_checkout
Finalize ==
    /\ pc = "install" /\ staged = {}
    /\ main' = target
    /\ Goto("sync")
    /\ UNCHANGED <<root, git, staged, sync, conflict, markers, tip, bounds, history>>

FinalizeFails ==
    /\ pc = "install" /\ staged = {} /\ Fault("git")
    /\ Goto("rollback")
    /\ UNCHANGED <<disk, tip, moves, puts, history>>

\* Slip: a file is not removed.
RemoveDirectory(n) ==
    /\ pc = "rollback" /\ n \in installed
    /\ root' = IF IsFile(target, n) THEN root ELSE [root EXCEPT ![n] = None]
    /\ installed' = installed \ {n}
    /\ UNCHANGED <<git, main, staged, sync, conflict, markers, pc, target, looking, tip, bounds, history>>

\* remove_path, for each name that was installed.
Remove(n) ==
    /\ pc = "rollback" /\ n \in installed
    /\ root' = [root EXCEPT ![n] = None]
    /\ installed' = installed \ {n}
    /\ UNCHANGED <<git, main, staged, sync, conflict, markers, pc, target, looking, tip, bounds, history>>

\* Its failure is ignored.
RemoveFails(n) ==
    /\ pc = "rollback" /\ n \in installed /\ Fault("remove")
    /\ installed' = installed \ {n}
    /\ spoiled' = TRUE
    /\ UNCHANGED <<disk, pc, target, looking, tip, moves, puts, late>>

RolledBack ==
    /\ pc = "rollback" /\ installed = {}
    /\ Rest
    /\ UNCHANGED <<disk, tip, bounds, history>>

Record ==
    /\ pc = "sync"
    /\ \/ sync' = target /\ UNCHANGED faults
       \/ Fault("disk") /\ UNCHANGED sync
    /\ Rest
    /\ UNCHANGED <<root, git, main, staged, conflict, markers, tip, moves, puts, history>>

-----------------------------------------------------------------------------
(* The environment *)

Kill ==
    /\ pc # "idle" /\ Fault("kill")
    /\ \/ pc = "export" /\ staged' \in SUBSET Top(target)
       \/ UNCHANGED staged
    /\ git' \in {git, TRUE}
    /\ Rest
    /\ late' = None /\ spoiled' = (spoiled \/ installed # {})
    /\ UNCHANGED <<root, main, sync, conflict, markers, tip, moves, puts>>

\* The producer pushes, or the branch is reset.
MoveTip(c) ==
    /\ tip # c /\ moves < MaxMoves
    /\ tip' = c /\ moves' = moves + 1
    /\ UNCHANGED <<disk, process, faults, puts, history>>

UserPuts(n) ==
    /\ ~Exists(n) /\ main = None /\ puts < MaxPuts
    /\ root' = [root EXCEPT ![n] = "user"] /\ puts' = puts + 1
    /\ late' = IF looking = n THEN n ELSE late
    /\ UNCHANGED <<git, main, staged, sync, conflict, markers, process, tip, moves, faults,
                   spoiled>>

\* The operator throws away what is in the way.
CleanUp ==
    /\ pc = "idle" /\ main = None
    /\ root' = [n \in Names |-> None] /\ markers' = FALSE
    /\ spoiled' = FALSE
    /\ UNCHANGED <<git, main, staged, sync, conflict, process, tip, bounds, late>>

-----------------------------------------------------------------------------
Init ==
    /\ root = [n \in Names |-> None]
    /\ git \in BOOLEAN /\ main = None /\ staged = {} /\ sync = None
    /\ conflict \in {None, "based"} /\ markers \in BOOLEAN
    /\ pc = "idle" /\ target = None /\ looking = None /\ installed = {}
    /\ tip \in Commits
    /\ moves = 0 /\ faults = 0 /\ puts = 0
    /\ late = None /\ spoiled = FALSE

Step ==
    \/ PublishRefused \/ Begin \/ FetchDone \/ Export
    \/ \E n \in Names : Look(n) \/ Remove(n)
    \/ Rename \/ Finalize \/ RolledBack \/ Record

Next ==
    \/ Step
    \/ FetchFails \/ ExportFails \/ RenameFails \/ FinalizeFails
    \/ \E n \in Names : RemoveFails(n) \/ UserPuts(n)
    \/ Kill \/ CleanUp
    \/ \E c \in Commits : MoveTip(c)

Spec == Init /\ [][Next]_vars

\* The service retries at every tick, and a started attempt goes on.
FairSpec == Spec /\ WF_vars(Step) /\ WF_vars(RenameFails)

-----------------------------------------------------------------------------
TypeOK ==
    /\ root \in [Names -> Commits \cup {None, "user"}]
    /\ git \in BOOLEAN /\ main \in Commits \cup {None}
    /\ staged \subseteq Names /\ sync \in Commits \cup {None}
    /\ conflict \in {None, "bare", "based"} /\ markers \in BOOLEAN
    /\ pc \in {"idle", "fetch", "export", "install", "rename", "rollback", "sync"}
    /\ target \in Commits \cup {None} /\ looking \in Names \cup {None}
    /\ installed \subseteq Names /\ tip \in Commits
    /\ pc \in {"export", "install", "rename", "rollback", "sync"} => target # None
    /\ pc = "rename" => looking # None
    /\ late \in Names \cup {None} /\ spoiled \in BOOLEAN

\* A branch is never born over a partial checkout: whatever failed or was
\* killed, when main exists every name of its commit is in place and from that
\* commit alone (installation before finalize_fast_forward_checkout).
WholeOrUnborn ==
    main # None => \A n \in Top(main) : root[n] = main

\* Nothing of a remote commit stands in the root, not even for a moment, unless
\* all its paths are owned, none leaves its area, none is local metadata, it
\* has a state tree, and it parses.
OnlyContractInstalled ==
    \A n \in Names : root[n] \in Commits =>
        /\ n \in {"content", "config", "state", ".gitignore", "guide"}
        /\ "state" \in Top(root[n]) /\ Snapshots[root[n]].valid
        /\ \A path \in PathsOf(root[n]) : Range(path) \cap NotPlain = {}

\* A failed attempt leaves the root as empty as it found it, so that the next
\* one is not refused; only a kill between the renames, or a name that cannot
\* be removed, leaves something behind (the rollback of the installation).
FailureLeavesEmpty ==
    pc = "idle" /\ main = None /\ ~spoiled => \A n \in Names : root[n] \in {None, "user"}

\* What somebody else put into the root while the fetch was awaited or the
\* renames were under way is neither replaced nor rolled back; the exception is
\* a plain file put in the instant between the look at its name and the rename.
UserDataSurvives ==
    [][\A n \in Names :
        root[n] = "user" /\ root'[n] # "user"
        => CleanUp \/ late = n]_vars

\* An empty root is in the end initialized or something stands in its way: old
\* markers, files in the root, or a remote snapshot that is refused.
EmptyRootInitializes ==
    []<>(main # None \/ markers \/ ~Acceptable(tip) \/ \E n \in Names : root[n] # None)
=============================================================================
