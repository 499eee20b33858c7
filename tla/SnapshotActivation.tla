------------------------- MODULE SnapshotActivation -------------------------
(***************************************************************************)
(* How a fetched snapshot replaces the live content/, config/ and guide    *)
(* (activate_staged_snapshot_internal in plainfeed-sync-core), driven by   *)
(* activate_fetched_snapshot, undone by rollback_activation or, after a    *)
(* crash, by the recover-local command, while the reader serves the files. *)
(*                                                                         *)
(* Abstractions.  Fetched commits are the numbers of one linear history,   *)
(* and Files says which tree each holds in each area.  Auditing, fetching  *)
(* and the conflict report that pauses later cycles until the operator     *)
(* acknowledges it are StatePublication.tla's; here a failed activation    *)
(* may simply be tried again.                                              *)
(***************************************************************************)
EXTENDS Naturals, Sequences, FiniteSetsExt

CONSTANTS
    Procs,      \* processes that synchronize: the service, the one-shot command
    Service,    \* the one of them that shares its thread with the reader, or None
    Tips,       \* commits of the remote main branch, 1..n
    Files,      \* Files[t][a]: the tree commit t holds in area a
    Valid,      \* commits whose content and configuration validate
    None,       \* an absent directory, file or value
    Busy,       \* what a locked reader shows
    MaxName,    \* bound: numbers MARKER_SEQUENCE gives out for backups
    MaxFaults,  \* bound: faults of all kinds together
    Faults      \* what may fail

ASSUME TipsAssumption == Tips \subseteq Nat /\ 1 \in Tips /\ 1 \in Valid
ASSUME NoneAssumption == None \notin Nat /\ None \notin Procs /\ Busy \notin Nat
ASSUME BoundsAssumption == MaxName \in Nat \ {0} /\ MaxFaults \in Nat

Order == <<"content", "config", "guide">>
Areas == {"content", "config", "guide"}
Guarded == {"content", "config"}    \* what preflight and recover-local compare
Names == 1..MaxName

ASSUME FilesAssumption ==
    \A t \in Tips :
        /\ Files[t] = [a \in Areas |-> Files[t][a]]
        /\ \A a \in Guarded : Files[t][a] # None

\* What an area can hold.  A directory that is absent is not an empty one.
Trees == {None} \cup UNION {{Files[t][a] : a \in Areas} : t \in Tips}
NoFiles == [a \in Areas |-> None]

ASSUME AbsentAssumption == None \notin [Areas -> Trees]

VARIABLES
    live,       \* the areas of the data root
    staging,    \* .plainfeed/staging/<tip>, NoFiles when absent or empty
    backups,    \* .plainfeed/backup/activation-<n>, None when absent
    lock,       \* .plainfeed/update.lock
    main,       \* refs/heads/main
    sync,       \* commit sync.toml records
    \* one synchronizing process
    pc, base, tip, saved, name, next, had, area,
    \* the recover-local command
    rescue, pick,
    \* one request of the reader
    request, view,
    faults

disk == <<live, staging, backups, lock, main, sync>>
procs == <<pc, base, tip, saved, name, next, had, area>>
others == <<rescue, pick, request, view>>
vars == <<disk, procs, others, faults>>

-----------------------------------------------------------------------------

Holding == {"out", "in", "rollback", "sync", "ref", "clean", "unlock"}

\* The worktree matches commit t where it is compared.
Matches(t) == \A a \in Guarded : live[a] = Files[t][a]

Fault(kind) == kind \in Faults /\ faults < MaxFaults /\ faults' = faults + 1

\* The service handles requests on the thread it synchronizes on, so neither
\* runs inside the other; other processes interleave with both.
MayStep(p) == ~(p = Service /\ request # "none")

Goto(p, label) ==
    /\ pc' = [pc EXCEPT ![p] = label]
    /\ UNCHANGED <<base, tip, saved, name, next, had, area>>

-----------------------------------------------------------------------------
(* activate_fetched_snapshot up to the lock *)

\* The cycle reads main and compares the worktree, then awaits the fetch.  The
\* operator has stopped synchronization while recover-local runs.
Begin(p) ==
    /\ pc[p] = "idle" /\ MayStep(p) /\ rescue = "none"
    /\ next[p] <= MaxName
    /\ Matches(main)
    /\ \E t \in Tips : t > main /\ tip' = [tip EXCEPT ![p] = t]
    /\ base' = [base EXCEPT ![p] = main]
    /\ pc' = [pc EXCEPT ![p] = "fetch"]
    /\ UNCHANGED <<disk, others, faults, saved, name, next, had, area>>

\* export_remote_snapshot, and previous_sync_state read for a later restore.
Export(p) ==
    /\ pc[p] = "fetch" /\ MayStep(p)
    /\ staging' = [staging EXCEPT ![tip[p]] = Files[tip[p]]]
    /\ saved' = [saved EXCEPT ![p] = sync]
    /\ pc' = [pc EXCEPT ![p] = "validate"]
    /\ UNCHANGED <<live, backups, lock, main, sync, others, faults,
                   base, tip, name, next, had, area>>

Acceptable(t) ==
    /\ t \in Valid
    /\ \A a \in Guarded : staging[t][a] # None

Reject(p) ==
    /\ pc[p] = "validate" /\ MayStep(p)
    /\ ~Acceptable(tip[p])
    /\ Goto(p, "idle")
    /\ UNCHANGED <<disk, others, faults>>

Accept(p) ==
    /\ pc[p] = "validate" /\ MayStep(p)
    /\ Acceptable(tip[p])
    /\ Goto(p, "lock")
    /\ UNCHANGED <<disk, others, faults>>

LockBusy(p) ==
    /\ pc[p] = "lock" /\ MayStep(p)
    /\ lock
    /\ Goto(p, "idle")
    /\ UNCHANGED <<disk, others, faults>>

\* Slip: a lock somebody else made is taken over.
TakeLockAnyway(p) ==
    /\ pc[p] = "lock" /\ MayStep(p)
    /\ lock' = TRUE
    /\ \E n \in Names :
           /\ n >= next[p]
           /\ name' = [name EXCEPT ![p] = n]
           /\ next' = [next EXCEPT ![p] = n + 1]
           /\ backups' = [backups EXCEPT ![n] = IF @ = None THEN NoFiles ELSE @]
    /\ had' = [had EXCEPT ![p] = {}]
    /\ area' = [area EXCEPT ![p] = 1]
    /\ pc' = [pc EXCEPT ![p] = "out"]
    /\ UNCHANGED <<live, staging, main, sync, others, faults, base, tip, saved>>

\* UpdateLock::acquire, then the backup directory: create_dir_all accepts one
\* that is already there.  The counter also numbers dirty markers, so the next
\* activation need not take the next number.
TakeLock(p) ==
    /\ pc[p] = "lock" /\ MayStep(p)
    /\ ~lock
    /\ lock' = TRUE
    /\ \E n \in Names :
           /\ n >= next[p]
           /\ name' = [name EXCEPT ![p] = n]
           /\ next' = [next EXCEPT ![p] = n + 1]
           /\ backups' = [backups EXCEPT ![n] = IF @ = None THEN NoFiles ELSE @]
    /\ had' = [had EXCEPT ![p] = {}]
    /\ area' = [area EXCEPT ![p] = 1]
    /\ pc' = [pc EXCEPT ![p] = "out"]
    /\ UNCHANGED <<live, staging, main, sync, others, faults, base, tip, saved>>

-----------------------------------------------------------------------------
(* The swap, one rename at a time *)

Current(p) == Order[area[p]]

\* A file is renamed over another one, a directory only over an empty one.
Blocked(p, a) == backups[name[p]][a] # None /\ a # "guide"

MoveOut(p) ==
    LET a == Current(p)
    IN  /\ pc[p] = "out" /\ MayStep(p)
        /\ IF live[a] = None
             THEN UNCHANGED <<live, backups, had>>
             ELSE /\ ~Blocked(p, a)
                  /\ backups' = [backups EXCEPT ![name[p]][a] = live[a]]
                  /\ live' = [live EXCEPT ![a] = None]
                  /\ had' = [had EXCEPT ![p] = @ \cup {a}]
        /\ pc' = [pc EXCEPT ![p] = "in"]
        /\ UNCHANGED <<staging, lock, main, sync, others, faults,
                       base, tip, saved, name, next, area>>

\* The rename into the backup fails: `?` drops the lock and nothing else.
MoveOutFails(p) ==
    LET a == Current(p)
    IN  /\ pc[p] = "out" /\ MayStep(p)
        /\ live[a] # None
        /\ \/ Blocked(p, a) /\ UNCHANGED faults
           \/ ~Blocked(p, a) /\ Fault("moveOut")
        /\ lock' = FALSE
        /\ Goto(p, "idle")
        /\ UNCHANGED <<live, staging, backups, main, sync, others>>

\* Slip: one area too many.
MoveInPastLast(p) ==
    LET a == Current(p)
    IN  /\ pc[p] = "in" /\ MayStep(p)
        /\ IF staging[tip[p]][a] = None
             THEN UNCHANGED <<live, staging>>
             ELSE /\ live' = [live EXCEPT ![a] = staging[tip[p]][a]]
                  /\ staging' = [staging EXCEPT ![tip[p]][a] = None]
        /\ area' = [area EXCEPT ![p] = @ + 1]
        /\ pc' = [pc EXCEPT ![p] = IF area[p] > Len(Order) THEN "sync" ELSE "out"]
        /\ UNCHANGED <<backups, lock, main, sync, others, faults,
                       base, tip, saved, name, next, had>>

MoveIn(p) ==
    LET a == Current(p)
    IN  /\ pc[p] = "in" /\ MayStep(p)
        /\ IF staging[tip[p]][a] = None
             THEN UNCHANGED <<live, staging>>
             ELSE /\ live' = [live EXCEPT ![a] = staging[tip[p]][a]]
                  /\ staging' = [staging EXCEPT ![tip[p]][a] = None]
        /\ area' = [area EXCEPT ![p] = @ + 1]
        /\ pc' = [pc EXCEPT ![p] = IF area[p] = Len(Order) THEN "sync" ELSE "out"]
        /\ UNCHANGED <<backups, lock, main, sync, others, faults,
                       base, tip, saved, name, next, had>>

\* Slip: the areas swapped before this one stay swapped.
MoveInFailsHere(p) ==
    LET a == Current(p)
    IN  /\ pc[p] = "in" /\ MayStep(p)
        /\ staging[tip[p]][a] # None
        /\ Fault("moveIn")
        /\ IF a \in had[p]
             THEN /\ live' = [live EXCEPT ![a] = backups[name[p]][a]]
                  /\ backups' = [backups EXCEPT ![name[p]][a] = None]
             ELSE UNCHANGED <<live, backups>>
        /\ area' = [area EXCEPT ![p] = 0]
        /\ pc' = [pc EXCEPT ![p] = "rollback"]
        /\ UNCHANGED <<staging, lock, main, sync, others,
                       base, tip, saved, name, next, had>>

\* The rename into place fails: this area goes back, then those before it.
MoveInFails(p) ==
    LET a == Current(p)
    IN  /\ pc[p] = "in" /\ MayStep(p)
        /\ staging[tip[p]][a] # None
        /\ Fault("moveIn")
        /\ IF a \in had[p]
             THEN /\ live' = [live EXCEPT ![a] = backups[name[p]][a]]
                  /\ backups' = [backups EXCEPT ![name[p]][a] = None]
             ELSE UNCHANGED <<live, backups>>
        /\ area' = [area EXCEPT ![p] = @ - 1]
        /\ pc' = [pc EXCEPT ![p] = "rollback"]
        /\ UNCHANGED <<staging, lock, main, sync, others,
                       base, tip, saved, name, next, had>>

\* Undo one area: what is live goes back to staging, what was live comes back.
\* Neither rename's failure is noticed.
UndoArea(p) ==
    LET a == Current(p)
        cleared == live[a] # None /\ (staging[tip[p]][a] = None \/ a = "guide")
        left == IF cleared THEN None ELSE live[a]
    IN  /\ staging' = IF cleared THEN [staging EXCEPT ![tip[p]][a] = live[a]] ELSE staging
        /\ IF a \in had[p] /\ (left = None \/ a = "guide")
             THEN /\ live' = [live EXCEPT ![a] = backups[name[p]][a]]
                  /\ backups' = [backups EXCEPT ![name[p]][a] = None]
             ELSE /\ live' = [live EXCEPT ![a] = left]
                  /\ UNCHANGED backups

Rollback(p) ==
    /\ pc[p] = "rollback" /\ MayStep(p)
    /\ area[p] > 0
    /\ UndoArea(p)
    /\ area' = [area EXCEPT ![p] = @ - 1]
    /\ UNCHANGED <<lock, main, sync, others, faults, pc, base, tip, saved, name, next, had>>

\* remove_dir_all(backup) may fail, unnoticed; then the lock goes.
RolledBack(p) ==
    /\ pc[p] = "rollback" /\ MayStep(p)
    /\ area[p] = 0
    /\ \/ backups' = [backups EXCEPT ![name[p]] = None] /\ UNCHANGED faults
       \/ Fault("cleanup") /\ UNCHANGED backups
    /\ lock' = FALSE
    /\ Goto(p, "idle")
    /\ UNCHANGED <<live, staging, main, sync, others>>

-----------------------------------------------------------------------------
(* The finalize closure of activate_fetched_snapshot, and the cleanup *)

StartRollback(p) ==
    /\ area' = [area EXCEPT ![p] = Len(Order)]
    /\ pc' = [pc EXCEPT ![p] = "rollback"]
    /\ UNCHANGED <<base, tip, saved, name, next, had>>

\* Slip: the backup is dropped before main has moved.
WriteSyncAndClean(p) ==
    /\ pc[p] = "sync" /\ MayStep(p)
    /\ sync' = tip[p]
    /\ backups' = [backups EXCEPT ![name[p]] = None]
    /\ Goto(p, "ref")
    /\ UNCHANGED <<live, staging, lock, main, others, faults>>

WriteSync(p) ==
    /\ pc[p] = "sync" /\ MayStep(p)
    /\ sync' = tip[p]
    /\ Goto(p, "ref")
    /\ UNCHANGED <<live, staging, backups, lock, main, others, faults>>

WriteSyncFails(p) ==
    /\ pc[p] = "sync" /\ MayStep(p)
    /\ Fault("sync")
    /\ StartRollback(p)
    /\ UNCHANGED <<disk, others>>

\* Slip: main is moved whatever it names by now.
MoveRefBlindly(p) ==
    /\ pc[p] = "ref" /\ MayStep(p)
    /\ main' = tip[p]
    /\ Goto(p, "clean")
    /\ UNCHANGED <<live, staging, backups, lock, sync, others, faults>>

\* finalize_fast_forward_checkout moves main only from the expected commit.
MoveRef(p) ==
    /\ pc[p] = "ref" /\ MayStep(p)
    /\ main = base[p]
    /\ main' = tip[p]
    /\ Goto(p, "clean")
    /\ UNCHANGED <<live, staging, backups, lock, sync, others, faults>>

\* Slip: sync.toml keeps naming the commit that was not checked out.
MoveRefFailsUnrestored(p) ==
    /\ pc[p] = "ref" /\ MayStep(p)
    /\ \/ main # base[p] /\ UNCHANGED faults
       \/ main = base[p] /\ Fault("ref")
    /\ StartRollback(p)
    /\ UNCHANGED <<disk, others>>

MoveRefFails(p) ==
    /\ pc[p] = "ref" /\ MayStep(p)
    /\ \/ main # base[p] /\ UNCHANGED faults
       \/ main = base[p] /\ Fault("ref")
    /\ sync' = saved[p]
    /\ StartRollback(p)
    /\ UNCHANGED <<live, staging, backups, lock, main, others>>

Clean(p) ==
    /\ pc[p] = "clean" /\ MayStep(p)
    /\ \/ backups' = [backups EXCEPT ![name[p]] = None] /\ UNCHANGED faults
       \/ Fault("cleanup") /\ UNCHANGED backups
    /\ Goto(p, "unlock")
    /\ UNCHANGED <<live, staging, lock, main, sync, others>>

Unlock(p) ==
    /\ pc[p] = "unlock" /\ MayStep(p)
    /\ lock' = FALSE
    /\ Goto(p, "idle")
    /\ UNCHANGED <<live, staging, backups, main, sync, others, faults>>

\* The process is killed; with the service goes the request it was answering.
Crash(p) ==
    /\ pc[p] # "idle"
    /\ Fault("crash")
    /\ pc' = [pc EXCEPT ![p] = "idle"]
    /\ next' = [next EXCEPT ![p] = 1]
    /\ IF p = Service
         THEN request' = "none" /\ view' = NoFiles
         ELSE UNCHANGED <<request, view>>
    /\ UNCHANGED <<disk, rescue, pick, base, tip, saved, name, had, area>>

\* The service is restarted, or the one-shot command run again.
Restart(p) ==
    /\ pc[p] = "idle" /\ next[p] # 1
    /\ next' = [next EXCEPT ![p] = 1]
    /\ UNCHANGED <<disk, others, faults, pc, base, tip, saved, name, had, area>>

-----------------------------------------------------------------------------
(* recover_local_transition, which the operator runs with no sync running *)

Stopped == \A p \in Procs : pc[p] = "idle"

PickLast ==
    /\ rescue = "none" /\ lock /\ Stopped
    /\ ~Matches(main)
    /\ \E n \in Names : backups[n] # None
    /\ pick' = Max({n \in Names : backups[n] # None})
    /\ rescue' = "content"
    /\ UNCHANGED <<disk, procs, faults, request, view>>

\* Slip: recover-local wants a backup even when the checkout is complete.
NothingToRestoreFromBackup ==
    /\ rescue = "none" /\ lock /\ Stopped
    /\ Matches(main)
    /\ \E n \in Names : backups[n] # None
    /\ rescue' = "record"
    /\ UNCHANGED <<disk, procs, faults, pick, request, view>>

NothingToRestore ==
    /\ rescue = "none" /\ lock /\ Stopped
    /\ Matches(main)
    /\ rescue' = "record"
    /\ UNCHANGED <<disk, procs, faults, pick, request, view>>

\* content/, then config/; an area the backup lacks stays as it is.
Restore(a) ==
    /\ rescue = a
    /\ IF backups[pick][a] = None
         THEN UNCHANGED <<live, backups>>
         ELSE /\ live' = [live EXCEPT ![a] = backups[pick][a]]
              /\ backups' = [backups EXCEPT ![pick][a] = None]
    /\ rescue' = IF a = "content" THEN "config" ELSE "compare"
    /\ UNCHANGED <<staging, lock, main, sync, procs, faults, pick, request, view>>

\* Store::validate, then the comparison with the local commit.
Compare ==
    /\ rescue = "compare"
    /\ rescue' = IF main \in Valid /\ Matches(main) THEN "record" ELSE "none"
    /\ UNCHANGED <<disk, procs, faults, pick, request, view>>

Record ==
    /\ rescue = "record"
    /\ sync' = main
    /\ backups' = [n \in Names |-> None]
    /\ rescue' = "release"
    /\ UNCHANGED <<live, staging, lock, main, procs, faults, pick, request, view>>

Release ==
    /\ rescue = "release"
    /\ lock' = FALSE
    /\ rescue' = "none" /\ pick' = 1
    /\ UNCHANGED <<live, staging, backups, main, sync, procs, faults, request, view>>

RescueCrash ==
    /\ rescue # "none"
    /\ Fault("crash")
    /\ rescue' = "none"
    /\ UNCHANGED <<disk, procs, pick, request, view>>

-----------------------------------------------------------------------------
(* route_with_renderer and render_feed: look at the lock, then read the files *)

AtAwait == \A p \in Procs : p = Service => pc[p] \in {"idle", "fetch"}

\* Slip: the lock is not looked at.
ReceiveAnyway ==
    /\ request = "none" /\ AtAwait
    /\ request' = "content" /\ view' = NoFiles
    /\ UNCHANGED <<disk, procs, faults, rescue, pick>>

Receive ==
    /\ request = "none" /\ AtAwait
    /\ ~lock
    /\ request' = "content" /\ view' = NoFiles
    /\ UNCHANGED <<disk, procs, faults, rescue, pick>>

\* Store::entries, then Store::channels.
Read(a) ==
    /\ request = a
    /\ view' = [view EXCEPT ![a] = live[a]]
    /\ request' = IF a = "content" THEN "config" ELSE "respond"
    /\ UNCHANGED <<disk, procs, faults, rescue, pick>>

Respond ==
    /\ request = "respond"
    /\ request' = "none" /\ view' = NoFiles
    /\ UNCHANGED <<disk, procs, faults, rescue, pick>>

-----------------------------------------------------------------------------

Init ==
    /\ live = Files[1] /\ main = 1 /\ sync = 1 /\ lock = FALSE
    /\ staging = [t \in Tips |-> NoFiles] /\ backups = [n \in Names |-> None]
    /\ pc = [p \in Procs |-> "idle"]
    /\ base = [p \in Procs |-> 1] /\ tip = base /\ saved = base /\ name = base
    /\ next = base /\ area = base /\ had = [p \in Procs |-> {}]
    /\ rescue = "none" /\ pick = 1
    /\ request = "none" /\ view = NoFiles
    /\ faults = 0

Prepare(p) == Begin(p) \/ Export(p) \/ Reject(p) \/ Accept(p) \/ LockBusy(p) \/ TakeLock(p)

Swap(p) ==
    \/ MoveOut(p) \/ MoveOutFails(p) \/ MoveIn(p) \/ MoveInFails(p)
    \/ Rollback(p) \/ RolledBack(p)

Finalize(p) ==
    \/ WriteSync(p) \/ WriteSyncFails(p) \/ MoveRef(p) \/ MoveRefFails(p)
    \/ Clean(p) \/ Unlock(p)

RecoverLocal ==
    \/ PickLast \/ NothingToRestore \/ Restore("content") \/ Restore("config")
    \/ Compare \/ Record \/ Release

Request == Receive \/ Read("content") \/ Read("config") \/ Respond

Next ==
    \/ \E p \in Procs : Prepare(p) \/ Swap(p) \/ Finalize(p) \/ Crash(p) \/ Restart(p)
    \/ RecoverLocal \/ RescueCrash
    \/ Request

Spec == Init /\ [][Next]_vars

\* A process that has begun goes on, a request is answered, and an operator who
\* finds a stale lock stops synchronization and runs recover-local to its end,
\* however often a cycle had found the lock busy before.
Fairness ==
    /\ \A p \in Procs : WF_vars((Prepare(p) /\ pc[p] # "idle") \/ Swap(p) \/ Finalize(p))
    /\ SF_vars(RecoverLocal)
    /\ WF_vars(Read("content") \/ Read("config") \/ Respond)

FairSpec == Spec /\ Fairness

-----------------------------------------------------------------------------
(* Properties *)

\* Every directory holds, area by area, a tree some commit has; every process
\* and every pointer names a commit.
TypeOK ==
    /\ live \in [Areas -> Trees] /\ staging \in [Tips -> [Areas -> Trees]]
    /\ backups \in [Names -> [Areas -> Trees] \cup {None}]
    /\ lock \in BOOLEAN /\ main \in Tips /\ sync \in Tips
    /\ pc \in [Procs -> {"idle", "fetch", "validate", "lock"} \cup Holding]
    /\ base \in [Procs -> Tips] /\ tip \in [Procs -> Tips] /\ saved \in [Procs -> Tips]
    /\ name \in [Procs -> Names] /\ next \in [Procs -> 1..MaxName + 1]
    /\ had \in [Procs -> SUBSET Areas] /\ area \in [Procs -> 0..Len(Order) + 1]
    /\ \A p \in Procs : pc[p] \in {"out", "in"} => area[p] \in DOMAIN Order
    /\ rescue \in {"none", "content", "config", "compare", "record", "release"}
    /\ pick \in Names
    /\ request \in {"none", "content", "config", "respond"}
    /\ view \in [Areas -> Trees]
    /\ faults \in 0..MaxFaults

\* At most one process is between taking the lock and releasing it, and while
\* one is the lock is there.
OneHolder ==
    /\ \A p, q \in Procs : pc[p] \in Holding /\ pc[q] \in Holding => p = q
    /\ (\E p \in Procs : pc[p] \in Holding) => lock

\* Activation switches the reader from one whole commit to a later one.
Switch == INSTANCE AtomicSwitch
    WITH First <- 1, Busy <- Busy, main <- main,
         shown <- IF lock THEN Busy ELSE IF Matches(main) THEN main ELSE None

ImplementsSwitch == Switch!Spec

\* Whatever moment a process is killed at, recover-local can rebuild the commit
\* main names: each area is live already or in the backup it will pick.
Recoverable ==
    lock /\ Stopped /\ rescue = "none" /\ ~Matches(main) =>
        LET kept == {n \in Names : backups[n] # None}
        IN  /\ kept # {}
            /\ \A a \in Guarded :
                   LET b == backups[Max(kept)][a]
                   IN  (IF b = None THEN live[a] ELSE b) = Files[main][a]

\* With nothing in progress sync.toml names the commit checked out, also after
\* a failed branch update had to take it back.
SyncNamesMain == ~lock => sync = main

\* docs/synchronization-plan.md:209: a response never shows half of a snapshot.
ReaderSeesOneSnapshot ==
    request = "respond" => \E t \in Tips : \A a \in Guarded : view[a] = Files[t][a]

\* docs/synchronization-plan.md:207: on any failure the old snapshot is active.
FailureKeepsSnapshot == ~lock => Matches(main)

\* The reader is not locked out for ever (operations.md: recover-local).
LockIsReleased == lock ~> ~lock
=============================================================================
