--------------------------- MODULE SyncScheduler ---------------------------
(***************************************************************************)
(* Who starts a synchronization cycle, when, with which remote, and what   *)
(* it leaves in sync.toml: the service's loop with its interval and its    *)
(* queue, the settings page that wakes it, and the one-shot command an     *)
(* operator runs while the service is down.                                *)
(*                                                                         *)
(* Abstractions.  The code uses a time only to compute its age, so that is *)
(* what is kept: one unit is the 30 s tick, an age stops growing where     *)
(* nothing depends on it any more, and setting the clock back makes every  *)
(* age smaller.  Commits are numbers on one line; "ours" are those that    *)
(* publish state.  All the URLs lead to one repository whose state only    *)
(* this instance writes; that the environment can override them is left    *)
(* out.  A cycle is cut where it awaits the network; foreign commits, and  *)
(* kills between two file operations, are the matter of StatePublication,  *)
(* SnapshotActivation and RepositoryInit.                                  *)
(***************************************************************************)
EXTENDS Integers, FiniteSets

CONSTANTS
    Remotes,        \* URLs of the remote repository
    None,
    Installed,      \* what the two files may name at first, None where they are missing
    IdleAge,        \* 30 s: a batch of markers is idle
    CapAge,         \* 5 min: a marker waits no longer
    PullAge,        \* 5 min between pulls
    SetBack,        \* how far the clock is set back, once
    MaxTicks,       \* bound: elapsed ticks the interval remembers
    MaxMarks,       \* bound: mutations
    MaxEvents,      \* bound: faults, runs of the command, saved settings, commits
                    \* of the producer and changes of the clock, all together
    Faults          \* what may fail

ASSUME AgesAssumption ==
    /\ {IdleAge, CapAge, PullAge} \subseteq Nat \ {0}
    /\ IdleAge <= CapAge /\ PullAge <= CapAge /\ SetBack \in Nat
ASSUME BoundsAssumption == {MaxMarks, MaxEvents} \subseteq Nat /\ MaxTicks \in Nat \ {0}
ASSUME InstalledAssumption == Installed \subseteq Remotes \cup {None}
ASSUME NoneAssumption ==
    /\ None \notin Remotes /\ None \notin Int /\ None \notin STRING
    /\ None \notin [url : Remotes, base : Int, at : Int, listed : SUBSET (1..MaxMarks),
                    holds : Int]

VARIABLES
    dirty,      \* age of each mutation's marker in .plainfeed/dirty
    made,       \* mutations of state/ so far
    settings,   \* service-settings.toml, with the number of times it was saved
    queued,     \* Force commands in the loop's channel
    ticks,      \* interval ticks that have not been taken
    pc,         \* where the one running process is
    job,        \* the locals of its cycle
    record,     \* sync.toml
    main,       \* local main branch, None while unborn
    tip,        \* remote main branch
    ours,       \* commits on it that publish state
    shown,      \* mutations in the newest of them
    pending,    \* pending-push.toml
    conflict,   \* reason in conflict.toml
    setBack,    \* whether the clock was set back
    events,     \* events so far, up to MaxEvents
    tried,      \* history: the save that the service's last attempt knew of
    silent,     \* history: an error could not be written to sync.toml
    before      \* history: mutations older than the start of the service, until the
                \* loop takes its first tick or command

reader == <<dirty, made>>
process == <<pc, job>>
wakers == <<settings, queued, ticks>>
remote == <<tip, ours, shown>>
meta == <<record, main, pending, conflict>>
clock == <<setBack, events>>
history == <<tried, silent, before>>
vars == <<reader, process, wakers, remote, meta, clock, history>>

Ids == 1..MaxMarks
Ages == (-SetBack)..(CapAge + SetBack)
Commits == 0..(MaxEvents + MaxMarks)

Records == [url : Remotes \cup {None}, oid : Commits \cup {None},
            pulled : Ages \cup {None}, error : BOOLEAN]
Pendings == [url : Remotes, base : Commits, at : Ages, listed : SUBSET Ids,
             holds : 0..MaxMarks]
Jobs == [by : {"boot", "service", "command"}, url : Remotes \cup {None}, age : Ages,
         listed : SUBSET Ids]

Listed == {i \in Ids : dirty[i] # None}

\* No commit that changes the state tree lies after a, up to b.
SameTree(a, b) == \A c \in ours : a < c => b < c
Landed(push) == push.base + 1 \in ours

\* The service is not running.
Down == pc = "off" \/ job.by = "command"

NoJob == [by |-> "boot", url |-> None, age |-> 0, listed |-> {}]

Event == events < MaxEvents /\ events' = events + 1

Fault(kind) == kind \in Faults /\ Event

-----------------------------------------------------------------------------
(* What is due *)

\* Slip: continuous mutation postpones publication without a limit.
StateDueWhenIdle(command) ==
    /\ Listed # {}
    /\ command = "tick" => \A i \in Listed : dirty[i] >= IdleAge

\* state_publication_is_due: the newest marker is idle or the oldest has waited.
StateDue(command) ==
    /\ Listed # {}
    /\ \/ command # "tick"
       \/ \A i \in Listed : dirty[i] >= IdleAge
       \/ \E i \in Listed : dirty[i] >= CapAge

\* Slip: the comparison is the wrong way round.
PullDueWhenRecent(command) ==
    command # "tick" \/ record.pulled = None \/ record.pulled < PullAge

\* pull_is_due
PullDue(command) ==
    command # "tick" \/ record.pulled = None \/ record.pulled >= PullAge

\* remote_from_configuration; the command does not read the service's settings.
Effective(by) ==
    IF by # "command" /\ settings.url # None THEN settings.url ELSE record.url

-----------------------------------------------------------------------------
(* The first stretch of a cycle, up to the first await *)

\* The loop's two waiting places and the end of a one-shot command.
Home(by) == CASE by = "boot" -> "first" [] by = "service" -> "wait" [] by = "command" -> "off"

Start(by, label, listed) ==
    /\ pc' = label
    /\ job' = [NoJob EXCEPT !.by = by, !.url = Effective(by), !.listed = listed]

\* Nothing to synchronize with: the loop goes on, the command ends.
Unconfigured(by) ==
    /\ Effective(by) = None
    /\ pc' = Home(by) /\ job' = NoJob
    /\ UNCHANGED conflict

\* service-settings.toml cannot be read.
ConfigFails(by) ==
    /\ by # "command" /\ Fault("config")
    /\ Start(by, "error", {})
    /\ UNCHANGED conflict

\* initialize_repository_if_needed comes first, due or not.
StartInit(by) ==
    /\ Effective(by) # None /\ main = None
    /\ Start(by, "init", {})
    /\ UNCHANGED conflict

\* ensure_no_active_conflict comes before anything is due.
Blocked(by) ==
    /\ main # None /\ conflict # None
    /\ Start(by, "error", {})
    /\ UNCHANGED conflict

Ready == main # None /\ conflict = None

NotDue(by, command) ==
    /\ Ready /\ ~StateDue(command) /\ ~PullDue(command)
    /\ pc' = Home(by) /\ job' = NoJob
    /\ UNCHANGED conflict

StartPull(by, command) ==
    /\ Ready /\ ~StateDue(command) /\ PullDue(command)
    /\ Start(by, "pull", {})
    /\ UNCHANGED conflict

\* recover_pending_push: a push recorded for another URL stops the cycle.
OtherRemote(by, command) ==
    /\ Ready /\ StateDue(command)
    /\ pending # None /\ pending.url # Effective(by)
    /\ conflict' = "url"
    /\ Start(by, "error", {})

\* Slip: the URL is not compared.
RecoverAnyRemote(by, command) ==
    /\ Ready /\ StateDue(command)
    /\ pending # None
    /\ Start(by, "recover", {})
    /\ UNCHANGED conflict

StartRecovery(by, command) ==
    /\ Ready /\ StateDue(command)
    /\ pending # None /\ pending.url = Effective(by)
    /\ Start(by, "recover", {})
    /\ UNCHANGED conflict

StartPublish(by, command) ==
    /\ Ready /\ StateDue(command)
    /\ pending = None
    /\ Start(by, "fetch", Listed)
    /\ UNCHANGED conflict

\* run_synchronization, and the same lines of the command's main.
Cycle(by, command) ==
    /\ \/ /\ \/ StartInit(by) \/ Blocked(by) \/ StartPull(by, command)
             \/ OtherRemote(by, command) \/ StartRecovery(by, command)
             \/ StartPublish(by, command)
          /\ tried' = IF by = "command" THEN tried ELSE settings.version
          /\ IF by = "command" THEN Event ELSE UNCHANGED events
       \/ /\ ConfigFails(by)
          /\ UNCHANGED tried
       \/ /\ Unconfigured(by) \/ NotDue(by, command)
          /\ UNCHANGED <<tried, events>>
    /\ UNCHANGED <<reader, settings, remote, record, main, pending, setBack, silent>>

-----------------------------------------------------------------------------
(* synchronization_loop and the command's main *)

\* The cycle before the loop, as by Force; the interval starts after it.
Boot ==
    /\ pc = "off"
    /\ Cycle("boot", "force")
    /\ before' = made
    /\ UNCHANGED <<queued, ticks>>

\* Slip: the loop does not wait for the interval.
TakeTickAtOnce ==
    /\ pc \in {"first", "wait"}
    /\ ticks' = ticks - 1
    /\ Cycle("service", "tick")
    /\ before' = 0
    /\ UNCHANGED queued

TakeTick ==
    /\ pc \in {"first", "wait"} /\ ticks > 0
    /\ ticks' = ticks - 1
    /\ Cycle("service", "tick")
    /\ before' = 0
    /\ UNCHANGED queued

TakeCommand ==
    /\ pc \in {"first", "wait"} /\ queued > 0
    /\ queued' = queued - 1
    /\ Cycle("service", "force")
    /\ before' = 0
    /\ UNCHANGED ticks

RunCommand ==
    /\ pc = "off"
    /\ \E command \in {"tick", "force"} : Cycle("command", command)
    /\ UNCHANGED <<queued, ticks, before>>

\* ServiceSettings::write_to: a complete file takes the place of the former one.
Written(r) == [url |-> r, version |-> settings.version + 1]

\* Slip: a page that finds the loop at work does not wake it.
SaveWhileWaiting(r) ==
    /\ ~Down /\ Event
    /\ settings' = Written(r)
    /\ queued' = IF pc \in {"first", "wait"} THEN queued + 1 ELSE queued
    /\ UNCHANGED <<reader, process, ticks, remote, meta, setBack, history>>

\* save_settings: the file is written first, then Force is sent.
SaveSettings(r) ==
    /\ ~Down /\ Event
    /\ settings' = Written(r)
    /\ queued' = queued + 1
    /\ UNCHANGED <<reader, process, ticks, remote, meta, setBack, history>>

\* The command acknowledge-conflict removes conflict.toml at any time.
Acknowledge ==
    /\ conflict # None
    /\ conflict' = None
    /\ UNCHANGED <<reader, process, wakers, remote, record, main, pending, clock, history>>

-----------------------------------------------------------------------------
(* The stretches after an await *)

Return == pc' = Home(job.by) /\ job' = NoJob

Goto(label) == pc' = label /\ UNCHANGED job

Stop(reason) ==
    /\ conflict' = reason
    /\ Goto("error")
    /\ UNCHANGED <<reader, wakers, remote, record, main, pending, clock, history>>

\* What sync.toml says after a success; `now` was read when the cycle began.
Success(oid, pulled) == [url |-> job.url, oid |-> oid, pulled |-> pulled, error |-> FALSE]

Clear(listed) == dirty' = [i \in Ids |-> IF i \in listed THEN None ELSE dirty[i]]

InitDone ==
    /\ pc = "init"
    /\ main' = tip
    /\ record' = Success(tip, job.age)
    /\ Return
    /\ UNCHANGED <<reader, wakers, remote, pending, conflict, clock, history>>

\* A fetch fails, or a push request never reaches the remote.
NetworkFails ==
    /\ pc \in {"init", "pull", "recover", "fetch", "push"}
    /\ Fault("network")
    /\ Goto("error")
    /\ UNCHANGED <<reader, wakers, remote, meta, setBack, history>>

\* The pull never looks at the pending push; its own commit looks foreign.
PullMeetsState ==
    /\ pc = "pull" /\ ~SameTree(main, tip)
    /\ Stop("state")

PullDone ==
    /\ pc = "pull" /\ SameTree(main, tip)
    /\ main' = tip
    /\ record' = Success(tip, job.age)
    /\ Return
    /\ UNCHANGED <<reader, wakers, remote, pending, conflict, clock, history>>

RecoverNotLanded ==
    /\ pc = "recover" /\ tip = pending.base
    /\ pending' = None
    /\ Goto("prepare")
    /\ UNCHANGED <<reader, wakers, remote, record, main, conflict, clock, history>>

RecoverUnconfirmed ==
    /\ pc = "recover" /\ tip # pending.base
    /\ ~Landed(pending)
    /\ Stop("unconfirmed")

\* The push is settled as of the time it was made, unless there is more to activate.
RecoverLanded ==
    /\ pc = "recover" /\ tip # pending.base
    /\ Landed(pending) /\ SameTree(pending.base + 1, tip)
    /\ main' = tip
    /\ record' = Success(tip, IF tip = pending.base + 1 THEN pending.at ELSE 0)
    /\ Clear(pending.listed)
    /\ pending' = None
    /\ Goto("prepare")
    /\ UNCHANGED <<made, wakers, remote, conflict, clock, history>>

\* publish_state goes on with what is dirty after a recovery.
Prepare ==
    /\ pc = "prepare"
    /\ IF Listed = {} THEN Return
       ELSE pc' = "fetch" /\ job' = [job EXCEPT !.listed = Listed]
    /\ UNCHANGED <<reader, wakers, remote, meta, clock, history>>

\* Slip: markers are cleared by a push only.
NothingCleared ==
    /\ pc = "fetch" /\ shown = made
    /\ main' = tip
    /\ record' = Success(tip, job.age)
    /\ Return
    /\ UNCHANGED <<reader, wakers, remote, pending, conflict, clock, history>>

\* state/ on disk is what the fetched tip has.
NothingToCommit ==
    /\ pc = "fetch" /\ shown = made
    /\ main' = tip
    /\ record' = Success(tip, job.age)
    /\ Clear(job.listed)
    /\ Return
    /\ UNCHANGED <<made, wakers, remote, pending, conflict, clock, history>>

BuildCandidate ==
    /\ pc = "fetch" /\ shown # made
    /\ main' = tip
    /\ record' = IF tip = main THEN record
                 ELSE [record EXCEPT !.oid = tip, !.pulled = 0, !.error = FALSE]
    /\ pending' = [url |-> job.url, base |-> tip, at |-> job.age,
                   listed |-> job.listed, holds |-> made]
    /\ Goto("push")
    /\ UNCHANGED <<reader, wakers, remote, conflict, clock, history>>

\* The remote's compare-and-swap.
Land ==
    /\ tip = pending.base
    /\ tip' = tip + 1 /\ ours' = ours \cup {tip + 1} /\ shown' = pending.holds

PushDone ==
    /\ pc = "push"
    /\ Land
    /\ main' = tip'
    /\ record' = Success(tip', job.age)
    /\ Clear(pending.listed)
    /\ pending' = None
    /\ Return
    /\ UNCHANGED <<made, wakers, conflict, clock, history>>

\* The reply is lost on the way back, or comes too late.
ReplyLost ==
    /\ pc = "push"
    /\ Land
    /\ Fault("reply")
    /\ Goto("error")
    /\ UNCHANGED <<reader, wakers, meta, setBack, history>>

\* Another attempt, or the end of them (StatePublication counts).
PushStale ==
    /\ pc = "push" /\ tip # pending.base
    /\ pending' = None
    /\ \/ Goto("fetch") /\ UNCHANGED conflict
       \/ Goto("error") /\ conflict' = "race"
    /\ UNCHANGED <<reader, wakers, remote, record, main, clock, history>>

PersistError ==
    /\ pc = "error"
    /\ record' = [record EXCEPT !.error = TRUE]
    /\ Return
    /\ UNCHANGED <<reader, wakers, remote, main, pending, conflict, clock, history>>

\* sync.toml cannot be rewritten; nobody is told.
PersistFails ==
    /\ pc = "error"
    /\ Fault("disk")
    /\ silent' = TRUE
    /\ Return
    /\ UNCHANGED <<reader, wakers, remote, meta, setBack, tried, before>>

-----------------------------------------------------------------------------
(* The environment *)

\* The process is stopped; a push that was under way may still land.
Kill ==
    /\ pc # "off" /\ Fault("kill")
    /\ \/ pc = "push" /\ Land
       \/ UNCHANGED remote
    /\ pc' = "off" /\ job' = NoJob
    /\ queued' = 0 /\ ticks' = 0 /\ before' = 0
    /\ UNCHANGED <<reader, settings, meta, setBack, tried, silent>>

\* DirtyJournal::mark, at the end of a request.
Mark ==
    /\ main # None /\ made < MaxMarks
    /\ made' = made + 1
    /\ dirty' = [dirty EXCEPT ![made + 1] = 0]
    /\ UNCHANGED <<process, wakers, remote, meta, clock, history>>

\* The producer pushes content.
Produce ==
    /\ Event
    /\ tip' = tip + 1
    /\ UNCHANGED <<reader, process, wakers, ours, shown, meta, setBack, history>>

\* The age that `age` gives to every timestamp the process or its files hold.
Restamp(age) ==
    /\ dirty' = [i \in Ids |-> IF dirty[i] = None THEN None ELSE age[dirty[i]]]
    /\ record' = IF record.pulled = None THEN record ELSE [record EXCEPT !.pulled = age[@]]
    /\ pending' = IF pending = None THEN None ELSE [pending EXCEPT !.at = age[@]]
    /\ job' = IF pc \in {"init", "pull", "recover", "prepare", "fetch", "push"}
              THEN [job EXCEPT !.age = age[@]] ELSE job

Older == [a \in Int |-> IF a < CapAge + (IF setBack THEN 0 ELSE SetBack) THEN a + 1 ELSE a]
Earlier == [a \in Int |-> a - SetBack]

SetClockBack ==
    /\ ~setBack /\ Event
    /\ setBack' = TRUE
    /\ Restamp(Earlier)
    /\ UNCHANGED <<made, pc, wakers, remote, main, conflict, history>>

\* One unit passes; the interval runs once the first cycle is over.
Advance ==
    /\ Restamp(Older)
    /\ ticks' = IF pc = "off" \/ (pc \notin {"first", "wait"} /\ job.by # "service")
                  \/ ticks = MaxTicks
                THEN ticks ELSE ticks + 1
    /\ UNCHANGED <<made, pc, settings, queued, remote, main, conflict, clock, history>>

-----------------------------------------------------------------------------
Init ==
    /\ dirty = [i \in Ids |-> None] /\ made = 0
    /\ \E url \in Installed : settings = [url |-> url, version |-> 0]
    /\ queued = 0 /\ ticks = 0
    /\ pc = "off" /\ job = NoJob
    /\ \E url \in Installed :
          IF url = None
          THEN /\ record = [url |-> None, oid |-> None, pulled |-> None, error |-> FALSE]
               /\ main = None
          ELSE /\ record = [url |-> url, oid |-> 0, pulled |-> 0, error |-> FALSE]
               /\ main = 0
    /\ tip = 0 /\ ours = {} /\ shown = 0
    /\ pending = None /\ conflict = None
    /\ setBack = FALSE /\ events = 0 /\ tried = 0 /\ silent = FALSE
    /\ before = 0

Take == TakeTick \/ TakeCommand

\* What a cycle does when nothing fails.
Progress ==
    \/ InitDone \/ PullMeetsState \/ PullDone
    \/ RecoverNotLanded \/ RecoverUnconfirmed \/ RecoverLanded \/ Prepare
    \/ NothingToCommit \/ BuildCandidate \/ PushDone \/ PushStale
    \/ PersistError

Next ==
    \/ Boot \/ Take \/ RunCommand \/ Acknowledge
    \/ \E r \in Remotes : SaveSettings(r)
    \/ Progress \/ NetworkFails \/ ReplyLost \/ PersistFails \/ Kill
    \/ Mark \/ Produce \/ SetClockBack \/ Advance

Spec == Init /\ [][Next]_vars

\* The service is restarted, its loop and its runtime go on, and time passes.
FairSpec ==
    /\ Spec
    /\ WF_vars(Boot) /\ WF_vars(Take) /\ WF_vars(Progress) /\ WF_vars(Advance)

-----------------------------------------------------------------------------
TypeOK ==
    /\ dirty \in [Ids -> Ages \cup {None}] /\ made \in 0..MaxMarks
    /\ settings \in [url : Remotes \cup {None}, version : 0..MaxEvents]
    /\ queued \in 0..MaxEvents /\ ticks \in 0..MaxTicks
    /\ pc \in {"off", "first", "wait", "init", "pull", "recover", "prepare", "fetch",
               "push", "error"}
    /\ job \in Jobs /\ record \in Records
    /\ main \in Commits \cup {None} /\ tip \in Commits /\ ours \subseteq Commits
    /\ shown \in 0..made
    /\ pending \in Pendings \cup {None}
    /\ conflict \in {None, "url", "state", "unconfirmed", "race"}
    /\ setBack \in BOOLEAN /\ events \in 0..MaxEvents
    /\ tried \in 0..settings.version /\ silent \in BOOLEAN
    /\ before \in 0..made

\* Whoever saves the settings is not forgotten: until a cycle has read them, a
\* command for one is queued, or the service has yet to start, or the cycle that
\* tried could not read them, which is written down as an error unless the disk
\* refuses that too (save_settings, synchronization_loop and persist_error).
SavedIsTried ==
    settings.version # tried =>
        \/ queued > 0 \/ Down
        \/ pc = "error"
        \/ pc \in {"first", "wait"} /\ (record.error \/ silent)

\* Where the loop waits and no tick is due, a mutation that has waited for 5
\* minutes by the clock is one whose publication failed, and sync.toml or
\* conflict.toml has the reason, for `plainfeed-sync status` to print.  Neither a
\* long cycle, nor continuous mutation, nor a clock set back opens a gap.  One
\* thing does: the interval starts after the cycle the service starts with, and a
\* mutation made during that cycle waits for its first tick, however long the
\* cycle was.
OverdueIsReported ==
    /\ pc \in {"first", "wait"} /\ ticks = 0
    /\ ~record.error /\ conflict = None /\ ~silent
    => \A i \in Listed : dirty[i] < CapAge \/ (pc = "first" /\ i > before)

\* A pending push is settled, dropped or replaced only by a cycle that talks
\* to the remote it was sent to, however the settings, the service and the
\* one-shot command follow each other (recover_pending_push).
PendingKeepsItsRemote ==
    [][pending # None /\ (pending' = None \/ pending'.listed # pending.listed
                          \/ pending'.base # pending.base)
       => job.url = pending.url]_vars

\* Every mutation's marker is in the end settled or a conflict is reported,
\* whatever the clock, the settings and a bounded number of faults do.
MarkersAreSettled ==
    \A i \in Ids : (dirty[i] # None) ~> (dirty[i] = None \/ conflict # None)

\* Content the producer has pushed is in the end what the reader sees, once
\* a remote is configured, or a conflict is reported.
ContentArrives ==
    (settings.url # None /\ main # tip) ~> (main = tip \/ conflict # None)
=============================================================================
