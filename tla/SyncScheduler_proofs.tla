------------------------- MODULE SyncScheduler_proofs -------------------------
(***************************************************************************)
(* Proofs about SyncScheduler, for any set of remotes, any ages and any    *)
(* number of ticks, mutations and events.                                  *)
(***************************************************************************)
EXTENDS SyncScheduler, TLAPS

JobRecords == [by : {"boot", "service", "command"}, url : Remotes \cup {None}, age : Int,
               listed : SUBSET Ids]
PushRecords == [url : Remotes, base : Int, at : Int, listed : SUBSET Ids, holds : Int]

\* What the steps need to know of the values they write down.
Typed ==
    /\ job \in JobRecords /\ pending \in PushRecords \cup {None}
    /\ settings \in [url : Remotes \cup {None}, version : Nat]
    /\ record = [f \in {"url", "oid", "pulled", "error"} |-> record[f]]
    /\ record.url \in Remotes \cup {None}
    /\ tip \in Int /\ made \in Int
    /\ pc \in {"init", "pull", "recover", "prepare", "fetch", "push"} => job.url \in Remotes

\* Once there is a branch, sync.toml names the remote it came from.
Configured ==
    main # None \/ pc \in {"pull", "recover", "prepare", "fetch", "push"}
        => record.url \in Remotes

\* A cycle that is to settle the pending push talks to its remote; one that is
\* about to make another push has none to lose.
SameRemote ==
    /\ Typed /\ Configured
    /\ pc \in {"prepare", "fetch"} => pending = None
    /\ pc \in {"recover", "push"} /\ pending # None => job.url = pending.url

LEMMA NoneIsNoPush == None \notin PushRecords
  BY NoneAssumption DEF PushRecords, Ids

LEMMA StartSets ==
    ASSUME Typed, AgesAssumption,
           NEW by \in {"boot", "service", "command"}, NEW label, NEW listed \in SUBSET Ids,
           Start(by, label, listed)
    PROVE  /\ job' \in JobRecords /\ pc' = label
           /\ job'.by = by /\ job'.url = Effective(by)
  <1>1. Effective(by) \in Remotes \cup {None}
    BY DEF Typed, Effective
  <1>2. NoJob \in JobRecords
    BY DEF NoJob, JobRecords
  <1>3. job' = [NoJob EXCEPT !.by = by, !.url = Effective(by), !.listed = listed]
    BY DEF Start
  <1> QED
    BY <1>1, <1>2, <1>3 DEF Start, JobRecords

LEMMA HomeSets ==
    ASSUME NEW by \in {"boot", "service", "command"},
           pc' = Home(by), job' = NoJob
    PROVE  /\ job' \in JobRecords /\ pc' \in {"first", "wait", "off"}
           /\ by = "command" => pc' = "off"
  BY DEF Home, NoJob, JobRecords

\* Whoever starts a cycle, it leaves the pending push alone up to the first await.
LEMMA CycleStep ==
    ASSUME SameRemote, NEW by \in {"boot", "service", "command"}, NEW command,
           Cycle(by, command)
    PROVE  SameRemote' /\ UNCHANGED pending
  <1>1. UNCHANGED <<made, settings, tip, record, pending, main>>
    BY DEF Cycle, reader, remote
  <1>2. /\ pending \in PushRecords \cup {None}
        /\ settings \in [url : Remotes \cup {None}, version : Nat]
        /\ record = [f \in {"url", "oid", "pulled", "error"} |-> record[f]]
        /\ record.url \in Remotes \cup {None}
        /\ tip \in Int /\ made \in Int /\ Typed
    BY DEF SameRemote, Typed
  <1>3. Listed \in SUBSET Ids /\ {} \in SUBSET Ids
    BY DEF Listed
  <1>4. /\ Effective(by) # None => Effective(by) \in Remotes
        /\ Ready => Effective(by) \in Remotes /\ record.url \in Remotes
    BY <1>2, NoneAssumption DEF Effective, Ready, SameRemote, Configured
  <1>5. CASE \E listed \in SUBSET Ids : Start(by, "error", listed)
    <2>1. job' \in JobRecords /\ pc' = "error"
      BY <1>2, <1>5, StartSets, AgesAssumption
    <2> QED
      BY <1>1, <1>2, <2>1 DEF SameRemote, Typed, Configured
  <1>6. CASE StartInit(by) \/ StartPull(by, command)
    <2>1. job' \in JobRecords /\ job'.url \in Remotes
          /\ pc' \in {"init", "pull"} /\ (pc' = "pull" => record.url \in Remotes)
      BY <1>2, <1>3, <1>4, <1>6, StartSets, AgesAssumption DEF StartInit, StartPull
    <2> QED
      BY <1>1, <1>2, <2>1 DEF SameRemote, Typed, Configured
  <1>7. CASE pc' = Home(by) /\ job' = NoJob
    <2>1. job' \in JobRecords /\ pc' \in {"first", "wait", "off"}
      BY <1>7, HomeSets
    <2> QED
      BY <1>1, <1>2, <2>1 DEF SameRemote, Typed, Configured
  <1>8. CASE StartRecovery(by, command)
    <2>1. /\ job' \in JobRecords /\ job'.url \in Remotes /\ job'.url = pending.url
          /\ pc' = "recover" /\ record.url \in Remotes
      BY <1>2, <1>3, <1>4, <1>8, StartSets, AgesAssumption DEF StartRecovery
    <2> QED
      BY <1>1, <1>2, <2>1 DEF SameRemote, Typed, Configured
  <1>9. CASE StartPublish(by, command)
    <2>1. /\ job' \in JobRecords /\ job'.url \in Remotes /\ pending = None
          /\ pc' = "fetch" /\ record.url \in Remotes
      BY <1>2, <1>3, <1>4, <1>9, StartSets, AgesAssumption DEF StartPublish
    <2> QED
      BY <1>1, <1>2, <2>1 DEF SameRemote, Typed, Configured
  <1> QED
    BY <1>1, <1>3, <1>5, <1>6, <1>7, <1>8, <1>9
    DEF Cycle, Blocked, OtherRemote, ConfigFails, Unconfigured, NotDue

\* The steps of a cycle once it waits for the network.
LEMMA ReturnSets ==
    ASSUME Typed, Return
    PROVE  job' \in JobRecords /\ pc' \in {"first", "wait", "off"}
  BY HomeSets DEF Return, Typed, JobRecords

LEMMA SuccessSets ==
    ASSUME NEW oid, NEW pulled, record' = Success(oid, pulled), job.url \in Remotes
    PROVE  /\ record' = [f \in {"url", "oid", "pulled", "error"} |-> record'[f]]
           /\ record'.url \in Remotes
  BY DEF Success

\* Steps that go home, or to the place where the error is written down.
LEMMA EndStep ==
    ASSUME SameRemote,
           \/ InitDone \/ PullDone \/ PullMeetsState \/ NothingToCommit
           \/ NetworkFails \/ RecoverUnconfirmed \/ PersistError \/ PersistFails
    PROVE  SameRemote' /\ UNCHANGED pending
  <1>1. Typed
    BY DEF SameRemote
  <1>2. /\ record' = [f \in {"url", "oid", "pulled", "error"} |-> record'[f]]
        /\ record'.url \in Remotes \cup {None}
        /\ record.url \in Remotes => record'.url \in Remotes
        /\ main' # None => record'.url \in Remotes
    <2>1. CASE record' = record /\ main' = main
      BY <1>1, <2>1 DEF Typed, SameRemote, Configured
    <2>2. CASE record' = [record EXCEPT !.error = TRUE] /\ main' = main
      <3>1. /\ record' = [f \in {"url", "oid", "pulled", "error"} |-> record'[f]]
            /\ record'.url = record.url
        BY <1>1, <2>2 DEF Typed
      <3> QED
        BY <1>1, <2>2, <3>1 DEF Typed, SameRemote, Configured
    <2>3. CASE job.url \in Remotes /\ \E oid, pulled : record' = Success(oid, pulled)
      BY <2>3, SuccessSets
    <2> QED
      BY <1>1, <2>1, <2>2, <2>3
      DEF InitDone, PullDone, PullMeetsState, NothingToCommit, NetworkFails,
          RecoverUnconfirmed, PersistError, PersistFails, Stop, Goto, meta, Typed
  <1>3. UNCHANGED <<settings, tip, made, pending>>
    BY DEF InitDone, PullDone, PullMeetsState, NothingToCommit, NetworkFails,
           RecoverUnconfirmed, PersistError, PersistFails, Stop, meta, reader, wakers, remote
  <1>4. job' \in JobRecords /\ pc' \in {"first", "wait", "off", "error"}
    BY <1>1, ReturnSets
    DEF InitDone, PullDone, PullMeetsState, NothingToCommit, NetworkFails,
        RecoverUnconfirmed, PersistError, PersistFails, Stop, Goto, Typed
  <1> QED
    BY <1>1, <1>2, <1>3, <1>4 DEF SameRemote, Typed, Configured

\* The action PendingKeepsItsRemote allows.
KeepsRemote ==
    pending # None /\ (pending' = None \/ pending'.listed # pending.listed
                       \/ pending'.base # pending.base)
        => job.url = pending.url

\* Steps that settle the pending push, drop it or make one.
LEMMA SettleStep ==
    ASSUME SameRemote,
           \/ RecoverNotLanded \/ RecoverLanded \/ PushDone \/ PushStale \/ BuildCandidate
    PROVE  SameRemote' /\ KeepsRemote
  <1>1. Typed /\ Configured
    BY DEF SameRemote
  <1>2. CASE RecoverNotLanded \/ PushStale
    <2>1. UNCHANGED <<settings, tip, made, record, main, job>> /\ pending' = None
          /\ pc' \in {"prepare", "fetch", "error"} /\ job.url \in Remotes
          /\ record.url \in Remotes
      BY <1>1, <1>2 DEF RecoverNotLanded, PushStale, Goto, wakers, remote, reader,
                        Typed, Configured
    <2>2. KeepsRemote
      BY <1>2 DEF SameRemote, KeepsRemote, RecoverNotLanded, PushStale
    <2> QED
      BY <1>1, <2>1, <2>2 DEF SameRemote, Typed, Configured
  <1>3. CASE RecoverLanded \/ PushDone
    <2>1. UNCHANGED <<settings, made>> /\ pending' = None /\ job.url \in Remotes
          /\ \E oid, pulled : record' = Success(oid, pulled)
      BY <1>1, <1>3 DEF RecoverLanded, PushDone, wakers, Typed
    <2>2. tip' \in Int
      BY <1>1, <1>3 DEF RecoverLanded, PushDone, Land, remote, Typed
    <2>3. job' \in JobRecords /\ pc' \in {"first", "wait", "off", "prepare"}
          /\ (pc' = "prepare" => job' = job)
      BY <1>1, <1>3, ReturnSets DEF RecoverLanded, PushDone, Goto, Typed
    <2>4. KeepsRemote
      BY <1>3 DEF SameRemote, KeepsRemote, RecoverLanded, PushDone
    <2> QED
      BY <1>1, <2>1, <2>2, <2>3, <2>4, SuccessSets DEF SameRemote, Typed, Configured
  <1>4. CASE BuildCandidate
    <2>1. UNCHANGED <<settings, tip, made, job>> /\ pending = None /\ pc' = "push"
          /\ job.url \in Remotes /\ record.url \in Remotes
      BY <1>1, <1>4 DEF BuildCandidate, Goto, wakers, remote, reader, SameRemote,
                        Typed, Configured
    <2>2. pending' \in PushRecords /\ pending'.url = job.url
      BY <1>1, <1>4, <2>1 DEF BuildCandidate, PushRecords, JobRecords, Typed
    <2>3. /\ record' = [f \in {"url", "oid", "pulled", "error"} |-> record'[f]]
          /\ record'.url = record.url
      <3>1. CASE record' = record
        BY <1>1, <3>1 DEF Typed
      <3>2. CASE record' = [record EXCEPT !.oid = tip, !.pulled = 0, !.error = FALSE]
        BY <1>1, <3>2 DEF Typed
      <3> QED
        BY <1>4, <3>1, <3>2 DEF BuildCandidate
    <2>4. KeepsRemote
      BY <2>1 DEF KeepsRemote
    <2> QED
      BY <1>1, <2>1, <2>2, <2>3, <2>4 DEF SameRemote, Typed, Configured
  <1> QED
    BY <1>2, <1>3, <1>4

\* Steps that leave the pending push as it is.
LEMMA OtherStep ==
    ASSUME SameRemote,
           \/ Prepare \/ ReplyLost \/ Kill \/ Mark \/ Produce \/ Acknowledge
           \/ \E r \in Remotes : SaveSettings(r)
    PROVE  SameRemote' /\ UNCHANGED pending
  <1>1. Typed /\ Configured
    BY DEF SameRemote
  <1>2. CASE Prepare
    <2>1. CASE Return
      BY <1>1, <1>2, <2>1, ReturnSets
      DEF Prepare, reader, wakers, remote, meta, SameRemote, Typed, Configured
    <2>2. CASE pc' = "fetch" /\ job' = [job EXCEPT !.listed = Listed]
      <3>1. job' \in JobRecords /\ job'.url = job.url
        BY <1>1, <2>2 DEF Typed, JobRecords, Listed
      <3> QED
        BY <1>1, <1>2, <2>2, <3>1
        DEF Prepare, reader, wakers, remote, meta, SameRemote, Typed, Configured
    <2> QED
      BY <1>2, <2>1, <2>2 DEF Prepare
  <1>3. CASE ReplyLost \/ Kill
    <2>1. UNCHANGED <<settings, made, record, main, pending>> /\ tip' \in Int
          /\ pc' \in {"error", "off"} /\ job' \in JobRecords
      BY <1>1, <1>3 DEF ReplyLost, Kill, Land, Goto, reader, wakers, remote, meta, Typed,
                        NoJob, JobRecords
    <2> QED
      BY <1>1, <2>1 DEF SameRemote, Typed, Configured
  <1>4. CASE Mark \/ Produce \/ Acknowledge
    <2>1. UNCHANGED <<settings, record, main, pending, pc, job>> /\ tip' \in Int /\ made' \in Int
      BY <1>1, <1>4 DEF Mark, Produce, Acknowledge, process, reader, wakers, remote, meta, Typed
    <2> QED
      BY <1>1, <2>1 DEF SameRemote, Typed, Configured
  <1>5. ASSUME NEW r \in Remotes, SaveSettings(r)
        PROVE  SameRemote' /\ UNCHANGED pending
    <2>1. UNCHANGED <<tip, made, record, main, pending, pc, job>>
      BY <1>5 DEF SaveSettings, process, reader, remote, meta
    <2>2. settings' \in [url : Remotes \cup {None}, version : Nat]
      BY <1>1, <1>5 DEF SaveSettings, Written, Typed
    <2> QED
      BY <1>1, <2>1, <2>2 DEF SameRemote, Typed, Configured
  <1> QED
    BY <1>2, <1>3, <1>4, <1>5

\* Time passes and the clock is set back: only ages change.
LEMMA TimeStep ==
    ASSUME SameRemote, SetClockBack \/ Advance
    PROVE  SameRemote' /\ KeepsRemote
  <1>1. Typed /\ Configured
    BY DEF SameRemote
  <1>2. UNCHANGED <<settings, tip, made, main, pc>>
    BY DEF SetClockBack, Advance, remote, wakers
  <1>3. /\ job' \in JobRecords /\ job'.url = job.url
    <2>1. job.age \in Int => Older[job.age] \in Int /\ Earlier[job.age] \in Int
      BY AgesAssumption DEF Older, Earlier
    <2>2. job' \in {job, [job EXCEPT !.age = Older[job.age]], [job EXCEPT !.age = Earlier[job.age]]}
      BY DEF SetClockBack, Advance, Restamp
    <2> QED
      BY <1>1, <2>1, <2>2 DEF Typed, JobRecords
  <1>4. /\ record' = [f \in {"url", "oid", "pulled", "error"} |-> record'[f]]
        /\ record'.url = record.url
    <2>1. \E a : record' \in {record, [record EXCEPT !.pulled = a]}
      BY DEF SetClockBack, Advance, Restamp
    <2> QED
      BY <1>1, <2>1 DEF Typed
  <1>5. /\ pending = None => pending' = None
        /\ pending # None => /\ pending' \in PushRecords
                             /\ pending'.url = pending.url /\ pending'.base = pending.base
                             /\ pending'.listed = pending.listed
    <2>1. pending.at \in Int => Older[pending.at] \in Int /\ Earlier[pending.at] \in Int
      BY AgesAssumption DEF Older, Earlier
    <2>2. IF pending = None THEN pending' = None
          ELSE pending' \in {[pending EXCEPT !.at = Older[pending.at]],
                             [pending EXCEPT !.at = Earlier[pending.at]]}
      BY DEF SetClockBack, Advance, Restamp
    <2> QED
      BY <1>1, <2>1, <2>2 DEF Typed, PushRecords
  <1>6. KeepsRemote
    BY <1>5, NoneIsNoPush DEF KeepsRemote
  <1> QED
    BY <1>1, <1>2, <1>3, <1>4, <1>5, <1>6 DEF SameRemote, Typed, Configured

LEMMA SchedulerStep ==
    ASSUME SameRemote, Next
    PROVE  SameRemote' /\ KeepsRemote
  <1>1. UNCHANGED pending => KeepsRemote
    <2> SUFFICES ASSUME UNCHANGED pending, pending # None
                 PROVE  pending' # None /\ pending'.listed = pending.listed
                        /\ pending'.base = pending.base
      BY DEF KeepsRemote
    <2> QED
      OBVIOUS
  <1>2. CASE Boot \/ Take \/ RunCommand
    <2>1. PICK by \in {"boot", "service", "command"} : \E command : Cycle(by, command)
      BY <1>2 DEF Boot, Take, TakeTick, TakeCommand, RunCommand
    <2> QED
      BY <1>1, <2>1, CycleStep
  <1>3. CASE SetClockBack \/ Advance
    BY <1>3, TimeStep
  <1> QED
    BY <1>1, <1>2, <1>3, EndStep, SettleStep, OtherStep DEF Next, Progress

LEMMA StartsSameRemote ==
    ASSUME Init
    PROVE  SameRemote
  <1>1. job \in JobRecords /\ settings \in [url : Remotes \cup {None}, version : Nat]
    BY InstalledAssumption DEF Init, NoJob, JobRecords
  <1>2. /\ record = [f \in {"url", "oid", "pulled", "error"} |-> record[f]]
        /\ record.url \in Remotes \cup {None}
        /\ main # None => record.url \in Remotes
    BY InstalledAssumption DEF Init
  <1> QED
    BY <1>1, <1>2 DEF Init, SameRemote, Typed, Configured

\* Whatever starts, fails or is killed, whoever saves settings or runs the command:
\* only a cycle that talks to a pending push's remote settles, drops or replaces it.
THEOREM RemoteKept == Spec => PendingKeepsItsRemote
  <1>1. Init => SameRemote
    BY StartsSameRemote
  <1>2. SameRemote /\ [Next]_vars => SameRemote' /\ [KeepsRemote]_vars
    <2>1. CASE UNCHANGED vars
      BY <2>1 DEF vars, reader, process, wakers, remote, meta, SameRemote, Typed, Configured
    <2> QED
      BY <2>1, SchedulerStep
  <1> QED
    BY <1>1, <1>2, PTL DEF Spec, PendingKeepsItsRemote, KeepsRemote
-----------------------------------------------------------------------------
(* SavedIsTried *)

\* Whoever has saved settings has named a remote, so the cycle that reads them
\* does not turn back at once.
Woken ==
    /\ SameRemote /\ SavedIsTried
    /\ queued \in Nat /\ tried \in Nat /\ tried <= settings.version
    /\ settings.version > 0 => settings.url \in Remotes
    /\ pc \in {"first", "wait"} => job.by # "command"

\* A cycle of the service that was forced, or that talks to somebody, has read
\* the settings, or is about to write down that it could not.
LEMMA ServiceCycle ==
    ASSUME Woken, NEW by \in {"boot", "service"}, NEW command, Cycle(by, command)
    PROVE  /\ UNCHANGED settings
           /\ tried' \in {tried, settings.version}
           /\ tried' # settings.version =>
                 \/ pc' = "error"
                 \/ command # "force" /\ pc' \in {"first", "wait"}
           /\ UNCHANGED <<record, silent>>
  <1>1. UNCHANGED <<settings, record, silent>>
    BY DEF Cycle
  <1>2. \/ tried' = settings.version
        \/ tried' = tried /\ (Unconfigured(by) \/ NotDue(by, command))
        \/ tried' = tried /\ ConfigFails(by)
    BY DEF Cycle
  <1>3. ASSUME Unconfigured(by)
        PROVE  tried = settings.version
    <2>1. settings.url = None
      BY <1>3 DEF Unconfigured, Effective
    <2>2. settings.url \notin Remotes
      BY <2>1, NoneAssumption
    <2>3. settings.version \in Nat
      BY DEF Woken, SameRemote, Typed
    <2> QED
      BY <2>2, <2>3 DEF Woken
  <1>4. NotDue(by, command) => command # "force" /\ pc' \in {"first", "wait"}
    BY DEF NotDue, PullDue, Home
  <1>5. ConfigFails(by) => pc' = "error"
    BY DEF ConfigFails, Start
  <1> QED
    BY <1>1, <1>2, <1>3, <1>4, <1>5

\* Where a cycle that starts leaves its process.
LEMMA CycleLeaves ==
    ASSUME Woken, NEW by \in {"boot", "service", "command"}, NEW command,
           Cycle(by, command)
    PROVE  /\ pc' \in {"first", "wait"} => job'.by # "command"
           /\ by = "command" => /\ pc' = "off" \/ job'.by = "command"
                               /\ UNCHANGED <<settings, tried>>
  <1>1. Typed /\ Listed \in SUBSET Ids /\ {} \in SUBSET Ids
    BY DEF Woken, SameRemote, Listed
  <1>2. CASE pc' = Home(by) /\ job' = NoJob
    BY <1>2 DEF Home, NoJob, Cycle, ConfigFails
  <1>3. CASE \E label \in {"error", "init", "pull", "recover", "fetch"},
                listed \in SUBSET Ids : Start(by, label, listed)
    <2>1. pc' \notin {"first", "wait"} /\ job'.by = by
      BY <1>1, <1>3, StartSets, AgesAssumption
    <2> QED
      BY <2>1 DEF Cycle, ConfigFails
  <1> QED
    BY <1>1, <1>2, <1>3
    DEF Cycle, StartInit, Blocked, StartPull, OtherRemote, StartRecovery, StartPublish,
        ConfigFails, Unconfigured, NotDue

\* All other steps forget no save: where the service is down, it stays so.
LEMMA CycleGoesOn ==
    ASSUME Woken, Progress \/ NetworkFails \/ ReplyLost \/ PersistFails
    PROVE  /\ UNCHANGED <<settings, queued, tried>>
           /\ Down => Down'
           /\ pc' \in {"first", "wait"} => job'.by # "command"
           /\ SavedIsTried'
  <1>1. UNCHANGED <<settings, queued, tried>>
    BY DEF Progress, InitDone, PullMeetsState, PullDone, RecoverNotLanded,
           RecoverUnconfirmed, RecoverLanded, Prepare, NothingToCommit, BuildCandidate,
           PushDone, PushStale, PersistError, NetworkFails, ReplyLost, PersistFails,
           Stop, wakers, history
  <1>2. pc \notin {"off", "first", "wait"}
    BY DEF Progress, InitDone, PullMeetsState, PullDone, RecoverNotLanded,
           RecoverUnconfirmed, RecoverLanded, Prepare, NothingToCommit, BuildCandidate,
           PushDone, PushStale, PersistError, NetworkFails, ReplyLost, PersistFails
  <1>6. pc = "error" => Return /\ (record'.error \/ silent')
    BY DEF Progress, InitDone, PullMeetsState, PullDone, RecoverNotLanded,
           RecoverUnconfirmed, RecoverLanded, Prepare, NothingToCommit, BuildCandidate,
           PushDone, PushStale, PersistError, NetworkFails, ReplyLost, PersistFails,
           Woken, SameRemote, Typed
  <1>3. CASE Return
    <2>1. /\ Down => Down'
          /\ pc' \in {"first", "wait"} => job'.by # "command"
      BY <1>1, <1>2, <1>3 DEF Return, Home, NoJob, Down
    <2>2. Down' \/ pc' \in {"first", "wait"}
      BY <1>3 DEF Return, Home, NoJob, Down, Woken, SameRemote, Typed, JobRecords
    <2> QED
      BY <1>1, <1>2, <1>6, <2>1, <2>2 DEF Woken, SavedIsTried
  <1>4. CASE pc' \in {"error", "prepare", "fetch", "push"} /\ job'.by = job.by /\ pc # "error"
    <2>1. Down => Down'
      BY <1>1, <1>2, <1>4 DEF Down
    <2> QED
      BY <1>1, <1>2, <1>4, <2>1 DEF Woken, SavedIsTried
  <1>5. CASE Prepare
    <2>1. CASE pc' = "fetch" /\ job' = [job EXCEPT !.listed = Listed]
      <3>1. job'.by = job.by
        BY <2>1 DEF Woken, SameRemote, Typed, JobRecords
      <3> QED
        BY <1>4, <1>5, <2>1, <3>1 DEF Prepare
    <2> QED
      BY <1>3, <1>5, <2>1 DEF Prepare
  <1> QED
    BY <1>1, <1>3, <1>4, <1>5
    DEF Progress, InitDone, PullMeetsState, PullDone, RecoverNotLanded,
        RecoverUnconfirmed, RecoverLanded, NothingToCommit, BuildCandidate,
        PushDone, PushStale, PersistError, NetworkFails, ReplyLost, PersistFails,
        Stop, Goto

LEMMA WokenStep ==
    ASSUME Woken, Next
    PROVE  Woken'
  <1>1. SameRemote'
    BY SchedulerStep DEF Woken
  <1>2. settings.version \in Nat
    BY DEF Woken, SameRemote, Typed
  <1>3. ASSUME UNCHANGED <<settings, queued, tried>>, SavedIsTried',
               pc' \in {"first", "wait"} => job'.by # "command"
        PROVE  Woken'
    BY <1>1, <1>3 DEF Woken
  <1>4. CASE Boot \/ TakeCommand
    <2>1. PICK by \in {"boot", "service"} : Cycle(by, "force")
      BY <1>4 DEF Boot, TakeCommand
    <2>2. /\ UNCHANGED settings /\ tried' \in {tried, settings.version}
          /\ tried' # settings.version => pc' = "error"
      BY <2>1, ServiceCycle
    <2>3. pc' \in {"first", "wait"} => job'.by # "command"
      BY <2>1, CycleLeaves
    <2>4. queued' \in Nat
      BY <1>4 DEF Boot, TakeCommand, Woken
    <2> QED
      BY <1>1, <1>2, <2>2, <2>3, <2>4 DEF Woken, SavedIsTried
  <1>5. CASE TakeTick
    <2>1. Cycle("service", "tick") /\ UNCHANGED queued /\ ~Down
      BY <1>5 DEF TakeTick, Woken, Down
    <2>2. /\ UNCHANGED <<settings, record, silent>>
          /\ tried' \in {tried, settings.version}
          /\ tried' # settings.version => pc' \in {"error", "first", "wait"}
      BY <2>1, ServiceCycle
    <2>4. pc \in {"first", "wait"}
      BY <1>5 DEF TakeTick
    <2>3. pc' \in {"first", "wait"} => job'.by # "command"
      BY <2>1, CycleLeaves
    <2> QED
      BY <1>1, <1>2, <2>1, <2>2, <2>3, <2>4 DEF Woken, SavedIsTried
  <1>6. CASE RunCommand
    <2>1. PICK command : Cycle("command", command)
      BY <1>6 DEF RunCommand
    <2>2. UNCHANGED queued
      BY <1>6 DEF RunCommand
    <2> QED
      BY <1>3, <2>1, <2>2, CycleLeaves DEF Down, SavedIsTried
  <1>7. ASSUME NEW r \in Remotes, SaveSettings(r)
        PROVE  Woken'
    <2>1. /\ settings' = [url |-> r, version |-> settings.version + 1]
          /\ queued' = queued + 1 /\ UNCHANGED <<pc, job, tried>>
      BY <1>7 DEF SaveSettings, Written, process, history
    <2> QED
      BY <1>1, <1>2, <2>1 DEF Woken, SavedIsTried
  <1>8. CASE Progress \/ NetworkFails \/ ReplyLost \/ PersistFails
    BY <1>3, <1>8, CycleGoesOn
  <1>9. CASE Kill
    <2>1. UNCHANGED <<settings, tried>> /\ pc' = "off" /\ queued' = 0
      BY <1>9 DEF Kill, history
    <2> QED
      BY <1>1, <2>1 DEF Woken, SavedIsTried, Down
  <1>10. CASE Acknowledge \/ Mark \/ Produce
    BY <1>3, <1>10
    DEF Acknowledge, Mark, Produce, process, wakers, meta, history, Down, Woken, SavedIsTried
  <1>11. CASE SetClockBack \/ Advance
    <2>1. job'.by = job.by
      <3>1. \E a : job' \in {job, [job EXCEPT !.age = a]}
        BY <1>11 DEF SetClockBack, Advance, Restamp
      <3> QED
        BY <3>1 DEF Woken, SameRemote, Typed, JobRecords
    <2>2. UNCHANGED <<settings, queued, tried, silent, pc>>
      BY <1>11 DEF SetClockBack, Advance, wakers, history
    <2>3. record'.error = record.error
      BY <1>11 DEF SetClockBack, Advance, Restamp, Woken, SameRemote, Typed
    <2> QED
      BY <1>3, <2>1, <2>2, <2>3 DEF Down, Woken, SavedIsTried
  <1> QED
    BY <1>4, <1>5, <1>6, <1>7, <1>8, <1>9, <1>10, <1>11 DEF Next, Take

LEMMA WokenInvariance == Spec => []Woken
  <1>1. Init => Woken
    <2> SUFFICES ASSUME Init
                 PROVE  Woken
      OBVIOUS
    <2>1. settings.version = 0
      BY DEF Init
    <2>2. queued = 0 /\ tried = 0 /\ pc = "off"
      BY DEF Init
    <2> QED
      BY <2>1, <2>2, StartsSameRemote DEF Woken, SavedIsTried
  <1>2. Woken /\ [Next]_vars => Woken'
    <2>1. CASE UNCHANGED vars
      BY <2>1 DEF vars, reader, process, wakers, remote, meta, history, Woken, SameRemote,
                  Typed, Configured, SavedIsTried, Down
    <2> QED
      BY <2>1, WokenStep
  <1> QED
    BY <1>1, <1>2, PTL DEF Spec

\* However saves, ticks, commands, faults and kills follow each other: a save no
\* cycle has read yet has a command in the queue, or a start to come, or an error
\* that says it could not be read.
THEOREM SaveNotForgotten == Spec => []SavedIsTried
  <1>1. Woken => SavedIsTried
    BY DEF Woken
  <1> QED
    BY <1>1, WokenInvariance, PTL

-----------------------------------------------------------------------------
(***************************************************************************)
(* Types and bounds.  An age stays in its span because time adds to it up  *)
(* to a cap and the clock is set back once; a commit stays in its range    *)
(* because every commit on the remote is an event or shows a mutation that *)
(* was not shown before, so a candidate must hold more than its base.      *)
(***************************************************************************)

Span == IF setBack THEN (-SetBack)..CapAge ELSE 0..(CapAge + SetBack)

\* Where the locals of a cycle hold a time.
Timed == {"init", "pull", "recover", "prepare", "fetch", "push"}
AllLabels == Timed \cup {"off", "first", "wait", "error"}

MarkersOK == made \in 0..MaxMarks /\ dirty \in [Ids -> Span \cup {None}]

LineOK ==
    /\ shown \in 0..made /\ tip \in 0..(events + shown)
    /\ main \in (0..tip) \cup {None} /\ ours \subseteq 0..tip

RecordOK ==
    record \in [url : Remotes \cup {None}, oid : (0..tip) \cup {None},
                pulled : Span \cup {None}, error : BOOLEAN]

PushOK ==
    /\ pending \in [url : Remotes, base : 0..tip, at : Span, listed : SUBSET Ids,
                    holds : 0..made] \cup {None}
    /\ pending # None /\ pending.base = tip => pending.holds > shown

JobOK ==
    /\ job \in Jobs /\ pc \in AllLabels
    /\ pc \in Timed => job.age \in Span
    /\ pc \in {"recover", "push"} => pending # None

CountOK ==
    /\ events \in 0..MaxEvents /\ queued \in 0..events /\ settings.version \in 0..events
    /\ ticks \in 0..MaxTicks
    /\ setBack \in BOOLEAN /\ silent \in BOOLEAN
    /\ conflict \in {None, "url", "state", "unconfirmed", "race"}

Bounded == MarkersOK /\ LineOK /\ RecordOK /\ PushOK /\ JobOK /\ CountOK

BeforeOK == before \in 0..made

LEMMA BoundedNumbers ==
    ASSUME Bounded
    PROVE  /\ made \in Nat /\ made <= MaxMarks /\ events \in Nat /\ events <= MaxEvents
           /\ MaxMarks \in Nat /\ MaxEvents \in Nat /\ MaxTicks \in Nat
           /\ shown \in Nat /\ shown <= made
           /\ tip \in Nat /\ tip <= events + shown
  <1>1. made \in Nat /\ made <= MaxMarks /\ events \in Nat /\ events <= MaxEvents
    BY BoundsAssumption DEF Bounded, MarkersOK, CountOK
  <1>2. shown \in Nat /\ shown <= made
    BY <1>1 DEF Bounded, LineOK
  <1> QED
    BY <1>1, <1>2, BoundsAssumption DEF Bounded, LineOK

LEMMA BoundedIsTyped == Woken /\ Bounded /\ BeforeOK => TypeOK
  <1> SUFFICES ASSUME Woken, Bounded, BeforeOK
               PROVE  TypeOK
    OBVIOUS
  <1>1. Span \subseteq Ages
    BY AgesAssumption DEF Span, Ages, Bounded, CountOK
  <1>2. /\ made \in Nat /\ made <= MaxMarks /\ events \in Nat /\ events <= MaxEvents
        /\ shown \in Nat /\ shown <= made /\ 0..made \subseteq 0..MaxMarks
        /\ 0..tip \subseteq Commits /\ tip \in Commits
    BY BoundedNumbers DEF Commits
  <1>3. dirty \in [Ids -> Ages \cup {None}]
    BY <1>1 DEF Bounded, MarkersOK
  <1>4. record \in Records
    BY <1>1, <1>2 DEF Bounded, RecordOK, Records
  <1>5. pending \in Pendings \cup {None}
    BY <1>1, <1>2 DEF Bounded, PushOK, Pendings
  <1>6. /\ settings \in [url : Remotes \cup {None}, version : 0..MaxEvents]
        /\ queued \in 0..MaxEvents /\ tried \in 0..settings.version
    BY <1>2, BoundsAssumption DEF Bounded, CountOK, Woken, SameRemote, Typed
  <1> QED
    BY <1>2, <1>3, <1>4, <1>5, <1>6
       DEF Bounded, MarkersOK, LineOK, JobOK, CountOK, BeforeOK, TypeOK, AllLabels,
           Timed

\* Up to the first await a cycle only chooses what to do, and counts as an event
\* where the operator or a fault began it.
LEMMA CycleSets ==
    ASSUME Woken, NEW by \in {"boot", "service", "command"}, NEW command, Cycle(by, command)
    PROVE  /\ UNCHANGED <<dirty, made, settings, tip, ours, shown, record, main, pending,
                          setBack, silent>>
           /\ UNCHANGED events \/ Event
           /\ conflict' \in {conflict, "url"}
           /\ job' \in [by : {"boot", "service", "command"}, url : Remotes \cup {None},
                        age : {0}, listed : SUBSET Ids]
           /\ pc' \in {"off", "first", "wait", "error", "init", "pull", "recover", "fetch"}
           /\ pc' = "recover" => pending # None
  <1>1. /\ UNCHANGED <<dirty, made, settings, tip, ours, shown, record, main, pending,
                       setBack, silent>>
        /\ UNCHANGED events \/ Event
        /\ conflict' \in {conflict, "url"}
    BY DEF Cycle, reader, remote, StartInit, Blocked, StartPull, OtherRemote, StartRecovery,
           StartPublish, ConfigFails, Unconfigured, NotDue, Fault
  <1>2. Effective(by) \in Remotes \cup {None} /\ Listed \in SUBSET Ids /\ {} \in SUBSET Ids
    BY DEF Woken, SameRemote, Typed, Effective, Listed
  <1>3. CASE pc' = Home(by) /\ job' = NoJob
    BY <1>1, <1>3 DEF Home, NoJob
  <1>4. CASE \E label \in {"error", "init", "pull", "recover", "fetch"},
                listed \in SUBSET Ids :
                   Start(by, label, listed) /\ (label = "recover" => pending # None)
    BY <1>1, <1>2, <1>4 DEF Start, NoJob
  <1> QED
    BY <1>1, <1>2, <1>3, <1>4
    DEF Cycle, StartInit, Blocked, StartPull, OtherRemote, StartRecovery, StartPublish,
        ConfigFails, Unconfigured, NotDue

LEMMA StartKeepsBounds ==
    ASSUME Woken, Bounded, Boot \/ Take \/ RunCommand
    PROVE  Bounded'
  <1>1. PICK by \in {"boot", "service", "command"} : \E command : Cycle(by, command)
    BY DEF Boot, Take, TakeTick, TakeCommand, RunCommand
  <1>2. /\ UNCHANGED <<dirty, made, settings, tip, ours, shown, record, main, pending,
                       setBack, silent>>
        /\ UNCHANGED events \/ Event
        /\ conflict' \in {conflict, "url"}
        /\ job' \in [by : {"boot", "service", "command"}, url : Remotes \cup {None},
                     age : {0}, listed : SUBSET Ids]
        /\ pc' \in {"off", "first", "wait", "error", "init", "pull", "recover", "fetch"}
        /\ pc' = "recover" => pending # None
    BY <1>1, CycleSets
  <1>3. 0 \in Span /\ 0 \in Ages
    BY AgesAssumption DEF Span, Ages, Bounded, CountOK
  <1>4. /\ events' \in {events, events + 1} /\ events' \in 0..MaxEvents
        /\ tip \in 0..(events' + shown) /\ 0..events \subseteq 0..events'
    BY <1>2, BoundedNumbers DEF Event
  <1>5. queued' \in 0..events /\ ticks' \in 0..MaxTicks
    BY BoundsAssumption DEF Boot, Take, TakeTick, TakeCommand, RunCommand, Bounded, CountOK
  <1>6. MarkersOK' /\ RecordOK' /\ PushOK'
    BY <1>2 DEF Bounded, MarkersOK, RecordOK, PushOK, Span
  <1>7. LineOK' /\ CountOK'
    BY <1>2, <1>4, <1>5 DEF Bounded, LineOK, CountOK
  <1>8. JobOK'
    BY <1>2, <1>3 DEF Bounded, JobOK, Jobs, AllLabels, Timed, Span
  <1> QED
    BY <1>6, <1>7, <1>8 DEF Bounded

LEMMA HomeIsBounded ==
    ASSUME Woken, Bounded, Return
    PROVE  JobOK'
  <1>1. NoJob \in Jobs
    BY AgesAssumption DEF NoJob, Jobs, Ages
  <1>2. job.by \in {"boot", "service", "command"}
    BY DEF Bounded, JobOK, Jobs
  <1> QED
    BY <1>1, <1>2 DEF Return, Home, JobOK, AllLabels, Timed

\* A success is recorded with the tip and with a time the cycle holds.
LEMMA SuccessIsBounded ==
    ASSUME Woken, Bounded, pc \in Timed, NEW oid \in 0..tip', NEW at \in Span,
           record' = Success(oid, at), UNCHANGED setBack
    PROVE  RecordOK'
  BY DEF Success, Woken, SameRemote, Typed, Timed, RecordOK, Span

\* Clearing takes markers away.
LEMMA ClearIsBounded ==
    ASSUME Bounded, NEW listed, Clear(listed), UNCHANGED <<made, setBack>>
    PROVE  MarkersOK'
  BY DEF Clear, Bounded, MarkersOK, Span

\* The remote takes a candidate built on its tip: it shows more than before.
LEMMA LandIsBounded ==
    ASSUME Bounded, Land, pending # None, made' = made,
           events' \in {events, events + 1}, main' \in (0..tip') \cup {None}
    PROVE  /\ tip' = tip + 1 /\ tip \in Nat /\ LineOK'
           /\ shown' = pending.holds /\ pending.holds \in 0..made
  <1>1. /\ pending.holds \in 0..made /\ pending.holds > shown /\ pending.base = tip
        /\ tip \in Nat /\ shown \in Nat /\ tip <= events + shown /\ events \in Nat
        /\ made \in Nat
    BY BoundedNumbers DEF Land, Bounded, PushOK
  <1>2. tip' = tip + 1 /\ ours' = ours \cup {tip + 1} /\ shown' = pending.holds
    BY DEF Land
  <1>3. tip' \in 0..(events' + shown') /\ shown' \in 0..made'
    BY <1>1, <1>2
  <1>4. ours' \subseteq 0..tip'
    BY <1>1, <1>2 DEF Bounded, LineOK
  <1> QED
    BY <1>1, <1>2, <1>3, <1>4 DEF LineOK

\* Steps after an await that do not settle a push.
LEMMA EndKeepsBounds ==
    ASSUME Woken, Bounded,
           \/ InitDone \/ PullDone \/ PullMeetsState \/ NothingToCommit
           \/ NetworkFails \/ RecoverUnconfirmed \/ PersistError \/ PersistFails
    PROVE  Bounded'
  <1>1. /\ UNCHANGED <<made, settings, queued, ticks, tip, ours, shown, pending, setBack>>
        /\ UNCHANGED events \/ Event
        /\ main' \in {main, tip}
        /\ silent' \in {silent, TRUE}
        /\ conflict' \in {conflict, "state", "unconfirmed"}
    BY DEF InitDone, PullDone, PullMeetsState, NothingToCommit, NetworkFails,
           RecoverUnconfirmed, PersistError, PersistFails, Stop, Fault, reader, wakers, remote,
           meta, clock, history
  <1>2. /\ events' \in {events, events + 1} /\ events' \in 0..MaxEvents
        /\ tip \in 0..(events' + shown) /\ tip \in 0..tip /\ 0..events \subseteq 0..events'
    BY <1>1, BoundedNumbers DEF Event
  <1>3. LineOK' /\ PushOK'
    BY <1>1, <1>2 DEF Bounded, LineOK, PushOK, Span
  <1>4. CountOK'
    BY <1>1, <1>2 DEF Bounded, CountOK
  <1>5. MarkersOK'
    <2>1. UNCHANGED dirty \/ Clear(job.listed)
      BY DEF InitDone, PullDone, PullMeetsState, NothingToCommit, NetworkFails,
             RecoverUnconfirmed, PersistError, PersistFails, Stop, reader
    <2> QED
      BY <1>1, <2>1, ClearIsBounded DEF Bounded, MarkersOK, Span
  <1>6. RecordOK'
    <2>1. CASE InitDone \/ PullDone \/ NothingToCommit
      <3>1. pc \in Timed /\ record' = Success(tip, job.age) /\ tip \in 0..tip'
        BY <1>1, <1>2, <2>1 DEF InitDone, PullDone, NothingToCommit, Timed
      <3> QED
        BY <1>1, <3>1, SuccessIsBounded DEF Bounded, JobOK
    <2>2. CASE record' = record
      BY <1>1, <2>2 DEF Bounded, RecordOK, Span
    <2>3. CASE record' = [record EXCEPT !.error = TRUE]
      BY <1>1, <2>3 DEF Bounded, RecordOK, Span
    <2> QED
      BY <2>1, <2>2, <2>3
         DEF PullMeetsState, NetworkFails, RecoverUnconfirmed, PersistError, PersistFails, Stop,
             meta
  <1>7. JobOK'
    <2>1. CASE Return
      BY <2>1, HomeIsBounded
    <2>2. CASE pc' = "error" /\ UNCHANGED job
      BY <2>2 DEF Bounded, JobOK, AllLabels, Timed
    <2> QED
      BY <2>1, <2>2
         DEF InitDone, PullDone, PullMeetsState, NothingToCommit, NetworkFails,
             RecoverUnconfirmed, PersistError, PersistFails, Stop, Goto
  <1> QED
    BY <1>3, <1>4, <1>5, <1>6, <1>7 DEF Bounded

\* Steps that settle the pending push, drop it or make one.
LEMMA SettleKeepsBounds ==
    ASSUME Woken, Bounded,
           \/ RecoverNotLanded \/ RecoverLanded \/ PushDone \/ PushStale \/ BuildCandidate
    PROVE  Bounded'
  <1>1. /\ UNCHANGED <<made, settings, queued, ticks, events, setBack, silent>>
        /\ conflict' \in {conflict, "race"}
    BY DEF RecoverNotLanded, RecoverLanded, PushDone, PushStale, BuildCandidate, reader,
           wakers, clock, history
  <1>2. CountOK'
    BY <1>1, BoundedNumbers DEF Bounded, CountOK
  <1>3. CASE RecoverNotLanded \/ PushStale
    <2>1. /\ UNCHANGED <<dirty, tip, ours, shown, record, main, job>> /\ pending' = None
          /\ pc \in {"recover", "push"} /\ pc' \in {"prepare", "fetch", "error"}
      BY <1>3 DEF RecoverNotLanded, PushStale, Goto, reader, remote
    <2>2. MarkersOK' /\ LineOK' /\ RecordOK' /\ PushOK'
      BY <1>1, <2>1 DEF Bounded, MarkersOK, LineOK, RecordOK, PushOK, Span
    <2>3. JobOK'
      BY <1>1, <2>1 DEF Bounded, JobOK, AllLabels, Timed, Span
    <2> QED
      BY <1>2, <2>2, <2>3 DEF Bounded
  <1>4. CASE RecoverLanded
    <2>1. /\ pending # None /\ pending.at \in Span /\ 0 \in Span
          /\ pc = "recover" /\ pc' = "prepare" /\ UNCHANGED <<tip, ours, shown, job>>
          /\ main' = tip /\ pending' = None /\ tip \in 0..tip
      <3>1. 0 \in Span
        BY AgesAssumption DEF Span, Bounded, CountOK
      <3>2. pending # None
        BY <1>4 DEF RecoverLanded, Bounded, JobOK
      <3>3. tip \in 0..tip
        BY BoundedNumbers
      <3> QED
        BY <1>4, <3>1, <3>2, <3>3 DEF RecoverLanded, Goto, Bounded, PushOK, remote
    <2>2. LineOK' /\ PushOK' /\ MarkersOK'
      BY <1>1, <1>4, <2>1, ClearIsBounded DEF RecoverLanded, Bounded, LineOK, PushOK
    <2>3. RecordOK'
      BY <1>1, <1>4, <2>1, SuccessIsBounded DEF RecoverLanded, Timed
    <2>4. JobOK'
      BY <1>1, <2>1 DEF Bounded, JobOK, AllLabels, Timed, Span
    <2> QED
      BY <1>2, <2>2, <2>3, <2>4 DEF Bounded
  <1>5. CASE PushDone
    <2>1. pending # None /\ pc \in Timed /\ Land /\ main' = tip' /\ job.age \in Span
      BY <1>5 DEF PushDone, Bounded, JobOK, Timed
    <2>2. tip' \in 0..tip'
      BY <2>1, BoundedNumbers DEF Land
    <2>3. LineOK' /\ MarkersOK'
      BY <1>1, <1>5, <2>1, <2>2, LandIsBounded, ClearIsBounded DEF PushDone
    <2>4. RecordOK'
      BY <1>1, <1>5, <2>1, <2>2, SuccessIsBounded DEF PushDone
    <2>5. JobOK' /\ PushOK'
      BY <1>5, HomeIsBounded DEF PushDone, PushOK
    <2> QED
      BY <1>2, <2>3, <2>4, <2>5 DEF Bounded
  <1>6. CASE BuildCandidate
    <2>1. /\ UNCHANGED <<dirty, tip, ours, shown, job>> /\ main' = tip
          /\ pc = "fetch" /\ pc' = "push" /\ job.age \in Span /\ job.listed \in SUBSET Ids
          /\ job.url \in Remotes
      BY <1>6 DEF BuildCandidate, Goto, reader, remote, Bounded, JobOK, Jobs, Timed, Woken,
                  SameRemote, Typed
    <2>2. tip \in 0..tip /\ made \in 0..made /\ 0 \in Span /\ made > shown
      <3>1. 0 \in Span
        BY AgesAssumption DEF Span, Bounded, CountOK
      <3> QED
        BY <1>6, <3>1, BoundedNumbers DEF BuildCandidate
    <2>3. MarkersOK' /\ LineOK'
      BY <1>1, <2>1, <2>2 DEF Bounded, MarkersOK, LineOK, Span
    <2>4. RecordOK'
      BY <1>1, <1>6, <2>1, <2>2 DEF BuildCandidate, Bounded, RecordOK, Span
    <2>5. PushOK' /\ pending' # None
      <3>1. pending' = [url |-> job.url, base |-> tip, at |-> job.age,
                        listed |-> job.listed, holds |-> made]
        BY <1>6 DEF BuildCandidate
      <3>2. pending' \in PushRecords
        BY <2>1, <3>1, <1>6, BoundedNumbers DEF PushRecords, Woken, SameRemote, Typed, JobRecords
      <3>3. pending' # None
        BY <3>2, NoneIsNoPush
      <3> QED
        BY <1>1, <2>1, <2>2, <3>1, <3>3 DEF PushOK, Span
    <2>6. JobOK'
      BY <1>1, <2>1, <2>5 DEF Bounded, JobOK, AllLabels, Timed, Span
    <2> QED
      BY <1>2, <2>3, <2>4, <2>5, <2>6 DEF Bounded
  <1> QED
    BY <1>3, <1>4, <1>5, <1>6

\* Steps that leave the pending push as it is, but for what the remote does with it.
LEMMA OtherKeepsBounds ==
    ASSUME Woken, Bounded,
           \/ Prepare \/ ReplyLost \/ Kill \/ Mark \/ Produce \/ Acknowledge
           \/ \E r \in Remotes : SaveSettings(r)
    PROVE  Bounded'
  <1>1. UNCHANGED <<record, main, pending, setBack, silent>>
    BY DEF Prepare, ReplyLost, Kill, Mark, Produce, Acknowledge, SaveSettings, Fault, meta,
           clock, history
  <1>2. NoJob \in Jobs
    BY AgesAssumption DEF NoJob, Jobs, Ages
  <1>3. CASE Prepare
    <2>1. UNCHANGED <<dirty, made, settings, queued, ticks, tip, ours, shown, conflict, events>>
      BY <1>3 DEF Prepare, reader, wakers, remote, meta, clock
    <2>2. MarkersOK' /\ LineOK' /\ RecordOK' /\ PushOK' /\ CountOK'
      BY <1>1, <2>1 DEF Bounded, MarkersOK, LineOK, RecordOK, PushOK, CountOK, Span
    <2>3. JobOK'
      <3>1. CASE Return
        BY <3>1, HomeIsBounded
      <3>2. CASE pc' = "fetch" /\ job' = [job EXCEPT !.listed = Listed]
        <4>1. Listed \in SUBSET Ids /\ pc \in Timed
          BY <1>3 DEF Listed, Prepare, Timed
        <4> QED
          BY <1>1, <3>2, <4>1 DEF Bounded, JobOK, Jobs, AllLabels, Timed, Span
      <3> QED
        BY <1>3, <3>1, <3>2 DEF Prepare
    <2> QED
      BY <2>2, <2>3 DEF Bounded
  <1>4. CASE ReplyLost \/ Kill
    <2>1. UNCHANGED <<dirty, made, settings, conflict>> /\ Event
      BY <1>4 DEF ReplyLost, Kill, Fault, reader, wakers, meta
    <2>2. /\ events' = events + 1 /\ events' \in 0..MaxEvents
          /\ tip \in 0..(events' + shown) /\ 0..events \subseteq 0..events'
      BY <2>1, BoundedNumbers DEF Event
    <2>3. /\ LineOK' /\ 0..tip \subseteq 0..tip'
          /\ (tip' = tip + 1 /\ tip \in Nat) \/ UNCHANGED <<tip, shown>>
      <3>1. CASE UNCHANGED remote
        BY <1>1, <2>1, <2>2, <3>1 DEF remote, Bounded, LineOK
      <3>2. CASE pc = "push" /\ Land
        <4>1. pending # None /\ 0..tip \subseteq 0..tip'
          BY <3>2, BoundedNumbers DEF Land, Bounded, JobOK
        <4>2. main' \in (0..tip') \cup {None}
          BY <1>1, <4>1 DEF Bounded, LineOK
        <4> QED
          BY <2>1, <2>2, <3>2, <4>1, <4>2, LandIsBounded
      <3> QED
        BY <1>4, <3>1, <3>2 DEF ReplyLost, Kill
    <2>4. RecordOK' /\ MarkersOK'
      BY <1>1, <2>1, <2>3 DEF Bounded, RecordOK, MarkersOK, Span
    <2>5. PushOK'
      BY <1>1, <2>1, <2>3 DEF Bounded, PushOK, Span
    <2>6. JobOK'
      BY <1>2, <1>4 DEF ReplyLost, Kill, Goto, Bounded, JobOK, AllLabels, Timed
    <2>7. queued' \in {queued, 0} /\ ticks' \in {ticks, 0}
      BY <1>4 DEF ReplyLost, Kill, wakers
    <2>8. CountOK'
      BY <1>1, <2>1, <2>2, <2>7, BoundedNumbers DEF Bounded, CountOK
    <2> QED
      BY <2>3, <2>4, <2>5, <2>6, <2>8 DEF Bounded
  <1>5. CASE Mark
    <2>1. /\ UNCHANGED <<pc, job, settings, queued, ticks, tip, ours, shown, conflict, events>>
          /\ made' = made + 1 /\ dirty' = [dirty EXCEPT ![made + 1] = 0]
          /\ made < MaxMarks
      BY <1>5 DEF Mark, process, wakers, remote, meta, clock
    <2>2. /\ made' \in 0..MaxMarks /\ 0..made \subseteq 0..made' /\ 0 \in Span
      BY <2>1, BoundedNumbers, AgesAssumption DEF Span, Bounded, CountOK
    <2>3. MarkersOK'
      BY <1>1, <2>1, <2>2 DEF Bounded, MarkersOK, Span
    <2>4. LineOK' /\ PushOK'
      BY <1>1, <2>1, <2>2 DEF Bounded, LineOK, PushOK, Span
    <2>5. RecordOK' /\ JobOK' /\ CountOK'
      BY <1>1, <2>1 DEF Bounded, RecordOK, JobOK, CountOK, Span
    <2> QED
      BY <2>3, <2>4, <2>5 DEF Bounded
  <1>6. CASE Produce
    <2>1. /\ UNCHANGED <<dirty, made, pc, job, settings, queued, ticks, ours, shown, conflict>>
          /\ tip' = tip + 1 /\ Event
      BY <1>6 DEF Produce, reader, process, wakers, meta
    <2>2. /\ events' \in 0..MaxEvents /\ 0..events \subseteq 0..events'
          /\ tip' \in 0..(events' + shown) /\ 0..tip \subseteq 0..tip' /\ tip \in Nat
      BY <2>1, BoundedNumbers DEF Event
    <2>3. LineOK' /\ RecordOK'
      BY <1>1, <2>1, <2>2 DEF Bounded, LineOK, RecordOK, Span
    <2>4. PushOK'
      BY <1>1, <2>1, <2>2 DEF Bounded, PushOK, Span
    <2>5. MarkersOK' /\ JobOK' /\ CountOK'
      BY <1>1, <2>1, <2>2 DEF Bounded, MarkersOK, JobOK, CountOK, Span
    <2> QED
      BY <2>3, <2>4, <2>5 DEF Bounded
  <1>7. CASE Acknowledge
    BY <1>1, <1>7
       DEF Acknowledge, reader, process, wakers, remote, clock, history, Bounded, MarkersOK,
           LineOK, RecordOK, PushOK, JobOK, CountOK, Span
  <1>8. ASSUME NEW r \in Remotes, SaveSettings(r)
        PROVE  Bounded'
    <2>1. /\ UNCHANGED <<dirty, made, pc, job, ticks, tip, ours, shown, conflict>>
          /\ settings'.version = settings.version + 1 /\ queued' = queued + 1 /\ Event
      BY <1>8 DEF SaveSettings, Written, reader, process, remote, meta
    <2>2. /\ events' \in 0..MaxEvents /\ tip \in 0..(events' + shown)
          /\ queued' \in 0..events' /\ settings'.version \in 0..events'
      BY <2>1, BoundedNumbers DEF Event, Bounded, CountOK
    <2>3. MarkersOK' /\ LineOK' /\ RecordOK' /\ PushOK' /\ JobOK' /\ CountOK'
      BY <1>1, <2>1, <2>2
         DEF Bounded, MarkersOK, LineOK, RecordOK, PushOK, JobOK, CountOK, Span
    <2> QED
      BY <2>3 DEF Bounded
  <1> QED
    BY <1>3, <1>4, <1>5, <1>6, <1>7, <1>8

\* Growing older stops at the cap, and the clock is set back once.
LEMMA AgesStayInSpan ==
    ASSUME Bounded, NEW age,
           \/ age = Older /\ UNCHANGED setBack
           \/ age = Earlier /\ ~setBack /\ setBack' = TRUE
    PROVE  \A a \in Span : age[a] \in Span'
  <1>1. {CapAge, SetBack} \subseteq Nat
    BY AgesAssumption
  <1>2. CASE age = Earlier /\ ~setBack /\ setBack' = TRUE
    BY <1>1, <1>2 DEF Earlier, Span
  <1>3. CASE age = Older /\ UNCHANGED setBack
    BY <1>1, <1>3 DEF Older, Span, Bounded, CountOK
  <1> QED
    BY <1>2, <1>3

LEMMA TimeKeepsBounds ==
    ASSUME Woken, Bounded, SetClockBack \/ Advance
    PROVE  Bounded'
  <1>1. PICK age : /\ \/ age = Older /\ UNCHANGED setBack
                      \/ age = Earlier /\ ~setBack /\ setBack' = TRUE
                   /\ Restamp(age)
    BY DEF SetClockBack, Advance, clock
  <1>2. /\ UNCHANGED <<made, pc, settings, queued, tip, ours, shown, main, conflict, silent>>
        /\ UNCHANGED <<ticks, events>> \/ (UNCHANGED ticks /\ Event)
           \/ (ticks # MaxTicks /\ ticks' = ticks + 1 /\ UNCHANGED events)
    BY DEF SetClockBack, Advance, wakers, remote, clock, history
  <1>3. \A a \in Span : age[a] \in Span'
    BY <1>1, AgesStayInSpan
  <1>4. /\ events' \in 0..MaxEvents /\ tip \in 0..(events' + shown)
        /\ 0..events \subseteq 0..events' /\ ticks' \in 0..MaxTicks
    BY <1>2, BoundedNumbers DEF Event, Bounded, CountOK
  <1>5. LineOK' /\ CountOK'
    BY <1>1, <1>2, <1>4 DEF Bounded, LineOK, CountOK
  <1>6. MarkersOK'
    BY <1>1, <1>2, <1>3 DEF Restamp, Bounded, MarkersOK
  <1>7. RecordOK'
    BY <1>1, <1>2, <1>3 DEF Restamp, Bounded, RecordOK
  <1>8. PushOK' /\ (pending # None => pending' # None)
    <2>1. CASE pending = None
      BY <1>1, <2>1 DEF Restamp, PushOK
    <2>2. CASE pending # None
      <3>1. /\ pending' = [pending EXCEPT !.at = age[pending.at]] /\ pending.at \in Span
        BY <1>1, <2>2 DEF Restamp, Bounded, PushOK
      <3>2. pending' # None
        <4>1. pending \in PushRecords /\ age[pending.at] \in Int
          <5>1. Span' \subseteq Int
            BY <1>1, AgesAssumption DEF Span
          <5> QED
            BY <1>3, <2>2, <3>1, <5>1 DEF Woken, SameRemote, Typed
        <4>2. pending' \in PushRecords
          BY <3>1, <4>1 DEF PushRecords
        <4> QED
          BY <4>2, NoneIsNoPush
      <3> QED
        BY <1>2, <1>3, <2>2, <3>1, <3>2 DEF Bounded, PushOK
    <2> QED
      BY <2>1, <2>2
  <1>9. JobOK'
    <2>1. Span' \subseteq Ages
      BY <1>1, AgesAssumption DEF Span, Ages
    <2>2. CASE pc \in Timed
      <3>1. job' = [job EXCEPT !.age = age[job.age]] /\ job.age \in Span
        BY <1>1, <2>2 DEF Restamp, Timed, Bounded, JobOK
      <3> QED
        BY <1>2, <1>3, <1>8, <2>1, <2>2, <3>1 DEF Bounded, JobOK, Jobs
    <2>3. CASE pc \notin Timed
      BY <1>1, <1>2, <1>8, <2>3 DEF Restamp, Timed, Bounded, JobOK
    <2> QED
      BY <2>2, <2>3
  <1> QED
    BY <1>5, <1>6, <1>7, <1>8, <1>9 DEF Bounded

LEMMA BoundedStep ==
    ASSUME Woken, Bounded, Next
    PROVE  Bounded'
  BY StartKeepsBounds, EndKeepsBounds, SettleKeepsBounds, OtherKeepsBounds, TimeKeepsBounds
     DEF Next, Progress

LEMMA StartsBounded ==
    ASSUME Init
    PROVE  Bounded
  <1>1. NoJob \in Jobs /\ 0 \in 0..(CapAge + SetBack)
    BY AgesAssumption DEF NoJob, Jobs, Ages
  <1>2. /\ RecordOK /\ main \in {0, None}
    <2>1. PICK url \in Installed :
              IF url = None
              THEN /\ record = [url |-> None, oid |-> None, pulled |-> None, error |-> FALSE]
                   /\ main = None
              ELSE /\ record = [url |-> url, oid |-> 0, pulled |-> 0, error |-> FALSE]
                   /\ main = 0
      BY DEF Init
    <2>2. Span = 0..(CapAge + SetBack) /\ tip = 0
      BY DEF Init, Span
    <2>3. url \in Remotes \cup {None} /\ 0 \in 0..tip /\ 0 \in Span
      BY <1>1, <2>2, InstalledAssumption
    <2>4. RecordOK
      <3>1. \E a \in {0, None} : record = [url |-> url, oid |-> a, pulled |-> a, error |-> FALSE]
        BY <2>1
      <3> QED
        BY <2>3, <3>1 DEF RecordOK
    <2> QED
      BY <2>1, <2>4
  <1>3. MarkersOK /\ LineOK /\ PushOK
    BY <1>1, <1>2, BoundsAssumption DEF Init, MarkersOK, LineOK, PushOK, Span
  <1>4. JobOK
    BY <1>1 DEF Init, JobOK, AllLabels, Timed
  <1>5. CountOK
    <2>1. PICK url \in Installed : settings = [url |-> url, version |-> 0]
      BY DEF Init
    <2>2. 0 \in 0..MaxEvents /\ 0 \in 0..MaxTicks /\ 0 \in 0..0
      BY BoundsAssumption
    <2> QED
      BY <2>1, <2>2 DEF Init, CountOK
  <1> QED
    BY <1>2, <1>3, <1>4, <1>5 DEF Bounded

LEMMA BeforeStep ==
    ASSUME Bounded, BeforeOK, Next
    PROVE  BeforeOK'
  <1>1. made \in Nat /\ before \in Nat /\ before <= made
    BY BoundedNumbers DEF BeforeOK
  <1>2. CASE Boot \/ Take \/ RunCommand
    <2>1. UNCHANGED made /\ before' \in {0, made, before}
      BY <1>2 DEF Boot, Take, TakeTick, TakeCommand, RunCommand, Cycle, reader
    <2> QED
      BY <1>1, <2>1 DEF BeforeOK
  <1>3. CASE Kill
    BY <1>1, <1>3 DEF Kill, reader, BeforeOK
  <1>4. CASE Mark
    BY <1>1, <1>4 DEF Mark, history, BeforeOK
  <1>5. CASE \/ Acknowledge \/ \E r \in Remotes : SaveSettings(r)
             \/ NetworkFails \/ ReplyLost \/ PersistFails
             \/ Produce \/ SetClockBack \/ Advance
    BY <1>5 DEF Acknowledge, SaveSettings, NetworkFails, ReplyLost, PersistFails, Produce,
       SetClockBack, Advance, reader, history, BeforeOK
  <1>6. CASE Progress
    BY <1>6 DEF Progress, InitDone, PullMeetsState, PullDone, RecoverNotLanded,
       RecoverUnconfirmed, RecoverLanded, Prepare, NothingToCommit, BuildCandidate, PushDone,
       PushStale, PersistError, Stop, reader, history, BeforeOK
  <1> QED
    BY <1>2, <1>3, <1>4, <1>5, <1>6 DEF Next

LEMMA BoundedInvariance == Spec => [](Woken /\ Bounded /\ BeforeOK)
  <1>1. Init => Bounded /\ BeforeOK
    <2>1. 0 \in 0..0
      OBVIOUS
    <2>2. Init => before = 0 /\ made = 0
      BY DEF Init
    <2>3. Init => BeforeOK
      BY <2>1, <2>2 DEF BeforeOK
    <2> QED
      BY <2>3, StartsBounded
  <1>2. Woken /\ Bounded /\ BeforeOK /\ [Next]_vars => (Bounded /\ BeforeOK)'
    <2>1. CASE UNCHANGED vars
      BY <2>1 DEF vars, reader, process, wakers, remote, meta, clock, history, Bounded,
                  MarkersOK, LineOK, RecordOK, PushOK, JobOK, CountOK, Span, BeforeOK
    <2> QED
      BY <2>1, BoundedStep, BeforeStep
  <1> QED
    BY <1>1, <1>2, WokenInvariance, PTL DEF Spec

\* The files, the queue, the interval and every age and commit stay in their range,
\* whatever starts, fails, is killed or sets the clock (run_synchronization).
THEOREM SchedulerTypeCorrect == Spec => []TypeOK
  BY BoundedInvariance, BoundedIsTyped, PTL

-----------------------------------------------------------------------------
(***************************************************************************)
(* OverdueIsReported.  A tick is taken before anything can grow old while  *)
(* the loop waits: time that passes there leaves a tick to take, and a     *)
(* cycle that goes home without one to come has looked at every marker,    *)
(* listed it, or ended with an error that sync.toml tells of.  The cycle   *)
(* the service starts with lists whatever is there at its start.           *)
(***************************************************************************)

Fresh(S) == \A i \in S : dirty[i] < CapAge

\* Markers the cycle may leave: those that are not yet old or, to the cycle the
\* service starts with, those that came after it.
Left(S) == \A i \in S : IF job.by = "boot" THEN i > before ELSE dirty[i] < CapAge

CycleIsFresh ==
    /\ pc = "pull" => Left(Listed)
    /\ pc = "fetch" => Left(Listed \ job.listed)
    /\ pc = "push" => Left(Listed \ pending.listed)

IdleIsFresh ==
    ~silent /\ ~record.error =>
        \A i \in Listed : dirty[i] < CapAge \/ (pc = "first" /\ i > before)

Punctual ==
    /\ main = None => Listed = {}
    /\ pc = "init" => main = None
    /\ pc = "push" => pending.listed = job.listed
    /\ ticks = 0 /\ pc \in {"first", "wait"} => IdleIsFresh
    /\ job.by = "boot" \/ (job.by = "service" /\ ticks = 0) => CycleIsFresh

\* A cycle that goes home at once has no remote and no marker, or none that is due;
\* one that goes on without listing the markers has found none due.
LEMMA NotDueIsFresh ==
    ASSUME Bounded, NEW command, ~StateDue(command)
    PROVE  Fresh(Listed)
  <1>1. Span \subseteq Int /\ CapAge \in Int
    BY AgesAssumption DEF Span, Bounded, CountOK
  <1>2. ASSUME NEW i \in Listed
        PROVE  dirty[i] < CapAge
    <2>1. dirty[i] \in Int
      BY <1>1, <1>2 DEF Listed, Bounded, MarkersOK
    <2> QED
      BY <1>1, <1>2, <2>1 DEF StateDue
  <1> QED
    BY <1>2 DEF Fresh

LEMMA StartIsPunctual ==
    ASSUME Woken, Bounded, Punctual, NEW by \in {"boot", "service", "command"}, NEW command,
           Cycle(by, command), by = "boot" => command = "force"
    PROVE  Punctual'
  <1>1. UNCHANGED <<dirty, main, record, pending, silent>>
    BY DEF Cycle, reader
  <1>2. Listed' = Listed
    BY <1>1 DEF Listed
  <1>3. ASSUME NEW label \in {"error", "init", "pull", "recover", "fetch"},
               NEW listed \in SUBSET Ids, Start(by, label, listed)
        PROVE  job'.by = by /\ job'.listed = listed /\ pc' = label
    BY <1>3 DEF Start, NoJob
  <1>4. {} \in SUBSET Ids /\ Listed \in SUBSET Ids
    BY DEF Listed
  <1>5. CASE StartInit(by)
    BY <1>1, <1>2, <1>3, <1>4, <1>5 DEF StartInit, Punctual, CycleIsFresh
  <1>6. CASE Blocked(by) \/ OtherRemote(by, command) \/ StartRecovery(by, command)
             \/ ConfigFails(by)
    BY <1>1, <1>2, <1>3, <1>4, <1>6
       DEF Blocked, OtherRemote, StartRecovery, ConfigFails, Punctual, CycleIsFresh
  <1>7. CASE StartPull(by, command)
    <2>1. Fresh(Listed) /\ (by = "boot" => Listed = {})
      BY <1>7, NotDueIsFresh DEF StartPull, StateDue
    <2> QED
      BY <1>1, <1>2, <1>3, <1>4, <1>7, <2>1
      DEF StartPull, Punctual, CycleIsFresh, Left, Fresh
  <1>8. CASE StartPublish(by, command)
    BY <1>1, <1>2, <1>3, <1>4, <1>8 DEF StartPublish, Punctual, CycleIsFresh, Left
  <1>9. CASE Unconfigured(by) \/ NotDue(by, command)
    <2>1. pc' \in {"first", "wait", "off"}
          /\ (pc' \in {"first", "wait"} => by \in {"boot", "service"})
      BY <1>9 DEF Unconfigured, NotDue, Home
    <2>2. by \in {"boot", "service"} => Fresh(Listed)
      <3>1. ASSUME by \in {"boot", "service"}, Unconfigured(by)
            PROVE  Listed = {}
        <4>1. record.url = None
          BY <3>1 DEF Unconfigured, Effective
        <4> QED
          BY <4>1, NoneAssumption DEF Punctual, Woken, SameRemote, Configured
      <3> QED
        BY <1>9, <3>1, NotDueIsFresh DEF NotDue, Fresh
    <2> QED
      BY <1>1, <1>2, <2>1, <2>2 DEF Punctual, CycleIsFresh, IdleIsFresh, Fresh
  <1> QED
    BY <1>5, <1>6, <1>7, <1>8, <1>9 DEF Cycle

\* Clearing markers makes no other one old.
LEMMA ClearedAreFresh ==
    ASSUME Bounded, NEW listed, Clear(listed)
    PROVE  /\ Listed' = Listed \ listed
           /\ \A i \in Listed' : dirty'[i] = dirty[i]
  <1>1. \A i \in Ids : dirty'[i] = IF i \in listed THEN None ELSE dirty[i]
    BY DEF Clear
  <1> QED
    BY <1>1 DEF Listed

\* Going home after a success, with every marker that is left fresh if no tick is to come.
LEMMA HomeIsPunctual ==
    ASSUME Woken, Bounded, Punctual, Return, UNCHANGED <<ticks, silent, before>>,
           main' = None => Listed' = {},
           (job.by = "boot" \/ (job.by = "service" /\ ticks = 0)) /\ ~silent /\ ~record'.error
               => \A i \in Listed' :
                    IF job.by = "boot" THEN i > before ELSE dirty'[i] < CapAge
    PROVE  Punctual'
  <1>1. /\ pc' \in {"first", "wait", "off"} /\ (pc' = "wait" => job.by = "service")
        /\ pc' = "first" => job.by = "boot"
        /\ job' = NoJob
    BY DEF Return, Home, Bounded, JobOK, Jobs
  <1> QED
    BY <1>1 DEF Punctual, CycleIsFresh, IdleIsFresh

LEMMA ProgressIsPunctual ==
    ASSUME Woken, Bounded, Punctual, Progress
    PROVE  Punctual'
  <1>1. UNCHANGED <<ticks, silent, before>>
    BY DEF Progress, InitDone, PullMeetsState, PullDone, RecoverNotLanded, RecoverUnconfirmed,
           RecoverLanded, Prepare, NothingToCommit, BuildCandidate, PushDone, PushStale,
           PersistError, Stop, wakers, history
  <1>2. tip # None /\ (Land => tip' # None)
    BY BoundedNumbers, NoneAssumption DEF Land
  <1>3. CASE InitDone
    <2>1. Listed' = {} /\ Return
      BY <1>3 DEF InitDone, Punctual, Listed, reader
    <2> QED
      BY <1>1, <2>1, HomeIsPunctual
  <1>4. CASE PullDone
    <2>1. Return /\ UNCHANGED dirty /\ main' = tip /\ pc = "pull"
      BY <1>4 DEF PullDone, reader
    <2> QED
      BY <1>1, <1>2, <2>1, HomeIsPunctual DEF Punctual, CycleIsFresh, Left, Listed
  <1>5. CASE NothingToCommit
    <2>1. Return /\ Clear(job.listed) /\ main' = tip /\ pc = "fetch"
      BY <1>5 DEF NothingToCommit
    <2> QED
      BY <1>1, <1>2, <2>1, HomeIsPunctual, ClearedAreFresh DEF Punctual, CycleIsFresh, Left
  <1>6. CASE PushDone
    <2>1. Return /\ Clear(pending.listed) /\ main' = tip' /\ pc = "push" /\ Land
      BY <1>6 DEF PushDone
    <2> QED
      BY <1>1, <1>2, <2>1, HomeIsPunctual, ClearedAreFresh DEF Punctual, CycleIsFresh, Left
  <1>7. CASE PersistError
    <2>1. Return /\ record'.error = TRUE /\ UNCHANGED <<dirty, main>>
      BY <1>7 DEF PersistError, reader, Bounded, RecordOK
    <2> QED
      BY <1>1, <2>1, HomeIsPunctual DEF Punctual, Listed
  <1>8. CASE Prepare
    <2>1. UNCHANGED <<dirty, main, record, pending>>
      BY <1>8 DEF Prepare, reader, meta
    <2>2. Listed' = Listed
      BY <2>1 DEF Listed
    <2>3. CASE Listed = {}
      BY <1>1, <1>8, <2>1, <2>2, <2>3, HomeIsPunctual DEF Prepare
    <2>4. CASE pc' = "fetch" /\ job' = [job EXCEPT !.listed = Listed]
      <3>1. job'.listed = Listed
        BY <2>4 DEF Bounded, JobOK, Jobs
      <3> QED
        BY <1>1, <2>1, <2>2, <2>4, <3>1 DEF Punctual, CycleIsFresh, Left
    <2> QED
      BY <1>8, <2>3, <2>4 DEF Prepare
  <1>9. CASE PullMeetsState \/ RecoverUnconfirmed
    <2>1. UNCHANGED <<dirty, main>> /\ pc' = "error"
      BY <1>9 DEF PullMeetsState, RecoverUnconfirmed, Stop, Goto, reader
    <2> QED
      BY <2>1 DEF Punctual, CycleIsFresh, Listed
  <1>10. CASE RecoverNotLanded
    <2>1. UNCHANGED <<dirty, main>> /\ pc' = "prepare"
      BY <1>10 DEF RecoverNotLanded, Goto, reader
    <2> QED
      BY <2>1 DEF Punctual, CycleIsFresh, Listed
  <1>11. CASE RecoverLanded
    <2>1. main' = tip /\ pc' = "prepare"
      BY <1>11 DEF RecoverLanded, Goto
    <2> QED
      BY <1>2, <2>1 DEF Punctual, CycleIsFresh
  <1>12. CASE BuildCandidate
    <2>1. /\ main' = tip /\ pc = "fetch" /\ pc' = "push" /\ UNCHANGED <<dirty, job>>
          /\ pending'.listed = job.listed
      BY <1>12 DEF BuildCandidate, Goto, reader
    <2>2. Listed' = Listed
      BY <2>1 DEF Listed
    <2> QED
      BY <1>1, <1>2, <2>1, <2>2 DEF Punctual, CycleIsFresh, Left
  <1>13. CASE PushStale
    <2>1. UNCHANGED <<dirty, main, job>> /\ pc = "push" /\ pc' \in {"fetch", "error"}
      BY <1>13 DEF PushStale, Goto, reader
    <2>2. Listed' = Listed
      BY <2>1 DEF Listed
    <2> QED
      BY <1>1, <2>1, <2>2 DEF Punctual, CycleIsFresh, Left
  <1> QED
    BY <1>3, <1>4, <1>5, <1>6, <1>7, <1>8, <1>9, <1>10, <1>11, <1>12, <1>13 DEF Progress

\* A cycle that fails, and steps of others.
LEMMA OtherIsPunctual ==
    ASSUME Woken, Bounded, BeforeOK, Punctual,
           \/ NetworkFails \/ ReplyLost \/ PersistFails \/ Kill \/ Mark \/ Produce
           \/ Acknowledge \/ \E r \in Remotes : SaveSettings(r)
    PROVE  Punctual'
  <1>1. CASE NetworkFails \/ ReplyLost
    <2>1. UNCHANGED <<dirty, main>> /\ pc' = "error"
      BY <1>1 DEF NetworkFails, ReplyLost, Goto, reader, meta
    <2> QED
      BY <2>1 DEF Punctual, CycleIsFresh, Listed
  <1>2. CASE PersistFails
    <2>1. /\ UNCHANGED <<dirty, main>> /\ silent' = TRUE
          /\ pc' \in {"first", "wait", "off"}
      BY <1>2 DEF PersistFails, Return, NoJob, Home, reader, meta, Bounded, JobOK, Jobs
    <2> QED
      BY <2>1 DEF Punctual, CycleIsFresh, IdleIsFresh, Listed
  <1>3. CASE Kill
    <2>1. UNCHANGED <<dirty, main>> /\ pc' = "off"
      BY <1>3 DEF Kill, reader, meta
    <2> QED
      BY <2>1 DEF Punctual, CycleIsFresh, Listed
  <1>4. CASE Mark
    <2>1. /\ UNCHANGED <<main, pc, job, ticks, record, pending, silent, before>>
          /\ main # None /\ dirty' = [dirty EXCEPT ![made + 1] = 0]
      BY <1>4 DEF Mark, process, wakers, meta, history
    <2>2. \A i \in Ids : dirty'[i] = dirty[i] \/ dirty'[i] = 0
      BY <2>1 DEF Bounded, MarkersOK
    <2>3. 0 < CapAge
      BY AgesAssumption
    <2>6. made + 1 > before
      BY BoundedNumbers DEF BeforeOK
    <2>4. \A i \in Listed' : i \in Listed \/ (dirty'[i] < CapAge /\ i > before)
      BY <2>1, <2>3, <2>6 DEF Listed, Bounded, MarkersOK
    <2>5. \A i \in Listed : dirty[i] < CapAge => dirty'[i] < CapAge
      BY <2>2, <2>3 DEF Listed
    <2> QED
      BY <2>1, <2>4, <2>5 DEF Punctual, CycleIsFresh, IdleIsFresh, Left
  <1>5. CASE Produce \/ Acknowledge \/ \E r \in Remotes : SaveSettings(r)
    <2>1. UNCHANGED <<dirty, main, pc, job, ticks, record, pending, silent, before>>
      BY <1>5 DEF Produce, Acknowledge, SaveSettings, reader, process, wakers, meta, history
    <2> QED
      BY <2>1 DEF Punctual, CycleIsFresh, IdleIsFresh, Left, Listed
  <1> QED
    BY <1>1, <1>2, <1>3, <1>4, <1>5

LEMMA TimeIsPunctual ==
    ASSUME Woken, Bounded, Punctual, SetClockBack \/ Advance
    PROVE  Punctual'
  <1>1. PICK age : Restamp(age) /\ (SetClockBack => age = Earlier)
    BY DEF SetClockBack, Advance
  <1>2. UNCHANGED <<main, pc, silent, before>>
    BY DEF SetClockBack, Advance, history
  <1>3. Span \subseteq Int /\ CapAge \in Int /\ SetBack \in Nat
    BY AgesAssumption DEF Span, Bounded, CountOK
  <1>4. Listed' \subseteq Listed
    BY <1>1 DEF Restamp, Listed
  <1>5. pc = "push" => pending'.listed = job'.listed
    <2>1. pc = "push" => /\ pending' = [pending EXCEPT !.at = age[pending.at]]
                         /\ job' = [job EXCEPT !.age = age[job.age]]
                         /\ pending # None
      BY <1>1 DEF Restamp, Bounded, JobOK
    <2> QED
      BY <2>1 DEF Bounded, JobOK, Jobs, PushOK, Punctual
  <1>6. CASE SetClockBack
    <2>1. UNCHANGED ticks /\ record'.error = record.error /\ job'.by = job.by
          /\ job'.listed = job.listed
      BY <1>1, <1>6 DEF SetClockBack, wakers, Restamp, Bounded, RecordOK, JobOK, Jobs
    <2>2. \A i \in Listed' : dirty[i] < CapAge => dirty'[i] < CapAge
      <3>1. ASSUME NEW i \in Listed'
            PROVE  dirty'[i] = dirty[i] - SetBack /\ dirty[i] \in Int
        <4>1. i \in Ids /\ dirty[i] # None /\ dirty[i] \in Int
          BY <1>3, <1>4, <3>1 DEF Listed, Bounded, MarkersOK
        <4>2. dirty'[i] = Earlier[dirty[i]]
          BY <1>1, <1>6, <4>1 DEF Restamp
        <4> QED
          BY <4>1, <4>2 DEF Earlier
      <3> QED
        BY <1>3, <3>1
    <2>3. pc = "push" => pending'.listed = pending.listed
      BY <1>5, <2>1 DEF Punctual
    <2> QED
      BY <1>2, <1>4, <1>5, <2>1, <2>2, <2>3
      DEF Punctual, CycleIsFresh, IdleIsFresh, Left
  <1>7. CASE Advance
    <2>1. job'.by = job.by /\ job'.listed = job.listed
      BY <1>1 DEF Restamp, Bounded, JobOK, Jobs
    <2>3. pc = "push" => pending'.listed = pending.listed
      BY <1>5, <2>1 DEF Punctual
    <2>2. ticks' = 0 => pc \notin {"first", "wait"} /\ (job.by = "service" => pc = "off")
      BY <1>7, BoundsAssumption DEF Advance, Bounded, CountOK
    <2> QED
      BY <1>2, <1>4, <1>5, <2>1, <2>2, <2>3 DEF Punctual, CycleIsFresh, Left
  <1> QED
    BY <1>6, <1>7

LEMMA PunctualStep ==
    ASSUME Woken, Bounded, BeforeOK, Punctual, Next
    PROVE  Punctual'
  <1>1. CASE Boot \/ Take \/ RunCommand
    <2>1. PICK by \in {"boot", "service", "command"} :
              \E command : Cycle(by, command) /\ (by = "boot" => command = "force")
      BY <1>1 DEF Boot, Take, TakeTick, TakeCommand, RunCommand
    <2> QED
      BY <2>1, StartIsPunctual
  <1> QED
    BY <1>1, ProgressIsPunctual, OtherIsPunctual, TimeIsPunctual DEF Next

\* Where the loop waits, also for the first time, no marker has waited for 5 minutes
\* without an error or a conflict on disk, but one made during the cycle the service
\* started with: however long cycles take, whatever mutations, faults and kills
\* there are and although the clock may be set back (synchronization_loop).
THEOREM OverdueReported == Spec => []OverdueIsReported
  <1>1. Init => Punctual
    <2> SUFFICES ASSUME Init
                 PROVE  Punctual
      OBVIOUS
    <2>1. Listed = {} /\ pc = "off"
      BY DEF Init, Listed
    <2> QED
      BY <2>1 DEF Punctual, CycleIsFresh
  <1>2. Woken /\ Bounded /\ BeforeOK /\ Punctual /\ [Next]_vars => Punctual'
    <2>1. CASE UNCHANGED vars
      BY <2>1 DEF vars, reader, process, wakers, meta, history, Punctual, CycleIsFresh,
                  IdleIsFresh, Left, Listed
    <2> QED
      BY <2>1, PunctualStep
  <1>3. Punctual => OverdueIsReported
    BY DEF Punctual, IdleIsFresh, OverdueIsReported
  <1> QED
    BY <1>1, <1>2, <1>3, BoundedInvariance, PTL DEF Spec
=============================================================================
