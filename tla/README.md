# Plainfeed, modelled and checked

Plainfeed is a feed reader whose data root is a Git checkout. Producers push
entries to `content/` on the remote `main` branch; the reader's own marks live
in `state/`; a synchronization task pulls the one and publishes the other. This
directory holds TLA+ modules for the parts of it where the order of steps
matters, the TLC configurations that check them, and theorems about them that
the TLA+ proof system has checked.

    tlc -config PublishCrash.cfg MCStatePublication      (any run of the table below)
    tlapm StatePublication_proofs.tla                    (any module *_proofs)

`PROJECT.json` lists, for every definition that stands for code, the lines it
stands for. Line numbers below are of `src/crates/…`.

## 1. Inventory

| Component | Code | State it keeps | Operations |
| --- | --- | --- | --- |
| Publication and recovery | `plainfeed-sync/src/lib.rs` 193–263, 387–811 | `sync.toml`, `pending-push.toml`, `conflict.toml`, the local `main`, candidate refs | `run_pull_cycle`, `publish_state`, `recover_pending_push`, preflights, `write_conflict_report` |
| Snapshot activation | `plainfeed-sync-core/src/lib.rs` 143–309, `plainfeed-sync` 813–920 | `update.lock/`, `staging/<oid>/`, `backup/activation-<n>/`, live `content/`, `config/`, the guide | acquire and drop the lock, swap by renames, finalize, roll back |
| Local recovery | `plainfeed-sync` 57–142 | the same | `recover_local_transition` |
| Dirty journal | `plainfeed-sync-core` 311–418 | `.plainfeed/dirty/` | `mark`, `snapshot`, `clear_snapshot` |
| Entry store | `plainfeed-core/src/lib.rs` | `state/entries/<id>.toml` | `mark_read`, `set_favorite`, `add_comment`, `write_state`, `entries`, `channels`, `validate` |
| HTTP reader | `plainfeed-server/src/lib.rs` | none | routing, lock check, feed and entry pages, sync summary |
| Service | `plainfeed-service/src/main.rs`, `settings.rs` | settings file, command queue, the tick | `run_synchronization`, `save_settings`, `persist_error` |
| One-shot command | `plainfeed-sync/src/bin/plainfeed-sync.rs` | none | `tick`, `force`, `status`, `acknowledge-conflict`, `recover-local` |
| Bootstrap | `plainfeed-sync` 265–385 | staging, the whole data root | `initialize_repository_if_needed` |
| Ownership contract | `plainfeed-sync-core` 21–111 | none | `path_owner`, `audit_remote_changes`, `audit_plainfeed_changes` |
| Git | `plainfeed-git`, over `git_wasip2` (not in the tree) | object store, refs | fetch, push with compare-and-swap, commit `state/` |
| Rendering | `plainfeed-server/src/render/` | none | views to HTML, with the links and forms htmx acts on |
| Browser script | `web/app.js`, with htmx 2.0.10 | observers, timers, the tab's history | `observeUnread`, the timer of an article in view, `POST …/read` |

How they interact. The service runs one current-thread runtime: an HTTP request
is handled whole, without an await, so it meets a synchronization cycle only
where that awaits the network. The one-shot command may run beside the service
on the same data root; then everything interleaves, file operation by file
operation. The components share nothing but files: the store writes
`state/entries` and then a marker; the cycle lists the markers, reads `state/`
into a commit, records the push it is about to make, pushes, moves the local
branch, rewrites `sync.toml`, and deletes the listed markers. The activation
takes `update.lock`, which the reader answers with 503. A `conflict.toml` stops
every later cycle until an operator acknowledges it.

What is hard: a push whose outcome is unknown (the reply is lost, the process is
killed, the request lands late); writes while the cycle awaits; a remote that
moves between fetch and push; a kill between any two renames or metadata writes;
recovery that meets what an earlier recovery left; two synchronizing processes;
and readers of files that others replace. `PROJECT.json` lists each hazard at
its line.

What makes each component correct:

* scheduling: a mutation waits no longer than the cap unless `sync.toml` or
  `conflict.toml` says why; a save is read by a cycle, or what keeps it from being
  read is written down; a pending push is settled with the remote it was made for;
  what the producer pushes arrives;
* bootstrap: the branch is born over a whole checkout or not at all; nothing
  outside the contract is installed; a failure leaves the root as it was; other
  people's files survive;
* feed and pages: what validates can be served; every tab reaches its entries;
  nothing is shown that is not stored; an article left open is marked as read;
* publication: an acknowledged mutation is published or still marked; a landed
  push is never forgotten; local history is part of the remote's; foreign state
  is turned down; a stop with a conflict has a reason; markers are settled;
* activation: the reader is shown one whole commit or told to wait; after a kill
  the checked-out commit can be rebuilt; the lock has one holder and goes in the
  end; `sync.toml` names what is checked out;
* reader state: a success is durable and will be published; what is half-written is
  neither published nor met by validation; the page says "synced" only when every
  success is on the remote.

## 2. The modules

### StatePublication.tla, refining DirtyOutbox.tla

One synchronizing task, the reader, the operator, and a remote repository with
everyone else who writes to it. State: the commits with their ancestors and
trees, the remote and local tips, live content, the lock, state versions,
markers, the three metadata files, and the task's locals (`pc` is the place in
the code, `route` the function that called the shared steps). There is one
action per stretch of code between two effects another actor, a fault or a kill
can separate; a failing check and its conflict report are one action
(`FetchRefused`, `RecoverUnconfirmed`, …), because nothing happens in between
that anything could see.

| Code | Actions |
| --- | --- |
| `Store::write_state`, `DirtyJournal::mark` | `WriteState`, `MarkDirty`, `MarkFails` |
| `run_synchronization` | `StartPublish`, `StartPull` |
| `recover_pending_push` | `RecoverNotLanded`, `RecoverUnconfirmed`, `RecoverForked`, `RecoverConfirmed`, then the finalization, then `Advance` |
| `preflight_repository_contract` | `RepositoryRefused` |
| `publish_state` | `TakeSnapshot`, `MeetTemporary`, `StateInvalid`, `Preflight…`, `Fetch…`, `NothingToCommit`, `ClearSettled`, `BuildCandidate`, `Push…`, then the finalization |
| `run_pull_cycle` | `Preflight…`, `Fetch…`, `RecordPull` |
| a fetch that fails | `FetchFails`; `FetchViolates` where the error is a contract violation and leaves a conflict |
| `activate_fetched_snapshot` | `ActivateSwapOut` … `ActivateUnlock`, `ActivateFails`, `ActivateStrands` |
| finalization | `FinalizeCheckout`, `FinalizeSync`, `ClearMarkers`, `ClearPending` |
| command line | `AcknowledgeConflict`, `RecoverLocal` |
| remote, external | `RemoteAccepts`, `RemoteRefuses`, `LateLands`, `Produce`, `Rewrite` |

Abstracted: a state file is a version number; a foreign byte in `state/` is the
flag `alien`; a content tree is the number of the commit that wrote it; paths
outside the contract are the flag `stray`; URLs, timestamps and `last_error` are
left out; whether a tick finds the markers due is a free choice. `live` is the
value `Mixed` during a swap, which SnapshotActivation opens up. The constant
`Beside` says whether the cycles may be a command's, which runs while the service
answers requests: `validate_state` may then list the temporary file of a request
that is being written (`MeetTemporary`). What a kill or another program left in
`state/entries` is a fault (`StateInvalid`), and so is a repository or a fetched
commit that the Git contract excludes (`RepositoryRefused`, `FetchViolates`).

DirtyOutbox is what publication promises, in four actions: write, acknowledge,
publish, settle, where settling needs the version to be published.
`ImplementsOutbox` is the refinement, with `published` mapped to the state trees
the remote branch has ever had.

### SnapshotActivation.tla, refining AtomicSwitch.tla

Activation rename by rename over the areas content, config and guide, for any
set of synchronizing processes, with `recover-local` and one request of the
reader. What `ActivateSwapOut` and `ActivateSwapIn` do in one step each is six
renames here. A directory cannot replace one that is not empty, so a backup left
behind under the same name blocks a rename (`Blocked`). Backup names are numbers
that start again with the process, as `MARKER_SEQUENCE` does; the counter also
numbers markers and temporaries, so any later number may be next. The acquisition
of the lock and the creation of the backup directory are one step: a kill
between them leaves a lock and nothing moved, as a kill after both does.

AtomicSwitch promises that the reader is shown the snapshot `main` names, or
nothing, and that `main` only advances while nothing is shown. `ImplementsSwitch`
maps `shown` to "busy" while the lock exists, else to the commit that the live
areas match.

### ReaderState.tla

One mutation at a time, file operation by file operation (temporary file,
rename, marker), next to a publication of which only the local file accesses are
kept, and one page at a time whose summary reads `conflict.toml`,
`pending-push.toml`, the markers and `sync.toml` one after the other (`PageReads`).
The variable `deployment` says whether the service synchronizes on its own
thread or the one-shot command does beside it; in the first case requests are
handled only where the cycle awaits. A repeated `mark_read` succeeds without
writing (`AlreadyRead`) and counts as a success like any other; a failed write may
leave its temporary file, a failed marker may be left or not. The page's "sync
delayed" and "local only" are counted as "synced", which makes `SyncedIsPublished`
stronger. Three histories serve the properties: `written`, what the requests that
succeeded made of each entry; `unmarked`, the entries whose read mark was stored
when its marker failed; `unremoved`, those of which a failed write left a temporary.

### SyncScheduler.tla

The service's loop around the cycles of StatePublication: the cycle before the
loop (`Boot`), the interval whose missed ticks are remembered (`TakeTick`,
`MaxTicks`), the queue of `Force` commands (`TakeCommand`), saved settings
(`SaveSettings`), the one-shot command while the service is down (`RunCommand`).
A cycle is the stretch up to its first await (`Cycle`, one alternative for each
way `run_synchronization` can go: not configured, unborn branch, old conflict,
nothing due, pull, recovery, publication) and one action for each stretch after
it. Times are ages in units of the 30 s tick; the clock may be set back once,
which makes every age smaller, also below zero. What StatePublication leaves to
chance, when a cycle starts and of which kind, is determined here; what it
details, kills between two file operations and foreign commits, is left out.
Settings that cannot be read end the cycle with an error and stay untried
(`ConfigFails`). The environment variables that override them are left out. The
history `before` tells the mutations made before the service's first cycle from
those made during it.

### Contract.tla and RepositoryInit.tla

Contract has `path_owner` and the two audits as operators over paths that are
sequences of components (`..` stands for every component that is not a plain
name, `guide` for PLAINFEED-CONTENT-GUIDE.md). RepositoryInit is
`initialize_repository_if_needed` from the check that the root is empty to
`sync.toml`: fetch, audit, export to staging, the look at each name and its
rename, the branch, and the rollback name by name; with failures at each step,
kills, moves of the remote and a user who puts files into the root meanwhile. A
file is replaced by a rename onto it, a directory is not.

### FeedStore.tla and ReaderPages.tla

FeedStore has the pure part: identifiers, what makes an entry or a catalog parse,
the channels of a data root, `build_feed_view`, and the way a channel id goes
into a link unencoded and comes back through `percent_decode` and `query_value`.
ReaderPages is a browser tab in front of it. `Handle` is `handle_request`; the
reader's actions are the links and forms that the page on the screen has
(`OpenEntry`, `OpenTab`, `BackToFeed`, `ToggleFavorite`, `Comment`), an address
(`LoadFeed`, `LoadEntry`) and the history (`GoBack`); `Load` and `Swap` are what
the browser makes of an answer; a history entry htmx has made or marked
(`screen.htmx`) decides whether the script goes back or the link is fetched
(`app.js` 45); `ComeIntoView`, `TimerFires` and `ShowRead` are
`web/app.js`. Activation changes the data root between any two steps, and
requests are handled and answered in any order, or lost. Of htmx (external) the
model has what the page relies on: an answer other than 2xx is not swapped, an
answer for an element that has been replaced is dropped, the history brings back
what was on the screen, and the script's `htmx:afterSwap` handler runs then too.

Operators under a comment that starts with "Slip" are plausible mistakes; no
action uses them. PROJECT.json puts each in the place of the definition it
spoils, and the property it names then fails.

## 3. What is checked

Passing runs:

| Run | Bounds | Shows |
| --- | --- | --- |
| PublishCrash | 1 entry, 3 writes, 2 attempts, 2 content pushes, 2 faults at any step | `NoLostMutation`, `TrustedTreeMatches`, `LandedPushTracked`, `LiveMatchesOrLocked`, `QuietConflictsAreRaces`, `FastForwardOnly`, `ImplementsOutbox` |
| PublishHostile | 1 entry, 2 writes, 2 attempts, 2 moves of any kind (content, invalid content, stray path, foreign state, branch reset), 1 fault of any kind, late pushes and failing renames included, fairness | `TypeOK`, `ForeignStateRejected`, `LocalTipOnMain`, `DivergenceIsGenuine`, `DirtyIsSettled` |
| ActivateFaults | the service, 3 commits, 2 backup names, 2 faults that activation rolls back or kills, fairness | `TypeOK`, `Recoverable`, `SyncNamesMain`, `ReaderSeesOneSnapshot`, `ImplementsSwitch`, `LockIsReleased` |
| ActivateTwo | service and command, 3 commits (one invalid), 1 kill or failed cleanup | `OneHolder`, `ImplementsSwitch` |
| WriteAndPublish | 2 entries, 1 edit and 1 read each (a read as often as one likes), both deployments, 2 faults | `TypeOK`, `NoTemporaryPublished`, `QuietStateValidates`, `SyncedIsPublished` |
| Schedule | 2 remotes, 2 mutations, a cap of 3 ticks, 2 events of any kind (fault, save, command, producer's commit, clock set back), fairness | `TypeOK`, `SavedIsTried`, `OverdueIsReported`, `PendingKeepsItsRemote`, `MarkersAreSettled`, `ContentArrives` |
| Bootstrap | 7 commits (2 acceptable, one for each reason to refuse), 2 faults of any kind, 2 names put in the way, 2 moves of the remote, fairness | `TypeOK`, `WholeOrUnborn`, `FailureLeavesEmpty`, `UserDataSurvives`, `EmptyRootInitializes` |
| Reader | 9 snapshots (2 that validate), 4 typed queries, 3 actions of the reader, 1 lost request, 1 activation, fairness | `TypeOK`, `PagesAnswer`, `TabsReachTheirEntries`, `NothingShownUnsaved`, `OpenEntryGetsRead` |

Why the bounds are enough. In publication, entries meet only in the state tree
and in the set of markers; one entry written twice makes a snapshot, a captured
tree and a later marker all differ, and a third write can come before the markers
of a state found already published are cleared. Two content pushes against two
attempts (the code makes three; the number is a parameter)
reach the exhausted race, and a push before, during and after a recovery. Two
faults give a fault during the recovery from the first. Where others may do anything
to the branch, one fault is enough for the hardest scenario known, a push that lands
late, after the recovery that did not find it, and two moves put a reset before or
after it. In activation,
three commits give two successive swaps, of which one removes the guide and one
keeps `config/`; two backup names give a stale one and a current one.

In the scheduler, two mutations let the second keep a batch from being idle
until the first reaches the cap; two events give a fault during the recovery from
a fault, or settings saved over a pending push; ages beyond the cap are one age.
In the bootstrap, each acceptable commit has a file and two directories, so a
rename fails before, between and after others, and two faults give a failure
whose rollback fails as well. In front of the pages, three actions open an
article, mutate it and leave it again (or come back through the history) while a
snapshot is activated; the first snapshot has an entry the second has not, a
channel only an entry names, and nested channels.

`QuietConflictsAreRaces` says more than it seems to: with no fault so far and
producers who only add valid content, no check of the cycle finds anything, and the
only stops are losing the race in all attempts of one publication, to as many
different commits, and, for a command beside the service, a request's temporary file
(`Beside` is true in the passing runs of StatePublication). That the service alone
never meets one is `QuietStateValidates`.

`SyncedIsPublished` and `OverdueIsReported` each name one exception, which TLC shows
to be needed: the read whose marker had failed (the run RepeatedRead), and the
mutation made during the cycle the service starts with, which waits for the interval
that starts after it.

The run WriteAndPublish treats its two entries as symmetric: its properties are
invariants, and no definition tells the entries apart.

Runs that end in a violation, each a statement of the documentation that the
code does not keep (`findings` in PROJECT.json has the quotations):

| Run | Property | What happens |
| --- | --- | --- |
| LostReplyPull | `StateConflictIsForeign` | the reply to a landed push is lost, the next cycle is a pull, and it takes the instance's own state for a foreign change |
| FailedPushRace | `UnconfirmedIsGenuine` | a push fails, the producer pushes, and recovery stops instead of rebuilding, also after the conflict is acknowledged |
| StrandedActivation | `FailureKeepsSnapshot` | a failed rename out of the live tree is not rolled back |
| RepeatedRead | `SuccessIsMarked` | the marker of a read fails, and the repeated request succeeds without one: the read is not due for publication, and the page says "synced" |

Known weaknesses without a run, found while modelling, each listed as a hazard or
stated here only:

* a comment or favorite whose marker failed is on disk without one, and a repeated
  comment is appended again (core 354);
* a command that publishes while the service writes a state file may list its
  temporary and stop with a conflict (sync 405), or commit it between validation
  and the push;
* the page looks at `last_error` only when there is no marker (server 414–425): "N
  local changes pending" hides that their publication fails, and only
  `plainfeed-sync status` tells. Files of `.plainfeed/` it cannot read count as
  absent (400–413), so it may say "synced" over a damaged one;
* a mutation made during the cycle the service starts with waits for the first tick
  of an interval that starts after that cycle (service 266–268);
* a temporary file a kill left in `state/entries` (core 187) stops every publication
  until somebody removes it; spec/v1.md:120 allows no other file there;
* a backup that could not be removed may have a later name than the one a recovery
  needs (sync 87), and `recover-local` takes the last;
* `force` after a kill between the clearing of markers and of `pending-push.toml`
  pulls and does not settle the pending push;
* a command beside the service may activate between the reader's look at the lock
  and its reads; with two synchronizing processes a failed branch update writes back
  a `sync.toml` older than `main`; two bootstrapping processes share one staging
  directory (296); a failed fetch writes back a `sync.toml` read before the await
  (228);
* a bootstrap that left something behind is refused from then on; markers left in
  an unborn root make every cycle publish first, which the missing branch refuses
  (676), so that initialization is never reached;
* two forms of one article may be answered in either order, and the answer that
  comes second finds its article replaced (`maud.rs` 268): what it did is stored, and
  shown only at the next rendering;
* a read request that is refused under the lock, or lost, is not repeated on the
  same element (`app.js` 8). The script marks an article 900 ms after it came into
  view also when it was scrolled away since, where docs/frontend.md:35 says it
  "remained visible"; and one taller than about one and two thirds of the window never shows
  60 per cent and is not marked at all.

Fairness. `FairSpec` of StatePublication: a started cycle goes on, because it is
one async task that nothing cancels; the remote answers a request it has; a
request being handled is finished. `SF(StartPublish)`: the loop ticks for ever,
and a marker 300 s old makes publication due at every tick
(`state_publication_is_due`, 190), so an idle task with markers and no conflict
publishes sooner or later, however often a pull was chosen before. `FairSpec` of
SnapshotActivation: started processes and requests go on; `SF(RecoverLocal)` is
an assumption about the operator whom docs/operations.md tells to stop
synchronization and run `recover-local`: strong, because a cycle that starts and
finds the lock busy disables it for a moment. Nothing is assumed about
producers, writers, crashes or acknowledgements. `FairSpec` of SyncScheduler: the
supervisor restarts the service, its loop takes a tick or command it has, a
started cycle goes on (one task, no cancellation), and time passes; nothing is
assumed about the command, saves, faults or acknowledgements. `FairSpec` of
RepositoryInit: the loop retries at every tick and a started attempt goes on,
also where a rename cannot succeed. `FairSpec` of ReaderPages: the server answers
each request in the end, the browser takes an answer it has got, an article left
open comes into view and its timer fires; nothing is assumed about the reader,
the lock or synchronization.

Deadlock is checked in every run but two: a data root whose branch is born is no
longer the business of RepositoryInit, and in ReaderPages the reader may stop using
the tab. None of the other models can stop, since the operator, the reader or a
new cycle can always do something.

## 4. What is proved

`StatePublication_proofs.tla`, for every set of entries and every bound:

* `TypeCorrect`: `Spec => []TypeOK`. What has to be added to make it inductive
  (`TypeInv`) is which locals each label of the task has set (`PhaseOK`: past a
  fetch there is a tip, past the candidate there is a `pending-push.toml`) and that
  an activation knows what to put back (`BackupOK`). Commits are only appended, so
  a name that names a commit goes on doing so.
* `MutationsSurvive`: `Spec => []NoLostMutation`. The property is not inductive: to
  clear a marker the task relies on what was true when it took the snapshot and
  built the commit. `MarkerInv` adds that no marker, listed or present, is newer
  than the file on disk; that the commit `pending-push.toml` names holds, for every
  marker it lists, that version or a later one; and that at `ClearSettled` the
  fetched tip does so for the snapshot.
* `LocalHistoryIsRemote`: `Spec => []LocalTipOnMain`. `GraphInv` adds that the
  commits the remote branch has had are closed under ancestors; that a pending or a
  travelling push would put exactly one commit on top of its base; and that a task
  past the push, or one whose push was accepted, has its candidate among them.
  `MarkerInv` rests on it: what is cleared has been on the branch.
* `LocalFastForward` (`FastForwardOnly`) and `DivergedIsRewritten`
  (`[]DivergenceIsGenuine`) from `HistoryInv`: a tip past its audit continues the
  local branch; a build or push has the local branch at its base; a confirmed
  push is behind the tip it was found in; and, unless somebody reset it, the remote
  branch is one line.
* `StateIsOurs` (`[]ForeignStateRejected`) from `OwnInv`: an audited tip and every
  pending push carry a state tree of ours.
* `LiveIsLocal` (`[]LiveMatchesOrLocked`), assuming no rename out of the live tree
  fails, as the run does: `LiveInv` adds what is under the lock, what the backup
  would restore, and that a candidate has its base's content.
* `TrustIsKept` (`[]TrustedTreeMatches`) from `TrustInv`: from the preflight to the
  end of an activation or finalization the recorded tree is the local commit's;
  elsewhere it is, or the local branch already is at the commit `pending-push.toml`
  names, which recovery will record.
* `LandedPushIsTracked` (`[]LandedPushTracked`) from `LandInv`: a request not known to
  be applied has a commit the branch never had; every commit on the branch that
  descends from the pending one has its state tree or a foreign one, so that
  recovery cannot take a landed push for one that did not land; and (`RouteInv`) a
  publication starts only when nothing is pending. It assumes that the remote
  applies no request after the client gave it up ("delay" is not among the faults,
  as in the run). Where one may land late, the record may be gone when it does, and
  the property is not claimed; `MutationsSurvive`, `StateIsOurs` and the
  refinement need no such hypothesis.
* `QuietStopsAreRaces` (`[]QuietConflictsAreRaces`) from `QuietInv`: while nothing has
  failed no check but that of `state/` finds anything, and that one only a request's
  temporary and only where `Beside` holds; and `moves` is at least `attempt`, and one
  more once a push has been refused. The producer pays for every lost attempt.

`StatePublication_refinement.tla`: `PublicationIsOutbox`, `Spec => ImplementsOutbox`.
To `IInv` it adds `TreesWritten`, that no commit has a version the reader has not
written. A commit that reaches the branch is `Publish`, a clearing of markers is
`Settle`, a write and its marker are `Write` and `Acknowledge`; all else stutters.
`DirtyOutbox_proofs.tla`: `OutboxKeeps`, the outbox loses nothing acknowledged.

`SnapshotActivation_proofs.tla`, for any set of processes, commits and faults:
`OneAtATime` (`[]OneHolder`), since the lock exists while a process is between
`TakeLock` and `Unlock`, and `recover-local` removes it only when none is; and
`ActivationTypeCorrect`, which adds that each label knows its commit and its backup.
Under the hypothesis `Alone` (the service is the only process, and neither a rename
out of the live tree nor the removal of a backup fails; kills, other failures and
interrupted rescues are allowed): `AlwaysRecoverable` (`[]Recoverable`),
`RecordFollowsMain` (`[]SyncNamesMain`), `ResponseIsOneSnapshot`
(`[]ReaderSeesOneSnapshot`) and `ActivationIsSwitch` (`Spec => ImplementsSwitch`). One
inductive invariant, `AloneInv`, serves the four:

* `SwapInv`: each area is in one of four conditions (`Untouched`, `Moved`, `Swapped`,
  `Restored`), and which one follows from the place in the loop; while the lock is
  held, no backup but the current one has anything in it;
* `PlanInv`: what the process read about `main` and `sync.toml` is still so;
* `RescueInv`: `recover-local` has picked the only backup, and what it has not moved
  back yet is there or live;
* `RestInv`: without the lock everything is in place and no backup is left;
* `RequestInv`: a request that found no lock is answered before one is taken.

None of the hypotheses can be dropped for all four. A failed rename out leaves the
area in the backup and the lock released (the run StrandedActivation); a backup that
stays behind may be the one a later rescue picks; with two processes and commits,
a failed branch update writes back a `sync.toml` that the other has replaced
(against `SyncNamesMain`), and two activations of the same valid commit meet in one
`staging/<oid>` (against `ImplementsSwitch`, which ActivateTwo therefore checks for
two processes with one valid update only).

`RepositoryInit_proofs.tla`, for every set of commits the remote may offer and
every number of faults, moves and names put in the way: `InitTypeCorrect`,
`BornWhole`, `LeavesEmpty` and `DataKept` (the safety properties of the run
Bootstrap), and `ContractKept`: nothing a commit holds outside the contract ever
stands in the root. One inductive invariant serves all: `Attempt` (what the
locals say about the disk: installed names hold the target, the ones still staged
and the installed ones make up an acceptable commit, and a name about to be
replaced holds somebody's data only if that came late), `Birth` (main and
`sync.toml` only after the last rename) and `Origin` (where a name in the root comes
from, and that an unspoilt root has no other).

`ReaderPages_proofs.tla`, for every set of snapshots and typed queries: `AlwaysAnswers`
(`[]PagesAnswer`) from `Serving`, that the installed data root validates, whatever
request comes; and `ShownIsSaved` (`[]NothingShownUnsaved`) from `Honest`. The
property speaks of the screen; what makes it inductive is that every answer under
way, and every page the history keeps, is covered by the state as well (`Kept`),
that reader state only grows (`Grown`), and that a read request belongs to the
article of its element or to an element that is gone (`ReadOK`).
`TabsReach` (`[]TabsReachTheirEntries`) has two halves. A link comes back:
`percent_decode` is a recursive function, and its value on a channel id of any
length is shown by looking at the smallest position at which it would be wrong
(`SmallestOf`, from the well-foundedness of the naturals); `query_value` then finds
the parameter whole. And a count is what following the tab shows: which entries a
channel has does not depend on the reader's marks, so the feed that was counted and
the one that is served later correspond entry by entry.
`PagesTypeCorrect` (`[]TypeOK`) adds `Tracked`, that the script does not go on watching
an article it has posted, and `Counted`: the comments of an entry together with those
that wait for the server are no more than the reader's actions, which needs the
cardinality of the requests under way.

`SyncScheduler_proofs.tla`, for any remotes, ages and number of events: `RemoteKept`
(`PendingKeepsItsRemote`) from `SameRemote`, which adds that a cycle at a place where it
settles a push has that push's URL and one that is about to make a push has none
pending; and `SaveNotForgotten` (`[]SavedIsTried`) from `Woken`, which adds that
whoever saved has named a remote, so that the forced cycle does read it, or fails to
and leaves an error.
`SchedulerTypeCorrect` (`[]TypeOK`) from `Bounded`: ages stay in their span, and every
new commit is paid for by an event or by a mutation it is the first to show.
`OverdueReported` (`[]OverdueIsReported`) from `Punctual`: when no tick is left to take,
a cycle of the service is past the look at the markers, and those it did not list
are not yet old (`CycleIsFresh`); a cycle that ends otherwise leaves an error. Before
the loop's first cycle it rests on the cycle the service started with, which has
listed what was there by then (`before`).

`ReaderState_proofs.tla`, for any entries, edits and faults and both deployments:
`StateTypeCorrect`; `TemporaryStaysLocal` (`[]NoTemporaryPublished`) from
`OwnTemporary`: on one thread the only temporary files past validation are that of
the request being handled and those a failed write could not remove, until the
operator does; `QuietStateIsValid` (`[]QuietStateValidates`) from the same: with no
fault the request's is the only one there is, and validation never runs then;
`SyncedIsTrue` (`[]SyncedIsPublished`) from `Tracked`: files only grow, so a captured
tree has what every listed marker was made for, and what was answered as a success
is on the remote, or has a marker as new as it, or is a read in `unmarked`. A page
that has passed the markers has seen none, so that what it says still holds when it
says it, whatever the cycle did since.

The assumptions are those named in the modules: that `None`, `Mixed`, `Busy` and
answers differ from the values they stand beside, that bounds and ages are natural
numbers, that snapshots are finite and their identifiers sequences of strings, that
the installed snapshot validates, that the number of attempts and of ticks
remembered is positive, that the first commit is valid and every commit has its
areas. Each proof has a lemma per action or group of actions, and frame lemmas for
the variables a group leaves alone.

Every safety property that a passing run checks, the refinements included, has a
theorem. Only model-checked are:

* liveness (`DirtyIsSettled`, `LockIsReleased`, `MarkersAreSettled`, `ContentArrives`,
  `EmptyRootInitializes`, `OpenEntryGetsRead`), which the prover does not cover;
* `ImplementsSwitch` with two processes, or with a cleanup that fails (ActivateTwo):
  outside `Alone` it holds for that run's commits and not in general, as said above;
* the statements of the runs that end in a violation, which are false.

## 5. Plan

1. StatePublication with DirtyOutbox: modelled, checked, and proved but for liveness.
2. SnapshotActivation with AtomicSwitch: the same, the theorems on recovery for one
   process. To prove: what two processes keep when no commit is fetched twice. To
   add: an editor of `content/` during the fetch.
3. ReaderState, SyncScheduler, RepositoryInit, FeedStore with ReaderPages: modelled,
   checked, and proved but for liveness.
4. A composition of the scheduler with StatePublication, in which the free choice of
   a cycle is the scheduler's: a refinement rather than a larger instance.
5. The settings form (token kept or replaced, origin check) and `write_metadata`'s
   numbered temporaries.

## 6. Not modelled

Wording, layout, Markdown and the status output are pure functions of what they are
given; of rendering only the links, forms and targets are modelled. The settings
form's tokens and validation, the origin check, the parsing of forms and the
environment variables that override settings are left out. The pages' 500s are those
of content that does not validate; a state file that cannot be read, parsed or
written, which fails a page or a mutation in the same way, is not among the inputs.
`git_wasip2` is not in the tree; its fetch,
compare-and-swap push, commit construction and reference update are modelled as
`plainfeed-sync` uses them, atomic and correct, with failure before or after the
effect. File operations other than those named are atomic: `write_metadata`
replaces a file by a rename. Power loss that undoes a rename already made is not
considered. Experiments and scripts are not part of the program.
