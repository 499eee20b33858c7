----------------------------- MODULE ReaderState -----------------------------
(***************************************************************************)
(* The reader's side of the data root, file operation by file operation:   *)
(* a mutation from its POST (route_mutation) to the dirty marker, and a    *)
(* page's look at how synchronization stands (render_sync_summary), next   *)
(* to the publication that validates, captures and clears what it finds.   *)
(*                                                                         *)
(* Abstractions.  A state file is the read mark, which only the first      *)
(* request sets, and a count of the edits (favorite, comments) written to  *)
(* it; each edit changes the file, so a marker is told apart by the bytes  *)
(* it was created for.  The remote side of a publication succeeds or       *)
(* fails as a whole: StatePublication.tla has it in full.  A page that     *)
(* cannot read a file takes it for absent; reads do not fail here.         *)
(***************************************************************************)
EXTENDS Naturals

CONSTANTS
    Entries,        \* entry identifiers
    None,           \* no request, no conflict
    Deployments,    \* who synchronizes: the service itself, a command beside it
    MaxEdits,       \* bound: edits per entry
    MaxFaults,      \* bound: faults of all kinds together
    Faults          \* what may fail

ASSUME DeploymentsAssumption == Deployments \subseteq {"service", "command"}
ASSUME BoundsAssumption == MaxEdits \in Nat /\ MaxFaults \in Nat

VARIABLES
    deployment, \* who synchronizes, for the whole behaviour
    content,    \* entries content/ has a file for
    file,       \* state/entries/<id>.toml
    temp,       \* entries with a temporary file left in state/entries
    dirty,      \* .plainfeed/dirty
    request,    \* the mutation being handled, or None
    page,       \* what the page being rendered looks at next, or what it says
    stage,      \* where publish_state is
    snap,       \* its dirty snapshot
    tree,       \* the state/ tree it captured
    published,  \* the state/ tree on the remote
    conflict,   \* reason in conflict.toml
    faults,
    written,    \* history: each entry as the requests that succeeded left it
    unmarked,   \* history: entries whose read mark was stored and never marked dirty
    unremoved   \* history: entries of which a failed write left a temporary file

store == <<content, file, temp>>
sync == <<stage, snap, tree, published, conflict>>
history == <<written, unmarked, unremoved>>
vars == <<deployment, store, dirty, request, page, sync, faults, history>>

\* The service synchronizes on the thread it answers requests on.
SharedThread == deployment = "service"

States == [read : BOOLEAN, edits : 0..MaxEdits]
Fresh == [read |-> FALSE, edits |-> 0]
Markers == [entry : Entries, of : States]
Trees == [file : [Entries -> States], temp : SUBSET Entries]
Requests ==
    [kind : {"read", "edit"}, entry : Entries, at : {"store", "temp", "renamed"}]

ASSUME NoneAssumption == None \notin STRING /\ None \notin Entries /\ None \notin Requests

Fault(kind) == kind \in Faults /\ faults < MaxFaults /\ faults' = faults + 1

-----------------------------------------------------------------------------
(* The request: mark_read, set_favorite and add_comment *)

\* In the service a request is handled whole, where the cycle awaits something.
MayReceive ==
    /\ request = None /\ page = "none"
    /\ SharedThread => stage \in {"idle", "fetch", "push"}

\* ensure_entry_exists answers 404 for an entry content/ no longer has.
Receive(kind, e) ==
    /\ MayReceive
    /\ e \in content
    /\ kind = "edit" => file[e].edits < MaxEdits
    /\ request' = [kind |-> kind, entry |-> e, at |-> "store"]
    /\ UNCHANGED <<deployment, store, dirty, page, sync, faults, history>>

At(label) == request # None /\ request.at = label

\* mark_read finds the entry read: Ok, nothing is written and nothing marked.
AlreadyRead ==
    /\ At("store") /\ request.kind = "read" /\ file[request.entry].read
    /\ request' = None
    /\ written' = [written EXCEPT ![request.entry].read = TRUE]
    /\ UNCHANGED <<deployment, store, dirty, page, sync, faults, unmarked, unremoved>>

\* Slip: an edit is applied twice, as a comment pushed twice would be.
WantedTwice ==
    LET old == file[request.entry]
    IN  IF request.kind = "read" THEN [old EXCEPT !.read = TRUE]
                                 ELSE [old EXCEPT !.edits = @ + 2]

\* What the request makes of the entry's state.
Wanted ==
    LET old == file[request.entry]
    IN  IF request.kind = "read" THEN [old EXCEPT !.read = TRUE]
                                 ELSE [old EXCEPT !.edits = @ + 1]

CreateTemporary ==
    /\ At("store") /\ ~(request.kind = "read" /\ file[request.entry].read)
    /\ temp' = temp \cup {request.entry}
    /\ request' = [request EXCEPT !.at = "temp"]
    /\ UNCHANGED <<deployment, content, file, dirty, page, sync, faults, history>>

\* The disk is full, say: the request fails.  Whether the temporary file could
\* be removed is not looked at.
WriteFails ==
    /\ At("temp") /\ Fault("write")
    /\ \/ temp' = temp \ {request.entry} /\ UNCHANGED unremoved
       \/ UNCHANGED temp /\ unremoved' = unremoved \cup {request.entry}
    /\ request' = None
    /\ UNCHANGED <<deployment, content, file, dirty, page, sync, written, unmarked>>

Rename ==
    /\ At("temp")
    /\ file' = [file EXCEPT ![request.entry] = Wanted]
    /\ temp' = temp \ {request.entry}
    /\ request' = [request EXCEPT !.at = "renamed"]
    /\ UNCHANGED <<deployment, content, dirty, page, sync, faults, history>>

\* A marker for the entry as it is, with a name of its own.
CreateMarker(e) ==
    /\ dirty' = dirty \cup {[entry |-> e, of |-> file[e]]}
    /\ unmarked' = unmarked \ {e}

Mark ==
    /\ At("renamed")
    /\ CreateMarker(request.entry)
    /\ written' = [written EXCEPT ![request.entry] = file[request.entry]]
    /\ request' = None
    /\ UNCHANGED <<deployment, store, page, sync, faults, unremoved>>

\* The file stays as it is, and nothing says that it has changed.
LeaveUnmarked ==
    /\ unmarked' = IF request.kind = "read" THEN unmarked \cup {request.entry}
                                           ELSE unmarked
    /\ UNCHANGED dirty

\* The request fails, and the file has its new contents all the same; so may
\* the marker, if it could be created and not be written to.
MarkFails ==
    /\ At("renamed") /\ Fault("mark")
    /\ LeaveUnmarked \/ CreateMarker(request.entry)
    /\ request' = None
    /\ UNCHANGED <<deployment, store, page, sync, written, unremoved>>

-----------------------------------------------------------------------------
(* The page: render_sync_summary reads one file after the other *)

AskPage ==
    /\ MayReceive
    /\ page' = "conflict"
    /\ UNCHANGED <<deployment, store, dirty, request, sync, faults, history>>

\* pending-push.toml is there from before the push until the markers are cleared.
PushIsPending == stage \in {"push", "clear"}

\* A conflict, a pending push or a marker is what the page says, and ends it.
\* Of what sync.toml says then only "synced" is of interest.
PageReads ==
    /\ page \notin {"none", "synced"}
    /\ page' = CASE page = "conflict" /\ conflict = None -> "pending"
                 [] page = "pending" /\ ~PushIsPending -> "markers"
                 [] page = "markers" /\ dirty = {} -> "synced"
                 [] OTHER -> "none"
    /\ UNCHANGED <<deployment, store, dirty, request, sync, faults, history>>

PageAnswers ==
    /\ page = "synced"
    /\ page' = "none"
    /\ UNCHANGED <<deployment, store, dirty, request, sync, faults, history>>

-----------------------------------------------------------------------------
(* publish_state, as far as it reads and clears local files *)

\* Slip: a runtime with several threads; the cycle need not await to be left.
MayPublishMeanwhile == TRUE

MayPublish == SharedThread => request = None /\ page = "none"

\* The cycle forgets what it has taken, and holds no tree but the remote's.
EndCycle == stage' = "idle" /\ snap' = {} /\ tree' = published

TakeSnapshot ==
    /\ stage = "idle" /\ MayPublish
    /\ conflict = None /\ dirty # {}
    /\ snap' = dirty
    /\ stage' = "validate"
    /\ UNCHANGED <<deployment, store, dirty, request, page, tree, published, conflict,
                   faults, history>>

\* Slip: only the contents of the state files are looked at.
ValidContents ==
    /\ stage = "validate" /\ MayPublish
    /\ stage' = "fetch"
    /\ UNCHANGED <<deployment, store, dirty, request, page, snap, tree, published,
                   conflict, faults, history>>

\* validate_state: whatever is in state/entries must be <id>.toml.
ValidState ==
    /\ stage = "validate" /\ MayPublish
    /\ temp = {}
    /\ stage' = "fetch"
    /\ UNCHANGED <<deployment, store, dirty, request, page, snap, tree, published,
                   conflict, faults, history>>

InvalidState ==
    /\ stage = "validate" /\ MayPublish
    /\ temp # {}
    /\ conflict' = "invalid state path"
    /\ EndCycle
    /\ UNCHANGED <<deployment, store, dirty, request, page, published, faults, history>>

Fetched ==
    /\ stage = "fetch" /\ MayPublish
    /\ stage' = "capture"
    /\ UNCHANGED <<deployment, store, dirty, request, page, snap, tree, published,
                   conflict, faults, history>>

\* create_state_commit takes all of state/ as it is by now; a tree the remote
\* has already needs no push.
Capture ==
    /\ stage = "capture" /\ MayPublish
    /\ tree' = [file |-> file, temp |-> temp]
    /\ stage' = IF tree' = published THEN "settled" ELSE "push"
    /\ UNCHANGED <<deployment, store, dirty, request, page, snap, published, conflict,
                   faults, history>>

Pushed ==
    /\ stage = "push" /\ MayPublish
    /\ published' = tree
    /\ stage' = "clear"
    /\ UNCHANGED <<deployment, store, dirty, request, page, snap, tree, conflict,
                   faults, history>>

NetworkFails ==
    /\ stage \in {"fetch", "push"} /\ MayPublish
    /\ Fault("network")
    /\ EndCycle
    /\ UNCHANGED <<deployment, store, dirty, request, page, published, conflict, history>>

\* Slip: markers created during the push go as well.
ClearAll ==
    /\ stage \in {"settled", "clear"} /\ MayPublish
    /\ dirty' = {}
    /\ EndCycle
    /\ UNCHANGED <<deployment, store, request, page, published, conflict, faults, history>>

Clear ==
    /\ stage \in {"settled", "clear"} /\ MayPublish
    /\ dirty' = dirty \ snap
    /\ EndCycle
    /\ UNCHANGED <<deployment, store, request, page, published, conflict, faults, history>>

-----------------------------------------------------------------------------
(* Everything else *)

\* An activation changes which entries exist; state of removed ones stays.
Activate(s) ==
    /\ s # content
    /\ SharedThread => request = None /\ page = "none" /\ stage = "idle"
    /\ content' = s
    /\ UNCHANGED <<deployment, file, temp, dirty, request, page, sync, faults, history>>

\* The service is killed, and with it the cycle it was running.
KillService ==
    /\ request # None \/ page # "none" \/ (SharedThread /\ stage # "idle")
    /\ Fault("crash")
    /\ IF At("renamed") THEN LeaveUnmarked ELSE UNCHANGED <<dirty, unmarked>>
    /\ request' = None /\ page' = "none"
    /\ IF SharedThread THEN EndCycle ELSE UNCHANGED <<stage, snap, tree>>
    /\ UNCHANGED <<deployment, store, published, conflict, written, unremoved>>

KillCommand ==
    /\ ~SharedThread /\ stage # "idle"
    /\ Fault("crash")
    /\ EndCycle
    /\ UNCHANGED <<deployment, store, dirty, request, page, published, conflict, history>>

\* The operator removes what validation named, and acknowledges the conflict.
Repair ==
    /\ conflict # None /\ request = None /\ page = "none"
    /\ conflict' = None /\ temp' = {}
    /\ UNCHANGED <<deployment, content, file, dirty, request, page, stage, snap, tree,
                   published, faults, history>>

Init ==
    /\ deployment \in Deployments
    /\ content = Entries /\ temp = {} /\ dirty = {} /\ request = None /\ page = "none"
    /\ file = [e \in Entries |-> Fresh] /\ written = file
    /\ unmarked = {} /\ unremoved = {}
    /\ stage = "idle" /\ snap = {} /\ conflict = None /\ faults = 0
    /\ tree = [file |-> file, temp |-> {}] /\ published = tree

Mutation ==
    \/ \E kind \in {"read", "edit"}, e \in Entries : Receive(kind, e)
    \/ AlreadyRead \/ CreateTemporary \/ WriteFails \/ Rename \/ Mark \/ MarkFails

Rendering == AskPage \/ PageReads \/ PageAnswers

Publication ==
    \/ TakeSnapshot \/ ValidState \/ InvalidState \/ Fetched \/ Capture \/ Pushed
    \/ NetworkFails \/ Clear

Next ==
    \/ Mutation \/ Rendering \/ Publication
    \/ \E s \in SUBSET Entries : Activate(s)
    \/ KillService \/ KillCommand \/ Repair

Spec == Init /\ [][Next]_vars

-----------------------------------------------------------------------------
(* Properties *)

\* Files, markers and the cycle's variables hold values they can have.
TypeOK ==
    /\ deployment \in Deployments
    /\ content \subseteq Entries /\ temp \subseteq Entries
    /\ file \in [Entries -> States] /\ written \in [Entries -> States]
    /\ unmarked \subseteq Entries /\ unremoved \subseteq Entries
    /\ dirty \subseteq Markers /\ snap \subseteq Markers
    /\ request \in Requests \cup {None}
    /\ page \in {"none", "conflict", "pending", "markers", "synced"}
    /\ stage \in {"idle", "validate", "fetch", "capture", "push", "settled", "clear"}
    /\ tree \in Trees /\ published \in Trees
    /\ conflict \in {None, "invalid state path"}
    /\ faults \in 0..MaxFaults

\* When the page says "synced", every mutation answered as a success is on the
\* remote, whatever the reader and the cycle do between the reads the page is
\* made of (render_sync_summary).  One case is known and excepted: a read mark
\* that was stored when its marker failed or the service died, which mark_read
\* takes as done when it is asked again.  SuccessIsMarked is about that case.
SyncedIsPublished ==
    page = "synced" =>
        \A e \in Entries :
            /\ written[e].edits <= published.file[e].edits
            /\ written[e].read => published.file[e].read \/ e \in unmarked

\* Every mutation answered as a success is on the remote or has a marker that
\* makes it due ("Every successful reader-state mutation creates a unique marker
\* under `.plainfeed/dirty/`").  mark_read answers a repeated request without one.
SuccessIsMarked ==
    \A e \in Entries :
        written[e].read => \/ published.file[e].read
                           \/ \E m \in dirty : m.entry = e /\ m.of.read

\* Where the service synchronizes, the temporary file of a write never reaches
\* the remote, where it would make the state of every later clone invalid
\* (Store::validate), unless the file could not be removed after the write had
\* failed.  A command beside the service may capture one.
NoTemporaryPublished == SharedThread => published.temp \subseteq unremoved

\* Where the service synchronizes and nothing fails, validate_state finds nothing
\* to turn down: a request, with its temporary file, is never met half way.
QuietStateValidates == SharedThread /\ faults = 0 => conflict = None
=============================================================================
