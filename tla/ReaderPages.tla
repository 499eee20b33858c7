----------------------------- MODULE ReaderPages -----------------------------
(***************************************************************************)
(* The reader in a browser tab, next to synchronization: pages and         *)
(* fragments the server renders, the links and forms htmx sends from them, *)
(* the script that marks an open article as read, and snapshots activated  *)
(* in the meantime.  Requests are handled in any order and answered in any *)
(* order, and may be lost on either way.                                   *)
(*                                                                         *)
(* The server handles a request in one step: it runs on one thread, and    *)
(* SnapshotActivation.tla has the page that a command's activation         *)
(* overtakes.  The way a mutation reaches the disk is in ReaderState.tla.  *)
(* An article is taken to fit the window, and to stay in view; the files   *)
(* of a reader's own state and the disk to be sound (the 500s of a file    *)
(* that cannot be read or written are left out).                           *)
(***************************************************************************)
EXTENDS FeedStore

CONSTANTS
    Snapshots,      \* what the content producer has published: data roots
    Installed,      \* the snapshot of the first synchronization
    Typed,          \* query strings a reader types or has bookmarked
    MaxActions,     \* bound: links, forms and addresses the reader uses
    MaxFaults,      \* bound: lost requests
    MaxActivations  \* bound: snapshots activated or refused

ASSUME InstalledAssumption == Installed \in Snapshots /\ validate(Installed)
ASSUME SnapshotsAssumption ==
    \A d \in Snapshots :
        /\ IsFiniteSet(d.files) /\ d.catalog \in Seq(Seq(STRING))
        /\ \A f \in d.files : f.channels \subseteq Seq(STRING)
ASSUME BoundsAssumption == {MaxActions, MaxFaults, MaxActivations} \subseteq Nat

VARIABLES
    data,       \* content/ and config/
    state,      \* state/entries, Fresh where there is no file
    lock,       \* .plainfeed/update.lock
    activations,
    screen,     \* the document in the tab and what its #reader-surface shows
    tracking,   \* where the script is with the article shown
    requests,   \* requests of the tab, sent or answered
    actions,
    faults

sync == <<data, lock, activations>>
tab == <<screen, tracking>>
counts == <<actions, faults>>
vars == <<state, sync, tab, requests, counts>>

Ids == {f.id : f \in UNION {d.files : d \in Snapshots}}
Fresh == [read |-> FALSE, favorite |-> FALSE, comments |-> 0]
States == [read : BOOLEAN, favorite : BOOLEAN, comments : 0..MaxActions]

\* A form or the script belongs to the element it is in; a link of the feed or
\* of an article replaces what #reader-surface shows, whatever that is.
Surface(doc) == <<"surface", doc>>
Element(n) == <<"element", n>>
Request(what, arg, entry, target) ==
    [what |-> what, arg |-> arg, entry |-> entry, target |-> target, answer |-> None]

Blank == [kind |-> "blank"]

\* What a form of an article can be answered with.
Articles == [kind : {"entry"}, id : Ids, unread : BOOLEAN, favorite : BOOLEAN, comments : Nat]
ASSUME AnswerAssumption == None \notin [status : Nat, shows : Articles \cup {Blank}]

-----------------------------------------------------------------------------
(* The server: Reader::handle_request *)

EntryView(e, st) ==
    [kind |-> "entry", id |-> e, unread |-> ~st[e].read,
     favorite |-> st[e].favorite, comments |-> st[e].comments]

FeedView(d, st, query) ==
    [kind |-> "feed", of |-> d,
     view |-> build_feed_view(entries(d, st), channels(d), query_value(query, "channel"))]

EntryExists(d, e) == \E f \in collect_markdown_files(d) : f.id = e

Status(r) ==
    IF lock THEN 503
    ELSE IF ~EntriesParse(data) \/ (r.what = "feed" /\ ~CatalogValid(data)) THEN 500
    ELSE IF r.what # "feed" /\ ~EntryExists(data, r.entry) THEN 404
    ELSE IF r.what = "comment" /\ r.arg = "blank" THEN 400
    ELSE IF r.what = "read" THEN 204 ELSE 200

Mutated(r) ==
    CASE r.what = "read" -> [state EXCEPT ![r.entry].read = TRUE]
      [] r.what = "favorite" -> [state EXCEPT ![r.entry].favorite = r.arg]
      [] r.what = "comment" -> [state EXCEPT ![r.entry].comments = @ + 1]
      [] OTHER -> state

Handle(r) ==
    LET status == Status(r)
    IN  /\ r \in requests /\ r.answer = None
        /\ state' = IF status \in {200, 204} THEN Mutated(r) ELSE state
        /\ requests' = (requests \ {r}) \cup
              {[r EXCEPT !.answer =
                  [status |-> status,
                   shows |-> IF status # 200 THEN Blank
                             ELSE IF r.what = "feed" THEN FeedView(data, state, r.arg)
                             ELSE EntryView(r.entry, state')]]}
        /\ UNCHANGED <<sync, tab, counts>>

-----------------------------------------------------------------------------
(* The browser: links, addresses and forms *)

Act == actions < MaxActions /\ actions' = actions + 1

Send(r) ==
    /\ Act
    /\ r \notin requests
    /\ requests' = requests \cup {r}
    /\ UNCHANGED <<state, sync, tab, faults>>

Shows(kind) == screen.shows.kind = kind

\* The title of an article in the feed: the fragment, for #reader-surface.
OpenEntry ==
    /\ Shows("feed")
    /\ \E e \in screen.shows.view.entries :
          Send(Request("entry", None, e.id, Surface(screen.doc)))

\* A channel tab replaces #feed-shell, which leaves with the feed.
OpenTab ==
    /\ Shows("feed")
    /\ \E t \in screen.shows.view.tabs :
          Send(Request("feed", t.link, None, Element(screen.element)))

\* Back to the feed of an article that was loaded by its address.  Where htmx
\* has made or marked the history entry, the script goes back instead: GoBack.
BackToFeed ==
    /\ Shows("entry") /\ ~screen.htmx
    /\ Send(Request("feed", <<>>, None, Surface(screen.doc)))

\* An address: a whole document, unless the reader changes his mind.
Visit(r) ==
    /\ Act
    /\ requests' = {q \in requests : q.target # None} \cup {r}
    /\ UNCHANGED <<state, sync, tab, faults>>
LoadFeed == \E query \in Typed : Visit(Request("feed", query, None, None))
LoadEntry == \E e \in Ids : Visit(Request("entry", None, e, None))

\* The forms of an article, each with the value it was rendered with, and each
\* with one request at a time.
ToggleFavorite ==
    /\ Shows("entry")
    /\ Send(Request("favorite", ~screen.shows.favorite, screen.shows.id,
                    Element(screen.element)))
Comment ==
    /\ Shows("entry")
    /\ \A r \in requests : r.what = "comment" => r.target # Element(screen.element)
    /\ \E text \in {"text", "blank"} :
          Send(Request("comment", text, screen.shows.id, Element(screen.element)))

-----------------------------------------------------------------------------
(* The browser: answers *)

Answered(r) == r \in requests /\ r.answer # None

\* Slip: the script looks for articles when the document is loaded only.
WatchedOnLoad(shows, loaded) ==
    IF loaded /\ shows.kind = "entry" /\ shows.unread THEN "observed" ELSE "none"

\* observeUnread, on DOMContentLoaded and htmx:afterSwap.
Watched(shows, loaded) ==
    IF shows.kind = "entry" /\ shows.unread THEN "observed" ELSE "none"

\* Slip: the timer of a replaced article is not told apart from the new one's.
ShowUnderTimer(shows, back) ==
    /\ screen' = [screen EXCEPT !.element = @ + 1, !.shows = shows, !.back = back,
                                !.htmx = @ \/ back # screen.back]
    /\ tracking' = IF tracking = "none" THEN Watched(shows, FALSE) ELSE tracking

\* Every element that comes into the document has a number of its own.  Before
\* it pushes a page htmx marks the one that is left, so that a page its history
\* brings back is marked too.
Show(shows, back) ==
    /\ screen' = [screen EXCEPT !.element = @ + 1, !.shows = shows, !.back = back,
                                !.htmx = @ \/ back # screen.back]
    /\ tracking' = Watched(shows, FALSE)

\* A new document leaves the old one's requests to the server, and their
\* answers to nobody.
Load(r) ==
    /\ Answered(r) /\ r.target = None
    /\ screen' = [doc |-> screen.doc + 1, element |-> screen.element + 1,
                  shows |-> r.answer.shows, back |-> <<>>, htmx |-> FALSE]
    /\ tracking' = Watched(r.answer.shows, TRUE)
    /\ requests' = requests \ {r}
    /\ UNCHANGED <<state, sync, counts>>

Attached(r) == r.target \in {Surface(screen.doc), Element(screen.element)}

\* htmx swaps in a page of status 200, unless its target has been replaced.
Swap(r) ==
    /\ Answered(r) /\ r.what # "read" /\ r.target # None
    /\ IF Attached(r) /\ r.answer.status = 200
       THEN Show(r.answer.shows, IF r.what \in {"feed", "entry"}
                                 THEN Append(screen.back, screen.shows) ELSE screen.back)
       ELSE UNCHANGED tab
    /\ requests' = requests \ {r}
    /\ UNCHANGED <<state, sync, counts>>

\* The tab's history: what was replaced comes back as it was.
GoBack ==
    /\ screen.back # <<>> /\ Act
    /\ Show(screen.back[Len(screen.back)], SubSeq(screen.back, 1, Len(screen.back) - 1))
    /\ UNCHANGED <<state, sync, requests, faults>>

Lose(r) ==
    /\ r \in requests
    /\ faults < MaxFaults /\ faults' = faults + 1
    /\ requests' = requests \ {r}
    /\ tracking' = IF r.what = "read" /\ Attached(r) THEN "failed" ELSE tracking
    /\ UNCHANGED <<state, sync, screen, actions>>

-----------------------------------------------------------------------------
(* The browser: the script that marks an article as read *)

\* 60 per cent of it are in view: it is no longer observed, and the timer runs.
ComeIntoView ==
    /\ tracking = "observed"
    /\ tracking' = "timer"
    /\ UNCHANGED <<state, sync, screen, requests, counts>>

\* A replaced article is not connected: its timer is gone with tracking.
TimerFires ==
    /\ tracking = "timer"
    /\ tracking' = "posted"
    /\ requests' = requests \cup
          {Request("read", None, screen.shows.id, Element(screen.element))}
    /\ UNCHANGED <<state, sync, screen, counts>>

\* Slip: the script takes any answer for success.
ShowReadAlways(r) ==
    /\ Answered(r) /\ r.what = "read"
    /\ IF Attached(r) THEN screen' = [screen EXCEPT !.shows.unread = FALSE]
                      ELSE UNCHANGED screen
    /\ requests' = requests \ {r}
    /\ UNCHANGED <<state, sync, tracking, counts>>

ShowRead(r) ==
    /\ Answered(r) /\ r.what = "read"
    /\ IF ~Attached(r) THEN UNCHANGED tab
       ELSE IF r.answer.status = 204
       THEN screen' = [screen EXCEPT !.shows.unread = FALSE] /\ UNCHANGED tracking
       ELSE tracking' = "failed" /\ UNCHANGED screen
    /\ requests' = requests \ {r}
    /\ UNCHANGED <<state, sync, counts>>

-----------------------------------------------------------------------------
(* Synchronization *)

TakeLock ==
    /\ ~lock /\ activations < MaxActivations
    /\ activations' = activations + 1
    /\ lock' = TRUE
    /\ UNCHANGED <<state, data, tab, requests, counts>>

\* Whatever the producer publishes is staged, and activated once it validates.
Activate ==
    /\ lock
    /\ \E d \in Snapshots : validate(d) /\ data' = d
    /\ UNCHANGED <<state, lock, activations, tab, requests, counts>>

ReleaseLock ==
    /\ lock /\ lock' = FALSE
    /\ UNCHANGED <<state, data, activations, tab, requests, counts>>

-----------------------------------------------------------------------------
Init ==
    /\ data = Installed
    /\ state = [e \in Ids |-> Fresh]
    /\ lock = FALSE /\ activations = 0
    /\ screen = [doc |-> 0, element |-> 0, shows |-> Blank, back |-> <<>>,
                 htmx |-> FALSE]
    /\ tracking = "none"
    /\ requests = {}
    /\ actions = 0 /\ faults = 0

Reader ==
    OpenEntry \/ OpenTab \/ BackToFeed \/ GoBack \/ LoadFeed \/ LoadEntry \/ ToggleFavorite \/ Comment

Next ==
    \/ Reader
    \/ \E r \in requests : Handle(r) \/ Load(r) \/ Swap(r) \/ ShowRead(r) \/ Lose(r)
    \/ ComeIntoView \/ TimerFires
    \/ TakeLock \/ Activate \/ ReleaseLock

Spec == Init /\ [][Next]_vars

\* The server answers, the browser takes the answer, an article left open comes
\* into view.  Nothing is assumed of the reader or of synchronization.
FairSpec ==
    /\ Spec
    /\ WF_vars(\E r \in requests : Handle(r))
    /\ WF_vars(\E r \in requests : Load(r) \/ Swap(r) \/ ShowRead(r))
    /\ WF_vars(ComeIntoView) /\ WF_vars(TimerFires)

-----------------------------------------------------------------------------
(* Properties *)

\* Type correctness.  The script watches only an article that is shown as
\* unread, and posts for no other.
TypeOK ==
    /\ data \in Snapshots /\ state \in [Ids -> States] /\ lock \in BOOLEAN
    /\ tracking \in {"none", "observed", "timer", "posted", "failed"}
    /\ tracking \in {"observed", "timer"} => Shows("entry") /\ screen.shows.unread
    /\ \A r \in requests : r.what = "read" /\ Attached(r) => r.entry = screen.shows.id
    /\ actions \in 0..MaxActions /\ faults \in 0..MaxFaults
    /\ activations \in 0..MaxActivations

\* A snapshot that Store::validate lets through can be served: whatever the
\* order of activations, links, addresses and mutations, no request ends in
\* the 500 of server_error.
PagesAnswer == \A r \in requests : r.answer # None => r.answer.status # 500

\* In every feed that is shown, also an old one: each channel an entry names has
\* a tab; the tab's link, decoded as the server will, selects that very channel;
\* its count is the number of entries following it shows.
TabsReachTheirEntries ==
    Shows("feed") =>
        LET es == entries(screen.shows.of, state)
            tabs == screen.shows.view.tabs
        IN  /\ \A e \in es : \A c \in e.channels : \E t \in tabs : t.channel = c
            /\ \A t \in tabs :
                  LET selected == query_value(t.link, "channel")
                  IN  /\ selected = t.channel
                      /\ t.count = Cardinality({e \in es : selected \in e.channels \cup {None}})

\* What is shown tells of no read mark and no comment that the store does not have.
Saved(shows) ==
    CASE shows.kind = "entry" -> /\ shows.unread \/ state[shows.id].read
                                 /\ shows.comments <= state[shows.id].comments
      [] shows.kind = "feed" -> \A e \in shows.view.entries : e.unread \/ state[e.id].read
      [] OTHER -> TRUE

\* Whatever is lost, refused, late or of an old element: neither the page nor
\* anything its history brings back claims what was not stored (route_mutation,
\* observer, htmx swaps and its history snapshots).
NothingShownUnsaved ==
    Saved(screen.shows) /\ \A i \in DOMAIN screen.back : Saved(screen.back[i])

\* An unread article that stays open is stored as read, unless its request is
\* refused or lost: the script does not try again on the same element.  Every
\* element counts, loaded, swapped in by htmx or brought back from the history.
OpenEntryGetsRead ==
    \A e \in Ids :
        LET Open == Shows("entry") /\ screen.shows.id = e
        IN  Open /\ screen.shows.unread ~> ~Open \/ state[e].read \/ tracking = "failed"
=============================================================================
