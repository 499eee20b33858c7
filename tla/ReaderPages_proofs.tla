------------------------- MODULE ReaderPages_proofs -------------------------
(***************************************************************************)
(* Proofs about ReaderPages, for every set of snapshots and typed query    *)
(* strings, and any number of actions, lost requests and activations.      *)
(***************************************************************************)
EXTENDS ReaderPages, FiniteSetTheorems, SequenceTheorems, TLAPS

\* What handling a request relies on: the records it rewrites, and a data root
\* that validated.
Shape(r) == r = [what |-> r.what, arg |-> r.arg, entry |-> r.entry,
                 target |-> r.target, answer |-> r.answer]
Serving ==
    /\ validate(data)
    /\ \A r \in requests : Shape(r)
    /\ PagesAnswer

LEMMA RequestShape ==
    ASSUME NEW what, NEW arg, NEW entry, NEW target
    PROVE  /\ Shape(Request(what, arg, entry, target))
           /\ Request(what, arg, entry, target).answer = None
           /\ Request(what, arg, entry, target).what = what
           /\ Request(what, arg, entry, target).entry = entry
           /\ Request(what, arg, entry, target).target = target
  BY DEF Shape, Request

\* Who changes the data root, and where requests come from.
LEMMA RequestsFrame ==
    ASSUME Next
    PROVE  \/ UNCHANGED data /\ requests' \subseteq requests
           \/ /\ UNCHANGED data
              /\ \E what, arg, entry, target :
                    requests' \subseteq requests \cup {Request(what, arg, entry, target)}
           \/ \E r \in requests : Handle(r)
           \/ Activate
  <1>1. CASE OpenEntry
    BY <1>1 DEF OpenEntry, Send, sync
  <1>2. CASE OpenTab
    BY <1>2 DEF OpenTab, Send, sync
  <1>3. CASE BackToFeed
    BY <1>3 DEF BackToFeed, Send, sync
  <1>4. CASE GoBack
    BY <1>4 DEF GoBack, sync
  <1>5. CASE LoadFeed
    BY <1>5 DEF LoadFeed, Visit, sync
  <1>6. CASE LoadEntry
    BY <1>6 DEF LoadEntry, Visit, sync
  <1>7. CASE ToggleFavorite
    BY <1>7 DEF ToggleFavorite, Send, sync
  <1>8. CASE Comment
    BY <1>8 DEF Comment, Send, sync
  <1>9. ASSUME NEW r \in requests, Load(r) \/ Swap(r) \/ ShowRead(r) \/ Lose(r)
        PROVE  UNCHANGED data /\ requests' \subseteq requests
    BY <1>9 DEF Load, Swap, ShowRead, Lose, sync
  <1>10. CASE ComeIntoView
    BY <1>10 DEF ComeIntoView, sync
  <1>11. CASE TimerFires
    BY <1>11 DEF TimerFires, sync
  <1>12. CASE TakeLock \/ ReleaseLock
    BY <1>12 DEF TakeLock, ReleaseLock
  <1> QED
    BY <1>1, <1>2, <1>3, <1>4, <1>5, <1>6, <1>7, <1>8, <1>9, <1>10, <1>11, <1>12
    DEF Next, Reader

LEMMA ServingStep ==
    ASSUME Serving, Next
    PROVE  Serving'
  <1>1. CASE UNCHANGED data /\ requests' \subseteq requests
    BY <1>1 DEF Serving, PagesAnswer, Shape, validate
  <1>2. ASSUME UNCHANGED data,
               NEW what, NEW arg, NEW entry, NEW target,
               requests' \subseteq requests \cup {Request(what, arg, entry, target)}
        PROVE  Serving'
    BY <1>2, RequestShape DEF Serving, PagesAnswer, Shape, validate
  <1>3. ASSUME NEW r \in requests, Handle(r)
        PROVE  Serving'
    <2>1. PICK shows :
             requests' = (requests \ {r}) \cup
                {[r EXCEPT !.answer = [status |-> Status(r), shows |-> shows]]}
      BY <1>3 DEF Handle
    <2>2. Status(r) # 500
      BY DEF Serving, validate, Status
    <2> DEFINE q == [r EXCEPT !.answer = [status |-> Status(r), shows |-> shows]]
    <2>3. Shape(q) /\ q.answer.status = Status(r)
      BY DEF Serving, Shape
    <2>4. UNCHANGED data
      BY <1>3 DEF Handle, sync
    <2> QED
      BY <2>1, <2>2, <2>3, <2>4 DEF Serving, PagesAnswer, Shape, validate
  <1>4. CASE Activate
    BY <1>4 DEF Activate, Serving, PagesAnswer, Shape, validate
  <1> QED
    BY <1>1, <1>2, <1>3, <1>4, RequestsFrame

\* Whatever snapshots the producer publishes: what validates can be served, in
\* any order of activations and requests.
THEOREM AlwaysAnswers == Spec => []PagesAnswer
  <1>1. Init => Serving
    BY InstalledAssumption DEF Init, Serving, PagesAnswer
  <1>2. Serving /\ [Next]_vars => Serving'
    <2>1. CASE UNCHANGED vars
      BY <2>1 DEF vars, sync, Serving, PagesAnswer, Shape, validate
    <2> QED
      BY <2>1, ServingStep
  <1>3. Serving => PagesAnswer
    BY DEF Serving
  <1> QED
    BY <1>1, <1>2, <1>3, PTL DEF Spec
-----------------------------------------------------------------------------
(* NothingShownUnsaved *)

StateShape(st) ==
    /\ st = [e \in Ids |-> [read |-> st[e].read, favorite |-> st[e].favorite,
                            comments |-> st[e].comments]]
    /\ \A e \in Ids : st[e].comments \in Nat

\* Reader state only grows: a read mark stays, and so do comments.
Grown(old, new) ==
    \A e \in Ids : (old[e].read => new[e].read) /\ old[e].comments <= new[e].comments

EntryFields == {"kind", "id", "unread", "favorite", "comments"}

\* A feed was rendered from a snapshot that can be served, whatever the state was.
Rendered(shows) ==
    \E d \in Snapshots : validate(d) /\ \E st, query : shows = FeedView(d, st, query)

\* Saved, of a page about entries there are, when the state is st.
Kept(st, shows) ==
    /\ shows.kind \in {"blank", "entry", "feed"}
    /\ shows.kind = "entry" =>
          /\ shows = [f \in EntryFields |-> shows[f]]
          /\ shows.id \in Ids /\ shows.comments \in Nat
          /\ shows.unread \/ st[shows.id].read
          /\ shows.comments <= st[shows.id].comments
    /\ shows.kind = "feed" =>
          /\ Rendered(shows)
          /\ \A e \in shows.view.entries : e.id \in Ids /\ (e.unread \/ st[e.id].read)

ScreenOK(st, scr) ==
    /\ scr = [doc |-> scr.doc, element |-> scr.element,
              shows |-> scr.shows, back |-> scr.back,
              htmx |-> scr.htmx]
    /\ scr.element \in Nat
    /\ Kept(st, scr.shows)
    /\ \E S : scr.back \in Seq(S) /\ \A shows \in S : Kept(st, shows)

\* A read request belongs to an element that came no later than the present one,
\* and to the article in it.
ReadOK(scr, r) ==
    \E k \in Nat :
        /\ r.target = Element(k) /\ k <= scr.element
        /\ k = scr.element => scr.shows.kind = "entry" /\ scr.shows.id = r.entry

RequestOK(st, scr, r) ==
    /\ Shape(r)
    /\ r.what = "read" => ReadOK(scr, r)
    /\ r.answer # None =>
          /\ Kept(st, r.answer.shows)
          /\ r.what = "read" /\ r.answer.status = 204
                => r.entry \in Ids /\ st[r.entry].read

Honest ==
    /\ data \in Snapshots
    /\ StateShape(state)
    /\ ScreenOK(state, screen)
    /\ tracking \in {"observed", "timer"} => screen.shows.kind = "entry"
    /\ \A r \in requests : RequestOK(state, screen, r)

LEMMA KeptIsSaved ==
    ASSUME NEW shows, Kept(state, shows)
    PROVE  Saved(shows)
  <1>1. CASE shows.kind = "entry"
    BY <1>1 DEF Kept, Saved
  <1>2. CASE shows.kind = "feed"
    <2>1. shows.kind # "entry"
      BY <1>2
    <2> QED
      BY <1>2, <2>1 DEF Kept, Saved
  <1>3. CASE shows.kind = "blank"
    <2>1. shows.kind # "entry" /\ shows.kind # "feed"
      BY <1>3
    <2> QED
      BY <2>1 DEF Saved
  <1> QED
    BY <1>1, <1>2, <1>3 DEF Kept

\* What was kept stays kept while the state grows.
LEMMA KeptStays ==
    ASSUME NEW old, NEW new, StateShape(old), StateShape(new), Grown(old, new),
           NEW shows, Kept(old, shows)
    PROVE  Kept(new, shows)
  <1>1. ASSUME shows.kind = "entry"
        PROVE  /\ shows.unread \/ new[shows.id].read
               /\ shows.comments <= new[shows.id].comments
    <2>1. shows.id \in Ids /\ shows.comments \in Nat
      BY <1>1 DEF Kept
    <2>2. shows.comments <= old[shows.id].comments /\ (shows.unread \/ old[shows.id].read)
      BY <1>1 DEF Kept
    <2>3. old[shows.id].comments \in Nat /\ new[shows.id].comments \in Nat
      BY <2>1 DEF StateShape
    <2>4. old[shows.id].comments <= new[shows.id].comments
      BY <2>1 DEF Grown
    <2>5. old[shows.id].read => new[shows.id].read
      BY <2>1 DEF Grown
    <2>6. shows.comments <= new[shows.id].comments
      BY <2>1, <2>2, <2>3, <2>4
    <2> QED
      BY <2>2, <2>5, <2>6
  <1>2. ASSUME shows.kind = "feed", NEW e \in shows.view.entries
        PROVE  e.id \in Ids /\ (e.unread \/ new[e.id].read)
    BY <1>2, Zenon DEF Kept, Grown
  <1> QED
    BY <1>1, <1>2, Zenon DEF Kept

\* A request stays in order while the state grows and the element on the screen
\* is the same or a newer one.
LEMMA RequestStays ==
    ASSUME NEW old, NEW new, StateShape(old), StateShape(new), Grown(old, new),
           NEW scr, NEW scr1, scr.element \in Nat, scr1.element \in Nat,
           \/ scr.element < scr1.element
           \/ /\ scr.element = scr1.element
              /\ scr.shows.kind = "entry" =>
                    scr1.shows.kind = "entry" /\ scr1.shows.id = scr.shows.id,
           NEW r, RequestOK(old, scr, r)
    PROVE  RequestOK(new, scr1, r)
  <1>1. r.what = "read" => ReadOK(scr1, r)
    BY DEF RequestOK, ReadOK
  <1>2. r.answer # None => Kept(new, r.answer.shows)
    BY KeptStays DEF RequestOK
  <1> QED
    BY <1>1, <1>2 DEF RequestOK, Grown

\* Field updates, for the provers.
LEMMA ReadUpdate ==
    ASSUME NEW a, NEW b, NEW c, NEW v
    PROVE  [[read |-> a, favorite |-> b, comments |-> c] EXCEPT !.read = v]
              = [read |-> v, favorite |-> b, comments |-> c]
  <1> DEFINE s == [read |-> a, favorite |-> b, comments |-> c]
  <1>1. s = [read |-> a, favorite |-> b, comments |-> c]
    OBVIOUS
  <1> HIDE DEF s
  <1>2. [s EXCEPT !.read = v] = [read |-> v, favorite |-> b, comments |-> c]
    BY <1>1, SMTT(60)
  <1> QED
    BY <1>2 DEF s

LEMMA ReadSet ==
    ASSUME NEW s, NEW a, NEW b, NEW c, s = [read |-> a, favorite |-> b, comments |-> c]
    PROVE  [s EXCEPT !.read = TRUE] = [read |-> TRUE, favorite |-> b, comments |-> c]
  BY ReadUpdate, Zenon

\* The server: what a mutation makes of the state, and what its answer shows.
LEMMA MutatedByRead ==
    ASSUME NEW r, StateShape(state), r.what = "read"
    PROVE  Mutated(r) = [e \in Ids |-> IF e = r.entry
                                      THEN [read |-> TRUE, favorite |-> state[e].favorite,
                                            comments |-> state[e].comments]
                                      ELSE state[e]]
  <1>1. Mutated(r) = [state EXCEPT ![r.entry].read = TRUE]
    BY DEF Mutated
  <1> DEFINE s == state[r.entry]
  <1>2. Mutated(r) = [e \in Ids |-> IF e = r.entry THEN [s EXCEPT !.read = TRUE] ELSE state[e]]
    BY <1>1, Zenon DEF StateShape
  <1>3. ASSUME r.entry \in Ids
        PROVE  [s EXCEPT !.read = TRUE]
                  = [read |-> TRUE, favorite |-> s.favorite, comments |-> s.comments]
    <2>1. s = [read |-> s.read, favorite |-> s.favorite, comments |-> s.comments]
      BY <1>3 DEF StateShape
    <2> HIDE DEF s
    <2> QED
      BY <2>1, ReadSet, Zenon
  <1> QED
    BY <1>2, <1>3

LEMMA MutatedGrows ==
    ASSUME NEW r, StateShape(state), r.what \in {"read", "favorite", "comment"} => r.entry \in Ids
    PROVE  /\ StateShape(Mutated(r)) /\ Grown(state, Mutated(r))
           /\ r.what = "read" => Mutated(r)[r.entry].read
  <1>1. CASE r.what = "read"
    <2> DEFINE new == Mutated(r)
    <2>2. new = [e \in Ids |-> IF e = r.entry
                               THEN [read |-> TRUE, favorite |-> state[e].favorite,
                                     comments |-> state[e].comments]
                               ELSE state[e]]
      BY <1>1, MutatedByRead
    <2> HIDE DEF new
    <2>3. StateShape(new)
      BY <1>1, <2>2 DEF StateShape
    <2>4. new[r.entry].read
      BY <1>1, <2>2
    <2>5. Grown(state, new)
      BY <2>2 DEF StateShape, Grown
    <2> QED
      BY <2>3, <2>4, <2>5 DEF new
  <1>2. CASE r.what = "favorite"
    <2>1. r.what # "read"
      BY <1>2
    <2>2. Mutated(r) = [state EXCEPT ![r.entry].favorite = r.arg]
      BY <1>2, <2>1 DEF Mutated
    <2> QED
      BY <1>2, <2>2 DEF StateShape, Grown
  <1>3. CASE r.what = "comment"
    <2>1. r.what # "read" /\ r.what # "favorite"
      BY <1>3
    <2>2. Mutated(r) = [state EXCEPT ![r.entry].comments = @ + 1]
      BY <1>3, <2>1 DEF Mutated
    <2> QED
      BY <1>3, <2>2 DEF StateShape, Grown
  <1>4. CASE r.what \notin {"read", "favorite", "comment"}
    <2>1. r.what # "read" /\ r.what # "favorite" /\ r.what # "comment"
      BY <1>4
    <2>2. Mutated(r) = state
      BY <2>1 DEF Mutated
    <2> QED
      BY <1>4, <2>2 DEF StateShape, Grown
  <1> QED
    BY <1>1, <1>2, <1>3, <1>4

LEMMA ExistingEntry ==
    ASSUME NEW e, data \in Snapshots, EntryExists(data, e)
    PROVE  e \in Ids
  BY DEF EntryExists, Ids, collect_markdown_files

LEMMA FeedKept ==
    ASSUME NEW query, NEW shows, shows = FeedView(data, state, query),
           data \in Snapshots, validate(data)
    PROVE  Kept(state, shows)
  <1>1. shows.kind = "feed"
    BY DEF FeedView
  <1>2. ASSUME NEW e \in shows.view.entries
        PROVE  e.id \in Ids /\ (e.unread \/ state[e.id].read)
    <2>1. PICK x \in entries(data, state) : e = [id |-> x.id, unread |-> ~x.state.read]
      BY DEF FeedView, build_feed_view, Visible
    <2>2. PICK f \in collect_markdown_files(data) : x.id = f.id /\ x.state = state[f.id]
      BY <2>1 DEF entries
    <2>3. f.id \in Ids
      BY <2>2 DEF Ids, collect_markdown_files
    <2> QED
      BY <2>1, <2>2, <2>3
  <1>3. Rendered(shows)
    BY DEF Rendered
  <1> QED
    BY <1>1, <1>2, <1>3 DEF Kept

LEMMA EntryKept ==
    ASSUME NEW st, NEW e \in Ids, StateShape(st)
    PROVE  Kept(st, EntryView(e, st))
  <1> DEFINE s == EntryView(e, st)
  <1>1. /\ s.kind = "entry" /\ s.id = e
        /\ s.unread = ~st[e].read /\ s.comments = st[e].comments
    BY DEF EntryView
  <1>2. s = [f \in EntryFields |-> s[f]]
    BY DEF EntryView, EntryFields
  <1>3. st[e].comments \in Nat
    BY DEF StateShape
  <1> HIDE DEF s
  <1>4. s.unread \/ st[s.id].read
    BY <1>1
  <1> QED
    BY <1>1, <1>2, <1>3, <1>4 DEF Kept, s

\* The server, with the answer it gives.
LEMMA HandleHonest ==
    ASSUME Honest, NEW r \in requests, Handle(r)
    PROVE  Honest'
  <1>1. StateShape(state') /\ Grown(state, state')
    <2>1. CASE Status(r) \in {200, 204}
      <3>1. r.what # "feed" => r.entry \in Ids
        BY <2>1, ExistingEntry DEF Status, Honest
      <3> QED
        BY <2>1, <3>1, MutatedGrows DEF Handle, Honest
    <2>2. CASE Status(r) \notin {200, 204}
      BY <2>2 DEF Handle, Honest, StateShape, Grown
    <2> QED
      BY <2>1, <2>2
  <1> DEFINE shows == IF Status(r) # 200 THEN Blank
                      ELSE IF r.what = "feed" THEN FeedView(data, state, r.arg)
                      ELSE EntryView(r.entry, state')
             q == [r EXCEPT !.answer = [status |-> Status(r), shows |-> shows]]
  <1>2. requests' = (requests \ {r}) \cup {q} /\ UNCHANGED <<screen, tracking, data>>
    BY DEF Handle, tab, sync
  <1>3. Kept(state', shows)
    <2>1. CASE Status(r) # 200
      BY <2>1 DEF Kept, Blank
    <2>2. CASE Status(r) = 200 /\ r.what = "feed"
      <3>1. Kept(state, FeedView(data, state, r.arg))
        BY <2>2, FeedKept DEF Honest, Status, validate
      <3> QED
        BY <1>1, <2>2, <3>1, KeptStays DEF Honest
    <2>3. CASE Status(r) = 200 /\ r.what # "feed"
      <3>1. r.entry \in Ids
        BY <2>3, ExistingEntry DEF Status, Honest
      <3> QED
        BY <1>1, <2>3, <3>1, EntryKept
    <2> QED
      BY <2>1, <2>2, <2>3
  <1>4. r.what = "read" /\ Status(r) = 204 => r.entry \in Ids /\ state'[r.entry].read
    BY ExistingEntry, MutatedGrows DEF Honest, Status, Handle
  <1> HIDE DEF shows
  <1>5. RequestOK(state', screen', q)
    <2>1. /\ Shape(q) /\ q.what = r.what /\ q.entry = r.entry /\ q.target = r.target
          /\ q.answer.shows = shows /\ q.answer.status = Status(r)
      BY DEF Honest, RequestOK, Shape
    <2>2. r.what = "read" => ReadOK(screen, r)
      BY DEF Honest, RequestOK
    <2>3. q.what = "read" => ReadOK(screen, q)
      BY <2>1, <2>2 DEF ReadOK
    <2> HIDE DEF q
    <2> QED
      BY <1>2, <1>3, <1>4, <2>1, <2>3 DEF RequestOK
  <1> HIDE DEF q
  <1>6. ASSUME NEW p \in requests
        PROVE  RequestOK(state', screen', p)
    BY <1>1, <1>2, RequestStays DEF Honest, ScreenOK
  <1>7. ScreenOK(state', screen')
    BY <1>1, <1>2, KeptStays DEF Honest, ScreenOK
  <1> QED
    BY <1>1, <1>2, <1>5, <1>6, <1>7 DEF Honest

\* An element that replaces the one on the screen.
LEMMA NewElement ==
    ASSUME Honest, UNCHANGED <<state, data>>, requests' \subseteq requests,
           NEW doc, NEW shows, NEW back, NEW htmx, NEW S,
           screen' = [doc |-> doc, element |-> screen.element + 1,
                      shows |-> shows, back |-> back, htmx |-> htmx],
           Kept(state, shows), back \in Seq(S), \A v \in S : Kept(state, v),
           tracking' \in {"observed", "timer"} => shows.kind = "entry"
    PROVE  Honest'
  <1>1. StateShape(state) /\ screen.element \in Nat /\ Grown(state, state)
    BY DEF Honest, ScreenOK, StateShape, Grown
  <1>2. ASSUME NEW r \in requests
        PROVE  RequestOK(state, screen', r)
    <2>1. screen'.element = screen.element + 1
      OBVIOUS
    <2>2. screen'.element \in Nat /\ screen.element < screen'.element
      BY <1>1, <2>1
    <2>3. RequestOK(state, screen, r)
      BY DEF Honest
    <2> QED
      BY <1>1, <2>2, <2>3, RequestStays
  <1>3. ScreenOK(state, screen')
    BY <1>1 DEF ScreenOK
  <1> QED
    BY <1>1, <1>2, <1>3 DEF Honest

LEMMA ShowHonest ==
    ASSUME Honest, UNCHANGED <<state, data>>, requests' \subseteq requests,
           NEW shows, NEW back, NEW S, Show(shows, back),
           Kept(state, shows), back \in Seq(S), \A v \in S : Kept(state, v)
    PROVE  Honest'
  <1>1. screen' = [doc |-> screen.doc, element |-> screen.element + 1,
                   shows |-> shows, back |-> back,
                   htmx |-> screen.htmx \/ back # screen.back]
    BY DEF Show, Honest, ScreenOK
  <1>2. tracking' \in {"observed", "timer"} => shows.kind = "entry"
    BY DEF Show, Watched
  <1> QED
    BY <1>1, <1>2, NewElement

LEMMA LoadHonest ==
    ASSUME Honest, NEW r \in requests, Load(r)
    PROVE  Honest'
  <1> DEFINE shows == r.answer.shows
  <1>1. Kept(state, shows)
    BY DEF Load, Answered, Honest, RequestOK
  <1>2. tracking' \in {"observed", "timer"} => shows.kind = "entry"
    BY DEF Load, Watched
  <1>3. /\ screen' = [doc |-> screen.doc + 1, element |-> screen.element + 1,
                      shows |-> shows, back |-> <<>>, htmx |-> FALSE]
        /\ requests' \subseteq requests /\ UNCHANGED <<state, data>>
    BY DEF Load, sync
  <1> DEFINE back == <<>>
             S == {}
  <1>4. back \in Seq(S) /\ \A v \in S : Kept(state, v)
    OBVIOUS
  <1>5. screen' = [doc |-> screen.doc + 1, element |-> screen.element + 1,
                   shows |-> shows, back |-> back, htmx |-> FALSE]
    BY <1>3
  <1> HIDE DEF shows, back, S
  <1> QED
    BY <1>1, <1>2, <1>3, <1>4, <1>5, NewElement

LEMMA SwapHonest ==
    ASSUME Honest, NEW r \in requests, Swap(r)
    PROVE  Honest'
  <1>1. requests' \subseteq requests /\ UNCHANGED <<state, data>>
    BY DEF Swap, sync
  <1>2. CASE UNCHANGED tab
    BY <1>1, <1>2 DEF Honest, tab
  <1>3. CASE ~UNCHANGED tab
    <2> DEFINE shows == r.answer.shows
               back == IF r.what \in {"feed", "entry"}
                       THEN Append(screen.back, screen.shows) ELSE screen.back
    <2>1. Show(shows, back)
      BY <1>3 DEF Swap
    <2>2. Kept(state, shows)
      BY DEF Swap, Answered, Honest, RequestOK
    <2>3. PICK S : screen.back \in Seq(S) /\ \A v \in S : Kept(state, v)
      BY DEF Honest, ScreenOK
    <2> DEFINE T == S \cup {screen.shows}
    <2>4. \A v \in T : Kept(state, v)
      BY <2>3 DEF Honest, ScreenOK
    <2>5. back \in Seq(T)
      BY <2>3
    <2> HIDE DEF shows, back, T
    <2> QED
      BY <1>1, <2>1, <2>2, <2>4, <2>5, ShowHonest
  <1> QED
    BY <1>2, <1>3

LEMMA GoBackHonest ==
    ASSUME Honest, GoBack
    PROVE  Honest'
  <1>1. PICK S : screen.back \in Seq(S) /\ \A v \in S : Kept(state, v)
    BY DEF Honest, ScreenOK
  <1> DEFINE shows == screen.back[Len(screen.back)]
             back == SubSeq(screen.back, 1, Len(screen.back) - 1)
  <1>2. Kept(state, shows)
    BY <1>1 DEF GoBack
  <1>3. back \in Seq(S)
    BY <1>1 DEF GoBack
  <1>4. Show(shows, back) /\ UNCHANGED <<state, data, requests>>
    BY DEF GoBack, sync
  <1> HIDE DEF shows, back
  <1> QED
    BY <1>1, <1>2, <1>3, <1>4, ShowHonest

LEMMA UnreadCleared ==
    ASSUME ScreenOK(state, screen),
           screen.shows.kind = "entry",
           screen.shows.id \in Ids, state[screen.shows.id].read,
           screen' = [screen EXCEPT !.shows.unread = FALSE]
    PROVE  /\ ScreenOK(state, screen')
           /\ screen'.element = screen.element
           /\ screen'.shows.kind = "entry" /\ screen'.shows.id = screen.shows.id
  <1> DEFINE s == screen.shows
             v == [s EXCEPT !.unread = FALSE]
  <1>1. s = [f \in EntryFields |-> s[f]]
    BY DEF ScreenOK, Kept
  <1>2. v = [f \in EntryFields |-> v[f]]
    BY <1>1
  <1>3. v.kind = "entry" /\ v.id = s.id /\ v.comments = s.comments
    BY <1>1 DEF EntryFields
  <1>4. Kept(state, s)
    BY DEF ScreenOK
  <1>5. screen' = [doc |-> screen.doc, element |-> screen.element, shows |-> v,
                   back |-> screen.back, htmx |-> screen.htmx]
    BY DEF ScreenOK
  <1> HIDE DEF v
  <1>6. Kept(state, v)
    BY <1>2, <1>3, <1>4 DEF Kept
  <1>7. /\ screen'.doc = screen.doc /\ screen'.element = screen.element
        /\ screen'.shows = v /\ screen'.back = screen.back
    BY <1>5
  <1>8. PICK S : screen.back \in Seq(S) /\ \A shows \in S : Kept(state, shows)
    BY DEF ScreenOK
  <1>9. screen.element \in Nat
    BY DEF ScreenOK
  <1>10. ScreenOK(state, screen')
    BY <1>5, <1>6, <1>7, <1>8, <1>9 DEF ScreenOK
  <1> QED
    BY <1>3, <1>7, <1>10

LEMMA ShowReadHonest ==
    ASSUME Honest, NEW r \in requests, ShowRead(r)
    PROVE  Honest'
  <1>1. requests' \subseteq requests /\ UNCHANGED <<state, data>>
    BY DEF ShowRead, sync
  <1>2. CASE UNCHANGED screen
    BY <1>1, <1>2 DEF ShowRead, Honest, tab
  <1>3. CASE screen' # screen
    <2>1. /\ r.what = "read" /\ r.answer # None /\ r.answer.status = 204 /\ Attached(r)
          /\ screen' = [screen EXCEPT !.shows.unread = FALSE] /\ UNCHANGED tracking
      BY <1>3 DEF ShowRead, Answered, tab
    <2>2. r.entry \in Ids /\ state[r.entry].read
      BY <2>1 DEF Honest, RequestOK
    <2>3. PICK k \in Nat :
             /\ r.target = Element(k) /\ k <= screen.element
             /\ k = screen.element => screen.shows.kind = "entry" /\ screen.shows.id = r.entry
      BY <2>1 DEF Honest, RequestOK, ReadOK
    <2>4. k = screen.element
      BY <2>1, <2>3 DEF Attached, Element, Surface
    <2>5. screen.shows.kind = "entry" /\ screen.shows.id = r.entry
      BY <2>3, <2>4
    <2>6. /\ ScreenOK(state, screen')
          /\ screen'.element = screen.element
          /\ screen'.shows.kind = "entry" /\ screen'.shows.id = screen.shows.id
      <3>1. ScreenOK(state, screen)
        BY DEF Honest
      <3>2. screen.shows.id \in Ids /\ state[screen.shows.id].read
        BY <2>2, <2>5
      <3>3. screen' = [screen EXCEPT !.shows.unread = FALSE]
        BY <2>1
      <3>4. screen.shows.kind = "entry"
        BY <2>5
      <3> QED
        BY <3>1, <3>2, <3>3, <3>4, UnreadCleared, Zenon
    <2>7. StateShape(state) /\ Grown(state, state) /\ screen.element \in Nat
      BY DEF Honest, ScreenOK, StateShape, Grown
    <2>8. ASSUME NEW q \in requests
          PROVE  RequestOK(state, screen', q)
      <3>1. RequestOK(state, screen, q)
        BY DEF Honest
      <3> QED
        BY <2>6, <2>7, <3>1, RequestStays
    <2> QED
      BY <1>1, <2>1, <2>6, <2>7, <2>8 DEF Honest
  <1> QED
    BY <1>2, <1>3

\* What the script does without an answer.
LEMMA TimerHonest ==
    ASSUME Honest, TimerFires
    PROVE  Honest'
  <1> DEFINE r == Request("read", None, screen.shows.id, Element(screen.element))
  <1>1. Shape(r) /\ r.answer = None /\ r.what = "read" /\ r.entry = screen.shows.id
        /\ r.target = Element(screen.element)
    BY RequestShape
  <1>2. /\ requests' = requests \cup {r} /\ UNCHANGED <<state, data, screen>>
        /\ tracking' = "posted" /\ screen.shows.kind = "entry"
    BY DEF TimerFires, Honest, sync
  <1> HIDE DEF r
  <1>3. ReadOK(screen, r)
    BY <1>1, <1>2 DEF ReadOK, Honest, ScreenOK
  <1>4. RequestOK(state, screen, r)
    BY <1>1, <1>3 DEF RequestOK
  <1> QED
    BY <1>2, <1>4 DEF Honest

LEMMA TrackingHonest ==
    ASSUME Honest, UNCHANGED <<state, data, screen>>, requests' \subseteq requests,
           tracking' \in {"observed", "timer"} => tracking \in {"observed", "timer"}
    PROVE  Honest'
  BY DEF Honest

\* The requests a link, a form or an address makes, none of them a read request.
LEMMA SendHonest ==
    ASSUME Honest, UNCHANGED <<state, data, tab>>,
           NEW what, NEW arg, NEW entry, NEW target, what # "read",
           requests' \subseteq requests \cup {Request(what, arg, entry, target)}
    PROVE  Honest'
  <1> DEFINE r == Request(what, arg, entry, target)
  <1>1. Shape(r) /\ r.answer = None /\ r.what = what
    BY RequestShape
  <1> HIDE DEF r
  <1>2. RequestOK(state, screen, r)
    BY <1>1 DEF RequestOK
  <1>3. requests' \subseteq requests \cup {r}
    BY DEF r
  <1> QED
    BY <1>2, <1>3 DEF Honest, tab

LEMMA ReaderSends ==
    ASSUME Reader, ~GoBack
    PROVE  /\ UNCHANGED <<state, data, tab>>
           /\ \E what, arg, entry, target :
                 /\ what # "read"
                 /\ requests' \subseteq requests \cup {Request(what, arg, entry, target)}
  <1>1. CASE OpenEntry
    BY <1>1 DEF OpenEntry, Send, sync
  <1>2. CASE OpenTab
    BY <1>2 DEF OpenTab, Send, sync
  <1>3. CASE BackToFeed
    BY <1>3 DEF BackToFeed, Send, sync
  <1>4. CASE LoadFeed
    BY <1>4 DEF LoadFeed, Visit, sync
  <1>5. CASE LoadEntry
    BY <1>5 DEF LoadEntry, Visit, sync
  <1>6. CASE ToggleFavorite
    BY <1>6 DEF ToggleFavorite, Send, sync
  <1>7. CASE Comment
    BY <1>7 DEF Comment, Send, sync
  <1> QED
    BY <1>1, <1>2, <1>3, <1>4, <1>5, <1>6, <1>7 DEF Reader

LEMMA HonestStep ==
    ASSUME Honest, Next
    PROVE  Honest'
  <1>1. CASE GoBack
    BY <1>1, GoBackHonest
  <1>2. CASE Reader /\ ~GoBack
    BY <1>2, ReaderSends, SendHonest
  <1>3. ASSUME NEW r \in requests, Handle(r) \/ Load(r) \/ Swap(r) \/ ShowRead(r)
        PROVE  Honest'
    BY <1>3, HandleHonest, LoadHonest, SwapHonest, ShowReadHonest
  <1>4. ASSUME NEW r \in requests, Lose(r)
        PROVE  Honest'
    BY <1>4, TrackingHonest DEF Lose, sync
  <1>5. CASE ComeIntoView
    BY <1>5, TrackingHonest DEF ComeIntoView, sync
  <1>6. CASE TimerFires
    BY <1>6, TimerHonest
  <1>7. CASE TakeLock \/ ReleaseLock \/ Activate
    BY <1>7 DEF TakeLock, ReleaseLock, Activate, Honest, tab
  <1> QED
    BY <1>1, <1>2, <1>3, <1>4, <1>5, <1>6, <1>7 DEF Next

LEMMA HonestInvariance == Spec => []Honest
  <1>1. Init => Honest
    <2> SUFFICES ASSUME Init
                 PROVE  Honest
      OBVIOUS
    <2>1. data \in Snapshots /\ StateShape(state)
      BY InstalledAssumption DEF Init, StateShape, Fresh
    <2>2. screen = [doc |-> 0, element |-> 0, shows |-> Blank, back |-> <<>>,
                  htmx |-> FALSE]
      BY DEF Init
    <2>3. Kept(state, Blank)
      BY DEF Kept, Blank
    <2>4. <<>> \in Seq({})
      OBVIOUS
    <2>5. ScreenOK(state, screen)
      BY <2>2, <2>3, <2>4 DEF ScreenOK
    <2> QED
      BY <2>1, <2>5 DEF Init, Honest
  <1>2. Honest /\ [Next]_vars => Honest'
    <2>1. CASE UNCHANGED vars
      BY <2>1 DEF vars, sync, tab, Honest
    <2> QED
      BY <2>1, HonestStep
  <1> QED
    BY <1>1, <1>2, PTL DEF Spec

\* Neither the page nor its history claims a read mark or a comment the store
\* does not have, however many requests are lost, refused, late or of an element
\* that is gone, and whatever is activated meanwhile.
THEOREM ShownIsSaved == Spec => []NothingShownUnsaved
  <1>1. Honest => NothingShownUnsaved
    <2> SUFFICES ASSUME Honest
                 PROVE  NothingShownUnsaved
      OBVIOUS
    <2>1. PICK S : screen.back \in Seq(S) /\ \A v \in S : Kept(state, v)
      BY DEF Honest, ScreenOK
    <2>2. ASSUME NEW i \in DOMAIN screen.back
          PROVE  Saved(screen.back[i])
      <3>1. screen.back[i] \in S
        BY <2>1
      <3> QED
        BY <2>1, <3>1, KeptIsSaved
    <2>3. Saved(screen.shows)
      BY KeptIsSaved DEF Honest, ScreenOK
    <2> QED
      BY <2>2, <2>3 DEF NothingShownUnsaved
  <1> QED
    BY <1>1, HonestInvariance, PTL

-----------------------------------------------------------------------------
(***************************************************************************)
(* Query strings.  percent_decode is recursive; what it makes of a value   *)
(* without "+" and "%" is shown by looking at the last position where its  *)
(* result is not what is left of the value.                                *)
(***************************************************************************)

Below == {p \in Nat \X Nat : p[1] < p[2]}

LEMMA SmallestOf ==
    ASSUME NEW S, S \subseteq Nat, S # {}
    PROVE  \E n \in S : \A m \in S : n <= m
  <1>1. Below = OpToRel(<, Nat)
    BY DEF Below, OpToRel
  <1>2. PICK n \in S : \A m \in S : <<m, n>> \notin Below
    BY <1>1, NatLessThanWellFounded, WFMin
  <1>3. \A m, k \in Nat : <<m, k>> \notin Below => k <= m
    <2>1. \A m, k \in Nat : m < k => <<m, k>> \in Below
      BY DEF Below
    <2> QED
      BY <2>1
  <1> QED
    BY <1>2, <1>3

\* percent_decode with the function it defines for the positions of v spelt out.
Cons(c, rest) == IF rest = None THEN None ELSE <<c>> \o rest

DecodedAt(v, from, i) ==
    IF i > Len(v) THEN <<>>
    ELSE IF v[i] = "+" THEN Cons(" ", from[i + 1])
    ELSE IF v[i] # "%" THEN Cons(v[i], from[i + 1])
    ELSE IF i + 2 <= Len(v) /\ {v[i + 1], v[i + 2]} \subseteq HexDigits
         THEN Cons(Byte(v[i + 1], v[i + 2]), from[i + 3])
         ELSE None

Decoding(v, from) == [i \in 1..Len(v) + 1 |-> DecodedAt(v, from, i)]

LEMMA DecodeUnfolds ==
    ASSUME NEW v
    PROVE  percent_decode(v) = (CHOOSE from : from = Decoding(v, from))[1]
  BY DEF percent_decode, Decoding, DecodedAt, Cons

\* Where no character is special, each position goes on from the next.
LEMMA LiteralEquations ==
    ASSUME NEW v \in Seq(STRING), \A i \in 1..Len(v) : v[i] # "+" /\ v[i] # "%",
           NEW from
    PROVE  from = Decoding(v, from) <=>
              /\ from = [i \in 1..Len(v) + 1 |-> from[i]]
              /\ from[Len(v) + 1] = <<>>
              /\ \A i \in 1..Len(v) : from[i] = Cons(v[i], from[i + 1])
  <1>1. Len(v) \in Nat
    OBVIOUS
  <1>2. from = Decoding(v, from) => from = [i \in 1..Len(v) + 1 |-> from[i]]
    BY DEF Decoding
  <1>3. Decoding(v, from) = [i \in 1..Len(v) + 1 |-> Decoding(v, from)[i]]
    BY DEF Decoding
  <1>4. Decoding(v, from)[Len(v) + 1] = <<>>
    <2>1. Len(v) + 1 \in 1..Len(v) + 1 /\ Len(v) + 1 > Len(v)
      BY <1>1
    <2> QED
      BY <2>1 DEF Decoding, DecodedAt
  <1>5. ASSUME NEW i \in 1..Len(v)
        PROVE  Decoding(v, from)[i] = Cons(v[i], from[i + 1])
    <2>1. ~(i > Len(v)) /\ v[i] # "+" /\ v[i] # "%" /\ i \in 1..Len(v) + 1
      BY <1>1
    <2> QED
      BY <2>1, Zenon DEF Decoding, DecodedAt
  <1>6. /\ \A i \in 1..Len(v) + 1 : i = Len(v) + 1 \/ i \in 1..Len(v)
        /\ Len(v) + 1 \in 1..Len(v) + 1 /\ 1..Len(v) \subseteq 1..Len(v) + 1
    BY <1>1
  <1> QED
    BY <1>2, <1>3, <1>4, <1>5, <1>6

\* A value without special characters decodes to itself.
LEMMA LiteralDecodes ==
    ASSUME NEW v \in Seq(STRING), \A i \in 1..Len(v) : v[i] # "+" /\ v[i] # "%"
    PROVE  percent_decode(v) = v
  <1> DEFINE Rest == [i \in 1..Len(v) + 1 |-> SubSeq(v, i, Len(v))]
  <1>1. \A i \in 1..Len(v) + 1 : Rest[i] # None
    <2> SUFFICES ASSUME NEW i \in 1..Len(v) + 1
                 PROVE  SubSeq(v, i, Len(v)) \in Seq(STRING)
      BY NoneAssumption
    <2>1. \A j \in i..Len(v) : v[j] \in STRING
      BY ElementOfSeq
    <2> QED
      BY <2>1, SubSeqProperties
  <1>2. \A i \in 1..Len(v) : Rest[i] = <<v[i]>> \o Rest[i + 1]
    BY SubSeqRecursiveFirst
  <1>3. /\ Len(v) \in Nat /\ Rest[Len(v) + 1] = <<>> /\ Rest[1] = v
        /\ Rest = [i \in 1..Len(v) + 1 |-> Rest[i]]
    BY SubSeqFull, SubSeqEmpty
  <1> HIDE DEF Rest
  <1>4. Rest = Decoding(v, Rest)
    <2>1. \A i \in 1..Len(v) : Rest[i + 1] # None
      BY <1>1, <1>3
    <2> QED
      BY <1>2, <1>3, <2>1, LiteralEquations DEF Cons
  <1> DEFINE from == CHOOSE f : f = Decoding(v, f)
  <1>5. from = Decoding(v, from)
    BY <1>4
  <1> HIDE DEF from
  <1>6. \A i \in 1..Len(v) + 1 : from[i] = Rest[i]
    <2> DEFINE Wrong == {k \in Nat : k <= Len(v) /\ from[Len(v) + 1 - k] # Rest[Len(v) + 1 - k]}
    <2>1. CASE Wrong = {}
      <3> SUFFICES ASSUME NEW i \in 1..Len(v) + 1
                   PROVE  from[i] = Rest[i]
        OBVIOUS
      <3> DEFINE k == Len(v) + 1 - i
      <3>1. k \in Nat /\ k <= Len(v) /\ i = Len(v) + 1 - k
        BY <1>3
      <3> QED
        BY <2>1, <3>1
    <2>2. CASE Wrong # {}
      <3>1. PICK k \in Wrong : \A m \in Wrong : k <= m
        BY <2>2, SmallestOf
      <3> DEFINE i == Len(v) + 1 - k
      <3>2. k # 0
        BY <1>3, <1>5, LiteralEquations
      <3>3. /\ i \in 1..Len(v) /\ k - 1 \in Nat /\ k - 1 <= Len(v)
            /\ Len(v) + 1 - (k - 1) = i + 1 /\ ~(k <= k - 1)
        BY <1>3, <3>2
      <3>4. from[i + 1] = Rest[i + 1]
        BY <3>1, <3>3
      <3>5. Rest[i + 1] # None
        BY <1>1, <1>3, <3>3
      <3>6. from[i] = Rest[i]
        BY <1>2, <1>5, <3>3, <3>4, <3>5, LiteralEquations DEF Cons
      <3> QED
        BY <3>6
    <2> QED
      BY <2>1, <2>2
  <1>7. 1 \in 1..Len(v) + 1
    BY <1>3
  <1> QED
    BY <1>3, <1>6, <1>7, DecodeUnfolds, Zenon DEF from
-----------------------------------------------------------------------------
(* TabsReachTheirEntries *)

\* The link of a tab comes back as the channel it was made for.
LEMMA LinkSelects ==
    ASSUME NEW c, c = None \/ (c \in Seq(STRING) /\ validate_channel_id(c))
    PROVE  query_value(Link(c), "channel") = c
  <1>1. CASE c = None
    <2>1. Link(c) = <<>>
      BY <1>1 DEF Link
    <2> QED
      BY <1>1, <2>1 DEF query_value
  <1>2. CASE c \in Seq(STRING) /\ validate_channel_id(c)
    <2>1. percent_decode(c) = c
      <3>1. \A i \in 1..Len(c) : c[i] \in Alphanumeric \cup {"-", "/"}
        BY <1>2 DEF validate_channel_id, Range
      <3> QED
        BY <1>2, <3>1, LiteralDecodes DEF Alphanumeric
    <2>2. c # None
      BY <1>2, NoneAssumption
    <2> DEFINE query == <<[key |-> "channel", value |-> c]>>
               decoded == [i \in DOMAIN query |-> percent_decode(query[i].value)]
               found == {i \in DOMAIN query : query[i].key = "channel" /\ decoded[i] # None}
    <2>3. DOMAIN query = {1} /\ query[1].key = "channel" /\ query[1].value = c
      OBVIOUS
    <2>4. Link(c) = query
      BY <2>2 DEF Link
    <2> HIDE DEF query
    <2>5. decoded[1] = c /\ found = {1}
      BY <2>1, <2>2, <2>3
    <2>6. query_value(query, "channel") = decoded[CHOOSE i \in found : \A j \in found : i <= j]
      <3>1. found # {}
        BY <2>5
      <3> QED
        BY <3>1, Zenon DEF query_value
    <2>7. (CHOOSE i \in found : \A j \in found : i <= j) = 1
      BY <2>5
    <2> QED
      BY <2>4, <2>5, <2>6, <2>7
  <1> QED
    BY <1>1, <1>2

\* Reader state has no part in how many entries a channel has.
LEMMA CountIgnoresState ==
    ASSUME NEW d, IsFiniteSet(d.files), NEW old, NEW new, NEW c
    PROVE  Cardinality(Visible(entries(d, old), c))
              = Cardinality({e \in entries(d, new) : c \in e.channels \cup {None}})
  <1> DEFINE files == {f \in collect_markdown_files(d) : c = None \/ c \in f.channels}
             With(st, f) == [id |-> f.id, channels |-> f.channels, state |-> st[f.id]]
             A == Visible(entries(d, old), c)
             B == {e \in entries(d, new) : c \in e.channels \cup {None}}
             m == [e \in A |-> With(new, e)]
  <1>1. A = {With(old, f) : f \in files}
    BY DEF Visible, entries
  <1>2. B = {With(new, f) : f \in files}
    BY DEF entries
  <1>3. \A f : /\ With(old, f).id = f.id /\ With(old, f).channels = f.channels
               /\ With(new, With(old, f)) = With(new, f)
    OBVIOUS
  <1>4. IsFiniteSet(A)
    <2>1. IsFiniteSet(files)
      <3>1. files \in SUBSET d.files
        BY DEF collect_markdown_files
      <3> QED
        BY <3>1, FS_Subset
    <2> DEFINE g == [f \in files |-> With(old, f)]
    <2>2. g \in Surjection(files, A)
      BY <1>1 DEF Surjection
    <2> QED
      BY <2>1, <2>2, FS_Surjection
  <1>5. m \in Surjection(A, B)
    <2>1. m \in [A -> B]
      BY <1>1, <1>2, <1>3
    <2>2. ASSUME NEW e \in B
          PROVE  \E x \in A : m[x] = e
      <3>1. PICK f \in files : e = With(new, f)
        BY <1>2
      <3>2. With(old, f) \in A /\ With(new, With(old, f)) = e
        BY <1>1, <1>3, <3>1
      <3> QED
        BY <3>2
    <2> QED
      BY <2>1, <2>2 DEF Surjection
  <1>6. m \in Injection(A, B)
    <2>1. ASSUME NEW x \in A, NEW y \in A, m[x] = m[y]
          PROVE  x = y
      <3>1. x.id = y.id /\ x.channels = y.channels
        BY <2>1
      <3>2. x = With(old, x) /\ y = With(old, y)
        BY <1>1
      <3> QED
        BY <3>1, <3>2
    <2> QED
      BY <1>5, <2>1 DEF Surjection, Injection, IsInjective
  <1> HIDE DEF m, A, B
  <1>7. Cardinality(B) = Cardinality(A)
    BY <1>4, <1>5, <1>6, FS_Surjection
  <1> QED
    BY <1>7 DEF A, B

LEMMA HonestReaches == Honest => TabsReachTheirEntries
  <1> SUFFICES ASSUME Honest, Shows("feed")
               PROVE  LET es == entries(screen.shows.of, state)
                          tabs == screen.shows.view.tabs
                      IN  /\ \A e \in es : \A c \in e.channels : \E t \in tabs : t.channel = c
                          /\ \A t \in tabs :
                                LET selected == query_value(t.link, "channel")
                                IN  /\ selected = t.channel
                                    /\ t.count = Cardinality({e \in es :
                                                    selected \in e.channels \cup {None}})
    BY Zenon DEF TabsReachTheirEntries
  <1>1. PICK d \in Snapshots : validate(d)
                               /\ \E st, query : screen.shows = FeedView(d, st, query)
    BY DEF Honest, ScreenOK, Kept, Rendered, Shows
  <1>2. PICK old, query : screen.shows = FeedView(d, old, query)
    BY <1>1
  <1> DEFINE selected == query_value(query, "channel")
             view == build_feed_view(entries(d, old), channels(d), selected)
             Tab(c) == channel_view(c, selected, Cardinality(Visible(entries(d, old), c)))
  <1>3. screen.shows.of = d /\ screen.shows.view = view
    BY <1>2 DEF FeedView
  <1>4. view.tabs = {Tab(c) : c \in channels(d) \cup {None}}
    BY DEF build_feed_view
  <1>5. \A c : /\ Tab(c).channel = c /\ Tab(c).link = Link(c)
               /\ Tab(c).count = Cardinality(Visible(entries(d, old), c))
    BY DEF channel_view
  <1> HIDE DEF view, Tab
  <1>6. \A e \in entries(d, state) : e.channels \subseteq channels(d)
    BY DEF entries, channels
  <1>7. \A c \in channels(d) : c \in Seq(STRING) /\ validate_channel_id(c)
    <2>1. ASSUME NEW c \in Range(d.catalog)
          PROVE  c \in Seq(STRING) /\ validate_channel_id(c)
      <3>1. d.catalog \in Seq(Seq(STRING))
        BY SnapshotsAssumption
      <3> QED
        BY <1>1, <2>1, <3>1 DEF Range, validate, CatalogValid
    <2>2. ASSUME NEW f \in collect_markdown_files(d), NEW c \in f.channels
          PROVE  c \in Seq(STRING) /\ validate_channel_id(c)
      BY <1>1, <2>2, SnapshotsAssumption DEF validate, EntriesParse, parse_entry,
                                             collect_markdown_files
    <2> QED
      BY <2>1, <2>2 DEF channels
  <1>8. \A c \in channels(d) \cup {None} : query_value(Link(c), "channel") = c
    BY <1>7, LinkSelects
  <1>9. \A c : Tab(c).count = Cardinality({e \in entries(d, state) : c \in e.channels \cup {None}})
    <2>1. IsFiniteSet(d.files)
      BY SnapshotsAssumption
    <2> QED
      BY <1>5, <2>1, CountIgnoresState
  <1>10. \A e \in entries(d, state) : \A c \in e.channels : \E t \in view.tabs : t.channel = c
    BY <1>4, <1>5, <1>6
  <1>11. ASSUME NEW t \in view.tabs
         PROVE  /\ query_value(t.link, "channel") = t.channel
                /\ t.count = Cardinality({e \in entries(d, state) :
                                query_value(t.link, "channel") \in e.channels \cup {None}})
    <2>1. PICK c \in channels(d) \cup {None} : t = Tab(c)
      BY <1>4
    <2> QED
      BY <1>5, <1>8, <1>9, <2>1
  <1> QED
    BY <1>3, <1>10, <1>11

\* Every feed that is shown, however old, has a tab for each channel of its
\* entries, and each tab's link selects what the tab counts: for every snapshot
\* that validates and whatever was read, typed or activated meanwhile.
THEOREM TabsReach == Spec => []TabsReachTheirEntries
  BY HonestInvariance, HonestReaches, PTL

-----------------------------------------------------------------------------
(***************************************************************************)
(* Types.  The script: once it has posted for an article it does not watch *)
(* it any more, so an answer never takes the unread mark from under it.    *)
(* Comments: each was sent by an action of the reader, and every request   *)
(* that still waits for the server is one more to come.                    *)
(***************************************************************************)

Tracked ==
    /\ tracking \in {"none", "observed", "timer", "posted", "failed"}
    /\ tracking \in {"observed", "timer"} => screen.shows.unread
    /\ \A r \in requests :
          r.what = "read" /\ r.target = Element(screen.element)
              => tracking \in {"posted", "failed"}

Waiting == {r \in requests : r.what = "comment" /\ r.answer = None}

Counted ==
    /\ IsFiniteSet(requests)
    /\ \A e \in Ids : /\ state[e].read \in BOOLEAN /\ state[e].favorite \in BOOLEAN
                      /\ state[e].comments + Cardinality(Waiting) <= actions
    /\ \A r \in requests : r.what = "favorite" => r.arg \in BOOLEAN
    /\ lock \in BOOLEAN /\ actions \in 0..MaxActions /\ faults \in 0..MaxFaults
    /\ activations \in 0..MaxActivations

LEMMA ElementsDiffer == \A n, m, doc : /\ Element(n) # Surface(doc)
                                       /\ Element(n) = Element(m) => n = m
  BY DEF Element, Surface

LEMMA HonestIsTyped == Honest /\ Tracked /\ Counted => TypeOK
  <1> SUFFICES ASSUME Honest, Tracked, Counted
               PROVE  TypeOK
    OBVIOUS
  <1>1. Cardinality(Waiting) \in Nat
    BY FS_Subset, FS_CardinalityType DEF Counted, Waiting
  <1>2. state \in [Ids -> States]
    <2>1. ASSUME NEW e \in Ids
          PROVE  /\ state[e].comments \in 0..MaxActions
                 /\ state[e].read \in BOOLEAN /\ state[e].favorite \in BOOLEAN
      BY <1>1, BoundsAssumption DEF Counted, Honest, StateShape
    <2> QED
      BY <2>1 DEF Honest, StateShape, States
  <1>3. ASSUME NEW r \in requests, r.what = "read", Attached(r)
        PROVE  r.entry = screen.shows.id
    BY <1>3, ElementsDiffer DEF Honest, RequestOK, ReadOK, Attached
  <1> QED
    BY <1>2, <1>3 DEF Honest, Tracked, Counted, TypeOK, Shows
-----------------------------------------------------------------------------
\* A new element has no read request yet.
LEMMA NewElementTracked ==
    ASSUME Honest, requests' \subseteq requests, NEW shows, NEW loaded,
           screen'.element = screen.element + 1, screen'.shows = shows,
           tracking' = Watched(shows, loaded)
    PROVE  Tracked'
  <1>1. ASSUME NEW r \in requests, r.what = "read"
        PROVE  r.target # Element(screen'.element)
    <2>1. PICK k \in Nat : r.target = Element(k) /\ k <= screen.element
      BY <1>1 DEF Honest, RequestOK, ReadOK
    <2>2. k # screen'.element
      BY <2>1 DEF Honest, ScreenOK
    <2> QED
      BY <2>1, <2>2, ElementsDiffer
  <1>2. tracking' \in {"none", "observed"}
        /\ (tracking' = "observed" => shows.unread)
    BY DEF Watched
  <1> QED
    BY <1>1, <1>2 DEF Tracked

LEMMA TrackedStep ==
    ASSUME Honest, Tracked, Next
    PROVE  Tracked'
  <1>1. CASE GoBack
    <2>1. PICK shows, back : Show(shows, back)
      BY <1>1 DEF GoBack
    <2> QED
      BY <1>1, <2>1, NewElementTracked DEF GoBack, Show, Honest, ScreenOK
  <1>2. CASE Reader /\ ~GoBack
    <2>1. UNCHANGED tab
      BY <1>2, ReaderSends
    <2>2. PICK what, arg, entry, target :
             what # "read" /\ requests' \subseteq requests \cup {Request(what, arg, entry, target)}
      BY <1>2, ReaderSends
    <2> QED
      BY <2>1, <2>2, RequestShape DEF Tracked, tab
  <1>3. ASSUME NEW r \in requests, Handle(r)
        PROVE  Tracked'
    <2>1. \E answer : requests' = (requests \ {r}) \cup {[r EXCEPT !.answer = answer]}
      <3>1. \E shows : requests' = (requests \ {r}) \cup
                          {[r EXCEPT !.answer = [status |-> Status(r), shows |-> shows]]}
        BY <1>3 DEF Handle
      <3> QED
        BY <3>1
    <2> PICK answer : requests' = (requests \ {r}) \cup {[r EXCEPT !.answer = answer]}
      BY <2>1
    <2>2. /\ [r EXCEPT !.answer = answer].what = r.what
          /\ [r EXCEPT !.answer = answer].target = r.target
      BY DEF Honest, RequestOK, Shape
    <2>3. UNCHANGED tab
      BY <1>3 DEF Handle
    <2> QED
      BY <2>2, <2>3 DEF Tracked, tab
  <1>4. ASSUME NEW r \in requests, Load(r)
        PROVE  Tracked'
    BY <1>4, NewElementTracked DEF Load
  <1>5. ASSUME NEW r \in requests, Swap(r)
        PROVE  Tracked'
    <2>1. CASE UNCHANGED tab
      BY <1>5, <2>1 DEF Swap, Tracked, tab
    <2>2. CASE ~UNCHANGED tab
      <3>1. PICK shows, back : Show(shows, back)
        BY <1>5, <2>2 DEF Swap
      <3> QED
        BY <1>5, <3>1, NewElementTracked DEF Swap, Show, Honest, ScreenOK
    <2> QED
      BY <2>1, <2>2
  <1>6. ASSUME NEW r \in requests, ShowRead(r) \/ Lose(r)
        PROVE  Tracked'
    <2>1. CASE UNCHANGED tab
      BY <1>6, <2>1 DEF ShowRead, Lose, Tracked, tab
    <2>2. CASE ~UNCHANGED tab
      <3>1. Attached(r) /\ r.what = "read" /\ requests' \subseteq requests
        BY <1>6, <2>2 DEF ShowRead, Lose, tab
      <3>2. r.target = Element(screen.element)
        BY <3>1, ElementsDiffer DEF Honest, RequestOK, ReadOK, Attached
      <3>3. tracking \in {"posted", "failed"}
        BY <3>1, <3>2 DEF Tracked
      <3>4. tracking' \in {tracking, "failed"}
        BY <1>6 DEF ShowRead, Lose, tab
      <3> QED
        BY <3>3, <3>4 DEF Tracked
    <2> QED
      BY <2>1, <2>2
  <1>7. CASE ComeIntoView
    BY <1>7 DEF ComeIntoView, Tracked
  <1>8. CASE TimerFires
    BY <1>8 DEF TimerFires, Tracked
  <1>9. CASE TakeLock \/ Activate \/ ReleaseLock
    BY <1>9 DEF TakeLock, Activate, ReleaseLock, Tracked, tab
  <1> QED
    BY <1>1, <1>2, <1>3, <1>4, <1>5, <1>6, <1>7, <1>8, <1>9 DEF Next

-----------------------------------------------------------------------------
\* What may come to wait, and how many comments may come of it.
LEMMA FewerWait ==
    ASSUME Counted, Waiting' \subseteq Waiting
    PROVE  /\ Cardinality(Waiting) \in Nat /\ Cardinality(Waiting') \in Nat
           /\ Cardinality(Waiting') <= Cardinality(Waiting)
  <1>1. IsFiniteSet(Waiting)
    BY FS_Subset DEF Counted, Waiting
  <1> HIDE DEF Waiting
  <1> QED
    BY <1>1, FS_Subset, FS_CardinalityType

LEMMA CountedStays ==
    ASSUME Honest, Counted, UNCHANGED <<state, lock, activations>>,
           NEW what, NEW arg, NEW entry, NEW target,
           requests' \subseteq requests \cup {Request(what, arg, entry, target)},
           what = "favorite" => arg \in BOOLEAN,
           actions' \in 0..MaxActions, actions <= actions', faults' \in 0..MaxFaults,
           what = "comment" => actions' = actions + 1
    PROVE  Counted'
  <1> DEFINE r == Request(what, arg, entry, target)
  <1>1. r.what = what /\ r.arg = arg /\ r.answer = None
    BY DEF Request
  <1> HIDE DEF r
  <1>2. requests' \subseteq requests \cup {r}
    BY DEF r
  <1>3. IsFiniteSet(requests')
    <2>1. IsFiniteSet(requests \cup {r})
      BY FS_AddElement DEF Counted
    <2> QED
      BY <1>2, <2>1, FS_Subset
  <1>4. \A q \in requests' : q.what = "favorite" => q.arg \in BOOLEAN
    BY <1>1, <1>2 DEF Counted
  <1>5. Cardinality(Waiting) \in Nat /\ Cardinality(Waiting') \in Nat
        /\ Cardinality(Waiting') <= Cardinality(Waiting) + (actions' - actions)
    <2>1. IsFiniteSet(Waiting)
      BY FS_Subset DEF Counted, Waiting
    <2>2. CASE what = "comment"
      <3>1. Waiting' \subseteq Waiting \cup {r}
        BY <1>2 DEF Waiting
      <3>2. /\ IsFiniteSet(Waiting \cup {r})
            /\ Cardinality(Waiting \cup {r}) \in {Cardinality(Waiting), Cardinality(Waiting) + 1}
        BY <2>1, FS_AddElement
      <3>3. Cardinality(Waiting') <= Cardinality(Waiting \cup {r}) /\ IsFiniteSet(Waiting')
        BY <3>1, <3>2, FS_Subset
      <3>4. /\ Cardinality(Waiting) \in Nat /\ Cardinality(Waiting') \in Nat
            /\ Cardinality(Waiting \cup {r}) \in Nat
        BY <2>1, <3>2, <3>3, FS_CardinalityType
      <3>5. actions' = actions + 1 /\ actions \in Nat
        BY <2>2 DEF Counted
      <3> QED
        BY <3>2, <3>3, <3>4, <3>5
    <2>3. CASE what # "comment"
      <3>1. Waiting' \subseteq Waiting
        BY <1>1, <1>2, <2>3 DEF Waiting
      <3>2. actions \in Nat /\ actions' \in Nat
        BY BoundsAssumption DEF Counted
      <3> QED
        BY <3>1, <3>2, FewerWait
    <2> QED
      BY <2>2, <2>3
  <1>6. ASSUME NEW e \in Ids
        PROVE  state[e].comments + Cardinality(Waiting') <= actions'
    <2>1. /\ state[e].comments \in Nat /\ actions \in Nat /\ actions' \in Nat
          /\ state[e].comments + Cardinality(Waiting) <= actions
      BY BoundsAssumption DEF Counted, Honest, StateShape
    <2> QED
      BY <1>5, <2>1
  <1>7. Cardinality(Waiting)' = Cardinality(Waiting')
    OBVIOUS
  <1> QED
    BY <1>3, <1>4, <1>6, <1>7 DEF Counted

\* What a mutation makes of an entry's state.
LEMMA MutatedFields ==
    ASSUME Honest, Counted, NEW r \in requests, NEW e \in Ids
    PROVE  /\ Mutated(r)[e].read \in BOOLEAN /\ Mutated(r)[e].favorite \in BOOLEAN
           /\ Mutated(r)[e].comments = state[e].comments
              \/ (r.what = "comment" /\ Mutated(r)[e].comments = state[e].comments + 1)
  <1>1. /\ state[e] = [read |-> state[e].read, favorite |-> state[e].favorite,
                       comments |-> state[e].comments]
        /\ DOMAIN state = Ids
    BY DEF Honest, StateShape
  <1>2. state[e].read \in BOOLEAN /\ state[e].favorite \in BOOLEAN
    BY DEF Counted
  <1>3. r.what = "favorite" => r.arg \in BOOLEAN
    BY DEF Counted
  <1>4. CASE r.what = "read"
    <2>1. Mutated(r) = [x \in Ids |-> IF x = r.entry
                                     THEN [read |-> TRUE, favorite |-> state[x].favorite,
                                           comments |-> state[x].comments]
                                     ELSE state[x]]
      BY <1>4, MutatedByRead DEF Honest
    <2>2. CASE e = r.entry
      <3>1. Mutated(r)[e] = [read |-> TRUE, favorite |-> state[e].favorite,
                             comments |-> state[e].comments]
        BY <2>1, <2>2, Zenon
      <3> QED
        BY <1>2, <3>1
    <2>3. CASE e # r.entry
      BY <1>2, <2>1, <2>3
    <2> QED
      BY <2>2, <2>3
  <1>5. CASE r.what = "favorite"
    <2>1. r.what # "read"
      BY <1>5
    <2>2. Mutated(r) = [state EXCEPT ![r.entry].favorite = r.arg]
      BY <1>5, <2>1 DEF Mutated
    <2>3. Mutated(r)[e] = state[e]
          \/ Mutated(r)[e] = [read |-> state[e].read, favorite |-> r.arg,
                              comments |-> state[e].comments]
      BY <1>1, <2>2
    <2> QED
      BY <1>2, <1>3, <1>5, <2>3
  <1>6. CASE r.what = "comment"
    <2>1. r.what # "read" /\ r.what # "favorite"
      BY <1>6
    <2>2. Mutated(r) = [state EXCEPT ![r.entry].comments = @ + 1]
      BY <1>6, <2>1 DEF Mutated
    <2>3. Mutated(r)[e] = state[e]
          \/ Mutated(r)[e] = [read |-> state[e].read, favorite |-> state[e].favorite,
                              comments |-> state[e].comments + 1]
      BY <1>1, <2>2
    <2> QED
      BY <1>2, <1>6, <2>3
  <1>7. CASE r.what \notin {"read", "favorite", "comment"}
    <2>1. r.what # "read" /\ r.what # "favorite" /\ r.what # "comment"
      BY <1>7
    <2>2. Mutated(r) = state
      BY <2>1 DEF Mutated
    <2> QED
      BY <1>2, <2>2
  <1> QED
    BY <1>4, <1>5, <1>6, <1>7

\* A comment that is stored is one that waited and waits no more.
LEMMA HandleCounted ==
    ASSUME Honest, Counted, NEW r \in requests, Handle(r)
    PROVE  Counted'
  <1> DEFINE shows == IF Status(r) # 200 THEN Blank
                      ELSE IF r.what = "feed" THEN FeedView(data, state, r.arg)
                      ELSE EntryView(r.entry, state')
             answer == [status |-> Status(r), shows |-> shows]
             q == [r EXCEPT !.answer = answer]
  <1>1. /\ requests' = (requests \ {r}) \cup {q} /\ r.answer = None
        /\ UNCHANGED <<lock, activations, actions, faults>>
        /\ state' = IF Status(r) \in {200, 204} THEN Mutated(r) ELSE state
    BY DEF Handle, sync, counts
  <1>2. q.what = r.what /\ q.arg = r.arg /\ q.answer = answer
    BY DEF Honest, RequestOK, Shape
  <1>3. ASSUME NEW e \in Ids
        PROVE  /\ state'[e].read \in BOOLEAN /\ state'[e].favorite \in BOOLEAN
               /\ \/ state'[e].comments = state[e].comments
                  \/ r.what = "comment" /\ state'[e].comments = state[e].comments + 1
    BY <1>1, MutatedFields DEF Counted
  <1>4. r.what = "comment" => answer # None
    <2> SUFFICES ASSUME r.what = "comment"
                 PROVE  answer # None
      OBVIOUS
    <2>1. Status(r) \in Nat
      BY DEF Status
    <2>2. shows \in Articles \cup {Blank}
      <3>1. CASE Status(r) # 200
        BY <3>1
      <3>2. CASE Status(r) = 200
        <4>1. r.entry \in Ids
          BY <3>2, ExistingEntry DEF Status, Honest
        <4>2. state'[r.entry].favorite \in BOOLEAN /\ state'[r.entry].comments \in Nat
          BY <1>3, <4>1 DEF Honest, StateShape
        <4>3. EntryView(r.entry, state') \in Articles
          BY <4>1, <4>2 DEF EntryView, Articles
        <4> QED
          BY <3>2, <4>3
      <3> QED
        BY <3>1, <3>2
    <2> HIDE DEF shows
    <2>3. answer \in [status : Nat, shows : Articles \cup {Blank}]
      BY <2>1, <2>2
    <2> QED
      BY <2>3, AnswerAssumption
  <1> HIDE DEF answer, q
  <1>5. IsFiniteSet(requests')
    <2>1. IsFiniteSet(requests \cup {q})
      BY FS_AddElement DEF Counted
    <2>2. requests' \subseteq requests \cup {q}
      BY <1>1
    <2> QED
      BY <2>1, <2>2, FS_Subset
  <1>6. \A p \in requests' : p.what = "favorite" => p.arg \in BOOLEAN
    BY <1>1, <1>2 DEF Counted
  <1>7. IsFiniteSet(Waiting)
    BY FS_Subset DEF Counted, Waiting
  <1>8. CASE r.what = "comment"
    <2>1. r \in Waiting /\ Waiting' = Waiting \ {r}
      BY <1>1, <1>2, <1>4, <1>8 DEF Waiting
    <2>2. Cardinality(Waiting') = Cardinality(Waiting) - 1 /\ Cardinality(Waiting) \in Nat
      BY <1>7, <2>1, FS_RemoveElement, FS_CardinalityType
    <2>3. ASSUME NEW e \in Ids
          PROVE  state'[e].comments + Cardinality(Waiting') <= actions
      <3>1. /\ state[e].comments \in Nat /\ state[e].comments + Cardinality(Waiting) <= actions
            /\ actions \in Nat
        BY BoundsAssumption DEF Counted, Honest, StateShape
      <3> QED
        BY <1>3, <2>2, <3>1
    <2>4. Cardinality(Waiting)' = Cardinality(Waiting')
      OBVIOUS
    <2> QED
      BY <1>1, <1>3, <1>5, <1>6, <2>3, <2>4 DEF Counted
  <1>9. CASE r.what # "comment"
    <2>1. Waiting' \subseteq Waiting
      BY <1>1, <1>2, <1>9 DEF Waiting
    <2>2. ASSUME NEW e \in Ids
          PROVE  state'[e].comments + Cardinality(Waiting') <= actions
      <3>1. /\ state[e].comments \in Nat /\ state[e].comments + Cardinality(Waiting) <= actions
            /\ actions \in Nat
        BY BoundsAssumption DEF Counted, Honest, StateShape
      <3> QED
        BY <1>3, <1>9, <2>1, <3>1, FewerWait
    <2>3. Cardinality(Waiting)' = Cardinality(Waiting')
      OBVIOUS
    <2> QED
      BY <1>1, <1>3, <1>5, <1>6, <2>2, <2>3 DEF Counted
  <1> QED
    BY <1>8, <1>9

LEMMA CountedStep ==
    ASSUME Honest, Counted, Next
    PROVE  Counted'
  <1>1. actions \in Nat /\ faults \in Nat /\ actions <= actions
    BY BoundsAssumption DEF Counted
  <1>2. ASSUME Act
        PROVE  /\ actions' = actions + 1 /\ actions' \in 0..MaxActions /\ actions <= actions'
    BY <1>1, <1>2, BoundsAssumption DEF Act
  <1>3. ASSUME UNCHANGED <<state, lock, activations>>, requests' \subseteq requests,
               Act \/ UNCHANGED actions, faults' \in 0..MaxFaults
        PROVE  Counted'
    <2>1. requests' \subseteq requests \cup {Request("feed", None, None, None)}
      BY <1>3
    <2>2. actions' \in 0..MaxActions /\ actions <= actions'
      BY <1>1, <1>2, <1>3 DEF Counted
    <2> QED
      BY <1>3, <2>1, <2>2, CountedStays
  <1>4. ASSUME NEW what \in {"entry", "feed", "favorite", "comment"}, NEW arg, NEW entry,
               NEW target, what = "favorite" => arg \in BOOLEAN,
               Send(Request(what, arg, entry, target)) \/ Visit(Request(what, arg, entry, target))
        PROVE  Counted'
    <2>1. requests' \subseteq requests \cup {Request(what, arg, entry, target)}
          /\ UNCHANGED <<state, lock, activations, faults>> /\ Act
      BY <1>4 DEF Send, Visit, sync
    <2> QED
      BY <1>2, <1>4, <2>1, CountedStays DEF Counted
  <1>5. CASE Reader
    <2>1. CASE GoBack
      BY <1>3, <2>1 DEF GoBack, sync, Counted
    <2>2. CASE OpenEntry
      BY <1>4, <2>2 DEF OpenEntry
    <2>3. CASE OpenTab
      BY <1>4, <2>3 DEF OpenTab
    <2>4. CASE BackToFeed
      BY <1>4, <2>4 DEF BackToFeed
    <2>5. CASE LoadFeed
      BY <1>4, <2>5 DEF LoadFeed
    <2>6. CASE LoadEntry
      BY <1>4, <2>6 DEF LoadEntry
    <2>7. CASE ToggleFavorite
      BY <1>4, <2>7 DEF ToggleFavorite
    <2>8. CASE Comment
      BY <1>4, <2>8 DEF Comment
    <2> QED
      BY <1>5, <2>1, <2>2, <2>3, <2>4, <2>5, <2>6, <2>7, <2>8 DEF Reader
  <1>6. ASSUME NEW r \in requests, Handle(r)
        PROVE  Counted'
    BY <1>6, HandleCounted
  <1>7. ASSUME NEW r \in requests, Load(r) \/ Swap(r) \/ ShowRead(r)
        PROVE  Counted'
    BY <1>3, <1>7 DEF Load, Swap, ShowRead, sync, counts, Counted
  <1>8. ASSUME NEW r \in requests, Lose(r)
        PROVE  Counted'
    <2>1. faults' \in 0..MaxFaults
      BY <1>1, <1>8, BoundsAssumption DEF Lose
    <2> QED
      BY <1>3, <1>8, <2>1 DEF Lose, sync
  <1>9. CASE ComeIntoView
    BY <1>3, <1>9 DEF ComeIntoView, sync, counts, Counted
  <1>10. CASE TimerFires
    <2>1. PICK entry, target : requests' = requests \cup {Request("read", None, entry, target)}
      BY <1>10 DEF TimerFires
    <2>2. UNCHANGED <<state, lock, activations, actions, faults>>
      BY <1>10 DEF TimerFires, sync, counts
    <2> QED
      BY <1>1, <2>1, <2>2, CountedStays DEF Counted
  <1>11. CASE TakeLock \/ Activate \/ ReleaseLock
    <2>1. UNCHANGED <<state, requests, actions, faults>> /\ lock' \in BOOLEAN
      BY <1>11 DEF TakeLock, Activate, ReleaseLock, counts, Counted
    <2>3. activations' \in 0..MaxActivations
      BY <1>11, BoundsAssumption DEF TakeLock, Activate, ReleaseLock, Counted
    <2>2. Waiting' = Waiting
      BY <2>1 DEF Waiting
    <2> QED
      BY <2>1, <2>2, <2>3 DEF Counted
  <1> QED
    BY <1>5, <1>6, <1>7, <1>8, <1>9, <1>10, <1>11 DEF Next

\* The store, the script's state and the counters keep their types, the script
\* watches only what is unread, and posts for nothing but what is shown, whatever
\* is lost, late, refused or activated.
THEOREM PagesTypeCorrect == Spec => []TypeOK
  <1>1. Init => Tracked /\ Counted
    <2> SUFFICES ASSUME Init
                 PROVE  Tracked /\ Counted
      OBVIOUS
    <2>1. Waiting = {} /\ requests = {}
      BY DEF Init, Waiting
    <2>2. \A e \in Ids : state[e] = [read |-> FALSE, favorite |-> FALSE, comments |-> 0]
      BY DEF Init, Fresh
    <2>3. Cardinality({}) = 0 /\ IsFiniteSet({})
      BY FS_EmptySet
    <2>4. ASSUME NEW e \in Ids
          PROVE  /\ state[e].read \in BOOLEAN /\ state[e].favorite \in BOOLEAN
                 /\ state[e].comments = 0
      <3> DEFINE no == FALSE
      <3>1. no \in BOOLEAN /\ state[e] = [read |-> no, favorite |-> no, comments |-> 0]
        BY <2>2
      <3> HIDE DEF no
      <3> QED
        BY <3>1
    <2>5. lock \in BOOLEAN
      BY DEF Init
    <2>6. /\ actions = 0 /\ faults = 0 /\ activations = 0
          /\ 0 \in 0..MaxActions /\ 0 \in 0..MaxFaults /\ 0 \in 0..MaxActivations
      BY BoundsAssumption DEF Init
    <2>7. Counted
      BY <2>1, <2>3, <2>4, <2>5, <2>6 DEF Counted
    <2>8. Tracked
      BY <2>1 DEF Init, Tracked
    <2> QED
      BY <2>7, <2>8
  <1>2. Honest /\ Tracked /\ [Next]_vars => Tracked'
    <2>1. CASE UNCHANGED vars
      BY <2>1 DEF vars, tab, Tracked
    <2> QED
      BY <2>1, TrackedStep
  <1>3. Honest /\ Counted /\ [Next]_vars => Counted'
    <2>1. CASE UNCHANGED vars
      <3>1. Waiting' = Waiting
        BY <2>1 DEF vars, Waiting
      <3> QED
        BY <2>1, <3>1 DEF vars, sync, counts, Counted
    <2> QED
      BY <2>1, CountedStep
  <1> QED
    BY <1>1, <1>2, <1>3, HonestInvariance, HonestIsTyped, PTL DEF Spec
=============================================================================
