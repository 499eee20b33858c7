-------------------------- MODULE ReaderState_proofs --------------------------
(***************************************************************************)
(* Proofs about ReaderState, for any entries and any number of edits and   *)
(* faults, whichever process synchronizes.                                 *)
(***************************************************************************)
EXTENDS ReaderState, TLAPS

\* An edit under way has not used up its bound, so it has room for one more.
Room ==
    At("store") \/ At("temp") =>
        (request.kind = "edit" => file[request.entry].edits < MaxEdits)

Shapes == TypeOK /\ Room

LEMMA WantedType ==
    ASSUME Shapes, At("temp")
    PROVE  Wanted \in States /\ request.entry \in Entries
  <1>1. request \in Requests
    BY DEF Shapes, TypeOK, At
  <1>2. request.entry \in Entries /\ request.kind \in {"read", "edit"}
    BY <1>1 DEF Requests
  <1> DEFINE old == file[request.entry]
  <1>3. old \in States
    BY <1>2 DEF Shapes, TypeOK
  <1>4. CASE request.kind = "read"
    BY <1>2, <1>3, <1>4 DEF Wanted, States
  <1>5. CASE request.kind = "edit"
    <2>1. old.edits \in 0..MaxEdits /\ old.edits < MaxEdits
      BY <1>3, <1>5 DEF States, Shapes, Room
    <2>2. old.edits + 1 \in 0..MaxEdits
      BY <2>1, BoundsAssumption
    <2> QED
      BY <1>2, <1>3, <1>5, <2>2 DEF Wanted, States
  <1> QED
    BY <1>2, <1>4, <1>5

LEMMA RequestMoves ==
    ASSUME NEW r \in Requests, NEW at \in {"store", "temp", "renamed"}
    PROVE  /\ [r EXCEPT !.at = at] \in Requests
           /\ [r EXCEPT !.at = at].entry = r.entry /\ [r EXCEPT !.at = at].kind = r.kind
           /\ [r EXCEPT !.at = at].at = at
  BY DEF Requests

LEMMA MarkerType ==
    ASSUME NEW e \in Entries, NEW s \in States
    PROVE  [entry |-> e, of |-> s] \in Markers
  BY DEF Markers

LEMMA CreateMarkerType ==
    ASSUME Shapes, NEW e \in Entries, CreateMarker(e)
    PROVE  dirty' \subseteq Markers /\ unmarked' \subseteq Entries
  <1>1. file[e] \in States
    BY DEF Shapes, TypeOK
  <1> QED
    BY <1>1, MarkerType DEF CreateMarker, Shapes, TypeOK

LEMMA FaultCounts ==
    ASSUME NEW kind, Fault(kind), faults \in 0..MaxFaults
    PROVE  faults' \in 0..MaxFaults
  BY BoundsAssumption DEF Fault

LEMMA FaultRemains ==
    ASSUME NEW kind, Fault(kind), faults \in 0..MaxFaults
    PROVE  faults' # 0
  BY BoundsAssumption DEF Fault

LEMMA ShapesStep ==
    ASSUME Shapes, Next
    PROVE  Shapes'
  <1> USE DEF Shapes, TypeOK, Room, At, store, sync, history
  <1>0. TypeOK /\ Room
    OBVIOUS
  <1>1. ASSUME NEW kind \in {"read", "edit"}, NEW e \in Entries, Receive(kind, e)
        PROVE  Shapes'
    BY <1>1 DEF Receive, MayReceive, Requests
  <1>2. CASE AlreadyRead
    <2>1. request.entry \in Entries
      BY <1>2 DEF AlreadyRead, Requests
    <2>2. written' \in [Entries -> States]
      BY <1>2, <2>1 DEF AlreadyRead, States
    <2> QED
      BY <1>2, <2>2 DEF AlreadyRead
  <1>3. CASE CreateTemporary
    <2>1. request \in Requests /\ request' = [request EXCEPT !.at = "temp"]
      BY <1>3 DEF CreateTemporary
    <2>2. request' \in Requests /\ request'.entry = request.entry /\ request'.kind = request.kind
      BY <2>1, RequestMoves
    <2>3. temp' \subseteq Entries /\ UNCHANGED file
      BY <1>3, <2>1 DEF CreateTemporary, Requests
    <2> QED
      BY <1>3, <2>2, <2>3 DEF CreateTemporary
  <1>4. CASE WriteFails
    <2>1. request.entry \in Entries
      BY <1>4 DEF WriteFails, Requests
    <2> QED
      BY <1>4, <2>1, FaultCounts DEF WriteFails
  <1>5. CASE Rename
    <2>1. Wanted \in States /\ request.entry \in Entries /\ request \in Requests
      BY <1>5, WantedType DEF Rename
    <2> QED
      BY <1>5, <2>1 DEF Rename, Requests
  <1>6. CASE Mark
    <2>1. /\ request.entry \in Entries /\ file[request.entry] \in States
          /\ CreateMarker(request.entry)
      BY <1>6 DEF Mark, Requests
    <2>2. dirty' \subseteq Markers /\ unmarked' \subseteq Entries
      BY <2>1, CreateMarkerType
    <2>3. written' \in [Entries -> States]
      BY <1>6, <2>1 DEF Mark
    <2> QED
      BY <1>6, <2>2, <2>3 DEF Mark
  <1>7. CASE MarkFails
    <2>1. request \in Requests /\ request.entry \in Entries
      BY <1>7 DEF MarkFails, Requests
    <2>2. dirty' \subseteq Markers /\ unmarked' \subseteq Entries
      <3>1. CASE LeaveUnmarked
        BY <2>1, <3>1 DEF LeaveUnmarked
      <3>2. CASE CreateMarker(request.entry)
        BY <2>1, <3>2, CreateMarkerType
      <3> QED
        BY <1>7, <3>1, <3>2 DEF MarkFails
    <2>3. faults' \in 0..MaxFaults
      BY <1>7, FaultCounts DEF MarkFails
    <2> QED
      BY <1>7, <2>2, <2>3 DEF MarkFails
  <1>8. CASE TakeSnapshot \/ ValidState \/ InvalidState \/ Fetched
    BY <1>8 DEF TakeSnapshot, ValidState, InvalidState, Fetched, EndCycle
  <1>9. CASE Capture
    BY <1>9 DEF Capture, Trees
  <1>10. CASE Pushed \/ Clear
    BY <1>10 DEF Pushed, Clear, EndCycle
  <1>11. CASE NetworkFails \/ KillCommand
    BY <1>11, FaultCounts DEF NetworkFails, KillCommand, EndCycle
  <1>14. CASE KillService
    <2>1. dirty' \subseteq Markers /\ unmarked' \subseteq Entries
      BY <1>14 DEF KillService, LeaveUnmarked, Requests
    <2>2. faults' \in 0..MaxFaults
      BY <1>14, FaultCounts DEF KillService
    <2> QED
      BY <1>14, <2>1, <2>2 DEF KillService, EndCycle
  <1>15. CASE AskPage \/ PageReads \/ PageAnswers
    BY <1>15 DEF AskPage, PageReads, PageAnswers
  <1>12. ASSUME NEW s \in SUBSET Entries, Activate(s)
         PROVE  Shapes'
    BY <1>12 DEF Activate
  <1>13. CASE Repair
    BY <1>13 DEF Repair
  <1> QED
    BY <1>1, <1>2, <1>3, <1>4, <1>5, <1>6, <1>7, <1>8, <1>9, <1>10, <1>11, <1>12, <1>13,
       <1>14, <1>15
    DEF Next, Mutation, Rendering, Publication

\* Files, markers and what the cycle holds keep their types, an edit never goes
\* past the bound its entry has.
THEOREM StateTypeCorrect == Spec => []TypeOK
  <1>1. Init => Shapes
    BY BoundsAssumption DEF Init, Shapes, TypeOK, Room, At, States, Fresh, Trees
  <1>2. Shapes /\ [Next]_vars => Shapes'
    <2>1. CASE UNCHANGED vars
      BY <2>1 DEF vars, store, sync, history, Shapes, TypeOK, Room, At
    <2> QED
      BY <2>1, ShapesStep
  <1>3. Shapes => TypeOK
    BY DEF Shapes
  <1> QED
    BY <1>1, <1>2, <1>3, PTL DEF Spec
-----------------------------------------------------------------------------
(* NoTemporaryPublished *)

\* The temporary files there are belong to the request being handled, or to a
\* failed write that could not remove its own.
OursOrUnremoved == \A e \in temp : e \in unremoved \/ (At("temp") /\ request.entry = e)

\* On one thread: nothing is asked for while the cycle does not await, and past
\* validation, or with nothing killed so far, temporary files have their owner.
OwnTemporary ==
    SharedThread =>
        /\ published.temp \subseteq unremoved
        /\ stage = "push" => tree.temp \subseteq unremoved
        /\ stage \notin {"idle", "fetch", "push"} => request = None /\ page = "none"
        /\ stage \in {"fetch", "capture", "push"} => OursOrUnremoved
        /\ faults = 0 => OursOrUnremoved /\ unremoved = {} /\ conflict = None

LEMMA TemporaryStep ==
    ASSUME OwnTemporary, Shapes, Next
    PROVE  OwnTemporary'
  <1> USE DEF OwnTemporary, OursOrUnremoved, SharedThread, At, store, sync, history
  <1>0. UNCHANGED deployment
    BY DEF Next, Mutation, Rendering, Publication, Receive, AlreadyRead, CreateTemporary,
           WriteFails, Rename, Mark, MarkFails, AskPage, PageReads, PageAnswers,
           TakeSnapshot, ValidState, InvalidState, Fetched, Capture, Pushed, NetworkFails,
           Clear, Activate, KillService, KillCommand, Repair
  <1>f. ASSUME NEW kind, Fault(kind)
        PROVE  faults' # 0
    BY <1>f, FaultRemains DEF Shapes, TypeOK
  <1>1. ASSUME NEW kind \in {"read", "edit"}, NEW e \in Entries, Receive(kind, e)
        PROVE  OwnTemporary'
    BY <1>0, <1>1 DEF Receive, MayReceive
  <1>2. CASE AlreadyRead \/ Mark
    BY <1>0, <1>2 DEF AlreadyRead, Mark
  <1>3. CASE WriteFails \/ MarkFails
    BY <1>0, <1>3, <1>f DEF WriteFails, MarkFails
  <1>4. CASE CreateTemporary
    <2>1. request' = [request EXCEPT !.at = "temp"] /\ request \in Requests
      BY <1>4 DEF CreateTemporary, Shapes, TypeOK
    <2>2. request'.at = "temp" /\ request'.entry = request.entry /\ request' # None
      BY <2>1, RequestMoves, NoneAssumption
    <2>3. /\ UNCHANGED <<stage, tree, published, unremoved, page, faults, conflict>>
          /\ temp' = temp \cup {request.entry}
      BY <1>4 DEF CreateTemporary
    <2>4. request # None /\ request.at # "temp"
      BY <1>4 DEF CreateTemporary
    <2> QED
      BY <1>0, <2>2, <2>3, <2>4
  <1>5. CASE Rename
    <2>1. /\ UNCHANGED <<stage, tree, published, unremoved, page, faults, conflict>>
          /\ temp' = temp \ {request.entry} /\ request # None
      BY <1>5 DEF Rename
    <2> QED
      BY <1>0, <2>1
  <1>6. CASE AskPage \/ PageReads \/ PageAnswers
    BY <1>0, <1>6 DEF AskPage, MayReceive, PageReads, PageAnswers
  <1>7. CASE TakeSnapshot \/ ValidState \/ Fetched
    BY <1>0, <1>7 DEF TakeSnapshot, ValidState, Fetched, MayPublish
  <1>8. CASE InvalidState
    BY <1>0, <1>8 DEF InvalidState, EndCycle, MayPublish
  <1>9. CASE Capture
    <2>1. /\ UNCHANGED <<temp, request, published, unremoved, page, faults, conflict>>
          /\ tree'.temp = temp /\ stage = "capture" /\ stage' \in {"settled", "push"}
          /\ (SharedThread => request = None /\ page = "none")
      BY <1>9 DEF Capture, MayPublish
    <2> QED
      BY <1>0, <2>1
  <1>10. CASE Pushed
    <2>1. /\ stage = "push" /\ stage' = "clear" /\ published' = tree
          /\ UNCHANGED <<temp, request, unremoved, page, faults, conflict>>
          /\ (SharedThread => request = None /\ page = "none")
      BY <1>10 DEF Pushed, MayPublish
    <2> QED
      BY <1>0, <2>1
  <1>11. CASE Clear
    BY <1>0, <1>11 DEF Clear, EndCycle, MayPublish
  <1>12. CASE NetworkFails \/ KillService
    BY <1>0, <1>12, <1>f DEF NetworkFails, KillService, EndCycle, MayPublish
  <1>13. CASE KillCommand
    BY <1>0, <1>13 DEF KillCommand
  <1>14. ASSUME NEW s \in SUBSET Entries, Activate(s)
         PROVE  OwnTemporary'
    BY <1>0, <1>14 DEF Activate
  <1>15. CASE Repair
    BY <1>0, <1>15 DEF Repair
  <1> QED
    BY <1>1, <1>2, <1>3, <1>4, <1>5, <1>6, <1>7, <1>8, <1>9, <1>10, <1>11, <1>12, <1>13,
       <1>14, <1>15 DEF Next, Mutation, Rendering, Publication

LEMMA TemporaryInv == Spec => [](Shapes /\ OwnTemporary)
  <1>1. Init => Shapes /\ OwnTemporary
    BY BoundsAssumption
    DEF Init, Shapes, TypeOK, Room, At, States, Fresh, Trees, OwnTemporary, OursOrUnremoved
  <1>2. Shapes /\ OwnTemporary /\ [Next]_vars => (Shapes /\ OwnTemporary)'
    <2>1. CASE UNCHANGED vars
      BY <2>1 DEF vars, store, sync, history, Shapes, TypeOK, Room, At, OwnTemporary,
                  OursOrUnremoved, SharedThread
    <2> QED
      BY <2>1, ShapesStep, TemporaryStep
  <1> QED
    BY <1>1, <1>2, PTL DEF Spec

\* Where the service synchronizes, no temporary file reaches the remote, whatever
\* is killed between the steps of a write, but one whose removal failed too.
THEOREM TemporaryStaysLocal == Spec => []NoTemporaryPublished
  <1>1. OwnTemporary => NoTemporaryPublished
    BY DEF OwnTemporary, NoTemporaryPublished
  <1> QED
    BY <1>1, TemporaryInv, PTL

\* Where the service synchronizes, validation stops nothing before something has
\* failed: what it could turn down belongs to a request it cannot meet.
THEOREM QuietStateIsValid == Spec => []QuietStateValidates
  <1>1. OwnTemporary => QuietStateValidates
    BY DEF OwnTemporary, QuietStateValidates
  <1> QED
    BY <1>1, TemporaryInv, PTL
-----------------------------------------------------------------------------
(* SyncedIsPublished *)

AtMost(s, t) == (s.read => t.read) /\ s.edits <= t.edits

LEMMA AtMostTransitive ==
    ASSUME NEW a \in States, NEW b \in States, NEW c \in States, AtMost(a, b), AtMost(b, c)
    PROVE  AtMost(a, c)
  <1>1. a.edits <= c.edits
    BY BoundsAssumption DEF States, AtMost
  <1>2. a.read => c.read
    BY Zenon DEF AtMost
  <1> QED
    BY <1>1, <1>2, Zenon DEF AtMost

LEMMA AtMostReflexive ==
    ASSUME NEW a \in States
    PROVE  AtMost(a, a)
  BY BoundsAssumption DEF States, AtMost

LEMMA WantedGrows ==
    ASSUME Shapes, At("temp")
    PROVE  AtMost(file[request.entry], Wanted)
  <1> DEFINE old == file[request.entry]
  <1>1. request \in Requests
    BY DEF Shapes, TypeOK, At
  <1>2. request.entry \in Entries /\ request.kind \in {"read", "edit"}
    BY <1>1 DEF Requests
  <1>3. old \in States
    BY <1>2 DEF Shapes, TypeOK
  <1>4. CASE request.kind = "read"
    <2>1. Wanted = [old EXCEPT !.read = TRUE]
      BY <1>4 DEF Wanted
    <2>2. Wanted.edits = old.edits /\ Wanted.read
      BY <1>3, <2>1 DEF States
    <2> QED
      BY <1>3, <2>2, BoundsAssumption DEF AtMost, States
  <1>5. CASE request.kind = "edit"
    <2>1. Wanted = [old EXCEPT !.edits = @ + 1]
      BY <1>2, <1>5 DEF Wanted
    <2>2. Wanted.edits = old.edits + 1 /\ Wanted.read = old.read
      BY <1>3, <2>1 DEF States
    <2> QED
      BY <1>3, <2>2, BoundsAssumption DEF AtMost, States
  <1> QED
    BY <1>2, <1>4, <1>5

\* The request has stored a read mark, and its marker is to come.
Storing(e) == At("renamed") /\ request.entry = e /\ request.kind = "read"

EditsTracked(e) ==
    \/ written[e].edits <= published.file[e].edits
    \/ \E m \in dirty : m.entry = e /\ written[e].edits <= m.of.edits

ReadTracked(e) ==
    file[e].read => \/ published.file[e].read
                    \/ \E m \in dirty : m.entry = e /\ m.of.read
                    \/ e \in unmarked
                    \/ Storing(e)

\* Files only grow, so what a marker was made for, a tree captured after that has;
\* what is reported and not yet on the remote still has a marker that is as new,
\* but for a read mark whose marker is to come, or never came.
Tracked ==
    /\ \A e \in Entries :
          /\ AtMost(tree.file[e], file[e]) /\ AtMost(published.file[e], file[e])
          /\ stage = "push" => AtMost(published.file[e], tree.file[e])
          /\ written[e].read => file[e].read
          /\ EditsTracked(e) /\ ReadTracked(e)
    /\ \A m \in dirty \cup snap : AtMost(m.of, file[m.entry])
    /\ stage \in {"push", "settled", "clear"} =>
          \A m \in snap : AtMost(m.of, tree.file[m.entry])
    /\ stage \in {"settled", "clear"} => tree = published

\* While a page is made no request is handled: what it has seen published stays so.
PageIsTrue == SyncedIsPublished /\ (page # "none" => request = None)

\* The file grows, at Rename, and the request goes on.
LEMMA RenameTracked ==
    ASSUME Tracked, Shapes, Rename
    PROVE  Tracked'
  <1>1. /\ file \in [Entries -> States] /\ dirty \cup snap \subseteq Markers
        /\ tree \in Trees /\ published \in Trees
    BY DEF Shapes, TypeOK
  <1>2. /\ Wanted \in States /\ request.entry \in Entries /\ At("temp")
        /\ request \in Requests
    BY WantedType DEF Rename, Shapes, TypeOK, At
  <1>3. ASSUME NEW e \in Entries
        PROVE  file[e] \in States /\ file'[e] \in States /\ AtMost(file[e], file'[e])
    BY <1>1, <1>2, <1>3, WantedGrows, AtMostReflexive DEF Rename
  <1>4. ASSUME NEW e \in Entries, NEW a \in States, AtMost(a, file[e])
        PROVE  AtMost(a, file'[e])
    BY <1>3, <1>4, AtMostTransitive
  <1>5. \A e \in Entries : tree.file[e] \in States /\ published.file[e] \in States
    BY <1>1 DEF Trees
  <1>6. \A m \in dirty \cup snap : m.entry \in Entries /\ m.of \in States
    BY <1>1 DEF Markers
  <1>7. UNCHANGED <<tree, published, stage, snap, dirty, written, unmarked>>
    BY DEF Rename, sync, history
  <1>8. ASSUME NEW e \in Entries
        PROVE  ReadTracked(e)'
    <2>1. ~Storing(e)
      BY <1>2 DEF Storing, At
    <2>2. CASE file'[e].read = file[e].read
      BY <1>7, <2>1, <2>2 DEF Tracked, ReadTracked
    <2>3. CASE e = request.entry /\ request.kind = "read"
      <3>1. request' = [request EXCEPT !.at = "renamed"]
        BY DEF Rename
      <3>2. request' \in Requests /\ request'.entry = e /\ request'.kind = "read"
            /\ request'.at = "renamed"
        BY <1>2, <2>3, <3>1, RequestMoves
      <3>3. Storing(e)'
        BY <3>2, NoneAssumption DEF Storing, At
      <3> QED
        BY <3>3 DEF ReadTracked
    <2>4. CASE e = request.entry /\ request.kind = "edit"
      <3>1. file'[e] = [file[e] EXCEPT !.edits = @ + 1]
        BY <1>1, <2>4 DEF Rename, Wanted
      <3>2. file'[e].read = file[e].read
        BY <1>3, <3>1 DEF States
      <3> QED
        BY <2>2, <3>2
    <2>5. CASE e # request.entry
      BY <1>1, <2>2, <2>5 DEF Rename
    <2> QED
      BY <1>2, <2>3, <2>4, <2>5 DEF Requests
  <1>9. \A e \in Entries : EditsTracked(e)' /\ (written'[e].read => file'[e].read)
    BY <1>3, <1>7, Zenon DEF Tracked, EditsTracked, AtMost
  <1> QED
    BY <1>4, <1>5, <1>6, <1>7, <1>8, <1>9, Zenon DEF Tracked

\* A marker for the entry as it is covers whatever was written to it.
LEMMA CreateTracked ==
    ASSUME Tracked, Shapes, NEW e0 \in Entries, CreateMarker(e0), request' = None,
           request.entry = e0, UNCHANGED <<file, tree, published, stage, snap>>,
           \/ UNCHANGED written
           \/ written' = [written EXCEPT ![e0] = file[e0]]
    PROVE  Tracked'
  <1> DEFINE m0 == [entry |-> e0, of |-> file[e0]]
  <1>1. dirty' = dirty \cup {m0} /\ unmarked' = unmarked \ {e0}
    BY DEF CreateMarker
  <1>2. m0.entry = e0 /\ m0.of = file[e0] /\ m0 \in dirty'
    BY <1>1
  <1>3. file[e0] \in States /\ AtMost(file[e0], file[e0])
    BY AtMostReflexive DEF Shapes, TypeOK
  <1> HIDE DEF m0
  <1>4. ASSUME NEW e \in Entries
        PROVE  EditsTracked(e)' /\ (written'[e].read => file'[e].read)
    <2>1. CASE written'[e] = written[e]
      BY <1>1, <2>1 DEF Tracked, EditsTracked
    <2>2. CASE e = e0 /\ written'[e] = file[e]
      <3>1. written'[e].edits <= m0.of.edits
        BY <1>2, <1>3, <2>2 DEF AtMost
      <3> QED
        BY <1>2, <2>2, <3>1 DEF EditsTracked
    <2> QED
      BY <2>1, <2>2 DEF Shapes, TypeOK
  <1>5. ASSUME NEW e \in Entries
        PROVE  ReadTracked(e)'
    <2>1. CASE e = e0
      BY <1>2, <2>1 DEF ReadTracked
    <2>2. CASE e # e0
      <3>1. ~Storing(e)
        BY <2>2 DEF Storing
      <3> QED
        BY <1>1, <2>2, <3>1 DEF Tracked, ReadTracked
    <2> QED
      BY <2>1, <2>2
  <1>6. \A m \in dirty' \cup snap : AtMost(m.of, file[m.entry])
    BY <1>1, <1>2, <1>3 DEF Tracked
  <1> QED
    BY <1>1, <1>4, <1>5, <1>6 DEF Tracked

\* Where a request ends without a marker, the read mark it stored is remembered.
LEMMA LeaveTracked ==
    ASSUME Tracked, Shapes, LeaveUnmarked, request' = None,
           UNCHANGED <<file, published, written>>,
           \/ UNCHANGED <<tree, snap, stage>>
           \/ stage' = "idle" /\ snap' = {} /\ tree' = published
    PROVE  Tracked'
  <1>1. ASSUME NEW e \in Entries
        PROVE  EditsTracked(e)' /\ ReadTracked(e)'
    BY DEF Tracked, EditsTracked, ReadTracked, Storing, LeaveUnmarked
  <1> QED
    BY <1>1 DEF Tracked, LeaveUnmarked

LEMMA CaptureTracked ==
    ASSUME Tracked, Shapes, Capture
    PROVE  Tracked'
  <1>1. \A e \in Entries : AtMost(file[e], file[e])
    BY AtMostReflexive DEF Shapes, TypeOK
  <1>2. tree'.file = file /\ stage' \in {"push", "settled"}
        /\ (stage' = "settled" => tree' = published)
    BY DEF Capture
  <1>3. UNCHANGED <<file, published, snap, dirty, written, unmarked, request>>
    BY DEF Capture, store, history
  <1>4. \A e \in Entries : EditsTracked(e)' /\ ReadTracked(e)'
    BY <1>3 DEF Tracked, EditsTracked, ReadTracked, Storing, At
  <1> QED
    BY <1>1, <1>2, <1>3, <1>4 DEF Tracked

LEMMA PushedTracked ==
    ASSUME Tracked, Shapes, Pushed
    PROVE  Tracked'
  <1>1. /\ tree \in Trees /\ published \in Trees /\ written \in [Entries -> States]
    BY DEF Shapes, TypeOK
  <1>2. \A e \in Entries : /\ tree.file[e] \in States /\ published.file[e] \in States
                          /\ written[e] \in States
    BY <1>1 DEF Trees
  <1>3. /\ published' = tree /\ stage = "push" /\ stage' = "clear"
        /\ UNCHANGED <<file, tree, snap, dirty, written, unmarked, request>>
    BY DEF Pushed, store, history
  <1>4. ASSUME NEW e \in Entries, written[e].edits <= published.file[e].edits
        PROVE  written[e].edits <= tree.file[e].edits
    <2>1. published.file[e].edits <= tree.file[e].edits
      BY <1>3 DEF Tracked, AtMost
    <2> QED
      BY <1>2, <1>4, <2>1, BoundsAssumption DEF States
  <1>5. ASSUME NEW e \in Entries
        PROVE  EditsTracked(e)'
    BY <1>3, <1>4 DEF Tracked, EditsTracked
  <1>6. ASSUME NEW e \in Entries
        PROVE  ReadTracked(e)'
    BY <1>3, Zenon DEF Tracked, ReadTracked, Storing, At, AtMost
  <1> QED
    BY <1>3, <1>5, <1>6 DEF Tracked

\* What is cleared was made for what the remote has by now.
LEMMA ClearTracked ==
    ASSUME Tracked, Shapes, Clear
    PROVE  Tracked'
  <1>1. /\ published \in Trees /\ written \in [Entries -> States]
        /\ dirty \subseteq Markers
    BY DEF Shapes, TypeOK
  <1>2. /\ stage \in {"settled", "clear"} /\ tree = published /\ stage' = "idle"
        /\ snap' = {} /\ dirty' = dirty \ snap
        /\ UNCHANGED <<file, tree, published, written, unmarked, request>>
    BY DEF Clear, EndCycle, store, history, Tracked
  <1>3. ASSUME NEW m \in dirty
        PROVE  \/ m \in dirty'
               \/ /\ m.of.edits <= published.file[m.entry].edits
                  /\ m.of.read => published.file[m.entry].read
    <2>1. CASE m \in snap
      <3>1. AtMost(m.of, published.file[m.entry])
        BY <1>2, <2>1 DEF Tracked
      <3>2. m.of.edits <= published.file[m.entry].edits
        BY <3>1 DEF AtMost
      <3>3. m.of.read => published.file[m.entry].read
        BY <3>1, Zenon DEF AtMost
      <3> QED
        BY <3>2, <3>3, Zenon
    <2> QED
      BY <1>2, <2>1
  <1>4. ASSUME NEW e \in Entries
        PROVE  EditsTracked(e)'
    <2>1. CASE \E m \in dirty : m.entry = e /\ written[e].edits <= m.of.edits
      <3>1. PICK m \in dirty : m.entry = e /\ written[e].edits <= m.of.edits
        BY <2>1
      <3>2. CASE m.of.edits <= published.file[m.entry].edits
        <4>1. m.of \in States /\ written[e] \in States /\ published.file[e] \in States
          BY <1>1, <3>1 DEF Markers, Trees
        <4>2. written[e].edits <= published.file[e].edits
          BY <3>1, <3>2, <4>1, BoundsAssumption DEF States
        <4> QED
          BY <1>2, <4>2 DEF EditsTracked
      <3>3. CASE m \in dirty'
        BY <1>2, <3>1, <3>3 DEF EditsTracked
      <3> QED
        BY <1>3, <3>2, <3>3
    <2> QED
      BY <1>2, <2>1 DEF Tracked, EditsTracked
  <1>5. ASSUME NEW e \in Entries
        PROVE  ReadTracked(e)'
    <2>1. ASSUME NEW m \in dirty, m.entry = e, m.of.read
          PROVE  published.file[e].read \/ m \in dirty'
      BY <1>3, <2>1, Zenon
    <2>2. Storing(e)' <=> Storing(e)
      BY <1>2 DEF Storing, At
    <2> QED
      BY <1>2, <2>1, <2>2, Zenon DEF Tracked, ReadTracked
  <1> QED
    BY <1>2, <1>4, <1>5 DEF Tracked

LEMMA AlreadyReadTracked ==
    ASSUME Tracked, Shapes, AlreadyRead
    PROVE  Tracked'
  <1> DEFINE e0 == request.entry
  <1>1. e0 \in Entries /\ file[e0].read /\ written \in [Entries -> States]
    BY DEF AlreadyRead, At, Shapes, TypeOK, Requests
  <1>2. /\ written' = [written EXCEPT ![e0].read = TRUE]
        /\ UNCHANGED <<file, tree, published, stage, snap, dirty, unmarked>>
    BY DEF AlreadyRead, store, sync
  <1>3. ASSUME NEW e \in Entries
        PROVE  /\ written'[e].edits = written[e].edits
               /\ written'[e].read => written[e].read \/ e = e0
    BY <1>1, <1>2 DEF States
  <1>4. \A e \in Entries : ~Storing(e)
    BY DEF AlreadyRead, At, Storing
  <1>5. \A e \in Entries : EditsTracked(e)' /\ ReadTracked(e)'
    BY <1>2, <1>3, <1>4 DEF Tracked, EditsTracked, ReadTracked
  <1> QED
    BY <1>1, <1>2, <1>3, <1>5 DEF Tracked

LEMMA TrackedStep ==
    ASSUME Tracked, Shapes, Next
    PROVE  Tracked'
  <1> USE DEF Storing, At, store, sync, history
  <1>1. ASSUME UNCHANGED <<file, published, dirty, written, unmarked>>,
               \/ UNCHANGED <<tree, snap, stage>>
               \/ stage' = "idle" /\ snap' = {} /\ tree' = published,
               \A e \in Entries : Storing(e) => Storing(e)'
        PROVE  Tracked'
    <2>1. \A e \in Entries : EditsTracked(e)' /\ ReadTracked(e)'
      BY <1>1 DEF Tracked, EditsTracked, ReadTracked
    <2> QED
      BY <1>1, <2>1 DEF Tracked
  <1>2. ASSUME NEW kind \in {"read", "edit"}, NEW e \in Entries, Receive(kind, e)
        PROVE  Tracked'
    BY <1>1, <1>2 DEF Receive, MayReceive
  <1>3. CASE CreateTemporary \/ WriteFails \/ Repair
    BY <1>1, <1>3 DEF CreateTemporary, WriteFails, Repair
  <1>4. CASE AskPage \/ PageReads \/ PageAnswers
    BY <1>1, <1>4 DEF AskPage, PageReads, PageAnswers
  <1>5. CASE TakeSnapshot \/ ValidState \/ Fetched
    <2>1. /\ UNCHANGED <<file, tree, published, dirty, written, unmarked, request>>
          /\ stage' \in {"validate", "fetch", "capture"} /\ snap' \subseteq dirty \cup snap
      BY <1>5 DEF TakeSnapshot, ValidState, Fetched
    <2>2. \A e \in Entries : EditsTracked(e)' /\ ReadTracked(e)'
      BY <2>1 DEF Tracked, EditsTracked, ReadTracked
    <2> QED
      BY <2>1, <2>2 DEF Tracked
  <1>6. CASE InvalidState \/ NetworkFails \/ KillCommand
    BY <1>1, <1>6 DEF InvalidState, NetworkFails, KillCommand, EndCycle
  <1>7. ASSUME NEW s \in SUBSET Entries, Activate(s)
        PROVE  Tracked'
    BY <1>1, <1>7 DEF Activate
  <1>8. CASE Mark
    <2>1. request.entry \in Entries
      BY <1>8 DEF Mark, Shapes, TypeOK, Requests
    <2> QED
      BY <1>8, <2>1, CreateTracked DEF Mark
  <1>9. CASE MarkFails
    <2>1. request.entry \in Entries
      BY <1>9 DEF MarkFails, Shapes, TypeOK, Requests
    <2>2. request' = None /\ UNCHANGED <<file, tree, published, stage, snap, written>>
      BY <1>9 DEF MarkFails
    <2>3. CASE LeaveUnmarked
      BY <2>2, <2>3, LeaveTracked
    <2>4. CASE CreateMarker(request.entry)
      BY <2>1, <2>2, <2>4, CreateTracked
    <2> QED
      BY <1>9, <2>3, <2>4 DEF MarkFails
  <1>10. CASE KillService
    <2>1. /\ request' = None /\ UNCHANGED <<file, published, written>>
          /\ \/ UNCHANGED <<tree, snap, stage>>
             \/ stage' = "idle" /\ snap' = {} /\ tree' = published
      BY <1>10 DEF KillService, EndCycle
    <2>2. CASE At("renamed")
      BY <1>10, <2>1, <2>2, LeaveTracked DEF KillService
    <2>3. CASE ~At("renamed")
      BY <1>1, <1>10, <2>1, <2>3 DEF KillService
    <2> QED
      BY <2>2, <2>3
  <1> QED
    BY <1>2, <1>3, <1>4, <1>5, <1>6, <1>7, <1>8, <1>9, <1>10, AlreadyReadTracked,
       RenameTracked, CaptureTracked, PushedTracked, ClearTracked
    DEF Next, Mutation, Rendering, Publication

\* When the page finds no marker, what was reported is on the remote; what is there
\* stays there, and nothing else is reported before the page has answered.
LEMMA PageStep ==
    ASSUME PageIsTrue, Tracked, Shapes, Next
    PROVE  PageIsTrue'
  <1> USE DEF At, store, sync, history, SyncedIsPublished
  <1>1. CASE PageReads
    <2>1. UNCHANGED <<request, written, published, unmarked, file, dirty>>
          /\ request = None
      BY <1>1 DEF PageReads, PageIsTrue
    <2>2. page' = "synced" => dirty = {}
      BY <1>1 DEF PageReads
    <2>3. ASSUME NEW e \in Entries, dirty = {}
          PROVE  /\ written[e].edits <= published.file[e].edits
                 /\ written[e].read => published.file[e].read \/ e \in unmarked
      BY <2>1, <2>3 DEF Tracked, EditsTracked, ReadTracked, Storing
    <2> QED
      BY <2>1, <2>2, <2>3 DEF PageIsTrue
  <1>2. CASE Pushed
    <2>1. /\ published' = tree /\ stage = "push"
          /\ UNCHANGED <<written, unmarked, page, request>>
      BY <1>2 DEF Pushed
    <2>2. ASSUME NEW e \in Entries
          PROVE  /\ written[e].edits <= published.file[e].edits
                     => written[e].edits <= tree.file[e].edits
                 /\ published.file[e].read => tree.file[e].read
      <3>1. AtMost(published.file[e], tree.file[e])
        BY <2>1 DEF Tracked
      <3>2. /\ written[e] \in States /\ published.file[e] \in States
            /\ tree.file[e] \in States
        BY DEF Shapes, TypeOK, Trees
      <3>3. published.file[e].edits <= tree.file[e].edits
        BY <3>1 DEF AtMost
      <3>4. published.file[e].read => tree.file[e].read
        BY <3>1, Zenon DEF AtMost
      <3> QED
        BY <3>2, <3>3, <3>4, BoundsAssumption DEF States
    <2> QED
      BY <2>1, <2>2 DEF PageIsTrue
  <1>3. ASSUME page' = page, UNCHANGED <<written, published, unmarked, request>>
        PROVE  PageIsTrue'
    BY <1>3 DEF PageIsTrue
  <1>4. ASSUME page = "none" \/ request # None, page' = page
        PROVE  page' = "none"
    BY <1>4 DEF PageIsTrue
  <1>5. ASSUME NEW kind \in {"read", "edit"}, NEW e \in Entries, Receive(kind, e)
        PROVE  PageIsTrue'
    BY <1>5 DEF Receive, MayReceive, PageIsTrue
  <1>6. CASE AlreadyRead \/ CreateTemporary \/ WriteFails \/ Rename \/ Mark \/ MarkFails
    BY <1>4, <1>6
    DEF AlreadyRead, CreateTemporary, WriteFails, Rename, Mark, MarkFails, PageIsTrue
  <1>7. CASE AskPage
    BY <1>7 DEF AskPage, MayReceive, PageIsTrue
  <1>8. CASE PageAnswers \/ KillService
    BY <1>8 DEF PageAnswers, KillService, PageIsTrue
  <1>9. CASE \/ TakeSnapshot \/ ValidState \/ InvalidState \/ Fetched \/ Capture
             \/ NetworkFails \/ Clear \/ KillCommand \/ Repair
    BY <1>3, <1>9 DEF TakeSnapshot, ValidState, InvalidState, Fetched, Capture,
       NetworkFails, Clear, KillCommand, Repair
  <1>10. ASSUME NEW s \in SUBSET Entries, Activate(s)
         PROVE  PageIsTrue'
    BY <1>3, <1>10 DEF Activate
  <1> QED
    BY <1>1, <1>2, <1>5, <1>6, <1>7, <1>8, <1>9, <1>10
    DEF Next, Mutation, Rendering, Publication

\* "Synced" is only said when every mutation reported to the reader, a repeated
\* one included, is on the remote, with the service or a command synchronizing,
\* through failures and kills; excepted is a read mark whose marker never came.
THEOREM SyncedIsTrue == Spec => []SyncedIsPublished
  <1>1. Init => Shapes /\ Tracked /\ PageIsTrue
    <2> SUFFICES ASSUME Init
                 PROVE  Shapes /\ Tracked /\ PageIsTrue
      OBVIOUS
    <2>1. Shapes
      BY BoundsAssumption DEF Init, Shapes, TypeOK, Room, At, States, Fresh, Trees
    <2>2. /\ tree.file = file /\ published.file = file /\ written = file
          /\ dirty = {} /\ snap = {} /\ stage = "idle" /\ page = "none"
      BY DEF Init
    <2>3. \A e \in Entries : AtMost(file[e], file[e])
      BY <2>1, AtMostReflexive DEF Shapes, TypeOK
    <2>4. \A e \in Entries : file[e].edits <= file[e].edits
      BY <2>3 DEF AtMost
    <2>5. Tracked
      BY <2>2, <2>3, <2>4 DEF Tracked, EditsTracked, ReadTracked
    <2> QED
      BY <2>1, <2>2, <2>5 DEF PageIsTrue, SyncedIsPublished
  <1>2. Shapes /\ Tracked /\ PageIsTrue /\ [Next]_vars => (Shapes /\ Tracked /\ PageIsTrue)'
    <2>1. CASE UNCHANGED vars
      BY <2>1 DEF vars, store, sync, history, Shapes, TypeOK, Room, At, Tracked, EditsTracked,
                  ReadTracked, Storing, PageIsTrue, SyncedIsPublished
    <2> QED
      BY <2>1, ShapesStep, TrackedStep, PageStep
  <1>3. PageIsTrue => SyncedIsPublished
    BY DEF PageIsTrue
  <1> QED
    BY <1>1, <1>2, <1>3, PTL DEF Spec
=============================================================================
