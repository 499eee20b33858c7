----------------------------- MODULE DirtyOutbox -----------------------------
(***************************************************************************)
(* What state publication promises the reader, without git, files or      *)
(* crashes: an outbox.  A write is acknowledged once it is marked dirty;   *)
(* state trees reach the remote branch; and a marker may go only when a    *)
(* tree with its version, or a later one, has.                             *)
(* StatePublication.tla is shown to implement this module.                 *)
(***************************************************************************)
EXTENDS Naturals

CONSTANTS Entries

VARIABLES
    written,    \* version of each entry in the reader's own files
    acked,      \* version last acknowledged to the reader
    dirty,      \* markers: [entry, version]
    published   \* entry versions of every tree the remote branch has had

vars == <<written, acked, dirty, published>>

Markers == [entry : Entries, version : Nat]

Covered(m) == \E t \in published : t[m.entry] >= m.version

Init ==
    /\ written = [e \in Entries |-> 0] /\ acked = written
    /\ dirty = {} /\ published = {written}

Write(e) ==
    /\ written' = [written EXCEPT ![e] = @ + 1]
    /\ UNCHANGED <<acked, dirty, published>>

Acknowledge(e) ==
    /\ acked' = [acked EXCEPT ![e] = written[e]]
    /\ dirty' = dirty \cup {[entry |-> e, version |-> written[e]]}
    /\ UNCHANGED <<written, published>>

\* A tree reaches the remote branch; it holds only versions that were written.
Publish(t) ==
    /\ \A e \in Entries : t[e] <= written[e]
    /\ published' = published \cup {t}
    /\ UNCHANGED <<written, acked, dirty>>

\* Markers go, each of them covered by something published.
Settle ==
    /\ dirty' \subseteq dirty
    /\ \A m \in dirty \ dirty' : Covered(m)
    /\ UNCHANGED <<written, acked, published>>

Next ==
    \/ \E e \in Entries : Write(e) \/ Acknowledge(e)
    \/ \E t \in published' : Publish(t)
    \/ Settle

Spec == Init /\ [][Next]_vars

\* An acknowledged version is marked dirty or has been published.
NothingLost ==
    \A e \in Entries :
        LET m == [entry |-> e, version |-> acked[e]] IN m \in dirty \/ Covered(m)
=============================================================================
