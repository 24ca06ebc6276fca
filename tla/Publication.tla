---------------------------- MODULE Publication -----------------------------
(***************************************************************************)
(* What the indexing subsystem promises those who read one file: versions  *)
(* are published one after another, each at one instant and whole; from    *)
(* that instant PostgreSQL offers all chunks of that version and none of   *)
(* any other, while the index, one document at a time and in its own time, *)
(* comes to show documents of versions that have been published.           *)
(***************************************************************************)
EXTENDS Naturals

CONSTANTS Versions, Docs, Chunks, DefaultVersion

VARIABLES
    published,    \* the versions published so far
    offered,      \* the chunks a reader of the tables is offered
    searchable    \* the documents a search of the index can find

vars == <<published, offered, searchable>>

ChunksOf(v) == {v} \X Chunks \X {0}

Init == published = {} /\ offered = {} /\ searchable = {}

Publish(v) ==
    /\ \A u \in published : u < v
    /\ published' = published \cup {v}
    /\ offered' = ChunksOf(v)
    /\ UNCHANGED searchable

(* DefaultVersion is exempt: the active_* columns of a new file point to a *)
(* version nobody has published, and a reconciliation believes them.       *)
Show(d) ==
    /\ d[1] \in published \cup {DefaultVersion}
    /\ searchable' = searchable \cup {d}
    /\ UNCHANGED <<published, offered>>

Hide(d) ==
    /\ searchable' = searchable \ {d}
    /\ UNCHANGED <<published, offered>>

Next ==
    \/ \E v \in Versions : Publish(v)
    \/ \E d \in Docs : Show(d) \/ Hide(d)

Spec == Init /\ [][Next]_vars
=============================================================================
