----------------------------- MODULE DedupStore -----------------------------
(***************************************************************************)
(* What the deduplicating store promises its clients, with no workers,    *)
(* caches or backends: a catalog of files, each naming its content, and   *)
(* the set of contents whose data is kept.  A file is only ever added for *)
(* content whose data is kept, and data is only ever dropped once no file *)
(* names it; data no file names is eventually dropped (spec sections 3,   *)
(* 4.1 Store and Remove, 8).                                               *)
(***************************************************************************)
EXTENDS StoreConstants

VARIABLES
    catalog,    \* file id -> its content, or NoRow
    stored      \* contents whose data the store keeps

avars == <<catalog, stored>>

DedupTypeOK == /\ catalog \in [IDS -> CONTENT \cup {NoRow}]
               /\ stored \subseteq CONTENT

DedupInit == /\ catalog = [id \in IDS |-> NoRow]
             /\ stored = {}

Named(c) == \E id \in IDS : catalog[id] = c

\* The first upload of a content keeps its data.
Keep(c) == /\ c \notin stored
           /\ stored' = stored \cup {c}
           /\ UNCHANGED catalog

\* A new file for content whose data is kept.
AddFile(id, c) == /\ catalog[id] = NoRow
                  /\ c \in stored
                  /\ catalog' = [catalog EXCEPT ![id] = c]
                  /\ UNCHANGED stored

RemoveFile(id) == /\ catalog[id] # NoRow
                  /\ catalog' = [catalog EXCEPT ![id] = NoRow]
                  /\ UNCHANGED stored

\* Data is dropped only when no file names it.
Free(c) == /\ c \in stored
           /\ ~Named(c)
           /\ stored' = stored \ {c}
           /\ UNCHANGED catalog

DedupNext == \/ \E c \in CONTENT : Keep(c) \/ Free(c)
             \/ \E id \in IDS : RemoveFile(id) \/ \E c \in CONTENT : AddFile(id, c)

DedupSpec == DedupInit /\ [][DedupNext]_avars /\ \A c \in CONTENT : WF_avars(Free(c))
=============================================================================
