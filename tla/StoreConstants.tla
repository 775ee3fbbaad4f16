--------------------------- MODULE StoreConstants ---------------------------
(***************************************************************************)
(* Constants shared by the models of the repository (PostgreSQL tables and *)
(* the Redis cache, src/internal/repository/file.go) and of the storage    *)
(* backends (src/pkg/storage).                                             *)
(*                                                                         *)
(* Content is identified with its SHA-256 digest: the hash function is     *)
(* trusted to be collision free (spec section 3), so a hash IS a content.  *)
(* File ids and storage paths are uuid.NewString() values: model values   *)
(* handed out at most once each.                                           *)
(***************************************************************************)
CONSTANTS
    CONTENT,    \* contents (= their hex SHA-256 checksums)
    IDS,        \* file ids (uuid)
    PATHS,      \* storage paths (uuid), the candidate location of an upload
    NoRow,      \* sentinel: no row with this key in a table
    NoData,     \* sentinel: nothing stored at this backend path
    Partial,    \* a truncated object left by a failed Put
    Miss,       \* sentinel: no Redis entry under this key
    None        \* sentinel: unset field of a request in progress

ASSUME CONTENT # {} /\ IDS # {} /\ PATHS # {}
=============================================================================
