----------------------------- MODULE Repository -----------------------------
(***************************************************************************)
(* The metadata store: FileRepository (src/internal/repository/file.go),  *)
(* i.e. the PostgreSQL tables `storage` and `files` and the two Redis      *)
(* keys the repository caches under, "file:<id>" and "file_list".          *)
(*                                                                         *)
(* Every repository method issues one SQL statement, which PostgreSQL      *)
(* runs atomically in autocommit mode, so each method below is one action  *)
(* fragment.  A Redis call is a separate step from the SQL statement it    *)
(* follows: the code does not hold anything across the two.               *)
(*                                                                         *)
(* The File JSON cached under "file:<id>" has no storage path: the field   *)
(* StoragePath of model.File and of model.Storage is tagged json:"-", so   *)
(* what a cache hit returns is the id, name, hash and size of the file and *)
(* an empty path.  The cache holds the file's storage_hash for it.        *)
(***************************************************************************)
EXTENDS Integers, StoreConstants

VARIABLES
    storage,    \* table storage: hash -> [path, ref] (reference_count), or NoRow
    files,      \* table files: id -> storage_hash, or NoRow
    fileCache,  \* Redis "file:<id>": id -> storage_hash of the cached File, or Miss
    listCache   \* Redis "file_list": the set of ids of the cached list, or Miss

repoVars == <<storage, files, fileCache, listCache>>

StorageRecord == [path : PATHS, ref : Int]

RepoTypeOK ==
    /\ storage \in [CONTENT -> StorageRecord \cup {NoRow}]
    /\ files \in [IDS -> CONTENT \cup {NoRow}]
    /\ fileCache \in [IDS -> CONTENT \cup {Miss}]
    /\ listCache \in SUBSET IDS \cup {Miss}

RepoInit ==
    /\ storage = [h \in CONTENT |-> NoRow]
    /\ files = [id \in IDS |-> NoRow]
    /\ fileCache = [id \in IDS |-> Miss]
    /\ listCache = Miss

(***************************************************************************)
(* The foreign key files.storage_hash -> storage.hash of the schema (the   *)
(* schema is not in the repository; spec section 3 calls the column a     *)
(* foreign key, never null).                                               *)
(***************************************************************************)
Referenced(h) == \E id \in IDS : files[id] = h

\* GetStorageByHash: SELECT ... FROM storage WHERE hash = $1 (NoRow is pgx.ErrNoRows).
GetStorageByHash(h) == storage[h]

\* CreateStorage: INSERT INTO storage; a second row for a hash is a
\* primary-key violation, so the statement succeeds only on a fresh hash.
CreateStorageSucceeds(h) == storage[h] = NoRow

\* Mutant: the record is built without its StoragePath.
CreateStorageNoPath(h, p) ==
    storage' = [storage EXCEPT ![h] = [path |-> None, ref |-> 1]]

CreateStorage(h, p) ==
    storage' = [storage EXCEPT ![h] = [path |-> p, ref |-> 1]]

\* Mutant: the hit path never bumps reference_count.
IncrementStorageRefMissing(h) == storage' = storage

\* IncrementStorageRef: UPDATE ... SET reference_count = reference_count + 1
\* WHERE hash = $1.  Updating zero rows is not an error for Exec.
IncrementStorageRef(h) ==
    storage' = IF storage[h] = NoRow THEN storage
               ELSE [storage EXCEPT ![h].ref = @ + 1]

\* DecrementStorageRef: UPDATE ... RETURNING reference_count.  With no row,
\* Scan fails with ErrNoRows and the returned count is Go's zero value 0.
DecrementStorageRef(h) ==
    storage' = IF storage[h] = NoRow THEN storage
               ELSE [storage EXCEPT ![h].ref = @ - 1]

DecrementedCount(h) == IF storage[h] = NoRow THEN 0 ELSE storage[h].ref - 1

\* Mutant: the WHERE clause tests reference_count < 0.
DeleteStorageWrongCount(h) ==
    storage' = IF storage[h] # NoRow /\ storage[h].ref < 0 /\ ~Referenced(h)
               THEN [storage EXCEPT ![h] = NoRow] ELSE storage

\* DeleteStorage: DELETE FROM storage WHERE hash = $1 AND reference_count = 0;
\* the foreign key refuses to delete a row that a file still references.
DeleteStorage(h) ==
    storage' = IF /\ storage[h] # NoRow
                  /\ storage[h].ref = 0
                  /\ ~Referenced(h)
               THEN [storage EXCEPT ![h] = NoRow]
               ELSE storage

\* CreateFileReference: INSERT INTO files, which the foreign key refuses
\* when the storage row is gone; on success it deletes "file_list".
CreateFileReferenceSucceeds(h) == storage[h] # NoRow

\* The insert with its Redis DEL of "file_list" failed: the code ignores
\* the result of r.cache.Del, so the key stays.
CreateFileReferenceDelFailed(id, h) ==
    /\ files' = [files EXCEPT ![id] = h]
    /\ UNCHANGED listCache

CreateFileReference(id, h) ==
    /\ files' = [files EXCEPT ![id] = h]
    /\ listCache' = Miss

\* GetStorageHashByFileID: SELECT storage_hash FROM files WHERE id = $1.
GetStorageHashByFileID(id) == files[id]

\* DeleteByID, first its statement DELETE FROM files WHERE id = $1 (zero rows
\* is not an error), then its two cache deletions.
DeleteFileRow(id) == files' = [files EXCEPT ![id] = NoRow]

InvalidateFileCaches(id) ==
    /\ fileCache' = [fileCache EXCEPT ![id] = Miss]
    /\ listCache' = Miss

\* The two DELs when Redis fails one or both of them; DeleteByID ignores
\* their results, so a failed DEL leaves its key.
InvalidateFileCachesFailed(id) ==
    \E delFile, delList \in BOOLEAN :
        /\ ~(delFile /\ delList)
        /\ fileCache' = IF delFile THEN [fileCache EXCEPT ![id] = Miss] ELSE fileCache
        /\ listCache' = IF delList THEN Miss ELSE listCache

\* The query of GetByID: files JOIN storage ON storage_hash = hash WHERE id.
\* The File it builds carries the storage path Download reads from.
JoinedPath(id) ==
    IF files[id] # NoRow /\ storage[files[id]] # NoRow
    THEN storage[files[id]].path ELSE NoRow

\* The query of List: every file row that joins a storage row.
JoinedIds == {id \in IDS : files[id] # NoRow /\ storage[files[id]] # NoRow}

\* Redis expires "file:<id>" one hour after GetByID's Set.
ExpireFileKey(id) == /\ fileCache[id] # Miss
                     /\ fileCache' = [fileCache EXCEPT ![id] = Miss]
                     /\ UNCHANGED listCache

\* Redis expires "file_list" ten minutes after List's Set.
ExpireListKey == /\ listCache # Miss
                 /\ listCache' = Miss
                 /\ UNCHANGED fileCache
=============================================================================
