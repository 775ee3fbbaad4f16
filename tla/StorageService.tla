--------------------------- MODULE StorageService ---------------------------
(***************************************************************************)
(* The deduplication engine, StorageService                                *)
(* (src/internal/service/storage.go), driving the repository and the       *)
(* storage backend on behalf of concurrent request handlers (gin serves    *)
(* each request on its own goroutine).                                     *)
(*                                                                         *)
(* A worker runs one request at a time: Upload, Delete, Download           *)
(* (with GetByID's cache-aside read) or List.  Each call the service makes *)
(* to the repository, to Redis or to the backend is one step, so the steps *)
(* of different workers interleave exactly where the code lets them.       *)
(* Any call named in FAULTS may fail, at most MaxFaults times in a         *)
(* behaviour; a call site is named after the code it models.               *)
(***************************************************************************)
EXTENDS Integers, FiniteSets, Repository, Backend

CONSTANTS
    WORKERS,    \* request-handling goroutines
    OPS,        \* the requests workers may issue: "Upload", "Delete", ...
    FAULTS,     \* call sites that may return an error
    MaxFaults   \* bound on the number of injected errors

ASSUME Cardinality(IDS) >= Cardinality(PATHS)   \* every upload can get an id
ASSUME MaxFaults \in Nat

VARIABLES
    pc,         \* worker -> the call it makes next ("idle" between requests)
    req,        \* worker -> the locals of its request
    usedIds,    \* file ids handed out by uuid.NewString()
    usedPaths,  \* storage paths handed out by uuid.NewString()
    faults,     \* number of errors injected so far
    misserved,  \* history: a Download was answered with a reader of other bytes
    uploadRejected \* history: an Upload failed on the primary key, no fault

svcVars == <<pc, req, usedIds, usedPaths>>
ghostVars == <<misserved, uploadRejected>>
vars == <<repoVars, blob, svcVars, faults, ghostVars>>

\* file.GetStoragePath() of a File read from "file:<id>": StoragePath is
\* json:"-", so the unmarshalled File has the empty string.
EmptyPath == ""

NoReq == [op |-> None, id |-> None, hash |-> None, path |-> None,
          err |-> FALSE, snap |-> {}, ctxDone |-> FALSE]

Req == [op : OPS \cup {None}, id : IDS \cup {None}, hash : CONTENT \cup {None},
        path : PATHS \cup {EmptyPath, None}, err : BOOLEAN, snap : SUBSET IDS,
        ctxDone : BOOLEAN]

Labels == {"idle", "Put", "LookupHash", "DeleteDuplicate", "IncrementRef",
           "CreateDupRef", "UndoIncrement", "CreateStorage", "DeleteOnCreateFail",
           "CreateNewRef", "UndoStorage", "UndoBlob",
           "LookupFile", "DeleteRow", "Invalidate", "Decrement",
           "CleanupLookup", "CleanupBlob", "CleanupStorage",
           "GetByID", "CacheSetFile", "StorageGet", "ListGet", "CacheSetList"}

TypeOK ==
    /\ RepoTypeOK
    /\ BackendTypeOK
    /\ pc \in [WORKERS -> Labels]
    /\ req \in [WORKERS -> Req]
    /\ usedIds \subseteq IDS /\ usedPaths \subseteq PATHS
    /\ faults \in 0..MaxFaults
    /\ misserved \in BOOLEAN
    /\ uploadRejected \in BOOLEAN

Init ==
    /\ RepoInit
    /\ BackendInit
    /\ pc = [w \in WORKERS |-> "idle"]
    /\ req = [w \in WORKERS |-> NoReq]
    /\ usedIds = {} /\ usedPaths = {}
    /\ faults = 0
    /\ misserved = FALSE /\ uploadRejected = FALSE

-----------------------------------------------------------------------------
(* Step helpers.                                                           *)

\* The call at `site` returns an error: an injected fault, or any call made
\* with the request's context (c.Request.Context()) once the client has
\* gone away and net/http has cancelled it.
Fails(w, site) == \/ /\ site \in FAULTS
                     /\ faults < MaxFaults
                     /\ faults' = faults + 1
                  \/ req[w].ctxDone /\ UNCHANGED faults

\* A database or Redis call returns normally: pgx and go-redis fail at once
\* on a cancelled context.
NoFault(w) == UNCHANGED faults /\ ~req[w].ctxDone

\* A backend call returns normally.  LocalStorage ignores its context, so
\* it may succeed after a disconnect; SeaweedFS (a request built with the
\* context) fails, which Fails covers.
BackendOK == UNCHANGED faults

Goto(w, l) == /\ pc' = [pc EXCEPT ![w] = l]
              /\ UNCHANGED <<req, usedIds, usedPaths>>

Return(w) == /\ pc' = [pc EXCEPT ![w] = "idle"]
             /\ req' = [req EXCEPT ![w] = NoReq]
             /\ UNCHANGED <<usedIds, usedPaths>>

\* storage.Delete(ctx, path) whose error the caller ignores.
BackendDelete(w, site) == \/ Delete(req[w].path) /\ BackendOK
                          \/ Fails(w, site) /\ UNCHANGED blob

-----------------------------------------------------------------------------
(* Upload (storage.go 29-134).  The handler's validation has passed.      *)

StartUpload(w) ==
    /\ "Upload" \in OPS
    /\ pc[w] = "idle"
    /\ \E c \in CONTENT, p \in PATHS \ usedPaths :
          /\ usedPaths' = usedPaths \cup {p}
          /\ req' = [req EXCEPT ![w] = [NoReq EXCEPT !.op = "Upload",
                                                    !.hash = c, !.path = p]]
    /\ pc' = [pc EXCEPT ![w] = "Put"]
    /\ UNCHANGED <<repoVars, blob, usedIds, faults, ghostVars>>

\* s.storage.Put(ctx, path, teeReader, ...): the checksum is the content.
UploadPut(w) ==
    /\ pc[w] = "Put"
    /\ \/ Put(req[w].path, req[w].hash) /\ BackendOK /\ Goto(w, "LookupHash")
       \/ Fails(w, "Put") /\ PutFailed(req[w].path, req[w].hash) /\ Return(w)
    /\ UNCHANGED <<repoVars, ghostVars>>

\* GetStorageByHash; any error, ErrNoRows or other, takes the new-content path.
UploadLookup(w) ==
    /\ pc[w] = "LookupHash"
    /\ \/ GetStorageByHash(req[w].hash) # NoRow /\ NoFault(w) /\ Goto(w, "DeleteDuplicate")
       \/ GetStorageByHash(req[w].hash) = NoRow /\ NoFault(w) /\ Goto(w, "CreateStorage")
       \/ Fails(w, "UploadLookup") /\ Goto(w, "CreateStorage")
    /\ UNCHANGED <<repoVars, blob, ghostVars>>

\* Mutant: the existing row's object is deleted instead of the duplicate.
UploadDeleteExisting(w) ==
    /\ pc[w] = "DeleteDuplicate"
    /\ BackendOK
    /\ Delete(storage[req[w].hash].path)
    /\ Goto(w, "IncrementRef")
    /\ UNCHANGED <<repoVars, ghostVars>>

\* Duplicate content: s.storage.Delete(ctx, path), error ignored.
UploadDeleteDuplicate(w) ==
    /\ pc[w] = "DeleteDuplicate"
    /\ BackendDelete(w, "DeleteDuplicate")
    /\ Goto(w, "IncrementRef")
    /\ UNCHANGED <<repoVars, ghostVars>>

\* Mutant: an IncrementStorageRef error is ignored.
UploadIncrementIgnoreErr(w) ==
    /\ pc[w] = "IncrementRef"
    /\ \/ IncrementStorageRef(req[w].hash) /\ NoFault(w)
       \/ Fails(w, "IncrementStorageRef") /\ UNCHANGED storage
    /\ Goto(w, "CreateDupRef")
    /\ UNCHANGED <<files, fileCache, listCache, blob, ghostVars>>

UploadIncrement(w) ==
    /\ pc[w] = "IncrementRef"
    /\ \/ IncrementStorageRef(req[w].hash) /\ NoFault(w) /\ Goto(w, "CreateDupRef")
       \/ Fails(w, "IncrementStorageRef") /\ UNCHANGED storage /\ Return(w)
    /\ UNCHANGED <<files, fileCache, listCache, blob, ghostVars>>

\* On either path: fileID := uuid.NewString(); CreateFileReference.  Its
\* failure goes to the compensation of the path it is on.
OnRefFailure == [CreateDupRef |-> "UndoIncrement", CreateNewRef |-> "UndoStorage"]

UploadCreateRef(w) ==
    /\ pc[w] \in DOMAIN OnRefFailure
    /\ \E id \in IDS \ usedIds :
          /\ usedIds' = usedIds \cup {id}
          /\ \/ /\ CreateFileReferenceSucceeds(req[w].hash)
                /\ \/ CreateFileReference(id, req[w].hash) /\ NoFault(w)
                   \/ CreateFileReferenceDelFailed(id, req[w].hash) /\ Fails(w, "CacheDel")
                /\ pc' = [pc EXCEPT ![w] = "idle"]
                /\ req' = [req EXCEPT ![w] = NoReq]
             \/ /\ \/ ~CreateFileReferenceSucceeds(req[w].hash) /\ NoFault(w)
                   \/ Fails(w, "CreateFileReference")
                /\ pc' = [pc EXCEPT ![w] = OnRefFailure[pc[w]]]
                /\ UNCHANGED <<files, listCache, req>>
    /\ UNCHANGED <<storage, fileCache, blob, usedPaths, ghostVars>>

\* Hit path compensation: s.repo.DecrementStorageRef, result ignored.
UploadUndoIncrement(w) ==
    /\ pc[w] = "UndoIncrement"
    /\ \/ DecrementStorageRef(req[w].hash) /\ NoFault(w)
       \/ Fails(w, "UndoIncrement") /\ UNCHANGED storage
    /\ Return(w)
    /\ UNCHANGED <<files, fileCache, listCache, blob, ghostVars>>

\* Mutant: a failed CreateStorage returns without deleting the upload.
UploadCreateStorageNoCleanup(w) ==
    /\ pc[w] = "CreateStorage"
    /\ \/ /\ CreateStorageSucceeds(req[w].hash) /\ NoFault(w)
          /\ CreateStorage(req[w].hash, req[w].path)
          /\ Goto(w, "CreateNewRef")
       \/ /\ ~CreateStorageSucceeds(req[w].hash) /\ NoFault(w)
          /\ UNCHANGED storage /\ Return(w)
       \/ Fails(w, "CreateStorage") /\ UNCHANGED storage /\ Return(w)
    /\ UNCHANGED <<files, fileCache, listCache, blob, ghostVars>>

\* New content: CreateStorage with reference_count 1 at the uploaded path.
UploadCreateStorage(w) ==
    /\ pc[w] = "CreateStorage"
    /\ \/ /\ CreateStorageSucceeds(req[w].hash) /\ NoFault(w)
          /\ CreateStorage(req[w].hash, req[w].path)
          /\ Goto(w, "CreateNewRef")
          /\ UNCHANGED uploadRejected
       \/ /\ ~CreateStorageSucceeds(req[w].hash) /\ NoFault(w)
          /\ uploadRejected' = TRUE
          /\ Goto(w, "DeleteOnCreateFail")
          /\ UNCHANGED storage
       \/ /\ Fails(w, "CreateStorage")
          /\ Goto(w, "DeleteOnCreateFail")
          /\ UNCHANGED <<storage, uploadRejected>>
    /\ UNCHANGED <<files, fileCache, listCache, blob, misserved>>

UploadDeleteOnCreateFail(w) ==
    /\ pc[w] = "DeleteOnCreateFail"
    /\ BackendDelete(w, "DeleteOnCreateFail")
    /\ Return(w)
    /\ UNCHANGED <<repoVars, ghostVars>>

\* New path compensation: s.repo.DeleteStorage, then s.storage.Delete.
UploadUndoStorage(w) ==
    /\ pc[w] = "UndoStorage"
    /\ \/ DeleteStorage(req[w].hash) /\ NoFault(w)
       \/ Fails(w, "UndoStorage") /\ UNCHANGED storage
    /\ Goto(w, "UndoBlob")
    /\ UNCHANGED <<files, fileCache, listCache, blob, ghostVars>>

UploadUndoBlob(w) ==
    /\ pc[w] = "UndoBlob"
    /\ BackendDelete(w, "UndoBlob")
    /\ Return(w)
    /\ UNCHANGED <<repoVars, ghostVars>>

-----------------------------------------------------------------------------
(* Delete (storage.go 151-206), with DeleteByID's cache deletions.        *)

StartDelete(w) ==
    /\ "Delete" \in OPS
    /\ pc[w] = "idle"
    /\ \E id \in usedIds :
          req' = [req EXCEPT ![w] = [NoReq EXCEPT !.op = "Delete", !.id = id]]
    /\ pc' = [pc EXCEPT ![w] = "LookupFile"]
    /\ UNCHANGED <<repoVars, blob, usedIds, usedPaths, faults, ghostVars>>

\* GetStorageHashByFileID.  Its fallback reads a legacy `checksum` column,
\* which the current files table does not have, so a missing row is an error.
DeleteLookup(w) ==
    /\ pc[w] = "LookupFile"
    /\ \/ /\ GetStorageHashByFileID(req[w].id) # NoRow /\ NoFault(w)
          /\ req' = [req EXCEPT ![w].hash = GetStorageHashByFileID(req[w].id)]
          /\ pc' = [pc EXCEPT ![w] = "DeleteRow"]
          /\ UNCHANGED <<usedIds, usedPaths>>
       \/ GetStorageHashByFileID(req[w].id) = NoRow /\ NoFault(w) /\ Return(w)
       \/ Fails(w, "GetStorageHashByFileID") /\ Return(w)
    /\ UNCHANGED <<repoVars, blob, ghostVars>>

\* DeleteByID's DELETE; an error is returned after the cache deletions.
DeleteRow(w) ==
    /\ pc[w] = "DeleteRow"
    /\ \/ DeleteFileRow(req[w].id) /\ NoFault(w) /\ UNCHANGED req
       \/ Fails(w, "DeleteByID") /\ UNCHANGED files
          /\ req' = [req EXCEPT ![w].err = TRUE]
    /\ pc' = [pc EXCEPT ![w] = "Invalidate"]
    /\ UNCHANGED <<storage, fileCache, listCache, blob, usedIds, usedPaths, ghostVars>>

\* Mutant: DeleteByID's error is ignored and Delete goes on to decrement.
DeleteInvalidateIgnoreErr(w) ==
    /\ pc[w] = "Invalidate"
    /\ InvalidateFileCaches(req[w].id)
    /\ Goto(w, "Decrement")
    /\ UNCHANGED <<storage, files, blob, faults, ghostVars>>

DeleteInvalidate(w) ==
    /\ pc[w] = "Invalidate"
    /\ \/ InvalidateFileCaches(req[w].id) /\ NoFault(w)
       \/ InvalidateFileCachesFailed(req[w].id) /\ Fails(w, "CacheDel")
    /\ IF req[w].err THEN Return(w) ELSE Goto(w, "Decrement")
    /\ UNCHANGED <<storage, files, blob, ghostVars>>

\* DecrementStorageRef; on error newRefCount keeps its zero value, and the
\* code goes on to `if newRefCount == 0` all the same.
DeleteDecrement(w) ==
    /\ pc[w] = "Decrement"
    /\ \/ /\ DecrementStorageRef(req[w].hash) /\ NoFault(w)
          /\ IF DecrementedCount(req[w].hash) = 0
             THEN Goto(w, "CleanupLookup")
             ELSE Return(w)
       \/ /\ Fails(w, "DecrementStorageRef") /\ UNCHANGED storage
          /\ Goto(w, "CleanupLookup")
    /\ UNCHANGED <<files, fileCache, listCache, blob, ghostVars>>

\* Count reached 0: GetStorageByHash for the path; on error return nil.
DeleteCleanupLookup(w) ==
    /\ pc[w] = "CleanupLookup"
    /\ \/ /\ GetStorageByHash(req[w].hash) # NoRow /\ NoFault(w)
          /\ req' = [req EXCEPT ![w].path = GetStorageByHash(req[w].hash).path]
          /\ pc' = [pc EXCEPT ![w] = "CleanupBlob"]
          /\ UNCHANGED <<usedIds, usedPaths>>
       \/ GetStorageByHash(req[w].hash) = NoRow /\ NoFault(w) /\ Return(w)
       \/ Fails(w, "CleanupLookup") /\ Return(w)
    /\ UNCHANGED <<repoVars, blob, ghostVars>>

DeleteCleanupBlob(w) ==
    /\ pc[w] = "CleanupBlob"
    /\ BackendDelete(w, "CleanupBlob")
    /\ Goto(w, "CleanupStorage")
    /\ UNCHANGED <<repoVars, ghostVars>>

DeleteCleanupStorage(w) ==
    /\ pc[w] = "CleanupStorage"
    /\ \/ DeleteStorage(req[w].hash) /\ NoFault(w)
       \/ Fails(w, "CleanupStorage") /\ UNCHANGED storage
    /\ Return(w)
    /\ UNCHANGED <<files, fileCache, listCache, blob, ghostVars>>

-----------------------------------------------------------------------------
(* Download (storage.go 136-149) through GetByID (file.go 153-208).       *)

StartDownload(w) ==
    /\ "Download" \in OPS
    /\ pc[w] = "idle"
    /\ \E id \in usedIds :
          req' = [req EXCEPT ![w] = [NoReq EXCEPT !.op = "Download", !.id = id]]
    /\ pc' = [pc EXCEPT ![w] = "GetByID"]
    /\ UNCHANGED <<repoVars, blob, usedIds, usedPaths, faults, ghostVars>>

\* A cached "file:<id>" is unmarshalled and returned, its storage path
\* empty; a miss, or a Redis GET error, falls through to the joined query,
\* whose legacy fallback (no such columns in the current table) fails when
\* it does.
DownloadGetByID(w) ==
    /\ pc[w] = "GetByID"
    /\ LET id == req[w].id
           fallThrough == \/ fileCache[id] = Miss /\ NoFault(w)
                          \/ fileCache[id] # Miss /\ Fails(w, "CacheGet")
       IN
       \/ /\ fileCache[id] # Miss /\ NoFault(w)
          /\ req' = [req EXCEPT ![w].path = EmptyPath]
          /\ pc' = [pc EXCEPT ![w] = "StorageGet"]
          /\ UNCHANGED <<usedIds, usedPaths>>
       \/ /\ fallThrough /\ JoinedPath(id) # NoRow
          /\ req' = [req EXCEPT ![w].path = JoinedPath(id), ![w].hash = files[id]]
          /\ pc' = [pc EXCEPT ![w] = "CacheSetFile"]
          /\ UNCHANGED <<usedIds, usedPaths>>
       \/ fallThrough /\ JoinedPath(id) = NoRow /\ Return(w)
       \/ fileCache[id] = Miss /\ Fails(w, "GetByID") /\ Return(w)
    /\ UNCHANGED <<repoVars, blob, ghostVars>>

\* r.cache.Set(ctx, "file:<id>", json.Marshal(file), 1*time.Hour), its
\* error ignored; the JSON leaves the storage path out.
DownloadCacheSet(w) ==
    /\ pc[w] = "CacheSetFile"
    /\ \/ fileCache' = [fileCache EXCEPT ![req[w].id] = req[w].hash] /\ NoFault(w)
       \/ Fails(w, "CacheSet") /\ UNCHANGED fileCache
    /\ Goto(w, "StorageGet")
    /\ UNCHANGED <<storage, files, listCache, blob, ghostVars>>

\* s.storage.Get(ctx, file.GetStoragePath()).  Get("") does not fail:
\* LocalStorage opens its base directory (sanitizePath accepts "") and
\* SeaweedFS answers GET <filer>/ with the root listing, so the service
\* returns a reader of something other than the file.
DownloadGet(w) ==
    /\ pc[w] = "StorageGet"
    /\ \/ /\ req[w].path = EmptyPath /\ BackendOK
          /\ misserved' = TRUE
       \/ req[w].path # EmptyPath /\ BackendOK /\ UNCHANGED misserved
       \/ Fails(w, "StorageGet") /\ UNCHANGED misserved
    /\ Return(w)
    /\ UNCHANGED <<repoVars, blob, uploadRejected>>

-----------------------------------------------------------------------------
(* List (storage.go 208-210) through FileRepository.List (file.go 234-308). *)

StartList(w) ==
    /\ "List" \in OPS
    /\ pc[w] = "idle"
    /\ req' = [req EXCEPT ![w] = [NoReq EXCEPT !.op = "List"]]
    /\ pc' = [pc EXCEPT ![w] = "ListGet"]
    /\ UNCHANGED <<repoVars, blob, usedIds, usedPaths, faults, ghostVars>>

\* A cached "file_list" is returned; a miss or a Redis GET error queries.
ListGet(w) ==
    /\ pc[w] = "ListGet"
    /\ \/ listCache # Miss /\ NoFault(w) /\ Return(w)
       \/ /\ \/ listCache = Miss /\ NoFault(w)
             \/ listCache # Miss /\ Fails(w, "CacheGet")
          /\ req' = [req EXCEPT ![w].snap = JoinedIds]
          /\ pc' = [pc EXCEPT ![w] = "CacheSetList"]
          /\ UNCHANGED <<usedIds, usedPaths>>
       \/ listCache = Miss /\ Fails(w, "List") /\ Return(w)
    /\ UNCHANGED <<repoVars, blob, ghostVars>>

\* r.cache.Set(ctx, "file_list", data, 10*time.Minute), its error ignored.
ListCacheSet(w) ==
    /\ pc[w] = "CacheSetList"
    /\ \/ listCache' = req[w].snap /\ NoFault(w)
       \/ Fails(w, "CacheSet") /\ UNCHANGED listCache
    /\ Return(w)
    /\ UNCHANGED <<storage, files, fileCache, blob, ghostVars>>

-----------------------------------------------------------------------------
(* The specification.                                                      *)

\* Every step of a request in progress.
Progress(w) ==
    \/ UploadPut(w) \/ UploadLookup(w) \/ UploadDeleteDuplicate(w)
    \/ UploadIncrement(w) \/ UploadCreateRef(w) \/ UploadUndoIncrement(w)
    \/ UploadCreateStorage(w) \/ UploadDeleteOnCreateFail(w)
    \/ UploadUndoStorage(w) \/ UploadUndoBlob(w)
    \/ DeleteLookup(w) \/ DeleteRow(w) \/ DeleteInvalidate(w)
    \/ DeleteDecrement(w) \/ DeleteCleanupLookup(w)
    \/ DeleteCleanupBlob(w) \/ DeleteCleanupStorage(w)
    \/ DownloadGetByID(w) \/ DownloadCacheSet(w) \/ DownloadGet(w)
    \/ ListGet(w) \/ ListCacheSet(w)

Start(w) == StartUpload(w) \/ StartDelete(w) \/ StartDownload(w) \/ StartList(w)

\* The client of a request in progress disconnects: net/http cancels
\* c.Request.Context(), which every later call of the request is made with.
Disconnect(w) ==
    /\ "Disconnect" \in FAULTS
    /\ faults < MaxFaults
    /\ pc[w] # "idle"
    /\ ~req[w].ctxDone
    /\ faults' = faults + 1
    /\ req' = [req EXCEPT ![w].ctxDone = TRUE]
    /\ UNCHANGED <<repoVars, blob, pc, usedIds, usedPaths, ghostVars>>

\* The process dies (killed, or out of memory) and restarts: the requests in
\* progress stop where they are; PostgreSQL, Redis and the stored objects
\* keep what they had.
Crash ==
    /\ "Crash" \in FAULTS
    /\ faults < MaxFaults
    /\ \E w \in WORKERS : pc[w] # "idle"
    /\ faults' = faults + 1
    /\ pc' = [w \in WORKERS |-> "idle"]
    /\ req' = [w \in WORKERS |-> NoReq]
    /\ UNCHANGED <<repoVars, blob, usedIds, usedPaths, ghostVars>>

\* Redis evicting a key when its TTL runs out.
ExpireFile(id) == ExpireFileKey(id) /\ UNCHANGED <<storage, files, blob, svcVars, faults, ghostVars>>

ExpireList == ExpireListKey /\ UNCHANGED <<storage, files, blob, svcVars, faults, ghostVars>>

Next == \/ \E w \in WORKERS : Start(w) \/ Progress(w)
        \/ \E id \in IDS : ExpireFile(id)
        \/ ExpireList

\* A request cut short: its client disconnects, or the process dies.
Failure == \/ \E w \in WORKERS : Disconnect(w)
           \/ Crash

\* A goroutine that has begun a request keeps being scheduled until it
\* returns, and Redis evicts a key once its TTL has run out; no worker is
\* obliged to start a new request.
Fairness == /\ \A w \in WORKERS : WF_vars(Progress(w))
            /\ \A id \in IDS : WF_vars(ExpireFile(id))
            /\ WF_vars(ExpireList)

\* The service whose requests run to their end, errors of the calls in
\* FAULTS included.
Spec == Init /\ [][Next]_vars /\ Fairness

\* The service whose requests may also be cut short.
FailureSpec == Init /\ [][Next \/ Failure]_vars /\ Fairness

-----------------------------------------------------------------------------
(* Properties.                                                             *)

\* No request is in progress.
Quiescent == \A w \in WORKERS : pc[w] = "idle"

FilesOf(h) == {id \in IDS : files[id] = h}

RowHashes == {h \in CONTENT : storage[h] # NoRow}

(* Every file row points at a storage row whose object is stored, in full, *)
(* at that row's path: no Delete or Upload compensation may remove the     *)
(* bytes of content a file still references (spec 3, "Reference           *)
(* lifecycle" of spec 8).                                                  *)
NoDanglingData ==
    \A id \in IDS : files[id] # NoRow =>
        /\ storage[files[id]] # NoRow
        /\ blob[storage[files[id]].path] = files[id]

(* Between requests, every storage row's reference_count equals the       *)
(* number of file rows pointing at it: each CreateFileReference was paired *)
(* with one increment (or the row's creation) and each DeleteByID with one *)
(* decrement (spec 3; IncrementStorageRef/DecrementStorageRef callers).    *)
RefCountExact ==
    Quiescent =>
        \A h \in RowHashes : storage[h].ref = Cardinality(FilesOf(h))

(* In every state, every storage row's reference_count is at least the   *)
(* number of file rows pointing at it.  Errors, disconnects and crashes   *)
(* may leave a count too high (a row never reclaimed), never too low: a   *)
(* count below the files lets a later Delete reach newRefCount == 0 and   *)
(* delete the object of files that remain (spec 3, spec 8).  About the    *)
(* order of Upload's increment before CreateFileReference, Delete's        *)
(* DeleteByID before DecrementStorageRef, and Delete returning when        *)
(* DeleteByID fails.                                                       *)
RefCountCoversFiles ==
    \A h \in RowHashes : storage[h].ref >= Cardinality(FilesOf(h))

(* Between requests, every object in the backend is the object of a       *)
(* storage row: an Upload deletes its candidate object on the duplicate   *)
(* path and on every error path ("exactly one physical object", spec 8;   *)
(* no orphan, spec 4.1 and 5).                                             *)
NoOrphanData ==
    Quiescent =>
        \A p \in PATHS : blob[p] # NoData =>
            \E h \in RowHashes : storage[h].path = p

(* Between requests, every storage row has its content, in full, at its   *)
(* path: no cleanup or compensation removes a row's object and keeps the  *)
(* row (spec 3: physical data and the Blob record go together).           *)
RowsBacked ==
    Quiescent => \A h \in RowHashes : blob[storage[h].path] = h

(* Between requests, a cached "file_list" equals the list the database    *)
(* query would return: every mutation deletes the key (spec 4.2, "list    *)
(* results must never be staler than the last mutation").                 *)
ListCacheCoherent ==
    Quiescent /\ listCache # Miss => listCache = JoinedIds

(* A Download the service answers with a reader serves the stored bytes  *)
(* of the file (spec 4.1: Fetch returns the file's content; spec 4.2: the *)
(* cache can be discarded without correctness loss).  About GetByID's      *)
(* cache hit feeding file.GetStoragePath() to s.storage.Get.               *)
DownloadServesContent == ~misserved

(* A storage row whose reference_count has dropped to 0 is eventually     *)
(* deleted, unless an Upload revives it (spec 3: destroyed when its count *)
(* transitions to 0).  About Delete's cleanup branch.                      *)
ZeroRefReclaimed ==
    \A h \in CONTENT :
        (storage[h] # NoRow /\ storage[h].ref = 0)
            ~> (storage[h] = NoRow \/ storage[h].ref > 0)

(* The data a client can count on: the contents with a storage row whose  *)
(* object is stored, in full, at the row's path.                           *)
StoredContent == {h \in CONTENT : storage[h] # NoRow /\ blob[storage[h].path] = h}

Abstract == INSTANCE DedupStore WITH catalog <- files, stored <- StoredContent

(* The service implements the abstract store: every step is a Keep, an     *)
(* AddFile, a RemoveFile, a Free or a stutter of it under the mapping, so  *)
(* no step adds a file for content whose data is not kept, drops data a   *)
(* file still names, or rewrites a file's content; and data no file names *)
(* is eventually deleted.  About Upload's CreateStorage/CreateFileReference *)
(* order and Delete's `if newRefCount == 0` cleanup.                       *)
RefinesDedupStore == Abstract!DedupSpec

(* Uploads that meet no error succeed: concurrent Uploads of the same new  *)
(* content either both see the row or one treats the other's creation as  *)
(* a hit (spec 4.1 concurrency note); about CreateStorage's error path.    *)
UploadsSucceedWithoutFaults == ~uploadRejected

=============================================================================
