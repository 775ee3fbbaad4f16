# TLA+ models of pot-play-storage

These modules model the deduplicating blob store in `src/`. They cover:

- the service (`internal/service/storage.go`),
- the metadata repository with its Redis cache (`internal/repository/file.go`),
- the storage backends (`pkg/storage/local.go`, `pkg/storage/seaweedfs_simple.go`),
- the upload handler's filename pipeline (`internal/handler/file.go`, `pkg/validator/file.go`).

TLC checks what the system keeps correct when concurrent requests interleave and calls fail.

## The system

Four parts are involved in every request:

| Part | State | Operations the service uses |
|---|---|---|
| HTTP handlers (`handler/file.go`), one goroutine per request (gin) | none | Upload, Download, Delete, List |
| `StorageService` | a request's locals | Upload, Download, Delete, List |
| `FileRepository`: PostgreSQL tables `storage` (hash, path, reference_count) and `files` (id, storage_hash) | rows | GetStorageByHash, CreateStorage, Increment/DecrementStorageRef, DeleteStorage, CreateFileReference, GetByID, GetStorageHashByFileID, DeleteByID, List |
| Redis: `file:<id>` (1 h TTL), `file_list` (10 min TTL) | cache entries | Get/Set in GetByID and List; Del in CreateFileReference and DeleteByID |
| Backend: the local filesystem or the SeaweedFS filer | objects by path | Put, Get, Delete |

### Upload

1. Write the body to a fresh uuid path.
2. Look up the content hash.
3. If a row exists (the hit path):
   - delete the new object,
   - increment the row's count,
   - insert the file row; if that fails, decrement the count again.
4. If no row exists (the miss path):
   - insert the storage row with count 1; if that fails, delete the object;
   - insert the file row; if that fails, run `DeleteStorage` and then delete the object.

### Delete

1. Look up the file's hash.
2. Delete the file row, then both cache keys.
3. Decrement the count.
4. If the returned count is 0:
   - look up the row's path,
   - delete the object,
   - `DeleteStorage`.

### Download and List

Download and List go through the repository's cache-aside reads. On a miss they query, then set the key. Download then reads the object at `file.GetStoragePath()`.

The cached `file:<id>` is `json.Marshal(file)`, and `StoragePath` is tagged `json:"-"` in `model.File` and in `model.Storage`. So a Download that hits the cache gets a File whose storage path is `""`, and it calls `s.storage.Get(ctx, "")`. That call does not fail: `LocalStorage` opens its base directory, and SeaweedFS answers `GET <filer>/` with the root listing.

### What is hard

- None of these steps share a transaction.
- Every compensation ignores its own errors.
- A cache fill can land after an invalidation.
- A cache hit does not return what the query returned: the path is lost.

## Modules

| Module | Models | State |
|---|---|---|
| `StoreConstants` | the model-value sets shared by all modules | — |
| `Repository` | `FileRepository`: one operator per SQL statement, the cache keys, failed Redis DELs, TTL expiry of each key | `storage`, `files`, `fileCache`, `listCache` |
| `Backend` | the `Storage` interface as implemented by local.go and seaweedfs_simple.go | `blob` (path → content, `Partial` or `NoData`) |
| `StorageService` | the service and handlers composed with the two modules above. `Spec` runs requests to their end, with errors at the call sites in `FAULTS`. `FailureSpec` adds `Failure`: a client disconnect or a process crash cuts a request short. | `pc`, `req` per worker, used uuids, fault count, history variables |
| `MCStorageService` | the constant sets and definitions the cfgs instantiate | — |
| `DedupStore` | the abstract store of spec §3, §4.1 and §8: a catalog of files naming contents, and the set of kept contents. It adds a file only for kept content, and drops data only when no file names it. Dropping unnamed data is weakly fair. | `catalog`, `stored` |
| `LocalPath` | `LocalStorage.sanitizePath` (local.go 17-55), with `filepath.Clean` as a RECURSIVE operator over path elements; `Call` is a Put, Get, Delete or List that passed the check | `reached` |
| `Validator` | `FileHandler.Upload`'s size checks, `SanitizeFilename` and `ValidateFile`. A filename is a sequence of one-byte character classes: `QUOTE` for the class the sanitizer replaces, `DEL` for the other controls, `BSL` for `\`, and case-folded letters. `Init` is one request: its form file and detected MIME type. `Upload` is the handler's one step. | `file`, `mime`, `passed` |
| `MCValidator` | a six-character alphabet. `.x` plays an allowed extension, `.xx` a dangerous one, and `x` a reserved name. `MaxFilenameLen` is 4 | — |
| `MCLocalPath` | the path elements, sensitive directories and base directory for `LocalPath` | — |

### How the model corresponds to the code

- **One call, one step.** Each SQL statement runs atomically in autocommit, so each is one step of a worker. So is each Redis call and each backend call.
  - `pc[w]` names the call worker `w` makes next.
  - `req[w]` holds its locals: the hash (content is identified with its hash), the path and the id.
- **Fresh uuids.** `uuid.NewString()` is a choice of an unused model value from `PATHS` or `IDS`.
- **Faults.** A call can return an error only if its site name is in `FAULTS`, and at most `MaxFaults` times in a behaviour.
  - An ignored error (`s.storage.Delete`, the compensating decrement and `DeleteStorage`) is a step that leaves the state unchanged.
  - `DecrementStorageRef` returns 0 with its error, and the code goes on to cleanup.
  - Redis: a GET error (`CacheGet`) falls through to the query. A failed SET (`CacheSet`) leaves the key unset. A failed DEL (`CacheDel`) leaves the key in place, since the code ignores every Redis result.
  - **Client disconnect** (`Disconnect`): net/http cancels `c.Request.Context()`, and the request's remaining calls all use it. After that, every database and Redis call fails, compensations and cleanup included. `Fails(w, site)` covers both an injected error and a cancelled context. `NoFault(w)` requires the context to be live. Backend calls use `BackendOK`: `LocalStorage` ignores the context, and a SeaweedFS call that fails is already a `Fails` branch.
  - **Crash** (`Crash`): the process dies, and every request in progress stops where it is. PostgreSQL, Redis and the stored objects keep their state.
- **Database behaviour.**
  - The `storage` primary key makes the second `CreateStorage` fail.
  - The foreign key `files.storage_hash → storage.hash` is in spec §3, not in `src`, so it is marked spec-modelled. It makes `CreateFileReference` fail when the row is gone, and `DeleteStorage` skip a row that is still referenced.
  - The legacy-schema fallbacks read columns the current table lacks, so they fail.
- **Backend.** A failed local `Put` may leave a truncated object (`Partial`). SeaweedFS buffers the body and sends it in one POST. That POST either fails before the filer stores anything, or stores the whole object and loses its reply to the 30 s client timeout (`Backend.PutFailed`).
- **Refinement.** `StorageService` maps `files` to the abstract `catalog`. It maps the contents whose row exists and whose object holds them (`StoredContent`) to `stored`. `RefinesDedupStore` asserts `Abstract!DedupSpec`, the fairness on `Free` included. So every concrete step is an abstract step or a stutter, and a zero-count row's data is eventually dropped.
- **Paths.** A path is `[abs, elems]`: whether it begins with `/`, and its elements. An element is a model string. Among the elements, `DOTDOT` contains the substring `..`, and `SENSITIVE` is the set `etc`, `var` and the rest. So the code's substring tests become element tests.
- **History variables.**
  - `misserved`: a Download was answered with a reader of something other than the file (`Get("")` after a cache hit).
  - `uploadRejected`: an Upload failed on the primary key without any injected fault.

`PROJECT.json` `map` gives the source lines of every definition.

## Properties

These properties are in `StorageService`:

- `NoDanglingData`: every file row's storage row exists, and its object is stored at that row's path.
- `RefCountExact` (checked only when no request is in progress): each count equals the number of file rows that reference the row.
- `NoOrphanData` (checked only when no request is in progress): every object belongs to a storage row.
- `RowsBacked` (checked only when no request is in progress): every storage row has its object.
- `RefCountCoversFiles`: in every state, every storage row's count is at least the number of file rows that reference it. Errors may leave a count too high, a leaked row. A count too low lets a later Delete reach 0 while files remain, and delete their object.
- `ListCacheCoherent` (checked only when no request is in progress): a cached `file_list` equals the query's result.
- `DownloadServesContent`: a Download the service answers with a reader serves the file's stored bytes.
- `ZeroRefReclaimed` (liveness): a row with count 0 is eventually deleted or revived.
- `UploadsSucceedWithoutFaults`: an Upload that meets no error succeeds.
- `RefinesDedupStore`: the service implements `DedupStore` under the mapping above.

`Validator` states one property of the names `FileHandler.Upload` passes to the service, besides its type invariant:

- `NoExtensionSmuggling`: the accepted name's extension is the client's, apart from trailing spaces and dots. Replacing, trimming and cutting to length never turn `evil.jpg.sh` into an accepted `evil.jpg`.

`LocalPath` states `PathContainment`: an input that reaches I/O is relative, has no `..` element, and resolves strictly inside the base directory (spec §4 local variant, §8).

## Runs

All runs but `local_path_containment` (`MCLocalPath`) and `validator_names` (`MCValidator`) use `MCStorageService`.

### Passing runs

- **`sequential`**: one worker, two contents, all operations, Redis expiry at any time. One error may occur at a site whose errors the code checks, Redis GET and SET included (about 266k states, about a minute). `TypeOK`, `NoDanglingData`, `RefCountExact`, `NoOrphanData`, `RowsBacked`, `ListCacheCoherent`, `ZeroRefReclaimed` and `RefinesDedupStore` hold. So, used sequentially, the dedup design is right, even with those errors.
- **`concurrent_uploads`**: two workers upload, download and list one content, with no errors (about 107k states under symmetry). `RefCountExact` and `NoOrphanData` hold in every interleaving of the hit and miss paths, the primary-key race of two first Uploads included. Without Delete, concurrent dedup keeps its counts and objects exact. The races with Delete are the violation runs below.
- **`seq_any_fault`**: `FailureSpec` with one worker and up to two faults of any kind (about 139k states): an error at any call site, compensations and Redis DELs included, a client disconnect or a crash. `RefCountCoversFiles` holds. The silent failures leave counts too high (leaked rows, see `client_disconnect` and `new_ref_rollback`), never too low, so no fault alone makes a Delete free data another file uses. Its mutant, Delete going on after a failed `DeleteByID`, does.

- **`validator_names`**: every client filename of one to six characters, with every size class, read outcome and MIME type (about 1.3M states, 13 s). `TypeOK` and `NoExtensionSmuggling` hold. The handler keeps no state between requests, so a behaviour is one request: the form file is chosen in `Init`, and `Upload` decides. The run sets `CHECK_DEADLOCK FALSE` because the handler returns after that step.

### Violation runs

Each violation run is a finding. The `findings` in `PROJECT.json` give the line and what the spec says.

| Run | Property | What TLC shows |
|---|---|---|
| `upload_delete_race` | `NoDanglingData` | An Upload revives a row whose object a concurrent Delete is deleting (spec §9's open question, confirmed). |
| `double_delete` | `RefCountExact` | Two Deletes of one id both decrement. |
| `cached_download` | `DownloadServesContent` | Upload, Download, Download. The first Download sets `file:<id>`, whose JSON has no storage path. The second hits the cache and calls `Get("")`. Locally that opens the base directory, and the handler answers 500 when `io.Copy` fails on it. On SeaweedFS the client receives the filer's root listing as the file. Every Download within an hour of the previous one fails or serves other bytes. |
| `identical_uploads` | `UploadsSucceedWithoutFaults` | The primary-key loser fails instead of taking the hit path. |
| `new_ref_rollback` | `RowsBacked` | The miss-path rollback's `DeleteStorage` cannot delete a row at count 1, yet the object is deleted. |
| `client_disconnect` | `ZeroRefReclaimed` | Under `FailureSpec`, the client disconnects (or the process crashes) after its Delete's decrement. The cleanup reuses the cancelled request context, so its lookup fails. The zero-count row and its object leak forever, because nothing in `src` sweeps them. |
| `stale_cleanup_orphan` | `NoOrphanData` | A stalled cleanup's `DeleteStorage` by hash removes a re-created row. |
| `local_path_containment` | `PathContainment` | `sanitizePath` accepts the empty path, whose location is the base directory itself. Delete then calls `os.Remove` on the base directory. The code also accepts `/`-prefixed inputs, which it re-roots under the base, and `a/..`. It never lets I/O escape the base, but the spec requires InvalidPath for all three. |

Some hazards in `PROJECT.json` are checked by no run, and their notes say so:
- the list-cache fill racing an Upload's invalidation (`file.go:280`): `ListCacheCoherent` is checked with one worker only;
- the object a failed Put leaves behind, truncated locally or whole after a lost SeaweedFS reply (`storage.go:41`, `seaweedfs_simple.go:112`), and a failed duplicate-object delete (`storage.go:51`): `NoOrphanData` is checked only without those errors;
- a failed compensating decrement (`storage.go:77`): it leaves the count too high, which `RefCountCoversFiles` allows;
- a failed decrement in Delete (`storage.go:165`): `newRefCount` stays 0, and cleanup deletes the object that other files still reference. `seq_any_fault` injects this error, but its property is about counts, and the count is left too high;
- a failed Redis DEL (`file.go:131`, `file.go:229`): the runs that inject it check no cache property, and only the TTLs bound the staleness.

The filename pipeline also has edge cases that follow from the code, though no property states them. The code documents no set of names that must be accepted:
- `SanitizeFilename` cuts a long name before its extension, and the cut can end in a dot: `x.xx.x` becomes `x..x`, which is rejected as path traversal (`validator/file.go:198`);
- DEL is not sanitized, so a name containing it is rejected (`:186`);
- a name whose extension alone reaches the limit is not shortened (`:197`);
- trimming can expose a reserved name: ` CON.txt` passes `ValidateFilename`, but its sanitized form does not (`handler/file.go:73`).

Each property of a passing run has a mutant in `PROJECT.json`: a plausible bug in the mapped code that the run detects.

## Bounds

- **Workers.** Two workers are enough for every race above, since each involves two requests. One worker isolates the fault behaviour from concurrency.
- **Contents.** One content suffices for dedup races. Two contents show that rows of different hashes do not interfere.
- **Ids and paths.** Three of each (four in `concurrent_uploads`) allow an upload, a duplicate and a re-upload after deletion: the revive and re-create cases.
- **Faults.** `sequential` allows one handled error per behaviour. Each error path is taken, and the liveness checks stay near a minute. `seq_any_fault` allows two, which reaches a failure inside a compensation: an error, then its undo failing.
- **Paths.** Three elements over `a`, `etc`, `.`, `..`, `""` and `a..b`, under a two-element base. This covers every branch of `filepath.Clean`: empty, `.`, `..` that removes, `..` at the root, `..` kept. It also covers each check of `sanitizePath`: the substring `..`, a sensitive prefix, and the base prefix.
- **Filenames.** Six characters, one more than `MaxFilenameLen + 1`. This reaches a cut that keeps a dot before the extension. The six character classes cover every branch of the sanitizer and the validator.
- **Symmetry.** Symmetry over workers, contents, ids and paths is used only in runs without liveness properties.

## Fairness

`Progress(w)` is weakly fair for each worker. A goroutine that has started a request keeps being scheduled until it returns, and every call returns, possibly with an error. Each key's expiry (`ExpireFile(id)`, `ExpireList`) is weakly fair. Every Set passes a TTL (1 h or 10 min), and Redis removes a key once its TTL runs out. Starting a new request, a disconnect and a crash carry no fairness: clients may stop issuing requests. The `Failure` actions belong only to `FailureSpec`, which `seq_any_fault` and `client_disconnect` use.

## Not modelled

- `seaweedfs.go`: main.go never constructs it. Reading it shows that its `Put` writes the blob to a volume server under an assigned fid, then PUTs a JSON `{"fid": ...}` document to the filer path. So `Get` of that path would return the document, not the blob, and `Delete` would never free the volume's copy. Code that never runs is not modelled.
- In `Validator`: case folding, since letters are taken case-folded, and multi-byte characters. The length limit cuts bytes, so it can split a UTF-8 character; the model has only one-byte characters. The real extension and reserved-name tables are also left out: two extensions and one reserved name stand in for them. `StorageService` starts an Upload once validation has passed.
- Error sanitising (`pkg/errors/security.go`): it maps an error's text to one of a few fixed messages. Any property of it holds by construction.
- Config, the hash helper and the handlers' formatting: setup and encoding code with no state. A content is identified with its hash.
- `LocalStorage.List`, `SeaweedFSSimpleStorage.List`, the health check, and the unused repository methods (`GetByChecksum`, `GetByStorageHash`, `Create`).
- `LocalStorage.List`'s directory walk. The service never calls it.
- Memory use: SeaweedFS `Put` holds each body twice in memory (`seaweedfs_simple.go:79`), which TLC cannot bound.
- Replies lost after the database applied a statement. A lost SeaweedFS DELETE reply is harmless, because callers ignore the error and paths are never reused.

Note: `main.go:79` routes to `hdl.View`, which `handler/file.go` does not define, so the binary does not build as committed. The model assumes the other four routes.

## Plan

1. Lost database replies: a statement that is applied but reports an error.
2. The spec's `ContentRejected` size check. The code never compares the declared size with the bytes written.
