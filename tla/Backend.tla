------------------------------- MODULE Backend -------------------------------
(***************************************************************************)
(* The storage backend behind the Storage interface                        *)
(* (src/pkg/storage/interface.go): LocalStorage (local.go) or              *)
(* SeaweedFSSimpleStorage (seaweedfs_simple.go), the two main.go selects.  *)
(* Both store an object under the path the service chose, so the backend   *)
(* is a map from path to what is stored there.  Upload paths are uuids,    *)
(* which sanitizePath always accepts (modelled separately in LocalPath).   *)
(***************************************************************************)
EXTENDS StoreConstants

VARIABLE blob   \* path -> content stored there, a Partial object, or NoData

BackendTypeOK == blob \in [PATHS -> CONTENT \cup {NoData, Partial}]

BackendInit == blob = [p \in PATHS |-> NoData]

\* Put: os.Create + io.Copy (local), or a multipart POST to the filer.
Put(p, c) == blob' = [blob EXCEPT ![p] = c]

\* A Put that returns an error.  Locally, os.Create failing leaves nothing
\* and io.Copy failing after it leaves a truncated file Put never removes.
\* SeaweedFS sends the buffered body in one POST: an error before the filer
\* stores it leaves nothing, a reply lost or timed out after (client.Do's
\* 30 s timeout) leaves the whole object.
PutFailed(p, c) == \E x \in {NoData, Partial, c} : blob' = [blob EXCEPT ![p] = x]

\* Get: os.Open, or GET on the filer (404 and other statuses are errors).
\* Only a row's path is ever read, and a row's object was written in full.
Get(p) == blob[p]

Readable(p) == blob[p] \in CONTENT

\* Delete: os.Remove, or DELETE on the filer (404 counts as success).  Every
\* caller ignores its error, so a failed Delete is a Delete that left blob.
Delete(p) == blob' = [blob EXCEPT ![p] = NoData]
=============================================================================
