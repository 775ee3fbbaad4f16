------------------------- MODULE MCStorageService -------------------------
(***************************************************************************)
(* Model-checking instance of StorageService: the constants are model     *)
(* values given in each .cfg; workers, contents, ids and paths are         *)
(* interchangeable, so safety-only runs may use SymmetryAll.                *)
(***************************************************************************)
EXTENDS StorageService, TLC

AllOps == {"Upload", "Delete", "Download", "List"}

\* The call sites whose errors the code handles without damage.
HandledFaults == {"UploadLookup", "IncrementStorageRef", "CreateStorage",
                  "GetStorageHashByFileID", "DeleteByID", "GetByID",
                  "StorageGet", "List", "CacheGet", "CacheSet"}

UploadOnly == {"Upload"}
UploadDelete == {"Upload", "Delete"}
UploadDownload == {"Upload", "Download"}
UploadList == {"Upload", "List"}
UploadDownloadList == {"Upload", "Download", "List"}
NoFaults == {}
CreateRefFault == {"CreateFileReference"}

\* A client disconnect or a process crash.
CutShort == {"Disconnect", "Crash"}

\* Every call site that may fail, the Redis DELs and the compensations
\* included, with client disconnects and process crashes.
AllFaults == HandledFaults \cup CutShort \cup
    {"CacheDel", "Put", "DeleteDuplicate", "CreateFileReference", "UndoIncrement",
     "DeleteOnCreateFail", "UndoStorage", "UndoBlob", "DecrementStorageRef",
     "CleanupLookup", "CleanupBlob", "CleanupStorage"}

SymmetryAll == Permutations(WORKERS) \cup Permutations(CONTENT)
               \cup Permutations(IDS) \cup Permutations(PATHS)
=============================================================================
