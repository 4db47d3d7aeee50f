------------------------ MODULE OnDiskKeyInfoManager ------------------------
(***************************************************************************)
(* key_info_managers/on_disk_manager: every mapping is one file, and the   *)
(* HashMap key_store mirrors the files.                                    *)
(*                                                                         *)
(* The manager is shared through an Arc<RwLock<_>>, and a method that      *)
(* modifies it runs with the write lock held from its first step to its    *)
(* return.  There is therefore at most one modification under way, which   *)
(* pc, cur and new describe, and nobody reads key_store meanwhile.  Its    *)
(* file system calls are separate steps: each may fail, and the process    *)
(* may be killed between two of them.                                      *)
(*                                                                         *)
(* A triple stands for its path: key_triple_to_base64_filenames writes the *)
(* two names in URL-safe base64 and the provider as a number, which gives  *)
(* different triples different paths.                                      *)
(***************************************************************************)

CONSTANTS KeyTriple, KeyInfo,
          NoInfo,     \* no mapping in memory, no file on disk
          Torn,       \* a file that does not hold a whole serialized KeyInfo
          IoErrors    \* whether file system calls may fail

ASSUME ValuesAssumption == /\ NoInfo \notin KeyInfo
                           /\ Torn \notin KeyInfo
                           /\ NoInfo # Torn

ASSUME IoErrorsAssumption == IoErrors \in BOOLEAN

VARIABLES status,     \* of the service: "running", "down", "refused"
          key_store,  \* OnDiskKeyInfoManager::key_store
          files,      \* the files below mappings_dir_path
          pc,         \* next step of the method that has the write lock
          cur,        \* its key_triple
          new         \* its key_info, or NoInfo (remove)

vars == <<status, key_store, files, pc, cur, new>>

Value == KeyInfo \cup {NoInfo}

TypeOK ==
  /\ status \in {"running", "down", "refused"}
  /\ key_store \in [KeyTriple -> Value]
  /\ files \in [KeyTriple -> Value \cup {Torn}]
  /\ pc \in {"idle", "unlink", "create", "write", "memory", "delete", "forget"}
  /\ cur \in KeyTriple
  /\ new \in Value

Empty == [t \in KeyTriple |-> NoInfo]

(* The first start, with an empty mappings directory. *)
Init ==
  /\ status = "running"
  /\ key_store = Empty
  /\ files = Empty
  /\ pc = "idle"
  /\ cur \in KeyTriple
  /\ new = NoInfo

-----------------------------------------------------------------------------
(* insert(key_triple, key_info): save_mapping, then key_store.insert. *)

Insert(t, info) ==
  /\ status = "running" /\ pc = "idle"
  /\ cur' = t
  /\ new' = info
  /\ pc' = "unlink"
  /\ UNCHANGED <<status, key_store, files>>

(* if key_name_file_path.exists() { fs::remove_file(..)? } *)
SaveUnlink ==
  /\ pc = "unlink"
  /\ files' = [files EXCEPT ![cur] = NoInfo]
  /\ pc' = "create"
  /\ UNCHANGED <<status, key_store, cur, new>>

(* fs::File::create(..)? makes an empty file. *)
SaveCreate ==
  /\ pc = "create"
  /\ files' = [files EXCEPT ![cur] = Torn]
  /\ pc' = "write"
  /\ UNCHANGED <<status, key_store, cur, new>>

(* write_all(&bincode::serialize(key_info)) *)
SaveWrite ==
  /\ pc = "write"
  /\ files' = [files EXCEPT ![cur] = new]
  /\ pc' = "memory"
  /\ UNCHANGED <<status, key_store, cur, new>>

InsertMemory ==
  /\ pc = "memory"
  /\ key_store' = [key_store EXCEPT ![cur] = new]
  /\ pc' = "idle"
  /\ new' = NoInfo
  /\ UNCHANGED <<status, files, cur>>

-----------------------------------------------------------------------------
(* remove(key_triple): delete_mapping, then key_store.remove. *)

Remove(t) ==
  /\ status = "running" /\ pc = "idle"
  /\ cur' = t
  /\ new' = NoInfo
  /\ pc' = "delete"
  /\ UNCHANGED <<status, key_store, files>>

(* if key_name_file_path.exists() { fs::remove_file(..) } else { Ok(()) } *)
DeleteMapping ==
  /\ pc = "delete"
  /\ files' = [files EXCEPT ![cur] = NoInfo]
  /\ pc' = "forget"
  /\ UNCHANGED <<status, key_store, cur, new>>

RemoveMemory ==
  /\ pc = "forget"
  /\ key_store' = [key_store EXCEPT ![cur] = NoInfo]
  /\ pc' = "idle"
  /\ UNCHANGED <<status, files, cur, new>>

(* Fault: an error of write_all is dropped and key_store is updated. *)
Mut_IoError ==
  /\ IoErrors
  /\ pc \in {"unlink", "create", "write", "delete"}
  /\ pc' = IF pc = "write" THEN "memory" ELSE "idle"
  /\ new' = IF pc = "write" THEN new ELSE NoInfo
  /\ UNCHANGED <<status, key_store, files, cur>>

(* A file system call fails and the method returns Err(string).  What the  *)
(* earlier calls did stays: nothing is undone, and key_store is untouched. *)
IoError ==
  /\ IoErrors
  /\ pc \in {"unlink", "create", "write", "delete"}
  /\ pc' = "idle"
  /\ new' = NoInfo
  /\ UNCHANGED <<status, key_store, files, cur>>

-----------------------------------------------------------------------------
(* The process is killed.  The files are as the system calls left them.    *)
Crash ==
  /\ status = "running"
  /\ status' = "down"
  /\ key_store' = Empty
  /\ pc' = "idle"
  /\ new' = NoInfo
  /\ UNCHANGED <<files, cur>>

(* Fault: a file that does not deserialize is taken for a mapping. *)
Mut_New ==
  /\ status \in {"down", "refused"}
  /\ status' = "running"
  /\ key_store' = files
  /\ UNCHANGED <<files, pc, cur, new>>

(* OnDiskKeyInfoManager::new reads every file; the first one it cannot     *)
(* open, read, deserialize or name makes it return Err, and the service    *)
(* does not start.                                                         *)
New ==
  /\ status \in {"down", "refused"}
  /\ \A t \in KeyTriple : files[t] # Torn
  /\ status' = "running"
  /\ key_store' = files
  /\ UNCHANGED <<files, pc, cur, new>>

NewFails ==
  /\ status \in {"down", "refused"}
  /\ IoErrors \/ \E t \in KeyTriple : files[t] = Torn
  /\ status' = "refused"
  /\ UNCHANGED <<key_store, files, pc, cur, new>>

-----------------------------------------------------------------------------
Modify == SaveUnlink \/ SaveCreate \/ SaveWrite \/ InsertMemory
            \/ DeleteMapping \/ RemoveMemory

Next ==
  \/ \E t \in KeyTriple, info \in KeyInfo : Insert(t, info)
  \/ \E t \in KeyTriple : Remove(t)
  \/ Modify
  \/ IoError
  \/ Crash
  \/ New
  \/ NewFails

Spec == Init /\ [][Next]_vars

-----------------------------------------------------------------------------
(* Refinement of KeyInfoStore. *)

(* What the files would give back at a restart, a torn file giving nothing. *)
OnDisk(t) == IF files[t] = Torn THEN NoInfo ELSE files[t]

mappings == IF status = "running" THEN key_store
                                  ELSE [t \in KeyTriple |-> OnDisk(t)]

doubt == IF status = "running"
           THEN {t \in KeyTriple : files[t] # key_store[t] \/ (pc # "idle" /\ t = cur)}
           ELSE {}

pending == IF pc = "idle" THEN {} ELSE {[triple |-> cur, value |-> new]}

Store == INSTANCE KeyInfoStore
           WITH mappings <- mappings, doubt <- doubt, pending <- pending

(* The on-disk manager implements the Key Info Manager's promise: a        *)
(* modification that returned Ok is on disk, and a restart at any point    *)
(* between the file system calls changes at most the mapping being         *)
(* modified and the mappings whose modification failed.                    *)
ImplementsKeyInfoStore == Store!Spec

(* When no modification is under way, what the providers read is exactly   *)
(* what a restart would read back: no mapping would be lost, and no removed *)
(* one would return.  It holds as long as no file system call fails,       *)
(* whenever the process is killed (insert, remove, new).                   *)
MemoryMatchesDisk ==
  status = "running" /\ pc = "idle" =>
    \A t \in KeyTriple : key_store[t] = files[t]

(* "Each mapping is contained in its own file to prevent the modification  *)
(* of one mapping impacting the other ones" (mod.rs:178-179): when new     *)
(* does not start, there is no intact mapping it keeps from being read.    *)
OtherMappingsReadable ==
  status = "refused" => \A t \in KeyTriple : files[t] \notin KeyInfo
=============================================================================
