------------------------ MODULE KeyInfoManagerClient ------------------------
(***************************************************************************)
(* key_info_managers::KeyInfoManagerClient, through which a provider reads *)
(* and modifies its mappings from key triples to key ids.                  *)
(*                                                                         *)
(* Every method takes the lock of the shared manager once, so a call is    *)
(* one step.  key_store is what a call reads; saved is what the next start *)
(* of the service would read back.  The outcomes of a call, and what a     *)
(* failed call may leave on disk, are those of KeyInfoStore, which         *)
(* OnDiskKeyInfoManager implements.                                        *)
(***************************************************************************)

CONSTANTS KeyTriple,  \* the triples of one provider
          None        \* no mapping, no key, no thread

VARIABLES key_store, saved

kim == <<key_store, saved>>

NoMappings == [t \in KeyTriple |-> None]

(* does_not_exist(t) returns Ok; get_key_id(t) returns an error. *)
DoesNotExist(t) == key_store[t] = None

(* insert_key_info(t, id) when the manager's insert returns Ok.  The       *)
(* mapping is stored whether there was one (PsaErrorAlreadyExists) or not. *)
InsertKeyInfo(t, id) ==
  /\ key_store' = [key_store EXCEPT ![t] = id]
  /\ saved' = [saved EXCEPT ![t] = id]

(* insert_key_info(t, _) when the manager's insert returns an error, which *)
(* it can do after it removed the old file of the mapping.                 *)
InsertFails(t) ==
  /\ key_store' = key_store
  /\ saved' \in {saved, [saved EXCEPT ![t] = None]}

(* remove_key_info(t) for a mapping that exists.  *)
RemoveKeyInfo(t) ==
  /\ key_store' = [key_store EXCEPT ![t] = None]
  /\ saved' = [saved EXCEPT ![t] = None]

(* The process stops, while the mapping of some triple of S may be in the  *)
(* middle of being stored.                                                 *)
StopDuringInsert(S) ==
  /\ key_store' = NoMappings
  /\ saved' \in {saved} \cup {[saved EXCEPT ![t] = None] : t \in S}

(* The mappings are read back and the provider's initialisation removes    *)
(* those of the triples that it does not keep.                             *)
ReloadOnly(keep) ==
  /\ key_store' = [t \in KeyTriple |-> IF t \in keep THEN saved[t] ELSE None]
  /\ saved' = key_store'

(* The initialisation fails after it removed the mappings of gone.         *)
ReloadFails(gone) ==
  /\ key_store' = key_store
  /\ saved' = [t \in KeyTriple |-> IF t \in gone THEN None ELSE saved[t]]
=============================================================================
