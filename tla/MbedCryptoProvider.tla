------------------------- MODULE MbedCryptoProvider -------------------------
(***************************************************************************)
(* providers::mbed_crypto: keys live in the persistent store of the Mbed   *)
(* Crypto library under a numeric id, and the Key Info Manager maps the    *)
(* triples of the clients to these ids.                                    *)
(*                                                                         *)
(* Threads of the pool execute requests concurrently.  A request is a      *)
(* sequence of steps on four pieces of shared state: the mappings (one     *)
(* lock per call), the atomic id_counter, the key_handle_mutex, and the    *)
(* library's keys.  The process may be killed between any two steps;       *)
(* mappings and keys are persistent, id_counter is not.                    *)
(*                                                                         *)
(* Key attributes and key material are left out: a key of the library is   *)
(* represented by the triple of the request that created it.               *)
(***************************************************************************)
EXTENDS Integers, KeyInfoManagerClient

CONSTANTS Thread,
          USER_MIN, USER_MAX, \* key::PSA_KEY_ID_USER_MIN, PSA_KEY_ID_USER_MAX
          Turns,              \* triples for which no two requests that create
                              \*   or destroy the key overlap
          Errors,             \* the Key Info Manager and the library may fail
          Crashes             \* the service may be killed and started again

Id == USER_MIN..USER_MAX

ASSUME IdAssumption == /\ USER_MIN \in Nat /\ USER_MAX \in Nat
                       /\ USER_MIN <= USER_MAX

ASSUME NoneAssumption == /\ None \notin KeyTriple
                         /\ None \notin Thread
                         /\ None \notin Int

ASSUME TurnsAssumption == Turns \subseteq KeyTriple

ASSUME FlagsAssumption == {Errors, Crashes} \subseteq BOOLEAN

VARIABLES status,      \* "running", "down"
          id_counter,
          mutex,       \* the thread that has key_handle_mutex, or None
          backend,     \* the library's keys: Id -> the triple it was made for
          fault,       \* "some" once a call has failed or the service was killed
          pc,          \* next step of the request each thread executes
          arg,         \* its key_triple
          rid          \* its key_id

vars == <<key_store, saved, status, id_counter, mutex, backend, fault, pc, arg, rid>>

Step == {"idle", "id", "limit", "generate", "insert", "undo",
         "use", "remove", "destroy"}

TypeOK ==
  /\ key_store \in [KeyTriple -> Id \cup {None}]
  /\ saved \in [KeyTriple -> Id \cup {None}]
  /\ status \in {"running", "down"}
  /\ id_counter \in Nat /\ id_counter >= USER_MIN
  /\ mutex \in Thread \cup {None}
  /\ backend \in [Id -> KeyTriple \cup {None}]
  /\ fault \in {"none", "some"}
  /\ pc \in [Thread -> Step]
  /\ arg \in [Thread -> KeyTriple \cup {None}]
  /\ rid \in [Thread -> Id \cup {None}]

(* The first start: no mapping, no key. *)
Init ==
  /\ key_store = NoMappings
  /\ saved = NoMappings
  /\ status = "running"
  /\ id_counter = USER_MIN
  /\ mutex = None
  /\ backend = [i \in Id |-> None]
  /\ fault = "none"
  /\ pc = [p \in Thread |-> "idle"]
  /\ arg = [p \in Thread |-> None]
  /\ rid = [p \in Thread |-> None]

-----------------------------------------------------------------------------
(* Helpers on the state of a thread. *)

(* A request of thread p for triple t starts with step s and key id i. *)
Begin(p, t, s, i) ==
  /\ status = "running"
  /\ pc[p] = "idle"
  /\ pc' = [pc EXCEPT ![p] = s]
  /\ arg' = [arg EXCEPT ![p] = t]
  /\ rid' = [rid EXCEPT ![p] = i]

Goto(p, s) ==
  /\ pc' = [pc EXCEPT ![p] = s]
  /\ UNCHANGED <<arg, rid>>

(* The request ends, with a success or with an error. *)
Return(p) ==
  /\ pc' = [pc EXCEPT ![p] = "idle"]
  /\ arg' = [arg EXCEPT ![p] = None]
  /\ rid' = [rid EXCEPT ![p] = None]

(* What the clients guarantee when they take turns at creating and         *)
(* destroying a key.                                                       *)
Alone(p, t) ==
  t \in Turns => \A q \in Thread \ {p} : arg[q] = t => pc[q] = "use"

-----------------------------------------------------------------------------
(* psa_generate_key_internal and psa_import_key_internal, which differ in  *)
(* the library function they call.                                         *)

(* Fault: the check that the triple is free is left out. *)
Mut_CreateKey(p, t) ==
  /\ Alone(p, t)
  /\ Begin(p, t, "id", None)
  /\ UNCHANGED <<kim, status, id_counter, mutex, backend, fault>>

(* does_not_exist(&key_triple)?  A request that fails here changes nothing. *)
CreateKey(p, t) ==
  /\ Alone(p, t)
  /\ DoesNotExist(t)
  /\ Begin(p, t, "id", None)
  /\ UNCHANGED <<kim, status, id_counter, mutex, backend, fault>>

PsaGenerateKey(p, t) == CreateKey(p, t)

PsaImportKey(p, t) == CreateKey(p, t)

(* Fault: the limit is not checked. *)
Mut_FetchAdd(p) ==
  /\ pc[p] = "id"
  /\ id_counter' = id_counter + 1
  /\ pc' = [pc EXCEPT ![p] = "generate"]
  /\ rid' = [rid EXCEPT ![p] = id_counter + 1]
  /\ UNCHANGED <<kim, status, mutex, backend, fault, arg>>

(* create_key_id: fetch_add, and the comparison with the result. *)
FetchAdd(p) ==
  /\ pc[p] = "id"
  /\ id_counter' = id_counter + 1
  /\ IF id_counter + 1 > USER_MAX
       THEN Goto(p, "limit")
       ELSE /\ pc' = [pc EXCEPT ![p] = "generate"]
            /\ rid' = [rid EXCEPT ![p] = id_counter + 1]
            /\ UNCHANGED arg
  /\ UNCHANGED <<kim, status, mutex, backend, fault>>

(* Fault: the counter goes back one too far. *)
Mut_StoreLimit(p) ==
  /\ pc[p] = "limit"
  /\ id_counter' = USER_MAX - 1
  /\ Return(p)
  /\ UNCHANGED <<kim, status, mutex, backend, fault>>

(* create_key_id: the counter goes back to the limit, and the request      *)
(* returns PsaErrorInsufficientMemory.                                     *)
StoreLimit(p) ==
  /\ pc[p] = "limit"
  /\ id_counter' = USER_MAX
  /\ Return(p)
  /\ UNCHANGED <<kim, status, mutex, backend, fault>>

(* The mutex is taken and the library creates the key.  It refuses an id   *)
(* that is in use; the mutex is then released at the return.               *)
Generate(p) ==
  /\ pc[p] = "generate"
  /\ mutex = None
  /\ \/ /\ backend[rid[p]] = None
        /\ backend' = [backend EXCEPT ![rid[p]] = arg[p]]
        /\ mutex' = p
        /\ Goto(p, "insert")
        /\ UNCHANGED fault
     \/ /\ Errors \/ backend[rid[p]] # None
        /\ fault' = "some"
        /\ Return(p)
        /\ UNCHANGED <<mutex, backend>>
  /\ UNCHANGED <<kim, status, id_counter>>

Insert(p) ==
  /\ pc[p] = "insert"
  /\ \/ /\ InsertKeyInfo(arg[p], rid[p])
        /\ IF DoesNotExist(arg[p])
             THEN Return(p) /\ mutex' = None
             ELSE Goto(p, "undo") /\ UNCHANGED mutex
        /\ UNCHANGED fault
     \/ /\ Errors
        /\ fault' = "some"
        /\ InsertFails(arg[p])
        /\ Goto(p, "undo")
        /\ UNCHANGED mutex
  /\ UNCHANGED <<status, id_counter, backend>>

(* Fault: the mutex is kept when the key cannot be destroyed. *)
Mut_Undo(p) ==
  /\ pc[p] = "undo"
  /\ \/ backend' = [backend EXCEPT ![rid[p]] = None] /\ mutex' = None
     \/ Errors /\ UNCHANGED <<backend, mutex>>
  /\ Return(p)
  /\ UNCHANGED <<kim, status, id_counter, fault>>

(* psa_destroy_key on the key that was just created; a failure is logged. *)
Undo(p) ==
  /\ pc[p] = "undo"
  /\ \/ backend' = [backend EXCEPT ![rid[p]] = None] /\ UNCHANGED fault
     \/ Errors /\ fault' = "some" /\ UNCHANGED backend
  /\ mutex' = None
  /\ Return(p)
  /\ UNCHANGED <<kim, status, id_counter>>

-----------------------------------------------------------------------------
(* The operations that use a key: get_key_id(&key_triple)?, then everything *)
(* else with the mutex.                                                     *)

UseKey(p, t) ==
  /\ ~DoesNotExist(t)
  /\ Begin(p, t, "use", key_store[t])
  /\ UNCHANGED <<kim, status, id_counter, mutex, backend, fault>>

PsaExportPublicKey(p, t) == UseKey(p, t)

PsaExportKey(p, t) == UseKey(p, t)

PsaSignHash(p, t) == UseKey(p, t)

PsaVerifyHash(p, t) == UseKey(p, t)

PsaAsymmetricEncrypt(p, t) == UseKey(p, t)

PsaAsymmetricDecrypt(p, t) == UseKey(p, t)

PsaAeadEncrypt(p, t) == UseKey(p, t)

PsaAeadDecrypt(p, t) == UseKey(p, t)

PsaRawKeyAgreement(p, t) == UseKey(p, t)

Use(p) ==
  /\ pc[p] = "use"
  /\ mutex = None
  /\ Return(p)
  /\ UNCHANGED <<kim, status, id_counter, mutex, backend, fault>>

-----------------------------------------------------------------------------
(* psa_destroy_key_internal *)

PsaDestroyKey(p, t) ==
  /\ Alone(p, t)
  /\ ~DoesNotExist(t)
  /\ Begin(p, t, "remove", key_store[t])
  /\ UNCHANGED <<kim, status, id_counter, mutex, backend, fault>>

(* Fault: the key is destroyed even when its mapping cannot be removed. *)
Mut_Remove(p) ==
  /\ pc[p] = "remove"
  /\ RemoveKeyInfo(arg[p]) \/ (Errors /\ UNCHANGED kim)
  /\ Goto(p, "destroy")
  /\ UNCHANGED <<status, id_counter, mutex, backend, fault>>

(* remove_key_info(&key_triple)?  The mapping it removes may no longer be  *)
(* the one that get_key_id returned.                                       *)
Remove(p) ==
  /\ pc[p] = "remove"
  /\ \/ /\ ~DoesNotExist(arg[p])
        /\ RemoveKeyInfo(arg[p])
        /\ Goto(p, "destroy")
        /\ UNCHANGED fault
     \/ /\ Errors \/ DoesNotExist(arg[p])
        /\ fault' = "some"
        /\ Return(p)
        /\ UNCHANGED kim
  /\ UNCHANGED <<status, id_counter, mutex, backend>>

(* Fault: the key is left alone when another thread has the mutex. *)
Mut_Destroy(p) ==
  /\ pc[p] = "destroy"
  /\ backend' = IF mutex = None THEN [backend EXCEPT ![rid[p]] = None] ELSE backend
  /\ Return(p)
  /\ UNCHANGED <<kim, status, id_counter, mutex, fault>>

(* The mutex is taken, the key is opened and destroyed, if it is there. *)
Destroy(p) ==
  /\ pc[p] = "destroy"
  /\ mutex = None
  /\ \/ backend' = [backend EXCEPT ![rid[p]] = None] /\ UNCHANGED fault
     \/ Errors /\ fault' = "some" /\ UNCHANGED backend
  /\ Return(p)
  /\ UNCHANGED <<kim, status, id_counter, mutex>>

-----------------------------------------------------------------------------
(* The process stops: killed, or (when no request is executing) reloaded. *)
Crash ==
  /\ Crashes
  /\ status = "running"
  /\ status' = "down"
  /\ fault' = "some"
  /\ StopDuringInsert({arg[p] : p \in {q \in Thread : pc[q] = "insert"}})
  /\ id_counter' = USER_MIN
  /\ mutex' = None
  /\ pc' = [p \in Thread |-> "idle"]
  /\ arg' = [p \in Thread |-> None]
  /\ rid' = [p \in Thread |-> None]
  /\ UNCHANGED backend

(* The triples whose mapping designates a key of the library. *)
Opened == {t \in KeyTriple : saved[t] # None /\ backend[saved[t]] # None}

(* Fault: the counter is not set from the mappings. *)
Mut_New ==
  /\ status = "down"
  /\ status' = "running"
  /\ ReloadOnly(Opened)
  /\ id_counter' = USER_MIN
  /\ UNCHANGED <<mutex, backend, fault, pc, arg, rid>>

(* Provider::new: a mapping whose key cannot be opened is removed, and the *)
(* counter starts at the highest id of the others.                         *)
New ==
  /\ status = "down"
  /\ status' = "running"
  /\ ReloadOnly(Opened)
  /\ id_counter' \in {USER_MIN} \cup {saved[t] : t \in Opened}
  /\ \A t \in Opened : saved[t] <= id_counter'
  /\ UNCHANGED <<mutex, backend, fault, pc, arg, rid>>

(* new returns None: a key cannot be opened for another reason than that   *)
(* it does not exist, or one of the removals fails.                        *)
NewFails ==
  /\ Errors
  /\ status = "down"
  /\ \E gone \in SUBSET {t \in KeyTriple \ Opened : saved[t] # None} : ReloadFails(gone)
  /\ UNCHANGED <<status, id_counter, mutex, backend, fault, pc, arg, rid>>

-----------------------------------------------------------------------------
Operation(p, t) ==
  \/ PsaExportPublicKey(p, t) \/ PsaExportKey(p, t)
  \/ PsaSignHash(p, t) \/ PsaVerifyHash(p, t)
  \/ PsaAsymmetricEncrypt(p, t) \/ PsaAsymmetricDecrypt(p, t)
  \/ PsaAeadEncrypt(p, t) \/ PsaAeadDecrypt(p, t)
  \/ PsaRawKeyAgreement(p, t)

Start(p) == \E t \in KeyTriple : \/ PsaGenerateKey(p, t) \/ PsaImportKey(p, t)
                                \/ Operation(p, t) \/ PsaDestroyKey(p, t)

Continue(p) == \/ FetchAdd(p) \/ StoreLimit(p) \/ Generate(p) \/ Insert(p)
               \/ Undo(p) \/ Use(p) \/ Remove(p) \/ Destroy(p)

Next == \/ \E p \in Thread : Start(p) \/ Continue(p)
        \/ Crash
        \/ New
        \/ NewFails

Spec == Init /\ [][Next]_vars

(* A thread that executes a request and is not waiting for the mutex goes  *)
(* on.                                                                     *)
FairSpec == Spec /\ \A p \in Thread : WF_vars(Continue(p))

-----------------------------------------------------------------------------
(* A key id that a thread has read, or that a mapping holds, never         *)
(* designates a key created for another triple, whatever happened between  *)
(* get_key_id and the use of the id: destructions, creations by other      *)
(* threads (create_key_id), errors, restarts (new).                        *)
UsesOwnKey ==
  /\ \A t \in KeyTriple :
       key_store[t] # None => backend[key_store[t]] \in {t, None}
  /\ \A p \in Thread :
       pc[p] \in {"insert", "undo", "use", "remove", "destroy"} =>
         backend[rid[p]] \in {arg[p], None}

(* Two requests that create keys never have the same id (create_key_id),   *)
(* and no id is mapped by two triples.                                     *)
IdsDistinct ==
  /\ \A p, q \in Thread :
       /\ {pc[p], pc[q]} \subseteq {"generate", "insert", "undo"}
       /\ rid[p] = rid[q]
       => p = q
  /\ \A t, u \in KeyTriple :
       key_store[t] # None /\ key_store[t] = key_store[u] => t = u

(* A request that is about to destroy a key has made it unreachable: no    *)
(* mapping designates it, although remove_key_info takes away whatever     *)
(* mapping the triple then has, and requests on the same triple come       *)
(* between get_key_id, remove_key_info and psa::destroy.                   *)
DestroyedKeyUnmapped ==
  \A p \in Thread : pc[p] = "destroy" => \A t \in KeyTriple : key_store[t] # rid[p]

(* When clients take turns at creating and destroying each key, a mapping  *)
(* always designates an existing key of its triple, also after errors and  *)
(* restarts: keys are created before their mapping and destroyed after it. *)
MappedKeysExist ==
  \A t \in Turns : key_store[t] # None => backend[key_store[t]] = t

Quiet == \A p \in Thread : pc[p] = "idle"

(* When moreover no call has failed and the service was not killed, no key *)
(* is left in the library without a mapping once the requests are done.    *)
NoOrphanKeys ==
  Quiet /\ fault = "none" => \A i \in Id : backend[i] \in Turns => key_store[backend[i]] = i

(* "handle failures in a way that it is possible to create a key with the  *)
(* same name later on" (providers/mod.rs, psa_generate_key): a request to  *)
(* create a key that undoes its creation leaves no mapping behind.         *)
FailedCreateFreesName ==
  [][\A p \in Thread : pc[p] = "undo" /\ arg[p] \in Turns =>
       key_store'[arg[p]] = None]_vars

(* key_handle_mutex is always released: no path of a request keeps it.     *)
MutexReleased == (mutex # None) ~> (mutex = None)

(* "Safe as this thread should be the only one accessing this key yet."    *)
(* (key_management.rs:59): the key that is being undone is not mapped.     *)
UndoneKeyPrivate ==
  \A p \in Thread : pc[p] = "undo" => \A t \in KeyTriple : key_store[t] # rid[p]
=============================================================================
