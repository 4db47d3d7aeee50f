----------------------- MODULE TrustedServiceProvider -----------------------
(***************************************************************************)
(* providers::trusted_service: keys live in the Crypto Trusted Service, in *)
(* another (secure) world, under an id that the provider chooses, and the  *)
(* Key Info Manager maps the triples of the clients to these ids.          *)
(*                                                                         *)
(* Every operation on a key is a remote call.  Calls are made one at a     *)
(* time, with call_mutex, and a call can fail before the service has seen  *)
(* it, in the service, or on the way back, when the service has executed   *)
(* it (an RPC status, or an answer that cannot be decoded).  The process   *)
(* may be killed at any point, also while it waits for an answer.          *)
(***************************************************************************)
EXTENDS Integers, KeyInfoManagerClient

CONSTANTS Thread,
          USER_MIN, USER_MAX, \* PSA_KEY_ID_USER_MIN, PSA_KEY_ID_USER_MAX
          Turns,              \* triples whose clients take turns in creating and
                              \*   destroying the key
          Errors,             \* the Key Info Manager and the calls may fail
          Crashes             \* the service may be killed and started again

Id == USER_MIN..USER_MAX

ASSUME IdAssumption == /\ USER_MIN \in Nat /\ USER_MAX \in Nat
                       /\ USER_MIN <= USER_MAX

ASSUME TurnsAssumption == Turns \subseteq KeyTriple

ASSUME NoneAssumption == /\ None \notin KeyTriple
                         /\ None \notin Thread
                         /\ None \notin Int

ASSUME FlagsAssumption == {Errors, Crashes} \subseteq BOOLEAN

VARIABLES status,      \* "running", "down"
          id_counter,
          call_mutex,  \* the thread whose call is in progress, or None
          opstatus,    \* what the service answered to that call
          ts,          \* the keys of the service: Id -> the triple it is for
          fault,       \* "some" once a call has failed or the service was killed
          pc, arg, rid \* of each thread: next step, key_triple, key_id

local == <<pc, arg, rid>>

vars == <<key_store, saved, status, id_counter, call_mutex, opstatus, ts, fault, local>>

Creating == {"generate", "import"}

Calls == Creating \cup {"undo", "export", "sign", "verify", "destroy"}

TypeOK ==
  /\ key_store \in [KeyTriple -> Id \cup {None}]
  /\ saved \in [KeyTriple -> Id \cup {None}]
  /\ status \in {"running", "down"}
  /\ id_counter \in Nat /\ id_counter >= USER_MIN
  /\ call_mutex \in Thread \cup {None}
  /\ opstatus \in {"none", "ok", "error"}
  /\ ts \in [Id -> KeyTriple \cup {None}]
  /\ fault \in {"none", "some"}
  /\ pc \in [Thread -> {"idle", "generate_id", "import_id", "limit", "insert", "remove"}
                         \cup Calls]
  /\ arg \in [Thread -> KeyTriple \cup {None}]
  /\ rid \in [Thread -> Id \cup {None}]

(* The first start: no mapping, no key. *)
Init ==
  /\ key_store = NoMappings
  /\ saved = NoMappings
  /\ status = "running"
  /\ id_counter = USER_MIN
  /\ call_mutex = None
  /\ opstatus = "none"
  /\ ts = [i \in Id |-> None]
  /\ fault = "none"
  /\ pc = [p \in Thread |-> "idle"]
  /\ arg = [p \in Thread |-> None]
  /\ rid = [p \in Thread |-> None]

-----------------------------------------------------------------------------
(* A request of thread p for triple t starts with step s and key id i. *)
Begin(p, t, s, i) ==
  /\ status = "running"
  /\ pc[p] = "idle"
  /\ pc' = [pc EXCEPT ![p] = s]
  /\ arg' = [arg EXCEPT ![p] = t]
  /\ rid' = [rid EXCEPT ![p] = i]
  /\ UNCHANGED <<kim, status, id_counter, call_mutex, opstatus, ts, fault>>

Goto(p, s) ==
  /\ pc' = [pc EXCEPT ![p] = s]
  /\ UNCHANGED <<arg, rid>>

(* The request ends, with a success or with an error. *)
Return(p) ==
  /\ pc' = [pc EXCEPT ![p] = "idle"]
  /\ arg' = [arg EXCEPT ![p] = None]
  /\ rid' = [rid EXCEPT ![p] = None]

(* What the clients of Turns guarantee: no two requests that create or     *)
(* destroy the key overlap.  Operations that use it overlap with anything. *)
Alone(p, t) ==
  t \in Turns => \A q \in Thread \ {p} : arg[q] = t => pc[q] \in {"export", "sign", "verify"}

-----------------------------------------------------------------------------
(* Context::send_request *)

(* What the service does with the call of thread p (external): it refuses  *)
(* to create a key under an id that is in use, and an operation on a key   *)
(* that it does not have.                                                  *)
Execute(p) ==
  LET i == rid[p]
      possible == (ts[i] = None) = (pc[p] \in Creating)
  IN  \/ /\ possible
         /\ opstatus' = "ok"
         /\ ts' = [ts EXCEPT ![i] = IF pc[p] \in Creating THEN arg[p]
                                    ELSE IF pc[p] \in {"undo", "destroy"} THEN None
                                    ELSE @]
         /\ UNCHANGED fault
      \/ /\ ~possible \/ Errors
         /\ opstatus' = "error"
         /\ fault' = IF possible THEN "some" ELSE fault
         /\ UNCHANGED ts

(* The rest of the request once its call has succeeded, or failed. *)
Resume(p, ok) == IF ok /\ pc[p] \in Creating THEN Goto(p, "insert") ELSE Return(p)

(* The mutex is taken; the call is encoded, begun and invoked.  When it    *)
(* cannot be encoded or begun the service does not see it.                 *)
SendRequest(p) ==
  /\ call_mutex = None
  /\ \/ /\ call_mutex' = p
        /\ Execute(p)
        /\ UNCHANGED local
     \/ /\ Errors
        /\ fault' = "some"
        /\ Resume(p, FALSE)
        /\ UNCHANGED <<call_mutex, opstatus, ts>>
  /\ UNCHANGED <<kim, status, id_counter>>

ContextGenerateKey(p) == pc[p] = "generate" /\ SendRequest(p)

ContextImportKey(p) == pc[p] = "import" /\ SendRequest(p)

ContextExportPublicKey(p) == pc[p] = "export" /\ SendRequest(p)

ContextSignHash(p) == pc[p] = "sign" /\ SendRequest(p)

ContextVerifyHash(p) == pc[p] = "verify" /\ SendRequest(p)

ContextDestroyKey(p) == pc[p] \in {"undo", "destroy"} /\ SendRequest(p)

(* rpc_caller_invoke returns: from_status_opstatus, the decoding of the    *)
(* answer, rpc_caller_end, and the release of the mutex.                   *)
ReceiveAnswer(p) ==
  /\ call_mutex = p
  /\ call_mutex' = None
  /\ opstatus' = "none"
  /\ \/ Resume(p, opstatus = "ok") /\ UNCHANGED fault
     \/ Errors /\ fault' = "some" /\ Resume(p, FALSE)
  /\ UNCHANGED <<kim, status, id_counter, ts>>

-----------------------------------------------------------------------------
(* psa_generate_key_internal, psa_import_key_internal *)

(* A request that fails here changes nothing. *)
PsaGenerateKey(p, t) ==
  Alone(p, t) /\ DoesNotExist(t) /\ Begin(p, t, "generate_id", None)

PsaImportKey(p, t) ==
  Alone(p, t) /\ DoesNotExist(t) /\ Begin(p, t, "import_id", None)

(* Fault: the counter is read and then increased, by two operations. *)
Mut_CreateKeyId(p) ==
  /\ pc[p] \in {"generate_id", "import_id"}
  /\ id_counter' \in {id_counter, id_counter + 1}
  /\ IF id_counter + 1 > USER_MAX
       THEN Goto(p, "limit")
       ELSE /\ pc' = [pc EXCEPT ![p] = IF @ = "generate_id" THEN "generate" ELSE "import"]
            /\ rid' = [rid EXCEPT ![p] = id_counter + 1]
            /\ UNCHANGED arg
  /\ UNCHANGED <<kim, status, call_mutex, opstatus, ts, fault>>

(* Fault: the limit is not looked at. *)
Mut_CreateKeyIdLimit(p) ==
  /\ pc[p] \in {"generate_id", "import_id"}
  /\ id_counter' = id_counter + 1
  /\ pc' = [pc EXCEPT ![p] = IF @ = "generate_id" THEN "generate" ELSE "import"]
  /\ rid' = [rid EXCEPT ![p] = id_counter + 1]
  /\ UNCHANGED <<kim, status, call_mutex, opstatus, ts, fault, arg>>

(* create_key_id: fetch_add, and the comparison with the limit. *)
CreateKeyId(p) ==
  /\ pc[p] \in {"generate_id", "import_id"}
  /\ id_counter' = id_counter + 1
  /\ IF id_counter + 1 > USER_MAX
       THEN Goto(p, "limit")
       ELSE /\ pc' = [pc EXCEPT ![p] = IF @ = "generate_id" THEN "generate" ELSE "import"]
            /\ rid' = [rid EXCEPT ![p] = id_counter + 1]
            /\ UNCHANGED arg
  /\ UNCHANGED <<kim, status, call_mutex, opstatus, ts, fault>>

(* create_key_id: the counter goes back to the limit, and the request      *)
(* returns PsaErrorInsufficientMemory.                                     *)
StoreLimit(p) ==
  /\ pc[p] = "limit"
  /\ id_counter' = USER_MAX
  /\ Return(p)
  /\ UNCHANGED <<kim, status, call_mutex, opstatus, ts, fault>>

(* A mapping that cannot be stored, or that was there (it is replaced      *)
(* then), makes the request destroy its key.                               *)
Insert(p) ==
  /\ pc[p] = "insert"
  /\ \/ /\ InsertKeyInfo(arg[p], rid[p])
        /\ IF DoesNotExist(arg[p]) THEN Return(p) ELSE Goto(p, "undo")
        /\ UNCHANGED fault
     \/ /\ Errors
        /\ fault' = "some"
        /\ InsertFails(arg[p])
        /\ Goto(p, "undo")
  /\ UNCHANGED <<status, id_counter, call_mutex, opstatus, ts>>

-----------------------------------------------------------------------------
(* The operations that use a key: get_key_id(&key_triple)?, then the call. *)

UseKey(p, t, s) == ~DoesNotExist(t) /\ Begin(p, t, s, key_store[t])

PsaExportPublicKey(p, t) == UseKey(p, t, "export")

PsaSignHash(p, t) == UseKey(p, t, "sign")

PsaVerifyHash(p, t) == UseKey(p, t, "verify")

PsaDestroyKey(p, t) == Alone(p, t) /\ UseKey(p, t, "remove")

(* Fault: the key is destroyed even when its mapping cannot be removed. *)
Mut_Remove(p) ==
  /\ pc[p] = "remove"
  /\ RemoveKeyInfo(arg[p]) \/ (Errors /\ UNCHANGED kim)
  /\ Goto(p, "destroy")
  /\ UNCHANGED <<status, id_counter, call_mutex, opstatus, ts, fault>>

(* Fault: the request ends when the mapping is removed. *)
Mut_RemoveOnly(p) ==
  /\ pc[p] = "remove"
  /\ RemoveKeyInfo(arg[p])
  /\ Return(p)
  /\ UNCHANGED <<status, id_counter, call_mutex, opstatus, ts, fault>>

(* remove_key_info(&key_triple)?  The mapping it removes may no longer be  *)
(* the one that get_key_id returned.                                       *)
Remove(p) ==
  /\ pc[p] = "remove"
  /\ \/ /\ ~DoesNotExist(arg[p])
        /\ RemoveKeyInfo(arg[p])
        /\ Goto(p, "destroy")
        /\ UNCHANGED fault
     \/ /\ DoesNotExist(arg[p]) \/ Errors
        /\ fault' = IF DoesNotExist(arg[p]) THEN fault ELSE "some"
        /\ Return(p)
        /\ UNCHANGED kim
  /\ UNCHANGED <<status, id_counter, call_mutex, opstatus, ts>>

-----------------------------------------------------------------------------
(* The process stops: killed, or (when no request is executing) reloaded. *)
Crash ==
  /\ Crashes
  /\ status = "running"
  /\ status' = "down"
  /\ fault' = "some"
  /\ StopDuringInsert({arg[p] : p \in {q \in Thread : pc[q] = "insert"}})
  /\ id_counter' = USER_MIN
  /\ call_mutex' = None
  /\ opstatus' = "none"
  /\ pc' = [p \in Thread |-> "idle"]
  /\ arg' = [p \in Thread |-> None]
  /\ rid' = [p \in Thread |-> None]
  /\ UNCHANGED ts

Saved == {t \in KeyTriple : saved[t] # None}

(* Fault: the counter starts at the lowest id of the mappings. *)
Mut_New ==
  /\ status = "down"
  /\ status' = "running"
  /\ ReloadOnly(Saved)
  /\ id_counter' \in {USER_MIN} \cup {saved[t] : t \in Saved}
  /\ \A t \in Saved : saved[t] >= id_counter'
  /\ UNCHANGED <<call_mutex, opstatus, ts, fault, local>>

(* Provider::new: all mappings are kept, and the counter starts at the     *)
(* highest id that they hold.                                              *)
New ==
  /\ status = "down"
  /\ status' = "running"
  /\ ReloadOnly(Saved)
  /\ id_counter' \in {USER_MIN} \cup {saved[t] : t \in Saved}
  /\ \A t \in Saved : saved[t] <= id_counter'
  /\ UNCHANGED <<call_mutex, opstatus, ts, fault, local>>

-----------------------------------------------------------------------------
Start(p) ==
  \E t \in KeyTriple :
    \/ PsaGenerateKey(p, t) \/ PsaImportKey(p, t)
    \/ PsaExportPublicKey(p, t) \/ PsaSignHash(p, t) \/ PsaVerifyHash(p, t)
    \/ PsaDestroyKey(p, t)

Continue(p) ==
  \/ CreateKeyId(p) \/ StoreLimit(p) \/ Insert(p) \/ Remove(p)
  \/ ContextGenerateKey(p) \/ ContextImportKey(p) \/ ContextExportPublicKey(p)
  \/ ContextSignHash(p) \/ ContextVerifyHash(p) \/ ContextDestroyKey(p)
  \/ ReceiveAnswer(p)

Next == \/ \E p \in Thread : Start(p) \/ Continue(p)
        \/ Crash
        \/ New

Spec == Init /\ [][Next]_vars

-----------------------------------------------------------------------------
(* A key id that a mapping or a request holds never designates a key of    *)
(* another triple, although calls whose answer was lost, failures to       *)
(* destroy a key and restarts leave keys in the Trusted Service under ids  *)
(* that the counter may reach again.                                       *)
UsesOwnKey ==
  /\ \A t \in KeyTriple : key_store[t] # None => ts[key_store[t]] \in {t, None}
  /\ \A p \in Thread :
       pc[p] \in (Calls \ Creating) \cup {"insert", "remove"} =>
         ts[rid[p]] \in {arg[p], None}

(* Two requests that create keys never have the same id (create_key_id),   *)
(* and no id is mapped by two triples.                                     *)
IdsDistinct ==
  /\ \A p, q \in Thread :
       {pc[p], pc[q]} \subseteq Creating \cup {"insert", "undo"} /\ rid[p] = rid[q] => p = q
  /\ \A t, u \in KeyTriple :
       key_store[t] # None /\ key_store[t] = key_store[u] => t = u

(* A mapping of clients that take turns designates an existing key, also   *)
(* after lost answers, errors and restarts: new, which does not ask the    *)
(* Trusted Service, finds no other mapping.                                *)
MappedKeysExist ==
  \A t \in Turns : key_store[t] # None => ts[key_store[t]] = t

Quiet == \A p \in Thread : pc[p] = "idle"

(* As long as no call has failed and the service was not killed, such      *)
(* clients leave no key without a mapping in the Trusted Service.          *)
NoOrphanKeys ==
  Quiet /\ fault = "none" =>
    \A i \in Id : ts[i] \in Turns => key_store[ts[i]] = i

(* "check if they are still present.  Delete those who are not present"    *)
(* (mod.rs:67-69): after new, a mapping designates a key that is present.  *)
AbsentKeysDeleted ==
  [][status = "down" /\ status' = "running" =>
       \A t \in KeyTriple : key_store'[t] # None => ts[key_store'[t]] # None]_vars
=============================================================================
