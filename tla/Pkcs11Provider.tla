--------------------------- MODULE Pkcs11Provider ---------------------------
(***************************************************************************)
(* providers::pkcs11: a key is one or two objects of a PKCS 11 token (the  *)
(* public and the private part) that carry the same random key id, and the *)
(* Key Info Manager maps the triples of the clients to these ids.          *)
(*                                                                         *)
(* A request opens a session of its own and takes no lock, except for the  *)
(* moment when it draws a key id: between any two of its calls other       *)
(* threads may call the Key Info Manager and the token.  The process may   *)
(* be killed between two calls; the mappings and the token are persistent, *)
(* local_ids is not.  Key material is left out: an object records the      *)
(* triple and the attributes of the request that made it.                  *)
(***************************************************************************)
EXTENDS KeyInfoManagerClient

CONSTANTS Thread,
          Id,            \* key ids (u32)
          Attr,          \* key attributes of the requests, a set of records
          allow_export,  \* configuration of the provider
          Turns,         \* triples whose clients take turns in creating and
                         \*   destroying the key
          Collide,       \* a random id may be that of an object of the token
                         \*   that no mapping designates
          Errors,        \* the Key Info Manager and the token may fail
          Crashes        \* the service may be killed and started again

Class == {"public", "private"}

Info == [id : Id, attr : Attr]

Object == [id : Id, class : Class, triple : KeyTriple, attr : Attr]

ASSUME TurnsAssumption == Turns \subseteq KeyTriple

ASSUME NoneAssumption == /\ None \notin KeyTriple /\ None \notin Id
                         /\ None \notin Attr /\ None \notin Info

ASSUME FlagsAssumption ==
  {allow_export, Collide, Errors, Crashes} \subseteq BOOLEAN

VARIABLES status,      \* "running", "down"
          software_public_operations,  \* configuration, read at every start
          local_ids,
          token,       \* the objects of the token
          psa_keys,    \* volatile public keys imported into PSA Crypto
          fault,       \* "some" once a call has failed or the service was killed
          pc,          \* next step of the request each thread executes
          arg, attr,   \* its key_triple and the key attributes it has
          rid,         \* its key_id
          cls          \* the objects it makes, or the one it looks for

local == <<pc, arg, attr, rid, cls>>

service == <<status, software_public_operations>>

vars == <<key_store, saved, service, local_ids, token, psa_keys, fault, local>>

TypeOK ==
  /\ key_store \in [KeyTriple -> Info \cup {None}]
  /\ saved \in [KeyTriple -> Info \cup {None}]
  /\ status \in {"running", "down"}
  /\ software_public_operations \in BOOLEAN
  /\ local_ids \subseteq Id
  /\ token \subseteq Object
  /\ psa_keys \subseteq Thread
  /\ fault \in {"none", "some"}
  /\ pc \in [Thread -> {"idle", "id", "object", "insert", "undo", "undo_private",
                        "attributes", "find", "key_id", "find_public", "export", "export_id",
                        "export_find", "import", "software",
                        "remove", "destroy", "destroy_second"}]
  /\ arg \in [Thread -> KeyTriple \cup {None}]
  /\ attr \in [Thread -> Attr \cup {None}]
  /\ rid \in [Thread -> Id \cup {None}]
  /\ cls \in [Thread -> SUBSET Class]
  /\ \A p \in Thread : pc[p] \in {"find", "find_public", "export_find", "destroy"} =>
       rid[p] # None

(* The first start: no mapping, an empty token. *)
Init ==
  /\ key_store = NoMappings
  /\ saved = NoMappings
  /\ status = "running"
  /\ software_public_operations \in BOOLEAN
  /\ local_ids = {}
  /\ token = {}
  /\ psa_keys = {}
  /\ fault = "none"
  /\ pc = [p \in Thread |-> "idle"]
  /\ arg = [p \in Thread |-> None]
  /\ attr = [p \in Thread |-> None]
  /\ rid = [p \in Thread |-> None]
  /\ cls = [p \in Thread |-> {}]

-----------------------------------------------------------------------------
(* Helpers on the state of a thread. *)

(* A request of thread p for triple t starts with step s. *)
Begin(p, t, s, a, i, c) ==
  /\ status = "running"
  /\ pc[p] = "idle"
  /\ pc' = [pc EXCEPT ![p] = s]
  /\ arg' = [arg EXCEPT ![p] = t]
  /\ attr' = [attr EXCEPT ![p] = a]
  /\ rid' = [rid EXCEPT ![p] = i]
  /\ cls' = [cls EXCEPT ![p] = c]
  /\ UNCHANGED <<kim, service, local_ids, token, psa_keys, fault>>

Goto(p, s) ==
  /\ pc' = [pc EXCEPT ![p] = s]
  /\ UNCHANGED <<arg, attr, rid, cls>>

(* The request ends, with a success or with an error. *)
Return(p) ==
  /\ pc' = [pc EXCEPT ![p] = "idle"]
  /\ arg' = [arg EXCEPT ![p] = None]
  /\ attr' = [attr EXCEPT ![p] = None]
  /\ rid' = [rid EXCEPT ![p] = None]
  /\ cls' = [cls EXCEPT ![p] = {}]

(* new_session, or another call of the step, fails: the request returns.   *)
Fail(p) ==
  /\ Errors
  /\ fault' = "some"
  /\ Return(p)
  /\ UNCHANGED <<kim, local_ids, token, psa_keys>>

(* The steps of the operations that use a key. *)
Using == {"attributes", "find", "key_id", "find_public", "export", "export_id",
          "export_find", "import", "software"}

(* What the clients of Turns guarantee: no two requests that create or     *)
(* destroy the key overlap.  Operations that use it overlap with anything. *)
Alone(p, t) ==
  t \in Turns => \A q \in Thread \ {p} : arg[q] = t => pc[q] \in Using

(* find_key: the objects of which the token may return the first. *)
FindKey(i, classes) == {o \in token : o.id = i /\ o.class \in classes}

-----------------------------------------------------------------------------
(* Conversions of the attributes into the templates of the token. *)

IsPublicKey(a) == a.key_type \in {"RsaPublicKey", "EccPublicKey"}

(* utils::ec_params: the curves that have an object identifier. *)
EcParams(a) == a.family = "SecpR1" /\ a.bits \in {192, 224, 256, 384, 521}

(* The part of psa_generate_key_internal after create_key_id: the mechanism *)
(* of the policy, and the parameters of the key type.                       *)
PairTemplates(a) ==
  /\ a.mechanism
  /\ \/ a.key_type = "RsaKeyPair"
     \/ a.key_type = "EccKeyPair" /\ EcParams(a)

(* handle_rsa_public_import_attrib: the data is a positive modulus and      *)
(* exponent (else data_bits is 0), `bits` is 0 or the size of the modulus.  *)
RsaPublicTemplate(a) == a.data_bits # 0 /\ a.bits \in {0, a.data_bits}

(* handle_ecc_public_import_attrib *)
EccPublicTemplate(a) == a.family # "Montgomery" /\ EcParams(a)

PublicTemplate(a) ==
  \/ a.key_type = "RsaPublicKey" /\ RsaPublicTemplate(a)
  \/ a.key_type = "EccPublicKey" /\ EccPublicTemplate(a)

(* The objects that make up a key. *)
Parts(a) == IF IsPublicKey(a) THEN {"public"} ELSE Class

-----------------------------------------------------------------------------
(* psa_generate_key_internal, psa_import_key_internal *)

MayExport(a) == a.export => allow_export

(* A request that fails here changes nothing. *)
PsaGenerateKey(p, t, a) ==
  /\ ~IsPublicKey(a) /\ MayExport(a)
  /\ Alone(p, t)
  /\ DoesNotExist(t)
  /\ Begin(p, t, "id", a, None, Class)

PsaImportKey(p, t, a) ==
  /\ MayExport(a)
  /\ Alone(p, t)
  /\ DoesNotExist(t)
  /\ Begin(p, t, "id", a, None, {"public"})

(* Fault: the random id is not looked up in local_ids. *)
Mut_CreateKeyId(p) ==
  /\ pc[p] = "id"
  /\ \/ \E i \in Id :
          /\ Collide \/ FindKey(i, Class) = {} \/ i \in local_ids
          /\ local_ids' = local_ids \cup {i}
          /\ rid' = [rid EXCEPT ![p] = i]
          /\ pc' = [pc EXCEPT ![p] = "object"]
          /\ UNCHANGED <<kim, token, psa_keys, fault, arg, attr, cls>>
     \/ Fail(p)
  /\ UNCHANGED service

(* new_session(), then create_key_id: random ids are drawn, with the lock  *)
(* of local_ids, until one is not in local_ids.  It stays in local_ids     *)
(* whatever becomes of the request.                                        *)
CreateKeyId(p) ==
  /\ pc[p] = "id"
  /\ \/ \E i \in Id \ local_ids :
          /\ Collide \/ FindKey(i, Class) = {}
          /\ local_ids' = local_ids \cup {i}
          /\ rid' = [rid EXCEPT ![p] = i]
          /\ pc' = [pc EXCEPT ![p] = "object"]
          /\ UNCHANGED <<kim, token, psa_keys, fault, arg, attr, cls>>
     \/ Fail(p)
  /\ UNCHANGED service

Templates(p) == IF cls[p] = Class THEN PairTemplates(attr[p]) ELSE PublicTemplate(attr[p])

(* The object of class c that the request makes, as its handle designates it. *)
Made(p, c) == [id |-> rid[p], class |-> c, triple |-> arg[p], attr |-> attr[p]]

(* generate_key_pair makes both objects, create_object the public one.     *)
CreateObjects(p) ==
  /\ pc[p] = "object"
  /\ \/ /\ Templates(p)
        /\ token' = token \cup {Made(p, c) : c \in cls[p]}
        /\ Goto(p, "insert")
        /\ UNCHANGED <<kim, local_ids, psa_keys, fault>>
     \/ /\ ~Templates(p)
        /\ Return(p)
        /\ UNCHANGED <<kim, local_ids, token, psa_keys, fault>>
     \/ Fail(p)
  /\ UNCHANGED service

Insert(p) ==
  /\ pc[p] = "insert"
  /\ \/ /\ InsertKeyInfo(arg[p], [id |-> rid[p], attr |-> attr[p]])
        /\ IF DoesNotExist(arg[p]) THEN Return(p) ELSE Goto(p, "undo")
        /\ UNCHANGED fault
     \/ /\ Errors
        /\ fault' = "some"
        /\ InsertFails(arg[p])
        /\ Goto(p, "undo")
  /\ UNCHANGED <<service, local_ids, token, psa_keys>>

(* destroy_object on the handle of an object that the request has made; a  *)
(* failure is logged.                                                      *)
DestroyPart(p, c) ==
  /\ \/ /\ token' = token \ {Made(p, c)}
        /\ UNCHANGED fault
     \/ /\ Errors
        /\ fault' = "some"
        /\ UNCHANGED token
  /\ UNCHANGED <<kim, service, local_ids, psa_keys>>

(* The key that was just made is destroyed, one object after the other.    *)
UndoPublic(p) ==
  /\ pc[p] = "undo"
  /\ DestroyPart(p, "public")
  /\ IF cls[p] = Class THEN Goto(p, "undo_private") ELSE Return(p)

UndoPrivate(p) ==
  /\ pc[p] = "undo_private"
  /\ DestroyPart(p, "private")
  /\ Return(p)

-----------------------------------------------------------------------------
(* The operations that use a key.  Sign, verify, encrypt and decrypt read  *)
(* the key id and then, in another call, the attributes, which they        *)
(* validate; they look for the object of the class they need.              *)

UseKey(p, t, c) ==
  /\ ~DoesNotExist(t)
  /\ Begin(p, t, "attributes", None, key_store[t].id, {c})

PsaSignHash(p, t) == UseKey(p, t, "private")

PsaVerifyHash(p, t) == ~software_public_operations /\ UseKey(p, t, "public")

PsaAsymmetricEncrypt(p, t) == ~software_public_operations /\ UseKey(p, t, "public")

PsaAsymmetricDecrypt(p, t) == UseKey(p, t, "private")

GetKeyAttributes(p) ==
  /\ pc[p] = "attributes"
  /\ \/ /\ ~DoesNotExist(arg[p])
        /\ attr' = [attr EXCEPT ![p] = key_store[arg[p]].attr]
        /\ pc' = [pc EXCEPT ![p] = "find"]
        /\ UNCHANGED <<arg, rid, cls>>
     \/ DoesNotExist(arg[p]) /\ Return(p)
  /\ UNCHANGED <<kim, service, local_ids, token, psa_keys, fault>>

(* Export reads the attributes first.  *)
PsaExportPublicKey(p, t) ==
  /\ ~DoesNotExist(t)
  /\ Begin(p, t, "key_id", key_store[t].attr, None, {"public"})

(* Fault: that the mapping is gone is not taken for an error. *)
Mut_GetKeyId(p) ==
  /\ pc[p] \in {"key_id", "export_id"}
  /\ rid' = [rid EXCEPT ![p] = IF DoesNotExist(arg[p]) THEN None ELSE key_store[arg[p]].id]
  /\ pc' = [pc EXCEPT ![p] = IF @ = "key_id" THEN "find_public" ELSE "export_find"]
  /\ UNCHANGED <<kim, service, local_ids, token, psa_keys, fault, arg, attr, cls>>

GetKeyId(p) ==
  /\ pc[p] \in {"key_id", "export_id"}
  /\ \/ /\ ~DoesNotExist(arg[p])
        /\ rid' = [rid EXCEPT ![p] = key_store[arg[p]].id]
        /\ pc' = [pc EXCEPT ![p] = IF @ = "key_id" THEN "find_public" ELSE "export_find"]
        /\ UNCHANGED <<arg, attr, cls>>
     \/ DoesNotExist(arg[p]) /\ Return(p)
  /\ UNCHANGED <<kim, service, local_ids, token, psa_keys, fault>>

(* The public operations in software validate the attributes, export the   *)
(* public key (which reads the attributes again), and import it into PSA   *)
(* Crypto with the attributes read a third time.                           *)
SoftwareOperation(p, t) ==
  /\ software_public_operations
  /\ ~DoesNotExist(t)
  /\ Begin(p, t, "export", key_store[t].attr, None, {"public"})

SoftwarePsaVerifyHash(p, t) == SoftwareOperation(p, t)

SoftwarePsaAsymmetricEncrypt(p, t) == SoftwareOperation(p, t)

ExportPublicKey(p) ==
  /\ pc[p] = "export"
  /\ \/ /\ ~DoesNotExist(arg[p])
        /\ attr' = [attr EXCEPT ![p] = key_store[arg[p]].attr]
        /\ pc' = [pc EXCEPT ![p] = "export_id"]
        /\ UNCHANGED <<arg, rid, cls>>
     \/ DoesNotExist(arg[p]) /\ Return(p)
  /\ UNCHANGED <<kim, service, local_ids, token, psa_keys, fault>>

(* find_key and the operation of the token on the object that it returns.  *)
UseObject(p) ==
  /\ pc[p] \in {"find", "find_public", "export_find"}
  /\ IF pc[p] = "export_find" /\ FindKey(rid[p], cls[p]) # {}
     THEN Goto(p, "import") \/ (Errors /\ Return(p))
     ELSE Return(p)
  /\ UNCHANGED <<kim, service, local_ids, token, psa_keys, fault>>

(* move_pub_key_to_psa_crypto, after the export. *)
MovePubKeyToPsaCrypto(p) ==
  /\ pc[p] = "import"
  /\ \/ /\ ~DoesNotExist(arg[p])
        /\ psa_keys' = psa_keys \cup {p}
        /\ Goto(p, "software")
        /\ UNCHANGED <<kim, local_ids, token, fault>>
     \/ /\ DoesNotExist(arg[p])
        /\ Return(p)
        /\ UNCHANGED <<kim, local_ids, token, psa_keys, fault>>
     \/ Fail(p)
  /\ UNCHANGED service

(* The operation of PSA Crypto and, whatever its result, the removal of    *)
(* the key.                                                                *)
RemovePsaCryptoPubKey(p) ==
  /\ pc[p] = "software"
  /\ \/ /\ psa_keys' = psa_keys \ {p}
        /\ Return(p)
        /\ UNCHANGED <<kim, local_ids, token, fault>>
     \/ Fail(p)
  /\ UNCHANGED service

-----------------------------------------------------------------------------
(* psa_destroy_key_internal *)

PsaDestroyKey(p, t) ==
  /\ Alone(p, t)
  /\ ~DoesNotExist(t)
  /\ Begin(p, t, "remove", None, key_store[t].id, Class)

(* Fault: the objects are destroyed even if the mapping cannot be removed. *)
Mut_Remove(p) ==
  /\ pc[p] = "remove"
  /\ RemoveKeyInfo(arg[p]) \/ (Errors /\ UNCHANGED kim)
  /\ Goto(p, "destroy")
  /\ UNCHANGED <<service, local_ids, token, psa_keys, fault>>

(* remove_key_info(&key_triple)?  The mapping it removes may no longer be  *)
(* the one that get_key_id returned.                                       *)
Remove(p) ==
  /\ pc[p] = "remove"
  /\ \/ /\ ~DoesNotExist(arg[p])
        /\ RemoveKeyInfo(arg[p])
        /\ Goto(p, "destroy")
        /\ UNCHANGED <<local_ids, token, psa_keys, fault>>
     \/ /\ DoesNotExist(arg[p])
        /\ Return(p)
        /\ UNCHANGED <<kim, local_ids, token, psa_keys, fault>>
     \/ Fail(p)
  /\ UNCHANGED service

(* Fault: only the first object of the key is destroyed. *)
Mut_DestroyFirst(p) ==
  /\ pc[p] = "destroy"
  /\ \E o \in FindKey(rid[p], Class) : token' = token \ {o}
  /\ Return(p)
  /\ UNCHANGED <<kim, service, local_ids, psa_keys, fault>>

(* find_key for any object of the key, and its destruction. *)
DestroyFirst(p) ==
  /\ pc[p] = "destroy"
  /\ \/ /\ \E o \in FindKey(rid[p], Class) : token' = token \ {o}
        /\ Goto(p, "destroy_second")
        /\ UNCHANGED <<kim, local_ids, psa_keys, fault>>
     \/ /\ FindKey(rid[p], Class) = {}
        /\ Return(p)
        /\ UNCHANGED <<kim, local_ids, token, psa_keys, fault>>
     \/ Fail(p)
  /\ UNCHANGED service

(* "A second key is optional." *)
DestroySecond(p) ==
  /\ pc[p] = "destroy_second"
  /\ \/ /\ \/ \E o \in FindKey(rid[p], Class) : token' = token \ {o}
           \/ FindKey(rid[p], Class) = {} /\ UNCHANGED token
        /\ Return(p)
        /\ UNCHANGED <<kim, local_ids, psa_keys, fault>>
     \/ Fail(p)
  /\ UNCHANGED service

-----------------------------------------------------------------------------
(* The process stops: killed, or (when no request is executing) reloaded. *)
Crash ==
  /\ Crashes
  /\ status = "running"
  /\ status' = "down"
  /\ fault' = "some"
  /\ StopDuringInsert({arg[p] : p \in {q \in Thread : pc[q] = "insert"}})
  /\ local_ids' = {}
  /\ psa_keys' = {}
  /\ UNCHANGED software_public_operations
  /\ pc' = [p \in Thread |-> "idle"]
  /\ arg' = [p \in Thread |-> None]
  /\ attr' = [p \in Thread |-> None]
  /\ rid' = [p \in Thread |-> None]
  /\ cls' = [p \in Thread |-> {}]
  /\ UNCHANGED token

(* The triples whose mapping designates some object of the token. *)
Present == {t \in KeyTriple : saved[t] # None /\ FindKey(saved[t].id, Class) # {}}

(* Fault: the ids of the keys that are there are not remembered. *)
Mut_New ==
  /\ status = "down"
  /\ status' = "running"
  /\ software_public_operations' \in BOOLEAN
  /\ ReloadOnly(Present)
  /\ local_ids' = {}
  /\ UNCHANGED <<token, psa_keys, fault, local>>

(* Provider::new: a mapping without an object is removed, and the ids of   *)
(* the others are put in local_ids.                                        *)
New ==
  /\ status = "down"
  /\ status' = "running"
  /\ software_public_operations' \in BOOLEAN
  /\ ReloadOnly(Present)
  /\ local_ids' = {saved[t].id : t \in Present}
  /\ UNCHANGED <<token, psa_keys, fault, local>>

(* new returns None: no session, an error of the token, or a removal that  *)
(* fails.                                                                  *)
NewFails ==
  /\ Errors
  /\ status = "down"
  /\ \E gone \in SUBSET {t \in KeyTriple \ Present : saved[t] # None} : ReloadFails(gone)
  /\ UNCHANGED <<service, local_ids, token, psa_keys, fault, local>>

-----------------------------------------------------------------------------
Start(p) ==
  \E t \in KeyTriple :
    \/ \E a \in Attr : PsaGenerateKey(p, t, a) \/ PsaImportKey(p, t, a)
    \/ PsaSignHash(p, t) \/ PsaVerifyHash(p, t)
    \/ PsaAsymmetricEncrypt(p, t) \/ PsaAsymmetricDecrypt(p, t)
    \/ PsaExportPublicKey(p, t)
    \/ SoftwarePsaVerifyHash(p, t) \/ SoftwarePsaAsymmetricEncrypt(p, t)
    \/ PsaDestroyKey(p, t)

Continue(p) ==
  \/ CreateKeyId(p) \/ CreateObjects(p) \/ Insert(p) \/ UndoPublic(p) \/ UndoPrivate(p)
  \/ GetKeyAttributes(p) \/ GetKeyId(p) \/ ExportPublicKey(p) \/ UseObject(p)
  \/ MovePubKeyToPsaCrypto(p) \/ RemovePsaCryptoPubKey(p)
  \/ Remove(p) \/ DestroyFirst(p) \/ DestroySecond(p)

Next == \/ \E p \in Thread : Start(p) \/ Continue(p)
        \/ Crash
        \/ New
        \/ NewFails

Spec == Init /\ [][Next]_vars

-----------------------------------------------------------------------------
(* Whatever find_key returns for the key id of a mapping, or for the one   *)
(* that a request has read or drawn, was made for that triple: ids of      *)
(* destroyed keys, of failed requests and of earlier runs of the service   *)
(* never lead to the object of another key.                                *)
FindsOwnKey ==
  /\ \A t \in KeyTriple : key_store[t] # None =>
       \A o \in FindKey(key_store[t].id, Class) : o.triple = t
  /\ \A p \in Thread : rid[p] # None =>
       \A o \in FindKey(rid[p], Class) : o.triple = arg[p]

(* A mapping of clients that take turns designates the whole key, both     *)
(* parts of a key pair, also after errors and restarts: new keeps a        *)
(* mapping when it finds any object, so half a key must never have a       *)
(* mapping.                                                                *)
MappedKeysWhole ==
  \A t \in Turns : key_store[t] # None =>
    {o.class : o \in FindKey(key_store[t].id, Class)} = Parts(key_store[t].attr)

(* An operation that has read the key id and then, in another call, the    *)
(* attributes, and whose key is still the one of the triple, has validated *)
(* the attributes of that key: a key id does not come back with a new key  *)
(* of the same name while some request still holds it.                     *)
ValidatedPolicyIsCurrent ==
  \A p \in Thread :
    /\ pc[p] = "find"
    /\ ~DoesNotExist(arg[p])
    /\ key_store[arg[p]].id = rid[p]
    => key_store[arg[p]].attr = attr[p]

(* As long as no call has failed and the service was not killed, an        *)
(* operation on a key whose clients take turns uses, if find_key finds it, *)
(* an object that was made with the attributes the operation has           *)
(* validated.  The key id was read first: the key may have been destroyed  *)
(* and another one created under its name before the attributes were read. *)
UsesValidatedObject ==
  \A p \in Thread : pc[p] = "find" /\ arg[p] \in Turns /\ fault = "none" =>
    \A o \in FindKey(rid[p], cls[p]) : o.attr = attr[p]

Quiet == \A p \in Thread : pc[p] = "idle"

(* As long as no call has failed and the service was not killed, clients   *)
(* that take turns leave no object without a mapping, and no public key is *)
(* left in PSA Crypto.                                                     *)
NothingLeft ==
  Quiet /\ fault = "none" =>
    /\ \A o \in token : o.triple \in Turns =>
         key_store[o.triple] # None /\ key_store[o.triple].id = o.id
    /\ psa_keys = {}
=============================================================================
