------------------------ MODULE Pkcs11Provider_proofs ------------------------
(***************************************************************************)
(* Proofs about Pkcs11Provider, for every set of threads, triples, key ids *)
(* and attributes.                                                         *)
(***************************************************************************)
EXTENDS Pkcs11Provider, TLAPS

(* How a request starts: it creates a key, reads the key id (which it does *)
(* first to use or to destroy a key), or reads the attributes (which it    *)
(* does first to export the public key).                                   *)
Creates(p, t) ==
  /\ Alone(p, t) /\ DoesNotExist(t)
  /\ \E a \in Attr, c \in {Class, {"public"}} :
       (c = Class => ~IsPublicKey(a)) /\ Begin(p, t, "id", a, None, c)

ReadsId(p, t) ==
  /\ ~DoesNotExist(t)
  /\ \E s \in {"attributes", "remove"}, c \in SUBSET Class :
       (s = "remove" => Alone(p, t)) /\ Begin(p, t, s, None, key_store[t].id, c)

ReadsAttributes(p, t) ==
  /\ ~DoesNotExist(t)
  /\ \E s \in {"key_id", "export"} : Begin(p, t, s, key_store[t].attr, None, {"public"})

(* A request ends and leaves all keys as they are. *)
Quits(p) ==
  /\ Return(p)
  /\ fault' \in {fault, "some"}
  /\ \/ psa_keys' = psa_keys /\ (fault' = "some" \/ pc[p] # "software")
     \/ psa_keys' = psa_keys \ {p} /\ fault' = fault
  /\ fault' = "some" \/ pc[p] \notin {"insert", "destroy", "destroy_second"}
                     \/ FindKey(rid[p], Class) = {}
  /\ UNCHANGED <<key_store, saved, status, local_ids, token>>

(* What the steps of a request do otherwise: the key id is drawn, the      *)
(* objects are made, ...                                                   *)
Draws(p, i) ==
  /\ Collide \/ FindKey(i, Class) = {}
  /\ pc[p] = "id" /\ pc' = [pc EXCEPT ![p] = "object"]
  /\ rid' = [rid EXCEPT ![p] = i] /\ local_ids' = local_ids \cup {i}
  /\ UNCHANGED <<key_store, saved, status, token, psa_keys, fault, arg, attr, cls>>

Makes(p) ==
  /\ pc[p] = "object" /\ Goto(p, "insert") /\ Templates(p)
  /\ token' = token \cup {Made(p, c) : c \in cls[p]}
  /\ UNCHANGED <<key_store, saved, status, local_ids, psa_keys, fault>>

(* ... the attributes or the key id are read, or the request goes on with  *)
(* the public key, ...                                                     *)
Moves(p, s, n) ==
  /\ pc[p] = s /\ pc' = [pc EXCEPT ![p] = n]
  /\ UNCHANGED <<key_store, saved, status, local_ids, token, fault, arg, cls>>

GetsAttributes(p) ==
  /\ Moves(p, "attributes", "find") \/ Moves(p, "export", "export_id")
  /\ ~DoesNotExist(arg[p]) /\ attr' = [attr EXCEPT ![p] = key_store[arg[p]].attr]
  /\ UNCHANGED <<rid, psa_keys>>

GetsId(p) ==
  /\ Moves(p, "key_id", "find_public") \/ Moves(p, "export_id", "export_find")
  /\ ~DoesNotExist(arg[p]) /\ rid' = [rid EXCEPT ![p] = key_store[arg[p]].id]
  /\ UNCHANGED <<attr, psa_keys>>

MovesKey(p) ==
  /\ \/ Moves(p, "export_find", "import") /\ UNCHANGED psa_keys
     \/ Moves(p, "import", "software") /\ psa_keys' = psa_keys \cup {p}
  /\ UNCHANGED <<attr, rid>>

(* ... the mapping is removed, and the objects are destroyed.              *)
Removes(p) ==
  /\ pc[p] = "remove" /\ ~DoesNotExist(arg[p])
  /\ RemoveKeyInfo(arg[p]) /\ Goto(p, "destroy")
  /\ UNCHANGED <<status, local_ids, token, psa_keys, fault>>

Destroys(p) ==
  /\ \/ pc[p] = "destroy" /\ Goto(p, "destroy_second")
     \/ pc[p] = "destroy_second" /\ Return(p)
  /\ \E o \in FindKey(rid[p], Class) : token' = token \ {o}
  /\ UNCHANGED <<key_store, saved, status, local_ids, psa_keys, fault>>

Undoes(p, c) ==
  /\ \/ c = "public" /\ pc[p] = "undo" /\ (Goto(p, "undo_private") \/ Return(p))
     \/ c = "private" /\ pc[p] = "undo_private" /\ Return(p)
  /\ \/ token' = token \ {Made(p, c)} /\ UNCHANGED fault
     \/ UNCHANGED token /\ fault' = "some"
  /\ UNCHANGED <<key_store, saved, status, local_ids, psa_keys>>

(* The steps of the provider, by what they do. *)
LEMMA NextCases ==
  ASSUME [Next]_vars
  PROVE \/ \E p \in Thread, t \in KeyTriple :
             Creates(p, t) \/ ReadsId(p, t) \/ ReadsAttributes(p, t)
        \/ \E p \in Thread :
             \/ \E i \in Id \ local_ids : Draws(p, i)
             \/ Makes(p) \/ Insert(p) \/ \E c \in Class : Undoes(p, c)
             \/ GetsAttributes(p) \/ GetsId(p) \/ MovesKey(p)
             \/ Removes(p) \/ Destroys(p) \/ Quits(p)
        \/ Crash \/ New \/ NewFails \/ UNCHANGED vars
<1>1. ASSUME NEW p \in Thread, NEW t \in KeyTriple, NEW a \in Attr,
             PsaGenerateKey(p, t, a) \/ PsaImportKey(p, t, a)
      PROVE Creates(p, t)
  <2>1. CASE PsaGenerateKey(p, t, a)
    BY <2>1 DEF PsaGenerateKey, Creates
  <2>2. CASE PsaImportKey(p, t, a)
    <3>1. {"public"} # Class
      BY DEF Class
    <3> QED BY <2>2, <3>1 DEF PsaImportKey, Creates
  <2> QED BY <1>1, <2>1, <2>2
<1>2. ASSUME NEW p \in Thread, NEW t \in KeyTriple, NEW c \in Class, UseKey(p, t, c)
      PROVE ReadsId(p, t)
  BY <1>2 DEF UseKey, ReadsId
<1>3. ASSUME NEW p \in Thread, Start(p)
      PROVE \E t \in KeyTriple : Creates(p, t) \/ ReadsId(p, t) \/ ReadsAttributes(p, t)
  <2>1. PICK t \in KeyTriple :
          \/ \E a \in Attr : PsaGenerateKey(p, t, a) \/ PsaImportKey(p, t, a)
          \/ UseKey(p, t, "private") \/ UseKey(p, t, "public")
          \/ PsaExportPublicKey(p, t) \/ SoftwareOperation(p, t)
          \/ PsaDestroyKey(p, t)
    BY <1>3 DEF Start, PsaSignHash, PsaVerifyHash, PsaAsymmetricEncrypt, PsaAsymmetricDecrypt,
                SoftwarePsaVerifyHash, SoftwarePsaAsymmetricEncrypt
  <2>2. CASE PsaExportPublicKey(p, t)
    BY <2>2 DEF PsaExportPublicKey, ReadsAttributes
  <2>3. CASE SoftwareOperation(p, t)
    BY <2>3 DEF SoftwareOperation, ReadsAttributes
  <2>4. CASE PsaDestroyKey(p, t)
    BY <2>4 DEF PsaDestroyKey, ReadsId
  <2>5. "private" \in Class /\ "public" \in Class
    BY DEF Class
  <2> QED BY <1>1, <1>2, <2>1, <2>2, <2>3, <2>4, <2>5
<1>4. ASSUME NEW p \in Thread, Continue(p), ~Insert(p), ~Quits(p)
      PROVE \/ \E i \in Id \ local_ids : Draws(p, i)
            \/ Makes(p) \/ \E c \in Class : Undoes(p, c)
            \/ GetsAttributes(p) \/ GetsId(p) \/ MovesKey(p)
            \/ Removes(p) \/ Destroys(p)
  <2> USE <1>4 DEF Quits, Fail, kim, service
  <2>1. CASE CreateKeyId(p)
    BY <2>1 DEF CreateKeyId, Draws
  <2>2. CASE CreateObjects(p)
    BY <2>2 DEF CreateObjects, Makes
  <2>3. CASE UndoPublic(p)
    BY <2>3 DEF UndoPublic, DestroyPart, Undoes, Class
  <2>4. CASE UndoPrivate(p)
    BY <2>4 DEF UndoPrivate, DestroyPart, Undoes, Class
  <2>5. CASE GetKeyAttributes(p)
    BY <2>5 DEF GetKeyAttributes, GetsAttributes, Moves
  <2>6. CASE GetKeyId(p)
    BY <2>6 DEF GetKeyId, GetsId, Moves
  <2>7. CASE ExportPublicKey(p)
    BY <2>7 DEF ExportPublicKey, GetsAttributes, Moves
  <2>8. CASE UseObject(p)
    BY <2>8 DEF UseObject, MovesKey, Moves, Goto
  <2>9. CASE MovePubKeyToPsaCrypto(p)
    BY <2>9 DEF MovePubKeyToPsaCrypto, MovesKey, Moves, Goto
  <2>10. CASE RemovePsaCryptoPubKey(p)
    BY <2>10 DEF RemovePsaCryptoPubKey
  <2>11. CASE Remove(p)
    BY <2>11 DEF Remove, Removes
  <2>12. CASE DestroyFirst(p)
    BY <2>12 DEF DestroyFirst, Destroys
  <2>13. CASE DestroySecond(p)
    BY <2>13 DEF DestroySecond, Destroys
  <2> QED
    BY <2>1, <2>2, <2>3, <2>4, <2>5, <2>6, <2>7, <2>8, <2>9, <2>10, <2>11, <2>12, <2>13
    DEF Continue
<1> QED BY <1>3, <1>4 DEF Next

-----------------------------------------------------------------------------
(* The types, without that of the configuration flag. *)
Types ==
  /\ key_store \in [KeyTriple -> Info \cup {None}]
  /\ saved \in [KeyTriple -> Info \cup {None}]
  /\ status \in {"running", "down"}
  /\ local_ids \subseteq Id
  /\ token \subseteq Object
  /\ psa_keys \subseteq Thread
  /\ fault \in {"none", "some"}
  /\ pc \in [Thread -> {"idle", "id", "object", "insert", "undo", "undo_private",
                        "attributes", "find", "key_id", "find_public", "export", "export_id",
                        "export_find", "import", "software",
                        "remove", "destroy", "destroy_second"}]
  /\ arg \in [Thread -> KeyTriple \cup {None}]
  /\ attr \in [Thread -> Attr \cup {None}]
  /\ rid \in [Thread -> Id \cup {None}]
  /\ cls \in [Thread -> SUBSET Class]

(* The locals that a request has at each of its steps, and what is lost    *)
(* when the service stops.                                                 *)
Locals ==
  /\ \A p \in Thread : pc[p] = "idle" => arg[p] = None /\ rid[p] = None
  /\ \A p \in Thread : pc[p] # "idle" => arg[p] \in KeyTriple
  /\ \A p \in Thread : pc[p] \in {"id", "object", "insert"} => attr[p] \in Attr
  /\ \A p \in Thread : pc[p] \in {"id", "key_id", "export", "export_id"} => rid[p] = None
  /\ \A p \in Thread : pc[p] \notin {"idle", "id", "key_id", "export", "export_id"} => rid[p] # None
  /\ status = "down" => \A p \in Thread : pc[p] = "idle"
  /\ status = "down" => key_store = NoMappings

(* The fields of the information that a mapping holds, and of an object.   *)
LEMMA Fields ==
  /\ \A x \in Info : x.id \in Id /\ x.attr \in Attr
  /\ \A i \in Id, a \in Attr :
       LET x == [id |-> i, attr |-> a] IN x \in Info /\ x.id = i /\ x.attr = a
  /\ \A o \in Object : o.id \in Id /\ o.class \in Class /\ o.triple \in KeyTriple
  /\ \A i \in Id, c \in Class, t \in KeyTriple, a \in Attr :
       LET o == [id |-> i, class |-> c, triple |-> t, attr |-> a]
       IN  o \in Object /\ o.id = i /\ o.class = c /\ o.triple = t /\ o.attr = a
  BY DEF Info, Object

(* Every step keeps the types, and a request has its triple, its key id    *)
(* and its attributes when it needs them.                                  *)
LEMMA TypesStep == Types /\ Locals /\ [Next]_vars => Types' /\ Locals'
<1> SUFFICES ASSUME Types, Locals, [Next]_vars PROVE Types' /\ Locals'
  OBVIOUS
<1> USE Zenon, NoneAssumption DEF Types, Locals, kim, local, service
<1>1. ASSUME NEW p \in Thread, NEW t \in KeyTriple, Creates(p, t) PROVE Types' /\ Locals'
  <2>1. PICK a \in Attr, c \in {Class, {"public"}} : Begin(p, t, "id", a, None, c)
    BY ONLY <1>1 DEF Creates
  <2>2. c \in SUBSET Class
    BY DEF Class
  <2> QED BY SMT, <2>1, <2>2 DEF Begin
<1>2. ASSUME NEW p \in Thread, NEW t \in KeyTriple, ReadsId(p, t) PROVE Types' /\ Locals'
  <2>1. PICK s \in {"attributes", "remove"}, c \in SUBSET Class :
             Begin(p, t, s, None, key_store[t].id, c)
    BY <1>2 DEF ReadsId
  <2>2. key_store[t].id \in Id
    BY SMT, Fields, <1>2 DEF ReadsId, DoesNotExist
  <2> QED BY SMT, <2>1, <2>2 DEF Begin
<1>3. ASSUME NEW p \in Thread, NEW t \in KeyTriple, ReadsAttributes(p, t) PROVE Types' /\ Locals'
  <2>1. PICK s \in {"key_id", "export"} : Begin(p, t, s, key_store[t].attr, None, {"public"})
    BY <1>3 DEF ReadsAttributes
  <2>2. key_store[t].attr \in Attr
    BY SMT, Fields, <1>3 DEF ReadsAttributes, DoesNotExist
  <2>3. {"public"} \in SUBSET Class
    BY DEF Class
  <2> QED BY SMT, <2>1, <2>2, <2>3 DEF Begin
<1>4. ASSUME NEW p \in Thread, NEW i \in Id \ local_ids, Draws(p, i) PROVE Types' /\ Locals'
  BY SMT, <1>4 DEF Draws
<1>5. ASSUME NEW p \in Thread, Makes(p) PROVE Types' /\ Locals'
  <2>1. rid[p] \in Id /\ arg[p] \in KeyTriple /\ attr[p] \in Attr
    BY <1>5 DEF Makes
  <2>2. token' \subseteq Object
    BY SMT, Fields, <1>5, <2>1 DEF Makes, Made
  <2>3. pc[p] = "object" /\ pc' = [pc EXCEPT ![p] = "insert"]
        /\ UNCHANGED <<key_store, saved, status, local_ids, psa_keys, fault, arg, attr, rid, cls>>
    BY <1>5 DEF Makes, Goto
  <2> QED BY SMT, <2>2, <2>3
<1>6. ASSUME NEW p \in Thread, Insert(p) PROVE Types' /\ Locals'
  <2>1. /\ pc[p] = "insert" /\ status = "running"
        /\ UNCHANGED <<status, local_ids, token, psa_keys>>
    BY <1>6 DEF Insert
  <2>2. fault' \in {"none", "some"}
    BY <1>6 DEF Insert
  <2>3. [id |-> rid[p], attr |-> attr[p]] \in Info
    BY SMT, Fields, <2>1
  <2>4. /\ key_store' \in [KeyTriple -> Info \cup {None}]
        /\ saved' \in [KeyTriple -> Info \cup {None}]
    BY SMT, <1>6, <2>3 DEF Insert, InsertKeyInfo, InsertFails
  <2>5. CASE Goto(p, "undo")
    BY SMT, <2>1, <2>2, <2>4, <2>5 DEF Goto
  <2>6. CASE Return(p)
    BY SMT, <2>1, <2>2, <2>4, <2>6 DEF Return
  <2> QED BY <1>6, <2>5, <2>6 DEF Insert
<1>7. ASSUME NEW p \in Thread, NEW c \in Class, Undoes(p, c) PROVE Types' /\ Locals'
  <2>1. token' \subseteq token
    BY <1>7 DEF Undoes
  <2>2. CASE Goto(p, "undo_private")
    BY <1>7, <2>1, <2>2 DEF Undoes, Goto
  <2>3. CASE Return(p)
    BY SMT, <1>7, <2>1, <2>3 DEF Undoes, Return
  <2> QED BY <1>7, <2>2, <2>3 DEF Undoes
<1>8. ASSUME NEW p \in Thread, GetsAttributes(p) PROVE Types' /\ Locals'
  BY SMT, Fields, <1>8 DEF GetsAttributes, Moves, DoesNotExist
<1>9. ASSUME NEW p \in Thread, GetsId(p) PROVE Types' /\ Locals'
  <2>1. key_store[arg[p]].id \in Id
    BY SMT, Fields, <1>9 DEF GetsId, Moves, DoesNotExist
  <2> QED BY SMT, <1>9, <2>1 DEF GetsId, Moves
<1>10. ASSUME NEW p \in Thread, MovesKey(p) PROVE Types' /\ Locals'
  BY SMT, <1>10 DEF MovesKey, Moves
<1>11. ASSUME NEW p \in Thread, Removes(p) PROVE Types' /\ Locals'
  BY SMT, <1>11 DEF Removes, RemoveKeyInfo, Goto
<1>12. ASSUME NEW p \in Thread, Destroys(p) PROVE Types' /\ Locals'
  <2>1. token' \subseteq token
    BY <1>12 DEF Destroys
  <2>2. CASE Goto(p, "destroy_second")
    BY SMT, <1>12, <2>1, <2>2 DEF Destroys, Goto
  <2>3. CASE Return(p)
    BY SMT, <1>12, <2>1, <2>3 DEF Destroys, Return
  <2> QED BY <1>12, <2>2, <2>3 DEF Destroys
<1>13. ASSUME NEW p \in Thread, Quits(p) PROVE Types' /\ Locals'
  <2>1. psa_keys' \subseteq Thread /\ fault' \in {"none", "some"}
    BY <1>13 DEF Quits
  <2> QED BY SMT, <1>13, <2>1 DEF Quits, Return
<1>14. CASE Crash
  <2>1. saved' \in [KeyTriple -> Info \cup {None}]
    BY SMT, <1>14 DEF Crash, StopDuringInsert
  <2> QED BY <1>14, <2>1 DEF Crash, StopDuringInsert, NoMappings
<1>15. CASE New
  <2>1. local_ids' \subseteq Id
    BY SMT, Fields, <1>15 DEF New, Present
  <2>2. /\ key_store' \in [KeyTriple -> Info \cup {None}]
        /\ saved' \in [KeyTriple -> Info \cup {None}]
    BY <1>15 DEF New, ReloadOnly
  <2> QED BY <1>15, <2>1, <2>2 DEF New
<1>16. CASE NewFails
  BY SMT, <1>16 DEF NewFails, ReloadFails
<1>17. CASE UNCHANGED vars
  BY <1>17 DEF vars
<1> QED
  BY <1>1, <1>2, <1>3, <1>4, <1>5, <1>6, <1>7, <1>8, <1>9, <1>10, <1>11, <1>12,
     <1>13, <1>14, <1>15, <1>16, <1>17, NextCases

(* The configuration flag is a Boolean, whatever the next start reads. *)
Flag == software_public_operations \in BOOLEAN

(* Every step keeps Flag; only a start changes it. *)
LEMMA FlagStep == Flag /\ [Next]_vars => Flag'
<1> SUFFICES ASSUME Flag, [Next]_vars PROVE Flag'
  OBVIOUS
<1>1. ASSUME NEW p \in Thread, NEW t, NEW s, NEW a, NEW i, NEW c, Begin(p, t, s, a, i, c)
      PROVE UNCHANGED software_public_operations
  BY Zenon, <1>1 DEF Begin, service
<1>2. ASSUME NEW p \in Thread, Start(p) PROVE UNCHANGED software_public_operations
  BY Zenon, <1>1, <1>2
  DEF Start, PsaGenerateKey, PsaImportKey, UseKey, PsaSignHash, PsaVerifyHash,
      PsaAsymmetricEncrypt, PsaAsymmetricDecrypt, PsaExportPublicKey, SoftwareOperation,
      SoftwarePsaVerifyHash, SoftwarePsaAsymmetricEncrypt, PsaDestroyKey
<1>3. ASSUME NEW p \in Thread, Continue(p) PROVE UNCHANGED service
  BY Zenon, <1>3
  DEF Continue, CreateKeyId, CreateObjects, Insert, UndoPublic, UndoPrivate, DestroyPart,
      GetKeyAttributes, GetKeyId, ExportPublicKey, UseObject, MovePubKeyToPsaCrypto,
      RemovePsaCryptoPubKey, Remove, DestroyFirst, DestroySecond
<1>4. CASE New
  BY Zenon, <1>4 DEF New, Flag
<1>5. CASE Crash \/ NewFails \/ UNCHANGED vars
  BY Zenon, <1>5 DEF Crash, NewFails, vars, service, Flag
<1> QED BY Zenon, <1>2, <1>3, <1>4, <1>5 DEF Next, service, Flag

(* The type invariant of the provider, for all constants. *)
THEOREM TypeCorrect == Spec => []TypeOK
<1>1. Init => Types /\ Locals
  BY NoneAssumption DEF Init, Types, Locals, NoMappings
<1>2. Init => Flag
  BY DEF Init, Flag
<1>3. Types /\ Locals /\ Flag => TypeOK
  <2> SUFFICES ASSUME Types, Locals, Flag PROVE TypeOK
    OBVIOUS
  <2>1. \A p \in Thread : pc[p] \in {"find", "find_public", "export_find", "destroy"} =>
          rid[p] # None
    BY SMTT(40) DEF Locals
  <2> QED BY Zenon, <2>1 DEF Types, Flag, TypeOK
<1> QED
  BY <1>1, <1>2, <1>3, TypesStep, FlagStep, PTL DEF Spec

-----------------------------------------------------------------------------
(* The steps of a request whose key is not mapped yet. *)
Unmapped == {"object", "insert"}

(* The ids in use are in local_ids, so that the next one is not in use; an *)
(* id that is held or mapped more than once is so for one triple; and the  *)
(* id of a key that is not mapped yet is held by one thread only.          *)
IdInv ==
  /\ \A t \in KeyTriple : key_store[t] # None => key_store[t].id \in local_ids
  /\ \A p \in Thread : rid[p] # None => rid[p] \in local_ids
  /\ status = "running" => \A t \in KeyTriple : saved[t] \in {key_store[t], None}
  /\ \A t, u \in KeyTriple :
       saved[t] # None /\ saved[u] # None /\ saved[t].id = saved[u].id => t = u
  /\ \A t, u \in KeyTriple :
       key_store[t] # None /\ key_store[u] # None /\ key_store[t].id = key_store[u].id => t = u
  /\ \A p \in Thread, t \in KeyTriple :
       rid[p] # None /\ key_store[t] # None /\ key_store[t].id = rid[p] =>
         arg[p] = t /\ pc[p] \notin Unmapped
  /\ \A p, q \in Thread :
       p # q /\ rid[p] # None /\ rid[p] = rid[q] => arg[p] = arg[q] /\ pc[p] \notin Unmapped

(* A step of a request that leaves the mappings alone, and after which it  *)
(* has no other key id than before, or none.                               *)
LEMMA IdOther ==
  ASSUME Types, IdInv, NEW p \in Thread,
         \/ rid'[p] = None
         \/ /\ rid'[p] = rid[p] /\ arg'[p] = arg[p]
            /\ pc'[p] \notin Unmapped \/ pc[p] \in Unmapped,
         \A q \in Thread \ {p} : pc'[q] = pc[q] /\ arg'[q] = arg[q] /\ rid'[q] = rid[q],
         UNCHANGED <<key_store, saved, status, local_ids>>
  PROVE IdInv'
<1> USE NoneAssumption DEF Types, IdInv
<1>1. CASE rid'[p] = None
  BY <1>1
<1>2. CASE /\ rid'[p] = rid[p] /\ arg'[p] = arg[p]
           /\ pc'[p] \notin Unmapped \/ pc[p] \in Unmapped
  BY <1>2
<1> QED BY <1>1, <1>2

(* Every step keeps IdInv: create_key_id returns an id that is not in      *)
(* local_ids.                                                              *)
LEMMA IdStep == Types /\ Locals /\ IdInv /\ [Next]_vars => IdInv'
<1> SUFFICES ASSUME Types, Locals, IdInv, [Next]_vars PROVE IdInv'
  OBVIOUS
<1> USE Zenon, NoneAssumption DEF Types, Locals, kim, local, service
<1>1. ASSUME NEW p \in Thread, NEW t \in KeyTriple, Creates(p, t) PROVE IdInv'
  <2>1. PICK a \in Attr, c \in {Class, {"public"}} : Begin(p, t, "id", a, None, c)
    BY ONLY <1>1 DEF Creates
  <2> QED BY <2>1, IdOther DEF Begin
<1>2. ASSUME NEW p \in Thread, NEW t \in KeyTriple, ReadsId(p, t) PROVE IdInv'
  <2>1. PICK s \in {"attributes", "remove"}, c \in SUBSET Class :
             Begin(p, t, s, None, key_store[t].id, c)
    BY <1>2 DEF ReadsId
  <2>2. key_store[t] # None
    BY <1>2 DEF ReadsId, DoesNotExist
  <2> QED BY SMTT(40), <2>1, <2>2 DEF Begin, IdInv, Unmapped
<1>3. ASSUME NEW p \in Thread, NEW t \in KeyTriple, ReadsAttributes(p, t) PROVE IdInv'
  <2>1. PICK s \in {"key_id", "export"} : Begin(p, t, s, key_store[t].attr, None, {"public"})
    BY ZenonT(30), <1>3 DEF ReadsAttributes
  <2> QED BY SMT, <2>1, IdOther DEF Begin
<1>4. ASSUME NEW p \in Thread, NEW i \in Id \ local_ids, Draws(p, i) PROVE IdInv'
  <2>1. \A q \in Thread \ {p} : rid'[q] = rid[q] /\ pc'[q] = pc[q] /\ arg'[q] = arg[q]
    BY <1>4 DEF Draws
  <2>2. rid'[p] = i /\ local_ids' = local_ids \cup {i} /\ UNCHANGED <<key_store, saved, status>>
    BY <1>4 DEF Draws
  <2>3. \A t \in KeyTriple : key_store[t] # None => key_store[t].id # i
    BY SMT DEF IdInv
  <2>4. \A q \in Thread \ {p} : rid[q] # i
    BY SMT DEF IdInv
  <2> QED BY SMT, <2>1, <2>2, <2>3, <2>4 DEF IdInv
<1>5. ASSUME NEW p \in Thread, Makes(p) PROVE IdInv'
  BY <1>5, IdOther DEF Makes, Goto, Unmapped
<1>6. ASSUME NEW p \in Thread, Insert(p) PROVE IdInv'
  <2>1. pc[p] = "insert" /\ status = "running" /\ UNCHANGED <<status, local_ids>>
    BY <1>6 DEF Insert
  <2>2. Return(p) \/ Goto(p, "undo")
    BY <1>6 DEF Insert
  <2>3. \A q \in Thread \ {p} : rid'[q] = rid[q] /\ pc'[q] = pc[q] /\ arg'[q] = arg[q]
    BY SMT, <2>2 DEF Return, Goto
  <2>4. pc'[p] \notin Unmapped /\ (rid'[p] = None \/ (rid'[p] = rid[p] /\ arg'[p] = arg[p]))
    BY SMTT(40), <2>2 DEF Return, Goto, Unmapped
  <2>5. CASE InsertKeyInfo(arg[p], [id |-> rid[p], attr |-> attr[p]])
    <3>1. PICK x \in Info : x.id = rid[p] /\ InsertKeyInfo(arg[p], x)
      BY SMTT(40), Fields, <2>1, <2>5
    <3>2. /\ \A t \in KeyTriple \ {arg[p]} : key_store'[t] = key_store[t] /\ saved'[t] = saved[t]
          /\ key_store'[arg[p]] = x /\ saved'[arg[p]] = x
      BY <2>1, <3>1 DEF InsertKeyInfo
    <3>3. \A t \in KeyTriple \ {arg[p]} :
             /\ key_store[t] # None => key_store[t].id # rid[p]
             /\ saved[t] # None => saved[t].id # rid[p]
      BY SMT, <2>1 DEF IdInv, Unmapped
    <3>4. \A q \in Thread \ {p} : rid[q] # rid[p]
      BY <2>1 DEF IdInv, Unmapped
    <3> QED BY SMTT(40), <2>1, <2>3, <2>4, <3>1, <3>2, <3>3, <3>4 DEF IdInv
  <2>6. CASE InsertFails(arg[p])
    <3>1. key_store' = key_store /\ \A t \in KeyTriple : saved'[t] \in {saved[t], None}
      BY <2>6 DEF InsertFails
    <3> QED BY SMTT(40), <2>1, <2>3, <2>4, <3>1 DEF IdInv
  <2> QED BY <1>6, <2>5, <2>6 DEF Insert
<1>7. ASSUME NEW p \in Thread, NEW c \in Class, Undoes(p, c) PROVE IdInv'
  BY SMT, <1>7, IdOther DEF Undoes, Goto, Return, Unmapped
<1>8. ASSUME NEW p \in Thread, GetsAttributes(p) PROVE IdInv'
  BY <1>8, IdOther DEF GetsAttributes, Moves, Unmapped
<1>9. ASSUME NEW p \in Thread, GetsId(p) PROVE IdInv'
  <2>1. /\ key_store[arg[p]] # None /\ arg[p] \in KeyTriple /\ pc'[p] \notin Unmapped
        /\ UNCHANGED <<key_store, saved, status, local_ids, arg>>
        /\ rid' = [rid EXCEPT ![p] = key_store[arg[p]].id]
        /\ \A q \in Thread \ {p} : pc'[q] = pc[q]
    BY SMT, <1>9 DEF GetsId, Moves, DoesNotExist, Unmapped
  <2> QED BY SMTT(40), <2>1 DEF IdInv
<1>10. ASSUME NEW p \in Thread, MovesKey(p) PROVE IdInv'
  BY SMTT(40), <1>10, IdOther DEF MovesKey, Moves, Unmapped
<1>11. ASSUME NEW p \in Thread, Removes(p) PROVE IdInv'
  <2>1. /\ \A t \in KeyTriple : key_store'[t] = (IF t = arg[p] THEN None ELSE key_store[t])
        /\ \A t \in KeyTriple : saved'[t] = (IF t = arg[p] THEN None ELSE saved[t])
    BY <1>11 DEF Removes, RemoveKeyInfo
  <2>2. /\ \A q \in Thread : pc'[q] # pc[q] => pc'[q] = "destroy"
        /\ UNCHANGED <<status, local_ids, arg, rid>>
    BY <1>11 DEF Removes, Goto
  <2> QED BY SMTT(40), <2>1, <2>2 DEF IdInv, Unmapped
<1>12. ASSUME NEW p \in Thread, Destroys(p) PROVE IdInv'
  BY SMT, <1>12, IdOther DEF Destroys, Goto, Return, Unmapped
<1>13. ASSUME NEW p \in Thread, Quits(p) PROVE IdInv'
  BY SMTT(40), <1>13, IdOther DEF Quits, Return
<1>14. CASE Crash
  <2>1. /\ \A t \in KeyTriple : key_store'[t] = None
        /\ \A p \in Thread : rid'[p] = None
        /\ status' = "down"
    BY <1>14 DEF Crash, StopDuringInsert, NoMappings
  <2>2. \A t \in KeyTriple : saved'[t] \in {saved[t], None}
    BY SMTT(40), <1>14 DEF Crash, StopDuringInsert
  <2> QED BY SMT, <2>1, <2>2 DEF IdInv
<1>15. CASE New
  <2>1. \A t \in KeyTriple : /\ key_store'[t] = (IF t \in Present THEN saved[t] ELSE None)
                             /\ saved'[t] = key_store'[t]
    BY <1>15 DEF New, ReloadOnly
  <2>2. \A p \in Thread : rid'[p] = None
    BY <1>15 DEF New
  <2>3. \A t \in Present : saved[t].id \in local_ids'
    BY <1>15 DEF New
  <2> QED BY SMT, <2>1, <2>2, <2>3 DEF IdInv
<1>16. CASE NewFails
  <2>1. /\ \A t \in KeyTriple : saved'[t] \in {saved[t], None}
        /\ UNCHANGED <<key_store, status, local_ids, pc, arg, rid>> /\ status = "down"
    BY SMTT(40), <1>16 DEF NewFails, ReloadFails
  <2> QED BY SMT, <2>1 DEF IdInv
<1>17. CASE UNCHANGED vars
  BY SMT, <1>17 DEF vars, IdInv
<1> QED
  BY <1>1, <1>2, <1>3, <1>4, <1>5, <1>6, <1>7, <1>8, <1>9, <1>10, <1>11, <1>12,
     <1>13, <1>14, <1>15, <1>16, <1>17, NextCases

(* The first start satisfies the invariants. *)
LEMMA InitInv == Init => Types /\ Locals /\ IdInv
  BY NoneAssumption DEF Init, Types, Locals, IdInv, NoMappings

(* Types, locals and ids, in every state that the provider reaches. *)
LEMMA Invariants == Spec => [](Types /\ Locals /\ IdInv)
  BY InitInv, TypesStep, IdStep, PTL DEF Spec

-----------------------------------------------------------------------------
(* A step of a request other than the reading of its attributes, which     *)
(* does not change the mappings of keys that others hold, keeps            *)
(* ValidatedPolicyIsCurrent.                                               *)
LEMMA ValidatedOther ==
  ASSUME Types, Locals, ValidatedPolicyIsCurrent, NEW p \in Thread,
         pc'[p] # "find",
         \A q \in Thread \ {p} :
           pc'[q] = pc[q] /\ arg'[q] = arg[q] /\ attr'[q] = attr[q] /\ rid'[q] = rid[q],
         \A t \in KeyTriple :
           \/ key_store'[t] \in {key_store[t], None}
           \/ \A q \in Thread \ {p} : rid[q] # None => key_store'[t].id # rid[q]
  PROVE ValidatedPolicyIsCurrent'
  BY NoneAssumption DEF Types, Locals, ValidatedPolicyIsCurrent, DoesNotExist

(* Every step keeps ValidatedPolicyIsCurrent: a new key has a new id.      *)
LEMMA ValidatedStep ==
  Types /\ Locals /\ IdInv /\ ValidatedPolicyIsCurrent /\ [Next]_vars => ValidatedPolicyIsCurrent'
<1> SUFFICES ASSUME Types, Locals, IdInv, ValidatedPolicyIsCurrent, [Next]_vars
             PROVE ValidatedPolicyIsCurrent'
  OBVIOUS
<1> USE Zenon, NoneAssumption DEF Types, kim, local, service
<1>1. ASSUME NEW p \in Thread, NEW t \in KeyTriple, Creates(p, t)
      PROVE ValidatedPolicyIsCurrent'
  <2>1. PICK a \in Attr, c \in {Class, {"public"}} : Begin(p, t, "id", a, None, c)
    BY ONLY <1>1 DEF Creates
  <2> QED BY <2>1, ValidatedOther DEF Begin
<1>2. ASSUME NEW p \in Thread, NEW t \in KeyTriple, ReadsId(p, t)
      PROVE ValidatedPolicyIsCurrent'
  <2>1. PICK s \in {"attributes", "remove"}, c \in SUBSET Class :
             Begin(p, t, s, None, key_store[t].id, c)
    BY <1>2 DEF ReadsId
  <2> QED BY <2>1, ValidatedOther DEF Begin
<1>3. ASSUME NEW p \in Thread, NEW t \in KeyTriple, ReadsAttributes(p, t)
      PROVE ValidatedPolicyIsCurrent'
  <2>1. PICK s \in {"key_id", "export"} : Begin(p, t, s, key_store[t].attr, None, {"public"})
    BY <1>3 DEF ReadsAttributes
  <2> QED BY <2>1, ValidatedOther DEF Begin
<1>4. ASSUME NEW p \in Thread, NEW i \in Id \ local_ids, Draws(p, i)
      PROVE ValidatedPolicyIsCurrent'
  BY <1>4, ValidatedOther DEF Draws
<1>5. ASSUME NEW p \in Thread, Makes(p) PROVE ValidatedPolicyIsCurrent'
  BY <1>5, ValidatedOther DEF Makes, Goto
<1>6. ASSUME NEW p \in Thread, Insert(p) PROVE ValidatedPolicyIsCurrent'
  <2>1. pc[p] = "insert" /\ arg[p] \in KeyTriple /\ rid[p] \in Id /\ attr[p] \in Attr
    BY <1>6 DEF Insert, Locals
  <2>2. Return(p) \/ Goto(p, "undo")
    BY <1>6 DEF Insert
  <2>3. /\ pc'[p] # "find"
        /\ \A q \in Thread \ {p} :
             pc'[q] = pc[q] /\ arg'[q] = arg[q] /\ attr'[q] = attr[q] /\ rid'[q] = rid[q]
    BY SMT, <2>2 DEF Return, Goto
  <2>4. \A q \in Thread \ {p} : rid[q] # rid[p]
    BY <2>1 DEF IdInv, Unmapped
  <2>5. CASE InsertKeyInfo(arg[p], [id |-> rid[p], attr |-> attr[p]])
    <3>1. PICK x \in Info : x.id = rid[p] /\ InsertKeyInfo(arg[p], x)
      BY <2>1, <2>5, Fields
    <3> QED BY SMT, <2>3, <2>4, <3>1, ValidatedOther DEF InsertKeyInfo
  <2>6. CASE InsertFails(arg[p])
    BY <2>3, <2>6, ValidatedOther DEF InsertFails
  <2> QED BY <1>6, <2>5, <2>6 DEF Insert
<1>7. ASSUME NEW p \in Thread, NEW c \in Class, Undoes(p, c) PROVE ValidatedPolicyIsCurrent'
  BY <1>7, ValidatedOther DEF Undoes, Goto, Return
<1>8. ASSUME NEW p \in Thread, GetsAttributes(p) PROVE ValidatedPolicyIsCurrent'
  BY SMT, <1>8 DEF GetsAttributes, Moves, ValidatedPolicyIsCurrent, DoesNotExist
<1>9. ASSUME NEW p \in Thread, GetsId(p) PROVE ValidatedPolicyIsCurrent'
  BY <1>9, ValidatedOther DEF GetsId, Moves
<1>10. ASSUME NEW p \in Thread, MovesKey(p) PROVE ValidatedPolicyIsCurrent'
  BY <1>10, ValidatedOther DEF MovesKey, Moves
<1>11. ASSUME NEW p \in Thread, Removes(p) PROVE ValidatedPolicyIsCurrent'
  BY <1>11, ValidatedOther DEF Removes, RemoveKeyInfo, Goto
<1>12. ASSUME NEW p \in Thread, Destroys(p) PROVE ValidatedPolicyIsCurrent'
  BY SMT, <1>12, ValidatedOther DEF Destroys, Goto, Return
<1>13. ASSUME NEW p \in Thread, Quits(p) PROVE ValidatedPolicyIsCurrent'
  BY <1>13, ValidatedOther DEF Quits, Return
<1>14. CASE Crash
  BY <1>14 DEF Crash, ValidatedPolicyIsCurrent
<1>15. CASE New
  BY <1>15 DEF New, Locals, ValidatedPolicyIsCurrent
<1>16. CASE NewFails
  BY SMT, <1>16 DEF NewFails, ReloadFails, ValidatedPolicyIsCurrent, DoesNotExist
<1>17. CASE UNCHANGED vars
  BY <1>17 DEF vars, ValidatedPolicyIsCurrent, DoesNotExist
<1> QED
  BY <1>1, <1>2, <1>3, <1>4, <1>5, <1>6, <1>7, <1>8, <1>9, <1>10, <1>11, <1>12,
     <1>13, <1>14, <1>15, <1>16, <1>17, NextCases

(* The attributes that sign, verify, encrypt and decrypt have validated    *)
(* are those of the key that they use, if it is still the key of the       *)
(* triple, although another request may replace it between the two reads.  *)
THEOREM PolicyCurrent == Spec => []ValidatedPolicyIsCurrent
<1>1. Init => ValidatedPolicyIsCurrent
  BY DEF Init, ValidatedPolicyIsCurrent
<1> QED
  BY <1>1, ValidatedStep, Invariants, PTL DEF Spec
=============================================================================
