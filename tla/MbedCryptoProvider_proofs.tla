---------------------- MODULE MbedCryptoProvider_proofs ----------------------
(***************************************************************************)
(* Proofs about MbedCryptoProvider, for every set of threads and triples   *)
(* and every range of key ids.                                             *)
(***************************************************************************)
EXTENDS MbedCryptoProvider, TLAPS

(* A request starts by looking that its name is free, by reading a key id  *)
(* for an operation, or by reading the id of the key to destroy.           *)
LEMMA StartCases ==
  ASSUME NEW p \in Thread, Start(p)
  PROVE \E t \in KeyTriple : CreateKey(p, t) \/ UseKey(p, t) \/ PsaDestroyKey(p, t)
  BY DEF Start, PsaGenerateKey, PsaImportKey, Operation, PsaExportPublicKey, PsaExportKey,
         PsaSignHash, PsaVerifyHash, PsaAsymmetricEncrypt, PsaAsymmetricDecrypt,
         PsaAeadEncrypt, PsaAeadDecrypt, PsaRawKeyAgreement

(* Every step of the provider leaves the variables in their types: in      *)
(* particular create_key_id never hands out an id above the limit.         *)
LEMMA TypeStep == TypeOK /\ [Next]_vars => TypeOK'
<1> SUFFICES ASSUME TypeOK, [Next]_vars PROVE TypeOK'
  OBVIOUS
<1> USE Zenon, IdAssumption DEF TypeOK, Id, Step, kim
<1>1. ASSUME NEW p \in Thread, NEW t \in KeyTriple, CreateKey(p, t) PROVE TypeOK'
  BY <1>1 DEF CreateKey, Begin
<1>2. ASSUME NEW p \in Thread, NEW t \in KeyTriple, UseKey(p, t) PROVE TypeOK'
  BY <1>2 DEF UseKey, Begin
<1>3. ASSUME NEW p \in Thread, NEW t \in KeyTriple, PsaDestroyKey(p, t) PROVE TypeOK'
  BY <1>3 DEF PsaDestroyKey, Begin
<1>4. ASSUME NEW p \in Thread, FetchAdd(p) PROVE TypeOK'
  <2>1. CASE id_counter + 1 > USER_MAX
    BY SMT, <1>4, <2>1 DEF FetchAdd, Goto
  <2>2. CASE ~(id_counter + 1 > USER_MAX)
    <3>1. /\ id_counter' = id_counter + 1
          /\ pc' = [pc EXCEPT ![p] = "generate"]
          /\ rid' = [rid EXCEPT ![p] = id_counter + 1]
          /\ UNCHANGED <<key_store, saved, status, mutex, backend, fault, arg>>
      BY <1>4, <2>2 DEF FetchAdd
    <3>2. id_counter + 1 \in Id
      BY SMT, <2>2
    <3> QED BY SMT, <3>1, <3>2
  <2> QED BY <2>1, <2>2
<1>5. ASSUME NEW p \in Thread, StoreLimit(p) PROVE TypeOK'
  BY <1>5 DEF StoreLimit, Return
<1>6. ASSUME NEW p \in Thread, Generate(p) PROVE TypeOK'
  BY <1>6 DEF Generate, Return, Goto
<1>7. ASSUME NEW p \in Thread, Insert(p) PROVE TypeOK'
  <2>1. /\ fault' \in {"none", "some"}
        /\ mutex' \in {mutex, None}
        /\ UNCHANGED <<status, id_counter, backend>>
    BY <1>7 DEF Insert
  <2>2. Return(p) \/ Goto(p, "undo")
    BY <1>7 DEF Insert
  <2>3. arg' \in [Thread -> KeyTriple \cup {None}] /\ pc' \in [Thread -> Step] /\ rid' \in [Thread -> Id \cup {None}]
    BY <2>2 DEF Return, Goto
  <2>4. InsertKeyInfo(arg[p], rid[p]) \/ InsertFails(arg[p])
    BY <1>7 DEF Insert
  <2>5. key_store' \in [KeyTriple -> Id \cup {None}] /\ saved' \in [KeyTriple -> Id \cup {None}]
    <3>1. CASE InsertKeyInfo(arg[p], rid[p])
      BY <3>1 DEF InsertKeyInfo
    <3>2. CASE InsertFails(arg[p])
      BY <3>2 DEF InsertFails
    <3> QED BY <2>4, <3>1, <3>2
  <2> QED BY <2>1, <2>3, <2>5
<1>8. ASSUME NEW p \in Thread, Undo(p) PROVE TypeOK'
  BY <1>8 DEF Undo, Return
<1>9. ASSUME NEW p \in Thread, Use(p) PROVE TypeOK'
  BY <1>9 DEF Use, Return
<1>10. ASSUME NEW p \in Thread, Remove(p) PROVE TypeOK'
  BY <1>10 DEF Remove, RemoveKeyInfo, Return, Goto
<1>11. ASSUME NEW p \in Thread, Destroy(p) PROVE TypeOK'
  BY <1>11 DEF Destroy, Return
<1>12. CASE Crash
  BY SMT, <1>12 DEF Crash, StopDuringInsert, NoMappings
<1>13. CASE New
  BY SMT, <1>13 DEF New, ReloadOnly, Opened
<1>14. CASE NewFails
  BY <1>14 DEF NewFails, ReloadFails
<1>15. CASE UNCHANGED vars
  BY <1>15 DEF vars
<1> QED
  BY <1>1, <1>2, <1>3, <1>4, <1>5, <1>6, <1>7, <1>8, <1>9, <1>10, <1>11,
     <1>12, <1>13, <1>14, <1>15, StartCases DEF Next, Continue

(* The type invariant of the provider, for all constants. *)
THEOREM TypeCorrect == Spec => []TypeOK
<1>1. Init => TypeOK
  BY IdAssumption DEF Init, TypeOK, Id, Step, NoMappings
<1> QED
  BY <1>1, TypeStep, PTL DEF Spec

-----------------------------------------------------------------------------
(* Where the locals of a request are set, and what is lost at a stop. *)
Locals ==
  /\ \A p \in Thread : pc[p] = "idle" => arg[p] = None /\ rid[p] = None
  /\ \A p \in Thread : pc[p] # "idle" => arg[p] \in KeyTriple
  /\ \A p \in Thread : pc[p] \in {"id", "limit"} => rid[p] = None
  /\ \A p \in Thread : pc[p] \notin {"idle", "id", "limit"} => rid[p] \in Id
  /\ status = "down" => \A p \in Thread : pc[p] = "idle"
  /\ status = "down" => key_store = NoMappings

(* A request has its triple and its key id when it needs them. *)
LEMMA LocalsStep == TypeOK /\ Locals /\ [Next]_vars => Locals'
<1> SUFFICES ASSUME TypeOK, Locals, [Next]_vars PROVE Locals'
  OBVIOUS
<1> USE Zenon, IdAssumption, NoneAssumption DEF TypeOK, Locals, Id, Step, kim
<1>1. ASSUME NEW p \in Thread, NEW t \in KeyTriple, CreateKey(p, t) PROVE Locals'
  BY SMT, <1>1 DEF CreateKey, Begin
<1>2. ASSUME NEW p \in Thread, NEW t \in KeyTriple, UseKey(p, t) PROVE Locals'
  BY SMT, <1>2 DEF UseKey, DoesNotExist, Begin
<1>3. ASSUME NEW p \in Thread, NEW t \in KeyTriple, PsaDestroyKey(p, t) PROVE Locals'
  BY SMT, <1>3 DEF PsaDestroyKey, DoesNotExist, Begin
<1>4. ASSUME NEW p \in Thread, FetchAdd(p) PROVE Locals'
  BY SMT, <1>4 DEF FetchAdd, Goto
<1>5. ASSUME NEW p \in Thread, StoreLimit(p) PROVE Locals'
  BY <1>5 DEF StoreLimit, Return
<1>6. ASSUME NEW p \in Thread, Generate(p) PROVE Locals'
  <2>1. UNCHANGED <<key_store, status>> /\ (Goto(p, "insert") \/ Return(p))
    BY <1>6 DEF Generate
  <2>2. pc[p] = "generate"
    BY <1>6 DEF Generate
  <2>3. CASE Goto(p, "insert")
    BY <2>1, <2>2, <2>3 DEF Goto
  <2>4. CASE Return(p)
    BY <2>1, <2>2, <2>4 DEF Return
  <2> QED BY <2>1, <2>3, <2>4
<1>7. ASSUME NEW p \in Thread, Insert(p) PROVE Locals'
  <2>1. pc[p] = "insert" /\ UNCHANGED status
    BY <1>7 DEF Insert
  <2>2. Return(p) \/ Goto(p, "undo")
    BY <1>7 DEF Insert
  <2>3. status' # "down"
    BY <2>1
  <2>4. CASE Return(p)
    BY SMT, <2>3, <2>4 DEF Return
  <2>5. CASE Goto(p, "undo")
    BY SMT, <2>1, <2>3, <2>5 DEF Goto
  <2> QED BY <2>2, <2>4, <2>5
<1>8. ASSUME NEW p \in Thread, Undo(p) PROVE Locals'
  BY <1>8 DEF Undo, Return
<1>9. ASSUME NEW p \in Thread, Use(p) PROVE Locals'
  BY <1>9 DEF Use, Return
<1>10. ASSUME NEW p \in Thread, Remove(p) PROVE Locals'
  <2>1. pc[p] = "remove" /\ UNCHANGED status
    BY <1>10 DEF Remove
  <2>2. Return(p) \/ Goto(p, "destroy")
    BY <1>10 DEF Remove
  <2>3. status' # "down"
    BY <2>1
  <2>4. CASE Return(p)
    BY SMT, <2>3, <2>4 DEF Return
  <2>5. CASE Goto(p, "destroy")
    BY SMT, <2>1, <2>3, <2>5 DEF Goto
  <2> QED BY <2>2, <2>4, <2>5
<1>11. ASSUME NEW p \in Thread, Destroy(p) PROVE Locals'
  BY <1>11 DEF Destroy, Return
<1>12. CASE Crash
  BY <1>12 DEF Crash, StopDuringInsert
<1>13. CASE New
  BY <1>13 DEF New
<1>14. CASE NewFails
  BY <1>14 DEF NewFails, ReloadFails
<1>15. CASE UNCHANGED vars
  BY <1>15 DEF vars
<1> QED
  BY <1>1, <1>2, <1>3, <1>4, <1>5, <1>6, <1>7, <1>8, <1>9, <1>10, <1>11,
     <1>12, <1>13, <1>14, <1>15, StartCases DEF Next, Continue

-----------------------------------------------------------------------------
(* The ids in use do not exceed id_counter, so that the next one is fresh; *)
(* an id that is held or mapped more than once is so for one triple; and   *)
(* the id of a key that is not mapped yet is held by one thread only.      *)
IdInv ==
  /\ \A t \in KeyTriple : key_store[t] # None => key_store[t] <= id_counter
  /\ \A p \in Thread : rid[p] # None => rid[p] <= id_counter
  /\ status = "running" => \A t \in KeyTriple : saved[t] \in {key_store[t], None}
  /\ \A t, u \in KeyTriple : saved[t] # None /\ saved[t] = saved[u] => t = u
  /\ \A t, u \in KeyTriple : key_store[t] # None /\ key_store[t] = key_store[u] => t = u
  /\ \A p \in Thread, t \in KeyTriple :
       rid[p] # None /\ rid[p] = key_store[t] =>
         arg[p] = t /\ pc[p] \notin {"generate", "insert"}
  /\ \A p, q \in Thread :
       p # q /\ rid[p] # None /\ rid[p] = rid[q] =>
         /\ arg[p] = arg[q]
         /\ pc[p] \notin {"generate", "insert"}
         /\ ~(pc[p] = "undo" /\ pc[q] = "undo")

(* Every step keeps IdInv: create_key_id returns an id above all those in  *)
(* use, and the reset at the limit does not make it return one again.      *)
LEMMA IdStep == TypeOK /\ Locals /\ IdInv /\ [Next]_vars => IdInv'
<1> SUFFICES ASSUME TypeOK, Locals, IdInv, [Next]_vars PROVE IdInv'
  OBVIOUS
<1> USE Zenon, IdAssumption, NoneAssumption DEF TypeOK, Locals, IdInv, Id, Step, kim
<1>1. ASSUME NEW p \in Thread, NEW t \in KeyTriple, CreateKey(p, t) PROVE IdInv'
  BY SMT, <1>1 DEF CreateKey, Begin
<1>2. ASSUME NEW p \in Thread, NEW t \in KeyTriple, UseKey(p, t) PROVE IdInv'
  BY SMT, <1>2 DEF UseKey, DoesNotExist, Begin
<1>3. ASSUME NEW p \in Thread, NEW t \in KeyTriple, PsaDestroyKey(p, t) PROVE IdInv'
  BY SMT, <1>3 DEF PsaDestroyKey, DoesNotExist, Begin
<1>4. ASSUME NEW p \in Thread, FetchAdd(p) PROVE IdInv'
  <2>1. CASE id_counter + 1 > USER_MAX
    BY SMT, <1>4, <2>1 DEF FetchAdd, Goto
  <2>2. CASE ~(id_counter + 1 > USER_MAX)
    <3>1. /\ \A t \in KeyTriple : key_store[t] # None => key_store[t] < id_counter + 1
          /\ \A q \in Thread : rid[q] # None => rid[q] < id_counter + 1
      BY SMT
    <3>2. /\ pc[p] = "id" /\ id_counter' = id_counter + 1
          /\ pc' = [pc EXCEPT ![p] = "generate"]
          /\ rid' = [rid EXCEPT ![p] = id_counter + 1]
          /\ UNCHANGED <<key_store, saved, status, arg>>
      BY <1>4, <2>2 DEF FetchAdd
    <3>3. \A q \in Thread : q # p => rid'[q] = rid[q] /\ pc'[q] = pc[q]
      BY <3>2
    <3>4. rid'[p] = id_counter + 1 /\ pc'[p] = "generate"
      BY <3>2
    <3>5. /\ \A t \in KeyTriple : key_store'[t] # None => key_store'[t] <= id_counter'
          /\ \A q \in Thread : rid'[q] # None => rid'[q] <= id_counter'
      BY SMT, <3>1, <3>2, <3>3, <3>4
    <3>6. \A q \in Thread, t \in KeyTriple :
             rid'[q] # None /\ rid'[q] = key_store'[t] =>
               arg'[q] = t /\ pc'[q] \notin {"generate", "insert"}
      BY SMT, <3>1, <3>2, <3>3, <3>4
    <3>7. \A q \in Thread \ {p} : rid'[q] # None => rid'[q] # rid'[p]
      BY SMT, <3>1, <3>3, <3>4
    <3>8. \A q, r \in Thread :
             q # r /\ rid'[q] # None /\ rid'[q] = rid'[r] =>
               /\ arg'[q] = arg'[r]
               /\ pc'[q] \notin {"generate", "insert"}
               /\ ~(pc'[q] = "undo" /\ pc'[r] = "undo")
      BY SMT, <3>2, <3>3, <3>4, <3>7
    <3> QED BY SMT, <3>2, <3>5, <3>6, <3>8
  <2> QED BY <2>1, <2>2
<1>5. ASSUME NEW p \in Thread, StoreLimit(p) PROVE IdInv'
  BY SMT, <1>5 DEF StoreLimit, Return
<1>6. ASSUME NEW p \in Thread, Generate(p) PROVE IdInv'
  <2>1. pc[p] = "generate" /\ UNCHANGED <<key_store, saved, status, id_counter>>
    BY <1>6 DEF Generate
  <2>2. CASE Goto(p, "insert")
    BY SMT, <2>1, <2>2 DEF Goto
  <2>3. CASE Return(p)
    BY SMT, <2>1, <2>3 DEF Return
  <2> QED BY <1>6, <2>2, <2>3 DEF Generate
<1>7. ASSUME NEW p \in Thread, Insert(p) PROVE IdInv'
  <2>1. CASE InsertKeyInfo(arg[p], rid[p]) /\ Return(p)
    BY SMT, <1>7, <2>1 DEF Insert, InsertKeyInfo, Return
  <2>2. CASE InsertKeyInfo(arg[p], rid[p]) /\ Goto(p, "undo")
    BY SMT, <1>7, <2>2 DEF Insert, InsertKeyInfo, Goto
  <2>3. CASE InsertFails(arg[p]) /\ Goto(p, "undo")
    <3>1. key_store' = key_store /\ \A t \in KeyTriple : saved'[t] \in {saved[t], None}
      BY SMT, <2>3 DEF InsertFails
    <3>2. pc[p] = "insert" /\ UNCHANGED <<status, id_counter>>
      BY <1>7 DEF Insert
    <3> QED BY SMT, <2>3, <3>1, <3>2 DEF Goto
  <2> QED BY <1>7, <2>1, <2>2, <2>3 DEF Insert
<1>8. ASSUME NEW p \in Thread, Undo(p) PROVE IdInv'
  BY SMT, <1>8 DEF Undo, Return
<1>9. ASSUME NEW p \in Thread, Use(p) PROVE IdInv'
  BY SMT, <1>9 DEF Use, Return
<1>10. ASSUME NEW p \in Thread, Remove(p) PROVE IdInv'
  <2>1. CASE RemoveKeyInfo(arg[p]) /\ Goto(p, "destroy")
    BY SMT, <1>10, <2>1 DEF Remove, RemoveKeyInfo, Goto
  <2>2. CASE Return(p) /\ UNCHANGED kim
    BY SMT, <1>10, <2>2 DEF Remove, Return
  <2> QED BY <1>10, <2>1, <2>2 DEF Remove
<1>11. ASSUME NEW p \in Thread, Destroy(p) PROVE IdInv'
  BY SMT, <1>11 DEF Destroy, Return
<1>12. CASE Crash
  <2>1. /\ \A t \in KeyTriple : key_store'[t] = None
        /\ \A p \in Thread : rid'[p] = None
        /\ status' = "down"
    BY <1>12 DEF Crash, StopDuringInsert, NoMappings
  <2>2. \A t \in KeyTriple : saved'[t] \in {saved[t], None}
    BY SMT, <1>12 DEF Crash, StopDuringInsert
  <2>3. \A t, u \in KeyTriple : saved'[t] # None /\ saved'[t] = saved'[u] => t = u
    BY SMT, <2>2
  <2> QED BY <2>1, <2>3
<1>13. CASE New
  BY SMT, <1>13 DEF New, ReloadOnly, NoMappings
<1>14. CASE NewFails
  BY SMT, <1>14 DEF NewFails, ReloadFails
<1>15. CASE UNCHANGED vars
  BY SMT, <1>15 DEF vars
<1> QED
  BY <1>1, <1>2, <1>3, <1>4, <1>5, <1>6, <1>7, <1>8, <1>9, <1>10, <1>11,
     <1>12, <1>13, <1>14, <1>15, StartCases DEF Next, Continue

-----------------------------------------------------------------------------
(* The keys that mapped and held ids designate are keys of their triple.   *)
OwnInv ==
  /\ \A t \in KeyTriple : key_store[t] # None => backend[key_store[t]] \in {t, None}
  /\ \A t \in KeyTriple : saved[t] # None => backend[saved[t]] \in {t, None}
  /\ \A p \in Thread :
       rid[p] # None /\ pc[p] # "generate" => backend[rid[p]] \in {arg[p], None}

(* Every step keeps OwnInv: a key is created under an id that nobody else  *)
(* holds.                                                                  *)
LEMMA OwnStep == TypeOK /\ Locals /\ IdInv /\ OwnInv /\ [Next]_vars => OwnInv'
<1> SUFFICES ASSUME TypeOK, Locals, IdInv, OwnInv, [Next]_vars PROVE OwnInv'
  OBVIOUS
<1> USE Zenon, IdAssumption, NoneAssumption DEF TypeOK, Locals, OwnInv, Id, Step, kim
<1>1. ASSUME NEW p \in Thread, NEW t \in KeyTriple, CreateKey(p, t) PROVE OwnInv'
  BY SMT, <1>1 DEF CreateKey, Begin
<1>2. ASSUME NEW p \in Thread, NEW t \in KeyTriple, UseKey(p, t) PROVE OwnInv'
  BY SMT, <1>2 DEF UseKey, DoesNotExist, Begin
<1>3. ASSUME NEW p \in Thread, NEW t \in KeyTriple, PsaDestroyKey(p, t) PROVE OwnInv'
  BY SMT, <1>3 DEF PsaDestroyKey, DoesNotExist, Begin
<1>4. ASSUME NEW p \in Thread, FetchAdd(p) PROVE OwnInv'
  BY SMT, <1>4 DEF FetchAdd, Goto
<1>5. ASSUME NEW p \in Thread, StoreLimit(p) PROVE OwnInv'
  BY <1>5 DEF StoreLimit, Return
<1>6. ASSUME NEW p \in Thread, Generate(p) PROVE OwnInv'
  <2> USE DEF IdInv
  <2>1. /\ pc[p] = "generate" /\ status = "running"
        /\ UNCHANGED <<key_store, saved>>
    BY <1>6 DEF Generate
  <2>2. CASE Goto(p, "insert") /\ backend' = [backend EXCEPT ![rid[p]] = arg[p]]
    BY SMT, <2>1, <2>2 DEF Goto
  <2>3. CASE Return(p) /\ UNCHANGED backend
    BY SMT, <2>1, <2>3 DEF Return
  <2> QED BY <1>6, <2>2, <2>3 DEF Generate
<1>7. ASSUME NEW p \in Thread, Insert(p) PROVE OwnInv'
  <2>1. pc[p] = "insert" /\ UNCHANGED backend
    BY <1>7 DEF Insert
  <2>2. CASE InsertKeyInfo(arg[p], rid[p]) /\ (Return(p) \/ Goto(p, "undo"))
    <3>1. backend[rid[p]] \in {arg[p], None} /\ arg[p] \in KeyTriple
      BY SMT, <2>1
    <3>2. \A t \in KeyTriple :
            /\ key_store'[t] \in {key_store[t]} \cup (IF t = arg[p] THEN {rid[p]} ELSE {})
            /\ saved'[t] \in {saved[t]} \cup (IF t = arg[p] THEN {rid[p]} ELSE {})
      BY SMT, <2>2 DEF InsertKeyInfo
    <3>3. \A q \in Thread :
            /\ rid'[q] # None => rid'[q] = rid[q] /\ arg'[q] = arg[q]
            /\ rid'[q] # None /\ pc'[q] # "generate" => pc[q] # "generate"
      BY SMT, <2>1, <2>2 DEF Return, Goto
    <3> QED BY SMT, <2>1, <3>1, <3>2, <3>3
  <2>3. CASE InsertFails(arg[p]) /\ Goto(p, "undo")
    BY SMT, <2>1, <2>3 DEF InsertFails, Goto
  <2> QED BY <1>7, <2>2, <2>3 DEF Insert
<1>8. ASSUME NEW p \in Thread, Undo(p) PROVE OwnInv'
  BY SMTT(40), <1>8 DEF Undo, Return
<1>9. ASSUME NEW p \in Thread, Use(p) PROVE OwnInv'
  BY <1>9 DEF Use, Return
<1>10. ASSUME NEW p \in Thread, Remove(p) PROVE OwnInv'
  BY SMT, <1>10 DEF Remove, RemoveKeyInfo, Return, Goto
<1>11. ASSUME NEW p \in Thread, Destroy(p) PROVE OwnInv'
  BY <1>11 DEF Destroy, Return
<1>12. CASE Crash
  BY SMT, <1>12 DEF Crash, StopDuringInsert, NoMappings
<1>13. CASE New
  BY <1>13 DEF New, ReloadOnly
<1>14. CASE NewFails
  BY SMT, <1>14 DEF NewFails, ReloadFails
<1>15. CASE UNCHANGED vars
  BY <1>15 DEF vars
<1> QED
  BY <1>1, <1>2, <1>3, <1>4, <1>5, <1>6, <1>7, <1>8, <1>9, <1>10, <1>11,
     <1>12, <1>13, <1>14, <1>15, StartCases DEF Next, Continue

(* The first start satisfies the invariants. *)
LEMMA InitInv == Init => TypeOK /\ Locals /\ IdInv /\ OwnInv
  BY IdAssumption, NoneAssumption
  DEF Init, TypeOK, Locals, IdInv, OwnInv, Id, Step, NoMappings

(* The invariants hold in every state that the provider reaches. *)
LEMMA Invariants == Spec => [](TypeOK /\ Locals /\ IdInv /\ OwnInv)
  BY InitInv, TypeStep, LocalsStep, IdStep, OwnStep, PTL DEF Spec

(* No thread and no mapping ever designates the key of another triple,     *)
(* however requests, errors and restarts interleave.                       *)
THEOREM OwnKeys == Spec => []UsesOwnKey
<1>1. TypeOK /\ Locals /\ IdInv /\ OwnInv => UsesOwnKey
  BY NoneAssumption DEF TypeOK, Locals, OwnInv, UsesOwnKey, Id
<1> QED
  BY <1>1, Invariants, PTL

(* create_key_id never gives one id to two requests, and no id is mapped   *)
(* by two triples.                                                         *)
THEOREM DistinctIds == Spec => []IdsDistinct
<1>1. TypeOK /\ Locals /\ IdInv /\ OwnInv => IdsDistinct
  BY NoneAssumption DEF TypeOK, Locals, IdInv, IdsDistinct, Id
<1> QED
  BY <1>1, Invariants, PTL

(* Every step keeps a key that is about to be destroyed out of the         *)
(* mappings: remove_key_info takes away the only mapping that can          *)
(* designate it, that of the request's own triple, and no request that     *)
(* creates a key has its id.                                               *)
LEMMA UnmappedStep ==
  TypeOK /\ Locals /\ IdInv /\ DestroyedKeyUnmapped /\ [Next]_vars => DestroyedKeyUnmapped'
<1> SUFFICES ASSUME TypeOK, Locals, IdInv, DestroyedKeyUnmapped, [Next]_vars,
                    NEW p \in Thread, pc'[p] = "destroy", NEW t \in KeyTriple
             PROVE key_store'[t] # rid'[p]
  BY DEF DestroyedKeyUnmapped
<1> USE DEF TypeOK, Locals, kim
<1>0. \A q \in Thread : pc[q] \in {"insert", "remove", "destroy"} => rid[q] # None
  BY SMT, IdAssumption, NoneAssumption DEF Id
<1>1. CASE UNCHANGED <<key_store, pc, rid>>
  BY <1>1 DEF DestroyedKeyUnmapped
<1>2. ASSUME NEW q \in Thread, Start(q) \/ FetchAdd(q) \/ StoreLimit(q) \/ Generate(q)
                               \/ Undo(q) \/ Use(q) \/ Destroy(q)
      PROVE key_store'[t] # rid'[p]
  <2> DEFINE KeepsMappings == /\ UNCHANGED key_store /\ pc'[q] # "destroy"
                              /\ \A r \in Thread \ {q} : pc'[r] = pc[r] /\ rid'[r] = rid[r]
  <2>1. KeepsMappings
    <3>1. ASSUME NEW u \in KeyTriple, CreateKey(q, u) \/ UseKey(q, u) \/ PsaDestroyKey(q, u)
          PROVE KeepsMappings
      BY <3>1 DEF CreateKey, UseKey, PsaDestroyKey, Begin
    <3>2. CASE Start(q)
      BY <3>1, <3>2, StartCases
    <3> QED BY <1>2, <3>2 DEF FetchAdd, StoreLimit, Generate, Undo, Use, Destroy, Goto, Return
  <2> QED BY <2>1 DEF DestroyedKeyUnmapped
<1>3. ASSUME NEW q \in Thread, Insert(q) PROVE key_store'[t] # rid'[p]
  <2>1. /\ pc[q] = "insert" /\ p # q /\ pc[p] = "destroy" /\ rid'[p] = rid[p]
        /\ key_store'[t] \in {key_store[t], rid[q]}
    BY <1>3 DEF Insert, InsertKeyInfo, InsertFails, Goto, Return
  <2> QED BY <1>0, <2>1 DEF IdInv, DestroyedKeyUnmapped
<1>4. ASSUME NEW q \in Thread, Remove(q) PROVE key_store'[t] # rid'[p]
  <2>1. CASE p = q
    <3>1. pc[p] = "remove" /\ RemoveKeyInfo(arg[p]) /\ rid'[p] = rid[p]
      BY <1>4, <2>1 DEF Remove, Goto, Return
    <3> QED BY <1>0, <3>1 DEF RemoveKeyInfo, IdInv
  <2>2. CASE p # q
    <3>1. pc[p] = "destroy" /\ rid'[p] = rid[p] /\ key_store'[t] \in {key_store[t], None}
      BY <1>4, <2>2 DEF Remove, RemoveKeyInfo, Goto, Return
    <3> QED BY <1>0, <3>1 DEF DestroyedKeyUnmapped
  <2> QED BY <2>1, <2>2
<1>5. CASE Crash \/ New \/ NewFails
  BY <1>5 DEF Crash, New, NewFails
<1> QED
  BY <1>1, <1>2, <1>3, <1>4, <1>5 DEF Next, Continue, vars

(* A key is destroyed only once no mapping designates it, however the      *)
(* requests of any clients interleave, after errors and restarts.          *)
THEOREM DestroyedUnmapped == Spec => []DestroyedKeyUnmapped
<1>1. Init => DestroyedKeyUnmapped
  BY DEF Init, DestroyedKeyUnmapped
<1> QED
  BY <1>1, UnmappedStep, Invariants, PTL DEF Spec

-----------------------------------------------------------------------------
(* For the triples whose clients take turns: one request at a time         *)
(* modifies the key, and the mapping of the key is absent except before    *)
(* its removal.                                                            *)
TurnInv ==
  /\ \A t \in Turns : key_store[t] # None => backend[key_store[t]] = t
  /\ \A t \in Turns : saved[t] # None => backend[saved[t]] = t
  /\ \A p, q \in Thread :
       p # q /\ arg[p] \in Turns /\ arg[p] = arg[q] => "use" \in {pc[p], pc[q]}
  /\ \A p \in Thread :
       /\ arg[p] \in Turns
       /\ pc[p] \in {"id", "limit", "generate", "insert", "undo", "destroy"}
       => key_store[arg[p]] = None
  /\ \A p \in Thread : pc[p] = "insert" => backend[rid[p]] = arg[p]
  /\ \A p \in Thread :
       arg[p] \in Turns /\ pc[p] = "remove" => key_store[arg[p]] = rid[p]

(* Every step keeps TurnInv: a key is mapped after it was created and      *)
(* destroyed after its mapping was removed.                                *)
LEMMA TurnStep ==
  TypeOK /\ Locals /\ IdInv /\ OwnInv /\ TurnInv /\ [Next]_vars => TurnInv'
<1> SUFFICES ASSUME TypeOK, Locals, IdInv, OwnInv, TurnInv, [Next]_vars PROVE TurnInv'
  OBVIOUS
<1> USE Zenon, IdAssumption, NoneAssumption, TurnsAssumption DEF TypeOK, Locals, TurnInv, Id, Step, kim
<1>1. ASSUME NEW p \in Thread, NEW t \in KeyTriple, CreateKey(p, t) PROVE TurnInv'
  BY SMT, <1>1 DEF CreateKey, Alone, DoesNotExist, Begin
<1>2. ASSUME NEW p \in Thread, NEW t \in KeyTriple, UseKey(p, t) PROVE TurnInv'
  BY SMT, <1>2 DEF UseKey, Begin
<1>3. ASSUME NEW p \in Thread, NEW t \in KeyTriple, PsaDestroyKey(p, t) PROVE TurnInv'
  BY SMT, <1>3 DEF PsaDestroyKey, Alone, Begin
<1>4. ASSUME NEW p \in Thread, FetchAdd(p) PROVE TurnInv'
  <2>1. /\ UNCHANGED <<key_store, saved, backend, arg>>
        /\ pc[p] = "id"
        /\ \/ pc' = [pc EXCEPT ![p] = "limit"]
           \/ pc' = [pc EXCEPT ![p] = "generate"]
        /\ \A q \in Thread \ {p} : rid'[q] = rid[q]
    BY SMT, <1>4 DEF FetchAdd, Goto
  <2>2. CASE pc' = [pc EXCEPT ![p] = "limit"]
    BY SMT, <2>1, <2>2
  <2>3. CASE pc' = [pc EXCEPT ![p] = "generate"]
    BY SMT, <2>1, <2>3
  <2> QED BY <2>1, <2>2, <2>3
<1>5. ASSUME NEW p \in Thread, StoreLimit(p) PROVE TurnInv'
  BY SMT, <1>5 DEF StoreLimit, Return
<1>6. ASSUME NEW p \in Thread, Generate(p) PROVE TurnInv'
  <2> USE DEF IdInv
  <2>1. /\ pc[p] = "generate" /\ status = "running"
        /\ UNCHANGED <<key_store, saved>>
    BY <1>6 DEF Generate
  <2>2. CASE Goto(p, "insert") /\ backend' = [backend EXCEPT ![rid[p]] = arg[p]]
    BY SMT, <2>1, <2>2 DEF Goto
  <2>3. CASE Return(p) /\ UNCHANGED backend
    BY SMT, <2>1, <2>3 DEF Return
  <2> QED BY <1>6, <2>2, <2>3 DEF Generate
<1>7. ASSUME NEW p \in Thread, Insert(p) PROVE TurnInv'
  <2>1. pc[p] = "insert" /\ UNCHANGED backend
    BY <1>7 DEF Insert
  <2>2. CASE InsertKeyInfo(arg[p], rid[p]) /\ Return(p)
    BY SMT, <2>1, <2>2 DEF InsertKeyInfo, Return
  <2>3. CASE InsertFails(arg[p]) /\ Goto(p, "undo")
    BY SMT, <2>1, <2>3 DEF InsertFails, Goto
  <2>4. CASE InsertKeyInfo(arg[p], rid[p]) /\ arg[p] \notin Turns /\ Goto(p, "undo")
    BY SMT, <2>1, <2>4 DEF InsertKeyInfo, Goto
  <2> QED BY <1>7, <2>1, <2>2, <2>3, <2>4 DEF Insert, DoesNotExist
<1>8. ASSUME NEW p \in Thread, Undo(p) PROVE TurnInv'
  <2>1. \A t \in Turns : rid[p] # key_store[t] /\ rid[p] # saved[t]
    BY SMT, <1>8 DEF Undo, IdInv
  <2>2. \A q \in Thread : pc[q] = "insert" => rid[q] # rid[p]
    BY SMT, <1>8 DEF Undo, IdInv
  <2> QED BY SMT, <1>8, <2>1, <2>2 DEF Undo, Return
<1>9. ASSUME NEW p \in Thread, Use(p) PROVE TurnInv'
  BY SMT, <1>9 DEF Use, Return
<1>10. ASSUME NEW p \in Thread, Remove(p) PROVE TurnInv'
  <2>1. pc[p] = "remove" /\ UNCHANGED backend
    BY <1>10 DEF Remove
  <2>2. CASE RemoveKeyInfo(arg[p]) /\ Goto(p, "destroy")
    BY SMT, <2>1, <2>2 DEF RemoveKeyInfo, Goto
  <2>3. CASE Return(p) /\ UNCHANGED kim
    BY SMT, <2>1, <2>3 DEF Return
  <2> QED BY <1>10, <2>2, <2>3 DEF Remove
<1>11. ASSUME NEW p \in Thread, Destroy(p) PROVE TurnInv'
  <2>1. \A t \in Turns : rid[p] # key_store[t] /\ rid[p] # saved[t]
    BY SMT, <1>11 DEF Destroy, IdInv
  <2>2. \A q \in Thread : pc[q] = "insert" => rid[q] # rid[p]
    BY SMT, <1>11 DEF Destroy, IdInv
  <2> QED BY SMT, <1>11, <2>1, <2>2 DEF Destroy, Return
<1>12. CASE Crash
  BY SMT, <1>12 DEF Crash, StopDuringInsert, NoMappings
<1>13. CASE New
  BY <1>13 DEF New, ReloadOnly
<1>14. CASE NewFails
  BY SMT, <1>14 DEF NewFails, ReloadFails, NoMappings
<1>15. CASE UNCHANGED vars
  BY <1>15 DEF vars
<1> QED
  BY <1>1, <1>2, <1>3, <1>4, <1>5, <1>6, <1>7, <1>8, <1>9, <1>10, <1>11,
     <1>12, <1>13, <1>14, <1>15, StartCases DEF Next, Continue

(* TurnInv holds in every state that the provider reaches. *)
LEMMA TurnInvariant == Spec => [](TypeOK /\ Locals /\ IdInv /\ OwnInv /\ TurnInv)
<1>1. Init => TurnInv
  BY NoneAssumption, TurnsAssumption DEF Init, TurnInv, NoMappings
<1> QED
  BY <1>1, TurnStep, Invariants, PTL DEF Spec

(* Every mapping of a client that takes turns designates a key of the      *)
(* library, through all errors and restarts.                               *)
THEOREM KeysExist == Spec => []MappedKeysExist
<1>1. TurnInv => MappedKeysExist
  BY DEF TurnInv, MappedKeysExist
<1> QED
  BY <1>1, TurnInvariant, PTL

(* A request of a client that takes turns and that undoes the creation of  *)
(* a key leaves its name free.                                             *)
THEOREM NameFreed == Spec => FailedCreateFreesName
<1>1. ASSUME TypeOK, Locals, TurnInv, [Next]_vars
      PROVE [\A p \in Thread : pc[p] = "undo" /\ arg[p] \in Turns =>
               key_store'[arg[p]] = None]_vars
  <2>1. SUFFICES ASSUME NEW p \in Thread, pc[p] = "undo", arg[p] \in Turns
                 PROVE key_store'[arg[p]] = None
    OBVIOUS
  <2> USE <1>1, NoneAssumption, TurnsAssumption DEF TypeOK, Locals, TurnInv, kim
  <2>2. ASSUME NEW q \in Thread, Insert(q) PROVE key_store'[arg[p]] = None
    BY <2>1, <2>2 DEF Insert, InsertKeyInfo, InsertFails
  <2>3. ASSUME NEW q \in Thread, Remove(q) PROVE key_store'[arg[p]] = None
    BY <2>1, <2>3 DEF Remove, RemoveKeyInfo
  <2>4. CASE Crash
    BY <2>1, <2>4 DEF Crash, StopDuringInsert, NoMappings
  <2>5. CASE New
    BY <2>1, <2>5 DEF New
  <2>6. CASE UNCHANGED key_store
    BY SMTT(40), <2>1, <2>6
  <2>7. \/ UNCHANGED key_store
        \/ \E q \in Thread : Insert(q) \/ Remove(q)
        \/ Crash \/ New
    BY StartCases DEF Next, Continue, vars, CreateKey, UseKey, PsaDestroyKey, FetchAdd,
           StoreLimit, Generate, Undo, Use, Destroy, NewFails, ReloadFails
  <2> QED BY <2>2, <2>3, <2>4, <2>5, <2>6, <2>7
<1> QED
  BY <1>1, TurnInvariant, PTL DEF Spec, FailedCreateFreesName

-----------------------------------------------------------------------------
(* As long as nothing has failed, a key of a client that takes turns is    *)
(* mapped, or some request is about to map it or to destroy it.            *)
Tracked(i) ==
  \/ key_store[backend[i]] = i
  \/ \E p \in Thread : /\ pc[p] \in {"insert", "destroy"}
                       /\ arg[p] = backend[i] /\ rid[p] = i

OrphanInv ==
  /\ status = "down" => fault = "some"
  /\ fault = "none" => \A i \in Id : backend[i] \in Turns => Tracked(i)

(* Every step keeps OrphanInv: a request passes a key on from the library  *)
(* to its mapping, and from its mapping to the destruction.                *)
LEMMA OrphanStep ==
  TypeOK /\ Locals /\ IdInv /\ OwnInv /\ TurnInv /\ OrphanInv /\ [Next]_vars => OrphanInv'
<1> SUFFICES ASSUME TypeOK, Locals, IdInv, OwnInv, TurnInv, OrphanInv, [Next]_vars
             PROVE OrphanInv'
  OBVIOUS
<1> USE Zenon, NoneAssumption, TurnsAssumption DEF TypeOK, Locals, OrphanInv, Tracked, Step, kim
<1>0. fault' \in {"none", "some"}
  BY TypeStep
<1>1. ASSUME NEW p \in Thread, NEW t \in KeyTriple, CreateKey(p, t) PROVE OrphanInv'
  BY <1>1 DEF CreateKey, Begin
<1>2. ASSUME NEW p \in Thread, NEW t \in KeyTriple, UseKey(p, t) PROVE OrphanInv'
  BY <1>2 DEF UseKey, Begin
<1>3. ASSUME NEW p \in Thread, NEW t \in KeyTriple, PsaDestroyKey(p, t) PROVE OrphanInv'
  BY <1>3 DEF PsaDestroyKey, Begin
<1>4. ASSUME NEW p \in Thread, FetchAdd(p) PROVE OrphanInv'
  BY SMT, <1>4 DEF FetchAdd, Goto
<1>5. ASSUME NEW p \in Thread, StoreLimit(p) PROVE OrphanInv'
  BY <1>5 DEF StoreLimit, Return
<1>6. ASSUME NEW p \in Thread, Generate(p) PROVE OrphanInv'
  BY SMT, <1>6 DEF Generate, Goto
<1>7. ASSUME NEW p \in Thread, Insert(p) PROVE OrphanInv'
  <2>1. CASE fault' = "some"
    BY <1>7, <2>1 DEF Insert
  <2>2. CASE fault' = "none"
    <3>1. /\ pc[p] = "insert" /\ fault = "none"
          /\ UNCHANGED <<status, backend>> /\ InsertKeyInfo(arg[p], rid[p])
          /\ IF DoesNotExist(arg[p]) THEN Return(p) ELSE Goto(p, "undo")
      BY <1>7, <2>2 DEF Insert
    <3>2. ASSUME NEW i \in Id, backend[i] \in Turns PROVE Tracked(i)'
      <4>1. CASE arg[p] = backend[i] /\ rid[p] = i
        BY <3>1, <3>2, <4>1 DEF InsertKeyInfo
      <4>2. CASE ~(arg[p] = backend[i] /\ rid[p] = i)
        <5>1. CASE key_store[backend[i]] = i
          BY SMT, IdAssumption, <3>1, <3>2, <4>2, <5>1 DEF InsertKeyInfo, TurnInv, Id
        <5>2. ASSUME NEW q \in Thread, pc[q] \in {"insert", "destroy"},
                     arg[q] = backend[i], rid[q] = i
              PROVE Tracked(i)'
          <6>1. q # p
            BY <4>2, <5>2
          <6>2. pc'[q] = pc[q] /\ arg'[q] = arg[q] /\ rid'[q] = rid[q]
            BY SMT, <3>1, <6>1 DEF Return, Goto
          <6> QED BY SMT, <3>1, <5>2, <6>2
        <5> QED BY <2>2, <3>1, <3>2, <5>1, <5>2
      <4> QED BY <4>1, <4>2
    <3> QED BY <3>1, <3>2
  <2> QED BY <1>0, <2>1, <2>2
<1>8. ASSUME NEW p \in Thread, Undo(p) PROVE OrphanInv'
  BY SMT, <1>8 DEF Undo, Return
<1>9. ASSUME NEW p \in Thread, Use(p) PROVE OrphanInv'
  BY <1>9 DEF Use, Return
<1>10. ASSUME NEW p \in Thread, Remove(p) PROVE OrphanInv'
  <2>1. CASE fault' = "some"
    BY <1>10, <2>1 DEF Remove
  <2>2. CASE fault' = "none"
    <3>1. /\ pc[p] = "remove" /\ fault = "none"
          /\ UNCHANGED <<status, backend>> /\ RemoveKeyInfo(arg[p]) /\ Goto(p, "destroy")
      BY <1>10, <2>2 DEF Remove
    <3>2. ASSUME NEW i \in Id, backend[i] \in Turns PROVE Tracked(i)'
      <4>1. CASE key_store[backend[i]] = i
        BY SMT, <3>1, <3>2, <4>1 DEF RemoveKeyInfo, Goto, TurnInv
      <4>2. ASSUME NEW q \in Thread, pc[q] \in {"insert", "destroy"},
                   arg[q] = backend[i], rid[q] = i
            PROVE Tracked(i)'
        BY SMT, <3>1, <4>2 DEF Goto
      <4> QED BY <2>2, <3>1, <3>2, <4>1, <4>2
    <3> QED BY <3>1, <3>2
  <2> QED BY <1>0, <2>1, <2>2
<1>11. ASSUME NEW p \in Thread, Destroy(p) PROVE OrphanInv'
  BY SMT, <1>11 DEF Destroy, Return
<1>12. CASE Crash
  BY <1>12 DEF Crash
<1>13. CASE New
  BY <1>13 DEF New
<1>14. CASE NewFails
  BY <1>14 DEF NewFails
<1>15. CASE UNCHANGED vars
  BY <1>15 DEF vars
<1> QED
  BY <1>1, <1>2, <1>3, <1>4, <1>5, <1>6, <1>7, <1>8, <1>9, <1>10, <1>11,
     <1>12, <1>13, <1>14, <1>15, StartCases DEF Next, Continue

(* Clients that take turns leave no key in the library without a mapping,  *)
(* as long as no call fails and the service is not killed.                 *)
THEOREM NoOrphans == Spec => []NoOrphanKeys
<1>1. Init => OrphanInv
  BY NoneAssumption, TurnsAssumption DEF Init, OrphanInv
<1>2. Locals /\ OrphanInv => NoOrphanKeys
  BY DEF Locals, OrphanInv, Tracked, NoOrphanKeys, Quiet
<1> QED
  BY <1>1, <1>2, OrphanStep, TurnInvariant, PTL DEF Spec
=============================================================================
