-------------------- MODULE TrustedServiceProvider_proofs --------------------
(***************************************************************************)
(* Proofs about TrustedServiceProvider, for every set of threads and       *)
(* triples and every range of key ids.                                     *)
(***************************************************************************)
EXTENDS TrustedServiceProvider, TLAPS

(* A request starts by looking that its name is free, or by reading the    *)
(* key id that it uses.                                                    *)
Starts(p, t) ==
  \/ /\ Alone(p, t) /\ DoesNotExist(t)
     /\ \E s \in {"generate_id", "import_id"} : Begin(p, t, s, None)
  \/ \E s \in {"export", "sign", "verify"} : UseKey(p, t, s)
  \/ Alone(p, t) /\ UseKey(p, t, "remove")

(* The operations that send a request to the Trusted Service. *)
Sends(p) == pc[p] \in Calls /\ SendRequest(p)

(* The steps of the provider, by what they do. *)
LEMMA NextCases ==
  ASSUME [Next]_vars
  PROVE \/ \E p \in Thread, t \in KeyTriple : Starts(p, t)
        \/ \E p \in Thread : CreateKeyId(p) \/ StoreLimit(p) \/ Insert(p) \/ Remove(p)
        \/ \E p \in Thread : Sends(p) \/ ReceiveAnswer(p)
        \/ Crash \/ New \/ UNCHANGED vars
<1>1. ASSUME NEW p \in Thread, Start(p) PROVE \E t \in KeyTriple : Starts(p, t)
  BY <1>1 DEF Start, Starts, PsaGenerateKey, PsaImportKey, PsaExportPublicKey,
              PsaSignHash, PsaVerifyHash, PsaDestroyKey
<1>2. ASSUME NEW p \in Thread, Continue(p)
      PROVE \/ CreateKeyId(p) \/ StoreLimit(p) \/ Insert(p) \/ Remove(p)
            \/ Sends(p) \/ ReceiveAnswer(p)
  BY <1>2 DEF Continue, Sends, Calls, Creating, ContextGenerateKey, ContextImportKey,
              ContextExportPublicKey, ContextSignHash, ContextVerifyHash, ContextDestroyKey
<1> QED BY <1>1, <1>2 DEF Next

(* Every step of the provider leaves the variables in their types: in      *)
(* particular create_key_id never hands out an id above the limit.         *)
LEMMA TypeStep == TypeOK /\ [Next]_vars => TypeOK'
<1> SUFFICES ASSUME TypeOK, [Next]_vars PROVE TypeOK'
  OBVIOUS
<1> USE Zenon, IdAssumption DEF TypeOK, Id, Calls, Creating, kim, local
<1>1. ASSUME NEW p \in Thread, NEW t \in KeyTriple, Starts(p, t) PROVE TypeOK'
  <2>1. PICK s \in {"generate_id", "import_id", "export", "sign", "verify", "remove"},
             i \in Id \cup {None} : Begin(p, t, s, i)
    BY <1>1 DEF Starts, UseKey
  <2> QED BY <2>1 DEF Begin
<1>2. ASSUME NEW p \in Thread, CreateKeyId(p) PROVE TypeOK'
  <2>1. CASE id_counter + 1 > USER_MAX
    BY SMT, <1>2, <2>1 DEF CreateKeyId, Goto
  <2>2. CASE ~(id_counter + 1 > USER_MAX)
    <3>1. id_counter + 1 \in Id
      BY SMT, <2>2
    <3>2. \E s \in {"generate", "import"} : pc' = [pc EXCEPT ![p] = s]
      BY <1>2, <2>2 DEF CreateKeyId
    <3> QED BY SMT, <1>2, <2>2, <3>1, <3>2 DEF CreateKeyId
  <2> QED BY <2>1, <2>2
<1>3. ASSUME NEW p \in Thread, StoreLimit(p) PROVE TypeOK'
  BY <1>3 DEF StoreLimit, Return
<1>4. ASSUME NEW p \in Thread, Insert(p) PROVE TypeOK'
  BY SMTT(40), <1>4 DEF Insert, InsertKeyInfo, InsertFails, Return, Goto
<1>5. ASSUME NEW p \in Thread, Remove(p) PROVE TypeOK'
  BY <1>5 DEF Remove, RemoveKeyInfo, Return, Goto
<1>6. ASSUME NEW p \in Thread, Sends(p) PROVE TypeOK'
  <2>1. UNCHANGED <<key_store, saved, status, id_counter>>
    BY <1>6 DEF Sends, SendRequest
  <2>2. CASE call_mutex' = p /\ Execute(p) /\ UNCHANGED local
    <3>1. opstatus' \in {"ok", "error"} /\ fault' \in {"none", "some"}
      BY <2>2 DEF Execute
    <3>2. ts' \in [Id -> KeyTriple \cup {None}]
      BY SMT, <2>2 DEF Execute
    <3> QED BY <2>1, <2>2, <3>1, <3>2
  <2>3. CASE fault' = "some" /\ Return(p) /\ UNCHANGED <<call_mutex, opstatus, ts>>
    BY <2>1, <2>3 DEF Return
  <2> QED BY <1>6, <2>2, <2>3 DEF Sends, SendRequest, Resume
<1>7. ASSUME NEW p \in Thread, ReceiveAnswer(p) PROVE TypeOK'
  BY <1>7 DEF ReceiveAnswer, Resume, Return, Goto
<1>8. CASE Crash
  <2>1. saved' \in [KeyTriple -> Id \cup {None}]
    BY <1>8 DEF Crash, StopDuringInsert
  <2> QED BY SMT, <1>8, <2>1 DEF Crash, StopDuringInsert, NoMappings
<1>9. CASE New
  BY SMT, <1>9 DEF New, ReloadOnly, Saved
<1>10. CASE UNCHANGED vars
  BY <1>10 DEF vars
<1> QED
  BY <1>1, <1>2, <1>3, <1>4, <1>5, <1>6, <1>7, <1>8, <1>9, <1>10, NextCases

(* The type invariant of the provider, for all constants. *)
THEOREM TypeCorrect == Spec => []TypeOK
<1>1. Init => TypeOK
  BY IdAssumption DEF Init, TypeOK, Id, Calls, Creating, NoMappings
<1> QED
  BY <1>1, TypeStep, PTL DEF Spec

-----------------------------------------------------------------------------
(* Where the locals of a request are set, and what is lost at a stop. *)
Locals ==
  /\ \A p \in Thread : pc[p] = "idle" => arg[p] = None /\ rid[p] = None
  /\ \A p \in Thread : pc[p] # "idle" => arg[p] \in KeyTriple
  /\ \A p \in Thread : pc[p] \in {"generate_id", "import_id", "limit"} => rid[p] = None
  /\ \A p \in Thread :
       pc[p] \notin {"idle", "generate_id", "import_id", "limit"} => rid[p] \in Id
  /\ \A p \in Thread : call_mutex = p => pc[p] \in Calls
  /\ status = "down" => \A p \in Thread : pc[p] = "idle"
  /\ status = "down" => key_store = NoMappings

(* A request has its triple and its key id when it needs them. *)
LEMMA LocalsStep == TypeOK /\ Locals /\ [Next]_vars => Locals'
<1> SUFFICES ASSUME TypeOK, Locals, [Next]_vars PROVE Locals'
  OBVIOUS
<1> USE Zenon, IdAssumption, NoneAssumption DEF TypeOK, Locals, Id, Calls, Creating, kim, local
<1>1. ASSUME NEW p \in Thread, NEW t \in KeyTriple, Starts(p, t) PROVE Locals'
  <2>1. CASE \E s \in {"generate_id", "import_id"} : Begin(p, t, s, None)
    BY SMT, <2>1 DEF Begin
  <2>2. CASE \E s \in {"export", "sign", "verify", "remove"} : UseKey(p, t, s)
    BY SMT, <2>2 DEF UseKey, DoesNotExist, Begin
  <2> QED BY <1>1, <2>1, <2>2 DEF Starts
<1>2. ASSUME NEW p \in Thread, CreateKeyId(p) PROVE Locals'
  BY SMTT(40), <1>2 DEF CreateKeyId, Goto
<1>3. ASSUME NEW p \in Thread, StoreLimit(p) PROVE Locals'
  BY <1>3 DEF StoreLimit, Return
<1>4. ASSUME NEW p \in Thread, Insert(p) PROVE Locals'
  <2>1. pc[p] = "insert" /\ status' = status /\ call_mutex' = call_mutex
    BY <1>4 DEF Insert
  <2>2. status = "running"
    BY <2>1
  <2>3. CASE Goto(p, "undo")
    BY SMT, <2>1, <2>2, <2>3 DEF Goto
  <2>4. CASE Return(p)
    BY SMT, <2>1, <2>2, <2>4 DEF Return
  <2> QED BY <1>4, <2>3, <2>4 DEF Insert
<1>5. ASSUME NEW p \in Thread, Remove(p) PROVE Locals'
  <2>1. pc[p] = "remove" /\ status' = status /\ call_mutex' = call_mutex
    BY <1>5 DEF Remove
  <2>2. status = "running"
    BY <2>1
  <2>3. CASE Goto(p, "destroy")
    BY SMT, <2>1, <2>2, <2>3 DEF Goto
  <2>4. CASE Return(p)
    BY <2>1, <2>2, <2>4 DEF Return
  <2> QED BY <1>5, <2>3, <2>4 DEF Remove
<1>6. ASSUME NEW p \in Thread, Sends(p) PROVE Locals'
  <2>1. pc[p] \in Calls /\ call_mutex = None /\ UNCHANGED <<key_store, status>>
    BY <1>6 DEF Sends, SendRequest
  <2>2. CASE call_mutex' = p /\ UNCHANGED local
    BY <2>1, <2>2
  <2>3. CASE Return(p) /\ UNCHANGED call_mutex
    BY <2>1, <2>3 DEF Return
  <2> QED BY <1>6, <2>2, <2>3 DEF Sends, SendRequest, Resume
<1>7. ASSUME NEW p \in Thread, ReceiveAnswer(p) PROVE Locals'
  <2>1. call_mutex = p /\ call_mutex' = None /\ UNCHANGED <<key_store, status>>
    BY <1>7 DEF ReceiveAnswer
  <2>2. pc[p] \in Calls
    BY <2>1
  <2>3. CASE Goto(p, "insert")
    BY SMT, <2>1, <2>2, <2>3 DEF Goto
  <2>4. CASE Return(p)
    BY <2>1, <2>2, <2>4 DEF Return
  <2> QED BY <1>7, <2>3, <2>4 DEF ReceiveAnswer, Resume
<1>8. CASE Crash
  BY <1>8 DEF Crash, StopDuringInsert
<1>9. CASE New
  BY <1>9 DEF New
<1>10. CASE UNCHANGED vars
  BY <1>10 DEF vars
<1> QED
  BY <1>1, <1>2, <1>3, <1>4, <1>5, <1>6, <1>7, <1>8, <1>9, <1>10, NextCases

-----------------------------------------------------------------------------
(* The steps of a request whose key is not mapped yet. *)
Unmapped == Creating \cup {"insert"}

(* The ids in use do not exceed id_counter, so that the next one is fresh; *)
(* an id that is held or mapped more than once is so for one triple; and   *)
(* the id of a key that is not mapped yet is held by one thread only.      *)
IdInv ==
  /\ \A t \in KeyTriple : key_store[t] # None => key_store[t] <= id_counter
  /\ \A p \in Thread : rid[p] # None => rid[p] <= id_counter
  /\ status = "running" => \A t \in KeyTriple : saved[t] \in {key_store[t], None}
  /\ \A t, u \in KeyTriple : saved[t] # None /\ saved[t] = saved[u] => t = u
  /\ \A t, u \in KeyTriple : key_store[t] # None /\ key_store[t] = key_store[u] => t = u
  /\ \A p \in Thread, t \in KeyTriple :
       rid[p] # None /\ rid[p] = key_store[t] => arg[p] = t /\ pc[p] \notin Unmapped
  /\ \A p, q \in Thread :
       p # q /\ rid[p] # None /\ rid[p] = rid[q] =>
         /\ arg[p] = arg[q]
         /\ pc[p] \notin Unmapped
         /\ ~(pc[p] = "undo" /\ pc[q] = "undo")

(* A request that ends keeps IdInv. *)
LEMMA IdReturn ==
  ASSUME TypeOK, IdInv, NEW p \in Thread, Return(p),
         UNCHANGED <<key_store, saved, status, id_counter>>
  PROVE IdInv'
  BY SMTT(40) DEF TypeOK, IdInv, Return, Unmapped, Creating

(* Every step keeps IdInv: create_key_id returns an id above all those in  *)
(* use, and the reset at the limit does not make it return one again.      *)
LEMMA IdStep == TypeOK /\ Locals /\ IdInv /\ [Next]_vars => IdInv'
<1> SUFFICES ASSUME TypeOK, Locals, IdInv, [Next]_vars PROVE IdInv'
  OBVIOUS
<1> USE Zenon, IdAssumption, NoneAssumption
    DEF TypeOK, Locals, IdInv, Id, Calls, Creating, Unmapped, kim, local
<1>1. ASSUME NEW p \in Thread, NEW t \in KeyTriple, Starts(p, t) PROVE IdInv'
  <2>1. ASSUME NEW s \in {"generate_id", "import_id"}, Begin(p, t, s, None) PROVE IdInv'
    BY SMT, <2>1 DEF Begin
  <2>2. ASSUME NEW s \in {"export", "sign", "verify", "remove"}, UseKey(p, t, s) PROVE IdInv'
    BY SMTT(40), <2>2 DEF UseKey, DoesNotExist, Begin
  <2> QED BY <1>1, <2>1, <2>2 DEF Starts
<1>2. ASSUME NEW p \in Thread, CreateKeyId(p) PROVE IdInv'
  <2>1. CASE id_counter + 1 > USER_MAX
    BY SMT, <1>2, <2>1 DEF CreateKeyId, Goto
  <2>2. CASE ~(id_counter + 1 > USER_MAX)
    <3>1. /\ \A t \in KeyTriple : key_store[t] # None => key_store[t] < id_counter + 1
          /\ \A q \in Thread : rid[q] # None => rid[q] < id_counter + 1
      BY SMT
    <3>2. /\ pc[p] \in {"generate_id", "import_id"} /\ id_counter' = id_counter + 1
          /\ rid' = [rid EXCEPT ![p] = id_counter + 1]
          /\ UNCHANGED <<key_store, saved, status, arg>>
      BY <1>2, <2>2 DEF CreateKeyId
    <3>3. \A q \in Thread : q # p => rid'[q] = rid[q] /\ pc'[q] = pc[q]
      BY SMT, <1>2, <2>2, <3>2 DEF CreateKeyId
    <3>4. rid'[p] = id_counter + 1
      BY <3>2
    <3>5. /\ \A t \in KeyTriple : key_store'[t] # None => key_store'[t] <= id_counter'
          /\ \A q \in Thread : rid'[q] # None => rid'[q] <= id_counter'
      BY SMT, <3>1, <3>2, <3>3, <3>4
    <3>6. \A q \in Thread, t \in KeyTriple :
             rid'[q] # None /\ rid'[q] = key_store'[t] => arg'[q] = t /\ pc'[q] \notin Unmapped
      BY SMT, <3>1, <3>2, <3>3, <3>4
    <3>7. \A q \in Thread \ {p} : rid'[q] # None => rid'[q] # rid'[p]
      BY SMT, <3>1, <3>3, <3>4
    <3>8. \A q, r \in Thread :
             q # r /\ rid'[q] # None /\ rid'[q] = rid'[r] =>
               /\ arg'[q] = arg'[r]
               /\ pc'[q] \notin Unmapped
               /\ ~(pc'[q] = "undo" /\ pc'[r] = "undo")
      BY SMT, <3>2, <3>3, <3>4, <3>7
    <3> QED BY SMT, <3>2, <3>5, <3>6, <3>8
  <2> QED BY <2>1, <2>2
<1>3. ASSUME NEW p \in Thread, StoreLimit(p) PROVE IdInv'
  BY SMT, <1>3 DEF StoreLimit, Return
<1>4. ASSUME NEW p \in Thread, Insert(p) PROVE IdInv'
  <2>1. CASE InsertKeyInfo(arg[p], rid[p]) /\ Return(p)
    BY SMTT(40), <1>4, <2>1 DEF Insert, InsertKeyInfo, Return
  <2>2. CASE InsertKeyInfo(arg[p], rid[p]) /\ Goto(p, "undo")
    BY SMTT(40), <1>4, <2>2 DEF Insert, InsertKeyInfo, Goto
  <2>3. CASE InsertFails(arg[p]) /\ Goto(p, "undo")
    <3>1. key_store' = key_store /\ \A t \in KeyTriple : saved'[t] \in {saved[t], None}
      BY SMT, <2>3 DEF InsertFails
    <3>2. pc[p] = "insert" /\ UNCHANGED <<status, id_counter>>
      BY <1>4 DEF Insert
    <3> QED BY SMTT(40), <2>3, <3>1, <3>2 DEF Goto
  <2> QED BY <1>4, <2>1, <2>2, <2>3 DEF Insert
<1>5. ASSUME NEW p \in Thread, Remove(p) PROVE IdInv'
  <2>1. CASE RemoveKeyInfo(arg[p]) /\ Goto(p, "destroy")
    BY SMTT(40), <1>5, <2>1 DEF Remove, RemoveKeyInfo, Goto
  <2>2. CASE Return(p) /\ UNCHANGED kim
    BY <1>5, <2>2, IdReturn DEF Remove
  <2> QED BY <1>5, <2>1, <2>2 DEF Remove
<1>6. ASSUME NEW p \in Thread, Sends(p) PROVE IdInv'
  <2>1. UNCHANGED <<key_store, saved, status, id_counter>>
    BY <1>6 DEF Sends, SendRequest
  <2>2. CASE UNCHANGED local
    BY SMT, <2>1, <2>2
  <2>3. CASE Return(p)
    BY <2>1, <2>3, IdReturn
  <2> QED BY <1>6, <2>2, <2>3 DEF Sends, SendRequest, Resume
<1>7. ASSUME NEW p \in Thread, ReceiveAnswer(p) PROVE IdInv'
  <2>1. UNCHANGED <<key_store, saved, status, id_counter>>
    BY <1>7 DEF ReceiveAnswer
  <2>2. CASE pc[p] \in Creating /\ Goto(p, "insert")
    BY SMTT(40), <2>1, <2>2 DEF Goto
  <2>3. CASE Return(p)
    BY <2>1, <2>3, IdReturn
  <2> QED BY <1>7, <2>2, <2>3 DEF ReceiveAnswer, Resume
<1>8. CASE Crash
  <2>1. /\ \A t \in KeyTriple : key_store'[t] = None
        /\ \A p \in Thread : rid'[p] = None
        /\ status' = "down"
    BY <1>8 DEF Crash, StopDuringInsert, NoMappings
  <2>2. \A t \in KeyTriple : saved'[t] \in {saved[t], None}
    BY SMT, <1>8 DEF Crash, StopDuringInsert
  <2>3. \A t, u \in KeyTriple : saved'[t] # None /\ saved'[t] = saved'[u] => t = u
    BY SMT, <2>2
  <2> QED BY <2>1, <2>3
<1>9. CASE New
  <2>1. \A t \in KeyTriple : key_store'[t] = saved[t] /\ saved'[t] = saved[t]
    BY <1>9 DEF New, ReloadOnly, Saved
  <2>2. \A p \in Thread : rid'[p] = None
    BY <1>9 DEF New
  <2>3. \A t \in KeyTriple : saved[t] # None => saved[t] <= id_counter'
    BY <1>9 DEF New, Saved
  <2> QED BY SMT, <2>1, <2>2, <2>3
<1>10. CASE UNCHANGED vars
  BY SMT, <1>10 DEF vars
<1> QED
  BY <1>1, <1>2, <1>3, <1>4, <1>5, <1>6, <1>7, <1>8, <1>9, <1>10, NextCases

-----------------------------------------------------------------------------
(* The service has created p's key, and p has not received the answer. *)
Created(p) == pc[p] \in Creating /\ call_mutex = p /\ opstatus = "ok"

(* The keys that mapped and held ids designate are keys of their triple.   *)
OwnInv ==
  /\ \A t \in KeyTriple : key_store[t] # None => ts[key_store[t]] \in {t, None}
  /\ \A t \in KeyTriple : saved[t] # None => ts[saved[t]] \in {t, None}
  /\ \A p \in Thread :
       rid[p] # None /\ pc[p] \notin Creating => ts[rid[p]] \in {arg[p], None}
  /\ \A p \in Thread : Created(p) => ts[rid[p]] = arg[p]

(* What the service does with a call: it creates a key for the caller's    *)
(* triple, destroys one, or changes none.                                  *)
LEMMA ExecuteCases ==
  ASSUME TypeOK, Locals, NEW p \in Thread, pc[p] \in Calls, Execute(p)
  PROVE \/ /\ pc[p] \in Creating /\ ts[rid[p]] = None /\ opstatus' = "ok"
           /\ ts' = [ts EXCEPT ![rid[p]] = arg[p]] /\ UNCHANGED fault
        \/ /\ pc[p] \in {"undo", "destroy"} /\ opstatus' = "ok"
           /\ ts' = [ts EXCEPT ![rid[p]] = None] /\ UNCHANGED fault
        \/ /\ pc[p] \in Creating \cup {"undo", "destroy"} /\ opstatus' = "error"
           /\ UNCHANGED ts
           /\ fault' = "some" \/ (UNCHANGED fault /\ (ts[rid[p]] = None) # (pc[p] \in Creating))
        \/ pc[p] \notin Creating \cup {"undo", "destroy"} /\ UNCHANGED ts
           /\ fault' \in {fault, "some"}
<1> USE NoneAssumption DEF TypeOK, Locals, Calls, Creating, Id
<1>1. rid[p] \in Id /\ arg[p] \in KeyTriple
  OBVIOUS
<1>2. CASE pc[p] \in Creating
  BY <1>1, <1>2 DEF Execute
<1>3. CASE pc[p] \in {"undo", "destroy"}
  BY <1>1, <1>3 DEF Execute
<1>4. CASE pc[p] \notin Creating \cup {"undo", "destroy"}
  <2>1. [ts EXCEPT ![rid[p]] = @] = ts
    BY <1>1
  <2> QED BY Zenon, <1>1, <1>4, <2>1 DEF Execute
<1> QED BY <1>2, <1>3, <1>4

(* Every step keeps OwnInv: a key is created under an id that nobody else  *)
(* holds.                                                                  *)
LEMMA OwnStep == TypeOK /\ Locals /\ IdInv /\ OwnInv /\ [Next]_vars => OwnInv'
<1> SUFFICES ASSUME TypeOK, Locals, IdInv, OwnInv, [Next]_vars PROVE OwnInv'
  OBVIOUS
<1> USE Zenon, IdAssumption, NoneAssumption
    DEF TypeOK, Locals, OwnInv, Created, Id, Calls, Creating, kim, local
<1>1. ASSUME NEW p \in Thread, NEW t \in KeyTriple, Starts(p, t) PROVE OwnInv'
  <2>1. ASSUME NEW s \in {"generate_id", "import_id"}, Begin(p, t, s, None) PROVE OwnInv'
    BY SMT, <2>1 DEF Begin
  <2>2. ASSUME NEW s \in {"export", "sign", "verify", "remove"}, UseKey(p, t, s) PROVE OwnInv'
    BY SMTT(40), <2>2 DEF UseKey, DoesNotExist, Begin
  <2> QED BY <1>1, <2>1, <2>2 DEF Starts
<1>2. ASSUME NEW p \in Thread, CreateKeyId(p) PROVE OwnInv'
  <2>1. /\ \A q \in Thread \ {p} : pc'[q] = pc[q] /\ arg'[q] = arg[q] /\ rid'[q] = rid[q]
        /\ pc'[p] \in {"generate", "import"} \/ (pc'[p] = "limit" /\ rid'[p] = rid[p])
        /\ pc[p] \in {"generate_id", "import_id"} /\ arg'[p] = arg[p]
        /\ UNCHANGED <<kim, ts, call_mutex, opstatus>>
    BY SMT, <1>2 DEF CreateKeyId, Goto
  <2>2. call_mutex # p /\ rid[p] = None
    BY SMT, <2>1
  <2>3. ASSUME NEW q \in Thread PROVE
          /\ rid'[q] # None /\ pc'[q] \notin Creating => ts[rid'[q]] \in {arg'[q], None}
          /\ Created(q)' => ts[rid'[q]] = arg'[q]
    BY ZenonT(30), <2>1, <2>2, <2>3
  <2> QED BY <2>1, <2>3
<1>3. ASSUME NEW p \in Thread, StoreLimit(p) PROVE OwnInv'
  BY SMT, <1>3 DEF StoreLimit, Return
<1>4. ASSUME NEW p \in Thread, Insert(p) PROVE OwnInv'
  <2>1. pc[p] = "insert" /\ UNCHANGED <<ts, call_mutex, opstatus>>
    BY <1>4 DEF Insert
  <2>2. CASE InsertKeyInfo(arg[p], rid[p]) /\ Return(p)
    BY SMTT(40), <2>1, <2>2 DEF InsertKeyInfo, Return
  <2>3. CASE InsertKeyInfo(arg[p], rid[p]) /\ Goto(p, "undo")
    <3>1. \A t \in KeyTriple : /\ key_store'[t] = (IF t = arg[p] THEN rid[p] ELSE key_store[t])
                               /\ saved'[t] = (IF t = arg[p] THEN rid[p] ELSE saved[t])
      BY SMT, <2>1, <2>3 DEF InsertKeyInfo
    <3>2. arg' = arg /\ rid' = rid /\ \A q \in Thread : pc'[q] = (IF q = p THEN "undo" ELSE pc[q])
      BY SMT, <2>3 DEF Goto
    <3>3. ts[rid[p]] \in {arg[p], None}
      BY SMT, <2>1
    <3> QED BY SMT, <2>1, <3>1, <3>2, <3>3
  <2>4. CASE InsertFails(arg[p]) /\ Goto(p, "undo")
    BY SMTT(40), <2>1, <2>4 DEF InsertFails, Goto
  <2> QED BY <1>4, <2>2, <2>3, <2>4 DEF Insert
<1>5. ASSUME NEW p \in Thread, Remove(p) PROVE OwnInv'
  <2>1. pc[p] = "remove" /\ UNCHANGED <<ts, call_mutex, opstatus>>
    BY <1>5 DEF Remove
  <2>2. CASE RemoveKeyInfo(arg[p]) /\ Goto(p, "destroy")
    BY SMT, <2>1, <2>2 DEF RemoveKeyInfo, Goto
  <2>3. CASE Return(p) /\ UNCHANGED kim
    BY SMT, <2>1, <2>3 DEF Return
  <2> QED BY <1>5, <2>2, <2>3 DEF Remove
<1>6. ASSUME NEW p \in Thread, Sends(p) PROVE OwnInv'
  <2>1. /\ pc[p] \in Calls /\ call_mutex = None /\ status = "running"
        /\ UNCHANGED <<key_store, saved, status>>
    BY <1>6 DEF Sends, SendRequest
  <2>2. CASE call_mutex' = p /\ Execute(p) /\ UNCHANGED local
    <3>1. CASE /\ pc[p] \in Creating /\ ts' = [ts EXCEPT ![rid[p]] = arg[p]]
      <4>1. \A t \in KeyTriple : rid[p] # key_store[t] /\ rid[p] # saved[t]
        BY SMT, <2>1, <3>1 DEF IdInv, Unmapped
      <4>2. \A q \in Thread : q # p => rid[q] # rid[p]
        BY SMT, <2>1, <3>1 DEF IdInv, Unmapped
      <4>3. /\ ts'[rid[p]] = arg[p]
            /\ \A i \in Id : i # rid[p] => ts'[i] = ts[i]
        BY SMT, <2>1, <3>1
      <4>4. \A t \in KeyTriple : /\ key_store[t] # None => ts'[key_store[t]] \in {t, None}
                                 /\ saved[t] # None => ts'[saved[t]] \in {t, None}
        BY SMT, <4>1, <4>3
      <4>5. ASSUME NEW q \in Thread \ {p}, rid[q] # None, pc[q] \notin Creating
            PROVE ts'[rid[q]] \in {arg[q], None}
        BY SMT, <4>2, <4>3, <4>5
      <4> QED BY SMT, <2>1, <2>2, <3>1, <4>3, <4>4, <4>5
    <3>2. CASE pc[p] \in {"undo", "destroy"} /\ ts' = [ts EXCEPT ![rid[p]] = None]
      BY SMT, <2>1, <2>2, <3>2
    <3>3. CASE UNCHANGED ts /\ (pc[p] \notin Creating \/ opstatus' = "error")
      BY <2>1, <2>2, <3>3
    <3> QED BY <2>1, <2>2, <3>1, <3>2, <3>3, ExecuteCases
  <2>3. CASE Return(p) /\ UNCHANGED <<call_mutex, opstatus, ts>>
    BY SMT, <2>1, <2>3 DEF Return
  <2> QED BY <1>6, <2>2, <2>3 DEF Sends, SendRequest, Resume
<1>7. ASSUME NEW p \in Thread, ReceiveAnswer(p) PROVE OwnInv'
  <2>1. call_mutex = p /\ call_mutex' = None /\ UNCHANGED <<key_store, saved, ts>>
    BY <1>7 DEF ReceiveAnswer
  <2>2. CASE opstatus = "ok" /\ pc[p] \in Creating /\ Goto(p, "insert")
    BY SMT, <2>1, <2>2 DEF Goto
  <2>3. CASE Return(p)
    BY SMT, <2>1, <2>3 DEF Return
  <2> QED BY <1>7, <2>2, <2>3 DEF ReceiveAnswer, Resume
<1>8. CASE Crash
  <2>1. \A t \in KeyTriple : saved'[t] \in {saved[t], None} /\ key_store'[t] = None
    BY SMT, <1>8 DEF Crash, StopDuringInsert, NoMappings
  <2> QED BY <1>8, <2>1 DEF Crash
<1>9. CASE New
  BY <1>9 DEF New, ReloadOnly
<1>10. CASE UNCHANGED vars
  BY <1>10 DEF vars
<1> QED
  BY <1>1, <1>2, <1>3, <1>4, <1>5, <1>6, <1>7, <1>8, <1>9, <1>10, NextCases

(* The first start satisfies the invariants. *)
LEMMA InitInv == Init => TypeOK /\ Locals /\ IdInv /\ OwnInv
  BY IdAssumption, NoneAssumption
  DEF Init, TypeOK, Locals, IdInv, OwnInv, Created, Id, Calls, Creating, NoMappings

(* The invariants hold in every state that the provider reaches. *)
LEMMA Invariants == Spec => [](TypeOK /\ Locals /\ IdInv /\ OwnInv)
  BY InitInv, TypeStep, LocalsStep, IdStep, OwnStep, PTL DEF Spec

(* No mapping and no request ever designates the key of another triple,    *)
(* whichever calls and answers are lost and however often the service is   *)
(* killed.                                                                 *)
THEOREM OwnKeys == Spec => []UsesOwnKey
<1>1. TypeOK /\ Locals /\ OwnInv => UsesOwnKey
  BY NoneAssumption DEF TypeOK, Locals, OwnInv, UsesOwnKey, Id, Calls, Creating
<1> QED
  BY <1>1, Invariants, PTL

(* create_key_id never gives one id to two requests, and no id is mapped   *)
(* by two triples.                                                         *)
THEOREM DistinctIds == Spec => []IdsDistinct
<1>1. TypeOK /\ Locals /\ IdInv => IdsDistinct
  BY NoneAssumption DEF TypeOK, Locals, IdInv, IdsDistinct, Id, Creating, Unmapped
<1> QED
  BY <1>1, Invariants, PTL

-----------------------------------------------------------------------------
(* For the triples whose clients take turns: one request at a time creates *)
(* or destroys the key, the mapping is absent meanwhile except before its  *)
(* removal, and the key exists before it is mapped.                        *)
TurnInv ==
  /\ \A t \in Turns : key_store[t] # None => ts[key_store[t]] = t
  /\ \A t \in Turns : saved[t] # None => ts[saved[t]] = t
  /\ \A p, q \in Thread :
       /\ p # q /\ arg[p] \in Turns /\ arg[p] = arg[q]
       => pc[p] \in {"export", "sign", "verify"} \/ pc[q] \in {"export", "sign", "verify"}
  /\ \A p \in Thread :
       /\ arg[p] \in Turns
       /\ pc[p] \in {"generate_id", "import_id", "limit", "undo", "destroy"} \cup Unmapped
       => key_store[arg[p]] = None
  /\ \A p \in Thread : pc[p] = "insert" => ts[rid[p]] = arg[p]
  /\ \A p \in Thread :
       arg[p] \in Turns /\ pc[p] = "remove" => key_store[arg[p]] = rid[p]

(* A request that ends keeps TurnInv. *)
LEMMA TurnReturn ==
  ASSUME TypeOK, TurnInv, NEW p \in Thread, Return(p), UNCHANGED <<key_store, saved, ts>>
  PROVE TurnInv'
  BY NoneAssumption, TurnsAssumption DEF TypeOK, TurnInv, Return, Unmapped, Creating

(* Every step keeps TurnInv: a key is mapped after it was created and      *)
(* destroyed after its mapping was removed.                                *)
LEMMA TurnStep ==
  TypeOK /\ Locals /\ IdInv /\ OwnInv /\ TurnInv /\ [Next]_vars => TurnInv'
<1> SUFFICES ASSUME TypeOK, Locals, IdInv, OwnInv, TurnInv, [Next]_vars PROVE TurnInv'
  OBVIOUS
<1> USE Zenon, IdAssumption, NoneAssumption, TurnsAssumption
    DEF TypeOK, Locals, TurnInv, Id, Calls, Creating, Unmapped, kim, local
<1>1. ASSUME NEW p \in Thread, NEW t \in KeyTriple, Starts(p, t) PROVE TurnInv'
  <2>1. ASSUME NEW s \in {"generate_id", "import_id"},
               Alone(p, t), DoesNotExist(t), Begin(p, t, s, None)
        PROVE TurnInv'
    BY SMT, <2>1 DEF Alone, Begin, DoesNotExist
  <2>2. ASSUME NEW s \in {"export", "sign", "verify"}, UseKey(p, t, s) PROVE TurnInv'
    BY SMTT(40), <2>2 DEF UseKey, DoesNotExist, Begin
  <2>3. ASSUME Alone(p, t), UseKey(p, t, "remove") PROVE TurnInv'
    BY SMTT(40), <2>3 DEF Alone, UseKey, DoesNotExist, Begin
  <2> QED BY <1>1, <2>1, <2>2, <2>3 DEF Starts
<1>2. ASSUME NEW p \in Thread, CreateKeyId(p) PROVE TurnInv'
  <2>1. /\ UNCHANGED <<key_store, saved, ts, arg>>
        /\ pc[p] \in {"generate_id", "import_id"}
        /\ \E s \in {"limit", "generate", "import"} : pc' = [pc EXCEPT ![p] = s]
        /\ \A q \in Thread \ {p} : rid'[q] = rid[q]
    BY <1>2 DEF CreateKeyId, Goto
  <2> QED BY SMT, <2>1
<1>3. ASSUME NEW p \in Thread, StoreLimit(p) PROVE TurnInv'
  BY <1>3, TurnReturn DEF StoreLimit
<1>4. ASSUME NEW p \in Thread, Insert(p) PROVE TurnInv'
  <2>1. pc[p] = "insert" /\ UNCHANGED ts
    BY <1>4 DEF Insert
  <2>2. CASE InsertKeyInfo(arg[p], rid[p]) /\ Return(p)
    BY SMTT(40), <2>1, <2>2 DEF InsertKeyInfo, Return
  <2>3. CASE InsertFails(arg[p]) /\ Goto(p, "undo")
    BY SMTT(40), <2>1, <2>3 DEF InsertFails, Goto
  <2>4. CASE InsertKeyInfo(arg[p], rid[p]) /\ arg[p] \notin Turns /\ Goto(p, "undo")
    BY SMTT(40), <2>1, <2>4 DEF InsertKeyInfo, Goto
  <2> QED BY <1>4, <2>1, <2>2, <2>3, <2>4 DEF Insert, DoesNotExist
<1>5. ASSUME NEW p \in Thread, Remove(p) PROVE TurnInv'
  <2>1. pc[p] = "remove" /\ UNCHANGED ts
    BY <1>5 DEF Remove
  <2>2. CASE RemoveKeyInfo(arg[p]) /\ Goto(p, "destroy")
    BY SMTT(40), <2>1, <2>2 DEF RemoveKeyInfo, Goto
  <2>3. CASE Return(p) /\ UNCHANGED kim
    BY <2>1, <2>3, TurnReturn
  <2> QED BY <1>5, <2>2, <2>3 DEF Remove
<1>6. ASSUME NEW p \in Thread, Sends(p) PROVE TurnInv'
  <2>1. /\ pc[p] \in Calls /\ status = "running"
        /\ UNCHANGED <<key_store, saved, status>>
    BY <1>6 DEF Sends, SendRequest
  <2>2. CASE Execute(p) /\ UNCHANGED local
    <3>1. CASE pc[p] \in Creating /\ ts' = [ts EXCEPT ![rid[p]] = arg[p]]
      <4>1. \A t \in Turns : rid[p] # key_store[t] /\ rid[p] # saved[t]
        BY SMT, <2>1, <3>1 DEF IdInv
      <4>2. \A q \in Thread : q # p => rid[q] # rid[p]
        BY SMT, <2>1, <3>1 DEF IdInv
      <4> QED BY SMT, <2>1, <2>2, <3>1, <4>1, <4>2
    <3>2. CASE pc[p] \in {"undo", "destroy"} /\ ts' = [ts EXCEPT ![rid[p]] = None]
      <4>1. \A t \in Turns : rid[p] # key_store[t] /\ rid[p] # saved[t]
        BY SMT, <2>1, <3>2 DEF IdInv
      <4>2. \A q \in Thread : pc[q] = "insert" => rid[q] # rid[p]
        BY SMT, <2>1, <3>2 DEF IdInv
      <4> QED BY SMT, <2>1, <2>2, <3>2, <4>1, <4>2
    <3>3. CASE UNCHANGED ts
      BY <2>1, <2>2, <3>3
    <3> QED BY <2>1, <2>2, <3>1, <3>2, <3>3, ExecuteCases
  <2>3. CASE Return(p) /\ UNCHANGED ts
    BY <2>1, <2>3, TurnReturn
  <2> QED BY <1>6, <2>2, <2>3 DEF Sends, SendRequest, Resume
<1>7. ASSUME NEW p \in Thread, ReceiveAnswer(p) PROVE TurnInv'
  <2>1. call_mutex = p /\ UNCHANGED <<key_store, saved, ts>>
    BY <1>7 DEF ReceiveAnswer
  <2>2. CASE opstatus = "ok" /\ pc[p] \in Creating /\ Goto(p, "insert")
    BY SMT, <2>1, <2>2 DEF Goto, OwnInv, Created
  <2>3. CASE Return(p)
    BY <2>1, <2>3, TurnReturn
  <2> QED BY <1>7, <2>2, <2>3 DEF ReceiveAnswer, Resume
<1>8. CASE Crash
  <2>1. \A t \in KeyTriple : saved'[t] \in {saved[t], None} /\ key_store'[t] = None
    BY SMT, <1>8 DEF Crash, StopDuringInsert, NoMappings
  <2> QED BY SMT, <1>8, <2>1 DEF Crash
<1>9. CASE New
  BY SMT, <1>9 DEF New, ReloadOnly
<1>10. CASE UNCHANGED vars
  BY <1>10 DEF vars
<1> QED
  BY <1>1, <1>2, <1>3, <1>4, <1>5, <1>6, <1>7, <1>8, <1>9, <1>10, NextCases

(* TurnInv holds in every state that the provider reaches. *)
LEMMA TurnInvariant == Spec => [](TypeOK /\ Locals /\ IdInv /\ OwnInv /\ TurnInv)
<1>1. Init => TurnInv
  BY NoneAssumption, TurnsAssumption DEF Init, TurnInv, Unmapped, Creating, NoMappings
<1> QED
  BY <1>1, TurnStep, Invariants, PTL DEF Spec

(* Every mapping of clients that take turns designates a key of the        *)
(* Trusted Service, through lost answers, errors and restarts, although    *)
(* new asks the service for none of them.                                  *)
THEOREM KeysExist == Spec => []MappedKeysExist
<1>1. TurnInv => MappedKeysExist
  BY DEF TurnInv, MappedKeysExist
<1> QED
  BY <1>1, TurnInvariant, PTL

-----------------------------------------------------------------------------
(* A request is about to map the key under id i, or to destroy it. *)
InHand(p, i) ==
  /\ arg[p] = ts[i] /\ rid[p] = i
  /\ pc[p] \in {"insert", "destroy"} \/ Created(p)

Tracked(i) == key_store[ts[i]] = i \/ \E p \in Thread : InHand(p, i)

(* As long as nothing has failed, a key of a client that takes turns is    *)
(* mapped or in the hands of a request.                                    *)
OrphanInv ==
  /\ status = "down" => fault = "some"
  /\ fault = "none" =>
       /\ \A i \in Id : ts[i] \in Turns => Tracked(i)
       /\ \A p \in Thread : pc[p] = "destroy" /\ call_mutex = p => ts[rid[p]] = None

(* A step of thread p that leaves the keys, the mappings and the call in   *)
(* progress alone, and before which p has no key in hand.                  *)
LEMMA OrphanOther ==
  ASSUME TypeOK, OrphanInv, NEW p \in Thread,
         pc[p] \notin {"insert", "destroy"}, call_mutex # p, pc'[p] # "destroy",
         UNCHANGED <<key_store, status, ts, call_mutex, opstatus>>,
         fault' \in {fault, "some"},
         \A q \in Thread \ {p} : pc'[q] = pc[q] /\ arg'[q] = arg[q] /\ rid'[q] = rid[q]
  PROVE OrphanInv'
<1>1. CASE fault' = "some"
  BY <1>1 DEF OrphanInv
<1>2. CASE fault' # "some"
  <2>1. fault' = fault
    BY <1>2
  <2>2. ASSUME NEW i \in Id, Tracked(i) PROVE Tracked(i)'
    BY <2>2 DEF Tracked, InHand, Created
  <2> QED BY <2>1, <2>2 DEF OrphanInv
<1> QED BY <1>1, <1>2

(* Every step keeps OrphanInv: a request passes a key on from the service  *)
(* to its mapping, and from its mapping to the destruction.                *)
LEMMA OrphanStep ==
  TypeOK /\ Locals /\ IdInv /\ OwnInv /\ TurnInv /\ OrphanInv /\ [Next]_vars => OrphanInv'
<1> SUFFICES ASSUME TypeOK, Locals, IdInv, OwnInv, TurnInv, OrphanInv, [Next]_vars
             PROVE OrphanInv'
  OBVIOUS
<1> USE Zenon, NoneAssumption, TurnsAssumption DEF TypeOK, Locals, Calls, Creating, kim, local
<1>0. fault' \in {"none", "some"}
  BY TypeStep
<1>1. ASSUME NEW p \in Thread, NEW t \in KeyTriple, Starts(p, t) PROVE OrphanInv'
  <2>1. PICK s \in {"generate_id", "import_id", "export", "sign", "verify", "remove"},
             i \in Id \cup {None} : Begin(p, t, s, i)
    BY SMT, <1>1 DEF Starts, UseKey
  <2> QED BY <2>1, OrphanOther DEF Begin
<1>2. ASSUME NEW p \in Thread, CreateKeyId(p) PROVE OrphanInv'
  BY SMT, <1>2, OrphanOther DEF CreateKeyId, Goto
<1>3. ASSUME NEW p \in Thread, StoreLimit(p) PROVE OrphanInv'
  BY <1>3, OrphanOther DEF StoreLimit, Return
<1>4. ASSUME NEW p \in Thread, Insert(p) PROVE OrphanInv'
  <2>1. pc[p] = "insert" /\ status = "running" /\ UNCHANGED <<status, ts, call_mutex, opstatus>>
    BY <1>4 DEF Insert
  <2>2. CASE fault' = "some"
    BY <2>1, <2>2 DEF OrphanInv
  <2>3. CASE fault' = "none"
    <3>1. /\ fault = "none" /\ InsertKeyInfo(arg[p], rid[p])
          /\ IF DoesNotExist(arg[p]) THEN Return(p) ELSE Goto(p, "undo")
      BY <1>4, <2>3 DEF Insert
    <3>2. \A q \in Thread \ {p} : pc'[q] = pc[q] /\ arg'[q] = arg[q] /\ rid'[q] = rid[q]
      BY SMT, <3>1 DEF Return, Goto
    <3>3. pc'[p] # "destroy"
      BY SMT, <3>1 DEF Return, Goto
    <3>4. ASSUME NEW i \in Id, ts[i] \in Turns PROVE Tracked(i)'
      <4>1. CASE arg[p] = ts[i] /\ rid[p] = i
        BY <2>1, <3>1, <3>4, <4>1 DEF InsertKeyInfo, Tracked
      <4>2. CASE ~(arg[p] = ts[i] /\ rid[p] = i)
        <5>1. CASE key_store[ts[i]] = i
          <6>1. arg[p] # ts[i]
            BY SMT, IdAssumption, <2>1, <3>4, <5>1 DEF TurnInv, Unmapped, Id
          <6> QED BY <2>1, <3>1, <3>4, <5>1, <6>1 DEF InsertKeyInfo, Tracked
        <5>2. ASSUME NEW q \in Thread, InHand(q, i) PROVE Tracked(i)'
          BY <2>1, <3>2, <4>2, <5>2 DEF InHand, Created, Tracked
        <5> QED BY <3>1, <3>4, <5>1, <5>2 DEF OrphanInv, Tracked
      <4> QED BY <4>1, <4>2
    <3> QED BY SMT, <2>1, <3>1, <3>2, <3>3, <3>4 DEF OrphanInv
  <2> QED BY <1>0, <2>2, <2>3
<1>5. ASSUME NEW p \in Thread, Remove(p) PROVE OrphanInv'
  <2>1. pc[p] = "remove" /\ status = "running" /\ UNCHANGED <<status, ts, call_mutex, opstatus>>
    BY <1>5 DEF Remove
  <2>2. CASE Return(p) /\ UNCHANGED kim
    BY <1>5, <2>1, <2>2, OrphanOther DEF Remove, Return
  <2>3. CASE RemoveKeyInfo(arg[p]) /\ Goto(p, "destroy") /\ UNCHANGED fault
    <3>1. \A q \in Thread \ {p} : pc'[q] = pc[q] /\ arg'[q] = arg[q] /\ rid'[q] = rid[q]
      BY <2>3 DEF Goto
    <3>2. ASSUME NEW i \in Id, ts[i] \in Turns, Tracked(i) PROVE Tracked(i)'
      <4>1. CASE key_store[ts[i]] = i /\ arg[p] = ts[i]
        BY SMT, <2>1, <2>3, <3>2, <4>1 DEF Goto, TurnInv, InHand, Tracked
      <4>2. CASE key_store[ts[i]] = i /\ arg[p] # ts[i]
        BY <2>1, <2>3, <3>2, <4>2 DEF RemoveKeyInfo, Tracked
      <4>3. ASSUME NEW q \in Thread, InHand(q, i) PROVE Tracked(i)'
        BY <2>1, <3>1, <4>3 DEF InHand, Created, Tracked
      <4> QED BY <3>2, <4>1, <4>2, <4>3 DEF Tracked
    <3> QED BY SMT, <2>1, <2>3, <3>1, <3>2 DEF OrphanInv
  <2> QED BY <1>5, <2>2, <2>3 DEF Remove
<1>6. ASSUME NEW p \in Thread, Sends(p) PROVE OrphanInv'
  <2>1. /\ pc[p] \in Calls /\ call_mutex = None /\ status = "running"
        /\ UNCHANGED <<key_store, status>>
    BY <1>6 DEF Sends, SendRequest
  <2>2. CASE fault' = "some"
    BY <2>1, <2>2 DEF OrphanInv
  <2>3. CASE fault' = "none"
    <3>1. call_mutex' = p /\ Execute(p) /\ UNCHANGED local
      BY <1>6, <2>3 DEF Sends, SendRequest
    <3>2. fault = "none"
      BY <2>1, <2>3, <3>1, ExecuteCases
    <3>3. ASSUME NEW i \in Id, ts[i] = ts'[i], Tracked(i) PROVE Tracked(i)'
      BY <2>1, <3>1, <3>3 DEF InHand, Created, Tracked
    <3>4. CASE /\ pc[p] \in Creating /\ opstatus' = "ok"
               /\ ts' = [ts EXCEPT ![rid[p]] = arg[p]]
      <4>1. ASSUME NEW i \in Id, ts'[i] \in Turns PROVE Tracked(i)'
        BY SMT, <2>1, <3>1, <3>2, <3>3, <3>4, <4>1 DEF OrphanInv, InHand, Created, Tracked
      <4> QED BY <2>1, <3>1, <3>2, <3>4, <4>1 DEF OrphanInv
    <3>5. CASE pc[p] \in {"undo", "destroy"} /\ ts' = [ts EXCEPT ![rid[p]] = None]
      BY <2>1, <3>1, <3>2, <3>3, <3>5 DEF OrphanInv
    <3>6. CASE UNCHANGED ts /\ (pc[p] = "destroy" => ts[rid[p]] = None)
      BY <2>1, <3>1, <3>2, <3>3, <3>6 DEF OrphanInv
    <3> QED BY SMT, <2>1, <2>3, <3>1, <3>4, <3>5, <3>6, ExecuteCases
  <2> QED BY <1>0, <2>2, <2>3
<1>7. ASSUME NEW p \in Thread, ReceiveAnswer(p) PROVE OrphanInv'
  <2>1. /\ call_mutex = p /\ call_mutex' = None /\ status = "running"
        /\ UNCHANGED <<key_store, status, ts>>
    BY <1>7 DEF ReceiveAnswer
  <2>2. CASE fault' = "some"
    BY <2>1, <2>2 DEF OrphanInv
  <2>3. CASE fault' = "none"
    <3>1. fault = "none" /\ Resume(p, opstatus = "ok")
      BY <1>7, <2>3 DEF ReceiveAnswer
    <3>2. \A q \in Thread \ {p} : pc'[q] = pc[q] /\ arg'[q] = arg[q] /\ rid'[q] = rid[q]
      BY SMT, <3>1 DEF Resume, Return, Goto
    <3>3. ASSUME NEW i \in Id, ts[i] \in Turns, Tracked(i) PROVE Tracked(i)'
      <4>1. CASE key_store[ts[i]] = i
        BY <2>1, <4>1 DEF Tracked
      <4>2. ASSUME NEW q \in Thread \ {p}, InHand(q, i) PROVE Tracked(i)'
        BY <2>1, <3>2, <4>2 DEF InHand, Created, Tracked
      <4>3. CASE InHand(p, i)
        <5>1. Created(p)
          BY <2>1, <3>1, <3>3, <4>3 DEF InHand, OrphanInv
        <5> QED BY <2>1, <3>1, <4>3, <5>1 DEF Created, Resume, Goto, InHand, Tracked
      <4> QED BY <3>3, <4>1, <4>2, <4>3 DEF Tracked
    <3> QED BY <2>1, <3>1, <3>3 DEF OrphanInv
  <2> QED BY <1>0, <2>2, <2>3
<1>8. CASE Crash
  BY <1>8 DEF Crash, OrphanInv
<1>9. CASE New
  BY <1>9 DEF New, OrphanInv
<1>10. CASE UNCHANGED vars
  BY <1>10 DEF vars, OrphanInv, Tracked, InHand, Created
<1> QED
  BY <1>1, <1>2, <1>3, <1>4, <1>5, <1>6, <1>7, <1>8, <1>9, <1>10, NextCases

(* Clients that take turns leave no key without a mapping in the Trusted   *)
(* Service, as long as no call fails and the service is not killed.        *)
THEOREM NoOrphans == Spec => []NoOrphanKeys
<1>1. Init => OrphanInv
  BY NoneAssumption, TurnsAssumption DEF Init, OrphanInv
<1>2. Locals /\ OrphanInv => NoOrphanKeys
  BY DEF Locals, OrphanInv, Tracked, InHand, Created, Creating, NoOrphanKeys, Quiet
<1> QED
  BY <1>1, <1>2, OrphanStep, TurnInvariant, PTL DEF Spec
=============================================================================
