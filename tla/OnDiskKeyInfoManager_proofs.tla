-------------------- MODULE OnDiskKeyInfoManager_proofs --------------------
(***************************************************************************)
(* Proofs about OnDiskKeyInfoManager, for every set of triples and key     *)
(* infos: its types, that memory and disk agree while no file system call  *)
(* fails, and that it implements KeyInfoStore whatever fails.              *)
(***************************************************************************)
EXTENDS OnDiskKeyInfoManager, TLAPS

(* One step of the manager keeps the types. *)
LEMMA TypeStep == TypeOK /\ [Next]_vars => TypeOK'
<1> SUFFICES ASSUME TypeOK, [Next]_vars PROVE TypeOK'
  OBVIOUS
<1> USE DEF TypeOK, Value
<1>1. ASSUME NEW t \in KeyTriple, NEW info \in KeyInfo, Insert(t, info)
      PROVE TypeOK'
  BY <1>1 DEF Insert
<1>2. ASSUME NEW t \in KeyTriple, Remove(t) PROVE TypeOK'
  BY <1>2 DEF Remove
<1>3. CASE Modify
  <2>1. CASE SaveUnlink
    BY <2>1 DEF SaveUnlink
  <2>2. CASE SaveCreate
    BY <2>2 DEF SaveCreate
  <2>3. CASE SaveWrite
    BY <2>3 DEF SaveWrite
  <2>4. CASE InsertMemory
    BY <2>4 DEF InsertMemory
  <2>5. CASE DeleteMapping
    BY <2>5 DEF DeleteMapping
  <2>6. CASE RemoveMemory
    BY <2>6 DEF RemoveMemory
  <2> QED
    BY <1>3, <2>1, <2>2, <2>3, <2>4, <2>5, <2>6 DEF Modify
<1>4. CASE IoError
  BY <1>4 DEF IoError
<1>5. CASE Crash
  BY <1>5 DEF Crash, Empty
<1>6. CASE New
  <2>1. \A t \in KeyTriple : files[t] \in KeyInfo \cup {NoInfo}
    BY <1>6 DEF New
  <2> QED
    BY <1>6, <2>1 DEF New
<1>7. CASE NewFails
  BY <1>7 DEF NewFails
<1>8. CASE UNCHANGED vars
  BY <1>8 DEF vars
<1> QED
  BY <1>1, <1>2, <1>3, <1>4, <1>5, <1>6, <1>7, <1>8 DEF Next

(* The manager's state keeps its types: in particular, key_store never     *)
(* holds what was read from a torn file (OnDiskKeyInfoManager::new).       *)
THEOREM TypeCorrect == Spec => []TypeOK
<1>1. Init => TypeOK
  BY DEF Init, TypeOK, Value, Empty
<1>2. QED
  BY <1>1, TypeStep, PTL DEF Spec

-----------------------------------------------------------------------------
(* What holds at each step of the method that has the write lock, and what *)
(* the absence of file system errors adds.                                 *)
LockInv ==
  /\ status # "running" => pc = "idle"
  /\ pc = "memory" => files[cur] = new
  /\ pc = "forget" => files[cur] = NoInfo
  /\ pc \in {"delete", "forget"} => new = NoInfo
  /\ status = "running" =>
       \A t \in KeyTriple : \/ files[t] \in {key_store[t], NoInfo, Torn}
                            \/ pc = "memory" /\ t = cur

DiskInv ==
  status = "running" =>
    \A t \in KeyTriple : pc = "idle" \/ t # cur => key_store[t] = files[t]

(* One step keeps what is known of the method that has the write lock. *)
LEMMA LockStep == TypeOK /\ LockInv /\ [Next]_vars => LockInv'
<1> SUFFICES ASSUME TypeOK, LockInv, [Next]_vars PROVE LockInv'
  OBVIOUS
<1> USE DEF TypeOK, LockInv
<1>1. ASSUME NEW t \in KeyTriple, NEW info \in KeyInfo, Insert(t, info)
      PROVE LockInv'
  BY <1>1 DEF Insert
<1>2. ASSUME NEW t \in KeyTriple, Remove(t) PROVE LockInv'
  BY <1>2 DEF Remove
<1>3. CASE Modify
  BY <1>3 DEF Modify, SaveUnlink, SaveCreate, SaveWrite, InsertMemory,
              DeleteMapping, RemoveMemory
<1>4. CASE IoError \/ Crash \/ New \/ NewFails
  BY <1>4 DEF IoError, Crash, New, NewFails
<1>5. CASE UNCHANGED vars
  BY <1>5 DEF vars
<1> QED
  BY <1>1, <1>2, <1>3, <1>4, <1>5 DEF Next

(* Without file system errors, one step keeps memory and disk equal on     *)
(* every triple that is not being modified.                                *)
LEMMA DiskStep ==
  ~IoErrors /\ TypeOK /\ LockInv /\ DiskInv /\ [Next]_vars => DiskInv'
<1> SUFFICES ASSUME ~IoErrors, TypeOK, LockInv, DiskInv, [Next]_vars
             PROVE  DiskInv'
  OBVIOUS
<1> USE DEF TypeOK, LockInv, DiskInv
<1>1. ASSUME NEW t \in KeyTriple, NEW info \in KeyInfo, Insert(t, info)
      PROVE DiskInv'
  BY <1>1 DEF Insert
<1>2. ASSUME NEW t \in KeyTriple, Remove(t) PROVE DiskInv'
  BY <1>2 DEF Remove
<1>3. CASE Modify
  BY <1>3 DEF Modify, SaveUnlink, SaveCreate, SaveWrite, InsertMemory,
              DeleteMapping, RemoveMemory
<1>4. CASE IoError \/ Crash \/ New \/ NewFails
  BY <1>4 DEF IoError, Crash, New, NewFails
<1>5. CASE UNCHANGED vars
  BY <1>5 DEF vars
<1> QED
  BY <1>1, <1>2, <1>3, <1>4, <1>5 DEF Next

(* While no file system call fails, what the providers read is what a      *)
(* restart would read back, whenever no modification is under way and      *)
(* wherever the process was killed before (insert, remove, new).           *)
THEOREM DiskAgrees == ASSUME ~IoErrors PROVE Spec => []MemoryMatchesDisk
<1>1. Init => TypeOK /\ LockInv /\ DiskInv
  BY DEF Init, TypeOK, Value, Empty, LockInv, DiskInv
<1>2. TypeOK /\ LockInv /\ DiskInv /\ [Next]_vars => (TypeOK /\ LockInv /\ DiskInv)'
  BY TypeStep, LockStep, DiskStep
<1>3. DiskInv => MemoryMatchesDisk
  BY DEF DiskInv, MemoryMatchesDisk
<1>4. QED
  BY <1>1, <1>2, <1>3, PTL DEF Spec

-----------------------------------------------------------------------------
(* A step of the manager is a step of the store, or changes nothing there. *)
LEMMA StoreStep ==
  TypeOK /\ LockInv /\ [Next]_vars => [Store!Next]_(Store!vars)
<1> SUFFICES ASSUME TypeOK, LockInv, [Next]_vars
             PROVE  Store!Next \/ UNCHANGED <<mappings, doubt, pending>>
  BY DEF Store!vars
<1> USE ValuesAssumption DEF TypeOK, LockInv, Value
<1>1. ASSUME NEW t \in KeyTriple, NEW info \in KeyInfo, Insert(t, info)
      PROVE  Store!Next
  <2> DEFINE m == [triple |-> t, value |-> info]
  <2>1. m \in Store!Modification
    BY DEF Store!Modification, Store!Value
  <2>2. pending = {} /\ pending' = {m} /\ mappings' = mappings
    BY <1>1 DEF Insert, pending, mappings
  <2>3. doubt' = doubt \cup {m.triple}
    BY <1>1 DEF Insert, doubt
  <2> QED
    BY <2>1, <2>2, <2>3 DEF Store!Next, Store!Begin
<1>2. ASSUME NEW t \in KeyTriple, Remove(t)
      PROVE  Store!Next
  <2> DEFINE m == [triple |-> t, value |-> NoInfo]
  <2>1. m \in Store!Modification
    BY DEF Store!Modification, Store!Value
  <2>2. pending = {} /\ pending' = {m} /\ mappings' = mappings
    BY <1>2 DEF Remove, pending, mappings
  <2>3. doubt' = doubt \cup {m.triple}
    BY <1>2 DEF Remove, doubt
  <2> QED
    BY <2>1, <2>2, <2>3 DEF Store!Next, Store!Begin
<1>3. CASE SaveUnlink \/ SaveCreate \/ SaveWrite \/ DeleteMapping
  <2>1. UNCHANGED <<mappings, pending>>
    BY SMTT(40), <1>3 DEF SaveUnlink, SaveCreate, SaveWrite, DeleteMapping, mappings, pending
  <2>2. UNCHANGED doubt
    BY <1>3 DEF SaveUnlink, SaveCreate, SaveWrite, DeleteMapping, doubt
  <2> QED
    BY <2>1, <2>2
<1>4. CASE InsertMemory \/ RemoveMemory
  <2> DEFINE m == [triple |-> cur, value |-> new]
  <2>1. m \in Store!Modification
    BY DEF Store!Modification, Store!Value
  <2>2. pending = {m} /\ pending' = {}
    BY <1>4 DEF InsertMemory, RemoveMemory, pending
  <2>3. mappings' = [mappings EXCEPT ![m.triple] = m.value]
    BY <1>4 DEF InsertMemory, RemoveMemory, mappings
  <2>4. doubt' = doubt \ {m.triple}
    BY <1>4 DEF InsertMemory, RemoveMemory, doubt
  <2> QED
    BY <2>1, <2>2, <2>3, <2>4 DEF Store!Next, Store!Commit
<1>5. CASE IoError
  <2> DEFINE m == [triple |-> cur, value |-> new]
  <2>1. m \in Store!Modification
    BY DEF Store!Modification, Store!Value
  <2>2. pending = {m} /\ pending' = {} /\ mappings' = mappings
    BY <1>5 DEF IoError, pending, mappings
  <2>3. doubt' \in {doubt, doubt \ {m.triple}}
    <3>1. CASE files[cur] = key_store[cur]
      BY <1>5, <3>1 DEF IoError, doubt
    <3>2. CASE files[cur] # key_store[cur]
      BY <1>5, <3>2 DEF IoError, doubt
    <3> QED
      BY <3>1, <3>2
  <2> QED
    BY <2>1, <2>2, <2>3 DEF Store!Next, Store!Abort
<1>6. CASE Crash
  <2>1. mappings' = [t \in KeyTriple |-> IF files[t] = Torn THEN NoInfo ELSE files[t]]
    BY <1>6 DEF Crash, mappings, OnDisk
  <2>2. mappings = key_store /\ doubt' = {} /\ pending' = {}
    BY <1>6 DEF Crash, mappings, doubt, pending
  <2>3. ASSUME NEW t \in KeyTriple PROVE mappings'[t] \in Store!AfterRestart(t)
    <3>1. CASE t \notin doubt
      <4>1. files[t] = key_store[t]
        BY <1>6, <3>1 DEF Crash, doubt
      <4> QED
        BY <2>1, <2>2, <3>1, <4>1 DEF Store!AfterRestart
    <3>2. CASE t \in doubt /\ files[t] \in {key_store[t], NoInfo, Torn}
      BY <2>1, <2>2, <3>2 DEF Store!AfterRestart
    <3>3. CASE t \in doubt /\ pc = "memory" /\ t = cur
      <4>1. pending = {[triple |-> t, value |-> files[t]]}
        BY <3>3 DEF pending
      <4> DEFINE m == [triple |-> t, value |-> files[t]]
      <4>2. m \in {n \in pending : n.triple = t} /\ m.value = files[t]
        BY <4>1
      <4>3. mappings'[t] = files[t]
        BY <2>1, <3>3
      <4> QED
        BY <3>3, <4>2, <4>3 DEF Store!AfterRestart
    <3> QED
      BY <1>6, <3>1, <3>2, <3>3 DEF Crash
  <2> QED
    BY <2>1, <2>2, <2>3 DEF Store!Next, Store!Restart, Store!Value
<1>7. CASE New
  <2>1. \A t \in KeyTriple : OnDisk(t) = files[t]
    BY <1>7 DEF New, OnDisk
  <2>2. mappings' = mappings
    BY <1>7, <2>1 DEF New, mappings
  <2>3. UNCHANGED <<doubt, pending>>
    BY <1>7 DEF New, doubt, pending
  <2> QED
    BY <2>2, <2>3
<1>8. CASE NewFails \/ UNCHANGED vars
  BY <1>8 DEF NewFails, vars, mappings, doubt, pending, OnDisk
<1> QED
  BY <1>1, <1>2, <1>3, <1>4, <1>5, <1>6, <1>7, <1>8 DEF Next, Modify

(* The on-disk manager implements KeyInfoStore, whatever file system call  *)
(* fails and wherever the process is killed: a modification that returned  *)
(* Ok survives every later restart, and a restart changes no mapping       *)
(* other than those whose modification was interrupted or had failed.      *)
THEOREM Refinement == Spec => ImplementsKeyInfoStore
<1>1. Init => TypeOK /\ LockInv
  BY DEF Init, TypeOK, Value, Empty, LockInv
<1>2. TypeOK /\ LockInv /\ [Next]_vars => (TypeOK /\ LockInv)'
  BY TypeStep, LockStep
<1>3. Init => Store!Init
  BY DEF Init, Empty, Store!Init, mappings, doubt, pending
<1>4. QED
  BY <1>1, <1>2, <1>3, StoreStep, PTL DEF Spec, ImplementsKeyInfoStore, Store!Spec
=============================================================================
