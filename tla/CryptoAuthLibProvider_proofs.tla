-------------------- MODULE CryptoAuthLibProvider_proofs --------------------
(***************************************************************************)
(* Proofs about CryptoAuthLibProvider, for every number of slots and every *)
(* hardware configuration.                                                 *)
(***************************************************************************)
EXTENDS CryptoAuthLibProvider, TLAPS

(* Where the locals of a request are set, and what is lost at a stop. *)
Locals ==
  /\ \A p \in Thread : pc[p] = "idle" => arg[p] = None
  /\ \A p \in Thread : pc[p] # "idle" => arg[p] \in KeyTriple
  /\ \A p \in Thread : pc[p] \in {"find", "command", "insert", "get_id", "use"} =>
       attr[p] \in Attr
  /\ \A p \in Thread : pc[p] \in {"command", "insert", "free", "use", "remove"} =>
       slot[p] \in Slot
  /\ status = "down" => \A p \in Thread : pc[p] = "idle"
  /\ status = "down" => key_store = NoMappings

(* A request that starts is one that creates, uses or destroys a key. *)
LEMMA StartCases ==
  ASSUME NEW p \in Thread, Start(p)
  PROVE \E t \in KeyTriple :
          \/ \E a \in Attr, c \in Command : CreateKey(p, t, a, c)
          \/ \E op \in SupportedOpcodes : UseKey(p, t, op)
          \/ PsaDestroyKey(p, t)
<1>1. PICK t \in KeyTriple :
        \/ \E a \in Attr : PsaGenerateKey(p, t, a) \/ PsaImportKey(p, t, a)
        \/ Operation(p, t)
        \/ PsaDestroyKey(p, t)
  BY DEF Start
<1>2. CASE \E a \in Attr : PsaGenerateKey(p, t, a) \/ PsaImportKey(p, t, a)
  BY <1>2 DEF PsaGenerateKey, PsaImportKey, Command
<1>3. CASE Operation(p, t)
  <2>1. ASSUME NEW op, UseKey(p, t, op)
        PROVE op \in SupportedOpcodes
    BY <2>1 DEF UseKey
  <2>2. \E op : UseKey(p, t, op)
    BY <1>3 DEF Operation, PsaSignHash, PsaVerifyHash, PsaSignMessage,
                PsaVerifyMessage, PsaExportPublicKey, PsaExportKey
  <2> QED BY <2>1, <2>2
<1>4. CASE PsaDestroyKey(p, t)
  BY <1>4
<1> QED BY <1>1, <1>2, <1>3, <1>4

(* Every step leaves the variables in their types: in particular           *)
(* find_suitable_slot only returns slots of the chip.                      *)
LEMMA TypeStep == TypeOK /\ Locals /\ [Next]_vars => TypeOK' /\ Locals'
<1> SUFFICES ASSUME TypeOK, Locals, [Next]_vars PROVE TypeOK' /\ Locals'
  OBVIOUS
<1> USE Zenon, SlotAssumption, LockedAssumption, NoneAssumption DEF TypeOK, Locals, Command, kim
<1>1. ASSUME NEW p \in Thread, NEW t \in KeyTriple, NEW a \in Attr,
             NEW c \in Command, CreateKey(p, t, a, c)
      PROVE TypeOK' /\ Locals'
  BY SMT, <1>1 DEF CreateKey, Begin
<1>2. ASSUME NEW p \in Thread, NEW t \in KeyTriple, NEW op, UseKey(p, t, op)
      PROVE TypeOK' /\ Locals'
  <2>1. key_store[t].attr \in Attr
    BY SMT, <1>2 DEF UseKey, DoesNotExist, Info
  <2> QED BY SMT, <1>2, <2>1 DEF UseKey, Begin
<1>3. ASSUME NEW p \in Thread, NEW t \in KeyTriple, PsaDestroyKey(p, t) PROVE TypeOK' /\ Locals'
  <2>1. key_store[t].slot \in Slot
    BY SMT, <1>3 DEF PsaDestroyKey, DoesNotExist, Info
  <2> QED BY SMT, <1>3, <2>1 DEF PsaDestroyKey, Begin
<1>4. ASSUME NEW p \in Thread, FindSuitableSlot(p) PROVE TypeOK' /\ Locals'
  <2>1. pc[p] = "find" /\ UNCHANGED <<kim, status, chip>>
    BY <1>4 DEF FindSuitableSlot
  <2>2. ASSUME NEW s \in Candidates(attr[p], cmd[p]),
               SetSlotStatus(s, "Busy"),
               slot' = [slot EXCEPT ![p] = s],
               pc' = [pc EXCEPT ![p] = "command"],
               UNCHANGED <<arg, attr, cmd>>
        PROVE TypeOK' /\ Locals'
    <3>1. s \in Slot
      BY <2>1 DEF Candidates, Suitable
    <3> QED BY SMT, <2>1, <2>2, <3>1 DEF SetSlotStatus
  <2>3. CASE Return(p) /\ UNCHANGED slots
    BY SMT, <2>1, <2>3 DEF Return
  <2> QED BY <1>4, <2>2, <2>3 DEF FindSuitableSlot
<1>5. ASSUME NEW p \in Thread, RefuseData(p) PROVE TypeOK' /\ Locals'
  BY SMT, <1>5 DEF RefuseData, Return
<1>6. ASSUME NEW p \in Thread, FillSlot(p) PROVE TypeOK' /\ Locals'
  <2>1. pc[p] = "command" /\ UNCHANGED <<kim, status, slots>>
    BY <1>6 DEF FillSlot
  <2>2. CASE /\ chip' = [chip EXCEPT ![slot[p]] = [triple |-> arg[p], attr |-> attr[p]]]
             /\ Goto(p, "insert")
    <3>1. chip' \in [Slot -> Key \cup {None}]
      BY <2>1, <2>2 DEF Key
    <3> QED BY SMT, <2>1, <2>2, <3>1 DEF Goto
  <2>3. CASE Goto(p, "free") /\ UNCHANGED chip
    BY SMT, <2>1, <2>3 DEF Goto
  <2> QED BY <1>6, <2>2, <2>3 DEF FillSlot
<1>7. ASSUME NEW p \in Thread, Insert(p) PROVE TypeOK' /\ Locals'
  <2>1. pc[p] = "insert" /\ UNCHANGED <<status, slots, chip>>
    BY <1>7 DEF Insert
  <2> DEFINE info == [slot |-> slot[p], attr |-> attr[p]]
  <2>i. info \in Info
    BY <2>1 DEF Info
  <2> HIDE DEF info
  <2>2. CASE InsertKeyInfo(arg[p], info) /\ Return(p)
    BY SMT, <2>1, <2>2, <2>i DEF InsertKeyInfo, Return
  <2>3. CASE InsertKeyInfo(arg[p], info) /\ Goto(p, "free")
    BY SMT, <2>1, <2>3, <2>i DEF InsertKeyInfo, Goto
  <2>4. CASE InsertFails(arg[p]) /\ Goto(p, "free")
    BY SMT, <2>1, <2>4 DEF InsertFails, Goto
  <2> QED BY <1>7, <2>2, <2>3, <2>4 DEF Insert, info
<1>8. ASSUME NEW p \in Thread, FreeSlot(p) PROVE TypeOK' /\ Locals'
  BY SMT, <1>8 DEF FreeSlot, SetSlotStatus, Return
<1>9. ASSUME NEW p \in Thread, GetKeyId(p) PROVE TypeOK' /\ Locals'
  <2>1. pc[p] = "get_id" /\ UNCHANGED <<kim, status, slots, chip>>
    BY <1>9 DEF GetKeyId
  <2>2. CASE /\ key_store[arg[p]] # None
             /\ slot' = [slot EXCEPT ![p] = key_store[arg[p]].slot]
             /\ pc' = [pc EXCEPT ![p] = "use"]
             /\ UNCHANGED <<arg, attr, cmd>>
    <3>1. key_store[arg[p]].slot \in Slot
      BY SMT, <2>1, <2>2 DEF Info
    <3> QED BY SMT, <2>1, <2>2, <3>1
  <2>3. CASE Return(p)
    BY SMT, <2>1, <2>3 DEF Return
  <2> QED BY <1>9, <2>2, <2>3 DEF GetKeyId, DoesNotExist
<1>10. ASSUME NEW p \in Thread, Use(p) PROVE TypeOK' /\ Locals'
  BY SMT, <1>10 DEF Use, Return
<1>11. ASSUME NEW p \in Thread, Remove(p) PROVE TypeOK' /\ Locals'
  <2>1. pc[p] = "remove" /\ UNCHANGED <<status, slots, chip>>
    BY <1>11 DEF Remove
  <2>2. CASE RemoveKeyInfo(arg[p]) /\ Goto(p, "free")
    BY SMT, <2>1, <2>2 DEF RemoveKeyInfo, Goto
  <2>3. CASE Return(p) /\ UNCHANGED kim
    BY SMT, <2>1, <2>3 DEF Return
  <2> QED BY <1>11, <2>2, <2>3 DEF Remove
<1>12. CASE Crash
  <2>1. saved' \in [KeyTriple -> Info \cup {None}]
    BY SMT, <1>12 DEF Crash, StopDuringInsert
  <2>2. Locals'
    BY <1>12 DEF Crash, StopDuringInsert
  <2>3. /\ key_store' \in [KeyTriple -> Info \cup {None}]
        /\ slots' \in [Slot -> {"Free", "Busy", "Locked"}]
    BY <1>12 DEF Crash, StopDuringInsert, NoMappings, HwStatus
  <2> QED BY <1>12, <2>1, <2>2, <2>3 DEF Crash
<1>13. CASE New
  BY <1>13 DEF New, ReloadOnly, HwStatus
<1>14. CASE NewFails
  <2>1. saved' \in [KeyTriple -> Info \cup {None}]
    BY SMT, <1>14 DEF NewFails, ReloadFails
  <2> QED BY SMT, <1>14, <2>1 DEF NewFails, ReloadFails
<1>15. CASE UNCHANGED vars
  BY <1>15 DEF vars
<1> HIDE DEF TypeOK, Locals
<1> QED
  BY SMT, <1>1, <1>2, <1>3, <1>4, <1>5, <1>6, <1>7, <1>8, <1>9, <1>10, <1>11,
     <1>12, <1>13, <1>14, <1>15, StartCases DEF Next, Continue

(* The first start satisfies them. *)
LEMMA TypeInit == Init => TypeOK /\ Locals
  BY SlotAssumption, LockedAssumption, NoneAssumption
  DEF Init, TypeOK, Locals, NoMappings, HwStatus

(* The type invariant of the provider, for all constants. *)
THEOREM TypeCorrect == Spec => []TypeOK
  BY TypeInit, TypeStep, PTL DEF Spec

-----------------------------------------------------------------------------
Holding == {"command", "insert", "free"}

(* When clients take turns: one request at a time modifies a key; a slot   *)
(* that a request holds is busy, not mapped and held by no other request;  *)
(* and a request that removes a mapping has the slot the mapping says.     *)
TurnInv ==
  /\ MappedSlotsOwned
  /\ \A p, q \in Thread :
       p # q /\ arg[p] # None /\ arg[p] = arg[q] => pc[p] \in Using \/ pc[q] \in Using
  /\ \A p \in Thread : pc[p] = "find" \/ pc[p] \in Holding => key_store[arg[p]] = None
  /\ \A p \in Thread : pc[p] \in Holding =>
       /\ slots[slot[p]] = "Busy"
       /\ \A t \in KeyTriple : key_store[t] # None => key_store[t].slot # slot[p]
  /\ \A p, q \in Thread :
       p # q /\ pc[p] \in Holding /\ pc[q] \in Holding => slot[p] # slot[q]
  /\ \A p \in Thread : pc[p] = "insert" =>
       chip[slot[p]] = [triple |-> arg[p], attr |-> attr[p]]
  /\ \A p \in Thread : pc[p] = "remove" =>
       key_store[arg[p]] # None /\ slot[p] = key_store[arg[p]].slot

(* Two mapped triples have two slots: a slot holds one key. *)
LEMMA SlotApart ==
  ASSUME MappedSlotsOwned,
         NEW t \in KeyTriple, NEW u \in KeyTriple,
         key_store[t] # None, key_store[u] # None,
         key_store[t].slot = key_store[u].slot
  PROVE t = u
<1>1. chip[key_store[t].slot] = [triple |-> t, attr |-> key_store[t].attr]
  BY DEF MappedSlotsOwned
<1>2. chip[key_store[t].slot] = [triple |-> u, attr |-> key_store[u].attr]
  BY DEF MappedSlotsOwned
<1> QED BY <1>1, <1>2

(* Every step keeps TurnInv: in particular find_suitable_slot takes a free *)
(* slot, and a slot is freed only by the request that holds it.            *)
LEMMA TurnStep ==
  ASSUME Exclusive
  PROVE TypeOK /\ Locals /\ TurnInv /\ [Next]_vars => TurnInv'
<1> SUFFICES ASSUME TypeOK, Locals, TurnInv, [Next]_vars PROVE TurnInv'
  OBVIOUS
<1> USE Zenon, SlotAssumption, LockedAssumption, NoneAssumption
    DEF TypeOK, Locals, TurnInv, MappedSlotsOwned, Holding, Using, kim
<1>1. ASSUME NEW p \in Thread, NEW t \in KeyTriple, NEW a \in Attr,
             NEW c \in Command, CreateKey(p, t, a, c)
      PROVE TurnInv'
  BY SMT, <1>1 DEF CreateKey, Alone, DoesNotExist, Begin
<1>2. ASSUME NEW p \in Thread, NEW t \in KeyTriple, NEW op, UseKey(p, t, op)
      PROVE TurnInv'
  BY SMT, <1>2 DEF UseKey, DoesNotExist, Begin
<1>3. ASSUME NEW p \in Thread, NEW t \in KeyTriple, PsaDestroyKey(p, t) PROVE TurnInv'
  BY SMT, <1>3 DEF PsaDestroyKey, Alone, DoesNotExist, Begin
<1>4. ASSUME NEW p \in Thread, FindSuitableSlot(p) PROVE TurnInv'
  <2>1. pc[p] = "find" /\ UNCHANGED <<key_store, chip>>
    BY <1>4 DEF FindSuitableSlot
  <2>2. ASSUME NEW s \in Candidates(attr[p], cmd[p]),
               SetSlotStatus(s, "Busy"),
               slot' = [slot EXCEPT ![p] = s],
               pc' = [pc EXCEPT ![p] = "command"],
               UNCHANGED <<arg, attr, cmd>>
        PROVE TurnInv'
    <3>1. s \in Slot /\ slots[s] = "Free" /\ slots' = [slots EXCEPT ![s] = "Busy"]
      BY <2>1, <2>2 DEF Candidates, Suitable, SetSlotStatus
    <3>2. \A t \in KeyTriple : key_store[t] # None => key_store[t].slot # s
      BY ZenonT(30), <3>1
    <3>3. \A q \in Thread : pc[q] \in Holding => slot[q] # s
      BY SMT, <3>1
    <3> QED BY SMT, <2>1, <2>2, <3>1, <3>2, <3>3
  <2>3. CASE Return(p) /\ UNCHANGED slots
    BY SMT, <2>1, <2>3 DEF Return
  <2> QED BY <1>4, <2>2, <2>3 DEF FindSuitableSlot
<1>5. ASSUME NEW p \in Thread, RefuseData(p) PROVE TurnInv'
  BY SMT, <1>5 DEF RefuseData, Return
<1>6. ASSUME NEW p \in Thread, FillSlot(p) PROVE TurnInv'
  <2>1. pc[p] = "command" /\ UNCHANGED <<key_store, slots>>
    BY <1>6 DEF FillSlot
  <2>2. CASE /\ chip' = [chip EXCEPT ![slot[p]] = [triple |-> arg[p], attr |-> attr[p]]]
             /\ Goto(p, "insert")
    BY SMT, <2>1, <2>2 DEF Goto
  <2>3. CASE Goto(p, "free") /\ UNCHANGED chip
    BY SMTT(40), <2>1, <2>3 DEF Goto
  <2> QED BY <1>6, <2>2, <2>3 DEF FillSlot
<1>7. ASSUME NEW p \in Thread, Insert(p) PROVE TurnInv'
  <2>1. pc[p] = "insert" /\ UNCHANGED <<slots, chip>>
    BY <1>7 DEF Insert
  <2>2. CASE InsertKeyInfo(arg[p], [slot |-> slot[p], attr |-> attr[p]]) /\ Return(p)
    BY SMT, <2>1, <2>2 DEF InsertKeyInfo, Return
  <2>3. CASE InsertFails(arg[p]) /\ Goto(p, "free")
    BY SMT, <2>1, <2>3 DEF InsertFails, Goto
  <2> QED BY ZenonT(30), <1>7, <2>1, <2>2, <2>3 DEF Insert, DoesNotExist
<1>8. ASSUME NEW p \in Thread, FreeSlot(p) PROVE TurnInv'
  BY SMT, <1>8 DEF FreeSlot, SetSlotStatus, Return
<1>9. ASSUME NEW p \in Thread, GetKeyId(p) PROVE TurnInv'
  BY SMTT(40), <1>9 DEF GetKeyId, DoesNotExist, Return
<1>10. ASSUME NEW p \in Thread, Use(p) PROVE TurnInv'
  BY SMT, <1>10 DEF Use, Return
<1>11. ASSUME NEW p \in Thread, Remove(p) PROVE TurnInv'
  <2>1. pc[p] = "remove" /\ UNCHANGED <<slots, chip>>
    BY <1>11 DEF Remove
  <2>2. CASE RemoveKeyInfo(arg[p]) /\ Goto(p, "free")
    <3>0. arg[p] \in KeyTriple /\ key_store[arg[p]] # None /\ slot[p] = key_store[arg[p]].slot
      BY <2>1
    <3>1. ASSUME NEW t \in KeyTriple, key_store[t] # None, key_store[t].slot = slot[p]
          PROVE t = arg[p]
      BY SMT, <3>0, <3>1, SlotApart
    <3>2. slot[p] \in Slot
      BY <2>1
    <3>4. slots[slot[p]] = "Busy"
      <4>1. slots[key_store[arg[p]].slot] = "Busy"
        BY <3>0, Zenon
      <4> QED BY <3>0, <4>1, Zenon
    <3>5. ASSUME NEW q \in Thread, pc[q] \in Holding PROVE slot[q] # slot[p]
      BY SMT, <3>0, <3>5
    <3>3. /\ key_store' = [key_store EXCEPT ![arg[p]] = None]
          /\ pc' = [pc EXCEPT ![p] = "free"]
          /\ UNCHANGED <<arg, attr, slot>>
      BY <2>2 DEF RemoveKeyInfo, Goto
    <3> QED BY SMT, <2>1, <3>0, <3>1, <3>2, <3>3, <3>4, <3>5
  <2>3. CASE Return(p) /\ UNCHANGED kim
    BY SMT, <2>1, <2>3 DEF Return
  <2> QED BY <1>11, <2>2, <2>3 DEF Remove
<1>12. CASE Crash
  BY <1>12 DEF Crash, StopDuringInsert, NoMappings
<1>13. CASE New
  BY SMT, <1>13 DEF New, ReloadOnly
<1>14. CASE NewFails
  BY SMT, <1>14 DEF NewFails, ReloadFails
<1>15. CASE UNCHANGED vars
  BY SMT, <1>15 DEF vars
<1> HIDE DEF TypeOK, Locals, TurnInv
<1> QED
  BY <1>1, <1>2, <1>3, <1>4, <1>5, <1>6, <1>7, <1>8, <1>9, <1>10, <1>11,
     <1>12, <1>13, <1>14, <1>15, StartCases DEF Next, Continue

(* TurnInv holds in every state that the provider reaches. *)
LEMMA TurnInvariant ==
  ASSUME Exclusive
  PROVE Spec => [](TypeOK /\ Locals /\ TurnInv)
<1>1. Init => TurnInv
  BY NoneAssumption DEF Init, TurnInv, MappedSlotsOwned, Holding, Using, NoMappings
<1>2. TypeOK /\ Locals /\ TurnInv /\ [Next]_vars => TurnInv'
  BY TurnStep
<1> QED
  BY <1>1, <1>2, TypeInit, TypeStep, PTL DEF Spec

(* With clients that take turns, the slot of a mapped key is busy and      *)
(* holds that key, through all errors and restarts.                        *)
THEOREM SlotsOwned ==
  ASSUME Exclusive
  PROVE Spec => []MappedSlotsOwned
<1>1. TurnInv => MappedSlotsOwned
  BY DEF TurnInv
<1> QED
  BY <1>1, TurnInvariant, PTL

-----------------------------------------------------------------------------
(* Every busy slot, but for those of public keys, is that of a mapped key  *)
(* or is held by a request that will map it or free it.                    *)
Accounted(s) ==
  \/ \E t \in KeyTriple : key_store[t] # None /\ key_store[t].slot = s
  \/ \E p \in Thread : pc[p] \in Holding /\ slot[p] = s

LeakInv ==
  /\ \A p \in Thread : pc[p] = "command" =>
       cmd[p] \in Command /\ slot[p] \in Suitable(attr[p], cmd[p])
  /\ \A p \in Thread : pc[p] = "find" => cmd[p] \in Command
  /\ \A s \in Slot \ PublicKeySlots : slots[s] = "Busy" => Accounted(s)

(* The slot of an import that raw_key_extract refuses is a slot for public *)
(* keys.                                                                   *)
LEMMA RefusedSlot ==
  ASSUME TypeOK, Locals, LeakInv, NEW p \in Thread, RefuseData(p)
  PROVE slot[p] \in PublicKeySlots
<1>1. /\ pc[p] = "command" /\ cmd[p] = "PsaImportKey"
      /\ attr[p].key_type = "EccPublicKey"
  BY DEF RefuseData
<1>2. attr[p] \in {b \in Attr : b.key_type = "EccPublicKey"}
  BY <1>1 DEF Locals
<1>3. slot[p] \in Suitable(attr[p], "PsaImportKey")
  BY <1>1 DEF LeakInv
<1> HIDE DEF Suitable
<1> QED BY <1>2, <1>3, Zenon DEF PublicKeySlots

(* Every step keeps LeakInv: each error path after find_suitable_slot,     *)
(* except the one of raw_key_extract, gives the slot back.                 *)
LEMMA LeakStep ==
  TypeOK /\ Locals /\ TurnInv /\ LeakInv /\ TurnInv' /\ [Next]_vars /\ Exclusive => LeakInv'
<1> SUFFICES ASSUME TypeOK, Locals, TurnInv, LeakInv, TurnInv', [Next]_vars, Exclusive
             PROVE LeakInv'
  OBVIOUS
<1> USE Zenon, SlotAssumption, LockedAssumption, NoneAssumption
    DEF TypeOK, Locals, LeakInv, Accounted, Holding, kim
<1>0. UNCHANGED PublicKeySlots
  BY DEF PublicKeySlots, Suitable
<1>1. ASSUME NEW p \in Thread, NEW t \in KeyTriple, NEW a \in Attr,
             NEW c \in Command, CreateKey(p, t, a, c)
      PROVE LeakInv'
  BY SMT, <1>0, <1>1 DEF CreateKey, Begin
<1>2. ASSUME NEW p \in Thread, NEW t \in KeyTriple, NEW op, UseKey(p, t, op)
      PROVE LeakInv'
  BY SMT, <1>0, <1>2 DEF UseKey, Begin
<1>3. ASSUME NEW p \in Thread, NEW t \in KeyTriple, PsaDestroyKey(p, t) PROVE LeakInv'
  BY SMT, <1>0, <1>3 DEF PsaDestroyKey, Begin
<1>4. ASSUME NEW p \in Thread, FindSuitableSlot(p) PROVE LeakInv'
  <2>1. pc[p] = "find" /\ UNCHANGED <<key_store, chip>>
    BY <1>4 DEF FindSuitableSlot
  <2>2. ASSUME NEW s \in Candidates(attr[p], cmd[p]),
               SetSlotStatus(s, "Busy"),
               slot' = [slot EXCEPT ![p] = s],
               pc' = [pc EXCEPT ![p] = "command"],
               UNCHANGED <<arg, attr, cmd>>
        PROVE LeakInv'
    <3>1. /\ s \in Slot /\ slots' = [slots EXCEPT ![s] = "Busy"]
          /\ s \in Suitable(attr[p], cmd[p])
      BY <2>1, <2>2 DEF Candidates, Suitable, SetSlotStatus
    <3> QED BY SMT, <1>0, <2>1, <2>2, <3>1
  <2>3. CASE Return(p) /\ UNCHANGED slots
    BY SMT, <1>0, <2>1, <2>3 DEF Return
  <2> QED BY <1>4, <2>2, <2>3 DEF FindSuitableSlot
<1>5. ASSUME NEW p \in Thread, RefuseData(p) PROVE LeakInv'
  <2>1. slot[p] \in PublicKeySlots
    BY <1>5, RefusedSlot
  <2> QED BY SMT, <1>0, <1>5, <2>1 DEF RefuseData, Return
<1>6. ASSUME NEW p \in Thread, FillSlot(p) PROVE LeakInv'
  BY SMT, <1>0, <1>6 DEF FillSlot, Goto
<1>7. ASSUME NEW p \in Thread, Insert(p) PROVE LeakInv'
  <2>1. pc[p] = "insert" /\ key_store[arg[p]] = None /\ UNCHANGED <<slots, chip>>
    <3>1. pc[p] = "insert" /\ UNCHANGED <<slots, chip>>
      BY ONLY <1>7, Zenon DEF Insert
    <3>2. key_store[arg[p]] = None
      BY ONLY <3>1, TurnInv, Zenon DEF TurnInv, Holding
    <3> QED BY ONLY <3>1, <3>2, Zenon
  <2>2. CASE InsertKeyInfo(arg[p], [slot |-> slot[p], attr |-> attr[p]]) /\ Return(p)
    <3>1. /\ key_store'[arg[p]] # None /\ key_store'[arg[p]].slot = slot[p]
          /\ \A t \in KeyTriple \ {arg[p]} : key_store'[t] = key_store[t]
      BY SMT, <2>1, <2>2 DEF InsertKeyInfo, Info
    <3>2. /\ \A q \in Thread \ {p} : pc'[q] = pc[q] /\ slot'[q] = slot[q] /\ cmd'[q] = cmd[q]
                                     /\ attr'[q] = attr[q]
          /\ pc'[p] = "idle"
      BY SMT, <2>2 DEF Return
    <3> QED BY SMT, <1>0, <2>1, <3>1, <3>2
  <2>3. CASE InsertFails(arg[p]) /\ Goto(p, "free")
    BY SMT, <1>0, <2>1, <2>3 DEF InsertFails, Goto
  <2> QED BY ZenonT(30), <1>7, <2>1, <2>2, <2>3 DEF Insert, DoesNotExist
<1>8. ASSUME NEW p \in Thread, FreeSlot(p) PROVE LeakInv'
  <2>1. slots' = [slots EXCEPT ![slot[p]] = "Free"]
    BY <1>8 DEF FreeSlot, SetSlotStatus, TurnInv
  <2> QED BY SMT, <1>0, <1>8, <2>1 DEF FreeSlot, Return
<1>9. ASSUME NEW p \in Thread, GetKeyId(p) PROVE LeakInv'
  BY SMT, <1>0, <1>9 DEF GetKeyId, Return
<1>10. ASSUME NEW p \in Thread, Use(p) PROVE LeakInv'
  BY SMT, <1>0, <1>10 DEF Use, Return
<1>11. ASSUME NEW p \in Thread, Remove(p) PROVE LeakInv'
  <2>1. /\ pc[p] = "remove" /\ slot[p] = key_store[arg[p]].slot
        /\ UNCHANGED <<slots, chip>>
    BY <1>11 DEF Remove, TurnInv
  <2>2. CASE RemoveKeyInfo(arg[p]) /\ Goto(p, "free")
    BY SMT, <1>0, <2>1, <2>2 DEF RemoveKeyInfo, Goto
  <2>3. CASE Return(p) /\ UNCHANGED kim
    BY SMT, <1>0, <2>1, <2>3 DEF Return
  <2> QED BY <1>11, <2>2, <2>3 DEF Remove
<1>12. CASE Crash
  BY <1>0, <1>12 DEF Crash, HwStatus
<1>13. CASE New
  BY <1>0, <1>13 DEF New, HwStatus
<1>14. CASE NewFails
  BY SMT, <1>0, <1>14 DEF NewFails, ReloadFails
<1>15. CASE UNCHANGED vars
  BY SMT, <1>0, <1>15 DEF vars
<1> HIDE DEF TypeOK, Locals, LeakInv
<1> QED
  BY <1>1, <1>2, <1>3, <1>4, <1>5, <1>6, <1>7, <1>8, <1>9, <1>10, <1>11,
     <1>12, <1>13, <1>14, <1>15, StartCases DEF Next, Continue

(* With clients that take turns, no failed or completed request leaves a   *)
(* slot busy without a key, except in the slots for public keys.           *)
THEOREM SlotsGivenBack ==
  ASSUME Exclusive
  PROVE Spec => []NoSlotLeak
<1>1. Init => LeakInv
  BY SlotAssumption DEF Init, LeakInv, HwStatus
<1>2. TypeOK /\ Locals /\ TurnInv /\ LeakInv /\ TurnInv' /\ [Next]_vars => LeakInv'
  BY LeakStep
<1>3. LeakInv => NoSlotLeak
  BY DEF LeakInv, Accounted, NoSlotLeak, Quiet, Holding
<1> QED
  BY <1>1, <1>2, <1>3, TurnInvariant, PTL DEF Spec

-----------------------------------------------------------------------------
(* A slot that suits a creation also suits the revalidation of the key:    *)
(* key_attr_vs_config without an opcode is not stricter than with one.     *)
LEMMA Revalidates ==
  ASSUME NEW s, NEW a, NEW op \in Command, KeyAttrVsConfig(s, a, op)
  PROVE KeyAttrVsConfig(s, a, None)
<1>1. \A w : w \in WriteConfigs(op) => w \in WriteConfigs(None)
  BY NoneAssumption DEF WriteConfigs, Command
<1>2. IsPermittedAlgorithmsOk(s, a, op)
  BY DEF KeyAttrVsConfig
<1>3. IsPermittedAlgorithmsOk(s, a, None)
  <2> HIDE DEF WriteConfigs
  <2> QED BY <1>1, <1>2, Zenon DEF IsPermittedAlgorithmsOk
<1> QED BY <1>3, Zenon DEF KeyAttrVsConfig

(* The slots that requests fill suit their attributes, and the protected   *)
(* slots stay locked.                                                      *)
FitInv ==
  /\ MappedKeysFit
  /\ \A p \in Thread : pc[p] = "find" => cmd[p] \in Command
  /\ \A p \in Thread : pc[p] \in {"command", "insert"} =>
       KeyAttrVsConfig(slot[p], attr[p], None) /\ slot[p] \notin HwLocked
  /\ \A s \in HwLocked : slots[s] = "Locked"

(* Every step keeps FitInv, whether clients take turns or not. *)
LEMMA FitStep == TypeOK /\ Locals /\ FitInv /\ [Next]_vars => FitInv'
<1> SUFFICES ASSUME TypeOK, Locals, FitInv, [Next]_vars PROVE FitInv'
  OBVIOUS
<1> USE Zenon, LockedAssumption, NoneAssumption DEF TypeOK, Locals, FitInv, MappedKeysFit, kim
<1>1. ASSUME NEW p \in Thread, NEW t \in KeyTriple, NEW a \in Attr,
             NEW c \in Command, CreateKey(p, t, a, c)
      PROVE FitInv'
  BY <1>1 DEF CreateKey, Begin
<1>2. ASSUME NEW p \in Thread, NEW t \in KeyTriple, NEW op, UseKey(p, t, op)
      PROVE FitInv'
  BY <1>2 DEF UseKey, Begin
<1>3. ASSUME NEW p \in Thread, NEW t \in KeyTriple, PsaDestroyKey(p, t) PROVE FitInv'
  BY <1>3 DEF PsaDestroyKey, Begin
<1>4. ASSUME NEW p \in Thread, FindSuitableSlot(p) PROVE FitInv'
  <2>1. pc[p] = "find" /\ cmd[p] \in Command /\ UNCHANGED <<key_store, chip>>
    BY <1>4 DEF FindSuitableSlot
  <2>2. ASSUME NEW s \in Candidates(attr[p], cmd[p]),
               SetSlotStatus(s, "Busy"),
               slot' = [slot EXCEPT ![p] = s],
               pc' = [pc EXCEPT ![p] = "command"],
               UNCHANGED <<arg, attr, cmd>>
        PROVE FitInv'
    <3>1. s \in Slot /\ slots[s] = "Free" /\ KeyAttrVsConfig(s, attr[p], cmd[p])
      BY <2>1, <2>2 DEF Candidates, Suitable
    <3>2. KeyAttrVsConfig(s, attr[p], None)
      BY <2>1, <3>1, Revalidates
    <3> QED BY SMT, <2>1, <2>2, <3>1, <3>2 DEF SetSlotStatus
  <2>3. CASE Return(p) /\ UNCHANGED slots
    BY SMT, <2>1, <2>3 DEF Return
  <2> QED BY <1>4, <2>2, <2>3 DEF FindSuitableSlot
<1>5. ASSUME NEW p \in Thread, RefuseData(p) PROVE FitInv'
  BY SMT, <1>5 DEF RefuseData, Return
<1>6. ASSUME NEW p \in Thread, FillSlot(p) PROVE FitInv'
  BY SMT, <1>6 DEF FillSlot, Goto
<1>7. ASSUME NEW p \in Thread, Insert(p) PROVE FitInv'
  <2>1. pc[p] = "insert" /\ UNCHANGED <<slots, chip>>
    BY <1>7 DEF Insert
  <2>2. CASE InsertKeyInfo(arg[p], [slot |-> slot[p], attr |-> attr[p]])
             /\ (Return(p) \/ Goto(p, "free"))
    BY SMT, <2>1, <2>2 DEF InsertKeyInfo, Return, Goto
  <2>3. CASE InsertFails(arg[p]) /\ Goto(p, "free")
    BY SMT, <2>1, <2>3 DEF InsertFails, Goto
  <2> QED BY <1>7, <2>2, <2>3 DEF Insert
<1>8. ASSUME NEW p \in Thread, FreeSlot(p) PROVE FitInv'
  BY SMT, <1>8 DEF FreeSlot, SetSlotStatus, Return
<1>9. ASSUME NEW p \in Thread, GetKeyId(p) PROVE FitInv'
  BY SMT, <1>9 DEF GetKeyId, Return
<1>10. ASSUME NEW p \in Thread, Use(p) PROVE FitInv'
  BY SMT, <1>10 DEF Use, Return
<1>11. ASSUME NEW p \in Thread, Remove(p) PROVE FitInv'
  BY SMT, <1>11 DEF Remove, RemoveKeyInfo, Goto, Return
<1>12. CASE Crash
  BY <1>12 DEF Crash, StopDuringInsert, NoMappings, HwStatus
<1>13. CASE New
  BY <1>13 DEF New, ReloadOnly, HwStatus
<1>14. CASE NewFails
  BY <1>14 DEF NewFails, ReloadFails
<1>15. CASE UNCHANGED vars
  BY <1>15 DEF vars
<1> HIDE DEF TypeOK, Locals, FitInv
<1> QED
  BY <1>1, <1>2, <1>3, <1>4, <1>5, <1>6, <1>7, <1>8, <1>9, <1>10, <1>11,
     <1>12, <1>13, <1>14, <1>15, StartCases DEF Next, Continue

(* Every mapped key is in an unprotected slot whose configuration agrees   *)
(* with its attributes, in all interleavings of the requests.              *)
THEOREM KeysFit == Spec => []MappedKeysFit
<1>1. Init => FitInv
  BY LockedAssumption DEF Init, FitInv, MappedKeysFit, NoMappings, HwStatus
<1>2. FitInv => MappedKeysFit
  BY DEF FitInv
<1> QED
  BY <1>1, <1>2, TypeInit, TypeStep, FitStep, PTL DEF Spec
=============================================================================
