------------------------ MODULE CryptoAuthLibProvider ------------------------
(***************************************************************************)
(* providers::cryptoauthlib: keys live in the numbered slots of an ATECC   *)
(* chip.  The provider keeps a status for every slot in memory; the Key    *)
(* Info Manager maps triples to a slot and to the attributes of the key.   *)
(* Unlike the ids of the other providers, slots are used again after their *)
(* key was destroyed.                                                      *)
(*                                                                         *)
(* A step is one access to the slot statuses (RwLock), one call of the Key *)
(* Info Manager client or one command to the chip.  Key material is left   *)
(* out: the content of a slot is the triple and attributes of the request  *)
(* that wrote it.                                                          *)
(***************************************************************************)
EXTENDS AteccKeySlot, KeyInfoManagerClient

CONSTANTS Thread,
          DeviceType,   \* what get_device_type returns
          Attr,         \* key attributes
          HwLocked,     \* slots that the hardware protects
          Exclusive,    \* the requests that create or destroy a key overlap
                        \*   with no other such request for this key
          Errors,       \* the Key Info Manager and the chip may fail
          Crashes       \* the service may be killed and started again

(* What a mapping holds, and what a slot of the chip holds. *)
Info == [slot : Slot, attr : Attr]

Key == [triple : KeyTriple, attr : Attr]

Command == {"PsaGenerateKey", "PsaImportKey"}

ASSUME LockedAssumption == HwLocked \subseteq Slot

ASSUME NoneAssumption == /\ None \notin KeyTriple /\ None \notin Attr
                         /\ None \notin Slot /\ None \notin Command
                         /\ None \notin Info /\ None \notin Key

ASSUME FlagsAssumption == {Exclusive, Errors, Crashes} \subseteq BOOLEAN

VARIABLES status,       \* "running", "down"
          slots,        \* KeySlotStorage: "Free", "Busy", "Locked"
          chip,         \* the contents of the slots
          pc,           \* next step of the request each thread executes
          arg, attr,    \* its key_triple and attributes
          slot,         \* its slot_id
          cmd           \* the opcode, of a request that creates a key

vars == <<key_store, saved, status, slots, chip, pc, arg, attr, slot, cmd>>

TypeOK ==
  /\ key_store \in [KeyTriple -> Info \cup {None}]
  /\ saved \in [KeyTriple -> Info \cup {None}]
  /\ status \in {"running", "down"}
  /\ slots \in [Slot -> {"Free", "Busy", "Locked"}]
  /\ chip \in [Slot -> Key \cup {None}]
  /\ pc \in [Thread -> {"idle", "find", "command", "insert", "free", "get_id",
                        "use", "remove"}]
  /\ arg \in [Thread -> KeyTriple \cup {None}]
  /\ attr \in [Thread -> Attr \cup {None}]
  /\ slot \in [Thread -> Slot \cup {None}]
  /\ cmd \in [Thread -> Command \cup {None}]

(* set_hw_config *)
HwStatus == [s \in Slot |-> IF s \in HwLocked THEN "Locked" ELSE "Free"]

(* The first start: no mapping, no key. *)
Init ==
  /\ key_store = NoMappings
  /\ saved = NoMappings
  /\ status = "running"
  /\ slots = HwStatus
  /\ chip = [s \in Slot |-> None]
  /\ pc = [p \in Thread |-> "idle"]
  /\ arg = [p \in Thread |-> None]
  /\ attr = [p \in Thread |-> None]
  /\ slot = [p \in Thread |-> None]
  /\ cmd = [p \in Thread |-> None]

-----------------------------------------------------------------------------
(* Helpers on the state of a thread. *)

(* A request of thread p for triple t starts with step s. *)
Begin(p, t, s) ==
  /\ status = "running"
  /\ pc[p] = "idle"
  /\ pc' = [pc EXCEPT ![p] = s]
  /\ arg' = [arg EXCEPT ![p] = t]

Goto(p, s) ==
  /\ pc' = [pc EXCEPT ![p] = s]
  /\ UNCHANGED <<arg, attr, slot, cmd>>

(* The request ends, with a success or with an error. *)
Return(p) ==
  /\ pc' = [pc EXCEPT ![p] = "idle"]
  /\ arg' = [arg EXCEPT ![p] = None]
  /\ attr' = [attr EXCEPT ![p] = None]
  /\ slot' = [slot EXCEPT ![p] = None]
  /\ cmd' = [cmd EXCEPT ![p] = None]

Using == {"get_id", "use"}

(* What the clients guarantee when they take turns on each key; operations *)
(* that use it overlap with anything.                                      *)
Alone(p, t) ==
  Exclusive => \A q \in Thread \ {p} : arg[q] = t => pc[q] \in Using

(* AteccKeySlot::set_slot_status: the status of a locked slot stays. *)
SetSlotStatus(s, new) ==
  slots' = IF slots[s] = "Locked" THEN slots ELSE [slots EXCEPT ![s] = new]

(* set_opcodes *)
SupportedOpcodes ==
  IF DeviceType \in {"ATECC508A", "ATECC608A", "ATECC108A"}
  THEN {"PsaGenerateKey", "PsaDestroyKey", "PsaHashCompute", "PsaHashCompare",
        "PsaGenerateRandom", "PsaImportKey", "PsaSignHash", "PsaVerifyHash",
        "PsaSignMessage", "PsaVerifyMessage", "PsaExportPublicKey", "PsaExportKey"}
  ELSE IF DeviceType \in {"AtcaTestDevSuccess", "AtcaTestDevFail",
                          "AtcaTestDevFailUnimplemented"}
  THEN {"PsaGenerateRandom"}
  ELSE {}

-----------------------------------------------------------------------------
(* psa_generate_key_internal and psa_import_key_internal.  A request that  *)
(* fails in the checks before find_suitable_slot changes nothing.          *)

(* does_not_exist(&key_triple)?, get_calib_key_type(&key_attributes)? *)
CreateKey(p, t, a, c) ==
  /\ c \in SupportedOpcodes
  /\ HasCalibKeyType(a)
  /\ Alone(p, t)
  /\ DoesNotExist(t)
  /\ Begin(p, t, "find")
  /\ attr' = [attr EXCEPT ![p] = a]
  /\ cmd' = [cmd EXCEPT ![p] = c]
  /\ UNCHANGED <<kim, status, slots, chip, slot>>

PsaGenerateKey(p, t, a) == a.key_type # "EccPublicKey" /\ CreateKey(p, t, a, "PsaGenerateKey")

PsaImportKey(p, t, a) == CreateKey(p, t, a, "PsaImportKey")

(* Fault: the configuration of the slots is not compared. *)
Mut_Suitable(a, op) == Slot

(* The slots that agree with the attributes, busy or not. *)
Suitable(a, op) == {s \in Slot : KeyAttrVsConfig(s, a, op)}

(* Fault: slots that are not free are considered too. *)
Mut_Candidates(a, op) == Suitable(a, op)

(* find_suitable_slot: the first free slot that fits becomes busy; without *)
(* one the request returns PsaErrorInsufficientStorage.                    *)
Candidates(a, op) == {s \in Suitable(a, op) : slots[s] = "Free"}

(* Fault: the index after the last slot is returned when none fits. *)
Mut_FindSuitableSlot(p) ==
  /\ pc[p] = "find"
  /\ \E s \in (IF Candidates(attr[p], cmd[p]) = {} THEN {SLOTS_COUNT} ELSE Candidates(attr[p], cmd[p])) :
       /\ \A r \in Candidates(attr[p], cmd[p]) : s <= r
       /\ s \in Slot => SetSlotStatus(s, "Busy")
       /\ s \notin Slot => UNCHANGED slots
       /\ slot' = [slot EXCEPT ![p] = s]
  /\ pc' = [pc EXCEPT ![p] = "command"]
  /\ UNCHANGED <<kim, status, chip, arg, attr, cmd>>

FindSuitableSlot(p) ==
  /\ pc[p] = "find"
  /\ \/ \E s \in Candidates(attr[p], cmd[p]) :
          /\ \A r \in Candidates(attr[p], cmd[p]) : s <= r
          /\ SetSlotStatus(s, "Busy")
          /\ slot' = [slot EXCEPT ![p] = s]
          /\ pc' = [pc EXCEPT ![p] = "command"]
          /\ UNCHANGED <<arg, attr, cmd>>
     \/ /\ Candidates(attr[p], cmd[p]) = {}
        /\ Return(p)
        /\ UNCHANGED slots
  /\ UNCHANGED <<kim, status, chip>>

(* raw_key_extract(..)? refuses the data of a public key, whose length is  *)
(* wrong: the request returns from here, and its slot is not given back.   *)
RefuseData(p) ==
  /\ pc[p] = "command" /\ cmd[p] = "PsaImportKey"
  /\ attr[p].key_type = "EccPublicKey"
  /\ Return(p)
  /\ UNCHANGED <<kim, status, slots, chip>>

(* Fault: the slot is not given back when the command fails. *)
Mut_FillSlot(p) ==
  /\ pc[p] = "command"
  /\ \/ /\ chip' = [chip EXCEPT ![slot[p]] = [triple |-> arg[p], attr |-> attr[p]]]
        /\ Goto(p, "insert")
     \/ /\ Errors
        /\ Return(p)
        /\ UNCHANGED chip
  /\ UNCHANGED <<kim, status, slots>>

(* device.gen_key, device.import_key *)
FillSlot(p) ==
  /\ pc[p] = "command"
  /\ \/ /\ chip' = [chip EXCEPT ![slot[p]] = [triple |-> arg[p], attr |-> attr[p]]]
        /\ Goto(p, "insert")
     \/ /\ Errors
        /\ Goto(p, "free")
        /\ UNCHANGED chip
  /\ UNCHANGED <<kim, status, slots>>

Insert(p) ==
  /\ pc[p] = "insert"
  /\ \/ /\ InsertKeyInfo(arg[p], [slot |-> slot[p], attr |-> attr[p]])
        /\ IF DoesNotExist(arg[p]) THEN Return(p) ELSE Goto(p, "free")
     \/ /\ Errors
        /\ InsertFails(arg[p])
        /\ Goto(p, "free")
  /\ UNCHANGED <<status, slots, chip>>

(* set_slot_status(slot_id, Free), after a failure or after remove_key_info *)
FreeSlot(p) ==
  /\ pc[p] = "free"
  /\ SetSlotStatus(slot[p], "Free")
  /\ Return(p)
  /\ UNCHANGED <<kim, status, chip>>

-----------------------------------------------------------------------------
(* The operations that use a key: get_key_attributes(&key_triple)? and     *)
(* their validation, then get_key_id(&key_triple)?, then the chip.         *)

UseKey(p, t, op) ==
  /\ op \in SupportedOpcodes
  /\ ~DoesNotExist(t)
  /\ Begin(p, t, "get_id")
  /\ attr' = [attr EXCEPT ![p] = key_store[t].attr]
  /\ UNCHANGED <<kim, status, slots, chip, slot, cmd>>

Ecc == {"EccKeyPair", "EccPublicKey"}

(* op.validate (external): the policy permits the use of the key. *)
Permits(a, usage) == usage \in a.usage /\ a.alg = "EcdsaSha256" /\ a.key_type \in Ecc

PsaSignHash(p, t) ==
  UseKey(p, t, "PsaSignHash") /\ Permits(key_store[t].attr, "sign_hash")

PsaVerifyHash(p, t) ==
  UseKey(p, t, "PsaVerifyHash") /\ Permits(key_store[t].attr, "verify_hash")

PsaSignMessage(p, t) ==
  UseKey(p, t, "PsaSignMessage") /\ Permits(key_store[t].attr, "sign_message")

PsaVerifyMessage(p, t) ==
  UseKey(p, t, "PsaVerifyMessage") /\ Permits(key_store[t].attr, "verify_message")

PsaExportPublicKey(p, t) ==
  UseKey(p, t, "PsaExportPublicKey") /\ key_store[t].attr.key_type \in Ecc

PsaExportKey(p, t) ==
  /\ UseKey(p, t, "PsaExportKey")
  /\ "export" \in key_store[t].attr.usage
  /\ key_store[t].attr.key_type \in {"Aes", "RawData", "EccPublicKey"}

GetKeyId(p) ==
  /\ pc[p] = "get_id"
  /\ \/ /\ ~DoesNotExist(arg[p])
        /\ slot' = [slot EXCEPT ![p] = key_store[arg[p]].slot]
        /\ pc' = [pc EXCEPT ![p] = "use"]
        /\ UNCHANGED <<arg, attr, cmd>>
     \/ /\ DoesNotExist(arg[p])
        /\ Return(p)
  /\ UNCHANGED <<kim, status, slots, chip>>

(* ecdsa_hash_sign, ecdsa_verify_mode_get and ecdsa_hash_verify,           *)
(* get_public_key, export_key: the chip reads the slot, or fails.          *)
Use(p) ==
  /\ pc[p] = "use"
  /\ Return(p)
  /\ UNCHANGED <<kim, status, slots, chip>>

-----------------------------------------------------------------------------
(* psa_destroy_key_internal.  The content of the slot stays. *)

PsaDestroyKey(p, t) ==
  /\ "PsaDestroyKey" \in SupportedOpcodes
  /\ Alone(p, t)
  /\ ~DoesNotExist(t)
  /\ Begin(p, t, "remove")
  /\ slot' = [slot EXCEPT ![p] = key_store[t].slot]
  /\ UNCHANGED <<kim, status, slots, chip, attr, cmd>>

Remove(p) ==
  /\ pc[p] = "remove"
  /\ \/ /\ ~DoesNotExist(arg[p])
        /\ RemoveKeyInfo(arg[p])
        /\ Goto(p, "free")
     \/ /\ Errors \/ DoesNotExist(arg[p])
        /\ Return(p)
        /\ UNCHANGED kim
  /\ UNCHANGED <<status, slots, chip>>

-----------------------------------------------------------------------------
(* The process stops: killed, or (when no request is executing) reloaded. *)
Crash ==
  /\ Crashes
  /\ status = "running"
  /\ status' = "down"
  /\ StopDuringInsert({arg[p] : p \in {q \in Thread : pc[q] = "insert"}})
  /\ slots' = HwStatus
  /\ pc' = [p \in Thread |-> "idle"]
  /\ arg' = [p \in Thread |-> None]
  /\ attr' = [p \in Thread |-> None]
  /\ slot' = [p \in Thread |-> None]
  /\ cmd' = [p \in Thread |-> None]
  /\ UNCHANGED chip

(* Provider::new.  For every triple that get_all returns, does_not_exist   *)
(* is called; it returns an error because the triple exists, and the       *)
(* triple is put on the list of mappings to remove.  The code that would   *)
(* validate the mapping and mark its slot busy is never reached.           *)
New ==
  /\ status = "down"
  /\ status' = "running"
  /\ ReloadOnly({})
  /\ slots' = HwStatus
  /\ UNCHANGED <<chip, pc, arg, attr, slot, cmd>>

(* new returns None: the chip cannot be set up, or a removal fails. *)
NewFails ==
  /\ Errors
  /\ status = "down"
  /\ \E gone \in SUBSET {t \in KeyTriple : saved[t] # None} : ReloadFails(gone)
  /\ UNCHANGED <<status, slots, chip, pc, arg, attr, slot, cmd>>

-----------------------------------------------------------------------------
Operation(p, t) ==
  \/ PsaSignHash(p, t) \/ PsaVerifyHash(p, t) \/ PsaSignMessage(p, t)
  \/ PsaVerifyMessage(p, t) \/ PsaExportPublicKey(p, t) \/ PsaExportKey(p, t)

Start(p) ==
  \E t \in KeyTriple :
    \/ \E a \in Attr : PsaGenerateKey(p, t, a) \/ PsaImportKey(p, t, a)
    \/ Operation(p, t)
    \/ PsaDestroyKey(p, t)

Continue(p) == \/ FindSuitableSlot(p) \/ RefuseData(p) \/ FillSlot(p) \/ Insert(p)
               \/ FreeSlot(p) \/ GetKeyId(p) \/ Use(p) \/ Remove(p)

Next == \/ \E p \in Thread : Start(p) \/ Continue(p)
        \/ Crash
        \/ New
        \/ NewFails

Spec == Init /\ [][Next]_vars

-----------------------------------------------------------------------------
(* When clients take turns, a mapping designates a busy slot that holds    *)
(* the key of its triple, with the attributes that are mapped: no request  *)
(* frees, or takes from find_suitable_slot, the slot of another key.       *)
MappedSlotsOwned ==
  \A t \in KeyTriple : key_store[t] # None =>
    /\ slots[key_store[t].slot] = "Busy"
    /\ chip[key_store[t].slot] = [triple |-> t, attr |-> key_store[t].attr]

Quiet == \A p \in Thread : pc[p] = "idle"

(* The slots in which an imported public key is stored. *)
PublicKeySlots ==
  UNION {Suitable(a, "PsaImportKey") : a \in {b \in Attr : b.key_type = "EccPublicKey"}}

(* "handle failures in a way that it is possible to import a key with the  *)
(* same name later on" (providers/mod.rs:125-126): once the requests are   *)
(* done, only the slots of mapped keys are busy, so a failed request has   *)
(* not used up a slot.  The slots for public keys are left out: an import  *)
(* whose data raw_key_extract refuses keeps one busy (RefuseData).         *)
NoSlotLeak ==
  Quiet => \A s \in Slot \ PublicKeySlots : slots[s] = "Busy" =>
             \E t \in KeyTriple : key_store[t] # None /\ key_store[t].slot = s

(* A mapped key is in a slot that is not locked and whose configuration    *)
(* agrees with its attributes also without the opcode that created it: the *)
(* revalidation at a start, key_validate_and_mark_busy, would accept it.   *)
MappedKeysFit ==
  \A t \in KeyTriple : key_store[t] # None =>
    /\ KeyAttrVsConfig(key_store[t].slot, key_store[t].attr, None)
    /\ key_store[t].slot \notin HwLocked

(* "Delete invalid entries or invalid mappings. Mark the slots free/busy   *)
(* appropriately." (mod.rs:100-101): a mapping whose slot holds its key is *)
(* there after the start of the provider.                                  *)
ValidMappingsKept ==
  [][New => \A t \in KeyTriple :
       /\ saved[t] # None
       /\ chip[saved[t].slot] = [triple |-> t, attr |-> saved[t].attr]
       => key_store'[t] = saved[t]]_vars
=============================================================================
