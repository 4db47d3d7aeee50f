----------------------------- MODULE TpmProvider -----------------------------
(***************************************************************************)
(* providers::tpm: the mapping of a key triple holds the key itself, as a  *)
(* context that only the TPM can load.  The TPM keeps no key of its own,   *)
(* so a creation whose mapping cannot be stored has nothing to undo, and   *)
(* the destruction of a key is the removal of its mapping.                 *)
(*                                                                         *)
(* esapi_context is locked for the whole of a TPM command: from before the *)
(* reads of the mapping when a key is used, and from after does_not_exist  *)
(* until after insert_key_info when a key is created.  The destruction of  *)
(* a key does not take it.  A context is represented by the attributes of  *)
(* the key that was made, and a mapping by the attributes it holds.        *)
(***************************************************************************)
EXTENDS Integers, KeyInfoManagerClient

CONSTANTS Thread,
          Attr,    \* key attributes of the requests, a set of records
          Errors   \* the Key Info Manager and the TPM may fail

ASSUME NoneAssumption == /\ None \notin KeyTriple /\ None \notin Attr
                         /\ None \notin Thread

VARIABLES esapi_context,  \* the thread that has the lock, or None
          pc,             \* next step of the request of each thread
          op, arg,        \* its operation and its key_triple
          ctx,            \* the key context it has read or made
          attr,           \* the key attributes it has
          response        \* "ok" or "error" once the request has returned

tpm_local == <<pc, op, arg, ctx, attr, response>>

tpm_vars == <<kim, esapi_context, tpm_local>>

Creations == {"PsaGenerateKey", "PsaImportKey"}

Uses == {"PsaExportPublicKey", "PsaSignHash", "PsaVerifyHash",
         "PsaAsymmetricEncrypt", "PsaAsymmetricDecrypt"}

TpmTypeOK ==
  /\ key_store \in [KeyTriple -> Attr \cup {None}]
  /\ esapi_context \in Thread \cup {None}
  /\ pc \in [Thread -> {"idle", "create", "insert", "attributes", "operate", "remove"}]
  /\ op \in [Thread -> Creations \cup Uses \cup {"PsaDestroyKey", "none"}]
  /\ arg \in [Thread -> KeyTriple \cup {None}]
  /\ ctx \in [Thread -> Attr \cup {None}]
  /\ attr \in [Thread -> Attr \cup {None}]
  /\ response \in [Thread -> {"none", "ok", "error"}]

TpmInit ==
  /\ esapi_context = None
  /\ pc = [p \in Thread |-> "idle"]
  /\ op = [p \in Thread |-> "none"]
  /\ arg = [p \in Thread |-> None]
  /\ ctx = [p \in Thread |-> None]
  /\ attr = [p \in Thread |-> None]
  /\ response = [p \in Thread |-> "none"]

Begin(p, o, t, s, c, a) ==
  /\ pc[p] = "idle"
  /\ pc' = [pc EXCEPT ![p] = s]
  /\ op' = [op EXCEPT ![p] = o]
  /\ arg' = [arg EXCEPT ![p] = t]
  /\ ctx' = [ctx EXCEPT ![p] = c]
  /\ attr' = [attr EXCEPT ![p] = a]
  /\ response' = [response EXCEPT ![p] = "none"]

(* The request returns, with the status that corresponds to ok. *)
Return(p, ok) ==
  /\ pc' = [pc EXCEPT ![p] = "idle"]
  /\ op' = [op EXCEPT ![p] = "none"]
  /\ arg' = [arg EXCEPT ![p] = None]
  /\ ctx' = [ctx EXCEPT ![p] = None]
  /\ attr' = [attr EXCEPT ![p] = None]
  /\ response' = [response EXCEPT ![p] = IF ok THEN "ok" ELSE "error"]

-----------------------------------------------------------------------------
(* utils.rs: conversions between PSA attributes and TPM parameters.  TRUE  *)
(* stands for Ok.                                                          *)

Hashes == {"Sha1", "Sha256", "Sha384", "Sha512", "Sha3_256", "Sha3_384", "Sha3_512"}

ConvertHashToTpm(h) == h \in Hashes

ConvertAsymSchemeToTpm(a) ==
  \/ a.alg \in {"RsaPkcs1v15Sign", "Ecdsa", "RsaOaep"} /\ ConvertHashToTpm(a.hash)
  \/ a.alg = "RsaPkcs1v15Crypt"

ConvertCurveToTpm(a) == a.family = "SecpR1" /\ a.bits \in {192, 224, 256, 384, 521}

ParsecToTpmParams(a) ==
  \/ /\ a.key_type = "RsaKeyPair"
     /\ a.bits \in {1024, 2048, 3072, 4096}
     /\ \/ a.alg = "RsaPkcs1v15Sign" /\ ConvertAsymSchemeToTpm(a)
        \/ a.alg \in {"RsaPkcs1v15Crypt", "RsaOaep"}
  \/ /\ a.key_type = "EccKeyPair"
     /\ ConvertAsymSchemeToTpm(a)
     /\ ConvertCurveToTpm(a)

(* The data of an import request is in the record as well: the length of   *)
(* the modulus and of the first prime, in bytes, and the exponent.         *)
ValidatePublicKey(a) ==
  /\ a.exponent = 65537
  /\ a.bits # 0 => a.modulus_len * 8 = a.bits
  /\ a.modulus_len * 8 \in {1024, 2048, 3072, 4096}

ValidatePrivateKey(a) ==
  /\ a.exponent = 65537
  /\ a.prime_len * 8 = a.bits \div 2

(* Bytes of a coordinate, and of r and s, as the TPM returns them: those   *)
(* of the field of the curve (external).                                   *)
CoordinateLen(a) == (a.bits + 7) \div 8

PubKeyToBytes(a) ==
  a.key_type = "EccKeyPair" => CoordinateLen(a) = a.bits \div 8

SignatureDataToBytes(a) ==
  a.key_type = "EccKeyPair" => CoordinateLen(a) = a.bits \div 8

(* For a signature as long as the key's signatures are. *)
BytesToSignatureData(a) ==
  a.key_type = "EccKeyPair" => 2 * CoordinateLen(a) = 2 * (a.bits \div 8)

-----------------------------------------------------------------------------
(* psa_generate_key_internal and psa_import_key_internal until the lock:   *)
(* a request that fails here changes nothing.                              *)

PsaGenerateKey(p, t, a) ==
  /\ DoesNotExist(t)
  /\ a.key_type \notin {"RsaPublicKey", "EccPublicKey"}
  /\ Begin(p, "PsaGenerateKey", t, "create", None, a)
  /\ UNCHANGED <<kim, esapi_context>>

PsaImportKey(p, t, a) ==
  /\ a.key_type \in {"RsaPublicKey", "RsaKeyPair"}
  /\ a.alg = "RsaPkcs1v15Sign" /\ a.hash = "Sha256"
  /\ DoesNotExist(t)
  /\ Begin(p, "PsaImportKey", t, "create", None, a)
  /\ UNCHANGED <<kim, esapi_context>>

ImportRsaPublic(a) == a.key_type = "RsaPublicKey" /\ ValidatePublicKey(a)

ImportRsaKeypair(a) ==
  a.key_type = "RsaKeyPair" /\ ValidatePublicKey(a) /\ ValidatePrivateKey(a)

Parameters(p) ==
  IF op[p] = "PsaGenerateKey" THEN ParsecToTpmParams(attr[p])
  ELSE ImportRsaPublic(attr[p]) \/ ImportRsaKeypair(attr[p])

(* The lock is taken, the parameters are converted and the TPM creates or  *)
(* loads the key; an error releases the lock.                              *)
CreateKey(p) ==
  /\ pc[p] = "create"
  /\ esapi_context = None
  /\ \/ /\ Parameters(p)
        /\ esapi_context' = p
        /\ ctx' = [ctx EXCEPT ![p] = attr[p]]
        /\ pc' = [pc EXCEPT ![p] = "insert"]
        /\ UNCHANGED <<op, arg, attr, response>>
     \/ /\ ~Parameters(p) \/ Errors
        /\ Return(p, FALSE)
        /\ UNCHANGED esapi_context
  /\ UNCHANGED kim

(* insert_key_info(...)?  If the triple has a mapping meanwhile it is      *)
(* replaced, and the request returns PsaErrorAlreadyExists.                *)
Insert(p) ==
  /\ pc[p] = "insert"
  /\ \/ InsertKeyInfo(arg[p], attr[p]) /\ Return(p, DoesNotExist(arg[p]))
     \/ Errors /\ InsertFails(arg[p]) /\ Return(p, FALSE)
  /\ esapi_context' = None

-----------------------------------------------------------------------------
(* The operations that use a key: the lock is taken and the mapping read,  *)
(* first the context and then, in another call, the attributes.  (Nothing  *)
(* happens before the lock, so a request that waits for it is one that has *)
(* not begun.)                                                             *)

(* Fault: the mapping is read before the lock is taken. *)
Mut_UseKey(p, o, t) ==
  /\ ~DoesNotExist(t)
  /\ Begin(p, o, t, "attributes", key_store[t], None)
  /\ UNCHANGED <<kim, esapi_context>>

UseKey(p, o, t) ==
  /\ esapi_context = None
  /\ ~DoesNotExist(t)
  /\ esapi_context' = p
  /\ Begin(p, o, t, "attributes", key_store[t], None)
  /\ UNCHANGED kim

PsaExportPublicKey(p, t) == UseKey(p, "PsaExportPublicKey", t)

PsaSignHash(p, t) == UseKey(p, "PsaSignHash", t)

PsaVerifyHash(p, t) == UseKey(p, "PsaVerifyHash", t)

PsaAsymmetricEncrypt(p, t) == UseKey(p, "PsaAsymmetricEncrypt", t)

PsaAsymmetricDecrypt(p, t) == UseKey(p, "PsaAsymmetricDecrypt", t)

GetKeyAttributes(p) ==
  /\ pc[p] = "attributes"
  /\ \/ /\ ~DoesNotExist(arg[p])
        /\ attr' = [attr EXCEPT ![p] = key_store[arg[p]]]
        /\ pc' = [pc EXCEPT ![p] = "operate"]
        /\ UNCHANGED <<op, arg, ctx, response, esapi_context>>
     \/ /\ DoesNotExist(arg[p])
        /\ Return(p, FALSE)
        /\ esapi_context' = None
  /\ UNCHANGED kim

(* The algorithm is checked, the TPM executes the command, and its result  *)
(* is converted.                                                           *)
Converted(p) ==
  CASE op[p] = "PsaExportPublicKey" -> PubKeyToBytes(attr[p])
    [] op[p] = "PsaSignHash" -> SignatureDataToBytes(attr[p])
    [] op[p] = "PsaVerifyHash" -> BytesToSignatureData(attr[p])
    [] OTHER -> attr[p].key_type # "EccKeyPair"

Operate(p) ==
  /\ pc[p] = "operate"
  /\ Return(p, Converted(p)) \/ (Errors /\ Return(p, FALSE))
  /\ esapi_context' = None
  /\ UNCHANGED kim

(* psa_destroy_key_internal: remove_key_info(&key_triple)?, without the    *)
(* lock.                                                                   *)
PsaDestroyKey(p, t) ==
  /\ Begin(p, "PsaDestroyKey", t, "remove", None, None)
  /\ UNCHANGED <<kim, esapi_context>>

RemoveKey(p) ==
  /\ pc[p] = "remove"
  /\ \/ ~DoesNotExist(arg[p]) /\ RemoveKeyInfo(arg[p]) /\ Return(p, TRUE)
     \/ (DoesNotExist(arg[p]) \/ Errors) /\ Return(p, FALSE) /\ UNCHANGED kim
  /\ UNCHANGED esapi_context

-----------------------------------------------------------------------------
TpmContinue(p) == \/ CreateKey(p) \/ Insert(p) \/ GetKeyAttributes(p) \/ Operate(p)
                  \/ RemoveKey(p)

(* A request that thread p begins on triple t. *)
TpmStart(p, o, t) ==
  \/ \E a \in Attr : \/ o = "PsaGenerateKey" /\ PsaGenerateKey(p, t, a)
                     \/ o = "PsaImportKey" /\ PsaImportKey(p, t, a)
  \/ o = "PsaExportPublicKey" /\ PsaExportPublicKey(p, t)
  \/ o = "PsaSignHash" /\ PsaSignHash(p, t)
  \/ o = "PsaVerifyHash" /\ PsaVerifyHash(p, t)
  \/ o = "PsaAsymmetricEncrypt" /\ PsaAsymmetricEncrypt(p, t)
  \/ o = "PsaAsymmetricDecrypt" /\ PsaAsymmetricDecrypt(p, t)
  \/ o = "PsaDestroyKey" /\ PsaDestroyKey(p, t)

-----------------------------------------------------------------------------
(* The attributes that a request validates are those of the context that   *)
(* it hands to the TPM, although they are read by two calls between which  *)
(* the key may be destroyed: a new key of that name cannot be stored while *)
(* the request has the lock.                                               *)
ContextMatchesAttributes ==
  \A p \in Thread : pc[p] = "operate" => ctx[p] = attr[p]

(* "should not fail for valid keys" (utils.rs:194, 228): the public part   *)
(* of a key that the provider created can be exported, and a signature     *)
(* made with it be returned.                                               *)
ValidKeysConvert ==
  \A p \in Thread : pc[p] = "operate" => Converted(p) \/ op[p] \notin
    {"PsaExportPublicKey", "PsaSignHash", "PsaVerifyHash"}
=============================================================================
