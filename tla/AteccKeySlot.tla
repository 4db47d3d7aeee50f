---------------------------- MODULE AteccKeySlot ----------------------------
(***************************************************************************)
(* providers::cryptoauthlib::key_slot: which key attributes agree with the *)
(* hardware configuration of a slot.                                       *)
(*                                                                         *)
(* Attributes are a record of key_type (the only curve family is SecpR1;   *)
(* another one is another key type), bits, usage (the set of flags) and    *)
(* alg, the permitted algorithm.  A configuration has the fields of        *)
(* rust_cryptoauthlib::SlotConfig that the code reads.                     *)
(***************************************************************************)
EXTENDS Integers

CONSTANTS SLOTS_COUNT,              \* ATCA_ATECC_SLOTS_COUNT
          MIN_SLOT_IDX_FOR_PUB_KEY, \* ATCA_ATECC_MIN_SLOT_IDX_FOR_PUB_KEY
          Config                    \* slots -> their configurations

Slot == 0..(SLOTS_COUNT - 1)

ASSUME SlotAssumption == /\ SLOTS_COUNT \in Nat \ {0}
                         /\ MIN_SLOT_IDX_FOR_PUB_KEY \in Nat
                         /\ DOMAIN Config = Slot

(* get_calib_key_type returns Ok. *)
HasCalibKeyType(a) ==
  \/ a.key_type \in {"RawData", "Aes"}
  \/ a.key_type \in {"EccKeyPair", "EccPublicKey"} /\ a.bits \in {0, 256}

IsKeyTypeOk(s, a) ==
  LET c   == Config[s]
      ecc == a.bits \in {0, 256} /\ c.key_type = "P256EccKey"
  IN  \/ a.key_type = "RawData" /\ c.key_type = "ShaOrText"
      \/ a.key_type = "Hmac" /\ ~c.no_mac
      \/ a.key_type = "Aes" /\ c.key_type = "Aes"
      \/ a.key_type = "EccKeyPair" /\ ecc /\ c.is_private /\ c.is_secret
      \/ a.key_type = "EccPublicKey" /\ ecc /\ s >= MIN_SLOT_IDX_FOR_PUB_KEY

IsUsageFlagsOk(s, a) ==
  LET c    == Config[s]
      pair == a.key_type = "EccKeyPair"
      ecc  == c.key_type = "P256EccKey"
      public_readable == pair => (c.is_private => c.pub_info)
  IN  /\ a.usage \cap {"export", "copy"} # {} => (pair => ecc) /\ public_readable
      /\ a.usage \cap {"sign_hash", "sign_message"} # {} =>
           ecc /\ c.is_private /\ c.ext_sign /\ pair
      /\ a.usage \cap {"verify_hash", "verify_message"} # {} => ecc /\ public_readable

(* The algorithms that need an AES slot. *)
AesAlgorithms == {"CbcPkcs7", "Ctr", "Cfb", "Ofb", "Ccm", "Gcm"}

(* The write configurations of a slot for a key pair; for its              *)
(* revalidation (no opcode) any will do.                                   *)
WriteConfigs(op) ==
  IF op = "PsaImportKey" THEN {"Encrypt"}
  ELSE IF op = "PsaGenerateKey" THEN {"Encrypt", "Never"}
  ELSE {"Encrypt", "Never", "Always", "PubInvalid"}

IsPermittedAlgorithmsOk(s, a, op) ==
  LET c == Config[s]
  IN  \/ a.alg = "Sha256"
      \/ a.alg = "HmacSha256" /\ ~c.no_mac /\ c.key_type # "P256EccKey" /\ ~c.is_private
      \/ a.alg \in {"CbcMac", "Cmac"} /\ ~c.no_mac /\ c.key_type = "Aes"
      \/ a.alg \in AesAlgorithms /\ c.key_type = "Aes"
      \/ /\ a.alg = "EcdsaSha256" /\ c.key_type = "P256EccKey"
         /\ \/ /\ a.key_type = "EccKeyPair" /\ c.is_private /\ c.ext_sign
               /\ c.write_config \in WriteConfigs(op)
            \/ /\ a.key_type = "EccPublicKey"
               /\ c.write_config \in {"Encrypt", "Never", "Always"}
      \/ a.alg = "Ecdh" /\ c.key_type = "P256EccKey"

KeyAttrVsConfig(s, a, op) ==
  IsKeyTypeOk(s, a) /\ IsUsageFlagsOk(s, a) /\ IsPermittedAlgorithmsOk(s, a, op)
=============================================================================
