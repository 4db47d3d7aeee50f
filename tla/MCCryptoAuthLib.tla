--------------------------- MODULE MCCryptoAuthLib ---------------------------
(* Instances of CryptoAuthLibProvider for TLC.  The slots: 0 for any key   *)
(* pair, 1 for generated ones only, 2 and 3 for public keys, 3 protected,  *)
(* and 4 for AES keys.                                                     *)
EXTENDS CryptoAuthLibProvider, TLC

Pair == [key_type |-> "EccKeyPair", bits |-> 256, alg |-> "EcdsaSha256",
         usage |-> {"sign_hash", "verify_hash", "sign_message", "verify_message"}]

Public == [key_type |-> "EccPublicKey", bits |-> 256, alg |-> "EcdsaSha256",
           usage |-> {"verify_hash", "export"}]

Aes == [key_type |-> "Aes", bits |-> 128, alg |-> "Gcm", usage |-> {"export"}]

PairAndPublic == {Pair, Public}

AllAttributes == {Pair, Public, Aes}

PairSlot(write) ==
  [key_type |-> "P256EccKey", is_private |-> TRUE, ext_sign |-> TRUE, is_secret |-> TRUE,
   pub_info |-> TRUE, no_mac |-> TRUE, write_config |-> write]

PublicSlot ==
  [key_type |-> "P256EccKey", is_private |-> FALSE, ext_sign |-> FALSE, is_secret |-> FALSE,
   pub_info |-> FALSE, no_mac |-> TRUE, write_config |-> "Always"]

FiveSlots == (0 :> PairSlot("Encrypt")) @@ (1 :> PairSlot("Never"))
             @@ (2 :> PublicSlot) @@ (3 :> PublicSlot)
             @@ (4 :> [PublicSlot EXCEPT !.key_type = "Aes", !.is_secret = TRUE])

Slot3 == {3}

Symmetry == Permutations(KeyTriple) \cup Permutations(Thread)
=============================================================================
