------------------------------ MODULE MCPkcs11 ------------------------------
(* An instance of Pkcs11Provider for TLC: an ECC key pair and an RSA       *)
(* public key (an import of the key pair finds no template for it).        *)
(* Ids and threads are interchangeable; t1 and t2 are not, because only    *)
(* the clients of t2 take turns in creating and destroying it.             *)
EXTENDS Pkcs11Provider, TLC

CONSTANT t2

Key(type, family, bits) ==
  [key_type |-> type, family |-> family, bits |-> bits, data_bits |-> 2048,
   mechanism |-> TRUE, export |-> FALSE]

Attributes == {Key("EccKeyPair", "SecpR1", 256),
               Key("RsaPublicKey", "none", 0)}

TakingTurns == {t2}

Symmetry == Permutations(Id) \cup Permutations(Thread)
=============================================================================
