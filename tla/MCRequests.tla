----------------------------- MODULE MCRequests -----------------------------
(***************************************************************************)
(* Instances of RequestHandling for TLC: two applications, of which app1   *)
(* may be an admin, with one key name, and up to two providers.            *)
(***************************************************************************)
EXTENDS RequestHandling, TLC

Apps == {"app1", "app2"}

Triples == {<<"app1", "Tpm", "k">>, <<"app2", "Tpm", "k">>, <<"app2", "MbedCrypto", "k">>}

(* An ECC key pair that the TPM supports. *)
EccKey(bits) == [key_type |-> "EccKeyPair", family |-> "SecpR1", bits |-> bits,
                 alg |-> "Ecdsa", hash |-> "Sha256", exponent |-> 0,
                 modulus_len |-> 0, prime_len |-> 0]

RsaKeyPair == [key_type |-> "RsaKeyPair", family |-> "none", bits |-> 2048,
               alg |-> "RsaPkcs1v15Sign", hash |-> "Sha256", exponent |-> 65537,
               modulus_len |-> 256, prime_len |-> 128]

(* A public key can only be imported, here with bits left open. *)
RsaPublicKey == [RsaKeyPair EXCEPT !.key_type = "RsaPublicKey", !.bits = 0]

Attributes == {RsaKeyPair, RsaPublicKey}

(* All curves that the provider converts. *)
EccAttributes == {EccKey(bits) : bits \in {256, 384, 521}}

ProviderConfigs ==
  {c \in [id : {"Tpm", "MbedCrypto"}, key_info_manager : {"on-disk", "other"},
          skip_if_no_tpm : BOOLEAN, tcti : {"invalid", "absent", "present"},
          created : BOOLEAN] :
     /\ c.id = "MbedCrypto" => ~c.skip_if_no_tpm /\ c.tcti = "present"
     /\ c.tcti # "present" => ~c.created}

CalConfig == [id |-> "CryptoAuthLib", key_info_manager |-> "on-disk",
              skip_if_no_tpm |-> FALSE, tcti |-> "present", created |-> TRUE]

(* Key info managers and authenticators that cannot be created come with   *)
(* one type of authenticator.                                              *)
AllConfigs ==
  {c \in [key_manager : {{[name |-> "on-disk", created |-> b]} : b \in BOOLEAN},
          auth_built : BOOLEAN,
          provider : {<<>>} \cup {<<c>> : c \in ProviderConfigs \cup {CalConfig}}
                     \cup (ProviderConfigs \X ProviderConfigs),
          auth_type : {"Direct", "UnixPeerCredentials", "JwtSvid"},
          admins : {{"app1"}}] :
     c.auth_type = "JwtSvid" \/ (c.auth_built /\ \A m \in c.key_manager : m.created)}

(* One service, for runs about the TPM provider only. *)
TpmConfig ==
  {[key_manager |-> {[name |-> "on-disk", created |-> TRUE]}, auth_built |-> TRUE,
    auth_type |-> "Direct", admins |-> {},
    provider |-> <<[id |-> "Tpm", key_info_manager |-> "on-disk", skip_if_no_tpm |-> FALSE,
                    tcti |-> "present", created |-> TRUE]>>]}

(* Those that can reach the TPM or the core provider, of one kind of       *)
(* authentication: the others are covered by RequestsDecided.              *)
WellFormed ==
  {r \in Request :
     /\ r.readable /\ r.body_ok /\ r.content_type = "Protobuf" /\ r.accept_type = "Protobuf"
     /\ r.opcode \in KeyOpcodes \cup AdminOpcodes \cup {"ListKeys"}
     /\ r.provider \in {"Core", "Tpm"}
     /\ r.opcode \in CoreOpcodes <=> r.provider = "Core"
     /\ r.auth # Missing
     /\ r.auth_type = "UnixPeerCredentials"
     /\ r.opcode # "DeleteClient" => r.client = "app1"}

(* What app1 sends to a service with the direct authenticator. *)
DirectTraffic == {[r EXCEPT !.auth_type = "Direct"] : r \in {q \in WellFormed : q.auth = "app1"}}

(* Without what is written and never read: nothing is read back from disk. *)
View == <<key_store, esapi_context, pc, op, arg, ctx, attr, core_vars, phase, service, who>>

Symmetry == Permutations(Thread)
=============================================================================
