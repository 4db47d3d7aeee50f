--------------------------- MODULE ServiceBuilder ---------------------------
(***************************************************************************)
(* utils::service_builder and the builder of the core provider: the        *)
(* service that is made of a configuration.  It is immutable once it is    *)
(* built, so these are operators on a configuration.                       *)
(*                                                                         *)
(* Besides what is in the file, a configuration has what comes out of it:  *)
(* auth_built (the authenticator can be created), created for a key info   *)
(* manager and for a provider (its builder returns Ok) and, for a TPM      *)
(* provider, tcti: what its TCTI string leads to.                          *)
(***************************************************************************)
EXTENDS Naturals, Sequences

CONSTANTS Missing,    \* in place of a service that could not be built, of a name
                      \*   that could not be decoded, of an unknown identity
          DeviceType  \* what the device of the CryptoAuthLib provider is

(* Opcode::is_core, Opcode::is_admin (external). *)
InfoOpcodes == {"ListProviders", "ListOpcodes", "Ping", "ListAuthenticators"}

AdminOpcodes == {"ListClients", "DeleteClient"}

CoreOpcodes == InfoOpcodes \cup AdminOpcodes \cup {"ListKeys"}

(* The operations on a key, and those without one. *)
KeyOpcodes == {"PsaGenerateKey", "PsaImportKey", "PsaExportPublicKey", "PsaExportKey",
               "PsaDestroyKey", "PsaSignHash", "PsaVerifyHash", "PsaSignMessage",
               "PsaVerifyMessage", "PsaAsymmetricEncrypt", "PsaAsymmetricDecrypt",
               "PsaAeadEncrypt", "PsaAeadDecrypt", "PsaRawKeyAgreement"}

KeylessOpcodes == {"PsaHashCompute", "PsaHashCompare", "PsaGenerateRandom"}

Opcode == CoreOpcodes \cup KeyOpcodes \cup KeylessOpcodes

(* AuthType of a request; a configuration names one that authenticates. *)
AuthType == {"NoAuth", "Direct", "UnixPeerCredentials", "JwtSvid"}

ProviderId == {"Core", "MbedCrypto", "Pkcs11", "Tpm", "CryptoAuthLib", "TrustedService"}

(* ProviderConfig: only that of the TPM provider has skip_if_no_tpm, and   *)
(* there is none of the core provider.                                     *)
ProviderConfig ==
  {c \in [id : ProviderId \ {"Core"}, key_info_manager : STRING,
          skip_if_no_tpm : BOOLEAN, tcti : {"invalid", "absent", "present"},
          created : BOOLEAN] :
     c.id # "Tpm" => ~c.skip_if_no_tpm}

(* KeyInfoManagerConfig, ServiceConfig *)
KeyInfoManagerConfig == [name : STRING, created : BOOLEAN]

ServiceConfig ==
  [key_manager : SUBSET KeyInfoManagerConfig, provider : Seq(ProviderConfig),
   auth_type : AuthType \ {"NoAuth"}, auth_built : BOOLEAN, admins : SUBSET STRING]

-----------------------------------------------------------------------------
(* service_builder.rs *)

Elements(s) == {s[i] : i \in DOMAIN s}

(* What a loop over s pushes that skips what is not in S. *)
Filtered(s, S) ==
  LET filtered[n \in 0..Len(s)] ==
        IF n = 0 THEN <<>>
        ELSE IF s[n] \in S THEN Append(filtered[n - 1], s[n]) ELSE filtered[n - 1]
  IN  filtered[Len(s)]

(* gey_key_info_manager_builders returns an error: the builder of one of   *)
(* the managers does (the mappings of the on-disk one cannot be read).     *)
KeyInfoManagersFail(config) == \E m \in config.key_manager : ~m.created

(* The names of the managers; one may be used by several providers.        *)
KeyInfoManagerBuilders(config) == {m.name : m \in config.key_manager}

(* Fault: any provider that cannot be created is skipped. *)
Mut_GetProvider(c) == IF c.created THEN "Some" ELSE "None"

(* get_provider: the TCTI string is parsed before the TPM is looked for. *)
GetProvider(c) ==
  IF c.id = "Tpm" /\ c.tcti = "invalid" THEN "Err"
  ELSE IF c.id = "Tpm" /\ c.skip_if_no_tpm /\ c.tcti = "absent" THEN "None"
  ELSE IF c.created THEN "Some" ELSE "Err"

(* build_providers returns an error: a second instance of a provider, an   *)
(* unknown key info manager, or a provider that cannot be created.         *)
ProvidersFail(config) ==
  LET ps == config.provider
  IN  \E i \in DOMAIN ps :
        \/ \E j \in 1..(i - 1) : ps[j].id = ps[i].id /\ GetProvider(ps[j]) = "Some"
        \/ ps[i].key_info_manager \notin KeyInfoManagerBuilders(config)
        \/ GetProvider(ps[i]) = "Err"

(* build_providers, when it returns Ok: those that are not skipped. *)
BuildProviders(config) ==
  LET built == Filtered(config.provider, {c \in ProviderConfig : GetProvider(c) = "Some"})
  IN  [i \in DOMAIN built |-> built[i].id]

(* SUPPORTED_OPCODES of the core provider. *)
CoreSupportedOpcodes == InfoOpcodes \cup {"ListKeys"}

(* set_opcodes of the CryptoAuthLib provider; a device of no known type    *)
(* leaves the set empty, with a warning.                                   *)
CalSupportedOpcodes ==
  IF DeviceType \in {"ATECC508A", "ATECC608A", "ATECC108A"}
  THEN {"PsaGenerateKey", "PsaDestroyKey", "PsaImportKey", "PsaExportPublicKey",
        "PsaExportKey", "PsaSignHash", "PsaVerifyHash", "PsaSignMessage",
        "PsaVerifyMessage"} \cup KeylessOpcodes
  ELSE IF DeviceType \in {"AtcaTestDevSuccess", "AtcaTestDevFail",
                          "AtcaTestDevFailUnimplemented"}
  THEN {"PsaGenerateRandom"}
  ELSE {}

(* SUPPORTED_OPCODES of the other providers. *)
MbedSupportedOpcodes ==
  (KeyOpcodes \ {"PsaSignMessage", "PsaVerifyMessage"}) \cup KeylessOpcodes

TrustedServiceSupportedOpcodes ==
  {"PsaDestroyKey", "PsaGenerateKey", "PsaSignHash", "PsaVerifyHash", "PsaImportKey",
   "PsaExportPublicKey"}

Pkcs11SupportedOpcodes ==
  {"PsaGenerateKey", "PsaDestroyKey", "PsaSignHash", "PsaVerifyHash", "PsaImportKey",
   "PsaExportPublicKey", "PsaAsymmetricDecrypt", "PsaAsymmetricEncrypt"}

TpmSupportedOpcodes ==
  {"PsaGenerateKey", "PsaDestroyKey", "PsaSignHash", "PsaVerifyHash", "PsaImportKey",
   "PsaExportPublicKey", "PsaAsymmetricDecrypt", "PsaAsymmetricEncrypt"}

(* describe *)
Describe(v) == [MbedCrypto     |-> MbedSupportedOpcodes,
                Pkcs11         |-> Pkcs11SupportedOpcodes,
                Tpm            |-> TpmSupportedOpcodes,
                CryptoAuthLib  |-> CalSupportedOpcodes,
                TrustedService |-> TrustedServiceSupportedOpcodes][v]

(* core::ProviderBuilder::build: what ListProviders and ListOpcodes return *)
(* in the service.                                                         *)
CoreProviderInfo(providers) == Append(providers, "Core")

ProviderOpcodes(providers) ==
  [v \in Elements(providers) \cup {"Core"} |->
     IF v = "Core" THEN CoreSupportedOpcodes ELSE Describe(v)]

(* Fault: the core provider gets no back end handler. *)
Mut_BackendHandlers(providers) ==
  [v \in Elements(providers) |->
     [provider_id |-> v, content_type |-> "Protobuf", accept_type |-> "Protobuf"]]

(* build_backend_handlers *)
BackendHandlers(providers) ==
  [v \in Elements(providers) \cup {"Core"} |->
     [provider_id |-> v, content_type |-> "Protobuf", accept_type |-> "Protobuf"]]

(* build_authenticators: the one that the configuration names. *)
BuildAuthenticators(config) ==
  [t \in {config.auth_type} |-> [admins |-> config.admins]]

(* Fault: a service without a provider is built. *)
Mut_BuildService(config) ==
  LET providers == BuildProviders(config)
  IN  IF KeyInfoManagersFail(config) \/ ProvidersFail(config) \/ ~config.auth_built
      THEN Missing
      ELSE [prov_list        |-> providers,
            provider_info    |-> CoreProviderInfo(providers),
            provider_opcodes |-> ProviderOpcodes(providers),
            backends         |-> BackendHandlers(providers),
            authenticators   |-> BuildAuthenticators(config)]

BuildService(config) ==
  LET providers == BuildProviders(config)
  IN  IF \/ KeyInfoManagersFail(config) \/ ProvidersFail(config)
         \/ providers = <<>> \/ ~config.auth_built
      THEN Missing
      ELSE [prov_list        |-> providers,
            provider_info    |-> CoreProviderInfo(providers),
            provider_opcodes |-> ProviderOpcodes(providers),
            backends         |-> BackendHandlers(providers),
            authenticators   |-> BuildAuthenticators(config)]
=============================================================================
