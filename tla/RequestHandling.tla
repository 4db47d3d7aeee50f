--------------------------- MODULE RequestHandling ---------------------------
(***************************************************************************)
(* A service that is built from a configuration and whose threads handle   *)
(* requests: the request path composed with the TPM provider and the core  *)
(* provider.  A second provider, MbedCrypto, has keys that were created    *)
(* before; its own operations on keys are in module MbedCryptoProvider,    *)
(* and here they only show up as what the core provider lists and          *)
(* destroys.                                                               *)
(*                                                                         *)
(* A request that is refused on the request path changes nothing, so only  *)
(* those that reach a provider are steps.                                  *)
(***************************************************************************)
EXTENDS TpmProvider, RequestPath

CONSTANTS App,      \* names of applications
          KeyName,  \* names of keys
          Configs,  \* configurations that the service may be started with
          Traffic   \* the requests that are sent to the service

VARIABLES task, stable,  \* of module CoreProvider
          phase,         \* "start", "built", "listening" or "exited"
          service,       \* what build_service has built
          who            \* the identity behind the request of each thread

core_vars == <<task, stable>>

vars == <<tpm_vars, core_vars, phase, service, who>>

Core == INSTANCE CoreProvider WITH Provider <- ProviderId \ {"Core"}

(* All requests. *)
Request ==
  [readable : BOOLEAN, body_ok : BOOLEAN,
   content_type : {"Protobuf", "other"}, accept_type : {"Protobuf", "other"},
   auth_type : AuthType, auth : App \cup {Missing}, peer : App \cup {Missing},
   provider : ProviderId, opcode : Opcode, name : KeyName, client : App]

(* Key triples belong to applications, and requests can name those of the  *)
(* TPM provider.                                                           *)
ASSUME NamesAssumption ==
  /\ App # {} /\ KeyName # {} /\ Attr # {}
  /\ Missing \notin App /\ None \notin Core!Task
  /\ \A t \in KeyTriple : t[1] \in App
  /\ \A app \in App, n \in KeyName : <<app, "Tpm", n>> \in KeyTriple

ASSUME InputsAssumption == Configs \subseteq ServiceConfig /\ Traffic \subseteq Request

(* The identity that the deployment goes by: what the client says in case  *)
(* of the direct authenticator, else what the system vouches for.          *)
Identity(r) == IF r.auth_type = "NoAuth" THEN Missing
               ELSE IF r.auth_type = "Direct" THEN r.auth ELSE r.peer

TypeOK ==
  /\ TpmTypeOK
  /\ phase \in {"start", "built", "listening", "exited"}
  /\ service = Missing <=> phase \in {"start", "exited"}
  /\ phase \in {"built", "listening"} => service.prov_list # <<>>
  /\ who \in [Thread -> App \cup {Missing}]
  /\ task \in [Thread -> Core!Task \cup {None}]
  /\ stable \in [Thread -> SUBSET KeyTriple]
  /\ \A p \in Thread : pc[p] # "idle" => task[p] = None

(* Some keys of the MbedCrypto provider are there from an earlier run.     *)
Init ==
  /\ TpmInit
  /\ Core!CoreInit
  /\ key_store \in {f \in [KeyTriple -> {None, CHOOSE a \in Attr : TRUE}] :
                      \A t \in KeyTriple : f[t] # None => t[2] = "MbedCrypto"}
  /\ saved = key_store
  /\ phase = "start"
  /\ service = Missing
  /\ who = [p \in Thread |-> Missing]

-----------------------------------------------------------------------------
(* main: ServiceBuilder::build_service(&config)? *)
Build ==
  /\ phase = "start"
  /\ \E config \in Configs : service' = BuildService(config)
  /\ phase' = IF service' = Missing THEN "exited" ELSE "built"
  /\ UNCHANGED <<tpm_vars, core_vars, who>>

(* main: start_listener(...)? *)
StartListener ==
  /\ phase = "built"
  /\ \/ phase' = "listening" /\ UNCHANGED service
     \/ phase' = "exited" /\ service' = Missing
  /\ UNCHANGED <<tpm_vars, core_vars, who>>

-----------------------------------------------------------------------------
Idle(p) == pc[p] = "idle" /\ task[p] = None

(* A step of the TPM provider, and the identity that is behind it. *)
TpmStep(p, A) ==
  /\ A
  /\ Core!UpdateStable
  /\ UNCHANGED task

(* A key operation: into_key_triple, and the call of the provider. *)
ExecuteKeyOperation(p, r) ==
  /\ r.provider = "Tpm"
  /\ TpmStep(p, TpmStart(p, r.opcode,
                         <<Authenticate(service, r).name, r.provider, r.name>>))

ExecuteCoreOperation(p, r) ==
  /\ r.opcode \in AdminOpcodes \cup {"ListKeys"}
  /\ Core!CoreStart(p, r.opcode,
                    IF r.opcode = "DeleteClient" THEN r.client
                    ELSE Authenticate(service, r).name, service.prov_list)
  /\ UNCHANGED <<esapi_context, tpm_local>>

(* handle_request, on a thread of the pool. *)
Handle(p, r) ==
  /\ phase = "listening"
  /\ Idle(p)
  /\ HandleRequest(service, r) = "Execute"
  /\ ExecuteKeyOperation(p, r) \/ ExecuteCoreOperation(p, r)
  /\ who' = [who EXCEPT ![p] = Identity(r)]
  /\ UNCHANGED <<phase, service>>

Continue(p) ==
  /\ \/ TpmStep(p, TpmContinue(p))
     \/ Core!CoreContinue(p) /\ UNCHANGED <<esapi_context, tpm_local>>
  /\ who' = [who EXCEPT ![p] = IF (Idle(p))' THEN Missing ELSE @]
  /\ UNCHANGED <<phase, service>>

Next == \/ Build
        \/ StartListener
        \/ \E p \in Thread : (\E r \in Traffic : Handle(p, r)) \/ Continue(p)

Spec == Init /\ [][Next]_vars

-----------------------------------------------------------------------------
Opcodes(v) == IF v = "Core" THEN CoreOpcodes ELSE KeyOpcodes \cup KeylessOpcodes

Admins == UNION {service.authenticators[t].admins : t \in DOMAIN service.authenticators}

(* Request r carries the proof of its identity that the service asks for. *)
Proven(r) ==
  /\ r.auth_type \in DOMAIN service.authenticators
  /\ r.auth # Missing
  /\ Identity(r) # Missing
  /\ r.auth_type = "UnixPeerCredentials" => r.auth = r.peer

(* Whether request r is to be executed, by the rules of the wire protocol. *)
Entitled(r) ==
  /\ r.readable /\ r.body_ok
  /\ r.content_type = "Protobuf" /\ r.accept_type = "Protobuf"
  /\ r.provider \in Elements(service.prov_list) \cup {"Core"}
  /\ r.opcode \in Opcodes(r.provider)
  /\ r.auth_type = "NoAuth" \/ Proven(r)
  /\ r.opcode \in AdminOpcodes => Proven(r) /\ Identity(r) \in Admins
  /\ r.opcode \in KeyOpcodes \cup {"ListKeys"} => Proven(r)

(* In a service built from any configuration, the checks of the front end, *)
(* the authenticator, the dispatcher and the back end handler together let *)
(* exactly those requests through that the protocol entitles; the handler  *)
(* that the dispatcher finds is always the one of the provider asked for,  *)
(* so WrongProviderId is never returned.                                   *)
RequestsDecided ==
  phase = "built" =>
    \A r \in Request : LET status == HandleRequest(service, r)
                       IN  /\ status = "Execute" <=> Entitled(r)
                           /\ status # "WrongProviderId"

(* ListProviders names each provider once, and exactly those for which     *)
(* ListOpcodes has an answer; every opcode in that answer is served: there *)
(* is a request with it that the provider is asked to execute.             *)
ListedProvidersServe ==
  phase = "built" =>
    /\ \A i, j \in DOMAIN service.provider_info :
         service.provider_info[i] = service.provider_info[j] => i = j
    /\ Elements(service.provider_info) = DOMAIN service.provider_opcodes
    /\ \A v \in Elements(service.provider_info) :
         \A o \in service.provider_opcodes[v] :
           \E r \in Request : /\ r.provider = v /\ r.opcode = o
                              /\ HandleRequest(service, r) = "Execute"

(* A TPM provider that is to be left out as there is no TPM. *)
ToSkip(v) == v.id = "Tpm" /\ v.skip_if_no_tpm /\ v.tcti = "absent"

WithoutSkipped(c) ==
  [c EXCEPT !.provider = Filtered(@, {v \in ProviderConfig : ~ToSkip(v)})]

(* One that build_providers refuses before it looks for the TPM: its key   *)
(* info manager is unknown, or it follows another TPM provider.            *)
RefusedBeforeSkip(c) ==
  \E i \in DOMAIN c.provider :
    /\ ToSkip(c.provider[i])
    /\ \/ \A m \in c.key_manager : m.name # c.provider[i].key_info_manager
       \/ \E j \in 1..(i - 1) : c.provider[j].id = "Tpm" /\ ~ToSkip(c.provider[j])

(* "The priority list of providers will be as if this provider was         *)
(* commented out" (config.rs, skip_if_no_tpm): without a TPM the service   *)
(* is built, or not, as from the configuration without the TPM provider,   *)
(* except that what is refused before the skip stays refused; and no other *)
(* failure to create a provider goes unnoticed.                            *)
SkippedAsIfAbsent ==
  phase = "built" =>
    \A c \in Configs :
      /\ BuildService(c) = IF RefusedBeforeSkip(c) THEN Missing
                           ELSE BuildService(WithoutSkipped(c))
      /\ BuildService(c) # Missing =>
           Len(BuildService(c).prov_list) = Len(WithoutSkipped(c).provider)

(* A key is created, replaced or removed only by a request behind which is *)
(* the application that it belongs to, or by an admin's DeleteClient,      *)
(* whatever is in the headers and whatever runs concurrently.              *)
OnlyOwnersAndAdmins ==
  [][\A t \in KeyTriple : key_store'[t] # key_store[t] =>
       \E p \in Thread :
         \/ arg[p] = t /\ who[p] = t[1]
         \/ /\ task[p] # None /\ task[p].op = "DeleteClient" /\ task[p].app = t[1]
            /\ who[p] \in Admins]_vars

(* Of module CoreProvider: no key of a deleted client survives the request *)
(* in any provider of the service, except where a call of a provider       *)
(* failed.                                                                 *)
DeletedClientHasNoKeys == Core!DeletedClientHasNoKeys

(* Of module CoreProvider: ListKeys and ListClients do not miss what was   *)
(* there all the time; and what they show, they show to the owner of the   *)
(* keys, or to an admin, whatever is in the headers of the request.        *)
ListsAreComplete ==
  /\ Core!ListsAreComplete
  /\ \A p \in Thread :
       /\ Core!Finished(p, "ListKeys") => \A t \in task[p].result : t[1] = who[p]
       /\ Core!Finished(p, "ListClients") => who[p] \in Admins
=============================================================================
