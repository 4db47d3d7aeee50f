# A verification project for the Parsec service

TLA+ modules for the Parsec service (sources under `src/src/`), model-checked
with TLC and, for the properties that matter most, proved with TLAPS for every
value of the constants.

## 1. The system

Parsec gives client applications one API for cryptographic keys held by
different back ends. A request travels

    client -> DomainSocketListener -> thread pool -> FrontEndHandler
           -> Authenticator -> Dispatcher -> BackEndHandler -> Provider
           -> KeyInfoManagerClient -> OnDiskKeyInfoManager

| part | state | operations that change it | interacts with |
|---|---|---|---|
| Main loop (`bin/main.rs`) | signal flags, thread pool, handlers | accept, SIGHUP reload, SIGTERM shutdown | all |
| Service builder, configuration (`utils/`) | none of its own | build at start and reload | all |
| Listener, front end (`front/`) | the socket | accept, handle_request | authenticators, dispatcher |
| Authenticators | none | authenticate (direct, Unix peer, JWT-SVID) | front end |
| Dispatcher, back end handlers (`back/`) | none | dispatch, is_capable, execute | providers |
| Core provider | none | delete_client; listings and ping only read | the other providers |
| Key providers (Mbed Crypto, PKCS 11, TPM, CryptoAuthLib, Trusted Service) | ids or slots in memory, keys in the back end | generate, import, destroy, initialisation | Key Info Manager, back end |
| Key Info Manager | mappings in memory and on disk | insert, remove, initialisation | providers, file system |

The thread pool executes requests concurrently. A provider is shared by all
threads; so is the Key Info Manager, behind one `RwLock`. A key exists twice, as
an object of a back end and as a mapping from its triple (application, provider,
key name), and no lock covers both. That is where the hard behaviour is:

- two requests for the same triple interleave between the check that a name is
  free, the creation of the key and its mapping, or between the reading of an
  id and its use;
- the process is killed between the steps of an operation, and `new` has to
  reconcile mappings, back end and counters afterwards;
- one of several steps fails, or its answer is lost, and the error path has to
  undo the others;
- ids and slots are scarce, and are taken and given back concurrently;
- a signal arrives at any moment of a reload or a shutdown, with jobs queued and
  executing.

`PROJECT.json` lists these hazards one by one, at the lines where they bite.

The system is correct when (a) acknowledged mappings survive restarts, (b) a
request never acts on another triple's key, and only its owner or an admin can
make it act at all, (c) a mapping designates an existing, whole key, (d) a failed
creation leaves its name and its resources free, and (e) no request, signal or
client blocks the others for ever. The runs and theorems below are these five
statements, each at the strength the code supports.

## 2. Modules

| module | models |
|---|---|
| `KeyInfoStore` | the promise of trait `ManageKeyInfo`: a persistent mapping |
| `OnDiskKeyInfoManager` | `key_info_managers/on_disk_manager`, one step per file system call |
| `KeyInfoManagerClient` | `KeyInfoManagerClient`, as the providers use it |
| `MbedCryptoProvider` | `providers/mbed_crypto` |
| `AteccKeySlot`, `CryptoAuthLibProvider` | `providers/cryptoauthlib`: the rules of a slot, and the provider |
| `TrustedServiceProvider` | `providers/trusted_service`, with the remote calls of its `context` |
| `Pkcs11Provider` | `providers/pkcs11` |
| `TpmProvider` | `providers/tpm` |
| `CoreProvider` | `providers/core`: listings and `delete_client` |
| `ServiceBuilder` | `utils/service_builder.rs` and the core provider's builder, as operators |
| `RequestPath` | front end, authenticators, dispatcher, back end handler, as operators |
| `RequestHandling` | the composition of the last five: a service built from a configuration |
| `MainLoop` | `bin/main.rs`, the listener and the thread pool |
| `MC*` | instances for TLC |
| `*_proofs` | the theorems |

In the provider modules each thread executes one request: `pc`, `arg` and `rid` (or
`slot`, `ctx`, `attr`) are its next step, its triple and what it has read or made.
`Begin`, `Goto` and `Return` change only these. An operation is an action that
starts it, named as in the code (`PsaSignHash`), and actions for what it does
afterwards, one for each call after which another thread may run. A request that
an early check refuses changes nothing and is no step. `Mut_X` is a faulty variant
of `X`, there to show that a property can be broken.

**KeyInfoStore.** A modification is announced (`Begin`), then commits or fails.
`doubt` is the set of triples whose mapping may be different after a restart:
the one being modified, and those whose modification failed half-way.

**OnDiskKeyInfoManager.** `key_store` is the HashMap, `files` the mapping files.
A writer holds the lock of the manager during the whole method, so `pc`, `cur`
and `new` describe the one modification under way. `save_mapping` is three steps
(`SaveUnlink`, `SaveCreate`, `SaveWrite`), `delete_mapping` one; each may fail
(`IoError`), and `Crash` may come between any two. `New` refuses to start on a
file that does not deserialize (`Torn`). Triples stand for paths; the base64
encoding of names is left out.

**KeyInfoManagerClient.** One call is one step on `key_store` (what calls read)
and `saved` (what the next start reads back), with the outcomes that
`KeyInfoStore` allows. A start that `OnDiskKeyInfoManager` refuses because of a
torn file becomes here a start without this mapping: the administrator has to
remove the file first.

**MbedCryptoProvider.** `backend` holds the keys of the library.

| action | code |
|---|---|
| `PsaGenerateKey`, `PsaImportKey` | `does_not_exist` |
| `FetchAdd`, `StoreLimit` | `create_key_id`, whose `fetch_add` and `store` are two atomic accesses |
| `Generate`, `Insert`, `Undo` | lock the mutex and create the key; `insert_key_info`; destroy the key again |
| `UseKey`, `Use` | `get_key_id`; the mutex and the library call, in every operation that uses a key |
| `PsaDestroyKey`, `Remove`, `Destroy` | `get_key_id`, `remove_key_info`, mutex and destruction |
| `Crash`, `New`, `NewFails` | the process stops; `Provider::new` succeeds or returns an error |

**CryptoAuthLibProvider.** The same with slots in place of ids. A slot is found
and marked in one step (`FindSuitableSlot`, under the write lock of
`KeySlotStorage`), slots are used again, and the operations that use a key read
its attributes and its slot (`GetKeyId`) in two calls. `KeyAttrVsConfig` of
`AteccKeySlot` decides which slots suit which attributes, for any hardware
configuration. `New` follows the code: `does_not_exist` fails for every stored
triple, so every mapping is removed.

**TrustedServiceProvider.** `ts` holds the keys of the Trusted Service. A call is
`SendRequest` (the mutex is taken and the service executes the call, or it is
lost before) and `ReceiveAnswer` (the answer, or the failure to receive it, and
the release of the mutex). Between the two the service may be killed, and
afterwards the key is there, or gone, without the provider knowing. `New` takes
the mappings as they are.

**Pkcs11Provider.** `token` is the set of objects, each with its id, class, triple
and attributes; a key pair is two of them. No lock is held over the calls of an
operation. `CreateKeyId` draws an id that is not in `local_ids`; the constant
`Collide` says whether it may be that of an object without a mapping, left by a
failed or killed request. `SoftwareOperation` and the steps after it are the
operations with `software_public_operations`, which import the public key into
PSA Crypto (`psa_keys`) and destroy it again. `New` keeps the mappings for which it
finds an object and fills `local_ids`.

**TpmProvider.** The mapping holds the key itself as a context, so there is no
back end to get out of step with. What matters is the lock of the ESAPI context,
which every command takes and `PsaDestroyKey` does not, and the conversions
between PSA attributes and TPM parameters, which are predicates on attributes:
where the code returns an error they are false.

**CoreProvider.** `task` is the request of a thread: the providers still to ask
and what was found so far. Each call of a provider is one step. `stable` is a
history variable: the keys that have been there since the request began.

**ServiceBuilder, RequestPath.** A built service is a record, a configuration and a
request are records, and `HandleRequest(service, r)` is the status of the response, or
`"Execute"`. A configuration also says what comes of it: whether a key info manager,
an authenticator or a provider can be created, and whether the TCTI string of a TPM
provider is invalid or leads to no TPM. `DeviceType` decides the opcodes of the
CryptoAuthLib provider. `RequestHandling` builds a service from any configuration of
a set (`Build`), and its threads execute the requests that get through in the TPM
provider and the core provider. The second provider of this composition only has
keys, made before; its own operations are those of `MbedCryptoProvider`.

**MainLoop.** `main` is the next step of the main thread. A build is a generation,
held by the main thread (`handler`) and by jobs (`gen`). Signals only set flags.
`Accept` takes a connection from the backlog and queues a job, or drops the
connection when its stream cannot be set up, or leaves the backlog as it is when
`accept` itself fails. `StartListener` binds the socket (socket activation is not
modelled). `Exit` is every return of `main`, also those of `?` in a reload. A job
ends when its request has arrived, or with a timeout. What a job does is in the
other modules.

**Assumptions on the clients.** Some properties hold only for clients that take
turns, and it means the same in all provider modules: requests that create or
destroy the same key do not overlap (`Alone`). Requests that use a key overlap with
anything, also with its destruction and with the creation of the next key of that
name. `Turns` is the set of triples whose clients do this, and other triples of the
same runs have clients without any discipline; in `CryptoAuthLibProvider`, where a
slot freed too early harms other keys too, `Exclusive` asks it of all clients.

## 3. Runs

Runs that pass:

| run | checks |
|---|---|
| `ondisk_errors` | `ImplementsKeyInfoStore`: with failing calls and kills, the on-disk manager keeps the promise of `KeyInfoStore`; `TypeOK` |
| `mbed` | for all clients: `UsesOwnKey` (no id that a thread or a mapping holds designates another triple's key), `IdsDistinct`, `DestroyedKeyUnmapped` (a key is out of reach before it is destroyed), `MutexReleased`, `TypeOK`; with turns: `MappedKeysExist`, `FailedCreateFreesName`, and, as long as nothing fails, `NoOrphanKeys` |
| `cal` | with turns: `MappedSlotsOwned`, `NoSlotLeak`, `MappedKeysFit`, `TypeOK` |
| `ts_lost_answers` | as `mbed`, with calls that are lost on either way: `UsesOwnKey`, `IdsDistinct`, `MappedKeysExist`, `NoOrphanKeys`, `TypeOK` |
| `pkcs11` | `FindsOwnKey`, `ValidatedPolicyIsCurrent`, `TypeOK` for all clients; with turns: `MappedKeysWhole`, and, as long as nothing fails, `UsesValidatedObject` (the object that an operation finds has the attributes it validated) and `NothingLeft` |
| `requests` | every configuration: `RequestsDecided` (the four checks on the way admit exactly the requests that the protocol entitles), `ListedProvidersServe`, `SkippedAsIfAbsent` (a TPM provider that is skipped leaves no trace, also not in whether the service is built); every interleaving of two threads: `OnlyOwnersAndAdmins`, `ContextMatchesAttributes`, `DeletedClientHasNoKeys`, `ListsAreComplete` (no key that was there all the time is missed, and keys are shown to their owner only, clients to admins only), `TypeOK` |
| `main_loop` | `NothingInitializedTwice`, `NoJobCutOff`, `ReadyMeansServing`, `TypeOK`, and the liveness properties `HupsTakeEffect`, `TermEndsService`, `JobsEnd` |

Runs that end with a counterexample, where the code does something else than a
comment says (quoted in `PROJECT.json`):

| run | what TLC shows |
|---|---|
| `ondisk_torn_file` | a kill between the creation and the writing of one file makes the next start fail, although the other mappings are intact |
| `mbed_undo` | two overlapping creations of one key: the second maps its key, is told that the name exists, and destroys the key that is now mapped |
| `cal_start` | a restart removes valid mappings |
| `ts_start` | a restart keeps the mapping of a key that is not in the Trusted Service, which it does not ask |
| `tpm_p521` | a key on P-521 can be generated, and its public part not exported: the length of a coordinate is computed as `bits / 8` |

Other observations, without a run of their own:

- An insert over an existing mapping that fails after the old file was removed
  leaves the mapping in memory and not on disk, until the next start.
- A kill between the creation of a key and its mapping makes `id_counter` restart
  below an id that the Mbed Crypto library holds, whereas its comment says that it
  "Holds the highest ID of all keys (including destroyed keys)". `UsesOwnKey`
  holds nevertheless, because the library refuses an id that is in use.
- An import whose public key `raw_key_extract` refuses keeps its ATECC slot busy
  until a restart. `NoSlotLeak` leaves out the slots for public keys for this
  reason (`RefuseData` is the step).
- With `Collide = TRUE`, `FindsOwnKey` does not hold: after a kill between the
  creation of the objects and of the mapping, a later draw of the same 32-bit id
  leads to objects of both keys. The run and the theorems have `Collide = FALSE`.
- An operation of the CryptoAuthLib provider that overlaps with a destruction of its
  key and with new creations may act on a slot that is another key's by then, or with
  attributes that are not those of the slot's key: attributes and slot are read by two
  calls, and slots are used again. No property excludes it.
- Without turns `MappedSlotsOwned` and `NoSlotLeak` do not hold: of two overlapping
  creations of a key the second frees the slot that it has just mapped, and a
  destruction that overlaps with another one and with a creation frees a slot that is
  no longer the key's.
- A TPM provider with `skip_if_no_tpm` and no TPM still fails the start if it names an
  unknown key info manager or follows another TPM provider in the list, because these
  are checked before the TPM is looked for, whereas `config.rs` says "as if this
  provider was commented out". `SkippedAsIfAbsent` names these two cases
  (`RefusedBeforeSkip`) and leaves out no other. An invalid TCTI string fails the
  start as well; that is not an absent TPM.
- The operations of the PKCS 11 provider in software read the attributes before the
  id; `UsesValidatedObject` is about those in the token.
- Keys of a provider that is no longer configured stay in the mappings, and
  neither `ListKeys` nor `DeleteClient` reaches them; `DeletedClientHasNoKeys` is
  about the providers of the service.

**Bounds.** Two triples are enough for one key to be taken for another's, and three
threads (`mbed`, `ts_lost_answers`) for a destruction and a creation to happen
between two steps of a third request. Three ids there let the limit be reached, with
several threads beyond it, and restarts happen with a counter anywhere below it.
`pkcs11` has two threads and two ids, which run out and are met again after a
restart. The chip of `cal` has five slots, one for each way in which attributes,
operation and protection can decide (any key pair; generated ones only; public keys;
public keys, protected; AES). `requests` enumerates, for the operators, all requests
and the configurations of up to two providers (the CryptoAuthLib provider alone;
managers and authenticators that cannot be created with one kind of authenticator)
and, for the interleavings, the requests that reach a provider (`WellFormed`).
`main_loop` has one worker and two connections, so that one waits in the queue, and
two SIGHUPs, so that one arrives during the reload of the other. `MaxVersion` and
`MaxHups` are the only bounds that the code does not have; all other state spaces
are finite as they are. Threads are symmetric, and so are triples and ids where the
clients are alike; symmetry is used for safety only. `VIEW` in `requests` leaves out
`saved`, which nothing reads there, and the response of requests that have returned.

**Fairness.** `MutexReleased` assumes that a thread that is inside a method and can
take a step eventually takes one (`WF` of `Continue` for every thread): threads of
the operating system are scheduled, and library calls return. Waiting for the mutex
is not assumed to end, and neither crashes nor errors are fair. `MainLoop` assumes
the same of the main thread and of the pool, and that a connection with a request or
an expired timeout is finished with (`WF` of `Work(c)`, for every connection):
`set_read_timeout` is called for every accepted stream. Clients and signals are not
fair: a client may never send its request.

**Deadlock** is checked, except in `main_loop`, which ends with the process, in
`requests` and `tpm_p521`, where the start may fail, and in `ts_start`, where the
ids run out.

## 4. Proofs

Assumptions on constants are that ids form a non-empty interval, that there is at
least one slot, that locked slots are slots, that `Turns` is a set of triples, and
that `None`, `NoInfo` and `Torn` are different from proper values. For
`RequestHandling`, `NamesAssumption` says that there are applications, key names and
attributes, that triples belong to applications, and that requests can name keys of
the TPM provider; `InputsAssumption` that configurations and requests have their
types. Sets of threads, triples, attributes, connections, configurations (with lists
of providers of any length) and requests are otherwise arbitrary.

| module | theorems |
|---|---|
| `OnDiskKeyInfoManager_proofs` | `TypeCorrect`, `Refinement`, `DiskAgrees` |
| `MbedCryptoProvider_proofs` | `TypeCorrect`, `OwnKeys`, `DistinctIds`, `DestroyedUnmapped`, `KeysExist`, `NameFreed`, `NoOrphans` |
| `CryptoAuthLibProvider_proofs` | `TypeCorrect`, `KeysFit`; with `Exclusive`: `SlotsOwned`, `SlotsGivenBack` |
| `TrustedServiceProvider_proofs` | `TypeCorrect`, `OwnKeys`, `DistinctIds`, `KeysExist`, `NoOrphans` |
| `Pkcs11Provider_proofs` | `TypeCorrect`, `PolicyCurrent` |
| `Pkcs11Keys_proofs` | with `~Collide`: `KeysWhole`, `OwnObjects`, `NoneLeft`, `ValidatedObject` |
| `RequestHandling_proofs` | `TypeCorrect`, `Decisions`, `ListedServe`, `SkippedAbsent`, `ContextsMatch`, `OwnersOnly`, `Deleted`, `ListsComplete` |
| `MainLoop_proofs` | `TypeCorrect`, `InitializedOnce`, `JobsFinished`, `Serving` |

*On-disk manager.* `Refinement` says that `Spec` implements `KeyInfoStore!Spec`;
`DiskAgrees` that without file system errors memory and disk agree whenever no
modification is under way. `LockInv` ties `pc` to the files: before memory is
updated, the file of `cur` has its new value, and any other file holds what memory
holds, or nothing, or is torn. `DiskInv` adds, without errors, that every file but
that of `cur` agrees with memory. The refinement needs `LockInv` at a restart: what
is read back must be a value that `KeyInfoStore` allows for a triple in doubt.

*Mbed Crypto and Trusted Service providers.* `UsesOwnKey` is not inductive: a
creation could be given an id that some other thread still holds. The invariant
`IdInv` adds that every id in a mapping or held by a thread is at most `id_counter`,
that nobody else holds the id of a key that is not mapped yet, and that threads and
mappings with the same id have the same triple. `DestroyedUnmapped` follows from it:
a mapping with the id that is to be destroyed would be that of the same triple,
whose mapping was removed, and a later creation has another id. `OwnInv` states
`UsesOwnKey` also for the mappings on disk, which the next start reads; in the
Trusted Service provider it also says that a key whose creation was executed and not
yet answered is the caller's. `TurnInv` adds, for `Turns`, that a triple has no
mapping while it is being created or after its mapping was removed, and that
mappings in memory and on disk designate existing keys. `OrphanInv` says that as
long as nothing has failed, every key is mapped or in the hands of a request that
will map or destroy it.

*CryptoAuthLib provider.* `TurnInv` says that the slot of a mapping is busy and
holds its key, and that a slot in the hands of a creation (until it is mapped or
freed) or of a destruction (after its mapping is removed) is busy, and different from
the other such slots and from those of all mappings. `LeakInv` says that a busy
slot is mapped or held by such a request. Requests that use a key appear in neither:
they may hold any slot. `FitInv`, without turns, carries from
`FindSuitableSlot` to the mapping that slot and attributes agree, also by the
stricter or laxer rules (no operation given) with which mappings are revalidated.

*PKCS 11 provider.* `IdInv` as above with `local_ids` in place of the counter.
`PolicyCurrent` follows from it: an id is not drawn again while a request holds it,
so the same id means the same mapping. `MakeInv` and `WholeInv` say which objects
exist at each step of a creation and for each mapping, in memory and on disk;
`TurnInv` that objects are destroyed only without a mapping. `FindInv` is
`FindsOwnKey` for saved mappings as well. For `NoneLeft`, `OnceInv` says that a key
has one object of a class and that the second destruction finds the last one, and
`LeftInv` that every object is mapped or in the hands of a request. `ValidatedObject`
needs both, and `AttrInv` (an object has the attributes of its mapping): when the
attributes are read (`PolicyRead`), an object with the id read before must be that of
the current mapping, as the objects of a former key are gone before the next key is
mapped; later no object with this id is made, as a request holds it.

*Requests: the service.* What a configuration gives is computed by loops over its
providers, and the theorems are about configurations of any length. `Filtered` is
such a loop, as a recursive function on prefixes; what it keeps, in which order, and
what two such loops one after the other keep are shown by `SeqInduction`, an
induction over sequences stated for sets of them (it rests on `Least`: a non-empty
set of numbers has a smallest one). `ProvidersBuilt` and `Built` say what
`BuildService` returns if it succeeds: the providers that are not skipped, each once
and none of them the core provider. `Skipped` compares the two builds entry by
entry: what makes one fail makes the other fail, except where `RefusedBeforeSkip`
says so. `Decided` and `Listed` follow from them by cases over opcodes
and authenticators. `ServiceInv` says that the service of a state was built from a
configuration, and so lifts them to the theorems `Decisions`, `ListedServe` and
`SkippedAbsent`.

*Requests: the TPM provider.* `LockInv` says that the steps under the lock of the
ESAPI context belong to one thread, and that a request between its two reads has the
context of its mapping, or the mapping is gone. It cannot be another one: only a
creation stores a context, and a creation needs the lock. `ContextsMatch` follows.

*Requests: the core provider.* `OwnInv` ties every request under way, in either
provider, to the identity behind it: the triple of a key request and the application
of a listing are the caller's, the caller of a deletion is an admin, and the keys
that a deletion has listed are its client's; a listing of clients is an admin's as
well. Every step that changes a mapping is
then one that `OwnersOnly` allows. `CoreInv` is the invariant of the loops: a key that
has been there since the request began (`stable`) is in a provider still to come, is
among the keys listed and not yet destroyed, is part of the result, or may have been
hidden by a failed call. It needs `stable` to contain only keys that are mapped now,
which is what the steps of the other threads must preserve; when no provider is left,
it is `DeletedClientHasNoKeys` and `ListsAreComplete`. One lemma, `ProviderDone`,
says that going on to the next provider keeps it, and serves all three loops.

*Main loop.* `Sequenced` says that the backlog and the queue hold each connection
once and only those in the corresponding state. `JobInv` says that a job holds the
handler of the main thread, and that there is no job from the join to the end of
the build: a worker could only take one from the queue, and only `Accept` fills it
(`Taken` is what `Accept` does to the connection, whether it is queued or dropped).
`ServeInv` ties the notices to systemd to the steps of the main thread. For the
types, `PoolInv` counts the jobs that execute (a worker takes a job only when fewer
than `Workers` do), `BuildInv` bounds the builds by the SIGHUPs that caused them (a
flag that is set or a reload under way stands for one that was not built yet), and
`VersionInv` says that nothing holds a version of the file that is newer than it.

Only model-checked: the liveness properties (`MutexReleased`,
`HupsTakeEffect`, `TermEndsService`, `JobsEnd`), which rest on fairness and therefore
on `ENABLED`, which the proof system does not handle. Every other property that a
passing run checks is a theorem.

## 5. Not modelled

- *Wire formats and parsing*: requests, configuration file, command line, base64
  file names, protobuf bodies, the templates and results of the tokens. Whether a
  conversion succeeds is modelled where a property depends on it.
- *Operations without shared state*: hash computation, random numbers, ping, and
  the default methods of the provider trait.
- *Set-up of hardware*: access keys written to an ATECC at the start
  (`access_keys.rs`), the context cipher and the authentication of the TPM's owner
  hierarchy, discovery of a PKCS 11 slot.
- *Conversions of library errors* into response statuses, and logging.
- *Socket activation*: the listener's descriptor from systemd.
- *Power failures*: `save_mapping` does not sync, and what a file system keeps
  then is not in the repository. A stop of the process loses nothing written.
- *RPC handles*: a call of the Trusted Service whose buffer is null is not ended;
  what the library does with it is outside the repository.
- *Sessions of PKCS 11*: each request opens its own; a token's limit on them shows
  up as a failing call.
