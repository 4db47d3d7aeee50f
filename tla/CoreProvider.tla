---------------------------- MODULE CoreProvider ----------------------------
(***************************************************************************)
(* providers::core: the requests about the service as a whole.  ListKeys,  *)
(* ListClients and DeleteClient go through the providers one after the     *)
(* other; each call of a provider reads or changes the mappings once, and  *)
(* between two calls the requests of other threads change them.            *)
(*                                                                         *)
(* A key triple is <<application, provider, name>>.                        *)
(***************************************************************************)
EXTENDS Sequences, KeyInfoManagerClient

CONSTANTS Thread,
          App,      \* names of applications
          Provider, \* ids of providers
          Errors    \* the calls of a provider may fail

VARIABLES task,     \* the core request that each thread executes, or None
          stable    \* of each thread: the keys of the service's providers that
                    \*   have been there ever since its request began

(* todo: the providers that the loop has not reached; keys: what it has    *)
(* listed and not yet destroyed; skipped: what failed calls may have hidden. *)
Task == [op : {"ListKeys", "ListClients", "DeleteClient"}, app : App, todo : Seq(Provider),
         keys : SUBSET KeyTriple, result : SUBSET (KeyTriple \cup App),
         skipped : SUBSET KeyTriple]

Mapped == {t \in KeyTriple : key_store[t] # None}

(* What a change of the mappings does to the history. *)
UpdateStable == stable' = [p \in Thread |-> {t \in stable[p] : key_store'[t] # None}]

CoreInit ==
  /\ task = [p \in Thread |-> None]
  /\ stable = [p \in Thread |-> {}]

-----------------------------------------------------------------------------
(* Calls of a provider *)

(* KeyInfoManagerClient::list_keys *)
ProviderListKeys(v, app) == {t \in Mapped : t[1] = app /\ t[2] = v}

(* KeyInfoManagerClient::list_clients *)
ProviderListClients(v) == {t[1] : t \in {u \in Mapped : u[2] = v}}

-----------------------------------------------------------------------------
(* The request o of thread p about the keys of app starts; prov_list is    *)
(* the list of the providers.                                              *)
CoreStart(p, o, app, prov_list) ==
  /\ task[p] = None
  /\ task' = [task EXCEPT ![p] = [op |-> o, app |-> app, todo |-> prov_list,
                                  keys |-> {}, result |-> {}, skipped |-> {}]]
  /\ stable' = [stable EXCEPT ![p] =
                   {t \in Mapped : \E i \in DOMAIN prov_list : prov_list[i] = t[2]}]
  /\ UNCHANGED kim

(* The provider that the loop has reached. *)
Current(p) == Head(task[p].todo)

(* What a failed call of provider v may have hidden. *)
KeysOf(v) == {t \in KeyTriple : t[2] = v}

InLoop(p, o) == task[p] # None /\ task[p].op = o /\ task[p].todo # <<>>

(* The request goes on. *)
Proceed(p, todo, keys, result, skipped) ==
  task' = [task EXCEPT ![p] = [op |-> task[p].op, app |-> task[p].app, todo |-> todo,
                               keys |-> keys, result |-> result, skipped |-> skipped]]

(* The loop takes found from a provider and goes on to the next one. *)
Listed(p, found) ==
  Proceed(p, Tail(task[p].todo), {}, task[p].result \cup found, task[p].skipped)

(* "list_keys failed on provider", "list_clients failed": it is skipped. *)
SkipProvider(p) ==
  /\ Errors
  /\ Proceed(p, Tail(task[p].todo), {}, task[p].result,
             task[p].skipped \cup KeysOf(Current(p)))

ListKeys(p) ==
  /\ InLoop(p, "ListKeys")
  /\ Listed(p, ProviderListKeys(Current(p), task[p].app)) \/ SkipProvider(p)
  /\ UNCHANGED <<kim, stable>>

(* Fault: the result of the last provider replaces those of the others. *)
Mut_ListClients(p) ==
  /\ InLoop(p, "ListClients")
  /\ Proceed(p, Tail(task[p].todo), {}, ProviderListClients(Current(p)), task[p].skipped)
  /\ UNCHANGED <<kim, stable>>

ListClients(p) ==
  /\ InLoop(p, "ListClients")
  /\ Listed(p, ProviderListClients(Current(p))) \/ SkipProvider(p)
  /\ UNCHANGED <<kim, stable>>

(* delete_client: the keys of the client in the next provider. *)
DeleteClientList(p) ==
  /\ InLoop(p, "DeleteClient")
  /\ task[p].keys = {}
  /\ LET keys == ProviderListKeys(Current(p), task[p].app)
     IN  \/ keys = {} /\ Listed(p, {})
         \/ keys # {} /\ Proceed(p, task[p].todo, keys, task[p].result, task[p].skipped)
         \/ SkipProvider(p)
  /\ UNCHANGED <<kim, stable>>

(* One key less to destroy; after the last one, the next provider. *)
Destroyed(p, t, failed) ==
  Proceed(p, IF task[p].keys = {t} THEN Tail(task[p].todo) ELSE task[p].todo,
          task[p].keys \ {t}, task[p].result, task[p].skipped \cup failed)

(* Fault: a key that cannot be destroyed ends the request. *)
Mut_DeleteClientDestroy(p, t) ==
  /\ InLoop(p, "DeleteClient")
  /\ t \in task[p].keys
  /\ \/ ~DoesNotExist(t) /\ RemoveKeyInfo(t) /\ Destroyed(p, t, {})
     \/ /\ Errors \/ DoesNotExist(t)
        /\ Proceed(p, <<>>, {}, task[p].result, task[p].skipped)
        /\ UNCHANGED kim
  /\ UpdateStable

(* delete_client: psa_destroy_key of the provider for one of the keys: its *)
(* mapping is removed.  A failure is logged; when it happens before the    *)
(* removal, the key stays.                                                 *)
DeleteClientDestroy(p, t) ==
  /\ InLoop(p, "DeleteClient")
  /\ t \in task[p].keys
  /\ \/ ~DoesNotExist(t) /\ RemoveKeyInfo(t) /\ Destroyed(p, t, {})
     \/ DoesNotExist(t) /\ Destroyed(p, t, {}) /\ UNCHANGED kim
     \/ Errors /\ Destroyed(p, t, {t}) /\ UNCHANGED kim
  /\ UpdateStable

(* The request returns Ok with its result. *)
CoreReturn(p) ==
  /\ task[p] # None
  /\ task[p].todo = <<>>
  /\ task' = [task EXCEPT ![p] = None]
  /\ stable' = [stable EXCEPT ![p] = {}]
  /\ UNCHANGED kim

CoreContinue(p) ==
  \/ ListKeys(p) \/ ListClients(p) \/ DeleteClientList(p)
  \/ \E t \in KeyTriple : DeleteClientDestroy(p, t)
  \/ CoreReturn(p)

-----------------------------------------------------------------------------
Finished(p, o) == task[p] # None /\ task[p].op = o /\ task[p].todo = <<>>

(* When delete_client returns, no key of the client has survived the       *)
(* request in any provider, whatever the client and others did meanwhile,  *)
(* except where a call of a provider failed.                               *)
DeletedClientHasNoKeys ==
  \A p \in Thread : Finished(p, "DeleteClient") =>
    \A t \in stable[p] : t[1] = task[p].app => t \in task[p].skipped

(* What list_keys returns contains the keys of the application that were   *)
(* there all the time, and no key of another application; what             *)
(* list_clients returns contains the clients that had a key all the time.  *)
ListsAreComplete ==
  \A p \in Thread :
    /\ Finished(p, "ListKeys") =>
         /\ \A t \in stable[p] : t[1] = task[p].app => t \in task[p].result \/ t \in task[p].skipped
         /\ \A t \in task[p].result : t[1] = task[p].app
    /\ Finished(p, "ListClients") =>
         \A t \in stable[p] : t[1] \in task[p].result \/ t \in task[p].skipped
=============================================================================
