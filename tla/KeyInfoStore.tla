---------------------------- MODULE KeyInfoStore ----------------------------
(***************************************************************************)
(* What the Key Info Manager promises to the providers: a persistent       *)
(* mapping from key triples to key information (trait ManageKeyInfo).      *)
(*                                                                         *)
(* A modification is announced (Begin), and then either takes effect       *)
(* (Commit) or is reported as failed (Abort).  A mapping is "in doubt"     *)
(* while a modification of it is under way, and after one has failed       *)
(* half-way.  When the service restarts, a mapping that is not in doubt    *)
(* comes back unchanged; one in doubt comes back as it was, or with the    *)
(* value that was being stored, or not at all.                             *)
(***************************************************************************)

CONSTANTS KeyTriple,  \* (application, provider, key name)
          KeyInfo,    \* what a provider stores for a key
          NoInfo      \* no mapping

VARIABLES mappings,   \* the mapping the providers read
          doubt,      \* triples whose mapping may change at a restart
          pending     \* the modification under way, a set of at most one

vars == <<mappings, doubt, pending>>

Value == KeyInfo \cup {NoInfo}

Modification == [triple : KeyTriple, value : Value]

Init ==
  /\ mappings = [t \in KeyTriple |-> NoInfo]
  /\ doubt = {}
  /\ pending = {}

(* insert (a KeyInfo) or remove (NoInfo) is called for a triple. *)
Begin(m) ==
  /\ pending = {}
  /\ pending' = {m}
  /\ doubt' = doubt \cup {m.triple}
  /\ UNCHANGED mappings

(* The modification is done: its outcome is no longer in doubt. *)
Commit(m) ==
  /\ pending = {m}
  /\ mappings' = [mappings EXCEPT ![m.triple] = m.value]
  /\ doubt' = doubt \ {m.triple}
  /\ pending' = {}

(* The modification failed: the providers keep reading the old mapping. *)
Abort(m) ==
  /\ pending = {m}
  /\ doubt' \in {doubt, doubt \ {m.triple}}
  /\ pending' = {}
  /\ UNCHANGED mappings

AfterRestart(t) ==
  IF t \in doubt
    THEN {mappings[t], NoInfo} \cup {m.value : m \in {n \in pending : n.triple = t}}
    ELSE {mappings[t]}

(* The service stops, at any time, and the mappings are read back. *)
Restart ==
  /\ mappings' \in [KeyTriple -> Value]
  /\ \A t \in KeyTriple : mappings'[t] \in AfterRestart(t)
  /\ doubt' = {}
  /\ pending' = {}

Next ==
  \/ \E m \in Modification : Begin(m) \/ Commit(m) \/ Abort(m)
  \/ Restart

Spec == Init /\ [][Next]_vars
=============================================================================
