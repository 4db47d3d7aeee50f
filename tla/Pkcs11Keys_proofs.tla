------------------------- MODULE Pkcs11Keys_proofs --------------------------
(***************************************************************************)
(* Proofs about Pkcs11Provider: the objects of the keys in the token.      *)
(***************************************************************************)
EXTENDS Pkcs11Provider_proofs

(* The token has an object of class c with key id i. *)
Has(i, c) == \E o \in token : o.id = i /\ o.class = c

Whole(i, a) == \A c \in Class : Has(i, c) <=> c \in Parts(a)

(* The objects of a key that a request is making. *)
MakeInv ==
  /\ \A p \in Thread : pc[p] \in {"id", "object"} =>
       cls[p] \in {Class, {"public"}} /\ (cls[p] = Class => ~IsPublicKey(attr[p]))
  /\ \A p \in Thread : pc[p] = "object" => \A c \in Class : ~Has(rid[p], c)
  /\ \A p \in Thread : pc[p] = "insert" => Whole(rid[p], attr[p])

(* For the triples whose clients take turns: the mapping designates a      *)
(* whole key, in memory and on disk.                                       *)
WholeInv ==
  \A t \in Turns : /\ key_store[t] # None => Whole(key_store[t].id, key_store[t].attr)
                   /\ saved[t] # None => Whole(saved[t].id, saved[t].attr)

(* For the same triples: one request at a time creates or destroys the     *)
(* key, and the mapping is absent before the objects are made and          *)
(* destroyed.                                                              *)
TurnInv ==
  /\ \A p, q \in Thread :
       p # q /\ arg[p] \in Turns /\ arg[p] = arg[q] => pc[p] \in Using \/ pc[q] \in Using
  /\ \A p \in Thread :
       /\ arg[p] \in Turns
       /\ pc[p] \in {"id", "undo", "undo_private", "destroy", "destroy_second"} \cup Unmapped
       => key_store[arg[p]] = None
  /\ \A p \in Thread : arg[p] \in Turns /\ pc[p] = "remove" =>
       key_store[arg[p]] # None /\ key_store[arg[p]].id = rid[p]

(* A step of p leaves the local state of the other requests. *)
Others(p) ==
  \A q \in Thread \ {p} : /\ pc'[q] = pc[q] /\ arg'[q] = arg[q] /\ rid'[q] = rid[q]
                          /\ attr'[q] = attr[q] /\ cls'[q] = cls[q]

(* A step that changes no object keeps what the token has. *)
LEMMA SameObjects ==
  ASSUME UNCHANGED token
  PROVE \A i, c, a : (Has(i, c)' <=> Has(i, c)) /\ (Whole(i, a)' <=> Whole(i, a))
<1>1. \A i, c : Has(i, c)' <=> Has(i, c)
  BY DEF Has
<1> QED BY <1>1 DEF Whole

(* A step of p that changes no object, adds no mapping and changes none    *)
(* but that of its triple keeps the invariants if p arrives where they     *)
(* hold.                                                                   *)
LEMMA WholeMove ==
  ASSUME MakeInv, WholeInv, TurnInv, NEW p \in Thread, Others(p), UNCHANGED token,
         \A t \in Turns : /\ key_store'[t] \in {key_store[t], None}
                          /\ saved'[t] \in {saved[t], None}
                          /\ \/ t = arg[p] /\ pc[p] \notin Using
                             \/ key_store'[t] = key_store[t],
         pc'[p] \in {"id", "object"} =>
           cls'[p] \in {Class, {"public"}} /\ (cls'[p] = Class => ~IsPublicKey(attr'[p])),
         pc'[p] = "object" => \A c \in Class : ~Has(rid'[p], c),
         pc'[p] # "insert",
         arg'[p] \in Turns /\ pc'[p] \notin Using =>
           \A q \in Thread \ {p} : arg[q] = arg'[p] => pc[q] \in Using,
         /\ arg'[p] \in Turns
         /\ pc'[p] \in {"id", "undo", "undo_private", "destroy", "destroy_second"} \cup Unmapped
         => key_store'[arg'[p]] = None,
         arg'[p] \in Turns /\ pc'[p] = "remove" =>
           key_store'[arg'[p]] # None /\ key_store'[arg'[p]].id = rid'[p]
  PROVE MakeInv' /\ WholeInv' /\ TurnInv'
<1>1. MakeInv'
  <2>1. \A q \in Thread : pc'[q] \in {"id", "object"} =>
          cls'[q] \in {Class, {"public"}} /\ (cls'[q] = Class => ~IsPublicKey(attr'[q]))
    BY DEF MakeInv, Others
  <2>2. ASSUME NEW q \in Thread, pc'[q] = "object" PROVE \A c \in Class : ~Has(rid[q], c)'
    BY <2>2, SameObjects DEF MakeInv, Others
  <2>3. ASSUME NEW q \in Thread, pc'[q] = "insert" PROVE Whole(rid[q], attr[q])'
    BY <2>3, SameObjects DEF MakeInv, Others
  <2> QED BY <2>1, <2>2, <2>3 DEF MakeInv, IsPublicKey
<1>2. WholeInv'
  BY SameObjects DEF WholeInv
<1>3. TurnInv'
  <2>1. \A q, r \in Thread :
          q # r /\ arg'[q] \in Turns /\ arg'[q] = arg'[r] => pc'[q] \in Using \/ pc'[r] \in Using
    BY DEF TurnInv, Others
  <2>2. ASSUME NEW q \in Thread \ {p}, arg'[q] \in Turns, pc'[q] \notin Using
        PROVE arg'[q] = arg[q] /\ key_store'[arg[q]] = key_store[arg[q]] /\ pc'[q] = pc[q] /\ rid'[q] = rid[q]
    BY <2>2 DEF TurnInv, Others
  <2>3. ({"id", "undo", "undo_private", "destroy", "destroy_second", "remove"} \cup Unmapped)
          \cap Using = {}
    BY DEF Unmapped, Using
  <2> QED BY <2>1, <2>2, <2>3 DEF TurnInv
<1> QED BY <1>1, <1>2, <1>3

(* The destruction of an object of a request's key keeps the invariants,   *)
(* because no mapping has its id.                                          *)
LEMMA WholeDestroy ==
  ASSUME Types, Locals, IdInv, MakeInv, WholeInv, TurnInv, NEW p \in Thread, Others(p),
         pc[p] \in {"undo", "undo_private", "destroy", "destroy_second"},
         token' \subseteq token, \A o \in token \ token' : o.id = rid[p],
         pc'[p] \in {"idle", "undo_private", "destroy_second"},
         arg'[p] \in {arg[p], None},
         UNCHANGED <<key_store, saved>>
  PROVE MakeInv' /\ WholeInv' /\ TurnInv'
<1> USE Zenon, NoneAssumption, TurnsAssumption
<1>1. \A i, c : Has(i, c)' => Has(i, c)
  BY DEF Has
<1>2. \A i, c : i # rid[p] /\ Has(i, c) => Has(i, c)'
  BY DEF Has
<1>3. \A i, a : i # rid[p] /\ Whole(i, a) => Whole(i, a)'
  BY <1>1, <1>2 DEF Whole
<1>4. rid[p] # None /\ arg[p] \in KeyTriple /\ status = "running"
  BY DEF Types, Locals
<1>5. \A t \in Turns : /\ key_store[t] # None => key_store[t].id # rid[p]
                       /\ saved[t] # None => saved[t].id # rid[p]
  BY SMT, <1>4 DEF Types, IdInv, TurnInv
<1>6. \A q \in Thread \ {p} : pc[q] = "insert" => rid[q] # rid[p]
  BY <1>4 DEF IdInv, Unmapped
<1>7. MakeInv'
  <2>1. \A q \in Thread : pc'[q] \in {"id", "object"} =>
          cls'[q] \in {Class, {"public"}} /\ (cls'[q] = Class => ~IsPublicKey(attr'[q]))
    BY DEF MakeInv, Others
  <2>2. \A q \in Thread : pc'[q] = "object" => \A c \in Class : ~Has(rid[q], c)'
    BY <1>1 DEF MakeInv, Others
  <2>3. \A q \in Thread : pc'[q] = "insert" => Whole(rid[q], attr[q])'
    BY SMT, <1>3, <1>6 DEF MakeInv, Others
  <2> QED BY <2>1, <2>2, <2>3 DEF MakeInv, IsPublicKey
<1>8. WholeInv'
  BY <1>3, <1>5 DEF WholeInv
<1>9. TurnInv'
  BY SMT DEF TurnInv, Others, Unmapped, Using
<1> QED BY <1>7, <1>8, <1>9

(* The objects that a request makes give a whole key to its id, and change *)
(* nothing for the other ids.                                              *)
LEMMA MakesWhole ==
  ASSUME Types, Locals, MakeInv, NEW p \in Thread, Makes(p)
  PROVE /\ \A i, c : i # rid[p] => (Has(i, c)' <=> Has(i, c))
        /\ \A i, a : i # rid[p] => (Whole(i, a)' <=> Whole(i, a))
        /\ Whole(rid[p], attr[p])'
<1>1. pc[p] = "object" /\ UNCHANGED <<arg, rid, attr, cls>>
  BY DEF Makes, Goto
<1>2. cls[p] = Parts(attr[p])
  <2>1. CASE cls[p] = Class
    BY <1>1, <2>1 DEF MakeInv, Parts
  <2>2. CASE cls[p] = {"public"} /\ cls[p] # Class
    BY <2>2 DEF Makes, Templates, PublicTemplate, IsPublicKey, Parts
  <2> QED BY <1>1, <2>1, <2>2 DEF MakeInv
<1> DEFINE obj(c) == [id |-> rid[p], class |-> c, triple |-> arg[p], attr |-> attr[p]]
<1>3. \A c \in cls[p] : obj(c).id = rid[p] /\ obj(c).class = c
  OBVIOUS
<1>4. \A o : o \in token' <=> o \in token \/ \E c \in cls[p] : o = obj(c)
  BY DEF Makes, Made
<1> HIDE DEF obj
<1>5. ASSUME NEW i, NEW c, Has(i, c)' PROVE Has(i, c) \/ (i = rid[p] /\ c \in cls[p])
  BY <1>3, <1>4, <1>5 DEF Has
<1>6. ASSUME NEW i, NEW c, Has(i, c) PROVE Has(i, c)'
  BY <1>4, <1>6 DEF Has
<1>7. ASSUME NEW c \in cls[p] PROVE Has(rid[p], c)'
  <2>1. obj(c) \in token'
    BY <1>4
  <2> QED BY <1>1, <1>3, <2>1 DEF Has
<1>8. \A i, c : i # rid[p] => (Has(i, c)' <=> Has(i, c))
  BY <1>5, <1>6
<1>9. \A i, a : i # rid[p] => (Whole(i, a)' <=> Whole(i, a))
  BY <1>8 DEF Whole
<1>10. \A c \in Class : Has(rid[p], c)' <=> c \in Parts(attr[p])
  BY <1>1, <1>2, <1>5, <1>7 DEF MakeInv
<1>11. Whole(rid[p], attr[p])'
  BY <1>1, <1>10 DEF Whole, Parts, IsPublicKey
<1> QED BY <1>8, <1>9, <1>11

(* Every step keeps the invariants: both parts of a key pair are made      *)
(* together and before the mapping, and destroyed after it.                *)
LEMMA WholeStep ==
  ASSUME ~Collide
  PROVE Types /\ Locals /\ IdInv /\ MakeInv /\ WholeInv /\ TurnInv /\ [Next]_vars
          => MakeInv' /\ WholeInv' /\ TurnInv'
<1> SUFFICES ASSUME Types, Locals, IdInv, MakeInv, WholeInv, TurnInv, [Next]_vars
             PROVE MakeInv' /\ WholeInv' /\ TurnInv'
  OBVIOUS
<1> USE Zenon, NoneAssumption, TurnsAssumption DEF kim, local, service
<1>1. ASSUME NEW p \in Thread, NEW t \in KeyTriple, NEW s, NEW a, NEW i, NEW c,
             Begin(p, t, s, a, i, c), s \notin Unmapped \cup {"undo", "undo_private", "destroy", "destroy_second"},
             s = "id" => /\ key_store[t] = None
                         /\ c \in {Class, {"public"}} /\ (c = Class => ~IsPublicKey(a)),
             s = "remove" => key_store[t] # None /\ i = key_store[t].id,
             s \notin Using => Alone(p, t)
      PROVE MakeInv' /\ WholeInv' /\ TurnInv'
  <2>1. /\ Others(p) /\ UNCHANGED <<token, key_store, saved>>
        /\ t \in Turns /\ s \notin Using => \A q \in Thread \ {p} : arg[q] = t => pc[q] \in Using
    BY <1>1 DEF Begin, Others, Types, Alone
  <2>2. pc'[p] = s /\ arg'[p] = t /\ attr'[p] = a /\ rid'[p] = i /\ cls'[p] = c
    BY SMT, <1>1 DEF Begin, Types
  <2> QED BY <1>1, <2>1, <2>2, WholeMove DEF Unmapped
<1>2. ASSUME NEW p \in Thread, NEW t \in KeyTriple, Creates(p, t)
      PROVE MakeInv' /\ WholeInv' /\ TurnInv'
  <2>1. PICK a \in Attr, c \in {Class, {"public"}} :
          (c = Class => ~IsPublicKey(a)) /\ Begin(p, t, "id", a, None, c)
    BY ONLY <1>2 DEF Creates
  <2>2. key_store[t] = None /\ Alone(p, t)
    BY <1>2 DEF Creates, DoesNotExist
  <2> QED BY <1>1, <2>1, <2>2 DEF Unmapped
<1>3. ASSUME NEW p \in Thread, NEW t \in KeyTriple, ReadsId(p, t)
      PROVE MakeInv' /\ WholeInv' /\ TurnInv'
  <2>1. PICK s \in {"attributes", "remove"}, c \in SUBSET Class :
             (s = "remove" => Alone(p, t)) /\ Begin(p, t, s, None, key_store[t].id, c)
    BY ONLY <1>3 DEF ReadsId
  <2>2. key_store[t] # None
    BY <1>3 DEF ReadsId, DoesNotExist
  <2> QED BY <1>1, <2>1, <2>2 DEF Unmapped, Using
<1>4. ASSUME NEW p \in Thread, NEW t \in KeyTriple, ReadsAttributes(p, t)
      PROVE MakeInv' /\ WholeInv' /\ TurnInv'
  <2>1. PICK s \in {"key_id", "export"} : Begin(p, t, s, key_store[t].attr, None, {"public"})
    BY ONLY <1>4 DEF ReadsAttributes
  <2> QED BY <1>1, <2>1 DEF Unmapped, Using
<1>5. ASSUME NEW p \in Thread, NEW i \in Id \ local_ids, Draws(p, i)
      PROVE MakeInv' /\ WholeInv' /\ TurnInv'
  <2>1. \A c \in Class : ~Has(i, c)
    BY <1>5 DEF Draws, FindKey, Has
  <2>2. /\ pc[p] = "id" /\ pc'[p] = "object" /\ arg'[p] = arg[p] /\ rid'[p] = i
        /\ attr'[p] = attr[p] /\ cls'[p] = cls[p]
        /\ Others(p) /\ UNCHANGED <<token, key_store, saved>>
    BY <1>5 DEF Draws, Others, Types
  <2>3. cls[p] \in {Class, {"public"}} /\ (cls[p] = Class => ~IsPublicKey(attr[p]))
    BY <2>2 DEF MakeInv
  <2>4. arg[p] \in Turns => /\ key_store[arg[p]] = None
                            /\ \A q \in Thread \ {p} : arg[q] = arg[p] => pc[q] \in Using
    BY <2>2 DEF TurnInv, Using
  <2> QED BY <2>1, <2>2, <2>3, <2>4, WholeMove
<1>6. ASSUME NEW p \in Thread, Makes(p) PROVE MakeInv' /\ WholeInv' /\ TurnInv'
  <2>1. /\ pc[p] = "object" /\ pc'[p] = "insert" /\ Others(p)
        /\ UNCHANGED <<key_store, saved, arg, rid, attr, cls>>
    BY <1>6 DEF Makes, Goto, Others, Types
  <2>2. rid[p] \in Id /\ arg[p] \in KeyTriple /\ status = "running"
    BY <2>1 DEF Types, Locals
  <2>3. \A t \in Turns : /\ key_store[t] # None => key_store[t].id # rid[p]
                         /\ saved[t] # None => saved[t].id # rid[p]
    BY SMT, <2>1, <2>2 DEF Types, IdInv, Unmapped
  <2>4. \A q \in Thread \ {p} : pc[q] \in Unmapped => rid[q] # rid[p]
    BY <2>1, <2>2 DEF IdInv, Unmapped
  <2>5. MakeInv'
    BY SMT, <1>6, <2>1, <2>4, MakesWhole DEF MakeInv, Others, Unmapped, IsPublicKey
  <2>6. WholeInv'
    BY <1>6, <2>1, <2>3, MakesWhole DEF WholeInv
  <2>7. TurnInv'
    BY SMT, <2>1 DEF TurnInv, Others, Unmapped, Using
  <2> QED BY <2>5, <2>6, <2>7
<1>7. ASSUME NEW p \in Thread, Insert(p) PROVE MakeInv' /\ WholeInv' /\ TurnInv'
  <2>1. /\ pc[p] = "insert" /\ arg[p] \in KeyTriple /\ rid[p] \in Id /\ attr[p] \in Attr
        /\ UNCHANGED token
    BY <1>7 DEF Insert, Types, Locals
  <2>2. Return(p) \/ Goto(p, "undo")
    BY <1>7 DEF Insert
  <2>3. pc'[p] \in {"idle", "undo"} /\ arg'[p] \in {arg[p], None} /\ Others(p)
    BY SMT, <2>2 DEF Return, Goto, Others, Types
  <2>4. arg[p] \in Turns => /\ key_store[arg[p]] = None
                            /\ \A q \in Thread \ {p} : arg[q] = arg[p] => pc[q] \in Using
    BY <2>1 DEF TurnInv, Unmapped, Using
  <2>5. MakeInv'
    BY <2>1, <2>3, SameObjects DEF MakeInv, Others, IsPublicKey
  <2>6. CASE /\ InsertKeyInfo(arg[p], [id |-> rid[p], attr |-> attr[p]])
             /\ arg[p] \in Turns => Return(p)
    <3>1. PICK x \in Info : x.id = rid[p] /\ x.attr = attr[p] /\ InsertKeyInfo(arg[p], x)
      BY SMT, <2>1, <2>6, Fields
    <3>2. \A t \in KeyTriple :
             /\ key_store'[t] = (IF t = arg[p] THEN x ELSE key_store[t])
             /\ saved'[t] = (IF t = arg[p] THEN x ELSE saved[t])
      BY <3>1 DEF InsertKeyInfo, Types
    <3>3. Whole(x.id, x.attr)
      BY <2>1, <3>1 DEF MakeInv
    <3>4. ASSUME NEW t \in Turns
          PROVE /\ key_store'[t] # None => Whole(key_store'[t].id, key_store'[t].attr)
                /\ saved'[t] # None => Whole(saved'[t].id, saved'[t].attr)
      BY <3>2, <3>3 DEF WholeInv
    <3>5. WholeInv'
      BY <2>1, <3>4, SameObjects DEF WholeInv
    <3>6. arg'[p] \notin Turns
      BY <2>3, <2>6 DEF Return, Types
    <3>7. TurnInv'
      BY SMT, <2>1, <2>3, <2>4, <3>2, <3>6 DEF TurnInv, Others, Unmapped, Using
    <3> QED BY <2>5, <3>5, <3>7
  <2>7. CASE InsertFails(arg[p])
    <3>1. key_store' = key_store /\ \A t \in KeyTriple : saved'[t] \in {saved[t], None}
      BY <2>7 DEF InsertFails, Types
    <3> QED BY <2>1, <2>3, <2>4, <3>1, WholeMove
  <2> QED BY <1>7, <2>4, <2>6, <2>7 DEF Insert, DoesNotExist
<1>8. ASSUME NEW p \in Thread, NEW c \in Class, Undoes(p, c) PROVE MakeInv' /\ WholeInv' /\ TurnInv'
  <2>1. token' \subseteq token /\ \A o \in token \ token' : o.id = rid[p]
    <3>1. Made(p, c).id = rid[p]
      BY DEF Made
    <3> QED BY <1>8, <3>1 DEF Undoes
  <2>2. /\ Others(p) /\ arg'[p] \in {arg[p], None} /\ pc'[p] \in {"idle", "undo_private"}
        /\ pc[p] \in {"undo", "undo_private"} /\ UNCHANGED <<key_store, saved>>
    BY SMT, <1>8 DEF Undoes, Goto, Return, Others, Types
  <2> QED BY <2>1, <2>2, WholeDestroy
<1>9. ASSUME NEW p \in Thread, GetsAttributes(p) \/ GetsId(p) \/ MovesKey(p)
      PROVE MakeInv' /\ WholeInv' /\ TurnInv'
  <2>1. /\ Others(p) /\ UNCHANGED <<key_store, saved, token>> /\ arg'[p] = arg[p]
        /\ pc'[p] \in Using
    BY SMT, <1>9 DEF GetsAttributes, GetsId, MovesKey, Moves, Others, Using, Types
  <2>2. pc'[p] \notin {"id", "undo", "undo_private", "destroy", "destroy_second", "remove"} \cup Unmapped
    BY <2>1 DEF Unmapped, Using
  <2> QED BY <2>1, <2>2, WholeMove DEF Unmapped
<1>10. ASSUME NEW p \in Thread, Removes(p) PROVE MakeInv' /\ WholeInv' /\ TurnInv'
  <2>1. \A t \in KeyTriple : /\ key_store'[t] = (IF t = arg[p] THEN None ELSE key_store[t])
                             /\ saved'[t] = (IF t = arg[p] THEN None ELSE saved[t])
    BY <1>10 DEF Removes, RemoveKeyInfo, Types
  <2>2. /\ pc[p] = "remove" /\ pc'[p] = "destroy" /\ arg'[p] = arg[p]
        /\ Others(p) /\ UNCHANGED token
    BY <1>10 DEF Removes, Goto, Others, Types
  <2>3. /\ pc[p] \notin Using
        /\ arg[p] \in Turns => \A q \in Thread \ {p} : arg[q] = arg[p] => pc[q] \in Using
    BY <2>2 DEF TurnInv, Using
  <2> QED BY <2>1, <2>2, <2>3, WholeMove
<1>11. ASSUME NEW p \in Thread, Destroys(p) PROVE MakeInv' /\ WholeInv' /\ TurnInv'
  <2>1. token' \subseteq token /\ \A o \in token \ token' : o.id = rid[p]
    BY <1>11 DEF Destroys, FindKey
  <2>2. /\ Others(p) /\ arg'[p] \in {arg[p], None} /\ pc'[p] \in {"idle", "destroy_second"}
        /\ pc[p] \in {"destroy", "destroy_second"} /\ UNCHANGED <<key_store, saved>>
    BY SMT, <1>11 DEF Destroys, Goto, Return, Others, Types
  <2> QED BY <2>1, <2>2, WholeDestroy
<1>12. ASSUME NEW p \in Thread, Quits(p) PROVE MakeInv' /\ WholeInv' /\ TurnInv'
  <2>1. Others(p) /\ UNCHANGED <<key_store, saved, token>> /\ arg'[p] = None /\ pc'[p] = "idle"
    BY <1>12 DEF Quits, Return, Others, Types
  <2> QED BY <2>1, WholeMove DEF Unmapped
<1>13. CASE Crash \/ New \/ NewFails
  <2>1. \A p \in Thread : arg'[p] = None /\ pc'[p] = "idle"
    BY SMT, <1>13 DEF Crash, New, NewFails, Locals
  <2>2. \A t \in KeyTriple : /\ key_store'[t] \in {saved[t], None}
                             /\ saved'[t] \in {saved[t], key_store'[t], None}
    <3>1. CASE Crash
      BY SMT, <3>1 DEF Crash, StopDuringInsert, NoMappings, Types
    <3>2. CASE New
      BY <3>2 DEF New, ReloadOnly, NoMappings, Types, Locals
    <3>3. CASE NewFails
      BY SMT, <3>3 DEF NewFails, ReloadFails, NoMappings, Types, Locals
    <3> QED BY <1>13, <3>1, <3>2, <3>3
  <2>3. UNCHANGED token
    BY <1>13 DEF Crash, New, NewFails
  <2>4. MakeInv' /\ TurnInv'
    BY SMT, <2>1 DEF MakeInv, TurnInv, Unmapped
  <2>5. WholeInv'
    BY <2>2, <2>3, SameObjects DEF WholeInv
  <2> QED BY <2>4, <2>5
<1>14. CASE UNCHANGED vars
  BY <1>14, SameObjects DEF vars, MakeInv, WholeInv, TurnInv, IsPublicKey
<1> QED
  BY <1>2, <1>3, <1>4, <1>5, <1>6, <1>7, <1>8, <1>9, <1>10, <1>11, <1>12, <1>13, <1>14, NextCases

(* A mapping of clients that take turns designates both parts of a key     *)
(* pair, through errors and restarts, provided that random ids do not meet *)
(* an object that no mapping designates.                                   *)
THEOREM KeysWhole == ASSUME ~Collide PROVE Spec => []MappedKeysWhole
<1>1. Init => MakeInv /\ WholeInv /\ TurnInv
  BY NoneAssumption, TurnsAssumption DEF Init, MakeInv, WholeInv, TurnInv, NoMappings
<1>2. WholeInv => MappedKeysWhole
  <2> SUFFICES ASSUME WholeInv, NEW t \in Turns, key_store[t] # None
               PROVE {o.class : o \in FindKey(key_store[t].id, Class)} = Parts(key_store[t].attr)
    BY DEF MappedKeysWhole
  <2>1. Whole(key_store[t].id, key_store[t].attr)
    BY DEF WholeInv
  <2>2. \A c \in Class : c \in {o.class : o \in FindKey(key_store[t].id, Class)} <=>
          Has(key_store[t].id, c)
    BY DEF FindKey, Has
  <2>3. \A o \in FindKey(key_store[t].id, Class) : o.class \in Class
    BY DEF FindKey
  <2>4. Parts(key_store[t].attr) \subseteq Class
    BY DEF Parts, Class
  <2> QED BY <2>1, <2>2, <2>3, <2>4 DEF Whole
<1> QED
  BY <1>1, <1>2, WholeStep, Invariants, PTL DEF Spec

-----------------------------------------------------------------------------
(* The objects that carry a mapped, a saved or a held key id are objects   *)
(* of its triple.                                                          *)
Owned(i, t) == \A o \in token : o.id = i => o.triple = t

FindInv ==
  /\ \A t \in KeyTriple : key_store[t] # None => Owned(key_store[t].id, t)
  /\ \A t \in KeyTriple : saved[t] # None => Owned(saved[t].id, t)
  /\ \A p \in Thread : rid[p] # None => Owned(rid[p], arg[p])

(* A step that makes no object, and after which a request has no other key *)
(* id than before or that of its mapping.                                  *)
LEMMA FindOther ==
  ASSUME Types, FindInv, NEW p \in Thread,
         token' \subseteq token,
         \/ rid'[p] = None
         \/ rid'[p] = rid[p] /\ arg'[p] = arg[p]
         \/ arg'[p] \in KeyTriple /\ key_store[arg'[p]] # None /\ rid'[p] = key_store[arg'[p]].id,
         \A q \in Thread \ {p} : arg'[q] = arg[q] /\ rid'[q] = rid[q],
         \A t \in KeyTriple : key_store'[t] \in {key_store[t], None},
         \A t \in KeyTriple : saved'[t] \in {saved[t], None}
  PROVE FindInv'
<1> USE NoneAssumption DEF Types, FindInv
<1>1. \A i, t : Owned(i, t) => Owned(i, t)'
  BY DEF Owned
<1>2. rid'[p] # None => Owned(rid'[p], arg'[p])
  OBVIOUS
<1>3. \A q \in Thread : rid'[q] # None => Owned(rid'[q], arg'[q])
  BY <1>2
<1>4. \A q \in Thread : rid'[q] # None => Owned(rid[q], arg[q])'
  BY <1>1, <1>3
<1> QED BY <1>1, <1>4

(* Every step keeps FindInv, when random ids do not meet an object that no *)
(* mapping designates: objects are made with an id that nobody else holds. *)
LEMMA FindStep ==
  ASSUME ~Collide
  PROVE Types /\ Locals /\ IdInv /\ FindInv /\ [Next]_vars => FindInv'
<1> SUFFICES ASSUME Types, Locals, IdInv, FindInv, [Next]_vars PROVE FindInv'
  OBVIOUS
<1> USE Zenon, NoneAssumption DEF Types, Locals, kim, local, service
<1>1. ASSUME NEW p \in Thread, NEW t \in KeyTriple, Creates(p, t) PROVE FindInv'
  <2>1. PICK a \in Attr, c \in {Class, {"public"}} : Begin(p, t, "id", a, None, c)
    BY ONLY <1>1 DEF Creates
  <2> QED BY <2>1, FindOther DEF Begin
<1>2. ASSUME NEW p \in Thread, NEW t \in KeyTriple, ReadsId(p, t) PROVE FindInv'
  <2>1. PICK s \in {"attributes", "remove"}, c \in SUBSET Class :
             Begin(p, t, s, None, key_store[t].id, c)
    BY <1>2 DEF ReadsId
  <2>2. key_store[t] # None
    BY <1>2 DEF ReadsId, DoesNotExist
  <2> QED BY SMT, <2>1, <2>2, FindOther DEF Begin
<1>3. ASSUME NEW p \in Thread, NEW t \in KeyTriple, ReadsAttributes(p, t) PROVE FindInv'
  <2>1. PICK s \in {"key_id", "export"} : Begin(p, t, s, key_store[t].attr, None, {"public"})
    BY <1>3 DEF ReadsAttributes
  <2> QED BY SMT, <2>1, FindOther DEF Begin
<1>4. ASSUME NEW p \in Thread, NEW i \in Id \ local_ids, Draws(p, i) PROVE FindInv'
  <2>1. \A o \in token : o.id # i
    BY SMT, Fields, <1>4 DEF Draws, FindKey
  <2>2. \A j, t : Owned(j, t) => Owned(j, t)'
    BY <1>4 DEF Draws, Owned
  <2>3. \A q \in Thread : rid'[q] # None => Owned(rid[q], arg[q])'
    BY SMT, <1>4, <2>1 DEF Draws, Owned, FindInv
  <2> QED BY <1>4, <2>2, <2>3 DEF Draws, FindInv
<1>5. ASSUME NEW p \in Thread, Makes(p) PROVE FindInv'
  <2>1. /\ pc[p] = "object" /\ status = "running"
        /\ UNCHANGED <<key_store, saved, arg, rid>>
    BY <1>5 DEF Makes, Goto
  <2>2. \A o \in token' \ token : o.id = rid[p] /\ o.triple = arg[p]
    BY SMT, <1>5, <2>1 DEF Makes, Made
  <2>3. \A i, t : Owned(i, t) /\ (i # rid[p] \/ t = arg[p]) => Owned(i, t)'
    BY <2>2 DEF Owned
  <2>4. \A t \in KeyTriple : /\ key_store[t] # None => key_store[t].id # rid[p]
                             /\ saved[t] # None => saved[t].id # rid[p]
    BY SMT, <2>1 DEF IdInv, Unmapped
  <2>5. \A q \in Thread \ {p} : rid[q] # rid[p]
    BY <2>1 DEF IdInv, Unmapped
  <2> QED BY <2>1, <2>3, <2>4, <2>5 DEF FindInv
<1>6. ASSUME NEW p \in Thread, Insert(p) PROVE FindInv'
  <2>1. pc[p] = "insert" /\ UNCHANGED token
    BY <1>6 DEF Insert
  <2>2. \A i, t : Owned(i, t) => Owned(i, t)'
    BY <2>1 DEF Owned
  <2>3. Return(p) \/ Goto(p, "undo")
    BY <1>6 DEF Insert
  <2>4. \A q \in Thread : rid'[q] = None \/ (rid'[q] = rid[q] /\ arg'[q] = arg[q])
    BY SMT, <2>3 DEF Return, Goto
  <2>5. \A q \in Thread : rid'[q] # None => Owned(rid[q], arg[q])'
    BY <2>2, <2>4 DEF FindInv
  <2>6. CASE InsertKeyInfo(arg[p], [id |-> rid[p], attr |-> attr[p]])
    <3>1. PICK x \in Info : x.id = rid[p] /\ InsertKeyInfo(arg[p], x)
      BY SMTT(40), Fields, <2>1, <2>6
    <3>2. \A t \in KeyTriple :
             /\ key_store'[t] = (IF t = arg[p] THEN x ELSE key_store[t])
             /\ saved'[t] = (IF t = arg[p] THEN x ELSE saved[t])
      BY <3>1 DEF InsertKeyInfo
    <3> QED BY SMTT(40), <2>1, <2>2, <2>5, <3>1, <3>2 DEF FindInv
  <2>7. CASE InsertFails(arg[p])
    <3>1. key_store' = key_store /\ \A t \in KeyTriple : saved'[t] \in {saved[t], None}
      BY <2>7 DEF InsertFails
    <3> QED BY <2>2, <2>5, <3>1 DEF FindInv
  <2> QED BY <1>6, <2>6, <2>7 DEF Insert
<1>7. ASSUME NEW p \in Thread, NEW c \in Class, Undoes(p, c) PROVE FindInv'
  <2>1. token' \subseteq token
    BY <1>7 DEF Undoes
  <2> QED BY SMT, <1>7, <2>1, FindOther DEF Undoes, Goto, Return
<1>8. ASSUME NEW p \in Thread, GetsAttributes(p) PROVE FindInv'
  BY <1>8, FindOther DEF GetsAttributes, Moves
<1>9. ASSUME NEW p \in Thread, GetsId(p) PROVE FindInv'
  BY SMT, <1>9, FindOther DEF GetsId, Moves, DoesNotExist
<1>10. ASSUME NEW p \in Thread, MovesKey(p) PROVE FindInv'
  BY <1>10, FindOther DEF MovesKey, Moves
<1>11. ASSUME NEW p \in Thread, Removes(p) PROVE FindInv'
  BY <1>11, FindOther DEF Removes, RemoveKeyInfo, Goto
<1>12. ASSUME NEW p \in Thread, Destroys(p) PROVE FindInv'
  <2>1. token' \subseteq token
    BY <1>12 DEF Destroys
  <2> QED BY <1>12, <2>1, FindOther DEF Destroys, Goto, Return
<1>13. ASSUME NEW p \in Thread, Quits(p) PROVE FindInv'
  BY SMT, <1>13, FindOther DEF Quits, Return
<1>14. CASE Crash
  <2>1. /\ \A t \in KeyTriple : key_store'[t] = None /\ saved'[t] \in {saved[t], None}
        /\ \A p \in Thread : rid'[p] = None
    BY SMT, <1>14 DEF Crash, StopDuringInsert, NoMappings
  <2> QED BY SMT, <1>14, <2>1 DEF Crash, FindInv, Owned
<1>15. CASE New
  BY SMT, <1>15 DEF New, ReloadOnly, FindInv, Owned
<1>16. CASE NewFails
  BY SMTT(40), <1>16 DEF NewFails, ReloadFails, FindInv, Owned
<1>17. CASE UNCHANGED vars
  BY SMT, <1>17 DEF vars, FindInv, Owned
<1> QED
  BY <1>1, <1>2, <1>3, <1>4, <1>5, <1>6, <1>7, <1>8, <1>9, <1>10, <1>11, <1>12,
     <1>13, <1>14, <1>15, <1>16, <1>17, NextCases

(* find_key never returns the object of another triple's key, provided     *)
(* that a random id is not that of an object that no mapping designates.   *)
THEOREM OwnObjects == ASSUME ~Collide PROVE Spec => []FindsOwnKey
<1>1. Init => FindInv
  BY NoneAssumption DEF Init, FindInv, NoMappings
<1>2. FindInv => FindsOwnKey
  BY DEF FindInv, Owned, FindsOwnKey, FindKey
<1> QED
  BY <1>1, <1>2, FindStep, Invariants, PTL DEF Spec

-----------------------------------------------------------------------------
(* An object is that of a mapped key, or in the hands of a request that is *)
(* about to map the key or to destroy the object.                          *)
Mapped(o) == key_store[o.triple] # None /\ key_store[o.triple].id = o.id

InHand(p, o) ==
  arg[p] = o.triple /\ rid[p] = o.id /\ pc[p] \in {"insert", "destroy", "destroy_second"}

Kept(o) == Mapped(o) \/ \E p \in Thread : InHand(p, o)

(* A key has at most one object of a class, and when a request destroys    *)
(* the second one it is the only one that is left.                         *)
OnceInv ==
  /\ \A o, r \in token : o.id = r.id /\ o.class = r.class /\ o.triple \in Turns => o = r
  /\ \A p \in Thread : arg[p] \in Turns /\ pc[p] = "destroy_second" =>
       \A o, r \in token : o.id = rid[p] /\ r.id = rid[p] => o = r

(* As long as nothing has failed, nothing is forgotten. *)
LeftInv ==
  /\ status = "down" => fault = "some"
  /\ fault = "none" => \A o \in token : o.triple \in Turns => Kept(o)
  /\ fault = "none" => \A p \in psa_keys : pc[p] = "software"

(* A step that makes no object keeps OnceInv, unless it goes on to the     *)
(* destruction of the second object.                                       *)
LEMMA OnceOther ==
  ASSUME OnceInv, NEW p \in Thread, token' \subseteq token, pc'[p] # "destroy_second",
         \A q \in Thread \ {p} : pc'[q] = pc[q] /\ arg'[q] = arg[q] /\ rid'[q] = rid[q]
  PROVE OnceInv'
  BY DEF OnceInv

(* Every step keeps OnceInv: objects are made with an id that no object    *)
(* has, and the first destruction leaves at most one of two.               *)
LEMMA OnceStep ==
  ASSUME ~Collide
  PROVE Types /\ Locals /\ IdInv /\ FindInv /\ MakeInv /\ OnceInv /\ [Next]_vars => OnceInv'
<1> SUFFICES ASSUME Types, Locals, IdInv, FindInv, MakeInv, OnceInv, [Next]_vars PROVE OnceInv'
  OBVIOUS
<1> USE Zenon DEF Types, kim, local, service
<1>1. ASSUME NEW p \in Thread, NEW t \in KeyTriple,
             Creates(p, t) \/ ReadsId(p, t) \/ ReadsAttributes(p, t)
      PROVE OnceInv'
  <2>1. PICK s, a, i, c : /\ s \in {"id", "attributes", "remove", "key_id", "export"}
                          /\ Begin(p, t, s, a, i, c)
    BY ONLY <1>1 DEF Creates, ReadsId, ReadsAttributes
  <2> QED BY <2>1, OnceOther DEF Begin
<1>2. ASSUME NEW p \in Thread, NEW i \in Id \ local_ids, Draws(p, i) PROVE OnceInv'
  BY <1>2, OnceOther DEF Draws
<1>3. ASSUME NEW p \in Thread, Makes(p) PROVE OnceInv'
  <2>1. pc[p] = "object" /\ pc' = [pc EXCEPT ![p] = "insert"] /\ UNCHANGED <<arg, rid>>
    BY <1>3 DEF Makes, Goto
  <2>2. /\ \A o \in token' \ token : o.id = rid[p]
        /\ \A o, r \in token' \ token : o.class = r.class => o = r
    BY SMT, <1>3 DEF Makes, Made
  <2>3. \A o \in token : o.id # rid[p]
    <3> SUFFICES ASSUME NEW o \in token, o.id = rid[p] PROVE FALSE
      OBVIOUS
    <3>1. o.class \in Class
      BY Fields
    <3> QED BY <2>1, <3>1 DEF MakeInv, Has
  <2>4. \A q \in Thread : pc'[q] = "destroy_second" => rid[q] # rid[p] /\ pc[q] = "destroy_second"
    BY SMT, <2>1, NoneAssumption DEF IdInv, Unmapped, Locals
  <2> QED BY SMT, <2>1, <2>2, <2>3, <2>4 DEF OnceInv
<1>4. ASSUME NEW p \in Thread, Insert(p) PROVE OnceInv'
  BY SMT, <1>4, OnceOther DEF Insert, Return, Goto
<1>5. ASSUME NEW p \in Thread, NEW c \in Class, Undoes(p, c) PROVE OnceInv'
  <2>1. token' \subseteq token
    BY <1>5 DEF Undoes
  <2> QED BY <1>5, <2>1, OnceOther DEF Undoes, Return, Goto
<1>6. ASSUME NEW p \in Thread, GetsAttributes(p) \/ MovesKey(p) PROVE OnceInv'
  BY <1>6, OnceOther DEF GetsAttributes, MovesKey, Moves
<1>7. ASSUME NEW p \in Thread, GetsId(p) PROVE OnceInv'
  BY <1>7, OnceOther DEF GetsId, Moves
<1>8. ASSUME NEW p \in Thread, Removes(p) PROVE OnceInv'
  BY <1>8, OnceOther DEF Removes, Goto
<1>9. ASSUME NEW p \in Thread, Destroys(p) PROVE OnceInv'
  <2>1. PICK o \in token : o.id = rid[p] /\ token' = token \ {o}
    BY <1>9 DEF Destroys, FindKey
  <2>2. CASE Return(p)
    BY <2>1, <2>2, OnceOther DEF Return
  <2>3. CASE pc[p] = "destroy" /\ Goto(p, "destroy_second")
    <3>1. arg[p] \in KeyTriple /\ rid[p] # None
      BY <2>3, NoneAssumption DEF Locals
    <3>2. \A r \in token : r.id = rid[p] => r.triple = arg[p] /\ r.class \in Class
      BY <3>1, Fields DEF FindInv, Owned
    <3>3. arg[p] \in Turns => \A r, u \in token' : r.id = rid[p] /\ u.id = rid[p] => r = u
      BY SMT, <2>1, <3>2 DEF OnceInv, Class
    <3> QED BY SMT, <2>1, <2>3, <3>3 DEF Goto, OnceInv
  <2> QED BY <1>9, <2>2, <2>3 DEF Destroys
<1>10. ASSUME NEW p \in Thread, Quits(p) PROVE OnceInv'
  BY <1>10, OnceOther DEF Quits, Return
<1>11. CASE Crash
  BY <1>11 DEF Crash, OnceInv
<1>12. CASE New \/ NewFails
  BY SMT, <1>12 DEF New, NewFails, OnceInv
<1>13. CASE UNCHANGED vars
  BY SMT, <1>13 DEF vars, OnceInv
<1> QED
  BY <1>1, <1>2, <1>3, <1>4, <1>5, <1>6, <1>7, <1>8, <1>9, <1>10, <1>11, <1>12, <1>13, NextCases

(* A step that changes no mapping and makes no object keeps LeftInv, if    *)
(* the request had no object in hand, or still has it.                     *)
LEMMA LeftOther ==
  ASSUME Types, LeftInv, NEW p \in Thread,
         token' \subseteq token, UNCHANGED <<key_store, status>>,
         fault' \in {fault, "some"},
         \/ fault' = "some"
         \/ \A o \in token' : ~InHand(p, o) \/ InHand(p, o)',
         \A q \in Thread \ {p} : pc'[q] = pc[q] /\ arg'[q] = arg[q] /\ rid'[q] = rid[q],
         \/ fault' = "some"
         \/ psa_keys' = psa_keys /\ (pc[p] # "software" \/ pc'[p] = "software")
         \/ psa_keys' = psa_keys \cup {p} /\ pc'[p] = "software"
         \/ psa_keys' = psa_keys \ {p}
  PROVE LeftInv'
<1>1. CASE fault' = "some"
  BY <1>1 DEF LeftInv
<1>2. CASE fault' # "some"
  <2>1. fault' = fault /\ \A o \in token' : ~InHand(p, o) \/ InHand(p, o)'
    BY <1>2
  <2>2. \A o \in token' : Kept(o) => Kept(o)'
    BY SMTT(40), <2>1 DEF Kept, Mapped, InHand
  <2>3. fault = "none" => \A q \in psa_keys' : pc'[q] = "software"
    BY <1>2 DEF LeftInv, Types
  <2> QED BY <2>1, <2>2, <2>3 DEF LeftInv
<1> QED BY <1>1, <1>2

(* Every step keeps LeftInv: a request passes the objects on from the      *)
(* token to the mapping, and from the mapping to the destruction.          *)
LEMMA LeftStep ==
  Types /\ Locals /\ FindInv /\ TurnInv /\ OnceInv /\ LeftInv /\ [Next]_vars => LeftInv'
<1> SUFFICES ASSUME Types, Locals, FindInv, TurnInv, OnceInv, LeftInv, [Next]_vars
             PROVE LeftInv'
  OBVIOUS
<1> USE Zenon, NoneAssumption, TurnsAssumption DEF Types, kim, local, service
<1>0. fault' \in {"none", "some"}
  BY TypesStep
<1>1. ASSUME NEW p \in Thread, NEW t \in KeyTriple,
             Creates(p, t) \/ ReadsId(p, t) \/ ReadsAttributes(p, t)
      PROVE LeftInv'
  <2>1. PICK s, a, i, c : /\ s \in {"id", "attributes", "remove", "key_id", "export"}
                          /\ Begin(p, t, s, a, i, c)
    BY ONLY <1>1 DEF Creates, ReadsId, ReadsAttributes
  <2> QED BY <2>1, LeftOther DEF Begin, InHand
<1>2. ASSUME NEW p \in Thread, NEW i \in Id \ local_ids, Draws(p, i) PROVE LeftInv'
  BY <1>2, LeftOther DEF Draws, InHand
<1>3. ASSUME NEW p \in Thread, Makes(p) PROVE LeftInv'
  <2>1. /\ pc[p] = "object" /\ pc' = [pc EXCEPT ![p] = "insert"]
        /\ UNCHANGED <<key_store, status, fault, psa_keys, arg, rid>>
    BY <1>3 DEF Makes, Goto
  <2>2. \A o \in token' \ token : o.id = rid[p] /\ o.triple = arg[p]
    BY SMT, <1>3 DEF Makes, Made
  <2>3. \A o \in token' \ token : InHand(p, o)'
    BY <2>1, <2>2 DEF InHand
  <2>4. \A o \in token : Kept(o) => Kept(o)'
    BY <2>1 DEF Kept, Mapped, InHand
  <2> QED BY <2>1, <2>3, <2>4 DEF LeftInv, Kept
<1>4. ASSUME NEW p \in Thread, Insert(p) PROVE LeftInv'
  <2>1. pc[p] = "insert" /\ arg[p] \in KeyTriple /\ UNCHANGED <<status, token, psa_keys>>
    BY <1>4 DEF Insert, Locals
  <2>2. CASE fault' = "some"
    BY <2>1, <2>2 DEF LeftInv
  <2>3. CASE fault' = "none"
    <3>1. /\ fault = "none" /\ (Return(p) \/ Goto(p, "undo"))
          /\ InsertKeyInfo(arg[p], [id |-> rid[p], attr |-> attr[p]])
      BY <1>4, <2>3 DEF Insert
    <3>2. PICK x : x # None /\ x.id = rid[p] /\ InsertKeyInfo(arg[p], x)
      BY SMT, <2>1, <3>1, Fields DEF Locals
    <3>3. \A q \in Thread \ {p} : pc'[q] = pc[q] /\ arg'[q] = arg[q] /\ rid'[q] = rid[q]
      BY SMT, <3>1 DEF Return, Goto
    <3>4. ASSUME NEW o \in token, o.triple \in Turns PROVE Kept(o)'
      <4>1. CASE InHand(p, o)
        BY <2>1, <3>2, <3>4, <4>1 DEF InsertKeyInfo, InHand, Mapped, Kept
      <4>2. ASSUME NEW q \in Thread \ {p}, InHand(q, o) PROVE Kept(o)'
        BY <3>3, <4>2 DEF InHand, Kept
      <4>3. CASE Mapped(o)
        <5>1. arg[p] # o.triple
          BY SMT, <2>1, <3>4, <4>3 DEF TurnInv, Unmapped, Mapped
        <5> QED BY <3>2, <3>4, <4>3, <5>1 DEF InsertKeyInfo, Mapped, Kept
      <4> QED BY <3>1, <3>4, <4>1, <4>2, <4>3 DEF LeftInv, Kept
    <3>5. \A q \in psa_keys : pc'[q] = "software"
      BY <2>1, <3>1, <3>3 DEF LeftInv
    <3> QED BY <2>1, <3>1, <3>4, <3>5 DEF LeftInv
  <2> QED BY <1>0, <2>2, <2>3
<1>5. ASSUME NEW p \in Thread, NEW c \in Class, Undoes(p, c) PROVE LeftInv'
  <2>1. token' \subseteq token
    BY <1>5 DEF Undoes
  <2>2. /\ pc[p] \in {"undo", "undo_private"} /\ fault' \in {fault, "some"}
        /\ UNCHANGED <<key_store, status, psa_keys>>
        /\ \A q \in Thread \ {p} : pc'[q] = pc[q] /\ arg'[q] = arg[q] /\ rid'[q] = rid[q]
    BY SMTT(40), <1>5 DEF Undoes, Return, Goto
  <2> QED BY <2>1, <2>2, LeftOther DEF InHand
<1>6. ASSUME NEW p \in Thread, GetsAttributes(p) \/ MovesKey(p) PROVE LeftInv'
  BY SMTT(40), <1>6, LeftOther DEF GetsAttributes, MovesKey, Moves, InHand
<1>7. ASSUME NEW p \in Thread, GetsId(p) PROVE LeftInv'
  BY SMT, <1>7, LeftOther DEF GetsId, Moves, InHand
<1>8. ASSUME NEW p \in Thread, Removes(p) PROVE LeftInv'
  <2>1. /\ pc[p] = "remove" /\ pc' = [pc EXCEPT ![p] = "destroy"]
        /\ UNCHANGED <<status, token, psa_keys, fault, arg, rid>>
        /\ key_store' = [key_store EXCEPT ![arg[p]] = None]
    BY <1>8 DEF Removes, RemoveKeyInfo, Goto
  <2>2. ASSUME NEW o \in token, o.triple \in Turns, Kept(o) PROVE Kept(o)'
    <3>1. CASE Mapped(o) /\ arg[p] = o.triple
      BY SMT, <2>1, <2>2, <3>1 DEF TurnInv, Mapped, InHand, Kept
    <3>2. CASE Mapped(o) /\ arg[p] # o.triple
      BY <2>1, <2>2, <3>2 DEF Mapped, Kept
    <3>3. ASSUME NEW q \in Thread, InHand(q, o) PROVE Kept(o)'
      BY <2>1, <3>3 DEF InHand, Kept
    <3> QED BY ZenonT(30), <2>2, <3>1, <3>2, <3>3 DEF Kept
  <2>3. fault = "none" => \A q \in psa_keys : pc'[q] = "software"
    BY <2>1 DEF LeftInv
  <2> QED BY <2>1, <2>2, <2>3 DEF LeftInv
<1>9. ASSUME NEW p \in Thread, Destroys(p) PROVE LeftInv'
  <2>1. PICK o \in token : o.id = rid[p] /\ token' = token \ {o}
    BY <1>9 DEF Destroys, FindKey
  <2>2. /\ pc[p] \in {"destroy", "destroy_second"}
        /\ UNCHANGED <<key_store, status, psa_keys, fault>>
        /\ \A q \in Thread \ {p} : pc'[q] = pc[q] /\ arg'[q] = arg[q] /\ rid'[q] = rid[q]
    BY <1>9 DEF Destroys, Return, Goto
  <2>3. CASE Goto(p, "destroy_second")
    BY <2>1, <2>2, <2>3, LeftOther DEF Goto, InHand
  <2>4. CASE pc[p] = "destroy_second" /\ arg[p] \in Turns
    <3>1. \A r \in token' : ~InHand(p, r)
      BY <2>1, <2>4 DEF OnceInv, InHand
    <3> QED BY <2>1, <2>2, <3>1, LeftOther
  <2>5. CASE arg[p] \notin Turns
    <3>1. \A r \in token : r.triple \in Turns => ~InHand(p, r)
      BY <2>5 DEF InHand
    <3>2. \A r \in token' : r.triple \in Turns /\ Kept(r) => Kept(r)'
      BY SMT, <2>1, <2>2, <3>1 DEF Kept, Mapped, InHand
    <3>3. fault = "none" => \A q \in psa_keys : pc'[q] = "software"
      BY <2>2 DEF LeftInv
    <3> QED BY <2>1, <2>2, <3>2, <3>3 DEF LeftInv
  <2> QED BY <1>9, <2>3, <2>4, <2>5 DEF Destroys
<1>10. ASSUME NEW p \in Thread, Quits(p) PROVE LeftInv'
  <2>1. fault' = "some" \/ \A o \in token' : ~InHand(p, o)
    <3> SUFFICES ASSUME fault' # "some", NEW o \in token, InHand(p, o) PROVE FALSE
      BY <1>10 DEF Quits
    <3>1. FindKey(rid[p], Class) = {}
      BY <1>10 DEF Quits, InHand
    <3>2. o \in FindKey(rid[p], Class)
      BY Fields DEF InHand, FindKey
    <3> QED BY <3>1, <3>2
  <2>2. /\ UNCHANGED <<key_store, status, token>> /\ fault' \in {fault, "some"}
        /\ \A q \in Thread \ {p} : pc'[q] = pc[q] /\ arg'[q] = arg[q] /\ rid'[q] = rid[q]
    BY <1>10 DEF Quits, Return
  <2>3. \/ fault' = "some"
        \/ psa_keys' = psa_keys /\ pc[p] # "software"
        \/ psa_keys' = psa_keys \ {p}
    BY <1>10 DEF Quits
  <2> QED BY <2>1, <2>2, <2>3, LeftOther
<1>11. CASE Crash
  BY <1>11 DEF Crash, LeftInv
<1>12. CASE New \/ NewFails
  BY <1>12 DEF New, NewFails, LeftInv
<1>13. CASE UNCHANGED vars
  BY <1>13 DEF vars, LeftInv, Kept, Mapped, InHand
<1> QED
  BY <1>1, <1>2, <1>3, <1>4, <1>5, <1>6, <1>7, <1>8, <1>9, <1>10, <1>11, <1>12, <1>13, NextCases

(* As long as no call fails and the service is not killed, clients that    *)
(* take turns leave no object in the token without a mapping, and no       *)
(* public key is left in PSA Crypto.                                       *)
THEOREM NoneLeft == ASSUME ~Collide PROVE Spec => []NothingLeft
<1>1. Init => MakeInv /\ WholeInv /\ TurnInv /\ OnceInv /\ LeftInv /\ FindInv
  BY NoneAssumption, TurnsAssumption
  DEF Init, FindInv, MakeInv, WholeInv, TurnInv, OnceInv, LeftInv, NoMappings
<1>2. LeftInv /\ Types => NothingLeft
  BY DEF LeftInv, Types, Kept, Mapped, InHand, NothingLeft, Quiet
<1> QED
  BY <1>1, <1>2, FindStep, WholeStep, OnceStep, LeftStep, Invariants, PTL DEF Spec

-----------------------------------------------------------------------------
(* The objects that carry a mapped or a saved key id, or that of a key     *)
(* about to be mapped, were made with its attributes.                      *)
MadeWith(i, a) == \A o \in token : o.id = i => o.attr = a

AttrInv ==
  /\ \A t \in KeyTriple : key_store[t] # None => MadeWith(key_store[t].id, key_store[t].attr)
  /\ \A t \in KeyTriple : saved[t] # None => MadeWith(saved[t].id, saved[t].attr)
  /\ \A p \in Thread : pc[p] = "insert" => MadeWith(rid[p], attr[p])

(* A step that makes no object and adds no mapping keeps AttrInv.          *)
LEMMA AttrOther ==
  ASSUME AttrInv, NEW p \in Thread, token' \subseteq token, pc'[p] # "insert",
         \A q \in Thread \ {p} : pc'[q] = pc[q] /\ rid'[q] = rid[q] /\ attr'[q] = attr[q],
         \A t \in KeyTriple : key_store'[t] \in {key_store[t], None},
         \A t \in KeyTriple : saved'[t] \in {saved[t], None}
  PROVE AttrInv'
<1>1. \A i, a : MadeWith(i, a) => MadeWith(i, a)'
  BY ONLY token' \subseteq token, Zenon DEF MadeWith
<1>2. \A q \in Thread : pc'[q] = "insert" => MadeWith(rid'[q], attr'[q])
  BY DEF AttrInv
<1>3. \A t \in KeyTriple : /\ key_store'[t] # None => MadeWith(key_store'[t].id, key_store'[t].attr)
                           /\ saved'[t] # None => MadeWith(saved'[t].id, saved'[t].attr)
  BY DEF AttrInv
<1>4. \A q \in Thread : pc'[q] = "insert" => MadeWith(rid[q], attr[q])'
  BY <1>1, <1>2
<1>5. \A t \in KeyTriple : /\ key_store'[t] # None => MadeWith(key_store[t].id, key_store[t].attr)'
                           /\ saved'[t] # None => MadeWith(saved[t].id, saved[t].attr)'
  BY <1>1, <1>3
<1> QED BY <1>4, <1>5 DEF AttrInv

(* Every step keeps AttrInv: objects are made with an id that no mapping   *)
(* has, and are mapped with the attributes they were made with.            *)
LEMMA AttrStep ==
  Types /\ Locals /\ IdInv /\ MakeInv /\ AttrInv /\ [Next]_vars => AttrInv'
<1> SUFFICES ASSUME Types, Locals, IdInv, MakeInv, AttrInv, [Next]_vars PROVE AttrInv'
  OBVIOUS
<1> USE Zenon DEF Types, kim, local, service
<1>1. ASSUME NEW p \in Thread, NEW t \in KeyTriple,
             Creates(p, t) \/ ReadsId(p, t) \/ ReadsAttributes(p, t)
      PROVE AttrInv'
  <2>1. PICK s, a, i, c : /\ s \in {"id", "attributes", "remove", "key_id", "export"}
                          /\ Begin(p, t, s, a, i, c)
    BY ONLY <1>1 DEF Creates, ReadsId, ReadsAttributes
  <2> QED BY <2>1, AttrOther DEF Begin
<1>2. ASSUME NEW p \in Thread, NEW i \in Id \ local_ids, Draws(p, i) PROVE AttrInv'
  BY <1>2, AttrOther DEF Draws
<1>3. ASSUME NEW p \in Thread, Makes(p) PROVE AttrInv'
  <2>1. /\ pc[p] = "object" /\ pc' = [pc EXCEPT ![p] = "insert"] /\ rid[p] # None
        /\ status = "running" /\ UNCHANGED <<key_store, saved, rid, attr>>
    BY <1>3 DEF Makes, Goto, Locals
  <2>2. \A o \in token' \ token : o.id = rid[p] /\ o.attr = attr[p]
    BY SMT, <1>3 DEF Makes, Made
  <2>3. \A o \in token : o.id # rid[p]
    <3> SUFFICES ASSUME NEW o \in token, o.id = rid[p] PROVE FALSE
      OBVIOUS
    <3>1. o.class \in Class
      BY Fields
    <3> QED BY <2>1, <3>1 DEF MakeInv, Has
  <2>4. \A i, a : MadeWith(i, a) /\ i # rid[p] => MadeWith(i, a)'
    BY <2>2 DEF MadeWith
  <2>5. MadeWith(rid[p], attr[p])'
    BY <2>1, <2>2, <2>3 DEF MadeWith
  <2>6. \A t \in KeyTriple : /\ key_store[t] # None => key_store[t].id # rid[p]
                             /\ saved[t] # None => saved[t].id # rid[p]
    BY SMT, <2>1 DEF IdInv, Unmapped
  <2>7. \A q \in Thread \ {p} : rid[q] # rid[p]
    BY <2>1 DEF IdInv, Unmapped
  <2> QED BY <2>1, <2>4, <2>5, <2>6, <2>7 DEF AttrInv
<1>4. ASSUME NEW p \in Thread, Insert(p) PROVE AttrInv'
  <2>1. /\ pc[p] = "insert" /\ rid[p] \in Id /\ attr[p] \in Attr /\ UNCHANGED token
    BY <1>4, NoneAssumption DEF Insert, Locals
  <2>2. Return(p) \/ Goto(p, "undo")
    BY <1>4 DEF Insert
  <2>3. /\ pc'[p] # "insert"
        /\ \A q \in Thread \ {p} : pc'[q] = pc[q] /\ rid'[q] = rid[q] /\ attr'[q] = attr[q]
    BY SMT, <2>2 DEF Return, Goto
  <2>4. CASE InsertKeyInfo(arg[p], [id |-> rid[p], attr |-> attr[p]])
    <3>1. PICK x \in Info : x.id = rid[p] /\ x.attr = attr[p] /\ InsertKeyInfo(arg[p], x)
      BY SMT, <2>1, <2>4, Fields
    <3>2. \A t \in KeyTriple :
             /\ key_store'[t] = (IF t = arg[p] THEN x ELSE key_store[t])
             /\ saved'[t] = (IF t = arg[p] THEN x ELSE saved[t])
      BY <3>1 DEF InsertKeyInfo
    <3>3. MadeWith(x.id, x.attr)
      BY <2>1, <3>1 DEF AttrInv
    <3>4. \A i, a : MadeWith(i, a) => MadeWith(i, a)'
      BY <2>1 DEF MadeWith
    <3>5. \A t \in KeyTriple :
             /\ key_store'[t] # None => MadeWith(key_store[t].id, key_store[t].attr)'
             /\ saved'[t] # None => MadeWith(saved[t].id, saved[t].attr)'
      BY <3>2, <3>3, <3>4 DEF AttrInv
    <3>6. \A q \in Thread : pc'[q] = "insert" => MadeWith(rid[q], attr[q])'
      BY ZenonT(30), <2>3, <3>4 DEF AttrInv
    <3> QED BY <3>5, <3>6 DEF AttrInv
  <2>5. CASE InsertFails(arg[p])
    BY SMT, <2>1, <2>3, <2>5, AttrOther DEF InsertFails
  <2> QED BY <1>4, <2>4, <2>5 DEF Insert
<1>5. ASSUME NEW p \in Thread, NEW c \in Class, Undoes(p, c) PROVE AttrInv'
  <2>1. token' \subseteq token
    BY <1>5 DEF Undoes
  <2> QED BY SMT, <1>5, <2>1, AttrOther DEF Undoes, Return, Goto
<1>6. ASSUME NEW p \in Thread, GetsAttributes(p) \/ GetsId(p) \/ MovesKey(p) PROVE AttrInv'
  BY SMT, <1>6, AttrOther DEF GetsAttributes, GetsId, MovesKey, Moves
<1>7. ASSUME NEW p \in Thread, Removes(p) PROVE AttrInv'
  BY SMT, <1>7, AttrOther DEF Removes, RemoveKeyInfo, Goto
<1>8. ASSUME NEW p \in Thread, Destroys(p) PROVE AttrInv'
  <2>1. token' \subseteq token
    BY <1>8 DEF Destroys
  <2> QED BY SMT, <1>8, <2>1, AttrOther DEF Destroys, Return, Goto
<1>9. ASSUME NEW p \in Thread, Quits(p) PROVE AttrInv'
  <2>1. /\ token' = token /\ key_store' = key_store /\ saved' = saved /\ Return(p)
    BY ONLY <1>9, Zenon DEF Quits
  <2>2. /\ pc'[p] # "insert"
        /\ \A q \in Thread \ {p} : pc'[q] = pc[q] /\ rid'[q] = rid[q] /\ attr'[q] = attr[q]
    BY SMT, <2>1 DEF Return
  <2> QED BY <2>1, <2>2, AttrOther
<1>10. CASE Crash
  <2>1. /\ \A t \in KeyTriple : key_store'[t] = None /\ saved'[t] \in {saved[t], None}
        /\ \A p \in Thread : pc'[p] = "idle"
    BY SMTT(40), <1>10 DEF Crash, StopDuringInsert, NoMappings
  <2>2. token' = token
    BY ONLY <1>10, Zenon DEF Crash
  <2> QED BY ONLY <2>1, <2>2, AttrInv, Zenon DEF AttrInv, MadeWith
<1>11. CASE New
  <2>1. /\ token' = token /\ pc' = pc /\ rid' = rid /\ attr' = attr
        /\ saved' = key_store' /\ \A t \in KeyTriple : key_store'[t] \in {saved[t], None}
    BY ONLY <1>11, Zenon DEF New, ReloadOnly, local
  <2>2. \A i, a : MadeWith(i, a) => MadeWith(i, a)'
    BY ONLY <2>1, Zenon DEF MadeWith
  <2>3. \A t \in KeyTriple : key_store'[t] # None => MadeWith(key_store[t].id, key_store[t].attr)'
    BY ONLY <2>1, <2>2, AttrInv, Zenon DEF AttrInv
  <2> QED BY ONLY <2>1, <2>2, <2>3, AttrInv, Zenon DEF AttrInv
<1>12. CASE NewFails
  <2>1. /\ key_store' = key_store /\ token' = token /\ pc' = pc /\ rid' = rid /\ attr' = attr
        /\ \A t \in KeyTriple : saved'[t] \in {saved[t], None}
    BY ONLY <1>12, Zenon DEF NewFails, ReloadFails, local
  <2> QED BY ONLY <2>1, AttrInv, Zenon DEF AttrInv, MadeWith
<1>13. CASE UNCHANGED vars
  <2>1. /\ key_store' = key_store /\ saved' = saved /\ token' = token
        /\ pc' = pc /\ rid' = rid /\ attr' = attr
    BY ONLY <1>13, Zenon DEF vars, kim, local, service
  <2> QED BY ONLY <2>1, AttrInv, Zenon DEF AttrInv, MadeWith
<1> QED
  BY <1>1, <1>2, <1>3, <1>4, <1>5, <1>6, <1>7, <1>8, <1>9, <1>10, <1>11, <1>12, <1>13, NextCases

(* A step of p to another step than the use of its object, which makes no  *)
(* object with an id that another request holds.                           *)
LEMMA PolicyOther ==
  ASSUME UsesValidatedObject, NEW p \in Thread, Others(p), pc'[p] # "find",
         fault' \in {fault, "some"},
         \A o \in token' : o \in token \/ \A q \in Thread \ {p} : o.id # rid[q]
  PROVE UsesValidatedObject'
<1> SUFFICES ASSUME NEW q \in Thread, pc'[q] = "find", arg'[q] \in Turns, fault' = "none",
                    NEW o \in token', o.id = rid'[q], o.class \in cls'[q]
             PROVE o.attr = attr'[q]
  BY Zenon DEF UsesValidatedObject, FindKey
<1>1. /\ q # p /\ fault = "none" /\ pc[q] = "find" /\ arg[q] \in Turns
      /\ o.id = rid[q] /\ o.class \in cls[q] /\ attr'[q] = attr[q]
  BY Zenon DEF Others
<1>2. o \in FindKey(rid[q], cls[q])
  BY Zenon, <1>1 DEF FindKey
<1> QED BY Zenon, <1>1, <1>2 DEF UsesValidatedObject

(* When the attributes are read, an object with the id that the request    *)
(* has read before is that of the mapped key.                              *)
LEMMA PolicyRead ==
  ASSUME Types, Locals, FindInv, TurnInv, LeftInv, AttrInv, fault = "none",
         NEW p \in Thread, arg[p] \in Turns, rid[p] # None, key_store[arg[p]] # None,
         NEW o \in token, o.id = rid[p]
  PROVE o.attr = key_store[arg[p]].attr
<1> USE Zenon, NoneAssumption, TurnsAssumption
<1>1. arg[p] \in KeyTriple /\ o.triple = arg[p]
  BY DEF FindInv, Owned
<1>2. Kept(o)
  BY <1>1 DEF LeftInv
<1>3. ~\E q \in Thread : InHand(q, o)
  BY <1>1 DEF InHand, TurnInv, Unmapped
<1>4. key_store[arg[p]].id = o.id
  BY <1>1, <1>2, <1>3 DEF Kept, Mapped
<1> QED BY <1>1, <1>4 DEF AttrInv, MadeWith

(* Every step keeps UsesValidatedObject: a key is destroyed with all of    *)
(* its objects before the next one is mapped under its name.               *)
LEMMA PolicyStep ==
  /\ Types /\ Locals /\ IdInv /\ FindInv /\ TurnInv /\ LeftInv /\ AttrInv
  /\ UsesValidatedObject /\ [Next]_vars
  => UsesValidatedObject'
<1> SUFFICES ASSUME Types, Locals, IdInv, FindInv, TurnInv, LeftInv, AttrInv,
                    UsesValidatedObject, [Next]_vars
             PROVE UsesValidatedObject'
  OBVIOUS
<1> USE Zenon DEF Types, kim, local, service
<1>1. ASSUME NEW p \in Thread, NEW t \in KeyTriple,
             Creates(p, t) \/ ReadsId(p, t) \/ ReadsAttributes(p, t)
      PROVE UsesValidatedObject'
  <2>1. PICK s, a, i, c : /\ s \in {"id", "attributes", "remove", "key_id", "export"}
                          /\ Begin(p, t, s, a, i, c)
    BY ONLY <1>1 DEF Creates, ReadsId, ReadsAttributes
  <2> QED BY <2>1, PolicyOther DEF Begin, Others
<1>2. ASSUME NEW p \in Thread, NEW i \in Id \ local_ids, Draws(p, i) PROVE UsesValidatedObject'
  BY <1>2, PolicyOther DEF Draws, Others
<1>3. ASSUME NEW p \in Thread, Makes(p) PROVE UsesValidatedObject'
  <2>1. /\ pc[p] = "object" /\ pc'[p] = "insert" /\ rid[p] # None
        /\ Others(p) /\ UNCHANGED fault
    BY <1>3 DEF Makes, Goto, Locals, Others
  <2>2. \A o \in token' \ token : o.id = rid[p]
    <3>1. token' = token \cup {Made(p, c) : c \in cls[p]}
      BY ONLY <1>3, Zenon DEF Makes
    <3>2. \A c \in cls[p] : Made(p, c).id = rid[p]
      BY ONLY SMT DEF Made
    <3> QED BY ONLY <3>1, <3>2, Zenon
  <2>3. \A q \in Thread \ {p} : rid[q] # rid[p]
    BY <2>1 DEF IdInv, Unmapped
  <2> QED BY <2>1, <2>2, <2>3, PolicyOther
<1>4. ASSUME NEW p \in Thread, Insert(p) PROVE UsesValidatedObject'
  <2>1. Return(p) \/ Goto(p, "undo")
    BY <1>4 DEF Insert
  <2>2. Others(p) /\ pc'[p] # "find"
    BY SMT, <2>1 DEF Return, Goto, Others
  <2>3. fault' \in {fault, "some"} /\ UNCHANGED token
    BY <1>4 DEF Insert
  <2> QED BY <2>2, <2>3, PolicyOther
<1>5. ASSUME NEW p \in Thread, NEW c \in Class, Undoes(p, c) PROVE UsesValidatedObject'
  <2>1. token' \subseteq token /\ fault' \in {fault, "some"}
    BY <1>5 DEF Undoes
  <2>2. Others(p) /\ pc'[p] # "find"
    BY SMT, <1>5 DEF Undoes, Return, Goto, Others
  <2> QED BY <2>1, <2>2, PolicyOther
<1>6. ASSUME NEW p \in Thread, GetsAttributes(p) PROVE UsesValidatedObject'
  <2>1. Others(p) /\ UNCHANGED <<fault, token>>
    BY SMT, <1>6 DEF GetsAttributes, Moves, Others
  <2>2. CASE pc[p] # "attributes"
    <3>1. pc'[p] # "find"
      BY <1>6, <2>2 DEF GetsAttributes, Moves
    <3> QED BY <2>1, <3>1, PolicyOther
  <2>3. CASE pc[p] = "attributes"
    <3>1. /\ key_store[arg[p]] # None /\ rid[p] # None
          /\ attr'[p] = key_store[arg[p]].attr /\ UNCHANGED <<arg, rid, cls>>
      BY <1>6, <2>3, NoneAssumption DEF GetsAttributes, Moves, DoesNotExist, Locals
    <3>2. ASSUME arg[p] \in Turns, fault = "none", NEW o \in token, o.id = rid[p]
          PROVE o.attr = attr'[p]
      BY <3>1, <3>2, PolicyRead
    <3>3. ASSUME NEW q \in Thread, pc'[q] = "find", arg'[q] \in Turns, fault' = "none",
                 NEW o \in token', o.id = rid'[q], o.class \in cls'[q]
          PROVE o.attr = attr'[q]
      <4>1. CASE q = p
        BY <2>1, <3>1, <3>2, <3>3, <4>1
      <4>2. CASE q # p
        BY <2>1, <3>3, <4>2 DEF Others, UsesValidatedObject, FindKey
      <4> QED BY <4>1, <4>2
    <3> QED BY <3>3 DEF UsesValidatedObject, FindKey
  <2> QED BY <2>2, <2>3
<1>7. ASSUME NEW p \in Thread, GetsId(p) \/ MovesKey(p) PROVE UsesValidatedObject'
  <2>1. Others(p) /\ UNCHANGED <<fault, token>> /\ pc'[p] # "find"
    BY SMT, <1>7 DEF GetsId, MovesKey, Moves, Others
  <2> QED BY <2>1, PolicyOther
<1>8. ASSUME NEW p \in Thread, Removes(p) PROVE UsesValidatedObject'
  BY <1>8, PolicyOther DEF Removes, Goto, Others
<1>9. ASSUME NEW p \in Thread, Destroys(p) PROVE UsesValidatedObject'
  <2>1. token' \subseteq token /\ UNCHANGED fault
    BY <1>9 DEF Destroys
  <2>2. Others(p) /\ pc'[p] # "find"
    BY SMT, <1>9 DEF Destroys, Return, Goto, Others
  <2> QED BY <2>1, <2>2, PolicyOther
<1>10. ASSUME NEW p \in Thread, Quits(p) PROVE UsesValidatedObject'
  BY <1>10, PolicyOther DEF Quits, Return, Others
<1>11. CASE Crash
  BY <1>11 DEF Crash, UsesValidatedObject
<1>12. CASE New \/ NewFails
  BY <1>12 DEF New, NewFails, Locals, UsesValidatedObject
<1>13. CASE UNCHANGED vars
  BY <1>13 DEF vars, UsesValidatedObject, FindKey
<1> QED
  BY <1>1, <1>2, <1>3, <1>4, <1>5, <1>6, <1>7, <1>8, <1>9, <1>10, <1>11, <1>12, <1>13, NextCases

(* As long as no call fails and the service is not killed, sign, verify,   *)
(* encrypt and decrypt use an object that was made with the attributes     *)
(* they have validated, whatever was destroyed and created between their   *)
(* two reads, if clients take turns in creating and destroying the key.    *)
THEOREM ValidatedObject == ASSUME ~Collide PROVE Spec => []UsesValidatedObject
<1>1. Init => /\ MakeInv /\ WholeInv /\ TurnInv /\ OnceInv /\ LeftInv /\ FindInv
              /\ AttrInv /\ UsesValidatedObject
  BY NoneAssumption, TurnsAssumption
  DEF Init, FindInv, MakeInv, WholeInv, TurnInv, OnceInv, LeftInv, AttrInv,
      UsesValidatedObject, NoMappings
<1> QED
  BY <1>1, FindStep, WholeStep, OnceStep, LeftStep, AttrStep, PolicyStep, Invariants, PTL DEF Spec
=============================================================================
