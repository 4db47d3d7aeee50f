-------------------------- MODULE MainLoop_proofs --------------------------
(***************************************************************************)
(* The safety properties of the main loop, for any number of connections,  *)
(* workers, SIGHUPs and versions of the configuration file.                *)
(***************************************************************************)
EXTENDS MainLoop, FiniteSetTheorems, TLAPS

(* The part of the type invariant that the proofs rest on. *)
Types ==
  /\ builds \in Nat /\ handler \in Nat
  /\ gen \in [Conn -> Nat]
  /\ conn \in [Conn -> {"new", "backlog", "queued", "active", "answered", "closed"}]
  /\ backlog \in Seq(Conn) /\ queue \in Seq(Conn)

(* The two sequences hold the connections of one state each, once. *)
Holds(s, state) ==
  /\ \A i \in DOMAIN s : conn[s[i]] = state
  /\ \A i, j \in DOMAIN s : s[i] = s[j] => i = j

Sequenced == Holds(backlog, "backlog") /\ Holds(queue, "queued")

(* The first element of a sequence without repetitions is not among the    *)
(* others.                                                                 *)
LEMMA HeadTail ==
  ASSUME NEW S, NEW s \in Seq(S), s # <<>>
  PROVE  /\ Head(s) \in S /\ Head(s) = s[1] /\ 1 \in DOMAIN s
         /\ Tail(s) \in Seq(S)
         /\ \A i \in DOMAIN Tail(s) :
              i \in Nat /\ i + 1 \in DOMAIN s /\ i + 1 # 1 /\ Tail(s)[i] = s[i + 1]
  OBVIOUS

(* What is in a sequence after an element was appended. *)
LEMMA Appended ==
  ASSUME NEW S, NEW s \in Seq(S), NEW e \in S
  PROVE  /\ Append(s, e) \in Seq(S)
         /\ \A i \in DOMAIN Append(s, e) :
              \/ i \in DOMAIN s /\ Append(s, e)[i] = s[i]
              \/ i = Len(s) + 1 /\ Append(s, e)[i] = e
  OBVIOUS

(* What the clients, the signals and the administrator do leaves alone     *)
(* what the main thread and the workers own.                               *)
LEMMA Environment ==
  Sigterm \/ Sighup \/ EditFile \/ (\E c \in Conn : Send(c)) =>
    UNCHANGED <<main, instance, pool, notified>>
  BY DEF Sigterm, Sighup, EditFile, Send

(* The main thread takes a connection out of the backlog. *)
Taken ==
  /\ main = "accept" /\ backlog # <<>>
  /\ backlog' = Tail(backlog)
  /\ \/ /\ conn' = [conn EXCEPT ![Head(backlog)] = "queued"]
        /\ gen' = [gen EXCEPT ![Head(backlog)] = handler]
        /\ queue' = Append(queue, Head(backlog))
     \/ /\ conn' = [conn EXCEPT ![Head(backlog)] = "closed"]
        /\ UNCHANGED <<queue, gen>>

(* The ways in which connections move in a step.  *)
Move ==
  \/ UNCHANGED <<conn, gen, backlog, queue>>
  \/ \E c \in Conn : Connect(c)
  \/ CloseListener /\ UNCHANGED <<queue, gen>>
  \/ Taken
  \/ TakeJob
  \/ \E c \in Conn : \E s \in {"answered", "closed"} : End(c, s)

(* Every step moves connections in one of these ways. *)
LEMMA Moves == [Next]_vars => Move
<1> SUFFICES ASSUME [Next]_vars PROVE Move
  OBVIOUS
<1>1. CASE Sigterm \/ Sighup \/ EditFile \/ (\E c \in Conn : Send(c))
  BY <1>1, Environment DEF Move, pool
<1>2. CASE MainStep
  BY <1>2 DEF MainStep, ReadConfig, BuildService, StartListener, CheckSignals, Join, Drop,
     Accept, Taken, Stop, Exit, Move, pool
<1>3. ASSUME NEW c \in Conn, Work(c) PROVE Move
  BY <1>3 DEF Work, Respond, TimeOut, Move
<1>4. CASE UNCHANGED vars
  BY <1>4 DEF vars, pool, Move
<1> QED BY <1>1, <1>2, <1>3, <1>4 DEF Next, Move

(* The types of the connections. *)
LEMMA TypesStep == Types /\ [Next]_vars => Types'
<1> SUFFICES ASSUME Types, [Next]_vars PROVE Types'
  OBVIOUS
<1> USE DEF Types
<1>1. builds' \in Nat /\ handler' \in Nat
  <2>1. CASE MainStep
    BY <2>1 DEF MainStep, ReadConfig, BuildService, StartListener, CheckSignals, Join, Drop,
       Accept, Stop, Exit, instance
  <2>2. CASE ~MainStep
    <3>1. UNCHANGED <<builds, handler>>
      BY <2>2, Environment DEF Next, Work, Respond, TimeOut, End, TakeJob, Connect, instance, vars
    <3> QED BY <3>1
  <2> QED BY <2>1, <2>2
<1>2. CASE UNCHANGED <<conn, gen, backlog, queue>>
  BY <1>1, <1>2
<1>3. ASSUME NEW c \in Conn, Connect(c) PROVE Types'
  BY <1>1, <1>3, Appended DEF Connect
<1>4. CASE CloseListener /\ UNCHANGED <<queue, gen>>
  BY <1>1, <1>4 DEF CloseListener
<1>5. CASE Taken
  <2>1. Head(backlog) \in Conn /\ Tail(backlog) \in Seq(Conn)
    BY <1>5, HeadTail DEF Taken
  <2>2. Append(queue, Head(backlog)) \in Seq(Conn)
    BY <2>1, Appended
  <2> QED BY Zenon, <1>1, <1>5, <2>1, <2>2 DEF Taken
<1>6. CASE TakeJob
  <2>1. Head(queue) \in Conn /\ Tail(queue) \in Seq(Conn)
    BY <1>6, HeadTail DEF TakeJob
  <2> QED BY <1>1, <1>6, <2>1 DEF TakeJob
<1>7. ASSUME NEW c \in Conn, NEW s \in {"answered", "closed"}, End(c, s) PROVE Types'
  BY <1>1, <1>7 DEF End
<1> QED BY <1>2, <1>3, <1>4, <1>5, <1>6, <1>7, Moves DEF Move

(* A connection is in the backlog, or in the queue, exactly once, and only *)
(* the main thread and the workers take it out.                            *)
LEMMA SequencedStep == Types /\ Sequenced /\ [Next]_vars => Sequenced'
<1> SUFFICES ASSUME Types, Sequenced, [Next]_vars PROVE Sequenced'
  OBVIOUS
<1> USE DEF Types, Sequenced, Holds
<1>2. CASE UNCHANGED <<conn, gen, backlog, queue>>
  BY <1>2
<1>3. ASSUME NEW c \in Conn, Connect(c) PROVE Sequenced'
  <2>1. \A i \in DOMAIN backlog' :
          \/ i \in DOMAIN backlog /\ backlog'[i] = backlog[i]
          \/ i = Len(backlog) + 1 /\ backlog'[i] = c
    BY <1>3, Appended DEF Connect
  <2>2. conn[c] = "new" /\ conn' = [conn EXCEPT ![c] = "backlog"] /\ queue' = queue
    BY <1>3 DEF Connect
  <2> QED BY SMTT(40), <2>1, <2>2
<1>4. CASE CloseListener /\ UNCHANGED <<queue, gen>>
  BY <1>4 DEF CloseListener
<1>5. CASE Taken
  <2> DEFINE c == Head(backlog)
  <2>0. backlog' = Tail(backlog)
    BY Zenon, <1>5 DEF Taken
  <2>1. /\ c \in Conn /\ c = backlog[1] /\ 1 \in DOMAIN backlog
        /\ \A i \in DOMAIN backlog' :
             i \in Nat /\ i + 1 \in DOMAIN backlog /\ i + 1 # 1 /\ backlog'[i] = backlog[i + 1]
    BY <1>5, <2>0, HeadTail DEF Taken
  <2>2. PICK s : conn' = [conn EXCEPT ![c] = s] /\ s \in {"queued", "closed"}
    BY Zenon, <1>5 DEF Taken
  <2>3. conn[c] = "backlog"
    BY <2>1
  <2>4. Holds(backlog, "backlog")'
    BY <2>1, <2>2, <2>3
  <2>5. queue' = queue \/ (queue' = Append(queue, c) /\ conn' = [conn EXCEPT ![c] = "queued"])
    BY <1>5 DEF Taken
  <2>6. CASE queue' = queue
    BY <2>1, <2>2, <2>3, <2>4, <2>6
  <2>7. CASE queue' = Append(queue, c) /\ conn' = [conn EXCEPT ![c] = "queued"]
    <3>1. \A i \in DOMAIN queue' :
            \/ i \in DOMAIN queue /\ queue'[i] = queue[i]
            \/ i = Len(queue) + 1 /\ queue'[i] = c
      BY <2>1, <2>7, Appended
    <3> QED BY SMTT(40), <2>1, <2>3, <2>4, <2>7, <3>1
  <2> QED BY <2>5, <2>6, <2>7
<1>6. CASE TakeJob
  <2> DEFINE c == Head(queue)
  <2>1. /\ c \in Conn /\ c = queue[1] /\ 1 \in DOMAIN queue
        /\ \A i \in DOMAIN queue' :
             i \in Nat /\ i + 1 \in DOMAIN queue /\ i + 1 # 1 /\ queue'[i] = queue[i + 1]
    BY <1>6, HeadTail DEF TakeJob
  <2>2. conn' = [conn EXCEPT ![c] = "active"] /\ backlog' = backlog /\ conn[c] = "queued"
    BY <1>6, <2>1 DEF TakeJob
  <2> QED BY <2>1, <2>2
<1>7. ASSUME NEW c \in Conn, NEW s \in {"answered", "closed"}, End(c, s) PROVE Sequenced'
  BY <1>7 DEF End
<1> QED BY <1>2, <1>3, <1>4, <1>5, <1>6, <1>7, Moves DEF Move

-----------------------------------------------------------------------------
(* A job holds the handler of the main thread, and nobody holds another    *)
(* one; while the service is torn down or built, there is no job.          *)
JobInv ==
  /\ \A c \in Conn : gen[c] = IF conn[c] \in {"queued", "active"} THEN handler ELSE 0
  /\ main \in {"read", "build", "listen", "drop", "exited"} => PoolIdle
  /\ main \in {"read", "build"} => handler = 0

(* Every step keeps JobInv: a worker finds no job in a pool that was       *)
(* joined, because only Accept adds jobs.                                  *)
LEMMA JobStep == Types /\ Sequenced /\ JobInv /\ [Next]_vars => JobInv'
<1> SUFFICES ASSUME Types, Sequenced, JobInv, [Next]_vars PROVE JobInv'
  OBVIOUS
<1> USE DEF Types, JobInv, PoolIdle
<1>1. CASE Sigterm \/ Sighup \/ EditFile \/ (\E c \in Conn : Send(c))
  BY <1>1, Environment DEF pool, instance
<1>2. ASSUME NEW c \in Conn, Connect(c) PROVE JobInv'
  BY <1>2 DEF Connect, instance
<1>3. ASSUME PoolIdle, CloseListener, handler' = 0, gen' = gen PROVE JobInv'
  BY <1>3 DEF CloseListener
<1>4. CASE ReadConfig
  BY <1>3, <1>4 DEF ReadConfig, Exit, pool
<1>5. CASE BuildService
  BY <1>3, <1>5 DEF BuildService, Exit, pool
<1>6. CASE StartListener
  BY <1>3, <1>6 DEF StartListener, Exit, pool
<1>7. CASE CheckSignals
  BY <1>7 DEF CheckSignals, instance, pool
<1>8. CASE Join
  BY <1>8 DEF Join, instance, pool
<1>9. CASE Drop
  BY <1>3, <1>9 DEF Drop
<1>10. CASE Accept
  <2>1. main' = "loop" /\ handler' = handler
    BY <1>10 DEF Accept, instance
  <2>2. CASE UNCHANGED pool
    BY <1>10, <2>1, <2>2 DEF Accept, pool
  <2>3. CASE Taken
    <3>1. Head(backlog) \in Conn /\ conn[Head(backlog)] = "backlog"
      BY <2>3, HeadTail DEF Taken, Sequenced, Holds
    <3> QED BY <2>1, <2>3, <3>1 DEF Taken
  <2> QED BY <1>10, <2>2, <2>3 DEF Accept, Taken
<1>11. CASE Stop
  BY <1>3, <1>11 DEF Stop, Exit
<1>12. CASE TakeJob
  <2>1. Head(queue) \in Conn /\ conn[Head(queue)] = "queued"
    BY <1>12, HeadTail DEF TakeJob, Sequenced, Holds
  <2> QED BY <1>12, <2>1 DEF TakeJob, instance
<1>13. ASSUME NEW c \in Conn, Work(c) PROVE JobInv'
  BY Zenon, <1>13 DEF Work, Respond, TimeOut, End, instance
<1>14. CASE UNCHANGED vars
  BY <1>14 DEF vars, pool, instance
<1> QED BY <1>1, <1>2, <1>4, <1>5, <1>6, <1>7, <1>8, <1>9, <1>10, <1>11, <1>12, <1>13, <1>14
        DEF Next, MainStep

(* The three invariants together. *)
LEMMA Invariants == FairSpec => [](Types /\ Sequenced /\ JobInv)
<1>1. Init => Types /\ Sequenced /\ JobInv
  BY DEF Init, Types, Sequenced, Holds, JobInv, PoolIdle
<1> QED
  BY <1>1, TypesStep, SequencedStep, JobStep, PTL DEF FairSpec

(* While the service is built anew, no provider of an earlier generation   *)
(* exists, and at no time do providers of two generations: the joins and   *)
(* drops of main.rs come early enough.                                     *)
THEOREM InitializedOnce == FairSpec => []NothingInitializedTwice
<1>1. Types /\ JobInv => NothingInitializedTwice
  <2> SUFFICES ASSUME Types, JobInv PROVE NothingInitializedTwice
    OBVIOUS
  <2>1. Alive \subseteq {handler}
    BY DEF Alive, JobInv, Types
  <2>2. main = "build" => Alive = {}
    BY DEF Alive, JobInv, PoolIdle, Types
  <2>3. Cardinality(Alive) <= Cardinality({handler})
    BY Zenon, <2>1, FS_Subset, FS_Singleton
  <2>4. Cardinality({handler}) = 1
    BY FS_Singleton
  <2> QED BY <2>2, <2>3, <2>4 DEF NothingInitializedTwice
<1> QED
  BY <1>1, Invariants, PTL

(* main never returns with a connection that it has accepted and not       *)
(* finished with, whichever of its early returns it takes.                 *)
THEOREM JobsFinished == FairSpec => []NoJobCutOff
<1>1. JobInv => NoJobCutOff
  BY DEF JobInv, NoJobCutOff
<1> QED
  BY <1>1, Invariants, PTL

-----------------------------------------------------------------------------
(* Between the notices Ready and Reloading or Stopping, the main thread is *)
(* in its loop, with a handler and a socket.                               *)
ServeInv ==
  /\ notified = "Ready" => main \in {"loop", "accept", "exited"}
  /\ main \in {"listen", "loop", "accept"} => handler # 0
  /\ main \in {"loop", "accept"} => listener

(* Every step keeps ServeInv. *)
LEMMA ServeStep == Types /\ ServeInv /\ [Next]_vars => ServeInv'
<1> SUFFICES ASSUME Types, ServeInv, [Next]_vars PROVE ServeInv'
  OBVIOUS
<1> USE DEF ServeInv
<1>1. CASE UNCHANGED <<main, instance, notified>>
  BY <1>1, Zenon DEF instance
<1>2. CASE ReadConfig
  BY <1>2, Zenon DEF ReadConfig, Exit
<1>3. CASE BuildService
  <2>1. CASE Exit
    BY <2>1, Zenon DEF Exit
  <2>2. CASE ~Exit
    <3>1. /\ main' = "listen" /\ notified' = notified
          /\ handler' = builds + 1 /\ main = "build"
      BY <1>3, <2>2, Zenon DEF BuildService
    <3>2. handler' # 0
      BY <3>1 DEF Types
    <3> QED BY <3>1, <3>2, Zenon
  <2> QED BY <2>1, <2>2
<1>4. CASE StartListener
  BY <1>4, Zenon DEF StartListener, Exit
<1>5. CASE CheckSignals
  BY <1>5, Zenon DEF CheckSignals, instance
<1>6. CASE Join
  BY <1>6, Zenon DEF Join, instance
<1>7. CASE Drop
  BY <1>7, Zenon DEF Drop
<1>8. CASE Accept
  BY <1>8, Zenon DEF Accept, instance
<1>9. CASE Stop
  BY <1>9, Zenon DEF Stop, Exit
<1>10. CASE ~MainStep
  <2>1. UNCHANGED <<main, instance, notified>>
    BY <1>10, Environment, Zenon DEF Next, Work, Respond, TimeOut, End, TakeJob, Connect, vars
  <2> QED BY <1>1, <2>1
<1> QED BY <1>2, <1>3, <1>4, <1>5, <1>6, <1>7, <1>8, <1>9, <1>10, Zenon DEF MainStep

(* As long as the last that systemd heard is Ready, the socket is bound    *)
(* and a handler is there to serve it, through all reloads.                *)
THEOREM Serving == FairSpec => []ReadyMeansServing
<1>1. Init => ServeInv
  BY Zenon DEF Init, ServeInv
<1>2. ServeInv => ReadyMeansServing
  BY Zenon DEF ServeInv, ReadyMeansServing
<1> QED
  BY <1>1, <1>2, ServeStep, Invariants, PTL DEF FairSpec
-----------------------------------------------------------------------------
(* The pool *)

Active == {c \in Conn : conn[c] = "active"}

PoolInv == IsFiniteSet(Active) /\ Cardinality(Active) <= Workers

(* Every step keeps PoolInv: only TakeJob makes a connection active, and a *)
(* worker that takes a job is one that has none.                           *)
LEMMA PoolStep == Types /\ Sequenced /\ PoolInv /\ [Next]_vars => PoolInv'
<1> SUFFICES ASSUME Types, Sequenced, PoolInv, [Next]_vars PROVE PoolInv'
  OBVIOUS
<1> USE Zenon
<1>0. ASSUME Active' \subseteq Active PROVE PoolInv'
  <2>1. /\ IsFiniteSet(Active') /\ Cardinality(Active') <= Cardinality(Active)
        /\ Cardinality(Active) <= Workers /\ IsFiniteSet(Active)
    BY <1>0, FS_Subset DEF PoolInv
  <2>2. Cardinality(Active') \in Nat /\ Cardinality(Active) \in Nat
    BY <2>1, FS_CardinalityType
  <2>3. Cardinality(Active') <= Workers
    BY ONLY SMT, <2>1, <2>2, BoundsAssumption
  <2> QED BY <2>1, <2>3 DEF PoolInv
<1>1. CASE UNCHANGED <<conn, gen, backlog, queue>>
  BY <1>0, <1>1 DEF Active
<1>2. ASSUME NEW c \in Conn, NEW s, s # "active", conn' = [conn EXCEPT ![c] = s] PROVE PoolInv'
  <2>1. Active' \subseteq Active
    BY <1>2 DEF Active, Types
  <2> QED BY <1>0, <2>1
<1>3. ASSUME NEW c \in Conn, Connect(c) PROVE PoolInv'
  BY <1>2, <1>3 DEF Connect
<1>4. CASE CloseListener
  <2>1. Active' \subseteq Active
    BY <1>4 DEF Active, CloseListener
  <2> QED BY <1>0, <2>1
<1>5. CASE Taken
  <2>1. Head(backlog) \in Conn
    BY <1>5, HeadTail DEF Taken, Types
  <2>2. PICK s \in {"queued", "closed"} : conn' = [conn EXCEPT ![Head(backlog)] = s]
    BY <1>5 DEF Taken
  <2>3. s # "active"
    BY <2>2
  <2> QED BY <1>2, <2>1, <2>2, <2>3
<1>6. CASE TakeJob
  <2>1. Head(queue) \in Conn /\ conn[Head(queue)] = "queued"
    BY SMT, <1>6, HeadTail DEF TakeJob, Sequenced, Holds, Types
  <2>2. conn' = [conn EXCEPT ![Head(queue)] = "active"] /\ Cardinality(Active) < Workers
    BY <1>6 DEF TakeJob, Active
  <2>3. Active' = Active \cup {Head(queue)} /\ Head(queue) \notin Active
    BY SMT, <2>1, <2>2 DEF Active, Types
  <2>4. IsFiniteSet(Active') /\ Cardinality(Active') = Cardinality(Active) + 1
    BY <2>3, FS_AddElement DEF PoolInv
  <2>5. Cardinality(Active) \in Nat
    BY FS_CardinalityType DEF PoolInv
  <2>6. Cardinality(Active') <= Workers
    BY ONLY SMT, <2>2, <2>4, <2>5, BoundsAssumption
  <2> QED BY <2>4, <2>6 DEF PoolInv
<1>7. ASSUME NEW c \in Conn, NEW s \in {"answered", "closed"}, End(c, s) PROVE PoolInv'
  BY <1>2, <1>7 DEF End
<1> QED BY <1>1, <1>3, <1>4, <1>5, <1>6, <1>7, Moves DEF Move

-----------------------------------------------------------------------------
(* The counters *)

(* A build is done or under way, or a flag waits for it, only for the      *)
(* start and for every SIGHUP once.                                        *)
Building == main \in {"read", "build", "join", "drop"}

BuildInv ==
  /\ hups \in Nat /\ builds <= hups + 1
  /\ Building \/ reload_signal => builds <= hups
  /\ Building /\ reload_signal => builds + 1 <= hups

(* Every step keeps BuildInv. *)
LEMMA BuildStep == Types /\ BuildInv /\ [Next]_vars => BuildInv'
<1> SUFFICES ASSUME Types, BuildInv, [Next]_vars PROVE BuildInv'
  OBVIOUS
<1> USE Zenon
<1>0. builds \in Nat /\ hups \in Nat /\ builds <= hups + 1
  BY DEF Types, BuildInv
<1>1. CASE UNCHANGED <<builds, hups, reload_signal>> /\ (Building' => Building)
  BY <1>1 DEF BuildInv
<1>2. CASE Sighup
  <2>1. UNCHANGED <<builds, main>> /\ hups' = hups + 1
    BY <1>2 DEF Sighup, instance
  <2>2. Building => builds <= hups
    BY DEF BuildInv
  <2>3. hups' \in Nat /\ builds' <= hups' + 1 /\ builds' <= hups'
    BY ONLY SMT, <1>0, <2>1
  <2>4. builds <= hups => builds' + 1 <= hups'
    BY ONLY SMT, <1>0, <2>1
  <2> QED BY <2>1, <2>2, <2>3, <2>4 DEF BuildInv, Building
<1>3. CASE BuildService
  <2>1. CASE Exit
    BY <1>1, <2>1 DEF Exit, Building, env, flags
  <2>2. CASE ~Exit
    <3>1. /\ builds' = builds + 1 /\ hups' = hups /\ reload_signal' = reload_signal
          /\ Building /\ ~Building'
      BY <1>3, <2>2 DEF BuildService, Building, flags, env
    <3>2. builds <= hups /\ (reload_signal => builds + 1 <= hups)
      BY <3>1 DEF BuildInv
    <3>3. builds' <= hups' + 1
      BY ONLY SMT, <1>0, <3>1, <3>2
    <3> QED BY <1>0, <3>1, <3>2, <3>3 DEF BuildInv
  <2> QED BY <2>1, <2>2
<1>4. CASE CheckSignals
  <2>1. UNCHANGED <<builds, hups>> /\ main = "loop"
    BY <1>4 DEF CheckSignals, instance, env
  <2>2. CASE reload_signal /\ reload_signal' = FALSE
    BY <1>0, <2>1, <2>2 DEF BuildInv
  <2>3. CASE reload_signal' = reload_signal /\ main' \in {"stop", "accept"}
    BY <1>1, <2>1, <2>3 DEF Building
  <2> QED BY <1>4, <2>2, <2>3 DEF CheckSignals
<1>5. CASE ReadConfig \/ StartListener \/ Join \/ Drop \/ Accept \/ Stop
  <2>1. UNCHANGED <<builds, hups, reload_signal>>
    BY <1>5 DEF ReadConfig, StartListener, Join, Drop, Accept, Stop, Exit, flags, env, instance
  <2>2. Building' => Building
    BY <1>5 DEF ReadConfig, StartListener, Join, Drop, Accept, Stop, Exit, Building
  <2> QED BY <1>1, <2>1, <2>2
<1>6. CASE ~MainStep /\ ~Sighup
  <2>1. UNCHANGED <<builds, hups, reload_signal, main>>
    BY <1>6 DEF Next, Sigterm, EditFile, Send, Work, Respond, TimeOut, End, TakeJob, Connect,
       instance, env, flags, vars
  <2> QED BY <1>1, <2>1 DEF Building
<1> QED BY <1>2, <1>3, <1>4, <1>5, <1>6 DEF MainStep

(* What is read of the file is a version that it has had. *)
VersionInv ==
  /\ file \in 1..MaxVersion /\ config \in 0..file /\ hup_file \in 0..file
  /\ hups \in 0..MaxHups /\ handler \in 0..builds

(* Every step keeps VersionInv. *)
LEMMA VersionStep == Types /\ VersionInv /\ [Next]_vars => VersionInv'
<1> SUFFICES ASSUME Types, VersionInv, [Next]_vars PROVE VersionInv'
  OBVIOUS
<1> USE Zenon
<1>0. /\ builds \in Nat /\ file \in Nat /\ file <= MaxVersion /\ hups \in Nat /\ hups <= MaxHups
      /\ MaxVersion \in Nat /\ MaxHups \in Nat
      /\ \A n \in Nat : n \in 0..n /\ 0 \in 0..n
  BY SMT, BoundsAssumption DEF Types, VersionInv
<1>1. CASE UNCHANGED <<file, config, hup_file, hups, builds, handler>>
  BY <1>1 DEF VersionInv
<1>2. CASE Sighup
  <2>1. /\ UNCHANGED <<file, config, builds, handler>> /\ hup_file' = file /\ hups' = hups + 1
        /\ hups < MaxHups
    BY <1>2 DEF Sighup, instance
  <2>2. hups' \in 0..MaxHups
    BY ONLY SMT, <1>0, <2>1
  <2> QED BY <1>0, <2>1, <2>2 DEF VersionInv
<1>3. CASE EditFile
  <2>1. UNCHANGED <<config, builds, handler, hup_file, hups>> /\ file' = file + 1 /\ file < MaxVersion
    BY <1>3 DEF EditFile, instance
  <2>2. /\ file' \in 1..MaxVersion
        /\ \A n \in 0..file : n \in 0..file'
    BY ONLY SMT, <1>0, <2>1
  <2> QED BY <2>1, <2>2 DEF VersionInv
<1>4. ASSUME Exit PROVE VersionInv'
  BY <1>0, <1>4 DEF Exit, env, VersionInv
<1>5. CASE ReadConfig
  <2>1. CASE ~Exit
    BY <1>0, <1>5, <2>1 DEF ReadConfig, env, VersionInv
  <2> QED BY <1>4, <2>1
<1>6. CASE BuildService
  <2>1. CASE ~Exit
    <3>1. handler' = builds' /\ builds' = builds + 1 /\ UNCHANGED <<config, env>>
      BY <1>6, <2>1 DEF BuildService
    <3>2. builds' \in 0..builds'
      BY ONLY SMT, <1>0, <3>1
    <3> QED BY <3>1, <3>2 DEF env, VersionInv
  <2> QED BY <1>4, <2>1
<1>7. CASE Drop
  BY <1>0, <1>7 DEF Drop, env, VersionInv
<1>8. CASE StartListener \/ CheckSignals \/ Join \/ Accept \/ Stop
  BY <1>1, <1>4, <1>8 DEF StartListener, CheckSignals, Join, Accept, Stop, env, instance
<1>9. CASE ~MainStep /\ ~Sighup /\ ~EditFile
  BY <1>1, <1>9 DEF Next, Sigterm, Send, Work, Respond, TimeOut, End, TakeJob, Connect,
     instance, env, vars
<1> QED BY <1>2, <1>3, <1>5, <1>6, <1>7, <1>8, <1>9 DEF MainStep

(* The rest of the types. *)
PlainTypes ==
  /\ kill_signal \in BOOLEAN /\ reload_signal \in BOOLEAN /\ listener \in BOOLEAN
  /\ main \in MainStates
  /\ sent \subseteq Conn /\ timed \subseteq Conn
  /\ notified \in {"none", "Ready", "Reloading", "Stopping"}

(* Every step keeps them. *)
LEMMA PlainStep == Types /\ PlainTypes /\ [Next]_vars => PlainTypes'
<1> SUFFICES ASSUME Types, PlainTypes, [Next]_vars PROVE PlainTypes'
  OBVIOUS
<1> USE Zenon DEF PlainTypes, MainStates
<1>1. CASE Sigterm \/ Sighup \/ EditFile
  BY <1>1 DEF Sigterm, Sighup, EditFile, instance, pool, flags, env
<1>2. ASSUME NEW c \in Conn, Connect(c) \/ Send(c) \/ Work(c) PROVE PlainTypes'
  BY ZenonT(30), <1>2 DEF Connect, Send, Work, Respond, TimeOut, End, instance, pool, flags, env
<1>3. CASE ReadConfig
  BY <1>3 DEF ReadConfig, Exit, CloseListener, pool, flags, env
<1>4. CASE BuildService
  BY <1>4 DEF BuildService, Exit, CloseListener, pool, flags, env
<1>5. CASE StartListener
  BY <1>5 DEF StartListener, Exit, CloseListener, pool, flags, env
<1>6. CASE CheckSignals
  BY <1>6 DEF CheckSignals, instance, pool, env
<1>7. CASE Join
  BY <1>7 DEF Join, flags, instance, pool, env
<1>8. CASE Drop \/ Stop
  BY <1>8 DEF Drop, Stop, Exit, CloseListener, flags, env
<1>9. CASE Accept
  <2>1. backlog # <<>> => Head(backlog) \in Conn
    BY HeadTail DEF Types
  <2> QED BY <1>9, <2>1 DEF Accept, flags, instance, pool, env
<1>10. CASE TakeJob
  BY <1>10 DEF TakeJob, flags, instance, env
<1>11. CASE UNCHANGED vars
  BY <1>11 DEF vars, flags, instance, pool, env
<1> QED BY <1>1, <1>2, <1>3, <1>4, <1>5, <1>6, <1>7, <1>8, <1>9, <1>10, <1>11 DEF Next, MainStep

(* The variables have their types; the pool never runs more jobs than      *)
(* thread_pool_size, and the service is built once at the start and at     *)
(* most once for every SIGHUP.                                             *)
THEOREM TypeCorrect == FairSpec => []TypeOK
<1> DEFINE IInv == PoolInv /\ BuildInv /\ VersionInv /\ PlainTypes
<1>1. ASSUME Init PROVE IInv
  <2> USE Zenon
  <2>1. PoolInv
    <3>1. Active = {}
      BY <1>1 DEF Init, Active
    <3>2. IsFiniteSet({}) /\ Cardinality({}) = 0
      BY FS_EmptySet
    <3>3. 0 <= Workers
      BY SMT, BoundsAssumption
    <3> QED BY <3>1, <3>2, <3>3 DEF PoolInv
  <2>2. builds = 0 /\ hups = 0 /\ reload_signal = FALSE /\ file = 1 /\ config = 0 /\ hup_file = 0
        /\ handler = 0
    BY <1>1 DEF Init
  <2>3. /\ 0 \in Nat /\ 0 <= 0 + 1 /\ 0 <= 0 /\ 1 \in 1..MaxVersion /\ 0 \in 0..1
        /\ 0 \in 0..MaxHups /\ 0 \in 0..0
    BY SMT, BoundsAssumption
  <2>4. BuildInv
    BY <2>2, <2>3 DEF BuildInv
  <2>5. VersionInv
    BY <2>2, <2>3 DEF VersionInv
  <2>6. PlainTypes
    BY <1>1 DEF Init, PlainTypes, MainStates
  <2> QED BY <2>1, <2>4, <2>5, <2>6
<1>2. ASSUME Types, Sequenced, IInv, [Next]_vars PROVE IInv'
  BY <1>2, PoolStep, BuildStep, VersionStep, PlainStep
<1>3. ASSUME Types, JobInv, IInv PROVE TypeOK
  <2> USE Zenon
  <2>1. builds \in 0..(MaxHups + 1)
    <3>1. /\ builds \in Nat /\ hups \in Nat /\ builds <= hups + 1 /\ hups \in 0..MaxHups
          /\ MaxHups \in Nat
      BY <1>3, BoundsAssumption DEF Types, BuildInv, VersionInv
    <3> QED BY ONLY SMT, <3>1
  <2>2. gen \in [Conn -> 0..builds]
    <3>1. handler \in 0..builds /\ 0 \in 0..builds
      <4>1. handler \in 0..builds /\ builds \in Nat
        BY <1>3 DEF VersionInv, Types
      <4> QED BY ONLY SMT, <4>1
    <3>2. \A c \in Conn : gen[c] \in {handler, 0}
      BY <1>3 DEF JobInv
    <3>3. gen \in [Conn -> Nat]
      BY <1>3 DEF Types
    <3> QED BY ONLY SMT, <3>1, <3>2, <3>3
  <2>3. Cardinality({c \in Conn : conn[c] = "active"}) <= Workers
    BY <1>3 DEF PoolInv, Active
  <2> QED BY <1>3, <2>1, <2>2, <2>3 DEF TypeOK, Types, VersionInv, PlainTypes
<1> HIDE DEF IInv
<1> QED
  BY <1>1, <1>2, <1>3, Invariants, PTL DEF FairSpec
=============================================================================
