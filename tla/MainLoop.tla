------------------------------ MODULE MainLoop ------------------------------
(***************************************************************************)
(* bin/main.rs with the listener and the thread pool: a single thread      *)
(* builds the service, accepts connections and hands them to the workers   *)
(* of the pool; a SIGHUP makes it build the service anew from the          *)
(* configuration file, and a SIGTERM or SIGINT makes it stop.  Signals     *)
(* only set a flag, at any moment.                                         *)
(*                                                                         *)
(* Every build is a generation of the service: its front end handler, and  *)
(* with it the providers, live as long as the main thread or a job in the  *)
(* pool holds them.  What a worker does with a request is in the other     *)
(* modules; here it ends when the request has arrived and been executed,   *)
(* or when the read times out.                                             *)
(***************************************************************************)
EXTENDS Naturals, Sequences, FiniteSets

CONSTANTS Conn,        \* connections of clients
          Workers,     \* thread_pool_size
          MaxVersion,  \* bound: versions of the configuration file
          MaxHups,     \* bound: number of SIGHUPs
          Errors       \* building, binding and accepting may fail

ASSUME BoundsAssumption == /\ Workers \in Nat \ {0}
                           /\ MaxVersion \in Nat \ {0} /\ MaxHups \in Nat

VARIABLES kill_signal, reload_signal,
          main,       \* next step of the main thread
          file,       \* version of the configuration file
          config,     \* version that the main thread has read
          builds,     \* number of generations built
          handler,    \* generation that the main thread holds, 0 for none
          listener,   \* the socket is bound
          backlog,    \* connections not accepted yet, in order
          queue,      \* jobs that no worker has taken yet, in order
          conn,       \* state of each connection
          gen,        \* generation that the job of a connection holds
          sent,       \* connections whose request has arrived
          timed,      \* connections with a read timeout
          notified,   \* what systemd was told last
          hups,       \* number of SIGHUPs
          hup_file    \* version of the file at the last SIGHUP

flags == <<kill_signal, reload_signal>>

instance == <<config, builds, handler, listener>>

pool == <<backlog, queue, conn, gen, timed>>

env == <<file, sent, hups, hup_file>>

vars == <<flags, main, instance, pool, notified, env>>

MainStates == {"read", "build", "listen", "loop", "accept", "join", "drop", "stop", "exited"}

TypeOK ==
  /\ kill_signal \in BOOLEAN /\ reload_signal \in BOOLEAN /\ listener \in BOOLEAN
  /\ main \in MainStates
  /\ file \in 1..MaxVersion /\ config \in 0..file /\ hup_file \in 0..file
  /\ hups \in 0..MaxHups
  /\ builds \in 0..(MaxHups + 1) /\ handler \in 0..builds
  /\ backlog \in Seq(Conn) /\ queue \in Seq(Conn)
  /\ conn \in [Conn -> {"new", "backlog", "queued", "active", "answered", "closed"}]
  /\ gen \in [Conn -> 0..builds]
  /\ sent \subseteq Conn /\ timed \subseteq Conn
  /\ notified \in {"none", "Ready", "Reloading", "Stopping"}
  /\ Cardinality({c \in Conn : conn[c] = "active"}) <= Workers

Init ==
  /\ kill_signal = FALSE /\ reload_signal = FALSE /\ listener = FALSE
  /\ main = "read"
  /\ file = 1 /\ config = 0 /\ hup_file = 0 /\ hups = 0
  /\ builds = 0 /\ handler = 0
  /\ backlog = <<>> /\ queue = <<>>
  /\ conn = [c \in Conn |-> "new"]
  /\ gen = [c \in Conn |-> 0]
  /\ sent = {} /\ timed = {}
  /\ notified = "none"

-----------------------------------------------------------------------------
(* The environment: signals, the administrator, the clients. *)

(* SIGTERM or SIGINT, any number of times. *)
Sigterm ==
  /\ kill_signal' = TRUE
  /\ UNCHANGED <<reload_signal, main, instance, pool, notified, env>>

Sighup ==
  /\ hups < MaxHups
  /\ hups' = hups + 1
  /\ reload_signal' = TRUE
  /\ hup_file' = file
  /\ UNCHANGED <<kill_signal, main, instance, pool, notified, file, sent>>

EditFile ==
  /\ file < MaxVersion
  /\ file' = file + 1
  /\ UNCHANGED <<flags, main, instance, pool, notified, sent, hups, hup_file>>

Connect(c) ==
  /\ conn[c] = "new"
  /\ listener
  /\ conn' = [conn EXCEPT ![c] = "backlog"]
  /\ backlog' = Append(backlog, c)
  /\ UNCHANGED <<flags, main, instance, queue, gen, timed, notified, env>>

(* The whole request arrives; a client need never send it. *)
Send(c) ==
  /\ conn[c] \in {"backlog", "queued", "active"}
  /\ c \notin sent
  /\ sent' = sent \cup {c}
  /\ UNCHANGED <<flags, main, instance, pool, notified, file, hups, hup_file>>

-----------------------------------------------------------------------------
(* Steps of the main thread. *)

(* Dropping the listener closes the connections that were not accepted. *)
CloseListener ==
  /\ listener' = FALSE
  /\ backlog' = <<>>
  /\ conn' = [c \in Conn |-> IF conn[c] = "backlog" THEN "closed" ELSE conn[c]]

(* The process ends. *)
Exit ==
  /\ main' = "exited"
  /\ handler' = 0
  /\ CloseListener
  /\ UNCHANGED <<flags, config, builds, queue, gen, timed, notified, env>>

(* read_to_string and from_str; at the first start also the check that     *)
(* the user is not root.                                                   *)
ReadConfig ==
  /\ main = "read"
  /\ \/ /\ config' = file
        /\ main' = "build"
        /\ UNCHANGED <<flags, builds, handler, listener, pool, notified, env>>
     \/ Errors /\ Exit

(* ServiceBuilder::build_service(&config)? *)
BuildService ==
  /\ main = "build"
  /\ \/ /\ builds' = builds + 1
        /\ handler' = builds'
        /\ main' = "listen"
        /\ UNCHANGED <<flags, config, listener, pool, notified, env>>
     \/ Errors /\ Exit

(* Fault: the flag is cleared once more when the reload is done. *)
Mut_StartListener ==
  /\ main = "listen"
  /\ \/ /\ listener' = TRUE
        /\ notified' = "Ready"
        /\ main' = IF builds = 1 THEN "loop" ELSE "accept"
        /\ reload_signal' = FALSE
        /\ UNCHANGED <<kill_signal, config, builds, handler, pool, env>>
     \/ Errors /\ Exit

(* start_listener(...)?, build_threadpool, and systemd is told Ready.  The *)
(* reload is followed by an accept in the same turn of the loop.           *)
StartListener ==
  /\ main = "listen"
  /\ \/ /\ listener' = TRUE
        /\ notified' = "Ready"
        /\ main' = IF builds = 1 THEN "loop" ELSE "accept"
        /\ UNCHANGED <<flags, config, builds, handler, pool, env>>
     \/ Errors /\ Exit

(* Fault: systemd is not told that the service is reloading. *)
Mut_CheckSignals ==
  /\ main = "loop"
  /\ \/ /\ kill_signal
        /\ main' = "stop" /\ notified' = "Stopping"
        /\ UNCHANGED reload_signal
     \/ /\ ~kill_signal /\ reload_signal
        /\ reload_signal' = FALSE
        /\ main' = "join" /\ UNCHANGED notified
     \/ /\ ~kill_signal /\ ~reload_signal
        /\ main' = "accept"
        /\ UNCHANGED <<reload_signal, notified>>
  /\ UNCHANGED <<kill_signal, instance, pool, env>>

(* while !kill_signal { if reload_signal.swap(false) ... *)
CheckSignals ==
  /\ main = "loop"
  /\ \/ /\ kill_signal
        /\ main' = "stop" /\ notified' = "Stopping"
        /\ UNCHANGED reload_signal
     \/ /\ ~kill_signal /\ reload_signal
        /\ reload_signal' = FALSE
        /\ main' = "join" /\ notified' = "Reloading"
     \/ /\ ~kill_signal /\ ~reload_signal
        /\ main' = "accept"
        /\ UNCHANGED <<reload_signal, notified>>
  /\ UNCHANGED <<kill_signal, instance, pool, env>>

(* threadpool.join(): no job is queued or active. *)
PoolIdle == \A c \in Conn : conn[c] \notin {"queued", "active"}

(* Fault: the jobs of the old pool are left to finish by themselves. *)
Mut_Join ==
  /\ main = "join"
  /\ main' = "drop"
  /\ UNCHANGED <<flags, instance, pool, notified, env>>

Join ==
  /\ main = "join"
  /\ PoolIdle
  /\ main' = "drop"
  /\ UNCHANGED <<flags, instance, pool, notified, env>>

(* drop(front_end_handler), drop(listener), drop(threadpool) *)
Drop ==
  /\ main = "drop"
  /\ handler' = 0
  /\ CloseListener
  /\ main' = "read"
  /\ UNCHANGED <<flags, config, builds, queue, gen, timed, notified, env>>

(* Fault: the timeouts of the accepted connection are not set. *)
Mut_Accept ==
  /\ main = "accept"
  /\ main' = "loop"
  /\ \/ /\ backlog # <<>>
        /\ conn' = [conn EXCEPT ![Head(backlog)] = "queued"]
        /\ gen' = [gen EXCEPT ![Head(backlog)] = handler]
        /\ queue' = Append(queue, Head(backlog))
        /\ backlog' = Tail(backlog)
        /\ UNCHANGED timed
     \/ /\ backlog = <<>> \/ Errors
        /\ UNCHANGED pool
  /\ UNCHANGED <<flags, instance, notified, env>>

(* listener.accept(): a connection becomes a job that holds the handler;   *)
(* one that cannot be set up is dropped; without a connection, or when the *)
(* call itself fails (the connection then stays in the backlog), the main  *)
(* thread sleeps for a while.                                              *)
Accept ==
  /\ main = "accept"
  /\ main' = "loop"
  /\ \/ /\ backlog # <<>>
        /\ conn' = [conn EXCEPT ![Head(backlog)] = "queued"]
        /\ gen' = [gen EXCEPT ![Head(backlog)] = handler]
        /\ timed' = timed \cup {Head(backlog)}
        /\ queue' = Append(queue, Head(backlog))
        /\ backlog' = Tail(backlog)
     \/ /\ Errors /\ backlog # <<>>
        /\ conn' = [conn EXCEPT ![Head(backlog)] = "closed"]
        /\ backlog' = Tail(backlog)
        /\ UNCHANGED <<queue, gen, timed>>
     \/ /\ backlog = <<>> \/ Errors
        /\ UNCHANGED pool
  /\ UNCHANGED <<flags, instance, notified, env>>

(* Fault: the process does not wait for the pool. *)
Mut_Stop ==
  /\ main = "stop"
  /\ Exit

(* threadpool.join(); Ok(()) *)
Stop ==
  /\ main = "stop"
  /\ PoolIdle
  /\ Exit

-----------------------------------------------------------------------------
(* Steps of the workers. *)

(* Fault: the size of the pool is not passed on. *)
Mut_TakeJob ==
  /\ queue # <<>>
  /\ main # "exited"
  /\ conn' = [conn EXCEPT ![Head(queue)] = "active"]
  /\ queue' = Tail(queue)
  /\ UNCHANGED <<flags, main, instance, backlog, gen, timed, notified, env>>

(* A worker of the pool of thread_pool_size threads takes the next job. *)
TakeJob ==
  /\ queue # <<>>
  /\ Cardinality({c \in Conn : conn[c] = "active"}) < Workers
  /\ main # "exited"
  /\ conn' = [conn EXCEPT ![Head(queue)] = "active"]
  /\ queue' = Tail(queue)
  /\ UNCHANGED <<flags, main, instance, backlog, gen, timed, notified, env>>

(* The job of connection c ends: handler and connection are dropped. *)
End(c, s) ==
  /\ conn[c] = "active"
  /\ main # "exited"
  /\ conn' = [conn EXCEPT ![c] = s]
  /\ gen' = [gen EXCEPT ![c] = 0]
  /\ UNCHANGED <<flags, main, instance, backlog, queue, timed, notified, env>>

Respond(c) == c \in sent /\ End(c, "answered")

TimeOut(c) == c \in timed \ sent /\ End(c, "closed")

-----------------------------------------------------------------------------
MainStep == \/ ReadConfig \/ BuildService \/ StartListener \/ CheckSignals \/ Join
            \/ Drop \/ Accept \/ Stop

Work(c) == Respond(c) \/ TimeOut(c)

Next == \/ Sigterm \/ Sighup \/ EditFile \/ MainStep \/ TakeJob
        \/ \E c \in Conn : Connect(c) \/ Send(c) \/ Work(c)

(* The scheduler lets every thread run, and a timeout expires; nothing is  *)
(* assumed of signals and clients.                                         *)
FairSpec == /\ Init /\ [][Next]_vars
            /\ WF_vars(MainStep) /\ WF_vars(TakeJob) /\ \A c \in Conn : WF_vars(Work(c))

-----------------------------------------------------------------------------
(* The generations whose providers exist. *)
Alive == ({handler} \cup {gen[c] : c \in Conn}) \ {0}

(* "some values/libraries might be initialized twice" is what the drops of *)
(* main.rs prevent: while the service is built anew there is no provider   *)
(* of an earlier generation, and jobs only hold the current one.           *)
NothingInitializedTwice ==
  /\ main = "build" => Alive = {}
  /\ Cardinality(Alive) <= 1

(* The process never ends with a connection that it accepted and has not   *)
(* finished with.                                                          *)
NoJobCutOff == main = "exited" => PoolIdle

(* As long as systemd's last notice is Ready, the socket is bound and a    *)
(* front end handler is there to serve it, unless the process has ended.   *)
ReadyMeansServing == notified = "Ready" /\ main # "exited" => listener /\ handler # 0

(* The configuration file as it was at a SIGHUP is served eventually, or a *)
(* later one, unless the process ends: a SIGHUP during a reload is not     *)
(* lost.                                                                   *)
HupsTakeEffect ==
  \A v \in 1..MaxVersion : hup_file = v ~> ((config >= v /\ listener) \/ main = "exited")

(* A SIGTERM ends the process, even if a client never sends its request.   *)
TermEndsService == kill_signal ~> main = "exited"

(* Every connection that was accepted is answered or closed eventually.    *)
JobsEnd == \A c \in Conn : conn[c] = "queued" ~> conn[c] \in {"answered", "closed"}
=============================================================================
