------------------------------- MODULE Server -------------------------------
(***************************************************************************)
(* Start, service and shutdown (src/server.rs): `serve` binds the          *)
(* listeners, spawns a task for each and one for the schema registry, and  *)
(* waits for the shutdown future or for a task that stops by itself; then  *)
(* it sends `true` on a watch channel, drains the tasks for a grace        *)
(* period, and aborts those that are left.  A Kafka listener owns its      *)
(* connections in a JoinSet: it joins them all when it is shut down, and   *)
(* aborts them when it ends in another way.  What a connection does with   *)
(* its requests is the subject of Connection.                              *)
(***************************************************************************)
EXTENDS Integers

CONSTANTS
  Listener,     \* the tasks of the Kafka listeners
  Registry,     \* the task of the schema registry
  Slot,         \* connections: as many as are open at one time
  None

ASSUME ListenerAssumption == Registry \notin Listener
ASSUME NoneAssumption == None \notin Listener \cup {"Ok", "Err", "Cancelled"}

Task == Listener \cup {Registry}

VARIABLES
  main,      \* where `serve` is
  bound,     \* the sockets that are bound
  sent,      \* the value of the watch channel
  status,    \* status[t]: "waiting" to be spawned, "running", "closing", "done"
  outcome,   \* outcome[t]: the Result of task t
  joined,    \* the tasks that `serve` has joined
  aborted,   \* the tasks that abort_all has met
  conn,      \* conn[s]: [state, owner, seen]
  result,    \* result and drain_result of `serve`
  drain_result

server_vars ==
  <<main, bound, sent, status, outcome, joined, aborted, conn, result, drain_result>>

NoConnection == [state |-> "free", owner |-> None, seen |-> FALSE]

ServerInit ==
  /\ main = "binding"
  /\ bound = {}
  /\ sent = FALSE
  /\ status = [t \in Task |-> "waiting"]
  /\ outcome = [t \in Task |-> None]
  /\ joined = {}
  /\ aborted = {}
  /\ conn = [s \in Slot |-> NoConnection]
  /\ result = None
  /\ drain_result = "Ok"

ConnectionsOf(t) == {s \in Slot : conn[s].owner = t /\ conn[s].state # "free"}

----------------------------------------------------------------------------
(* serve, up to the shutdown *)

\* The Kafka listeners are bound before the registry; the first failure ends it.
\* Without any listener nothing is bound at all.
Bind(t) ==
  /\ main = "binding"
  /\ t \notin bound
  /\ t = Registry => Listener \subseteq bound
  /\ \/ Listener # {} /\ bound' = bound \cup {t} /\ UNCHANGED <<main, result>>
     \/ main' = "stopped" /\ result' = "Err" /\ UNCHANGED bound
  /\ UNCHANGED <<sent, status, outcome, joined, aborted, conn, drain_result>>

Spawn ==
  /\ main = "binding"
  /\ bound = Task
  /\ main' = "serving"
  /\ status' = [t \in Task |-> "running"]
  /\ UNCHANGED <<bound, sent, outcome, joined, aborted, conn, result, drain_result>>

\* The shutdown future is ready.
Shutdown ==
  /\ main = "serving"
  /\ main' = "draining"
  /\ result' = "Ok"
  /\ sent' = TRUE
  /\ UNCHANGED <<bound, status, outcome, joined, aborted, conn, drain_result>>

\* join_next is ready: unexpected_task_result is an error whatever the
\* task's own result.
StoppedEarly(t) ==
  /\ main = "serving"
  /\ status[t] = "done"
  /\ main' = "draining"
  /\ result' = "Err"
  /\ sent' = TRUE
  /\ joined' = joined \cup {t}
  /\ UNCHANGED <<bound, status, outcome, aborted, conn, drain_result>>

----------------------------------------------------------------------------
(* serve, from the shutdown on *)

\* A slip: the last result counts.
FaultyDrain(t) ==
  /\ main = "draining"
  /\ status[t] = "done"
  /\ t \notin joined
  /\ joined' = joined \cup {t}
  /\ drain_result' = outcome[t]
  /\ UNCHANGED <<main, bound, sent, status, outcome, aborted, conn, result>>

\* drain_servers: the first error counts.
Drain(t) ==
  /\ main = "draining"
  /\ status[t] = "done"
  /\ t \notin joined
  /\ joined' = joined \cup {t}
  /\ drain_result' = IF drain_result = "Ok" THEN outcome[t] ELSE drain_result
  /\ UNCHANGED <<main, bound, sent, status, outcome, aborted, conn, result>>

\* The grace period is over.  `timeout` polls drain_servers first, so that no
\* task that has ended is left to join; abort_all meets the others.
GraceElapses ==
  /\ main = "draining"
  /\ joined # Task
  /\ \A t \in Task : status[t] = "done" => t \in joined
  /\ main' = "aborting"
  /\ aborted' = Task \ joined
  /\ UNCHANGED <<bound, sent, status, outcome, joined, conn, result, drain_result>>

\* join_next after abort_all; the results are dropped.
JoinAborted(t) ==
  /\ main = "aborting"
  /\ status[t] = "done"
  /\ t \notin joined
  /\ joined' = joined \cup {t}
  /\ UNCHANGED <<main, bound, sent, status, outcome, aborted, conn, result, drain_result>>

\* `serve` returns.
Return ==
  /\ main \in {"draining", "aborting"}
  /\ joined = Task
  /\ main' = "stopped"
  /\ result' = IF result = "Ok" THEN drain_result ELSE result
  /\ UNCHANGED <<bound, sent, status, outcome, joined, aborted, conn, drain_result>>

----------------------------------------------------------------------------
(* run_kafka_listener *)

\* A slip: the connection's receiver counts the current value as seen.
FaultyReceiver == [state |-> "open", owner |-> None, seen |-> sent]

\* A clone of the listener's receiver, which has seen nothing yet.
Receiver == [state |-> "open", owner |-> None, seen |-> FALSE]

\* A connection is accepted, possibly between the signal and its notice.
Accept(l, s) ==
  /\ status[l] = "running"
  /\ conn[s].state = "free"
  /\ conn' = [conn EXCEPT ![s] = [Receiver EXCEPT !.owner = l]]
  /\ UNCHANGED <<main, bound, sent, status, outcome, joined, aborted, result, drain_result>>

\* The JoinSet of a listener is dropped, which aborts what it holds.
AbortConnections(t) ==
  [s \in Slot |-> IF s \in ConnectionsOf(t) THEN [conn[s] EXCEPT !.state = "aborted"]
                  ELSE conn[s]]

\* accept fails: the listener returns the error.
AcceptFails(l) ==
  /\ status[l] = "running"
  /\ status' = [status EXCEPT ![l] = "done"]
  /\ outcome' = [outcome EXCEPT ![l] = "Err"]
  /\ conn' = AbortConnections(l)
  /\ UNCHANGED <<main, bound, sent, joined, aborted, result, drain_result>>

\* The loop is left for the loop that joins the connections.
ListenerNotices(l) ==
  /\ status[l] = "running"
  /\ sent
  /\ status' = [status EXCEPT ![l] = "closing"]
  /\ UNCHANGED <<main, bound, sent, outcome, joined, aborted, conn, result, drain_result>>

\* join_next of the connections, in either loop.
Reap(l, s) ==
  /\ status[l] \in {"running", "closing"}
  /\ conn[s].owner = l
  /\ conn[s].state = "ended"
  /\ conn' = [conn EXCEPT ![s] = NoConnection]
  /\ UNCHANGED <<main, bound, sent, status, outcome, joined, aborted, result, drain_result>>

ListenerEnds(l) ==
  /\ status[l] = "closing"
  /\ ConnectionsOf(l) = {}
  /\ status' = [status EXCEPT ![l] = "done"]
  /\ outcome' = [outcome EXCEPT ![l] = "Ok"]
  /\ UNCHANGED <<main, bound, sent, joined, aborted, conn, result, drain_result>>

----------------------------------------------------------------------------
(* connection::serve, as its listener sees it *)

\* The client closes, or a request fails.
ConnectionEnds(s) ==
  /\ conn[s].state = "open"
  /\ conn' = [conn EXCEPT ![s].state = "ended"]
  /\ UNCHANGED <<main, bound, sent, status, outcome, joined, aborted, result, drain_result>>

\* shutdown.changed() is ready: the request being served is dropped.
ConnectionNotices(s) ==
  /\ conn[s].state = "open"
  /\ sent
  /\ ~conn[s].seen
  /\ conn' = [conn EXCEPT ![s].state = "ended"]
  /\ UNCHANGED <<main, bound, sent, status, outcome, joined, aborted, result, drain_result>>

\* A task that was aborted, or whose JoinSet is gone, leaves nothing behind.
ConnectionDropped(s) ==
  /\ \/ conn[s].state = "aborted"
     \/ conn[s].state = "ended" /\ status[conn[s].owner] = "done"
  /\ conn' = [conn EXCEPT ![s] = NoConnection]
  /\ UNCHANGED <<main, bound, sent, status, outcome, joined, aborted, result, drain_result>>

----------------------------------------------------------------------------
(* run_schema_registry_listener: axum::serve with a graceful shutdown, which *)
(* waits for open HTTP connections as long as they take.                   *)

RegistryFails ==
  /\ status[Registry] = "running"
  /\ status' = [status EXCEPT ![Registry] = "done"]
  /\ outcome' = [outcome EXCEPT ![Registry] = "Err"]
  /\ UNCHANGED <<main, bound, sent, joined, aborted, conn, result, drain_result>>

RegistryNotices ==
  /\ status[Registry] = "running"
  /\ sent
  /\ status' = [status EXCEPT ![Registry] = "closing"]
  /\ UNCHANGED <<main, bound, sent, outcome, joined, aborted, conn, result, drain_result>>

RegistryEnds ==
  /\ status[Registry] = "closing"
  /\ status' = [status EXCEPT ![Registry] = "done"]
  /\ outcome' = [outcome EXCEPT ![Registry] = "Ok"]
  /\ UNCHANGED <<main, bound, sent, joined, aborted, conn, result, drain_result>>

\* The runtime drops a task that was aborted.
Aborted(t) ==
  /\ t \in aborted
  /\ status[t] # "done"
  /\ status' = [status EXCEPT ![t] = "done"]
  /\ outcome' = [outcome EXCEPT ![t] = "Cancelled"]
  /\ conn' = AbortConnections(t)
  /\ UNCHANGED <<main, bound, sent, joined, aborted, result, drain_result>>

----------------------------------------------------------------------------
Main ==
  \/ Spawn \/ Shutdown \/ GraceElapses \/ Return
  \/ \E t \in Task : Bind(t) \/ StoppedEarly(t) \/ Drain(t) \/ JoinAborted(t)

Tasks ==
  \/ \E l \in Listener :
       \/ AcceptFails(l) \/ ListenerNotices(l) \/ ListenerEnds(l)
       \/ \E s \in Slot : Accept(l, s) \/ Reap(l, s)
  \/ \E s \in Slot : ConnectionEnds(s) \/ ConnectionNotices(s) \/ ConnectionDropped(s)
  \/ RegistryFails \/ RegistryNotices \/ RegistryEnds
  \/ \E t \in Task : Aborted(t)

ServerNext == Main \/ Tasks

\* `serve` and the tasks make their steps when they can, and the runtime drops
\* what is aborted.  Nothing makes clients connect, close or fail.  Whether the
\* grace period ends, and whether the registry finishes its HTTP connections, is
\* left to the properties that need it.
Fairness ==
  /\ WF_server_vars(Return)
  /\ \A t \in Task : WF_server_vars(Drain(t)) /\ WF_server_vars(JoinAborted(t))
  /\ \A t \in Task : WF_server_vars(Aborted(t))
  /\ \A l \in Listener : WF_server_vars(ListenerNotices(l)) /\ WF_server_vars(ListenerEnds(l))
  /\ \A l \in Listener, s \in Slot : WF_server_vars(Reap(l, s))
  /\ \A s \in Slot : WF_server_vars(ConnectionNotices(s))
  /\ \A s \in Slot : WF_server_vars(ConnectionDropped(s))

ServerSpec == ServerInit /\ [][ServerNext]_server_vars /\ Fairness

----------------------------------------------------------------------------
\* The variables have the values that the code gives them; a task has a
\* result exactly when it is done, and only tasks that are done are joined.
ServerTypeOK ==
  /\ main \in {"binding", "serving", "draining", "aborting", "stopped"}
  /\ bound \subseteq Task /\ sent \in BOOLEAN
  /\ status \in [Task -> {"waiting", "running", "closing", "done"}]
  /\ outcome \in [Task -> {None, "Ok", "Err", "Cancelled"}]
  /\ \A t \in Task : (outcome[t] # None) <=> (status[t] = "done")
  /\ \A t \in joined : status[t] = "done"
  /\ result \in {None, "Ok", "Err"} /\ drain_result \in {"Ok", "Err"}

\* When `serve` returns, no listener task is left: each was joined, or none
\* was ever started.
NoTaskLeft ==
  main = "stopped" => \/ joined = Task /\ \A t \in Task : status[t] = "done"
                      \/ \A t \in Task : status[t] = "waiting"

\* A shutdown that needs no abort is graceful: a listener that ends with Ok
\* leaves no connection behind, so that Ok from `serve` without an abort
\* means that all connections were joined.
GracefulMeansDrained ==
  main = "stopped" /\ result = "Ok" /\ aborted = {} =>
    \A s \in Slot : conn[s].state = "free"

\* The error of a task is not lost: when `serve` returns Ok, a task that
\* failed had outlived the grace period.
ErrorsAreReported ==
  main = "stopped" /\ result = "Ok" => \A t \in Task : outcome[t] = "Err" => t \in aborted

\* A shutdown leaves nothing behind and hides nothing: no listener task, and
\* without an abort no connection either (the drain in `serve` and in
\* run_kafka_listener), and no error.
StopsClean == ServerTypeOK /\ NoTaskLeft /\ GracefulMeansDrained /\ ErrorsAreReported

\* As the grace period ends, `serve` returns after the signal, even if HTTP
\* connections never end.
ServeReturns == WF_server_vars(GraceElapses) => (main = "draining" ~> main = "stopped")

\* Without the abort, too, as long as HTTP connections end: the listeners'
\* own part of the shutdown never hangs, also when a connection is accepted
\* after the signal and before its listener has noticed.
DrainsAlone ==
  [](main # "aborting") /\ WF_server_vars(RegistryNotices) /\ WF_server_vars(RegistryEnds)
    => (main = "draining" ~> main = "stopped")

\* A shutdown ends: by itself if the HTTP connections do, and by the grace
\* period in any case.
ShutdownEnds == ServeReturns /\ DrainsAlone
=============================================================================
