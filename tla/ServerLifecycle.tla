---------------------------- MODULE ServerLifecycle ----------------------------
(***************************************************************************)
(* main.go: the process serves REST and gRPC requests over one connection    *)
(* pool until a signal arrives, closes the REST server, drains the gRPC      *)
(* server for at most ten seconds, and exits with whatever still runs.       *)
(***************************************************************************)
EXTENDS ConnPool

CONSTANT Rest  \* the requests that come by REST; the others come by gRPC

ASSUME LifecycleAssumption == Rest \subseteq Requests

VARIABLES
  phase,   \* where main is
  cut,     \* requests whose connection was closed and context cancelled
  forced   \* did the drain end by the deadline?

mainVars   == <<phase, cut, forced>>
serverVars == <<pc, left, phase, cut, forced>>

Phases == {"serving", "signalled", "restClosed", "draining", "stopped", "exited"}
Grpc   == Requests \ Rest

Active == {r \in Requests : pc[r] \notin {"idle", "done"}}

ServerInit == Init /\ phase = "serving" /\ cut = {} /\ forced = FALSE

-----------------------------------------------------------------------------
(* Requests *)

\* A listener that is closed takes no requests.
Accepts(r) ==
  \/ phase \in {"serving", "signalled"}
  \/ phase = "restClosed" /\ r \in Grpc

Up == phase # "exited" /\ UNCHANGED mainVars

\* A request whose context is cancelled stops waiting for a connection.
CutOff(r) ==
  /\ Up
  /\ r \in cut /\ Leave(r)

RequestStep(r) ==
  /\ Up
  /\ \/ Accepts(r) /\ Arrive(r)
     \/ Get(r) \/ Work(r) \/ GiveUp(r)

-----------------------------------------------------------------------------
(* main *)

Signal ==
  /\ phase = "serving" /\ phase' = "signalled"
  /\ UNCHANGED <<vars, cut, forced>>

\* router.Shutdown() is echo.Close(): listener and connections, at once.
CloseRest ==
  /\ phase = "signalled" /\ phase' = "restClosed"
  /\ cut' = Active \cap Rest
  /\ UNCHANGED <<vars, forced>>

\* GracefulStop, in a goroutine of its own: no new requests.
BeginDrain ==
  /\ phase = "restClosed" /\ phase' = "draining"
  /\ UNCHANGED <<vars, cut, forced>>

\* Mutant: the result of GracefulStop is not awaited.
DrainedAtOnce ==
  /\ phase = "draining" /\ phase' = "stopped"
  /\ UNCHANGED <<vars, cut, forced>>

\* GracefulStop returns once the last gRPC request is answered.
Drained ==
  /\ phase = "draining" /\ Active \cap Grpc = {}
  /\ phase' = "stopped"
  /\ UNCHANGED <<vars, cut, forced>>

\* Mutant: GracefulStop without a deadline.
NoDeadline == FALSE /\ UNCHANGED serverVars

\* shutdownCtx ends first: Stop closes the gRPC connections.
Deadline ==
  /\ phase = "draining" /\ phase' = "stopped"
  /\ forced' = TRUE
  /\ cut' = cut \cup (Active \cap Grpc)
  /\ UNCHANGED vars

\* main returns, its deferred calls run, and the process ends.
Exit ==
  /\ phase = "stopped" /\ phase' = "exited"
  /\ UNCHANGED <<vars, cut, forced>>

-----------------------------------------------------------------------------

Main == CloseRest \/ BeginDrain \/ Drained \/ Deadline \/ Exit

ServerQuiescent ==
  /\ phase = "exited" \/ (phase = "serving" /\ \A r \in Requests : pc[r] = "done")
  /\ UNCHANGED serverVars

ServerNext ==
  \/ \E r \in Requests : RequestStep(r) \/ CutOff(r)
  \/ Signal \/ Main
  \/ ServerQuiescent

ServerSpec == ServerInit /\ [][ServerNext]_serverVars

\* As in ConnPool for the requests; main goes on, and its timer fires. Nobody has
\* to send a signal.
ServerFairSpec ==
  /\ ServerSpec
  /\ \A r \in Requests :
       /\ WF_serverVars(Up /\ Work(r)) /\ SF_serverVars(Up /\ Get(r))
  /\ WF_serverVars(Main)

-----------------------------------------------------------------------------
(* Properties *)

ServerTypeOK ==
  /\ TypeOK
  /\ phase \in Phases
  /\ cut \in SUBSET Requests
  /\ forced \in BOOLEAN

SmallLoad == Cardinality(Active) < MaxOpenConns

\* As long as fewer requests are under way than there are connections and no
\* signal arrives, everyone is served: of the requests, each of which comes at most
\* once, none stays under way for ever.
EveryoneServed ==
  [](SmallLoad /\ phase = "serving") => <>[](Active = {})

\* The graceful part of the shutdown: unless the deadline passed, no gRPC request
\* is under way when the process ends, and none was cut off before.
GrpcIsDrained ==
  phase = "exited" /\ ~forced => (Active \cup cut) \cap Grpc = {}

\* A signal ends the process, however the pool is stuck.
ShutdownEnds == phase = "signalled" ~> phase = "exited"

=============================================================================
