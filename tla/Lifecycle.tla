----------------------------- MODULE Lifecycle -----------------------------
(***************************************************************************)
(* The plugin process (cmd/t-cloud-csi-driver/main.go, with the            *)
(* configuration of internal/config): it resolves its configuration,       *)
(* builds its services, opens the endpoint, serves, and stops on a signal. *)
(* A process runs once; the kubelet starts another one when it has ended.  *)
(***************************************************************************)
EXTENDS Integers, Configuration

CONSTANTS
  Processes,   \* the runs of the plugin
  Calls,       \* RPCs that clients send
  Inputs,      \* the settings an operator may give to a process
  MaxSignals,  \* bound on the signals sent to one process
  Overlap      \* a process may be started while an earlier one is still running

ASSUME ProcessesAssumption == Processes \cap {"none", "file", "leftover"} = {}
ASSUME InputsAssumption == Inputs \subseteq Settings
ASSUME SignalsAssumption == MaxSignals \in Nat
ASSUME OverlapAssumption == Overlap \in BOOLEAN

VARIABLES
  path,      \* the endpoint path: "none", a foreign "file", a "leftover" socket or a process's socket
  role,      \* the role each process has parsed
  net,       \* the network it listens on: "none" before it is parsed, "unix" or "tcp"
  facts,     \* where the facts of a node come from: "none", "flag" or "metadata"
  pc,        \* where each process stands
  ctx,       \* the process context has been cancelled by a signal
  expired,   \* metadataTimeout has passed
  draining,  \* GracefulStop has closed the listener
  sigc,      \* a signal waits in the channel of the second Notify
  signals,   \* signals sent so far
  exit,      \* how each process ended
  calls      \* each RPC: "idle", "finished", "cut", or the process that runs it

configVars == <<role, net, facts>>
memory == <<configVars, ctx, expired, draining, sigc, signals>>
vars == <<path, pc, exit, calls, memory>>

Dead(p) == pc[p] = "dead"
Alive(p) == pc[p] \notin {"off", "dead"}
RunningAt(p) == {c \in Calls : calls[c] = p}

Init ==
  /\ path \in {"none", "file", "leftover"}
  /\ role = [p \in Processes |-> "none"]
  /\ net = [p \in Processes |-> "none"]
  /\ facts = [p \in Processes |-> NoFacts]
  /\ pc = [p \in Processes |-> "off"]
  /\ ctx = [p \in Processes |-> FALSE]
  /\ expired = [p \in Processes |-> FALSE]
  /\ draining = [p \in Processes |-> FALSE]
  /\ sigc = [p \in Processes |-> FALSE]
  /\ signals = [p \in Processes |-> 0]
  /\ exit = [p \in Processes |-> "none"]
  /\ calls = [c \in Calls |-> "idle"]

\* Mutant: the endpoint is opened before the services are built.
FollowingListenFirst ==
  [resolve |-> "clear", clear |-> "bind", bind |-> "register", register |-> "serve"]

\* The steps of run, in order.
Following ==
  [resolve |-> "register", register |-> "clear", clear |-> "bind", bind |-> "serve"]

Goto(p, place) == pc' = [pc EXCEPT ![p] = place]
Continue(p, place) == Goto(p, place) /\ UNCHANGED <<exit, calls, memory>>
Proceed(p) == Continue(p, Following[pc[p]])

\* The memory of a process is gone with it.
Forget(p) ==
  /\ role' = [role EXCEPT ![p] = "none"]
  /\ net' = [net EXCEPT ![p] = "none"]
  /\ facts' = [facts EXCEPT ![p] = NoFacts]
  /\ ctx' = [ctx EXCEPT ![p] = FALSE]
  /\ expired' = [expired EXCEPT ![p] = FALSE]
  /\ draining' = [draining EXCEPT ![p] = FALSE]
  /\ sigc' = [sigc EXCEPT ![p] = FALSE]
  /\ signals' = [signals EXCEPT ![p] = 0]

\* The process ends, and with it the calls it was running.
Exit(p, how) ==
  /\ Goto(p, "dead")
  /\ Forget(p)
  /\ exit' = [exit EXCEPT ![p] = how]
  /\ calls' = [c \in Calls |-> IF calls[c] = p THEN "cut" ELSE calls[c]]

(***************************************************************************)
(* Start.                                                                  *)
(***************************************************************************)
\* Parse, and what needs no metadata is resolved with it.
Start(p) ==
  /\ pc[p] = "off"
  /\ Overlap \/ \A q \in Processes : ~Alive(q)
  /\ \E s \in Inputs :
       IF Parse(s) = "ok"
       THEN /\ role' = [role EXCEPT ![p] = s.role]
            /\ net' = [net EXCEPT ![p] = resolveEndpoint(s.endpoint)]
            /\ facts' = [facts EXCEPT ![p] = FactsOf(s)]
            /\ Goto(p, IF NeedsMetadata(s.role, FactsOf(s)) THEN "resolve" ELSE Following["resolve"])
            /\ UNCHANGED <<ctx, expired, draining, sigc, signals, exit, calls>>
       ELSE Exit(p, Parse(s))
  /\ UNCHANGED path

\* Mutant: retrying the metadata service has no overall deadline.
OverNever(p) == ctx[p]

\* The context of the retrieval has ended.
Over(p) == ctx[p] \/ expired[p]

\* One attempt on the metadata service: a document, which may lack a fact, a failure for good, or
\* one worth another try.
Attempt(p) ==
  /\ pc[p] = "resolve"
  /\ \/ \E document \in SUBSET Facts :
          IF Identified(Filled(facts[p], document))
          THEN /\ facts' = [facts EXCEPT ![p] = Filled(@, document)]
               /\ Goto(p, Following[pc[p]])
               /\ UNCHANGED <<role, net, ctx, expired, draining, sigc, signals, exit, calls>>
          ELSE Exit(p, "metadata")
     \/ Exit(p, "metadata")
     \/ ~Over(p) /\ Continue(p, "backoff")
  /\ UNCHANGED path

\* The wait between two attempts ends, early if the context does.
BackoffEnds(p) ==
  /\ pc[p] = "backoff"
  /\ \/ Over(p) /\ Exit(p, "metadata")
     \/ Continue(p, "resolve")
  /\ UNCHANGED path

Deadline(p) ==
  /\ pc[p] \in {"resolve", "backoff"} /\ ~expired[p]
  /\ expired' = [expired EXCEPT ![p] = TRUE]
  /\ UNCHANGED <<path, configVars, pc, ctx, draining, sigc, signals, exit, calls>>

\* registerServices: a controller authenticates here, and fails here; a node talks to nobody.
Register(p) ==
  /\ pc[p] = "register"
  /\ \/ (role[p] = "node" => Identified(facts[p])) /\ Proceed(p)
     \/ role[p] = "controller" /\ Exit(p, "auth")
  /\ UNCHANGED path

\* Mutant: a leftover socket is not removed.
ClearStaleSocketNot(p) ==
  /\ pc[p] = "clear"
  /\ IF path = "file" /\ net[p] = "unix" THEN Exit(p, "endpoint") ELSE Proceed(p)
  /\ UNCHANGED path

\* clearStaleSocket removes any socket and refuses anything else; tcp has no path.
ClearStaleSocket(p) ==
  /\ pc[p] = "clear"
  /\ IF net[p] = "tcp" THEN Proceed(p) /\ UNCHANGED path
     ELSE IF path = "file" THEN Exit(p, "endpoint") /\ UNCHANGED path
     ELSE Proceed(p) /\ path' = "none"

\* net.Listen makes the socket, unless the path is taken, or fails for another reason.
Listen(p) ==
  /\ pc[p] = "bind"
  /\ \/ net[p] = "unix" /\ path = "none" /\ path' = p /\ Proceed(p)
     \/ net[p] = "unix" /\ path # "none" /\ Exit(p, "in use") /\ UNCHANGED path
     \/ net[p] = "tcp" /\ Proceed(p) /\ UNCHANGED path
     \/ Exit(p, "endpoint") /\ UNCHANGED path

(***************************************************************************)
(* Serving.                                                                *)
(***************************************************************************)
CallArrives(c, p) ==
  /\ pc[p] \in {"serve", "stopping", "armed"} /\ ~draining[p]
  /\ net[p] = "unix" => path = p
  /\ calls[c] = "idle"
  /\ calls' = [calls EXCEPT ![c] = p]
  /\ UNCHANGED <<path, pc, exit, memory>>

\* A handler returns; nothing makes it.
CallReturns(c) ==
  /\ calls[c] \in Processes
  /\ calls' = [calls EXCEPT ![c] = "finished"]
  /\ UNCHANGED <<path, pc, exit, memory>>

\* A closed unix listener unlinks its path by name, whatever is there by then.
Unlink(p) == path' = IF net[p] = "tcp" \/ path = "file" THEN path ELSE "none"

\* Serve fails, which closes the listener.
ServeFails(p) ==
  /\ pc[p] = "serve"
  /\ Unlink(p)
  /\ Exit(p, "serve failed")

(***************************************************************************)
(* Stopping.                                                               *)
(***************************************************************************)
\* The first signal cancels the context; a later one is heard only after the second Notify.
Signal(p) ==
  /\ Alive(p) /\ signals[p] < MaxSignals
  /\ signals' = [signals EXCEPT ![p] = @ + 1]
  /\ ctx' = [ctx EXCEPT ![p] = TRUE]
  /\ sigc' = [sigc EXCEPT ![p] = @ \/ pc[p] = "armed"]
  /\ UNCHANGED <<path, configVars, pc, expired, draining, exit, calls>>

\* serve sees the end of the context and starts GracefulStop in a goroutine.
StopBegins(p) ==
  /\ pc[p] = "serve" /\ ctx[p]
  /\ Goto(p, "stopping")
  /\ UNCHANGED <<path, exit, calls, memory>>

\* That goroutine closes the listener; then it waits for the calls.
GracefulStop(p) ==
  /\ pc[p] \in {"stopping", "armed"} /\ ~draining[p]
  /\ draining' = [draining EXCEPT ![p] = TRUE]
  /\ Unlink(p)
  /\ UNCHANGED <<configVars, pc, ctx, expired, sigc, signals, exit, calls>>

\* signal.Notify and the timer.
Arm(p) ==
  /\ pc[p] = "stopping"
  /\ Goto(p, "armed")
  /\ UNCHANGED <<path, exit, calls, memory>>

\* GracefulStop has returned: no call is left.
Drained(p) ==
  /\ pc[p] = "armed" /\ draining[p]
  /\ RunningAt(p) = {}
  /\ Exit(p, "drained")
  /\ UNCHANGED path

\* server.Stop closes the listener, if it is still open, and every connection.
Stop(p, how) ==
  /\ pc[p] = "armed"
  /\ IF draining[p] THEN UNCHANGED path ELSE Unlink(p)
  /\ Exit(p, how)

SecondSignal(p) == sigc[p] /\ Stop(p, "second signal")

\* Mutant: nothing bounds the graceful stop.
TimerFiresNever(p) == FALSE /\ UNCHANGED vars

\* gracefulStopTimeout has passed.
TimerFires(p) == Stop(p, "timer")

\* The process is killed; its socket stays behind.
Killed(p) ==
  /\ Alive(p)
  /\ Exit(p, "killed")
  /\ UNCHANGED path

ProcessStep(p) ==
  \/ Attempt(p) \/ BackoffEnds(p) \/ Register(p) \/ ClearStaleSocket(p) \/ Listen(p)
  \/ StopBegins(p) \/ GracefulStop(p) \/ Arm(p) \/ Drained(p) \/ SecondSignal(p)

Next ==
  \/ \E p \in Processes : \/ Start(p) \/ ProcessStep(p) \/ TimerFires(p) \/ Deadline(p)
                          \/ ServeFails(p) \/ Signal(p) \/ Killed(p)
                          \/ \E c \in Calls : CallArrives(c, p)
  \/ \E c \in Calls : CallReturns(c)

\* The process runs and its timers fire; a call need not return.
Fairness ==
  \A p \in Processes : WF_vars(ProcessStep(p)) /\ WF_vars(TimerFires(p)) /\ WF_vars(Deadline(p))

Spec == Init /\ [][Next]_vars
FairSpec == Spec /\ Fairness

-----------------------------------------------------------------------------
\* A start that fails leaves no socket of its own behind: run resolves the configuration and
\* builds the services before it listens.
StartFailures == {"clean", "config", "metadata", "auth", "endpoint", "in use"}
FailedStartLeavesNoSocket == \A p \in Processes : exit[p] \in StartFailures => path # p

\* No start finds its endpoint taken, whatever the runs before it left behind: a leftover
\* socket is removed, and a process that serves is reached through its path.
EndpointIsRecovered ==
  \A p \in Processes : exit[p] # "in use" /\ (pc[p] = "serve" /\ net[p] = "unix" => path = p)

\* A node starts without the cloud: no credentials are used, and with both facts given by flags
\* it does not fail for want of the metadata service (registerNode, resolveNodeFacts).
NodeStartsAlone ==
  [][\A p \in Processes : role[p] = "node" /\ pc'[p] # pc[p] =>
       exit'[p] # "auth" /\ (exit'[p] = "metadata" => \E f \in Facts : facts[p][f] # "flag")]_vars

\* A node that has opened its endpoint knows both facts it reports, although a metadata document
\* may lack one (NodeGetInfo would fail on every call otherwise).
ServesIdentified ==
  \A p \in Processes : role[p] = "node" /\ pc[p] \in {"serve", "stopping", "armed"} =>
    \A f \in Facts : facts[p][f] # "none"

\* A start ends: the process serves or is dead, although the metadata service is retried.
StartDecides == \A p \in Processes : pc[p] = "resolve" ~> pc[p] \in {"serve", "dead"}

\* A signalled process ends, although a call may never return (gracefulStopTimeout).
SignalledEnds == \A p \in Processes : ctx[p] ~> Dead(p)
=============================================================================
