--------------------------- MODULE LifecycleProofs ---------------------------
(***************************************************************************)
(* What holds of the plugin process for every number of runs and calls and *)
(* every set of settings.                                                  *)
(***************************************************************************)
EXTENDS Lifecycle, TLAPS

Places == {"off", "resolve", "backoff", "register", "clear", "bind", "serve", "stopping",
           "armed", "dead"}
Exits == StartFailures \cup {"none", "serve failed", "drained", "second signal", "timer", "killed"}

Types ==
  /\ path \in {"none", "file", "leftover"} \cup Processes
  /\ role \in [Processes -> {"none", "controller", "node"}]
  /\ net \in [Processes -> {"none", "unix", "tcp"}]
  /\ facts \in [Processes -> [Facts -> {"none", "flag", "metadata"}]]
  /\ pc \in [Processes -> Places]
  /\ exit \in [Processes -> Exits]

\* A process has ended exactly when there is an end of it to tell of.
EndsOnce == \A p \in Processes : exit[p] = "none" <=> pc[p] # "dead"

\* A socket is that of a process that got as far as to serve.
SocketIsOfServer ==
  \A p \in Processes : path = p =>
    pc[p] \in {"serve", "stopping", "armed", "dead"} /\ exit[p] \notin StartFailures

\* The services are built only from facts that are known, and only what is not known is asked for.
FactsBeforeServices ==
  \A p \in Processes :
    /\ role[p] = "node" /\ pc[p] \in {"clear", "bind", "serve", "stopping", "armed"} =>
         Identified(facts[p])
    /\ pc[p] \in {"resolve", "backoff"} => ~Identified(facts[p])

LifeInv == Types /\ EndsOnce /\ SocketIsOfServer /\ FactsBeforeServices

\* One process at a time, and what the path is when it comes to open or to serve its endpoint.
OneAlive == \A p, q \in Processes : Alive(p) /\ Alive(q) => p = q
PathIsReady ==
  \A p \in Processes : net[p] = "unix" =>
    /\ pc[p] = "bind" => path = "none"
    /\ pc[p] = "serve" => path = p
NeverInUse == \A p \in Processes : exit[p] # "in use"

SerialInv == LifeInv /\ OneAlive /\ PathIsReady /\ NeverInUse

-----------------------------------------------------------------------------
(* Lemmas about the settings and the steps.                                  *)

\* What Parse accepts names a role and a network (Parse, resolveEndpoint).
LEMMA Parsed ==
  ASSUME NEW s \in Inputs
  PROVE  /\ Parse(s) \in {"ok", "clean", "config"}
         /\ Parse(s) = "ok" => s.role \in {"controller", "node"}
                               /\ resolveEndpoint(s.endpoint) \in {"unix", "tcp"}
         /\ FactsOf(s) \in [Facts -> {"none", "flag", "metadata"}]
  <1>1. Parse(s) \in {"ok", "clean", "config"} /\ (Parse(s) = "ok" => Valid(s)) BY DEF Parse
  <1>2. resolveEndpoint(s.endpoint) \in {"invalid", "unix", "tcp"} BY DEF resolveEndpoint
  <1> QED BY <1>1, <1>2 DEF Valid, FactsOf

\* The order of the steps of run.
LEMMA Order ==
  /\ Following["resolve"] = "register" /\ Following["register"] = "clear"
  /\ Following["clear"] = "bind" /\ Following["bind"] = "serve"
  BY DEF Following

\* A process that ends forgets what it knew, and nobody else does.
LEMMA ExitEffect ==
  ASSUME Types, NEW p \in Processes, NEW how \in Exits, Exit(p, how)
  PROVE  /\ role' = [role EXCEPT ![p] = "none"]
         /\ net' = [net EXCEPT ![p] = "none"]
         /\ facts' = [facts EXCEPT ![p] = NoFacts]
         /\ pc' = [pc EXCEPT ![p] = "dead"]
         /\ exit' = [exit EXCEPT ![p] = how]
         /\ role' \in [Processes -> {"none", "controller", "node"}]
         /\ net' \in [Processes -> {"none", "unix", "tcp"}]
         /\ facts' \in [Processes -> [Facts -> {"none", "flag", "metadata"}]]
         /\ pc' \in [Processes -> Places]
         /\ exit' \in [Processes -> Exits]
  BY DEF Exit, Forget, Goto, Types, Places, NoFacts

\* Ending a process, with the path left alone or unlinked, keeps the invariant, as long as a
\* process that has its socket does not end as a failed start.
LEMMA ExitKeeps ==
  ASSUME LifeInv, NEW p \in Processes, NEW how \in Exits \ {"none"}, Exit(p, how),
         path' \in {path, "none"}, how \in StartFailures => path # p
  PROVE  LifeInv'
  <1> USE ExitEffect, ProcessesAssumption DEF LifeInv
  <1>1. Types' BY DEF Types
  <1>2. EndsOnce' BY DEF EndsOnce, Types
  <1>3. SocketIsOfServer'
    <2> SUFFICES ASSUME NEW q \in Processes, path' = q
                 PROVE  pc'[q] \in {"serve", "stopping", "armed", "dead"} /\ exit'[q] \notin StartFailures
      BY DEF SocketIsOfServer
    <2>1. path = q OBVIOUS
    <2>2. CASE q = p BY <2>1, <2>2 DEF Types
    <2>3. CASE q # p
      <3>1. pc'[q] = pc[q] /\ exit'[q] = exit[q] BY <2>3 DEF Types
      <3> QED BY <2>1, <3>1 DEF SocketIsOfServer
    <2> QED BY <2>2, <2>3
  <1>4. FactsBeforeServices'
    <2> SUFFICES ASSUME NEW q \in Processes PROVE FactsBeforeServices!(q)'
      BY DEF FactsBeforeServices
    <2>1. CASE q = p BY <2>1 DEF Types
    <2>2. CASE q # p BY <2>2 DEF Types, FactsBeforeServices
    <2> QED BY <2>1, <2>2
  <1> QED BY <1>1, <1>2, <1>3, <1>4

\* Going on to the next step.
LEMMA ContinueKeeps ==
  ASSUME LifeInv, NEW p \in Processes, NEW place \in Places \ {"dead"}, Continue(p, place),
         pc[p] # "dead", path' \in {path, "none"},
         path = p => place \in {"serve", "stopping", "armed"},
         place \in {"resolve", "backoff"} => pc[p] \in {"resolve", "backoff"},
         role[p] = "node" /\ place \in {"clear", "bind", "serve", "stopping", "armed"} =>
           Identified(facts[p])
  PROVE  LifeInv'
  <1> USE ProcessesAssumption DEF LifeInv, Continue, Goto, memory, configVars
  <1>1. Types' BY DEF Types
  <1>2. EndsOnce' BY DEF EndsOnce, Types
  <1>3. SocketIsOfServer' BY DEF SocketIsOfServer, Types
  <1>4. FactsBeforeServices'
    <2> SUFFICES ASSUME NEW q \in Processes PROVE FactsBeforeServices!(q)'
      BY DEF FactsBeforeServices
    <2>1. CASE q = p BY <2>1 DEF Types, FactsBeforeServices
    <2>2. CASE q # p BY <2>2 DEF Types, FactsBeforeServices
    <2> QED BY <2>1, <2>2
  <1> QED BY <1>1, <1>2, <1>3, <1>4

-----------------------------------------------------------------------------
(* The inductive invariant that needs nothing from the kubelet.              *)

\* Before the first run no process has a socket.
LEMMA LifeInit == Init => LifeInv
  <1> SUFFICES ASSUME Init PROVE LifeInv OBVIOUS
  <1>1. Types BY DEF Init, Types, Places, Exits, StartFailures, NoFacts
  <1>2. EndsOnce /\ SocketIsOfServer /\ FactsBeforeServices
    BY ProcessesAssumption DEF Init, EndsOnce, SocketIsOfServer, FactsBeforeServices
  <1> QED BY <1>1, <1>2 DEF LifeInv

\* A start that is refused ends, and any other knows what is left to ask for (Parse).
LEMMA StartKeeps ==
  ASSUME LifeInv, NEW p \in Processes, Start(p) PROVE LifeInv'
  <1>1. PICK s \in Inputs : Start(p)!3!(s) BY DEF Start
  <1>2. pc[p] = "off" /\ path' = path BY DEF Start
  <1>3. path # p BY <1>2 DEF LifeInv, SocketIsOfServer
  <1>4. CASE Parse(s) # "ok"
    BY <1>1, <1>2, <1>3, <1>4, Parsed, ExitKeeps DEF Exits, StartFailures
  <1>5. CASE Parse(s) = "ok"
    <2> DEFINE next == IF NeedsMetadata(s.role, FactsOf(s)) THEN "resolve" ELSE "register"
    <2>1. /\ role' = [role EXCEPT ![p] = s.role]
          /\ net' = [net EXCEPT ![p] = resolveEndpoint(s.endpoint)]
          /\ facts' = [facts EXCEPT ![p] = FactsOf(s)]
          /\ pc' = [pc EXCEPT ![p] = next]
          /\ exit' = exit
      BY <1>1, <1>5, Order DEF Goto
    <2>2. next \in {"resolve", "register"} /\ (next = "resolve" => ~Identified(FactsOf(s)))
      BY DEF NeedsMetadata, Identified
    <2> HIDE DEF next
    <2>3. Types' BY <1>2, <1>5, <2>1, <2>2, Parsed DEF LifeInv, Types, Places
    <2>4. EndsOnce' BY <1>2, <2>1, <2>2 DEF LifeInv, Types, EndsOnce
    <2>5. SocketIsOfServer' BY <1>2, <1>3, <2>1, <2>2 DEF LifeInv, Types, SocketIsOfServer
    <2>6. FactsBeforeServices'
      <3> SUFFICES ASSUME NEW q \in Processes PROVE FactsBeforeServices!(q)'
        BY DEF FactsBeforeServices
      <3>1. CASE q = p BY <2>1, <2>2, <3>1 DEF LifeInv, Types
      <3>2. CASE q # p BY <2>1, <3>2 DEF LifeInv, Types, FactsBeforeServices
      <3> QED BY <3>1, <3>2
    <2> QED BY <2>3, <2>4, <2>5, <2>6 DEF LifeInv
  <1> QED BY <1>4, <1>5

\* A document that names all that is missing lets the start go on; anything else ends it or
\* is tried again (resolveNodeFacts).
LEMMA AttemptKeeps ==
  ASSUME LifeInv, NEW p \in Processes, Attempt(p) PROVE LifeInv'
  <1>1. pc[p] = "resolve" /\ path' = path BY DEF Attempt
  <1>2. path # p BY <1>1 DEF LifeInv, SocketIsOfServer
  <1>3. CASE Exit(p, "metadata") BY <1>1, <1>2, <1>3, ExitKeeps DEF Exits, StartFailures
  <1>4. CASE Continue(p, "backoff") BY <1>1, <1>2, <1>4, ContinueKeeps DEF Places
  <1>5. ASSUME NEW document \in SUBSET Facts, Identified(Filled(facts[p], document)),
               facts' = [facts EXCEPT ![p] = Filled(@, document)],
               Goto(p, "register"), UNCHANGED <<role, net, exit>>
        PROVE  LifeInv'
    <2> USE <1>1, <1>2, <1>5 DEF LifeInv, Goto
    <2>1. Filled(facts[p], document) \in [Facts -> {"none", "flag", "metadata"}]
      BY DEF Filled, Types
    <2>2. Types' BY <2>1 DEF Types, Places
    <2>3. EndsOnce' BY DEF Types, EndsOnce
    <2>4. SocketIsOfServer' BY DEF Types, SocketIsOfServer
    <2>5. FactsBeforeServices'
      <3> SUFFICES ASSUME NEW q \in Processes PROVE FactsBeforeServices!(q)'
        BY DEF FactsBeforeServices
      <3>1. CASE q = p BY <3>1 DEF Types
      <3>2. CASE q # p BY <3>2 DEF Types, FactsBeforeServices
      <3> QED BY <3>1, <3>2
    <2> QED BY <2>2, <2>3, <2>4, <2>5
  <1> QED BY <1>1, <1>3, <1>4, <1>5, Order DEF Attempt

\* The steps that open the endpoint.
LEMMA OpenKeeps ==
  ASSUME LifeInv, NEW p \in Processes,
         BackoffEnds(p) \/ Register(p) \/ ClearStaleSocket(p) \/ Listen(p)
  PROVE  LifeInv'
  <1> USE DEF Exits, StartFailures, Places
  <1>1. pc[p] \in {"backoff", "register", "clear", "bind"}
    BY DEF BackoffEnds, Register, ClearStaleSocket, Listen
  <1>2. path # p BY <1>1 DEF LifeInv, SocketIsOfServer
  <1>3. CASE BackoffEnds(p) BY <1>2, <1>3, ExitKeeps, ContinueKeeps DEF BackoffEnds
  <1>4. CASE Register(p)
    BY <1>2, <1>4, ExitKeeps, ContinueKeeps, Order DEF Register, Proceed
  <1>5. CASE ClearStaleSocket(p)
    <2>1. role[p] = "node" => Identified(facts[p])
      BY <1>5 DEF ClearStaleSocket, LifeInv, FactsBeforeServices
    <2> QED BY <1>2, <1>5, <2>1, ExitKeeps, ContinueKeeps, Order DEF ClearStaleSocket, Proceed
  <1>6. CASE Listen(p)
    <2>1. pc[p] = "bind" /\ (role[p] = "node" => Identified(facts[p]))
      BY <1>6 DEF Listen, LifeInv, FactsBeforeServices
    <2>2. CASE path' = path /\ (Proceed(p) \/ Exit(p, "in use") \/ Exit(p, "endpoint"))
      BY <1>2, <2>1, <2>2, ExitKeeps, ContinueKeeps, Order DEF Proceed
    <2>3. CASE path' = p /\ Proceed(p)
      <3> USE <2>1, <2>3, Order DEF Proceed, Continue, Goto, memory, configVars, LifeInv
      <3>1. Types' BY DEF Types
      <3>2. EndsOnce' BY DEF Types, EndsOnce
      <3>3. SocketIsOfServer' BY DEF Types, SocketIsOfServer, EndsOnce
      <3>4. FactsBeforeServices' BY DEF Types, FactsBeforeServices
      <3> QED BY <3>1, <3>2, <3>3, <3>4
    <2> QED BY <1>6, <2>2, <2>3 DEF Listen
  <1> QED BY <1>3, <1>4, <1>5, <1>6

\* A step that touches only the path, by unlinking it, or what the invariant does not look at.
LEMMA AsideKeeps ==
  ASSUME LifeInv, path' \in {path, "none"}, UNCHANGED <<role, net, facts, pc, exit>>
  PROVE  LifeInv'
  <1> USE ProcessesAssumption DEF LifeInv
  <1>1. Types' BY DEF Types
  <1>2. EndsOnce' /\ FactsBeforeServices' BY DEF EndsOnce, FactsBeforeServices
  <1>3. SocketIsOfServer' BY DEF SocketIsOfServer
  <1> QED BY <1>1, <1>2, <1>3

\* The steps by which a process serves and stops.
LEMMA ServeKeeps ==
  ASSUME LifeInv, NEW p \in Processes,
         \/ StopBegins(p) \/ GracefulStop(p) \/ Arm(p) \/ Drained(p) \/ SecondSignal(p)
         \/ TimerFires(p) \/ ServeFails(p) \/ Killed(p)
  PROVE  LifeInv'
  <1> USE DEF Exits, StartFailures, Places, Unlink
  <1>1. CASE StopBegins(p) \/ Arm(p)
    <2>1. role[p] = "node" => Identified(facts[p])
      BY <1>1 DEF StopBegins, Arm, LifeInv, FactsBeforeServices
    <2> QED BY <1>1, <2>1, ContinueKeeps DEF StopBegins, Arm, Continue
  <1>2. CASE GracefulStop(p) BY <1>2, AsideKeeps DEF GracefulStop, configVars
  <1>3. CASE Drained(p) \/ SecondSignal(p) \/ TimerFires(p) \/ ServeFails(p) \/ Killed(p)
    BY <1>3, ExitKeeps DEF Drained, SecondSignal, TimerFires, Stop, ServeFails, Killed
  <1> QED BY <1>1, <1>2, <1>3

\* No step of any run breaks the invariant.
LEMMA LifeStep == LifeInv /\ [Next]_vars => LifeInv'
  <1> SUFFICES ASSUME LifeInv, [Next]_vars PROVE LifeInv' OBVIOUS
  <1>1. CASE \E p \in Processes : Deadline(p) \/ Signal(p)
    BY <1>1, AsideKeeps DEF Deadline, Signal, configVars
  <1>2. CASE \E c \in Calls : CallReturns(c) \/ \E p \in Processes : CallArrives(c, p)
    BY <1>2, AsideKeeps DEF CallReturns, CallArrives, memory, configVars
  <1>3. CASE UNCHANGED vars BY <1>3, AsideKeeps DEF vars, memory, configVars
  <1> QED
    BY <1>1, <1>2, <1>3, StartKeeps, AttemptKeeps, OpenKeeps, ServeKeeps DEF Next, ProcessStep

\* A start that fails leaves no socket of its own behind, even while another process runs: the
\* services are built before the endpoint is opened (run).
THEOREM FailedStartLeavesNoSocketAlways == Spec => []FailedStartLeavesNoSocket
  <1>1. LifeInv => FailedStartLeavesNoSocket
    BY DEF LifeInv, SocketIsOfServer, FailedStartLeavesNoSocket
  <1> QED BY LifeInit, LifeStep, <1>1, PTL DEF Spec

\* A node that has opened its endpoint knows both facts it reports (validateNodeFacts).
THEOREM ServesIdentifiedAlways == Spec => []ServesIdentified
  <1>1. LifeInv => ServesIdentified
    BY DEF LifeInv, FactsBeforeServices, ServesIdentified, Identified
  <1> QED BY LifeInit, LifeStep, <1>1, PTL DEF Spec

-----------------------------------------------------------------------------
(* What holds when the kubelet starts a run only after the one before it.    *)

\* A process that ends takes nothing from the others, and leaves no other alive.
LEMMA SerialExit ==
  ASSUME SerialInv, NEW p \in Processes, NEW how \in Exits \ {"none", "in use"}, Exit(p, how),
         Alive(p) \/ \A q \in Processes : ~Alive(q)
  PROVE  OneAlive' /\ PathIsReady' /\ NeverInUse'
  <1> USE DEF SerialInv, LifeInv
  <1>0. pc' = [pc EXCEPT ![p] = "dead"] /\ exit' = [exit EXCEPT ![p] = how]
    BY DEF Exit, Goto
  <1>1. \A q \in Processes : ~Alive(q)' BY <1>0 DEF OneAlive, Alive, Types
  <1>2. OneAlive' BY <1>1 DEF OneAlive
  <1>3. PathIsReady' BY <1>1 DEF PathIsReady, Alive
  <1>4. NeverInUse' BY <1>0 DEF NeverInUse, Types
  <1> QED BY <1>2, <1>3, <1>4

\* A process that goes on finds the path as the invariant says for its next place.
LEMMA SerialContinue ==
  ASSUME SerialInv, NEW p \in Processes, Alive(p), NEW place \in Places \ {"off", "dead"},
         pc' = [pc EXCEPT ![p] = place], UNCHANGED exit,
         net' = net,
         net[p] = "unix" => /\ place = "bind" => path' = "none"
                            /\ place = "serve" => path' = p
  PROVE  OneAlive' /\ PathIsReady' /\ NeverInUse'
  <1> USE DEF SerialInv, LifeInv
  <1>1. \A q \in Processes : Alive(q)' => q = p BY DEF OneAlive, Alive, Types
  <1>2. OneAlive' BY <1>1 DEF OneAlive
  <1>3. PathIsReady'
    <2> SUFFICES ASSUME NEW q \in Processes PROVE PathIsReady!(q)' BY DEF PathIsReady
    <2>1. CASE q = p BY <2>1 DEF Types
    <2>2. CASE q # p BY <1>1, <2>2 DEF Alive
    <2> QED BY <2>1, <2>2
  <1>4. NeverInUse' BY DEF NeverInUse
  <1> QED BY <1>2, <1>3, <1>4

\* Before the first run nothing is alive.
LEMMA SerialInit == Init => SerialInv
  <1> SUFFICES ASSUME Init PROVE SerialInv OBVIOUS
  <1>1. OneAlive /\ PathIsReady /\ NeverInUse BY DEF Init, OneAlive, PathIsReady, NeverInUse, Alive
  <1> QED BY <1>1, LifeInit DEF SerialInv

\* The steps of the one process that is alive, and its start: a leftover socket is removed
\* before the endpoint is opened, and nobody else comes in between.
LEMMA SerialStep ==
  ASSUME ~Overlap, SerialInv, [Next]_vars PROVE SerialInv'
  <1>1. LifeInv' BY LifeStep DEF SerialInv
  <1> SUFFICES OneAlive' /\ PathIsReady' /\ NeverInUse' BY <1>1 DEF SerialInv
  <1> USE Order DEF Exits, StartFailures, Places, Alive
  <1>2. ASSUME NEW p \in Processes, Start(p) PROVE OneAlive' /\ PathIsReady' /\ NeverInUse'
    <2>1. pc[p] = "off" /\ \A q \in Processes : ~Alive(q) BY <1>2 DEF Start
    <2>2. PICK s \in Inputs : Start(p)!3!(s) BY <1>2 DEF Start
    <2>3. CASE Parse(s) # "ok"
      <3>1. Exit(p, Parse(s)) /\ Parse(s) \in Exits \ {"none", "in use"} BY <2>2, <2>3, Parsed
      <3> QED BY <2>1, <3>1, SerialExit
    <2>4. CASE Parse(s) = "ok"
      <3>1. exit' = exit /\ \E place \in {"resolve", "register"} : pc' = [pc EXCEPT ![p] = place]
        BY <2>2, <2>4 DEF Goto
      <3>2. OneAlive'
        <4>1. \A q \in Processes : Alive(q)' => q = p BY <2>1, <3>1 DEF SerialInv, LifeInv, Types
        <4> QED BY <4>1 DEF OneAlive
      <3>3. PathIsReady' BY <2>1, <3>1 DEF PathIsReady, SerialInv, LifeInv, Types
      <3> QED BY <3>1, <3>2, <3>3 DEF NeverInUse, SerialInv
    <2> QED BY <2>3, <2>4
  <1>3. ASSUME NEW p \in Processes, Attempt(p) \/ BackoffEnds(p) \/ Register(p)
        PROVE  OneAlive' /\ PathIsReady' /\ NeverInUse'
    <2>1. Alive(p) BY <1>3 DEF Attempt, BackoffEnds, Register
    <2>2. CASE Exit(p, "metadata") \/ Exit(p, "auth") BY <2>1, <2>2, SerialExit
    <2>3. CASE /\ UNCHANGED <<net, exit>>
               /\ \E place \in {"register", "backoff", "resolve", "clear"} : pc' = [pc EXCEPT ![p] = place]
      BY <2>1, <2>3, SerialContinue
    <2> QED
      BY <1>3, <2>2, <2>3 DEF Attempt, BackoffEnds, Register, Proceed, Continue, Goto, memory, configVars
  <1>4. ASSUME NEW p \in Processes, ClearStaleSocket(p) PROVE OneAlive' /\ PathIsReady' /\ NeverInUse'
    <2>1. Alive(p) /\ pc[p] = "clear" BY <1>4 DEF ClearStaleSocket
    <2>2. CASE Exit(p, "endpoint") BY <2>1, <2>2, SerialExit
    <2>3. CASE Proceed(p) /\ (net[p] = "tcp" \/ path' = "none")
      BY <2>1, <2>3, SerialContinue DEF Proceed, Continue, Goto, memory, configVars
    <2> QED BY <1>4, <2>2, <2>3 DEF ClearStaleSocket
  <1>5. ASSUME NEW p \in Processes, Listen(p) PROVE OneAlive' /\ PathIsReady' /\ NeverInUse'
    <2>1. Alive(p) /\ pc[p] = "bind" BY <1>5 DEF Listen
    <2>2. CASE Exit(p, "endpoint") BY <2>1, <2>2, SerialExit
    <2>3. CASE Proceed(p) /\ (net[p] = "tcp" \/ path' = p)
      BY <2>1, <2>3, SerialContinue DEF Proceed, Continue, Goto, memory, configVars
    <2>4. ~(net[p] = "unix" /\ path # "none") BY <2>1 DEF SerialInv, PathIsReady
    <2> QED BY <1>5, <2>2, <2>3, <2>4 DEF Listen
  <1>6. ASSUME NEW p \in Processes, StopBegins(p) \/ Arm(p)
        PROVE  OneAlive' /\ PathIsReady' /\ NeverInUse'
    BY <1>6, SerialContinue DEF StopBegins, Arm, Goto, memory, configVars
  <1>7. ASSUME NEW p \in Processes, GracefulStop(p) PROVE OneAlive' /\ PathIsReady' /\ NeverInUse'
    <2>1. Alive(p) /\ pc[p] \in {"stopping", "armed"} /\ UNCHANGED <<net, pc, exit>>
      BY <1>7 DEF GracefulStop, configVars
    <2>2. \A q \in Processes : Alive(q) => q = p BY <2>1 DEF SerialInv, OneAlive
    <2>3. PathIsReady' BY <2>1, <2>2 DEF PathIsReady
    <2> QED BY <2>1, <2>3 DEF SerialInv, OneAlive, NeverInUse
  <1>8. ASSUME NEW p \in Processes,
               Drained(p) \/ SecondSignal(p) \/ TimerFires(p) \/ ServeFails(p) \/ Killed(p)
        PROVE  OneAlive' /\ PathIsReady' /\ NeverInUse'
    <2>1. Alive(p) BY <1>8 DEF Drained, SecondSignal, TimerFires, Stop, ServeFails, Killed
    <2> QED BY <1>8, <2>1, SerialExit DEF Drained, SecondSignal, TimerFires, Stop, ServeFails, Killed
  <1>9. ASSUME UNCHANGED <<path, net, pc, exit>> PROVE OneAlive' /\ PathIsReady' /\ NeverInUse'
    BY <1>9 DEF SerialInv, OneAlive, PathIsReady, NeverInUse
  <1> QED
    BY <1>2, <1>3, <1>4, <1>5, <1>6, <1>7, <1>8, <1>9
       DEF Next, ProcessStep, vars, Deadline, Signal, CallArrives, CallReturns, memory, configVars

\* No start finds its endpoint taken, and a process that serves is reached through its path,
\* whatever the runs before it left behind, if one run starts after the other (clearStaleSocket).
THEOREM EndpointIsRecoveredAlways ==
  ASSUME ~Overlap PROVE Spec => []EndpointIsRecovered
  <1>1. SerialInv => EndpointIsRecovered
    BY DEF SerialInv, PathIsReady, NeverInUse, EndpointIsRecovered
  <1>2. SerialInv /\ [Next]_vars => SerialInv' BY SerialStep
  <1> QED BY SerialInit, <1>1, <1>2, PTL DEF Spec

-----------------------------------------------------------------------------
(* What a node needs of the cloud.                                           *)

\* A node never fails to start for want of credentials, nor for want of the metadata service
\* when both of its facts are given by flags (registerNode, resolveNodeFacts).
THEOREM NodeStartsAloneAlways == Spec => NodeStartsAlone
  <1>1. ASSUME LifeInv, [Next]_vars, NEW p \in Processes, role[p] = "node", pc'[p] # pc[p],
               exit'[p] \in {"auth", "metadata"}
        PROVE  exit'[p] = "metadata" /\ \E f \in Facts : facts[p][f] # "flag"
    <2> USE <1>1 DEF LifeInv, Types, Goto
    <2>1. CASE Exit(p, "metadata") /\ pc[p] \in {"resolve", "backoff"}
      BY <2>1 DEF Exit, FactsBeforeServices, Identified
    <2>2. ASSUME NEW q \in Processes, NEW how \in Exits \ {"auth", "metadata"}, Exit(q, how)
          PROVE  FALSE
      BY <2>2 DEF Exit
    <2>3. ASSUME NEW q \in Processes, exit' = exit, pc[q] # "dead",
                 \E place : pc' = [pc EXCEPT ![q] = place]
          PROVE  FALSE
      <3>1. pc[p] = "dead" BY <2>3 DEF EndsOnce
      <3> QED BY <2>3, <3>1
    <2>4. ASSUME NEW q \in Processes, Exit(q, "metadata") \/ Exit(q, "auth") PROVE q = p
      BY <2>4 DEF Exit
    <2> USE Order DEF Exits, StartFailures, Places
    <2>5. ASSUME NEW q \in Processes, Start(q) PROVE FALSE
      <3>1. PICK s \in Inputs : Start(q)!3!(s) BY <2>5 DEF Start
      <3>2. CASE Parse(s) # "ok" BY <2>2, <3>1, <3>2, Parsed
      <3>3. CASE Parse(s) = "ok" BY <2>3, <2>5, <3>1, <3>3 DEF Start
      <3> QED BY <3>2, <3>3
    <2>6. ASSUME NEW q \in Processes, Attempt(q) \/ BackoffEnds(q)
          PROVE  Exit(p, "metadata") /\ pc[p] \in {"resolve", "backoff"}
      <3>1. pc[q] \in {"resolve", "backoff"} BY <2>6 DEF Attempt, BackoffEnds
      <3>2. Exit(q, "metadata") \/ (exit' = exit /\ \E place : pc' = [pc EXCEPT ![q] = place])
        BY <2>6 DEF Attempt, BackoffEnds, Continue
      <3> QED BY <2>3, <2>4, <3>1, <3>2
    <2>7. ASSUME NEW q \in Processes, Register(q) PROVE FALSE
      <3>1. \/ role[q] = "controller" /\ Exit(q, "auth")
            \/ exit' = exit /\ \E place : pc' = [pc EXCEPT ![q] = place]
        BY <2>7 DEF Register, Proceed, Continue
      <3> QED BY <2>3, <2>4, <2>7, <3>1 DEF Register
    <2>8. ASSUME NEW q \in Processes,
                 ClearStaleSocket(q) \/ Listen(q) \/ StopBegins(q) \/ Arm(q)
          PROVE  FALSE
      BY <2>2, <2>3, <2>8 DEF ClearStaleSocket, Listen, StopBegins, Arm, Proceed, Continue
    <2>9. ASSUME NEW q \in Processes,
                 Drained(q) \/ SecondSignal(q) \/ TimerFires(q) \/ ServeFails(q) \/ Killed(q)
          PROVE  FALSE
      BY <2>2, <2>9 DEF Drained, SecondSignal, TimerFires, Stop, ServeFails, Killed
    <2>10. pc' # pc OBVIOUS
    <2> QED
      BY <2>1, <2>5, <2>6, <2>7, <2>8, <2>9, <2>10, Zenon
         DEF Next, ProcessStep, vars, GracefulStop, Deadline, Signal, CallArrives, CallReturns
  <1>2. LifeInv /\ [Next]_vars =>
          [\A p \in Processes : role[p] = "node" /\ pc'[p] # pc[p] =>
             exit'[p] # "auth" /\ (exit'[p] = "metadata" => \E f \in Facts : facts[p][f] # "flag")]_vars
    BY <1>1
  <1> QED BY LifeInit, LifeStep, <1>2, PTL DEF Spec, NodeStartsAlone
=============================================================================
