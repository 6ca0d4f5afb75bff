--------------------------- MODULE Configuration ---------------------------
(***************************************************************************)
(* The operator's input to one process (internal/config/config.go): what   *)
(* Parse makes of the flags and the environment, and what is left to ask   *)
(* the node metadata service for.  Values are kept only as far as Parse    *)
(* tells them apart.                                                       *)
(***************************************************************************)
\* The environment variables a controller needs, and the facts a node needs.
Credentials == {"OS_AUTH_URL", "OS_ACCESS_KEY", "OS_SECRET_KEY", "OS_PROJECT_ID", "OS_REGION_NAME"}
Facts == {"nodeid", "availability-zone"}

\* The parts of an endpoint URI; a path is "none", "clean" (absolute too) or "other", and extra
\* stands for a query, a fragment or user information.
Endpoints ==
  [scheme: {"none", "unix", "tcp", "other"}, host: BOOLEAN, path: {"none", "clean", "other"},
   extra: BOOLEAN]

DefaultEndpoint == [scheme |-> "unix", host |-> FALSE, path |-> "clean", extra |-> FALSE]

\* flags: "ok", "bad", "help" or "version"; env: the variables with a value fit for use; given:
\* the facts given by flags.
Settings ==
  [flags: {"ok", "bad", "help", "version"}, role: {"none", "controller", "node", "other"},
   endpoint: Endpoints, env: SUBSET Credentials, given: SUBSET Facts]

\* The network to listen on, or "invalid".
resolveEndpoint(e) ==
  IF e.extra \/ e.scheme \in {"none", "other"} THEN "invalid"
  ELSE IF e.scheme = "tcp" THEN IF e.host /\ e.path = "none" THEN "tcp" ELSE "invalid"
  ELSE IF ~e.host /\ e.path = "clean" THEN "unix" ELSE "invalid"

\* Only a controller looks at the environment.
Valid(s) ==
  /\ s.role \in {"controller", "node"}
  /\ resolveEndpoint(s.endpoint) # "invalid"
  /\ s.role = "controller" => s.env = Credentials

\* How the process goes on after Parse: --help and --version end it well.
Parse(s) ==
  IF s.flags \in {"help", "version"} THEN "clean"
  ELSE IF s.flags = "bad" \/ ~Valid(s) THEN "config"
  ELSE "ok"

NoFacts == [f \in Facts |-> "none"]

\* Mutant: one fact is enough.
IdentifiedByEither(facts) == \E f \in Facts : facts[f] # "none"

\* validateNodeFacts, and NewNodeService once more.
Identified(facts) == \A f \in Facts : facts[f] # "none"

\* Where the facts of a setting come from before metadata is asked.
FactsOf(s) == [f \in Facts |-> IF f \in s.given THEN "flag" ELSE "none"]

\* Explicit flags win per field; the document, which may lack a field, fills the rest.
Filled(facts, document) ==
  [f \in Facts |-> IF facts[f] # "none" THEN facts[f]
                   ELSE IF f \in document THEN "metadata" ELSE "none"]

\* Mutant: the metadata service is asked in any case.
NeedsMetadataAlways(role, facts) == role = "node"

\* The metadata call is skipped when both facts are set, and by a controller.
NeedsMetadata(role, facts) == role = "node" /\ ~(\A f \in Facts : facts[f] # "none")
=============================================================================
