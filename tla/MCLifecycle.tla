---------------------------- MODULE MCLifecycle ----------------------------
(* A small instance of Lifecycle: a run of the plugin and its successor, and *)
(* settings that differ from a usual one in one part.                        *)
EXTENDS Lifecycle
CONSTANTS p1, p2, c1, c2

Usual(r, given) ==
  [flags |-> "ok", role |-> r, endpoint |-> DefaultEndpoint, env |-> Credentials, given |-> given]

MCInputs ==
  {Usual("node", given) : given \in SUBSET Facts}
    \cup {[Usual("node", Facts) EXCEPT !.env = {}, !.endpoint = e] : e \in Endpoints}
    \cup {[Usual("controller", {}) EXCEPT !.env = env] : env \in SUBSET Credentials}
    \cup {[Usual(r, {}) EXCEPT !.flags = flags] :
            r \in {"none", "controller", "other"}, flags \in {"ok", "bad", "help", "version"}}
=============================================================================
