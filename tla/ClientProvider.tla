--------------------------- MODULE ClientProvider ---------------------------
(***************************************************************************)
(* How the aggregated API server and the MCP server come by a coderd client  *)
(* (internal/aggregated/coder/controlplane_provider.go), beside the          *)
(* controller of OperatorAccess that prepares the token.  They list the      *)
(* CoderControlPlanes in the manager's cache and read the Secret live.       *)
(***************************************************************************)
EXTENDS OperatorAccess, FiniteSets

CONSTANTS
    Namespace,  \* where the control plane of OperatorAccess lives
    Neighbours  \* the other control planes the cache holds, whose state is fixed

\* What the provider looks at: dotted names cannot be expressed in the names of
\* aggregated resources; url is whether status.url is set.
Candidates(Namespaces) ==
    [ns : Namespaces, dotted : BOOLEAN, disabled : BOOLEAN, ready : BOOLEAN,
     ref : Opt(SecretNames), url : BOOLEAN]

\* desiredStatus sets the URL with every status.
Ours == [ns |-> Namespace, dotted |-> FALSE, disabled |-> seen.spec.disabled,
         ready |-> seen.status.ready, ref |-> seen.status.ref,
         url |-> seen.status.gen # 0]

ControlPlanes == Neighbours \cup {Ours}

\* findEligibleControlPlanes, in one namespace or in all of them.
Eligible(cp) == ~cp.dotted /\ ~cp.disabled /\ cp.ready /\ cp.ref # None /\ cp.url

EligibleIn(ns) == {cp \in ControlPlanes : Eligible(cp) /\ cp.ns = ns}

\* Mutation: the eligible ones are counted across all namespaces.
ClientForAnyNamespace(ns) ==
    IF Cardinality({cp \in ControlPlanes : Eligible(cp)}) # 1
    THEN None
    ELSE LET cp == CHOOSE cp \in ControlPlanes : Eligible(cp) IN secrets[cp.ref]

\* The token the client is given, or None if there is no client: exactly one control
\* plane must be eligible, and its Secret must hold a token.
ClientForNamespace(ns) ==
    IF Cardinality(EligibleIn(ns)) # 1
    THEN None
    ELSE LET cp == CHOOSE cp \in EligibleIn(ns) : TRUE IN secrets[cp.ref]

\* The namespaces of an all-namespaces LIST, or None if there are none or one of
\* them is ambiguous.
EligibleNamespaces ==
    LET served == {cp.ns : cp \in {c \in ControlPlanes : Eligible(c)}}
    IN  IF served = {} \/ \E ns \in served : Cardinality(EligibleIn(ns)) > 1
        THEN None
        ELSE served

-----------------------------------------------------------------------------
(* Properties.                                                               *)

\* A client for the namespace can log in to the control plane's coderd.
ClientWorks ==
    /\ ClientForNamespace(Namespace) # None
    /\ spec.db # None
    /\ StillValid(spec.db, ClientForNamespace(Namespace))

\* Once disturbances stop, requests for the namespace and LISTs of all namespaces
\* reach coderd if access is enabled and coderd is up, and are refused if access is
\* disabled, whatever other control planes there are: the status the provider
\* trusts comes to agree with Secret and database.
RequestsServed ==
    <>[]/\ serving /\ ~spec.disabled /\ spec.db # None =>
              /\ ClientWorks
              /\ EligibleNamespaces # None
              /\ Namespace \in EligibleNamespaces
        /\ spec.disabled => ClientForNamespace(Namespace) = None

\* No other control plane in the namespace takes part.  (Were there one, the provider
\* would refuse to choose as soon as ours is announced.)
SoleInNamespace == \A cp \in Neighbours : cp.ns = Namespace => ~Eligible(cp)

\* The periodic reconcile does not interrupt service: in a reconcile of the current
\* spec with an up-to-date cache, a client that works before a step works after it,
\* unless a call to the database has failed, which the status then announces.
NoInterruption ==
    [][/\ ~lag
       /\ Controller
       /\ UNCHANGED disturbances
       /\ pc # "idle" => loc.spec = spec
       /\ pc = "status" => loc.next.ready
       /\ status.ref = spec.secret
       /\ ClientWorks
       => ClientWorks']_vars

=============================================================================
