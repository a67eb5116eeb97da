---------------------------- MODULE ServicePorts ----------------------------
(***************************************************************************)
(* The ports under which a control plane is reached, as functions of the     *)
(* spec's service port (0 when unset) and of whether TLS is configured       *)
(* (internal/controller/codercontrolplane_controller.go).  Five places       *)
(* compute one: the Service, the backends of Ingress and HTTPRoute, the       *)
(* access URL, the status URL and the URL of the operator's own calls.       *)
(***************************************************************************)
EXTENDS Integers

DefaultPort == 80
TLSPort == 443
TargetPort == 8080     \* where coderd listens for HTTP
TLSTargetPort == 8443  \* and for HTTPS

MaxPort == 65535
Ports == 0 .. MaxPort

PortOf(s) == IF s.port = 0 THEN DefaultPort ELSE s.port

ServicePort(name, port, target) == [name |-> name, port |-> port, target |-> target]

\* reconcileService
ServicePortsOf(s) ==
    LET http(port) == ServicePort("http", port, TargetPort)
        https(port) == ServicePort("https", port, TLSTargetPort)
    IN  IF ~s.tls
        THEN {http(PortOf(s))}
        ELSE IF PortOf(s) = TLSPort
             THEN {https(TLSPort), http(DefaultPort)}
             ELSE {http(PortOf(s)), https(TLSPort)}

\* Mutation: the backend is the spec's port even where that speaks TLS.
BackendPortUnchecked(s) == PortOf(s)

\* httpRouteBackendServicePort, also behind controlPlaneSDKURL
BackendPort(s) == IF s.tls /\ PortOf(s) = TLSPort THEN DefaultPort ELSE PortOf(s)

\* The in-cluster URL of desiredStatus and of CODER_ACCESS_URL.
ClusterURL(s) ==
    IF s.tls
    THEN [scheme |-> "https", port |-> TLSPort]
    ELSE [scheme |-> "http", port |-> PortOf(s)]

\* A Service with these ports takes HTTP requests at the port.
TakesHTTP(ports, port) == ServicePort("http", port, TargetPort) \in ports

\* A Service with these ports answers the URL in the URL's scheme.
Answers(ports, url) ==
    \E p \in ports : /\ p.port = url.port
                     /\ p.target = IF url.scheme = "https" THEN TLSTargetPort ELSE TargetPort

=============================================================================
