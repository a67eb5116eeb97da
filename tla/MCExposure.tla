----------------------------- MODULE MCExposure -----------------------------
(***************************************************************************)
(* An instance of Exposure for TLC.                                         *)
(***************************************************************************)
EXTENDS Exposure

Bare == [expose |-> "none", host |-> TRUE, port |-> 0, tls |-> FALSE,
         inject |-> TRUE, env |-> "configMap"]
ByIngress == [Bare EXCEPT !.expose = "ingress", !.port = 443]
ByGateway == [Bare EXCEPT !.expose = "gateway", !.port = 443, !.tls = TRUE]
Hostless == [ByGateway EXCEPT !.host = FALSE, !.env = "unset"]
Ambiguous == [ByIngress EXCEPT !.env = "twice"]
Own == [ByIngress EXCEPT !.tls = TRUE, !.port = 8443, !.env = "extraEnv"]

\* The three modes follow each other in any order; the rest come from a gateway.
AnyEdit ==
    LET modes == {Bare, ByIngress, ByGateway}
        others == {Hostless, Ambiguous, Own}
    IN  {e \in modes \X modes : e[1] # e[2]}
        \cup ({ByGateway} \X others) \cup (others \X {ByGateway})

OneSquatter == {<<"route", "other">>, <<"ingress", "free">>}

Bounds == [l \in BOOLEAN |-> IF l THEN 2 ELSE 3]

=============================================================================
