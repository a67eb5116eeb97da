-------------------------- MODULE MCProvisionerKey --------------------------
(***************************************************************************)
(* Instances of ProvisionerKey for TLC: the objects, the states of control  *)
(* planes and the edits that the runs use.                                  *)
(***************************************************************************)
EXTENDS ProvisionerKey

ServerOfURL == [u \in URLs |-> IF u = "u2" THEN "srv2" ELSE "srv1"]
HomeOfCP == [c \in ControlPlanes |-> IF c = "cp2" THEN "srv2" ELSE "srv1"]

\* Control planes that stay open; the URL of one moves to another name of the same
\* deployment.
Open(url) == [url |-> url, access |-> TRUE, entitled |-> TRUE]
OpenCPs == [c \in ControlPlanes |-> {Open(IF c = "cp2" THEN "u2" ELSE "u1")}]
MovingCPs == [c \in ControlPlanes |-> IF c = "cp2" THEN {Open("u2")} ELSE {Open("u1"), Open("u1b")}]

\* A control plane that closes and opens again under the same URL.
ClosingCPs ==
    [c \in ControlPlanes |->
        IF c = "cp2" THEN {Open("u2")}
        ELSE {Open("u1"), [Open("u1") EXCEPT !.access = FALSE],
              [Open("u1") EXCEPT !.entitled = FALSE],
              [Open("u1") EXCEPT !.url = None]}]

Base == [cp |-> "cp1", org |-> "o1", name |-> "k1", tags |-> "t1", secret |-> "s1"]
Tagged == [Base EXCEPT !.tags = "t2"]
Renamed == [Base EXCEPT !.name = "k2"]
Moved == [Base EXCEPT !.secret = "s2"]
Rehomed == [Base EXCEPT !.cp = "cp2"]

OnlyBase == {Base}
AllSpecs == {Base, Tagged, Renamed, Moved, Rehomed}

OneWay == {<<Base, Tagged>>, <<Tagged, Renamed>>, <<Base, Rehomed>>}
TagEdits == {<<Base, Tagged>>, <<Tagged, Base>>}
SecretEdits == {<<Base, Moved>>, <<Moved, Base>>}

=============================================================================
