-------------------------- MODULE MCWorkspaceProxy --------------------------
(* Instances of WorkspaceProxy for model checking. *)
EXTENDS WorkspaceProxy

Base == [boot |-> TRUE, reg |-> "r1", secret |-> "s1", ref |-> None]
OtherReg == [Base EXCEPT !.reg = "r2"]
OtherSecret == [Base EXCEPT !.secret = "s2"]
ByHand == [Base EXCEPT !.boot = FALSE, !.ref = "s3"]
NoToken == [Base EXCEPT !.boot = FALSE]

SomeSpecs == {Base, OtherReg, OtherSecret, ByHand, NoToken}

\* Any edit but one back to a generated Secret that was given up for another.
SomeEdits == {e \in SomeSpecs \X SomeSpecs : e[1] # e[2] /\ e[1] # OtherSecret}

NoEdits == {}

\* In the order in which edits may name the Secrets.
Rank == [s \in SecretNames |-> IF s = "s2" THEN 1 ELSE 0]

ASSUME RankAssumption == Forward(SecretRank)

TwoWithLagElseFour == [l \in BOOLEAN |-> IF l THEN 2 ELSE 4]
NoDisturbances == [l \in BOOLEAN |-> 0]

=============================================================================
