-------------------------- MODULE MCOperatorAccess --------------------------
(***************************************************************************)
(* Instances of OperatorAccess and ClientProvider for TLC.                   *)
(***************************************************************************)
EXTENDS ClientProvider

Enabled == [disabled |-> FALSE, secret |-> "s1", db |-> "db1"]
Disabled == [Enabled EXCEPT !.disabled = TRUE]
NoDatabase == [Enabled EXCEPT !.db = None]
NoDatabaseDisabled == [Disabled EXCEPT !.db = None]
OtherSecret == [Enabled EXCEPT !.secret = "s2"]
OtherDatabase == [Enabled EXCEPT !.db = "db2"]

\* With lagging caches access and the database URL come and go; without, Secret and
\* database change too, and organizations are created.
Pairs(S) == {e \in S \X S : e[1] # e[2]}
AnyEdit ==
    LET access == {Enabled, Disabled, NoDatabase, NoDatabaseDisabled}
    IN  [l \in BOOLEAN |-> Pairs(IF l THEN access ELSE access \cup {OtherSecret, OtherDatabase})]
OneOrg == [l \in BOOLEAN |-> IF l THEN {Orgs} ELSE {{o} : o \in Orgs}]

\* Another namespace is served, the same one holds a control plane without access.
OtherControlPlanes ==
    LET served == [ns |-> "b", dotted |-> FALSE, disabled |-> FALSE, ready |-> TRUE,
                   ref |-> "s1", url |-> TRUE]
    IN  {served, [served EXCEPT !.ns = "a", !.disabled = TRUE],
         [served EXCEPT !.ns = "a", !.dotted = TRUE]}

=============================================================================
