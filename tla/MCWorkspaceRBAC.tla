-------------------------- MODULE MCWorkspaceRBAC --------------------------
(* Instances of WorkspaceRBAC for model checking. *)
EXTENDS WorkspaceRBAC

Base == [account |-> "a1", create |-> TRUE, perms |-> TRUE, rules |-> "r1", others |-> <<"n1">>]

\* The base, and what an edit may do to it: another account with other
\* rules that somebody else creates, no permissions, no other namespace, the object's own listed.
SomeSpecs == {Base,
              [Base EXCEPT !.account = "a2", !.rules = "r2", !.create = FALSE],
              [Base EXCEPT !.account = "a2", !.perms = FALSE],
              [Base EXCEPT !.others = <<"home">>]}

OnlyBase == {Base}

\* Objects left by a former object of the same name, in both namespaces, under the
\* names that an edit of the account will ask for.
Legacy ==
    [k \in Slots |-> IF k[3] = "a1" THEN None
                     ELSE [mark |-> "labels", val |-> IF k[1] = "role" THEN "r1" ELSE "subject"]]

OnlyLegacy == {Legacy}

OneWithLagElseThree == [lagging \in BOOLEAN |-> IF lagging THEN 1 ELSE 3]

=============================================================================
