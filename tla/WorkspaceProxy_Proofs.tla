----------------------- MODULE WorkspaceProxy_Proofs ------------------------
(***************************************************************************)
(* Type correctness of WorkspaceProxy, and that the token Secret of a proxy   *)
(* holds the token that coderd accepts, for any specs, edits that do not      *)
(* return to a Secret given up, any number of tokens and disturbances.        *)
(***************************************************************************)
EXTENDS WorkspaceProxy, TLAPS

-----------------------------------------------------------------------------
(* Types.                                                                    *)

LEMMA CRType ==
    ASSUME spec \in SpecRecords, gen \in Nat, status \in Statuses
    PROVE  CR \in CRs
BY DEF CR, CRs

LEMMA NoLocalType == NoLocal \in Locals
BY ConstantsAssumption DEF NoLocal, Locals

LEMMA DisturbType ==
    ASSUME TypeOK, Disturb
    PROVE  disturbances' \in 0 .. MaxDisturbances[lag]
BY ConstantsAssumption DEF TypeOK, Disturb

LEMMA PutSecretType ==
    ASSUME TypeOK, NEW s \in SecretNames, NEW t \in (1 .. MaxTokens) \cup {None}, PutSecret(s, t)
    PROVE  /\ secrets' \in [SecretNames -> (1 .. MaxTokens) \cup {None}]
           /\ secretSeen' \in [SecretNames -> (1 .. MaxTokens) \cup {None}]
           /\ secretStale' \subseteq SecretNames
BY DEF TypeOK, PutSecret

LEMMA CacheType ==
    ASSUME TypeOK, CacheFollows, spec' \in SpecRecords, gen' \in Nat, status' \in Statuses
    PROVE  seen' \in CRs /\ seenFresh' \in BOOLEAN
<1>1. CR' \in CRs
  BY DEF CR, CRs
<1> QED
  BY <1>1, ConstantsAssumption DEF CacheFollows, TypeOK

\* The reconcile ends, and nothing but what it says of the object has changed.
LEMMA EndType ==
    ASSUME TypeOK, NEW again \in BOOLEAN, End(again)
    PROVE  pc' = "idle" /\ loc' = NoLocal /\ queued' \in BOOLEAN
BY DEF TypeOK, End, Enqueue

LEMMA StartReconcileType ==
    ASSUME TypeOK, StartReconcile, lag' = lag
    PROVE  TypeOK'
<1> DEFINE s == seen.spec
           l == [NoLocal EXCEPT !.cr = seen, !.current = seenFresh, !.registered = s.boot,
                                !.ref = IF s.boot THEN s.secret ELSE s.ref]
<1>1. s \in SpecRecords /\ seen \in CRs
  BY DEF TypeOK, CRs
<1>2. CASE UNCHANGED <<queued, pc, loc>>
  BY <1>2 DEF StartReconcile, TypeOK, crVars, secretVars, coderdVars
<1>3. CASE ~Refused(s) /\ queued' = FALSE /\ pc' \in {"register", "workload"} /\ loc' = l
  <2>1. (IF s.boot THEN s.secret ELSE s.ref) \in SecretNames
    BY <1>1, <1>3 DEF Refused, SpecRecords
  <2>2. l \in Locals /\ l.cr = seen /\ l.ref \in SecretNames
    BY Zenon, <1>1, <2>1, NoLocalType DEF Locals, SpecRecords, TypeOK
  <2> HIDE DEF l
  <2> QED
    BY Zenon, <1>1, <1>3, <2>2 DEF StartReconcile, TypeOK, crVars, secretVars, coderdVars, Steps
<1> QED
  BY Zenon, <1>2, <1>3 DEF StartReconcile

LEMMA MintType ==
    ASSUME TypeOK, Mint
    PROVE  /\ minted' \in 0 .. MaxTokens /\ live' \in [Registrations -> 0 .. MaxTokens]
           /\ minted + 1 \in 1 .. MaxTokens
<1>1. minted' \in 0 .. MaxTokens /\ minted + 1 \in 1 .. MaxTokens
  BY ConstantsAssumption DEF TypeOK, Mint
<1>2. live' \in [Registrations -> 0 .. MaxTokens]
  <2>1. live' = [live EXCEPT ![loc.cr.spec.reg] = minted + 1] /\ live \in [Registrations -> 0 .. MaxTokens]
    BY DEF TypeOK, Mint
  <2>2. minted + 1 \in 0 .. MaxTokens
    BY <1>1, ConstantsAssumption
  <2> QED
    BY Zenon, <2>1, <2>2
<1> QED
  BY <1>1, <1>2

LEMMA NextType ==
    ASSUME TypeOK, Next
    PROVE  TypeOK'
<1> USE NoLocalType DEF crVars, secretVars, coderdVars
<1>1. lag' = lag
  BY DEF Next
<1>2. CASE StartReconcile
  BY <1>1, <1>2, StartReconcileType
<1>3. CASE EnsureWorkspaceProxy
  <2> DEFINE l == [loc EXCEPT !.token = minted + 1]
  <2>1. minted' \in 0 .. MaxTokens /\ live' \in [Registrations -> 0 .. MaxTokens] /\ minted + 1 \in 1 .. MaxTokens
    BY <1>3, MintType DEF EnsureWorkspaceProxy
  <2>2. l \in Locals /\ l.cr = loc.cr /\ l.ref = loc.ref /\ l.token \in 1 .. MaxTokens
    BY <2>1, ConstantsAssumption DEF TypeOK, Locals
  <2>3. loc' = l
    BY <1>3 DEF EnsureWorkspaceProxy
  <2> HIDE DEF l
  <2> QED
    BY <1>1, <1>3, <2>1, <2>2, <2>3 DEF EnsureWorkspaceProxy, TypeOK, Steps
<1>4. CASE EnsureWorkspaceProxyFails
  <2>1. minted' \in 0 .. MaxTokens /\ live' \in [Registrations -> 0 .. MaxTokens]
    BY <1>4, MintType DEF EnsureWorkspaceProxyFails, TypeOK
  <2> QED
    BY Zenon, <1>1, <1>4, <2>1, EndType, DisturbType DEF EnsureWorkspaceProxyFails, TypeOK, Steps
<1>5. CASE EnsureTokenSecret
  <2>1. CASE End(TRUE) /\ UNCHANGED secretVars
    BY Zenon, <1>1, <1>5, <2>1, EndType DEF EnsureTokenSecret, TypeOK, Steps
  <2>2. CASE PutSecret(loc.ref, loc.token) /\ pc' = "workload" /\ Enqueue(~lag) /\ UNCHANGED loc
    <3>1. loc.ref \in SecretNames /\ loc.token \in 1 .. MaxTokens
      BY <1>5 DEF EnsureTokenSecret, TypeOK
    <3>2. /\ secrets' \in [SecretNames -> (1 .. MaxTokens) \cup {None}]
          /\ secretSeen' \in [SecretNames -> (1 .. MaxTokens) \cup {None}]
          /\ secretStale' \subseteq SecretNames
      BY <2>2, <3>1, PutSecretType
    <3>3. queued' \in BOOLEAN
      BY <2>2, ConstantsAssumption DEF Enqueue, TypeOK
    <3> QED
      BY <1>1, <1>5, <2>2, <3>2, <3>3 DEF EnsureTokenSecret, TypeOK, Steps
  <2> QED
    BY Zenon, <1>5, <2>1, <2>2 DEF EnsureTokenSecret
<1>6. CASE EnsureTokenSecretFails \/ WriteFails
  BY Zenon, <1>1, <1>6, EndType, DisturbType DEF EnsureTokenSecretFails, WriteFails, TypeOK, Steps
<1>7. CASE ReconcileWorkload
  <2>1. deploy' \in Deployments
    BY <1>7 DEF ReconcileWorkload, TypeOK, Deployments, CRs, SpecRecords
  <2> QED
    BY <1>1, <1>7, <2>1 DEF ReconcileWorkload, TypeOK, Steps
<1>8. CASE WriteStatus
  <2> DEFINE next == [gen |-> loc.cr.gen, registered |-> loc.registered, ref |-> loc.ref]
  <2>1. next \in Statuses
    BY <1>8 DEF WriteStatus, TypeOK, Statuses, CRs, Locals
  <2> HIDE DEF next
  <2>2. CASE End(next # loc.cr.status) /\ UNCHANGED crVars
    BY Zenon, <1>1, <1>8, <2>2, EndType DEF WriteStatus, TypeOK, Steps
  <2>3. CASE status' = next /\ UNCHANGED <<spec, gen>> /\ CacheFollows /\ End(~lag)
    <3>1. seen' \in CRs /\ seenFresh' \in BOOLEAN /\ status' \in Statuses
      BY <2>1, <2>3, CacheType DEF TypeOK
    <3>2. pc' = "idle" /\ loc' = NoLocal /\ queued' \in BOOLEAN
      BY Zenon, <2>3, EndType
    <3> QED
      BY <1>1, <1>8, <2>3, <3>1, <3>2 DEF WriteStatus, TypeOK, Steps
  <2> QED
    BY <1>8, <2>2, <2>3 DEF WriteStatus, next
<1>9. CASE SyncCR \/ SyncSecrets
  BY Zenon, <1>1, <1>9, CRType DEF SyncCR, SyncSecrets, TypeOK
<1>10. CASE EditSpec
  <2>1. spec' \in SpecRecords /\ gen' \in Nat /\ status' \in Statuses
    BY <1>10, ConstantsAssumption DEF EditSpec, TypeOK
  <2>2. seen' \in CRs /\ seenFresh' \in BOOLEAN
    BY <1>10, <2>1, CacheType DEF EditSpec
  <2> DEFINE l == [loc EXCEPT !.current = FALSE]
  <2>3. l \in Locals /\ l.cr = loc.cr /\ l.ref = loc.ref /\ l.token = loc.token
    BY Zenon DEF TypeOK, Locals
  <2>4. loc' = l /\ queued' \in BOOLEAN
    BY <1>10 DEF EditSpec, Enqueue, TypeOK
  <2> HIDE DEF l
  <2> QED
    BY Zenon, <1>1, <1>10, <2>1, <2>2, <2>3, <2>4, DisturbType DEF EditSpec, TypeOK
<1>11. ASSUME NEW s \in SecretNames, DeleteSecret(s)
       PROVE  TypeOK'
  <2>1. /\ secrets' \in [SecretNames -> (1 .. MaxTokens) \cup {None}]
        /\ secretSeen' \in [SecretNames -> (1 .. MaxTokens) \cup {None}]
        /\ secretStale' \subseteq SecretNames
    BY Zenon, <1>11, PutSecretType DEF DeleteSecret
  <2>2. queued' \in BOOLEAN
    BY <1>11 DEF DeleteSecret, Enqueue, TypeOK
  <2> QED
    BY <1>1, <1>11, <2>1, <2>2, DisturbType DEF DeleteSecret, TypeOK
<1>12. CASE CredentialsChange
  BY <1>1, <1>12, DisturbType DEF CredentialsChange, TypeOK
<1>13. CASE Crash
  BY <1>1, <1>13, CRType, DisturbType DEF Crash, TypeOK, Steps
<1> QED
  BY <1>2, <1>3, <1>4, <1>5, <1>6, <1>7, <1>8, <1>9, <1>10, <1>11, <1>12, <1>13
     DEF Next, Controller, Sync, Environment

LEMMA InitType == Init => TypeOK
<1> SUFFICES ASSUME Init
             PROVE  TypeOK
  OBVIOUS
<1>1. spec \in SpecRecords /\ gen \in Nat /\ status \in Statuses
  BY ConstantsAssumption DEF Init, Statuses
<1>2. seen \in CRs
  BY <1>1, CRType DEF Init
<1>3. MaxDisturbances[lag] \in Nat
  BY ConstantsAssumption DEF Init
<1> QED
  BY <1>1, <1>2, <1>3, ConstantsAssumption, NoLocalType DEF Init, TypeOK, Steps

\* The controller keeps its types: in particular it never goes on to the workload
\* without the name of a token Secret, and stores only tokens that coderd has made.
THEOREM ProxyTypes == Spec => []TypeOK
<1>1. TypeOK /\ UNCHANGED vars => TypeOK'
  BY DEF TypeOK, vars, crVars, secretVars, coderdVars
<1> QED
  BY <1>1, InitType, NextType, PTL DEF Spec

-----------------------------------------------------------------------------
(* The token in the Secret.                                                  *)

\* While no token is made and no Secret written, what is stored stays accepted.
LEMMA AcceptedKept ==
    ASSUME NEW s \in SecretNames, Accepted(s), secrets'[s] = secrets[s], UNCHANGED live
    PROVE  Accepted(s)'
BY DEF Accepted

\* Steps that leave the spec, the Secrets and coderd alone, and go on without
\* registering or end.
LEMMA QuietKeeps ==
    ASSUME NEW rank \in [SecretNames -> Nat], TypeOK, TokenInv(rank), ~lag, lag' = lag,
           UNCHANGED <<spec, secrets, live>>, seen' = CR', secretSeen' = secrets,
           \/ pc' = "idle"
           \/ pc # "idle" /\ loc' = loc /\ (pc' = pc \/ pc' \in {"workload", "status"})
    PROVE  TokenInv(rank)'
<1>1. /\ spec.secret \in SecretNames
      /\ pc # "idle" => loc.cr.spec.secret \in SecretNames
  BY DEF TypeOK, SpecRecords, CRs
<1>2. pc' = "idle" => \A s \in SecretNames : rank[spec.secret] < rank[s] => secrets[s] = None
  BY <1>1 DEF TokenInv
<1>3. (secrets[spec.secret] # None => Accepted(spec.secret))'
  BY <1>1, AcceptedKept DEF TokenInv
<1> QED
  BY <1>2, <1>3 DEF TokenInv

\* A token is made only while the Secret that the spec names has none, although the
\* spec may name another one by now than the reconcile was started for.
LEMMA NothingToLose ==
    ASSUME NEW rank \in [SecretNames -> Nat], TypeOK, TokenInv(rank), ~lag, pc \in {"register", "secret"}
    PROVE  secrets[spec.secret] = None
<1>1. spec.secret \in SecretNames /\ loc.cr.spec.secret \in SecretNames
  BY DEF TypeOK, SpecRecords, CRs
<1> QED
  BY <1>1 DEF TokenInv

LEMMA StartKeeps ==
    ASSUME NEW rank \in [SecretNames -> Nat], TypeOK, TokenInv(rank), ~lag, lag' = lag, StartReconcile
    PROVE  TokenInv(rank)'
<1> DEFINE s == seen.spec
           l == [NoLocal EXCEPT !.cr = seen, !.current = seenFresh, !.registered = s.boot,
                                !.ref = IF s.boot THEN s.secret ELSE s.ref]
<1>1. /\ seen = CR /\ secretSeen = secrets /\ s = spec /\ spec.secret \in SecretNames
      /\ UNCHANGED <<spec, gen, status, seen, secrets, secretSeen, live>>
  BY DEF TokenInv, CR, StartReconcile, crVars, secretVars, coderdVars, TypeOK, SpecRecords
<1>2. CR' = CR
  BY <1>1 DEF CR
<1>3. CASE UNCHANGED <<queued, pc, loc>>
  BY <1>1, <1>2, <1>3, QuietKeeps
<1>4. CASE pc' = (IF NeedsToken(s) THEN "register" ELSE "workload") /\ loc' = l
  <2>1. l.cr = seen /\ (s.boot => l.ref = s.secret)
    BY DEF NoLocal
  <2>2. pc' = "register" => secrets[spec.secret] = None /\ l.ref = spec.secret
    BY <1>1, <1>4, <2>1 DEF NeedsToken
  <2>3. l.cr.spec = spec
    BY <1>1, <2>1
  <2> HIDE DEF l
  <2>4. pc' \in {"register", "workload"}
    BY <1>4
  <2>5. (secrets[spec.secret] # None => Accepted(spec.secret))'
    BY <1>1, AcceptedKept DEF TokenInv
  <2>6. pc = "idle"
    BY DEF StartReconcile
  <2> QED
    BY <1>1, <1>2, <1>4, <2>2, <2>3, <2>4, <2>5, <2>6 DEF TokenInv
<1> QED
  BY Zenon, <1>3, <1>4 DEF StartReconcile

LEMMA RegisterKeeps ==
    ASSUME NEW rank \in [SecretNames -> Nat], TypeOK, TokenInv(rank), ~lag, lag' = lag,
           EnsureWorkspaceProxy \/ EnsureWorkspaceProxyFails
    PROVE  TokenInv(rank)'
<1>1. /\ pc = "register" /\ seen = CR /\ secretSeen = secrets
      /\ UNCHANGED <<spec, gen, status, seen, secrets, secretSeen>>
      /\ spec.secret \in SecretNames /\ loc.cr.spec.secret \in SecretNames
      /\ loc.cr.spec.reg \in Registrations
  BY Zenon DEF EnsureWorkspaceProxy, EnsureWorkspaceProxyFails, crVars, secretVars, TokenInv, TypeOK, CRs, SpecRecords
<1>2. CR' = CR /\ secrets[spec.secret] = None
  BY <1>1, NothingToLose DEF CR
<1>3. CASE EnsureWorkspaceProxy
  <2> DEFINE l == [loc EXCEPT !.token = minted + 1]
  <2>1. l.cr = loc.cr /\ l.ref = loc.ref /\ l.token = minted + 1
    BY DEF TypeOK, Locals
  <2>2. loc' = l /\ pc' = "secret"
    BY <1>3 DEF EnsureWorkspaceProxy
  <2> HIDE DEF l
  <2>3. live'[loc.cr.spec.reg] = minted + 1
    BY <1>1, <1>3 DEF EnsureWorkspaceProxy, Mint, TypeOK
  <2> QED
    BY <1>1, <1>2, <2>1, <2>2, <2>3 DEF TokenInv
<1>4. CASE EnsureWorkspaceProxyFails
  <2>1. pc' = "idle"
    BY <1>4 DEF EnsureWorkspaceProxyFails, End
  <2>2. \A s \in SecretNames : rank[spec.secret] < rank[s] => secrets[s] = None
    BY <1>1 DEF TokenInv
  <2> QED
    BY <1>1, <1>2, <2>1, <2>2 DEF TokenInv
<1> QED
  BY <1>3, <1>4

LEMMA StoreTokenKeeps ==
    ASSUME NEW rank \in [SecretNames -> Nat], TypeOK, TokenInv(rank), ~lag, lag' = lag, EnsureTokenSecret
    PROVE  TokenInv(rank)'
<1>1. /\ pc = "secret" /\ seen = CR /\ secretSeen = secrets
      /\ UNCHANGED <<spec, gen, status, seen, live>>
      /\ spec.secret \in SecretNames /\ loc.cr.spec.secret \in SecretNames
      /\ loc.cr.spec.reg \in Registrations
  BY DEF EnsureTokenSecret, crVars, coderdVars, TokenInv, TypeOK, CRs, SpecRecords
<1>2. CR' = CR
  BY <1>1 DEF CR
<1>3. CASE End(TRUE) /\ UNCHANGED secretVars
  BY <1>1, <1>2, <1>3, QuietKeeps DEF End, secretVars
<1>4. CASE PutSecret(loc.ref, loc.token) /\ pc' = "workload" /\ UNCHANGED loc
  <2>1. /\ loc.ref = loc.cr.spec.secret /\ live[loc.cr.spec.reg] = loc.token
        /\ secrets[spec.secret] = None
    BY <1>1, NothingToLose DEF TokenInv
  <2>2. /\ secretSeen' = secrets'
        /\ secrets'[loc.ref] = loc.token
        /\ \A s \in SecretNames : s # loc.ref => secrets'[s] = secrets[s]
    BY <1>1, <1>4, <2>1 DEF PutSecret, TypeOK
  <2>3. (secrets[spec.secret] # None => Accepted(spec.secret))'
    BY <1>1, <2>1, <2>2 DEF Accepted
  <2>4. \A s \in SecretNames : rank[loc.cr.spec.secret] < rank[s] => secrets'[s] = None
    BY <1>1, <2>1, <2>2 DEF TokenInv
  <2> QED
    BY <1>1, <1>2, <1>4, <2>2, <2>3, <2>4 DEF TokenInv
<1> QED
  BY Zenon, <1>3, <1>4 DEF EnsureTokenSecret

LEMMA EditKeeps ==
    ASSUME NEW rank \in [SecretNames -> Nat], Forward(rank), TypeOK, TokenInv(rank), ~lag, lag' = lag, EditSpec
    PROVE  TokenInv(rank)'
<1>1. PICK e \in Edits : e[1] = spec /\ spec' = e[2]
  BY DEF EditSpec
<1>2. spec' \in SpecRecords
  BY <1>1, ConstantsAssumption
<1>3. /\ spec.secret \in SecretNames /\ spec'.secret \in SecretNames
      /\ pc # "idle" => loc.cr.spec.secret \in SecretNames
  BY <1>2 DEF TypeOK, SpecRecords, CRs
<1>4. spec'.secret # spec.secret => rank[spec.secret] < rank[spec'.secret]
  BY <1>1 DEF Forward
<1>5. /\ seen' = CR' /\ UNCHANGED <<secrets, secretSeen, live, pc>> /\ secretSeen = secrets
  BY DEF EditSpec, CacheFollows, secretVars, coderdVars, TokenInv
<1>6. loc'.cr = loc.cr /\ loc'.ref = loc.ref /\ loc'.token = loc.token
  BY DEF EditSpec, TypeOK, Locals
<1>7. spec'.secret # spec.secret => secrets[spec'.secret] = None
  BY <1>3, <1>4 DEF TokenInv
<1>8. (secrets[spec.secret] # None => Accepted(spec.secret))'
  BY <1>3, <1>5, <1>7, AcceptedKept DEF TokenInv
<1> QED
  BY <1>3, <1>4, <1>5, <1>6, <1>8 DEF TokenInv

LEMMA DeleteKeeps ==
    ASSUME NEW rank \in [SecretNames -> Nat], TypeOK, TokenInv(rank), ~lag, lag' = lag,
           NEW s \in SecretNames, DeleteSecret(s)
    PROVE  TokenInv(rank)'
<1>1. /\ seen = CR /\ UNCHANGED <<spec, gen, status, seen, live, pc, loc>> /\ spec.secret \in SecretNames
      /\ pc # "idle" => loc.cr.spec.secret \in SecretNames
      /\ pc \in {"register", "secret"} => loc.ref \in SecretNames
  BY DEF DeleteSecret, crVars, coderdVars, TokenInv, TypeOK, SpecRecords, CRs
<1>2. CR' = CR
  BY <1>1 DEF CR
<1>3. /\ secretSeen' = secrets' /\ secrets'[s] = None
      /\ \A t \in SecretNames : t # s => secrets'[t] = secrets[t]
  BY DEF DeleteSecret, PutSecret, TypeOK
<1>4. (secrets[spec.secret] # None => Accepted(spec.secret))'
  BY <1>1, <1>3, AcceptedKept DEF TokenInv
<1> QED
  BY <1>1, <1>2, <1>3, <1>4 DEF TokenInv

LEMMA TokenNext ==
    ASSUME NEW rank \in [SecretNames -> Nat], Forward(rank), TypeOK, TokenInv(rank), [Next]_vars
    PROVE  TokenInv(rank)'
<1>1. lag' = lag
  BY DEF Next, vars
<1> SUFFICES ASSUME ~lag
             PROVE  TokenInv(rank)'
  BY <1>1 DEF TokenInv
<1> USE <1>1
<1>2. seen = CR /\ secretSeen = secrets
  BY DEF TokenInv
<1>3. CASE EnsureTokenSecretFails \/ WriteFails \/ CredentialsChange \/ SyncCR \/ SyncSecrets
           \/ Crash \/ UNCHANGED vars \/ ReconcileWorkload
  <2>1. /\ UNCHANGED <<spec, gen, status, secrets, live>>
        /\ seen' = CR /\ secretSeen' = secrets
        /\ \/ pc' = "idle"
           \/ pc # "idle" /\ loc' = loc /\ (pc' = pc \/ pc' \in {"workload", "status"})
    BY Zenon, <1>2, <1>3 DEF EnsureTokenSecretFails, WriteFails, CredentialsChange, SyncCR, SyncSecrets, Crash, vars,
                      ReconcileWorkload, End, crVars, secretVars, coderdVars
  <2>2. CR' = CR
    BY <2>1 DEF CR
  <2> QED
    BY <2>1, <2>2, QuietKeeps
<1>4. CASE WriteStatus
  <2>1. UNCHANGED <<spec, secrets, secretSeen, live>> /\ pc' = "idle"
    BY Zenon, <1>4 DEF WriteStatus, End, crVars, secretVars, coderdVars
  <2>2. seen' = CR'
    BY <1>2, <1>4 DEF WriteStatus, CacheFollows, crVars, CR
  <2> QED
    BY <1>2, <2>1, <2>2, QuietKeeps
<1> QED
  BY <1>3, <1>4, StartKeeps, RegisterKeeps, StoreTokenKeeps, EditKeeps, DeleteKeeps
     DEF Next, Controller, Sync, Environment

\* Initially there are no tokens.
LEMMA TokenInit ==
    ASSUME NEW rank \in [SecretNames -> Nat], Init
    PROVE  TokenInv(rank)
<1>1. spec.secret \in SecretNames
  BY InitType DEF TypeOK, SpecRecords
<1> QED
  BY <1>1 DEF Init, TokenInv, CR

\* Without lagging caches, no reconcile makes a token while the Secret it was started
\* for has one, and no Secret that edits have yet to name has any: EnsureWorkspaceProxy
\* is reached only with nothing to lose, whatever is edited, deleted or failing
\* meanwhile.
THEOREM TokenNotRemade ==
    ASSUME SecretRank \in [SecretNames -> Nat], Forward(SecretRank)
    PROVE  Spec => []TokenMadeOnce
<1>1. Init => TokenInv(SecretRank)
  BY TokenInit
<1>2. TypeOK /\ TokenInv(SecretRank) /\ [Next]_vars => TokenInv(SecretRank)'
  BY TokenNext
<1> QED
  BY <1>1, <1>2, ProxyTypes, PTL DEF Spec, TokenMadeOnce

\* Without lagging caches, the generated Secret holds the token that coderd accepts,
\* whatever fails between EnsureWorkspaceProxy and the write of the Secret, whoever
\* deletes Secrets, and however the spec is edited under a reconcile, provided that
\* edits do not return to a Secret that was given up for another (Forward): that one
\* still holds a token, which the registration for the other Secret has ended.
THEOREM TokenKept ==
    ASSUME NEW rank \in [SecretNames -> Nat], Forward(rank)
    PROVE  Spec => []TokenStored
<1>1. Init => TokenInv(rank)
  BY TokenInit
<1>2. TypeOK /\ TokenInv(rank) /\ [Next]_vars => TokenInv(rank)'
  BY TokenNext
<1>3. TokenInv(rank) => TokenStored
  BY DEF TokenInv, TokenStored
<1> QED
  BY <1>1, <1>2, <1>3, ProxyTypes, PTL DEF Spec

=============================================================================
