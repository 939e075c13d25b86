-------------------------- MODULE CredentialsProofs --------------------------
(***************************************************************************)
(* Proofs about Credentials, for any credentials issued over time.         *)
(***************************************************************************)
EXTENDS Credentials, TLAPS

LEMMA NoneType == None \in Pairs /\ None.url = NoKey /\ None.token = NoKey
BY DEF None, Of, Pairs

\* Both keys of a Secret, where it has them, are of one version.
LEMMA StoredType ==
    ASSUME NEW versions \in SUBSET Versions, NEW p \in Stored(versions)
    PROVE  /\ p \in Pairs
           /\ p.url \in versions \cup {NoKey} /\ p.token \in versions \cup {NoKey}
           /\ Whole(p) => p.url = p.token
<1>1. CASE \E v \in versions : p = Of(v)
  BY <1>1 DEF Of, Pairs, Versions, Whole
<1>2. CASE \E v \in versions : p = [Of(v) EXCEPT !.token = NoKey]
  BY <1>2, CredentialsAssumption DEF Of, Pairs, Versions, Whole
<1>3. CASE p = None
  BY <1>3, NoneType DEF Whole
<1>4. QED
  BY <1>1, <1>2, <1>3 DEF Stored

LEMMA SecretTypes ==
    /\ \A p \in Stored(IdVersions) : p \in Pairs
    /\ \A p \in Stored(MgrVersions) : p \in Pairs
    /\ \A p \in Pairs : Loaded(p) \in Pairs
<1>1. IdVersions \in SUBSET Versions /\ MgrVersions \in SUBSET Versions
  BY DEF Versions
<1>2. ASSUME NEW p \in Pairs PROVE Loaded(p) \in Pairs
  BY CredentialsAssumption DEF Loaded, Pairs
<1>3. QED
  BY <1>1, <1>2, StoredType

\* Every variable keeps its type through each step of the manager process, the
\* XOCluster reconciler and the users who edit Secrets.
THEOREM CredentialsTypeCorrect == Spec => []TypeOK
<1>1. Init => TypeOK
  BY SecretTypes, NoneType DEF Init, TypeOK, Calls
<1>2. TypeOK /\ [Next]_vars => TypeOK'
  <2> SUFFICES ASSUME TypeOK, [Next]_vars PROVE TypeOK'
    OBVIOUS
  <2> USE NoneType, SecretTypes DEF TypeOK, Calls, Drop, Retry, secretVars, workerVars
  <2>1. CASE Start
    BY <2>1 DEF Start
  <2>2. CASE Stop
    BY <2>2 DEF Stop
  <2>3. CASE Reconcile
    BY <2>3 DEF Reconcile
  <2>4. CASE Resolve
    BY <2>4 DEF Resolve, ResolveXOConfig
  <2>5. CASE EnsureCCM
    BY <2>5 DEF EnsureCCM, CCMData, Pairs
  <2>6. CASE RotateIdentity
    BY <2>6 DEF RotateIdentity
  <2>7. CASE RotateManager
    BY <2>7 DEF RotateManager
  <2>8. CASE EditRef
    BY <2>8 DEF EditRef
  <2>9. CASE RefSync
    BY <2>9 DEF RefSync
  <2>10. CASE IdentitySync
    BY <2>10 DEF IdentitySync
  <2>11. CASE Enqueue
    BY <2>11 DEF Enqueue
  <2>12. CASE UNCHANGED vars
    BY <2>12 DEF vars
  <2>13. QED
    BY <2>1, <2>2, <2>3, <2>4, <2>5, <2>6, <2>7, <2>8, <2>9, <2>10, <2>11, <2>12
       DEF Next, Worker
<1>3. QED
  BY <1>1, <1>2, PTL DEF Spec

----------------------------------------------------------------------------
(* One source.                                                             *)

\* Credentials that are whole are of one version, wherever they have come to.
OneVersion(p) == Whole(p) => p.url = p.token

SourceInv ==
    /\ OneVersion(identity) /\ OneVersion(cidentity) /\ OneVersion(manager) /\ OneVersion(global)
    /\ creds.url = creds.token
    /\ OneSource

\* ResolveXOConfig and the start of the manager never join the URL of one
\* Xen Orchestra with the token of another, whatever keys are missing from the
\* Secrets when they are read, if the environment names no Xen Orchestra.
THEOREM OneSourceOnly == Env = None /\ Spec => []OneSource
<1> SUFFICES ASSUME Env = None PROVE Spec => []OneSource
  OBVIOUS
<1>v. IdVersions \in SUBSET Versions /\ MgrVersions \in SUBSET Versions
  BY DEF Versions
<1>s. /\ \A p \in Stored(IdVersions) : OneVersion(p)
      /\ \A p \in Stored(MgrVersions) : OneVersion(p)
      /\ OneVersion(None)
  BY <1>v, StoredType, NoneType DEF OneVersion, Whole
<1>1. Init => SourceInv
  BY <1>s, NoneType DEF Init, SourceInv, OneSource
<1>2. TypeOK /\ SourceInv /\ [Next]_vars => SourceInv'
  <2> SUFFICES ASSUME TypeOK, SourceInv, [Next]_vars PROVE SourceInv'
    OBVIOUS
  <2> USE NoneType DEF SourceInv, OneSource, Drop, Retry, secretVars, workerVars
  <2>1. CASE Start
    <3>1. \A p \in Pairs : OneVersion(p) => OneVersion(Loaded(p))
      BY NoneType DEF OneVersion, Whole, Loaded
    <3>2. OneVersion(Loaded(manager)) /\ OneVersion(Loaded(None))
      BY <3>1, <1>s DEF TypeOK
    <3>3. OneVersion(global') /\ OneVersion(cidentity')
      BY <2>1, <3>2 DEF Start
    <3>4. UNCHANGED <<identity, manager, creds, cm>>
      BY <2>1 DEF Start
    <3>5. QED
      BY <3>3, <3>4 DEF OneVersion, Whole
  <2>2. CASE Stop
    BY <2>2, <1>s DEF Stop, OneVersion, Whole
  <2>3. CASE Reconcile \/ Enqueue \/ EditRef \/ RefSync
    BY <2>3 DEF Reconcile, Enqueue, EditRef, RefSync, OneVersion, Whole
  <2>4. CASE Resolve
    BY <2>4 DEF Resolve, ResolveXOConfig, OneVersion, Whole
  <2>5. CASE EnsureCCM
    <3>1. (cm'.url = creds.url /\ cm'.token = creds.token) \/ cm' = cm
      <4>1. cm' = CCMData \/ cm' = cm
        BY <2>5, Zenon DEF EnsureCCM
      <4>2. CCMData.url = creds.url /\ CCMData.token = creds.token
        BY DEF CCMData
      <4>3. QED
        BY <4>1, <4>2
    <3>2. creds' = None /\ UNCHANGED <<identity, cidentity, manager, global>>
      BY <2>5 DEF EnsureCCM
    <3>3. QED
      BY <3>1, <3>2 DEF OneVersion, Whole
  <2>6. CASE RotateIdentity
    BY <2>6, <1>s DEF RotateIdentity, OneVersion, Whole
  <2>7. CASE RotateManager
    BY <2>7, <1>s DEF RotateManager, OneVersion, Whole
  <2>8. CASE IdentitySync
    BY <2>8 DEF IdentitySync, OneVersion, Whole
  <2>9. CASE UNCHANGED vars
    BY <2>9 DEF vars, OneVersion, Whole
  <2>10. QED
    BY <2>1, <2>2, <2>3, <2>4, <2>5, <2>6, <2>7, <2>8, <2>9 DEF Next, Worker
<1>3. SourceInv => OneSource
  BY DEF SourceInv
<1>4. QED
  BY <1>1, <1>2, <1>3, CredentialsTypeCorrect, PTL DEF Spec

----------------------------------------------------------------------------
(* The cluster's own instance.                                             *)

\* Nothing in p is of the manager's.
Apart(p) == p.url \notin MgrVersions /\ p.token \notin MgrVersions

OwnInv ==
    /\ cref = TRUE
    /\ pc # "idle" => mref = TRUE
    /\ Apart(identity) /\ Apart(cidentity) /\ Apart(creds) /\ Apart(cm)

\* ResolveXOConfig: while an XOCluster has an identityRef, no restart, cache or
\* broken Secret lets the manager's credentials into its manifest.
THEOREM OwnInstanceOnly == Spec => OwnInstance
<1>s. (\A p \in Stored(IdVersions) : Apart(p)) /\ Apart(None)
  <2>1. IdVersions \in SUBSET Versions
    BY DEF Versions
  <2>2. QED
    BY <2>1, StoredType, NoneType, CredentialsAssumption DEF Apart, Versions
<1>1. Init /\ ref => OwnInv
  BY <1>s DEF Init, OwnInv
<1>2. TypeOK /\ OwnInv /\ ref /\ ref' /\ [Next]_vars => OwnInv'
  <2> SUFFICES ASSUME TypeOK, OwnInv, ref, ref', [Next]_vars PROVE OwnInv'
    OBVIOUS
  <2>r. ref = TRUE
    BY DEF TypeOK
  <2> USE DEF OwnInv, Drop, Retry, secretVars, workerVars
  <2>1. CASE Start
    BY <2>1, <2>r DEF Start, Apart
  <2>2. CASE Stop
    BY <2>2, <1>s DEF Stop, Apart
  <2>3. CASE Reconcile \/ Enqueue
    BY <2>3 DEF Reconcile, Enqueue, Apart
  <2>4. CASE Resolve
    BY <2>4, <1>s DEF Resolve, ResolveXOConfig, Apart
  <2>5. CASE EnsureCCM
    <3>1. (cm'.url = creds.url /\ cm'.token = creds.token) \/ cm' = cm
      <4>1. cm' = CCMData \/ cm' = cm
        BY <2>5, Zenon DEF EnsureCCM
      <4>2. CCMData.url = creds.url /\ CCMData.token = creds.token
        BY DEF CCMData
      <4>3. QED
        BY <4>1, <4>2
    <3>2. creds' = None /\ pc' = "idle" /\ UNCHANGED <<cref, identity, cidentity>>
      BY <2>5 DEF EnsureCCM
    <3>3. QED
      BY <3>1, <3>2, <1>s DEF Apart
  <2>6. CASE RotateIdentity
    BY <2>6, <1>s DEF RotateIdentity, Apart
  <2>7. CASE RotateManager \/ IdentitySync
    BY <2>7 DEF RotateManager, IdentitySync, Apart
  <2>8. CASE EditRef \/ RefSync
    BY <2>8, <2>r DEF EditRef, RefSync, Apart
  <2>9. CASE UNCHANGED vars
    BY <2>9 DEF vars, Apart
  <2>10. QED
    BY <2>1, <2>2, <2>3, <2>4, <2>5, <2>6, <2>7, <2>8, <2>9 DEF Next, Worker
<1>3. OwnInv => (cm.url \notin MgrVersions /\ cm.token \notin MgrVersions)
  BY DEF OwnInv, Apart
<1>4. QED
  BY <1>1, <1>2, <1>3, CredentialsTypeCorrect, PTL DEF Spec, OwnInstance

=============================================================================
