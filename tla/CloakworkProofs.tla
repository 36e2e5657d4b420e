--------------------------- MODULE CloakworkProofs ---------------------------
(***************************************************************************)
(* Theorems about the contracts, for every number of accounts, nullifiers, *)
(* versions and ledgers, with their proofs.                                *)
(***************************************************************************)
EXTENDS CloakworkProperties, TLAPS

(* The specifications differ in their initial state only. *)
InitialState == Init \/ DeployedInit
AnySpec == Spec \/ DeployedSpec

------------------------------------------------------------------------------
(* The u64 arithmetic of expiries stays within u64, whatever is added. *)
LEMMA MaxExpiryType ==
  ASSUME timestamp \in U64
  PROVE  /\ MaxExpiry \in U64
         /\ timestamp <= MaxExpiry
         /\ MaxExpiry <= timestamp + MAX_CREDENTIAL_TTL_SECS
BY HostAssumption, RegistryAssumption DEF MaxExpiry, SaturatingAdd, U64

LEMMA MinimumType ==
  ASSUME NEW a \in U64, NEW b \in U64
  PROVE  /\ Minimum(a, b) \in U64
         /\ Minimum(a, b) <= a
         /\ Minimum(a, b) <= b
         /\ Minimum(a, b) \in {a, b}
BY HostAssumption DEF Minimum, U64

(* A transaction leaves the host's variables well typed. *)
LEMMA TransactionType ==
  ASSUME HostTypeOK, NEW s \in Accounts, NEW accessed, NEW extended,
         Transaction(s, accessed, extended)
  PROVE  HostTypeOK'
<1>1. \A key : EntryOnAccess(key) \in Int
  BY HostAssumption DEF HostTypeOK, EntryOnAccess, IsLive
<1>2. \A key : ExtendTtl(EntryOnAccess(key)) \in Int
  BY <1>1, HostAssumption DEF HostTypeOK, ExtendTtl
<1>3. live_until' \in [DOMAIN live_until' -> Int]
  BY <1>1, <1>2 DEF HostTypeOK, Transaction
<1> QED
  BY <1>3 DEF HostTypeOK, Transaction, U64

LEMMA CloseLedgerType ==
  ASSUME HostTypeOK, LedgerClose
  PROVE  HostTypeOK'
BY HostAssumption DEF HostTypeOK, LedgerClose, U64

------------------------------------------------------------------------------
(* The credential an issuance stores. *)
LEMMA NewCredentialType ==
  ASSUME HostTypeOK, NEW owner \in Accounts, NEW pi \in PublicInputs
  PROVE  NewCredential(owner, pi) \in DomainCredential
BY MaxExpiryType, MinimumType DEF NewCredential, DomainCredential, PublicInputs, HostTypeOK

LEMMA VerifyAndIssueType ==
  ASSUME TypeOK, NEW owner \in Accounts, NEW pi \in PublicInputs, NEW proof, NEW s,
         VerifyAndIssue(owner, pi, proof, s)
  PROVE  RegistryTypeOK'
<1>1. pi.nullifier \in Nullifiers
  BY DEF PublicInputs
<1>2. NewCredential(owner, pi) \in DomainCredential
  BY NewCredentialType DEF TypeOK
<1>3. /\ DOMAIN credentials' \subseteq Nullifiers
      /\ credentials' \in [DOMAIN credentials' -> DomainCredential]
  BY <1>1, <1>2 DEF VerifyAndIssue, TypeOK, RegistryTypeOK
<1>4. owner_credentials' \in [Accounts -> Seq(Nullifiers)]
  BY <1>1 DEF VerifyAndIssue, TypeOK, RegistryTypeOK
<1> QED
  BY <1>1, <1>3, <1>4 DEF VerifyAndIssue, TypeOK, RegistryTypeOK, registryConfig

LEMMA RevokeType ==
  ASSUME TypeOK, NEW caller, NEW n \in Nullifiers, NEW s, Revoke(caller, n, s)
  PROVE  RegistryTypeOK'
<1>1. n \in DOMAIN credentials /\ credentials[n] \in DomainCredential
  BY DEF Revoke, IsUnrevoked, TypeOK, RegistryTypeOK
<1>2. [credentials[n] EXCEPT !.status = "Revoked"] \in DomainCredential
  BY <1>1 DEF DomainCredential
<1> QED
  BY <1>1, <1>2 DEF Revoke, TypeOK, RegistryTypeOK, registryConfig

LEMMA RenewType ==
  ASSUME TypeOK, NEW n \in Nullifiers, NEW e \in U64, NEW s, Renew(n, e, s)
  PROVE  RegistryTypeOK'
<1>1. n \in DOMAIN credentials /\ credentials[n] \in DomainCredential
  BY DEF Renew, IsUnrevoked, TypeOK, RegistryTypeOK
<1>2. Minimum(e, MaxExpiry) \in U64
  BY MaxExpiryType, MinimumType DEF TypeOK, HostTypeOK
<1>3. [credentials[n] EXCEPT !.expires_at = Minimum(e, MaxExpiry)] \in DomainCredential
  BY <1>1, <1>2 DEF DomainCredential
<1> QED
  BY <1>1, <1>3 DEF Renew, TypeOK, RegistryTypeOK, registryConfig

(* Every step leaves every variable well typed. *)
LEMMA VerifierStepType ==
  ASSUME TypeOK, NEW s \in Accounts, VerifierStep(s)
  PROVE  TypeOK'
<1>1. HostTypeOK'
  BY TransactionType DEF VerifierStep, VerifierInitialize, RegisterKey, VerifyProof, TypeOK
<1>2. VerifierTypeOK'
  BY DEF VerifierStep, VerifierInitialize, RegisterKey, VerifyProof, verifierVars,
         TypeOK, VerifierTypeOK
<1> QED
  BY <1>1, <1>2 DEF VerifierStep, registryVars, registryConfig, gatedVars,
                    TypeOK, RegistryTypeOK, GatedTypeOK

LEMMA RegistryStepType ==
  ASSUME TypeOK, NEW s \in Accounts, RegistryStep(s)
  PROVE  TypeOK'
<1>1. VerifierTypeOK' /\ GatedTypeOK'
  BY DEF RegistryStep, verifierVars, gatedVars, TypeOK, VerifierTypeOK, GatedTypeOK
<1>2. HostTypeOK'
  BY TransactionType DEF RegistryStep, RegistryInitialize, VerifyAndIssue, Revoke, Renew,
         RequireValidCredential, GetCredential, GetCredentialsByOwner, TypeOK
<1>3. RegistryTypeOK'
  <2>1. ASSUME NEW admin \in Accounts, NEW v \in VerifierAddresses,
               RegistryInitialize(admin, v, s)
        PROVE  RegistryTypeOK'
    BY <2>1 DEF RegistryInitialize, TypeOK, RegistryTypeOK
  <2>2. ASSUME NEW owner \in Accounts, NEW pi \in Submissions, NEW proof \in Proofs,
               VerifyAndIssue(owner, pi, proof, s)
        PROVE  RegistryTypeOK'
    BY <2>2, VerifyAndIssueType, CloakworkAssumption
  <2>3. ASSUME NEW caller \in Accounts, NEW n \in Nullifiers, Revoke(caller, n, s)
        PROVE  RegistryTypeOK'
    BY <2>3, RevokeType
  <2>4. ASSUME NEW n \in Nullifiers, NEW e \in Expiries, Renew(n, e, s)
        PROVE  RegistryTypeOK'
    BY <2>4, RenewType, CloakworkAssumption
  <2>5. CASE UNCHANGED registryVars
    BY <2>5 DEF registryVars, registryConfig, TypeOK, RegistryTypeOK
  <2> QED
    BY <2>1, <2>2, <2>3, <2>4, <2>5
    DEF RegistryStep, RequireValidCredential, GetCredential, GetCredentialsByOwner
<1> QED
  BY <1>1, <1>2, <1>3 DEF TypeOK

LEMMA GatedStepType ==
  ASSUME TypeOK, NEW s \in Accounts, GatedStep(s)
  PROVE  TypeOK'
<1>1. VerifierTypeOK' /\ RegistryTypeOK'
  BY DEF GatedStep, verifierVars, registryVars, registryConfig,
         TypeOK, VerifierTypeOK, RegistryTypeOK
<1>2. HostTypeOK'
  BY TransactionType DEF GatedStep, GatedInitialize, ExecuteWithCredential, TypeOK
<1>3. GatedTypeOK'
  <2>1. ASSUME NEW r \in RegistryAddresses, GatedInitialize(r, s)
        PROVE  GatedTypeOK'
    BY <2>1 DEF GatedInitialize, TypeOK, GatedTypeOK
  <2>2. ASSUME NEW owner \in Accounts, NEW n \in Nullifiers,
               ExecuteWithCredential(owner, n, s)
        PROVE  GatedTypeOK'
    <3>1. credentials[n] \in DomainCredential
      BY <2>2 DEF ExecuteWithCredential, ExecuteResult, TypeOK, RegistryTypeOK
    <3>2. [owner |-> owner, commitment |-> credentials[n].commitment,
           nullifier |-> n, at |-> timestamp] \in ActionExecuted
      BY <3>1 DEF DomainCredential, ActionExecuted, TypeOK, HostTypeOK
    <3> QED
      BY <2>2, <3>2 DEF ExecuteWithCredential, TypeOK, GatedTypeOK
  <2> QED
    BY <2>1, <2>2 DEF GatedStep
<1> QED
  BY <1>1, <1>2, <1>3 DEF TypeOK

LEMMA InitialType == InitialState => TypeOK
<1>1. Init => TypeOK
  <2> SUFFICES ASSUME Init PROVE TypeOK
    OBVIOUS
  <2>1. HostTypeOK
    BY HostAssumption DEF Init, HostTypeOK, U64
  <2>2. VerifierTypeOK
    BY DEF Init, VerifierInit, VerifierTypeOK
  <2>3. RegistryTypeOK
    <3>1. owner_credentials \in [Accounts -> Seq(Nullifiers)]
      BY DEF Init, RegistryInit
    <3> QED
      BY <3>1 DEF Init, RegistryInit, RegistryTypeOK
  <2>4. GatedTypeOK
    <3>1. events \in Seq(ActionExecuted)
      BY DEF Init, GatedInit
    <3> QED
      BY <3>1 DEF Init, GatedInit, GatedTypeOK
  <2> QED
    BY <2>1, <2>2, <2>3, <2>4 DEF TypeOK
<1>2. DeployedInit => TypeOK
  BY HostAssumption, RegistryAssumption, GatedAssumption, CloakworkAssumption
  DEF DeployedInit, ExtendTtl, U64,
      TypeOK, HostTypeOK, VerifierTypeOK, RegistryTypeOK, GatedTypeOK
<1> QED
  BY <1>1, <1>2 DEF InitialState

LEMMA StepType == TypeOK /\ [Next]_vars => TypeOK'
<1> SUFFICES ASSUME TypeOK, [Next]_vars
             PROVE  TypeOK'
  OBVIOUS
<1>1. CASE CloseLedger
  BY <1>1, CloseLedgerType
  DEF CloseLedger, verifierVars, registryVars, registryConfig, gatedVars,
      TypeOK, VerifierTypeOK, RegistryTypeOK, GatedTypeOK
<1>2. ASSUME NEW s \in Accounts, VerifierStep(s) \/ RegistryStep(s) \/ GatedStep(s)
      PROVE  TypeOK'
  BY <1>2, VerifierStepType, RegistryStepType, GatedStepType
<1>3. CASE UNCHANGED vars
  BY <1>3 DEF vars, hostVars, verifierVars, registryVars, registryConfig, gatedVars,
      TypeOK, HostTypeOK, VerifierTypeOK, RegistryTypeOK, GatedTypeOK
<1> QED
  BY <1>1, <1>2, <1>3 DEF Next

(***************************************************************************)
(* Every variable keeps its type: no call stores a value its storage entry *)
(* cannot hold, and expiries never leave u64.                              *)
(***************************************************************************)
THEOREM TypeCorrect == AnySpec => []TypeOK
BY InitialType, StepType, PTL DEF AnySpec, Spec, DeployedSpec, InitialState

------------------------------------------------------------------------------
(***************************************************************************)
(* The index of credentials.  A step either issues under a fresh nullifier *)
(* or amends stored credentials without touching what identifies them.     *)
(***************************************************************************)
Amends ==
  /\ DOMAIN credentials' = DOMAIN credentials
  /\ \A n \in DOMAIN credentials : Identity(credentials'[n]) = Identity(credentials[n])
  /\ UNCHANGED <<nullifier_used, owner_credentials>>

Issues(owner, pi) ==
  /\ pi.nullifier \notin nullifier_used
  /\ pi.not_after >= timestamp
  /\ credentials' = [m \in DOMAIN credentials \cup {pi.nullifier} |->
                       IF m = pi.nullifier THEN NewCredential(owner, pi) ELSE credentials[m]]
  /\ nullifier_used' = nullifier_used \cup {pi.nullifier}
  /\ owner_credentials' = [owner_credentials EXCEPT ![owner] = Append(@, pi.nullifier)]

LEMMA RevokeAmends ==
  ASSUME TypeOK, NEW caller, NEW n, NEW s, Revoke(caller, n, s)
  PROVE  Amends
<1>1. n \in DOMAIN credentials /\ credentials[n] \in DomainCredential
  BY DEF Revoke, IsUnrevoked, TypeOK, RegistryTypeOK
<1> QED
  BY <1>1 DEF Revoke, Amends, Identity, DomainCredential, TypeOK, RegistryTypeOK

LEMMA RenewAmends ==
  ASSUME TypeOK, NEW n, NEW e, NEW s, Renew(n, e, s)
  PROVE  Amends
<1>1. n \in DOMAIN credentials /\ credentials[n] \in DomainCredential
  BY DEF Renew, IsUnrevoked, TypeOK, RegistryTypeOK
<1> QED
  BY <1>1 DEF Renew, Amends, Identity, DomainCredential, TypeOK, RegistryTypeOK

LEMMA VerifyAndIssueIssues ==
  ASSUME TypeOK, NEW owner, NEW pi \in PublicInputs, NEW proof, NEW s,
         VerifyAndIssue(owner, pi, proof, s)
  PROVE  Issues(owner, pi)
<1>1. VerifyAndIssueResult(pi, proof) = "Ok"
  BY DEF VerifyAndIssue
<1>2. pi.nullifier \notin nullifier_used /\ ~(pi.not_after < timestamp)
  BY <1>1 DEF VerifyAndIssueResult, IsFresh
<1>3. pi.not_after >= timestamp
  BY <1>2, HostAssumption DEF PublicInputs, U64, TypeOK, HostTypeOK
<1> QED
  BY <1>2, <1>3 DEF VerifyAndIssue, Issues

(* Everything a step may do to the registry's records. *)
LEMMA StepAmendsOrIssues ==
  ASSUME TypeOK, [Next]_vars
  PROVE  \/ Amends
         \/ \E owner \in Accounts, pi \in PublicInputs : Issues(owner, pi)
<1>1. CASE UNCHANGED registryVars
  BY <1>1 DEF registryVars, Amends
<1>2. ASSUME NEW s \in Accounts, RegistryStep(s)
      PROVE  \/ Amends
             \/ \E owner \in Accounts, pi \in PublicInputs : Issues(owner, pi)
  <2>1. ASSUME NEW admin, NEW v, RegistryInitialize(admin, v, s)
        PROVE  Amends
    BY <2>1 DEF RegistryInitialize, Amends
  <2>2. ASSUME NEW owner \in Accounts, NEW pi \in Submissions, NEW proof \in Proofs,
               VerifyAndIssue(owner, pi, proof, s)
        PROVE  pi \in PublicInputs /\ Issues(owner, pi)
    BY <2>2, VerifyAndIssueIssues, CloakworkAssumption
  <2> QED
    BY <1>2, <1>1, <2>1, <2>2, RevokeAmends, RenewAmends
    DEF RegistryStep, RequireValidCredential, GetCredential, GetCredentialsByOwner
<1>3. CASE UNCHANGED vars
  BY <1>1, <1>3 DEF vars
<1> QED
  BY <1>1, <1>2, <1>3 DEF Next, CloseLedger, VerifierStep, GatedStep

(* Appending a new element to a list without repetition. *)
LEMMA AppendNew ==
  ASSUME NEW S, NEW seq \in Seq(S), NEW e \in S, e \notin Elements(seq),
         \A i, j \in DOMAIN seq : seq[i] = seq[j] => i = j
  PROVE  /\ Elements(Append(seq, e)) = Elements(seq) \cup {e}
         /\ \A i, j \in DOMAIN Append(seq, e) :
              Append(seq, e)[i] = Append(seq, e)[j] => i = j
<1> DEFINE new == Append(seq, e)
<1>1. /\ DOMAIN seq = 1 .. Len(seq)
      /\ DOMAIN new = 1 .. Len(seq) + 1
      /\ Len(seq) \in Nat
      /\ new[Len(seq) + 1] = e
      /\ \A i \in 1 .. Len(seq) : new[i] = seq[i]
  OBVIOUS
<1> HIDE DEF new
<1>2. Elements(new) = Elements(seq) \cup {e}
  BY <1>1 DEF Elements
<1>3. ASSUME NEW i \in DOMAIN new, NEW j \in DOMAIN new, new[i] = new[j]
      PROVE  i = j
  BY <1>1, <1>3 DEF Elements
<1> QED
  BY <1>2, <1>3 DEF new

LEMMA IssueKeepsIndex ==
  ASSUME TypeOK, IndexIsExact, NEW owner \in Accounts, NEW pi \in PublicInputs,
         Issues(owner, pi)
  PROVE  IndexIsExact'
<1> DEFINE n == pi.nullifier
<1>1. n \in Nullifiers /\ n \notin DOMAIN credentials
  BY DEF Issues, PublicInputs, IndexIsExact, NullifiersMatchCredentials
<1>2. /\ DOMAIN credentials' = DOMAIN credentials \cup {n}
      /\ \A m \in DOMAIN credentials : credentials'[m] = credentials[m]
      /\ credentials'[n].owner = owner
      /\ credentials'[n].nullifier = n
  BY <1>1 DEF Issues, NewCredential
<1>3. NullifiersMatchCredentials'
  BY <1>2 DEF Issues, IndexIsExact, NullifiersMatchCredentials
<1>4. ASSUME NEW a \in Accounts
      PROVE  /\ Elements(owner_credentials'[a])
                   = {m \in DOMAIN credentials' : credentials'[m].owner = a}
             /\ \A i, j \in DOMAIN owner_credentials'[a] :
                  owner_credentials'[a][i] = owner_credentials'[a][j] => i = j
  <2>1. /\ owner_credentials[a] \in Seq(Nullifiers)
        /\ Elements(owner_credentials[a])
             = {m \in DOMAIN credentials : credentials[m].owner = a}
        /\ \A i, j \in DOMAIN owner_credentials[a] :
             owner_credentials[a][i] = owner_credentials[a][j] => i = j
    BY DEF TypeOK, RegistryTypeOK, IndexIsExact, IndexMatchesCredentials
  <2>2. CASE a # owner
    <3>1. owner_credentials'[a] = owner_credentials[a]
      BY <2>2 DEF Issues, TypeOK, RegistryTypeOK
    <3>2. {m \in DOMAIN credentials' : credentials'[m].owner = a}
            = {m \in DOMAIN credentials : credentials[m].owner = a}
      BY <1>2, <2>2
    <3> QED
      BY <2>1, <3>1, <3>2
  <2>3. CASE a = owner
    <3>1. owner_credentials'[a] = Append(owner_credentials[a], n)
      BY <2>3 DEF Issues, TypeOK, RegistryTypeOK
    <3>2. n \notin Elements(owner_credentials[a])
      BY <1>1, <2>1
    <3>3. {m \in DOMAIN credentials' : credentials'[m].owner = a}
            = {m \in DOMAIN credentials : credentials[m].owner = a} \cup {n}
      BY <1>2, <2>3
    <3>4. /\ Elements(Append(owner_credentials[a], n)) = Elements(owner_credentials[a]) \cup {n}
          /\ \A i, j \in DOMAIN Append(owner_credentials[a], n) :
               Append(owner_credentials[a], n)[i] = Append(owner_credentials[a], n)[j] => i = j
      BY <1>1, <2>1, <3>2, AppendNew, Zenon
    <3> QED
      BY <2>1, <3>1, <3>3, <3>4, Zenon
  <2> QED
    BY <2>2, <2>3
<1> QED
  BY <1>3, <1>4 DEF IndexIsExact, IndexMatchesCredentials

LEMMA AmendKeepsIndex ==
  ASSUME IndexIsExact, Amends
  PROVE  IndexIsExact'
<1>1. \A n \in DOMAIN credentials : /\ credentials'[n].owner = credentials[n].owner
                                   /\ credentials'[n].nullifier = credentials[n].nullifier
  BY DEF Amends, Identity
<1>2. NullifiersMatchCredentials'
  BY <1>1 DEF Amends, IndexIsExact, NullifiersMatchCredentials
<1>3. IndexMatchesCredentials'
  BY <1>1 DEF Amends, IndexIsExact, IndexMatchesCredentials
<1> QED
  BY <1>2, <1>3 DEF IndexIsExact

LEMMA StepKeepsIndex == TypeOK /\ IndexIsExact /\ [Next]_vars => IndexIsExact'
BY StepAmendsOrIssues, AmendKeepsIndex, IssueKeepsIndex

LEMMA InitialRegistry ==
  ASSUME InitialState
  PROVE  /\ credentials = [n \in {} |-> NoAddress]
         /\ nullifier_used = {}
         /\ owner_credentials = [a \in Accounts |-> <<>>]
         /\ events = <<>>
BY DEF InitialState, Init, RegistryInit, GatedInit, DeployedInit

LEMMA InitialIndex == InitialState => IndexIsExact
<1> SUFFICES ASSUME InitialState PROVE IndexIsExact
  OBVIOUS
<1>1. DOMAIN credentials = {}
  BY InitialRegistry
<1>2. NullifiersMatchCredentials
  BY <1>1, InitialRegistry DEF NullifiersMatchCredentials
<1>3. \A a \in Accounts : owner_credentials[a] = <<>>
  BY InitialRegistry
<1>4. DOMAIN <<>> = {}
  OBVIOUS
<1>5. IndexMatchesCredentials
  BY <1>1, <1>3, <1>4 DEF IndexMatchesCredentials, Elements
<1> QED
  BY <1>2, <1>5 DEF IndexIsExact

(***************************************************************************)
(* The three records of an issuance always agree: a nullifier is used      *)
(* exactly when a credential is stored under it, and each owner's index    *)
(* lists exactly that owner's credentials, each once.                      *)
(***************************************************************************)
THEOREM IndexIsAlwaysExact == AnySpec => []IndexIsExact
<1>1. AnySpec => InitialState /\ [][Next]_vars
  BY DEF AnySpec, Spec, DeployedSpec, InitialState
<1> QED
  BY <1>1, TypeCorrect, InitialIndex, StepKeepsIndex, PTL

(* Everything a step may do to one credential. *)
LEMMA StepOnCredential ==
  ASSUME TypeOK, [Next]_vars, NEW n \in DOMAIN credentials'
  PROVE  \/ n \in DOMAIN credentials /\ credentials'[n] = credentials[n]
         \/ \E owner \in Accounts, pi \in PublicInputs : Issues(owner, pi) /\ n = pi.nullifier
         \/ \E s \in Accounts, e \in U64 : Renew(n, e, s)
         \/ \E s \in Accounts, caller \in Accounts : Revoke(caller, n, s)
<1> DEFINE Same == n \in DOMAIN credentials /\ credentials'[n] = credentials[n]
<1>1. CASE UNCHANGED credentials
  BY <1>1
<1>2. ASSUME NEW s \in Accounts, NEW owner \in Accounts, NEW pi \in Submissions,
             NEW proof \in Proofs, VerifyAndIssue(owner, pi, proof, s)
      PROVE  Same \/ (pi \in PublicInputs /\ Issues(owner, pi) /\ n = pi.nullifier)
  <2>1. pi \in PublicInputs /\ Issues(owner, pi)
    BY <1>2, CloakworkAssumption, VerifyAndIssueIssues
  <2> QED
    BY <2>1 DEF Issues
<1>3. ASSUME NEW s \in Accounts, NEW caller \in Accounts, NEW m \in Nullifiers,
             Revoke(caller, m, s)
      PROVE  Same \/ n = m
  BY <1>3 DEF Revoke, TypeOK, RegistryTypeOK
<1>4. ASSUME NEW s \in Accounts, NEW m \in Nullifiers, NEW e \in Expiries, Renew(m, e, s)
      PROVE  Same \/ (n = m /\ e \in U64)
  BY <1>4, CloakworkAssumption DEF Renew, TypeOK, RegistryTypeOK
<1>5. ASSUME NEW s \in Accounts, RegistryStep(s), credentials' # credentials
      PROVE  \/ \E owner \in Accounts, pi \in Submissions, proof \in Proofs :
                   VerifyAndIssue(owner, pi, proof, s)
             \/ \E caller \in Accounts, m \in Nullifiers : Revoke(caller, m, s)
             \/ \E m \in Nullifiers, e \in Expiries : Renew(m, e, s)
  BY <1>5 DEF RegistryStep, RegistryInitialize, RequireValidCredential, GetCredential,
              GetCredentialsByOwner, registryVars
<1>6. ASSUME NEW s \in Accounts, RegistryStep(s)
      PROVE  \/ Same
             \/ \E owner \in Accounts, pi \in PublicInputs : Issues(owner, pi) /\ n = pi.nullifier
             \/ \E e \in U64 : Renew(n, e, s)
             \/ \E caller \in Accounts : Revoke(caller, n, s)
  BY <1>1, <1>2, <1>3, <1>4, <1>5, <1>6
<1>7. UNCHANGED credentials \/ \E s \in Accounts : RegistryStep(s)
  BY DEF Next, vars, CloseLedger, VerifierStep, GatedStep, registryVars
<1> QED
  BY <1>1, <1>6, <1>7

------------------------------------------------------------------------------
(***************************************************************************)
(* Credentials only age.  Issuing cannot touch a stored credential, since  *)
(* its nullifier is used; the inductive invariant is IndexIsExact.         *)
(***************************************************************************)
LEMMA RevokedIsFrozen ==
  ASSUME TypeOK, [Next]_vars,
         NEW n \in DOMAIN credentials', n \in nullifier_used,
         n \in DOMAIN credentials, credentials[n].status = "Revoked"
  PROVE  credentials'[n] = credentials[n]
BY StepOnCredential DEF Issues, Renew, Revoke, IsUnrevoked

LEMMA StepAges == TypeOK /\ IndexIsExact /\ [Next]_vars => CredentialAges
<1> SUFFICES ASSUME TypeOK, IndexIsExact, [Next]_vars, NEW n \in DOMAIN credentials
             PROVE  /\ n \in DOMAIN credentials'
                    /\ Identity(credentials'[n]) = Identity(credentials[n])
                    /\ credentials[n].status = "Revoked" => credentials'[n] = credentials[n]
  BY DEF CredentialAges
<1>1. n \in nullifier_used
  BY DEF IndexIsExact, NullifiersMatchCredentials
<1>2. n \in DOMAIN credentials' /\ Identity(credentials'[n]) = Identity(credentials[n])
  <2>1. CASE Amends
    BY <2>1 DEF Amends
  <2>2. ASSUME NEW owner \in Accounts, NEW pi \in PublicInputs, Issues(owner, pi)
        PROVE  n \in DOMAIN credentials' /\ credentials'[n] = credentials[n]
    BY <2>2, <1>1 DEF Issues
  <2> QED
    BY <2>1, <2>2, StepAmendsOrIssues
<1> QED
  BY <1>1, <1>2, RevokedIsFrozen

(***************************************************************************)
(* What a credential says of its holder and its domain is never rewritten, *)
(* a credential is never removed, and revocation is final.                 *)
(***************************************************************************)
THEOREM CredentialsOnlyEverAge == AnySpec => CredentialsOnlyAge
<1>1. AnySpec => [][Next]_vars
  BY DEF AnySpec, Spec, DeployedSpec
<1> QED
  BY <1>1, TypeCorrect, IndexIsAlwaysExact, StepAges, PTL DEF CredentialsOnlyAge

------------------------------------------------------------------------------
(* Expiries: inductive together with the types of credentials. *)
LEMMA StepKeepsExpiryBounded ==
  TypeOK /\ IndexIsExact /\ ExpiryIsBounded /\ [Next]_vars => ExpiryIsBounded'
<1> SUFFICES ASSUME TypeOK, IndexIsExact, ExpiryIsBounded, [Next]_vars,
                    NEW n \in DOMAIN credentials'
             PROVE  /\ credentials'[n].issued_at <= timestamp'
                    /\ credentials'[n].issued_at <= credentials'[n].expires_at
                    /\ credentials'[n].expires_at <= timestamp' + MAX_CREDENTIAL_TTL_SECS
  BY DEF ExpiryIsBounded
<1> USE HostAssumption, RegistryAssumption
<1>1. timestamp \in Nat /\ timestamp' \in Nat /\ timestamp <= timestamp'
  <2>1. CASE CloseLedger
    BY <2>1 DEF CloseLedger, LedgerClose, TypeOK, HostTypeOK, U64
  <2>2. CASE UNCHANGED timestamp
    BY <2>2 DEF TypeOK, HostTypeOK, U64
  <2>3. ASSUME NEW accessed, NEW extended, NEW s, Transaction(s, accessed, extended)
        PROVE  UNCHANGED timestamp
    BY <2>3 DEF Transaction
  <2>4. CASE \E s \in Accounts : VerifierStep(s)
    BY <2>2, <2>3, <2>4
    DEF VerifierStep, VerifierInitialize, RegisterKey, VerifyProof
  <2>5. CASE \E s \in Accounts : RegistryStep(s)
    BY <2>2, <2>3, <2>5
    DEF RegistryStep, RegistryInitialize, VerifyAndIssue, Revoke, Renew, RequireValidCredential,
        GetCredential, GetCredentialsByOwner
  <2>6. CASE \E s \in Accounts : GatedStep(s)
    BY <2>2, <2>3, <2>6 DEF GatedStep, GatedInitialize, ExecuteWithCredential
  <2> QED
    BY <2>1, <2>2, <2>4, <2>5, <2>6 DEF Next, vars, hostVars
<1>2. ASSUME n \in DOMAIN credentials
      PROVE  /\ credentials[n].issued_at \in Nat
             /\ credentials[n].expires_at \in Nat
             /\ credentials[n].issued_at <= timestamp
             /\ credentials[n].issued_at <= credentials[n].expires_at
             /\ credentials[n].expires_at <= timestamp + MAX_CREDENTIAL_TTL_SECS
  BY <1>2 DEF ExpiryIsBounded, TypeOK, RegistryTypeOK, DomainCredential, U64
<1>3. CASE n \in DOMAIN credentials /\ credentials'[n] = credentials[n]
  BY <1>1, <1>2, <1>3
<1>4. ASSUME NEW owner \in Accounts, NEW pi \in PublicInputs, Issues(owner, pi),
             n = pi.nullifier
      PROVE  /\ credentials'[n].issued_at = timestamp
             /\ credentials'[n].expires_at \in Nat
             /\ timestamp <= credentials'[n].expires_at
             /\ credentials'[n].expires_at <= timestamp + MAX_CREDENTIAL_TTL_SECS
  <2>1. credentials'[n] = NewCredential(owner, pi)
    BY <1>4 DEF Issues
  <2>2. Minimum(pi.not_after, MaxExpiry) \in {pi.not_after, MaxExpiry}
        /\ Minimum(pi.not_after, MaxExpiry) <= MaxExpiry
        /\ Minimum(pi.not_after, MaxExpiry) \in U64
        /\ MaxExpiry \in U64 /\ timestamp <= MaxExpiry
        /\ MaxExpiry <= timestamp + MAX_CREDENTIAL_TTL_SECS
    BY MaxExpiryType, MinimumType DEF PublicInputs, TypeOK, HostTypeOK
  <2> QED
    BY <1>1, <1>4, <2>1, <2>2 DEF NewCredential, Issues, U64
<1>5. ASSUME NEW s, NEW e \in U64, Renew(n, e, s)
      PROVE  /\ n \in DOMAIN credentials
             /\ credentials'[n].issued_at = credentials[n].issued_at
             /\ credentials'[n].expires_at \in Nat
             /\ timestamp <= credentials'[n].expires_at
             /\ credentials'[n].expires_at <= timestamp + MAX_CREDENTIAL_TTL_SECS
  <2>1. n \in DOMAIN credentials /\ credentials[n] \in DomainCredential
        /\ credentials' = [credentials EXCEPT ![n].expires_at = Minimum(e, MaxExpiry)]
        /\ e > timestamp
    BY <1>5 DEF Renew, IsUnrevoked, TypeOK, RegistryTypeOK
  <2>2. credentials'[n].issued_at = credentials[n].issued_at
        /\ credentials'[n].expires_at = Minimum(e, MaxExpiry)
    BY <2>1 DEF DomainCredential
  <2>3. Minimum(e, MaxExpiry) \in {e, MaxExpiry} /\ Minimum(e, MaxExpiry) <= MaxExpiry
        /\ Minimum(e, MaxExpiry) \in U64
        /\ MaxExpiry \in U64 /\ timestamp <= MaxExpiry
        /\ MaxExpiry <= timestamp + MAX_CREDENTIAL_TTL_SECS
    BY MaxExpiryType, MinimumType DEF TypeOK, HostTypeOK
  <2> QED
    BY <1>1, <2>1, <2>2, <2>3 DEF U64
<1>6. ASSUME NEW s, NEW caller, Revoke(caller, n, s)
      PROVE  /\ n \in DOMAIN credentials
             /\ credentials'[n].issued_at = credentials[n].issued_at
             /\ credentials'[n].expires_at = credentials[n].expires_at
  <2>1. n \in DOMAIN credentials /\ credentials[n] \in DomainCredential
        /\ credentials' = [credentials EXCEPT ![n].status = "Revoked"]
    BY <1>6 DEF Revoke, IsUnrevoked, TypeOK, RegistryTypeOK
  <2> QED
    BY <2>1 DEF DomainCredential
<1>7. \/ n \in DOMAIN credentials /\ credentials'[n] = credentials[n]
      \/ \E owner \in Accounts, pi \in PublicInputs : Issues(owner, pi) /\ n = pi.nullifier
      \/ \E s \in Accounts, e \in U64 : Renew(n, e, s)
      \/ \E s \in Accounts, caller \in Accounts : Revoke(caller, n, s)
  BY StepOnCredential
<1> QED
  BY <1>1, <1>2, <1>3, <1>4, <1>5, <1>6, <1>7

(***************************************************************************)
(* No sequence of issuances and renewals makes a credential that outlives  *)
(* the present by more than the maximum lifetime, near the end of u64 too. *)
(***************************************************************************)
THEOREM ExpiryIsAlwaysBounded == AnySpec => []ExpiryIsBounded
<1>1. AnySpec => InitialState /\ [][Next]_vars
  BY DEF AnySpec, Spec, DeployedSpec, InitialState
<1>2. InitialState => ExpiryIsBounded
  BY InitialRegistry DEF ExpiryIsBounded
<1> QED
  BY <1>1, <1>2, TypeCorrect, IndexIsAlwaysExact, StepKeepsExpiryBounded, PTL

------------------------------------------------------------------------------
LEMMA StepKeepsConfiguration == Next => ConfigurationKept
<1> SUFFICES ASSUME Next PROVE ConfigurationKept
  OBVIOUS
<1>1. verifier_initialized => UNCHANGED <<verifier_initialized, verifier_admin>>
  BY DEF Next, CloseLedger, VerifierStep, RegistryStep, GatedStep, verifierVars,
         VerifierInitialize, RegisterKey, VerifyProof
<1>2. registry_initialized => UNCHANGED registryConfig
  BY DEF Next, CloseLedger, VerifierStep, RegistryStep, GatedStep, registryVars,
         RegistryInitialize, VerifyAndIssue, Revoke, Renew, RequireValidCredential,
         GetCredential, GetCredentialsByOwner
<1>3. gated_initialized => UNCHANGED <<gated_initialized, gated_registry>>
  BY DEF Next, CloseLedger, VerifierStep, RegistryStep, GatedStep, gatedVars,
         GatedInitialize, ExecuteWithCredential
<1> QED
  BY <1>1, <1>2, <1>3 DEF ConfigurationKept

(***************************************************************************)
(* Whoever initializes a contract first configures it for good.            *)
(***************************************************************************)
THEOREM ConfigurationIsAlwaysFinal == AnySpec => ConfigurationIsFinal
<1>1. AnySpec => [][Next]_vars
  BY DEF AnySpec, Spec, DeployedSpec
<1> QED
  BY <1>1, StepKeepsConfiguration, PTL DEF ConfigurationIsFinal

------------------------------------------------------------------------------
(***************************************************************************)
(* The registry hands the verifier the circuit's public signals, and the   *)
(* two contracts read the same validity window from them, so the verifier  *)
(* refuses no honest proof that the registry's own checks let through.     *)
(***************************************************************************)
LEMMA InputsVectorIsPublicSignals ==
  ASSUME NEW pi
  PROVE  /\ [i \in DOMAIN InputsVector(pi) |-> FieldOf(InputsVector(pi)[i])]
              = PublicSignals(SignalsOf(pi))
         /\ Len(InputsVector(pi)) = N_PUBLIC_INPUTS
         /\ Bytes32ToU64(InputsVector(pi)[5]) = pi.not_before
         /\ Bytes32ToU64(InputsVector(pi)[6]) = pi.not_after
<1> DEFINE inputs == InputsVector(pi)
           fields == [i \in DOMAIN inputs |-> FieldOf(inputs[i])]
           signals == PublicSignals(SignalsOf(pi))
<1>1. /\ DOMAIN inputs = 1 .. 8
      /\ DOMAIN signals = 1 .. 8
  BY DEF InputsVector, PublicSignals
<1>2. /\ fields[1] = signals[1] /\ fields[2] = signals[2]
      /\ fields[3] = signals[3] /\ fields[4] = signals[4]
  BY <1>1 DEF InputsVector, PublicSignals, SignalsOf
<1>3. /\ fields[5] = signals[5] /\ fields[6] = signals[6]
      /\ fields[7] = signals[7] /\ fields[8] = signals[8]
  BY <1>1 DEF InputsVector, PublicSignals, SignalsOf, FieldOf, IntToBytes32, IntSignal
<1>4. fields = signals
  <2>1. \A i \in 1 .. 8 : i = 1 \/ i = 2 \/ i = 3 \/ i = 4 \/ i = 5 \/ i = 6 \/ i = 7 \/ i = 8
    OBVIOUS
  <2>2. \A i \in 1 .. 8 : fields[i] = signals[i]
    BY <1>2, <1>3, <2>1
  <2>3. signals = [i \in 1 .. 8 |-> signals[i]]
    BY DEF PublicSignals
  <2> QED
    BY <1>1, <2>2, <2>3
<1> QED
  BY <1>4 DEF InputsVector, IntToBytes32, N_PUBLIC_INPUTS, Bytes32ToU64

THEOREM HonestProofsAreAlwaysAccepted == AnySpec => []HonestProofsAreAccepted
<1>1. TypeOK => HonestProofsAreAccepted
  <2> SUFFICES ASSUME TypeOK, NEW pi \in Submissions,
                      pi.not_before <= timestamp, timestamp <= pi.not_after,
                      pi.nullifier \notin nullifier_used,
                      verifier_contract = Verifier,
                      pi.verifier_version \in DOMAIN verifying_keys,
                      verifying_keys[pi.verifier_version].ic_points = 9
               PROVE  VerifyAndIssueResult(pi, [form |-> "ok", statement |-> PublicSignals(SignalsOf(pi)),
                        circuit |-> verifying_keys[pi.verifier_version].circuit]) = "Ok"
    BY DEF HonestProofsAreAccepted
  <2> DEFINE proof == [form |-> "ok", statement |-> PublicSignals(SignalsOf(pi)),
                       circuit |-> verifying_keys[pi.verifier_version].circuit]
  <2>1. ~(pi.not_before > timestamp) /\ ~(pi.not_after < timestamp)
    BY HostAssumption, CloakworkAssumption DEF PublicInputs, U64, TypeOK, HostTypeOK
  <2>2. PairingCheck(verifying_keys[pi.verifier_version], proof, InputsVector(pi))
    BY InputsVectorIsPublicSignals DEF PairingCheck
  <2>3. VerifyProofResult(proof, InputsVector(pi), pi.verifier_version) = "True"
    <3>1. /\ Len(InputsVector(pi)) = 8
          /\ Bytes32ToU64(InputsVector(pi)[5]) = pi.not_before
          /\ Bytes32ToU64(InputsVector(pi)[6]) = pi.not_after
      BY InputsVectorIsPublicSignals DEF N_PUBLIC_INPUTS
    <3>2. proof.form = "ok"
      OBVIOUS
    <3> HIDE DEF proof
    <3> QED
      BY <2>1, <2>2, <3>1, <3>2 DEF VerifyProofResult, N_PUBLIC_INPUTS
  <2>4. VerifierAnswer(pi, proof) = "True"
    BY <2>3 DEF VerifierAnswer
  <2>5. verifier_contract # NoAddress
    BY RegistryAssumption
  <2> QED
    BY <2>1, <2>4, <2>5 DEF VerifyAndIssueResult, IsFresh
<1> QED
  BY <1>1, TypeCorrect, PTL

------------------------------------------------------------------------------
(***************************************************************************)
(* Every credential was proved, given that the proof system is sound: its  *)
(* bytes stand for the signals of a witness, canonical bytes or not.       *)
(***************************************************************************)
LEMMA IssuedIsProved ==
  ASSUME TypeOK, NEW owner, NEW pi \in Submissions, NEW proof \in Proofs, NEW s,
         VerifyAndIssue(owner, pi, proof, s)
  PROVE  \E w \in Witnesses :
           LET c == NewCredential(owner, pi) IN
           /\ FieldOf(c.commitment) = Poseidon(w.domain_bytes_hash, w.nonce)
           /\ FieldOf(c.nullifier) = Poseidon(w.domain_bytes_hash, w.secret)
           /\ w.rrsig_not_before <= c.issued_at /\ c.issued_at <= w.rrsig_not_after
           /\ c.verifier_version \in DOMAIN verifying_keys \ {0}
<1>1. VerifyAndIssueResult(pi, proof) = "Ok"
  BY DEF VerifyAndIssue
<1>2. /\ VerifierAnswer(pi, proof) = "True"
      /\ ~(pi.not_before > timestamp) /\ ~(pi.not_after < timestamp)
  BY <1>1 DEF VerifyAndIssueResult
<1>3. VerifyProofResult(proof, InputsVector(pi), pi.verifier_version) = "True"
  BY <1>2 DEF VerifierAnswer
<1>4. /\ pi.verifier_version \in DOMAIN verifying_keys
      /\ proof.form # "truncated" /\ proof.form # "off_curve"
      /\ proof.statement = PublicSignals(SignalsOf(pi))
  BY <1>3, InputsVectorIsPublicSignals DEF VerifyProofResult, PairingCheck
<1>5. PICK w \in Witnesses : CircuitAccepts(w, SignalsOf(pi))
  BY <1>4, ProofSoundness
<1>6. pi.not_before <= timestamp /\ timestamp <= pi.not_after
  BY <1>2, HostAssumption, CloakworkAssumption DEF PublicInputs, U64, TypeOK, HostTypeOK
<1>7. pi.verifier_version # 0
  BY <1>5 DEF CircuitAccepts, SignalsOf
<1> WITNESS w \in Witnesses
<1> QED
  BY <1>4, <1>5, <1>6, <1>7 DEF CircuitAccepts, SignalsOf, NewCredential

LEMMA KeysAreKept ==
  ASSUME [Next]_vars
  PROVE  DOMAIN verifying_keys \subseteq DOMAIN verifying_keys'
BY DEF Next, vars, CloseLedger, VerifierStep, RegistryStep, GatedStep, verifierVars,
       VerifierInitialize, RegisterKey, VerifyProof

LEMMA StepKeepsProved ==
  TypeOK /\ IndexIsExact /\ CredentialsAreProved /\ [Next]_vars => CredentialsAreProved'
<1> SUFFICES ASSUME TypeOK, IndexIsExact, CredentialsAreProved, [Next]_vars,
                    NEW n \in DOMAIN credentials'
             PROVE  \E w \in Witnesses :
                      LET c == credentials'[n] IN
                      /\ FieldOf(c.commitment) = Poseidon(w.domain_bytes_hash, w.nonce)
                      /\ FieldOf(c.nullifier) = Poseidon(w.domain_bytes_hash, w.secret)
                      /\ w.rrsig_not_before <= c.issued_at /\ c.issued_at <= w.rrsig_not_after
                      /\ c.verifier_version \in DOMAIN verifying_keys' \ {0}
  BY DEF CredentialsAreProved
<1>1. CASE n \in DOMAIN credentials
  <2>1. Identity(credentials'[n]) = Identity(credentials[n])
    BY <1>1, StepAges DEF CredentialAges
  <2>2. /\ credentials'[n].commitment = credentials[n].commitment
        /\ credentials'[n].nullifier = credentials[n].nullifier
        /\ credentials'[n].issued_at = credentials[n].issued_at
        /\ credentials'[n].verifier_version = credentials[n].verifier_version
    BY <2>1 DEF Identity
  <2> QED
    BY <1>1, <2>2, KeysAreKept DEF CredentialsAreProved
<1>2. CASE n \notin DOMAIN credentials
  <2>1. PICK s \in Accounts, owner \in Accounts, pi \in Submissions, proof \in Proofs :
          VerifyAndIssue(owner, pi, proof, s)
    BY <1>2, RevokeAmends, RenewAmends
    DEF Next, vars, CloseLedger, VerifierStep, RegistryStep, GatedStep, registryVars, Amends,
        RegistryInitialize, RequireValidCredential, GetCredential, GetCredentialsByOwner
  <2>2. credentials'[n] = NewCredential(owner, pi)
    BY <1>2, <2>1 DEF VerifyAndIssue
  <2> QED
    BY <2>1, <2>2, IssuedIsProved, KeysAreKept
<1> QED
  BY <1>1, <1>2

THEOREM CredentialsAreAlwaysProved == AnySpec => []CredentialsAreProved
<1>1. AnySpec => InitialState /\ [][Next]_vars
  BY DEF AnySpec, Spec, DeployedSpec, InitialState
<1>2. InitialState => CredentialsAreProved
  BY InitialRegistry DEF CredentialsAreProved
<1> QED
  BY <1>1, <1>2, TypeCorrect, IndexIsAlwaysExact, StepKeepsProved, PTL

------------------------------------------------------------------------------
(***************************************************************************)
(* A contract has its configuration exactly when it is initialized: the    *)
(* instance flag and the persistent entries are written together.          *)
(***************************************************************************)
ConfiguredOnceInitialized ==
  /\ verifier_initialized <=> verifier_admin # NoAddress
  /\ registry_initialized <=> registry_admin # NoAddress
  /\ registry_initialized <=> verifier_contract # NoAddress
  /\ gated_initialized <=> gated_registry # NoAddress

LEMMA InitialConfigured == InitialState => ConfiguredOnceInitialized
BY VerifierAssumption, RegistryAssumption, GatedAssumption, CloakworkAssumption
DEF InitialState, Init, VerifierInit, RegistryInit, GatedInit, DeployedInit,
    ConfiguredOnceInitialized

(* The only steps that touch a configuration are the initializations. *)
LEMMA StepConfigures ==
  ASSUME [Next]_vars
  PROVE  /\ \/ UNCHANGED <<verifier_initialized, verifier_admin>>
            \/ verifier_initialized' = TRUE /\ verifier_admin' \in Accounts
         /\ \/ UNCHANGED registryConfig
            \/ /\ registry_initialized' = TRUE
               /\ registry_admin' \in Accounts
               /\ verifier_contract' \in VerifierAddresses
         /\ \/ UNCHANGED <<gated_initialized, gated_registry>>
            \/ gated_initialized' = TRUE /\ gated_registry' \in RegistryAddresses
<1>1. \/ UNCHANGED <<verifier_initialized, verifier_admin>>
      \/ verifier_initialized' = TRUE /\ verifier_admin' \in Accounts
  BY DEF Next, vars, CloseLedger, VerifierStep, RegistryStep, GatedStep, verifierVars,
         VerifierInitialize, RegisterKey, VerifyProof
<1>2. \/ UNCHANGED registryConfig
      \/ /\ registry_initialized' = TRUE
         /\ registry_admin' \in Accounts
         /\ verifier_contract' \in VerifierAddresses
  BY DEF Next, vars, CloseLedger, VerifierStep, RegistryStep, GatedStep, registryVars,
         RegistryInitialize, VerifyAndIssue, Revoke, Renew, RequireValidCredential,
         GetCredential, GetCredentialsByOwner
<1>3. \/ UNCHANGED <<gated_initialized, gated_registry>>
      \/ gated_initialized' = TRUE /\ gated_registry' \in RegistryAddresses
  BY DEF Next, vars, CloseLedger, VerifierStep, RegistryStep, GatedStep, gatedVars,
         GatedInitialize, ExecuteWithCredential
<1> QED
  BY <1>1, <1>2, <1>3

LEMMA StepKeepsConfigured ==
  ConfiguredOnceInitialized /\ [Next]_vars => ConfiguredOnceInitialized'
BY StepConfigures, VerifierAssumption, RegistryAssumption, GatedAssumption
DEF ConfiguredOnceInitialized, registryConfig

------------------------------------------------------------------------------
(* What an extension leaves is above the threshold, archived before or not. *)
LEMMA ExtensionSuffices ==
  ASSUME HostTypeOK, NEW s, NEW accessed, NEW extended, NEW key \in extended,
         Transaction(s, accessed, extended)
  PROVE  live_until'[key] > sequence + TTL_THRESHOLD
<1>1. EntryOnAccess(key) \in Int
  BY HostAssumption DEF HostTypeOK, EntryOnAccess, IsLive
<1>2. live_until'[key] = ExtendTtl(EntryOnAccess(key))
  BY DEF Transaction
<1> QED
  BY <1>1, <1>2, HostAssumption DEF HostTypeOK, ExtendTtl

LEMMA StepRefreshes == TypeOK /\ Next => CredentialRefreshed
<1> SUFFICES ASSUME TypeOK, Next, NEW n \in DOMAIN credentials',
                    \/ n \notin DOMAIN credentials
                    \/ n \in DOMAIN credentials /\ credentials'[n] # credentials[n]
                    \/ events' # events /\ events'[Len(events')].nullifier = n
             PROVE  live_until'[CredentialKey(n)] > sequence + TTL_THRESHOLD
  BY DEF CredentialRefreshed
<1>1. ASSUME NEW s \in Accounts, NEW accessed, NEW extended,
             Transaction(s, accessed, extended), CredentialKey(n) \in extended
      PROVE  live_until'[CredentialKey(n)] > sequence + TTL_THRESHOLD
  BY <1>1, ExtensionSuffices DEF TypeOK
<1>2. CASE UNCHANGED credentials
  <2>1. PICK s \in Accounts, owner \in Accounts, m \in Nullifiers :
            ExecuteWithCredential(owner, m, s)
    BY <1>2 DEF Next, CloseLedger, VerifierStep, RegistryStep, GatedStep, gatedVars,
                GatedInitialize
  <2>2. events' = Append(events, [owner |-> owner, commitment |-> credentials[m].commitment,
                                  nullifier |-> m, at |-> timestamp])
    BY <2>1 DEF ExecuteWithCredential
  <2>3. events'[Len(events')].nullifier = m
    BY <2>2 DEF TypeOK, GatedTypeOK
  <2>4. m = n
    BY <1>2, <2>3
  <2> QED
    BY <1>1, <2>1, <2>4 DEF ExecuteWithCredential, ExtendCredential
<1>3. CASE ~UNCHANGED credentials
  <2>1. PICK s \in Accounts : RegistryStep(s)
    BY <1>3 DEF Next, CloseLedger, VerifierStep, GatedStep, registryVars
  <2>2. UNCHANGED events
    BY <2>1 DEF RegistryStep, gatedVars
  <2>3. ASSUME NEW owner, NEW pi, NEW proof, VerifyAndIssue(owner, pi, proof, s)
        PROVE  live_until'[CredentialKey(n)] > sequence + TTL_THRESHOLD
    BY <1>1, <2>2, <2>3 DEF VerifyAndIssue, IssueExtends
  <2>4. ASSUME NEW caller, NEW m, Revoke(caller, m, s)
        PROVE  live_until'[CredentialKey(n)] > sequence + TTL_THRESHOLD
    BY <1>1, <2>2, <2>4 DEF Revoke, ExtendCredential, TypeOK, RegistryTypeOK
  <2>5. ASSUME NEW m, NEW e, Renew(m, e, s)
        PROVE  live_until'[CredentialKey(n)] > sequence + TTL_THRESHOLD
    BY <1>1, <2>2, <2>5 DEF Renew, ExtendCredential, TypeOK, RegistryTypeOK
  <2> QED
    BY <1>3, <2>1, <2>3, <2>4, <2>5
    DEF RegistryStep, RegistryInitialize, RequireValidCredential, GetCredential,
        GetCredentialsByOwner, registryVars
<1> QED
  BY <1>2, <1>3

(***************************************************************************)
(* A credential that was just issued, changed or used is live for longer   *)
(* than the threshold, whatever its entry's time to live was before.       *)
(***************************************************************************)
THEOREM UseAlwaysKeepsCredentialsLive == AnySpec => UseKeepsCredentialsLive
<1>1. AnySpec => [][Next]_vars
  BY DEF AnySpec, Spec, DeployedSpec
<1> QED
  BY <1>1, TypeCorrect, StepRefreshes, PTL DEF UseKeepsCredentialsLive

(***************************************************************************)
(* What each call writes is among what it extends.                         *)
(***************************************************************************)
LEMMA VerifierStepExtends ==
  ASSUME TypeOK, NEW s \in Accounts, VerifierStep(s)
  PROVE  WrittenAreExtended
<1>1. UNCHANGED <<registryVars, gatedVars>>
  BY DEF VerifierStep
<1>2. ASSUME NEW accessed, NEW extended, Transaction(s, accessed, extended),
             WrittenKeys \subseteq extended
      PROVE  WrittenAreExtended
  BY <1>2, ExtensionSuffices DEF TypeOK, WrittenAreExtended
<1>3. ASSUME NEW admin, VerifierInitialize(admin, s)
      PROVE  WrittenAreExtended
  <2>1. WrittenKeys \subseteq {VerifierInstance, VerifierAdminKey}
    BY <1>1, <1>3 DEF VerifierInitialize, WrittenKeys, registryVars, registryConfig, gatedVars
  <2> QED
    BY <1>2, <1>3, <2>1 DEF VerifierInitialize
<1>4. ASSUME NEW v, NEW vk, RegisterKey(v, vk, s)
      PROVE  WrittenAreExtended
  <2>1. WrittenKeys \subseteq {VerifierInstance, VerifierAdminKey, VerifyingKeyKey(v)}
    BY <1>1, <1>4 DEF RegisterKey, WrittenKeys, registryVars, registryConfig, gatedVars
  <2> QED
    BY <1>2, <1>4, <2>1 DEF RegisterKey
<1>5. ASSUME UNCHANGED verifierVars
      PROVE  WrittenAreExtended
  BY <1>1, <1>5
  DEF WrittenAreExtended, WrittenKeys, verifierVars, registryVars, registryConfig, gatedVars
<1> QED
  BY <1>3, <1>4, <1>5 DEF VerifierStep, VerifyProof

LEMMA RegistryStepExtends ==
  ASSUME TypeOK, NEW s \in Accounts, RegistryStep(s)
  PROVE  WrittenAreExtended
<1>1. UNCHANGED <<verifierVars, gatedVars>>
  BY DEF RegistryStep
<1>2. ASSUME NEW accessed, NEW extended, Transaction(s, accessed, extended),
             WrittenKeys \subseteq extended
      PROVE  WrittenAreExtended
  BY <1>2, ExtensionSuffices DEF TypeOK, WrittenAreExtended
<1>3. ASSUME NEW admin, NEW v, RegistryInitialize(admin, v, s)
      PROVE  WrittenAreExtended
  <2>1. WrittenKeys \subseteq {RegistryInstance, RegistryAdminKey, VerifierContractKey}
    BY <1>1, <1>3 DEF RegistryInitialize, WrittenKeys, verifierVars, gatedVars
  <2> QED
    BY <1>2, <1>3, <2>1 DEF RegistryInitialize
<1>4. ASSUME NEW owner \in Accounts, NEW pi \in Submissions, NEW proof \in Proofs,
             VerifyAndIssue(owner, pi, proof, s)
      PROVE  WrittenAreExtended
  <2>1. \A a \in Accounts : owner_credentials'[a] # owner_credentials[a] => a = owner
    BY <1>4 DEF VerifyAndIssue, TypeOK, RegistryTypeOK
  <2>2. WrittenKeys \subseteq IssueExtends(owner, pi.nullifier)
    BY <1>1, <1>4, <2>1
    DEF VerifyAndIssue, WrittenKeys, IssueExtends, verifierVars, gatedVars, registryConfig
  <2>3. WrittenKeys \subseteq {VerifyingKeyKey(pi.verifier_version)} \cup IssueExtends(owner, pi.nullifier)
    BY <2>2
  <2> QED
    BY <1>2, <1>4, <2>3 DEF VerifyAndIssue
<1>5. ASSUME NEW caller, NEW n, Revoke(caller, n, s)
      PROVE  WrittenAreExtended
  <2>1. WrittenKeys \subseteq ExtendCredential(n)
    BY <1>1, <1>5
    DEF Revoke, WrittenKeys, ExtendCredential, verifierVars, gatedVars, registryConfig,
        TypeOK, RegistryTypeOK
  <2> QED
    BY <1>2, <1>5, <2>1 DEF Revoke
<1>6. ASSUME NEW n, NEW e, Renew(n, e, s)
      PROVE  WrittenAreExtended
  <2>1. WrittenKeys \subseteq ExtendCredential(n)
    BY <1>1, <1>6
    DEF Renew, WrittenKeys, ExtendCredential, verifierVars, gatedVars, registryConfig,
        TypeOK, RegistryTypeOK
  <2> QED
    BY <1>2, <1>6, <2>1 DEF Renew
<1>7. ASSUME UNCHANGED registryVars
      PROVE  WrittenAreExtended
  BY <1>1, <1>7
  DEF WrittenAreExtended, WrittenKeys, verifierVars, registryVars, registryConfig, gatedVars
<1> QED
  BY <1>3, <1>4, <1>5, <1>6, <1>7
  DEF RegistryStep, RequireValidCredential, GetCredential, GetCredentialsByOwner

LEMMA GatedStepExtends ==
  ASSUME TypeOK, NEW s \in Accounts, GatedStep(s)
  PROVE  WrittenAreExtended
<1>1. UNCHANGED <<verifierVars, registryVars>>
  BY DEF GatedStep
<1>2. ASSUME NEW r, GatedInitialize(r, s)
      PROVE  WrittenAreExtended
  <2>1. WrittenKeys \subseteq {GatedInstance, GatedRegistryKey}
    BY <1>1, <1>2 DEF GatedInitialize, WrittenKeys, verifierVars, registryVars, registryConfig
  <2> QED
    BY <1>2, <2>1, ExtensionSuffices DEF GatedInitialize, TypeOK, WrittenAreExtended
<1>3. ASSUME UNCHANGED <<gated_initialized, gated_registry>>
      PROVE  WrittenAreExtended
  BY <1>1, <1>3 DEF WrittenAreExtended, WrittenKeys, verifierVars, registryVars, registryConfig
<1> QED
  BY <1>2, <1>3 DEF GatedStep, ExecuteWithCredential

LEMMA StepExtends == TypeOK /\ Next => WrittenAreExtended
<1> SUFFICES ASSUME TypeOK, Next PROVE WrittenAreExtended
  OBVIOUS
<1>1. CASE CloseLedger
  BY <1>1
  DEF CloseLedger, WrittenAreExtended, WrittenKeys, verifierVars, registryVars, registryConfig,
      gatedVars
<1> QED
  BY <1>1, VerifierStepExtends, RegistryStepExtends, GatedStepExtends DEF Next

(***************************************************************************)
(* No contract ever writes an entry without extending it, so nothing just  *)
(* written is left with the host's minimum time to live.                   *)
(***************************************************************************)
THEOREM WritesAreAlwaysKeptLive == AnySpec => WritesAreKeptLive
<1>1. AnySpec => [][Next]_vars
  BY DEF AnySpec, Spec, DeployedSpec
<1> QED
  BY <1>1, TypeCorrect, StepExtends, PTL DEF WritesAreKeptLive

------------------------------------------------------------------------------
(***************************************************************************)
(* The refinement.  Whoever initializes the registry appoints the          *)
(* authority of the life cycle.                                            *)
(***************************************************************************)
(* The steps that change no mapped variable. *)
LEMMA UnchangedMapped ==
  ASSUME UNCHANGED <<credentials, events, timestamp, registry_admin>>
  PROVE  UNCHANGED Lifecycle!lifecycleVars
BY DEF Lifecycle!lifecycleVars, PhaseOf, HolderOf, ExpiryOf, IsStored, UseOf

LEMMA IssueRefines ==
  ASSUME TypeOK, IndexIsExact, NEW s \in Accounts, NEW owner \in Accounts,
         NEW pi \in PublicInputs, NEW proof, VerifyAndIssue(owner, pi, proof, s), UNCHANGED events
  PROVE  Lifecycle!Issue(pi.nullifier)
<1> DEFINE n == pi.nullifier
           e == Minimum(pi.not_after, MaxExpiry)
<1>1. n \in Nullifiers /\ Issues(owner, pi)
  BY VerifyAndIssueIssues DEF PublicInputs
<1>2. n \notin DOMAIN credentials
  BY <1>1 DEF Issues, IndexIsExact, NullifiersMatchCredentials
<1>3. /\ DOMAIN credentials' = DOMAIN credentials \cup {n}
      /\ \A m \in DOMAIN credentials : credentials'[m] = credentials[m]
      /\ credentials'[n].owner = owner
      /\ credentials'[n].status = "Active"
      /\ credentials'[n].expires_at = e
  BY <1>1, <1>2 DEF Issues, NewCredential
<1>4. /\ signer' = s /\ s = owner
      /\ UNCHANGED <<timestamp, registry_admin>>
  BY DEF VerifyAndIssue, Transaction, registryConfig
<1>5. e \in timestamp .. timestamp + MAX_CREDENTIAL_TTL_SECS
  BY <1>1, MaxExpiryType, MinimumType, HostAssumption, RegistryAssumption
  DEF Issues, PublicInputs, TypeOK, HostTypeOK, U64
<1>6. [m \in Nullifiers |-> PhaseOf(m)]'
        = [[m \in Nullifiers |-> PhaseOf(m)] EXCEPT ![n] = "active"]
  BY <1>1, <1>3 DEF PhaseOf, IsStored
<1>7. [m \in Nullifiers |-> HolderOf(m)]'
        = [[m \in Nullifiers |-> HolderOf(m)] EXCEPT ![n] = owner]
  BY <1>1, <1>3 DEF HolderOf, IsStored
<1>8. [m \in Nullifiers |-> ExpiryOf(m)]'
        = [[m \in Nullifiers |-> ExpiryOf(m)] EXCEPT ![n] = e]
  BY <1>1, <1>3 DEF ExpiryOf, IsStored
<1>9. [m \in Nullifiers |-> PhaseOf(m)][n] = "none"
  BY <1>1, <1>2 DEF PhaseOf, IsStored
<1> QED
  BY <1>4, <1>5, <1>6, <1>7, <1>8, <1>9 DEF Lifecycle!Issue, UseOf

LEMMA RenewRefines ==
  ASSUME TypeOK, NEW s \in Accounts, NEW n \in Nullifiers, NEW new \in U64,
         Renew(n, new, s), UNCHANGED events
  PROVE  Lifecycle!Renew(n)
<1> DEFINE e == Minimum(new, MaxExpiry)
<1>1. /\ n \in DOMAIN credentials /\ credentials[n] \in DomainCredential
      /\ credentials[n].status = "Active"
      /\ credentials' = [credentials EXCEPT ![n].expires_at = e]
      /\ new > timestamp
  BY DEF Renew, IsUnrevoked, TypeOK, RegistryTypeOK, DomainCredential
<1>2. /\ DOMAIN credentials' = DOMAIN credentials
      /\ \A m \in DOMAIN credentials : credentials'[m].owner = credentials[m].owner
                                   /\ credentials'[m].status = credentials[m].status
      /\ \A m \in DOMAIN credentials :
           credentials'[m].expires_at = IF m = n THEN e ELSE credentials[m].expires_at
  BY <1>1 DEF DomainCredential, TypeOK, RegistryTypeOK
<1>3. /\ signer' = credentials[n].owner
      /\ UNCHANGED <<timestamp, registry_admin>>
  BY DEF Renew, Transaction, registryConfig
<1>4. e \in timestamp + 1 .. timestamp + MAX_CREDENTIAL_TTL_SECS
  BY <1>1, HostAssumption, RegistryAssumption
  DEF Minimum, MaxExpiry, SaturatingAdd, TypeOK, HostTypeOK, U64
<1>5. [m \in Nullifiers |-> PhaseOf(m)]' = [m \in Nullifiers |-> PhaseOf(m)]
  BY <1>2 DEF PhaseOf, IsStored
<1>6. [m \in Nullifiers |-> HolderOf(m)]' = [m \in Nullifiers |-> HolderOf(m)]
  BY <1>2 DEF HolderOf, IsStored
<1>7. [m \in Nullifiers |-> ExpiryOf(m)]'
        = [[m \in Nullifiers |-> ExpiryOf(m)] EXCEPT ![n] = e]
  BY <1>1, <1>2 DEF ExpiryOf, IsStored
<1>8. /\ [m \in Nullifiers |-> PhaseOf(m)][n] = "active"
      /\ [m \in Nullifiers |-> HolderOf(m)][n] = credentials[n].owner
  BY <1>1 DEF PhaseOf, HolderOf, IsStored
<1> QED
  BY <1>3, <1>4, <1>5, <1>6, <1>7, <1>8 DEF Lifecycle!Renew, UseOf

LEMMA RevokeRefines ==
  ASSUME TypeOK, NEW s \in Accounts, NEW n \in Nullifiers, NEW caller \in Accounts,
         Revoke(caller, n, s), UNCHANGED events
  PROVE  Lifecycle!Revoke(n)
<1>1. /\ n \in DOMAIN credentials /\ credentials[n] \in DomainCredential
      /\ credentials[n].status = "Active"
      /\ credentials' = [credentials EXCEPT ![n].status = "Revoked"]
  BY DEF Revoke, IsUnrevoked, TypeOK, RegistryTypeOK, DomainCredential
<1>2. /\ DOMAIN credentials' = DOMAIN credentials
      /\ \A m \in DOMAIN credentials : credentials'[m].owner = credentials[m].owner
                                   /\ credentials'[m].expires_at = credentials[m].expires_at
      /\ \A m \in DOMAIN credentials :
           credentials'[m].status = IF m = n THEN "Revoked" ELSE credentials[m].status
  BY <1>1 DEF DomainCredential, TypeOK, RegistryTypeOK
<1>3. /\ signer' = caller
      /\ caller \in {credentials[n].owner, registry_admin}
      /\ caller # NoAddress
      /\ UNCHANGED <<timestamp, registry_admin>>
  BY VerifierAssumption DEF Revoke, MayRevoke, Transaction, registryConfig
<1>4. [m \in Nullifiers |-> PhaseOf(m)]'
        = [[m \in Nullifiers |-> PhaseOf(m)] EXCEPT ![n] = "revoked"]
  BY <1>1, <1>2 DEF PhaseOf, IsStored
<1>5. [m \in Nullifiers |-> HolderOf(m)]' = [m \in Nullifiers |-> HolderOf(m)]
  BY <1>2 DEF HolderOf, IsStored
<1>6. [m \in Nullifiers |-> ExpiryOf(m)]' = [m \in Nullifiers |-> ExpiryOf(m)]
  BY <1>2 DEF ExpiryOf, IsStored
<1>7. /\ [m \in Nullifiers |-> PhaseOf(m)][n] = "active"
      /\ [m \in Nullifiers |-> HolderOf(m)][n] = credentials[n].owner
  BY <1>1 DEF PhaseOf, HolderOf, IsStored
<1> QED
  BY <1>3, <1>4, <1>5, <1>6, <1>7 DEF Lifecycle!Revoke, UseOf

(* The log of uses grows as the list of events does. *)
LEMMA AppendMapped ==
  ASSUME NEW S, NEW seq \in Seq(S), NEW e
  PROVE  [i \in DOMAIN Append(seq, e) |-> UseOf(Append(seq, e)[i])]
           = Append([i \in DOMAIN seq |-> UseOf(seq[i])], UseOf(e))
<1> DEFINE new == Append(seq, e)
           uses == [i \in DOMAIN seq |-> UseOf(seq[i])]
<1>1. /\ Len(seq) \in Nat
      /\ DOMAIN seq = 1 .. Len(seq)
      /\ DOMAIN new = 1 .. Len(seq) + 1
      /\ new[Len(seq) + 1] = e
      /\ \A i \in 1 .. Len(seq) : new[i] = seq[i]
  OBVIOUS
<1>2. uses \in Seq({UseOf(seq[i]) : i \in DOMAIN seq}) /\ Len(uses) = Len(seq)
  BY <1>1
<1>3. /\ Append(uses, UseOf(e)) = [i \in 1 .. Len(seq) + 1 |->
           IF i = Len(seq) + 1 THEN UseOf(e) ELSE uses[i]]
  BY <1>2
<1> HIDE DEF new
<1>4. [i \in DOMAIN new |-> UseOf(new[i])] = [i \in 1 .. Len(seq) + 1 |->
           IF i = Len(seq) + 1 THEN UseOf(e) ELSE uses[i]]
  BY <1>1
<1> QED
  BY <1>3, <1>4 DEF new

LEMMA ExecuteRefines ==
  ASSUME TypeOK, NEW s \in Accounts, NEW owner \in Accounts, NEW n \in Nullifiers,
         ExecuteWithCredential(owner, n, s), UNCHANGED registryVars
  PROVE  Lifecycle!Use(n)
<1> DEFINE event == [owner |-> owner, commitment |-> credentials[n].commitment,
                     nullifier |-> n, at |-> timestamp]
<1>1. RequireValidResult(owner, n) = "Ok"
  BY DEF ExecuteWithCredential, ExecuteResult
<1>2. /\ n \in DOMAIN credentials
      /\ credentials[n].owner = owner
      /\ credentials[n].status # "Revoked"
      /\ ~(credentials[n].expires_at < timestamp)
  BY <1>1 DEF RequireValidResult, IsExpired
<1>3. timestamp <= credentials[n].expires_at
  BY <1>2, HostAssumption DEF TypeOK, HostTypeOK, RegistryTypeOK, DomainCredential, U64
<1>4. /\ signer' = owner
      /\ events' = Append(events, event)
      /\ UNCHANGED <<credentials, timestamp, registry_admin>>
  BY DEF ExecuteWithCredential, Transaction, registryVars, registryConfig
<1>5. UseOf(event) = [nullifier |-> n, by |-> owner, at |-> timestamp]
  BY DEF UseOf
<1>6. [i \in DOMAIN events' |-> UseOf(events'[i])]
        = Append([i \in DOMAIN events |-> UseOf(events[i])], UseOf(event))
  BY <1>4, AppendMapped DEF TypeOK, GatedTypeOK
<1>7. /\ [m \in Nullifiers |-> PhaseOf(m)][n] = "active"
      /\ [m \in Nullifiers |-> HolderOf(m)][n] = owner
      /\ [m \in Nullifiers |-> ExpiryOf(m)][n] = credentials[n].expires_at
  BY <1>2 DEF PhaseOf, HolderOf, ExpiryOf, IsStored
<1>8. /\ [m \in Nullifiers |-> PhaseOf(m)]' = [m \in Nullifiers |-> PhaseOf(m)]
      /\ [m \in Nullifiers |-> HolderOf(m)]' = [m \in Nullifiers |-> HolderOf(m)]
      /\ [m \in Nullifiers |-> ExpiryOf(m)]' = [m \in Nullifiers |-> ExpiryOf(m)]
  BY <1>4 DEF PhaseOf, HolderOf, ExpiryOf, IsStored
<1>9. [i \in DOMAIN events |-> UseOf(events[i])]'
        = Append([i \in DOMAIN events |-> UseOf(events[i])],
                 [nullifier |-> n, by |-> signer', at |-> timestamp])
  BY <1>4, <1>5, <1>6 DEF UseOf
<1> QED
  BY <1>3, <1>4, <1>7, <1>8, <1>9 DEF Lifecycle!Use

LEMMA RegistryStepRefines ==
  ASSUME TypeOK, IndexIsExact, ConfiguredOnceInitialized, NEW s \in Accounts, RegistryStep(s)
  PROVE  Lifecycle!Next \/ UNCHANGED Lifecycle!lifecycleVars
<1>1. UNCHANGED events
  BY DEF RegistryStep, gatedVars
<1>2. ASSUME NEW admin \in Accounts, NEW v \in VerifierAddresses, RegistryInitialize(admin, v, s)
      PROVE  Lifecycle!Appoint
  <2>1. /\ registry_admin = NoAddress
        /\ registry_admin' = admin /\ signer' = admin
        /\ UNCHANGED <<credentials, timestamp>>
    BY <1>2 DEF RegistryInitialize, Transaction, ConfiguredOnceInitialized
  <2> QED
    BY <1>1, <2>1 DEF Lifecycle!Appoint, PhaseOf, HolderOf, ExpiryOf, IsStored, UseOf
<1>3. ASSUME NEW owner \in Accounts, NEW pi \in Submissions, NEW proof \in Proofs,
             VerifyAndIssue(owner, pi, proof, s)
      PROVE  Lifecycle!Issue(pi.nullifier) /\ pi.nullifier \in Nullifiers
  BY <1>1, <1>3, IssueRefines, CloakworkAssumption DEF PublicInputs
<1>4. ASSUME NEW caller \in Accounts, NEW n \in Nullifiers, Revoke(caller, n, s)
      PROVE  Lifecycle!Revoke(n)
  BY <1>1, <1>4, RevokeRefines
<1>5. ASSUME NEW n \in Nullifiers, NEW e \in Expiries, Renew(n, e, s)
      PROVE  Lifecycle!Renew(n)
  BY <1>1, <1>5, RenewRefines, CloakworkAssumption
<1>6. ASSUME UNCHANGED registryVars, UNCHANGED timestamp
      PROVE  UNCHANGED Lifecycle!lifecycleVars
  BY <1>1, <1>6, UnchangedMapped DEF registryVars, registryConfig
<1>7. ASSUME NEW owner, NEW n,
             RequireValidCredential(owner, n, s) \/ GetCredential(n, s)
               \/ GetCredentialsByOwner(owner, s)
      PROVE  UNCHANGED Lifecycle!lifecycleVars
  BY <1>6, <1>7
  DEF RequireValidCredential, GetCredential, GetCredentialsByOwner, Transaction
<1> QED
  BY <1>2, <1>3, <1>4, <1>5, <1>7 DEF RegistryStep, Lifecycle!Next

LEMMA TickRefines ==
  ASSUME TypeOK, CloseLedger
  PROVE  Lifecycle!Tick
<1>1. /\ timestamp' \in Nat /\ timestamp' > timestamp
      /\ UNCHANGED <<credentials, events, registry_admin>>
  BY HostAssumption
  DEF CloseLedger, LedgerClose, registryVars, registryConfig, gatedVars, TypeOK, HostTypeOK, U64
<1> QED
  BY <1>1 DEF Lifecycle!Tick, PhaseOf, HolderOf, ExpiryOf, IsStored, UseOf

(* The calls of the verifier, and the initialization of the gated contract, *)
(* are invisible in the life cycle of credentials.                          *)
LEMMA VerifierStepRefines ==
  ASSUME NEW s, VerifierStep(s)
  PROVE  UNCHANGED Lifecycle!lifecycleVars
BY UnchangedMapped
DEF VerifierStep, VerifierInitialize, RegisterKey, VerifyProof, Transaction,
    registryVars, registryConfig, gatedVars

LEMMA GatedInitializeRefines ==
  ASSUME NEW r, NEW s, GatedInitialize(r, s), UNCHANGED registryVars
  PROVE  UNCHANGED Lifecycle!lifecycleVars
BY UnchangedMapped DEF GatedInitialize, Transaction, registryVars, registryConfig

LEMMA StepRefines ==
  TypeOK /\ IndexIsExact /\ ConfiguredOnceInitialized /\ [Next]_vars
    => [Lifecycle!Next]_(Lifecycle!lifecycleVars)
<1> SUFFICES ASSUME TypeOK, IndexIsExact, ConfiguredOnceInitialized, [Next]_vars
             PROVE  Lifecycle!Next \/ UNCHANGED Lifecycle!lifecycleVars
  OBVIOUS
<1>1. CASE CloseLedger
  BY <1>1, TickRefines DEF Lifecycle!Next
<1>2. ASSUME NEW s \in Accounts, VerifierStep(s)
      PROVE  UNCHANGED Lifecycle!lifecycleVars
  BY <1>2, VerifierStepRefines
<1>3. ASSUME NEW s \in Accounts, RegistryStep(s)
      PROVE  Lifecycle!Next \/ UNCHANGED Lifecycle!lifecycleVars
  BY <1>3, RegistryStepRefines
<1>4. ASSUME NEW s \in Accounts, GatedStep(s)
      PROVE  Lifecycle!Next \/ UNCHANGED Lifecycle!lifecycleVars
  BY <1>4, GatedInitializeRefines, ExecuteRefines DEF GatedStep, Lifecycle!Next
<1>5. CASE UNCHANGED vars
  BY <1>5, UnchangedMapped DEF vars, hostVars, registryVars, registryConfig, gatedVars
<1> QED
  BY <1>1, <1>2, <1>3, <1>4, <1>5 DEF Next

LEMMA InitialRefines == InitialState => Lifecycle!Init
<1> SUFFICES ASSUME InitialState PROVE Lifecycle!Init
  OBVIOUS
<1>1. timestamp = 0 /\ registry_admin \in Accounts \cup {NoAddress}
  BY CloakworkAssumption DEF InitialState, Init, RegistryInit, DeployedInit
<1>2. \A n \in Nullifiers : n \notin DOMAIN credentials
  BY InitialRegistry
<1>3. [i \in DOMAIN events |-> UseOf(events[i])] = <<>>
  BY InitialRegistry
<1> QED
  BY <1>1, <1>2, <1>3 DEF Lifecycle!Init, PhaseOf, HolderOf, ExpiryOf, IsStored

(***************************************************************************)
(* The three contracts together implement the life cycle of credentials.   *)
(***************************************************************************)
THEOREM ContractsImplementLifecycle == AnySpec => ImplementsLifecycle
<1>1. AnySpec => InitialState /\ [][Next]_vars
  BY DEF AnySpec, Spec, DeployedSpec, InitialState
<1> QED
  BY <1>1, TypeCorrect, IndexIsAlwaysExact, InitialRefines, InitialConfigured,
     StepKeepsConfigured, StepRefines, PTL
  DEF ImplementsLifecycle, Lifecycle!Spec
==============================================================================
