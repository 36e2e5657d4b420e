\* The contracts after deployment, times to live long enough never to matter.
SPECIFICATION DeployedSpec
CONSTANTS
  alice = alice  bob = bob  d1 = d1  d2 = d2  nonce = nonce  secret = secret
  txt = txt  chain = chain
  verifierId = verifierId  registryId = registryId  otherId = otherId
  TTL_THRESHOLD = 1
  TTL_TARGET = 20
  MIN_PERSISTENT_TTL = 2
  U64_MAX = 4
  Gaps = {1}
  MaxSequence = 3
  MaxTimestamp = 3
  Accounts = {alice, bob}
  Versions = {0, 1}
  VerifyingKeys <- MCVerifyingKeys
  Nullifiers <- MCNullifiers
  Commitments <- MCCommitments
  Verifier = verifierId
  VerifierAddresses = {verifierId}
  MAX_CREDENTIAL_TTL_SECS = 2
  Registry = registryId
  RegistryAddresses = {registryId}
  MaxEvents = 1
  Submissions <- MCSubmissions
  Proofs <- MCProofs
  Expiries = {1, 3, 4}
  Deployer = bob
  DeployedKey <- MCDeployedKey
  Witnesses <- MCWitnesses
INVARIANTS TypeOK IndexIsExact ExpiryIsBounded CredentialsAreProved HonestProofsAreAccepted
PROPERTIES CredentialsOnlyAge ImplementsLifecycle
CONSTRAINT FewCredentials
VIEW MCView
CHECK_DEADLOCK FALSE
