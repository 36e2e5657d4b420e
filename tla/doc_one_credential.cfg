\* Does a proof issue one credential at most?
SPECIFICATION DeployedSpec
CONSTANTS
  alice = alice  bob = bob  d1 = d1  d2 = d2  nonce = nonce  secret = secret
  txt = txt  chain = chain
  verifierId = verifierId  registryId = registryId  otherId = otherId
  TTL_THRESHOLD = 1
  TTL_TARGET = 3
  MIN_PERSISTENT_TTL = 2
  U64_MAX = 9
  Gaps = {1}
  MaxSequence = 4
  MaxTimestamp = 4
  Accounts = {alice, bob}
  Versions = {0, 1}
  VerifyingKeys <- MCDeployedKeys
  Nullifiers <- MCNullifiers
  Commitments <- MCCommitments
  Verifier = verifierId
  VerifierAddresses = {verifierId}
  MAX_CREDENTIAL_TTL_SECS = 3
  Registry = registryId
  RegistryAddresses = {registryId}
  MaxEvents = 1
  Submissions <- MCOneProof
  Proofs <- MCProofs
  Expiries = {2, 5, 8}
  Deployer = bob
  DeployedKey <- MCDeployedKey
  Witnesses <- MCWitnesses
INVARIANT DocOneCredentialPerProof
CHECK_DEADLOCK FALSE
