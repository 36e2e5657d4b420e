\* The contracts from their creation, initialized by anyone and misconfigured or not, with
\* entries short-lived enough to be archived and restored, while the network keeps closing
\* ledgers.
SPECIFICATION FairSpec
CONSTANTS
  alice = alice  bob = bob  d1 = d1  d2 = d2  nonce = nonce  secret = secret
  txt = txt  chain = chain
  verifierId = verifierId  registryId = registryId  otherId = otherId
  TTL_THRESHOLD = 1
  TTL_TARGET = 3
  MIN_PERSISTENT_TTL = 2
  U64_MAX = 6
  Gaps = {1, 2}
  MaxSequence = 3
  MaxTimestamp = 3
  Accounts = {alice, bob}
  Versions = {0, 1}
  VerifyingKeys <- MCDeployedKeys
  Nullifiers <- MCCanonicalNullifiers
  Commitments <- MCCommitments
  Verifier = verifierId
  VerifierAddresses = {verifierId, otherId}
  MAX_CREDENTIAL_TTL_SECS = 2
  Registry = registryId
  RegistryAddresses = {registryId, otherId}
  MaxEvents = 1
  Submissions <- MCOneDomain
  Proofs <- MCProofs
  Expiries = {2, 5}
  Deployer = bob
  DeployedKey <- MCDeployedKey
  Witnesses <- MCWitnesses
 
PROPERTIES ConfigurationIsFinal UseKeepsCredentialsLive WritesAreKeptLive UnrenewedCredentialsExpire
CHECK_DEADLOCK FALSE
