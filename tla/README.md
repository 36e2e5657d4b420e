# Cloakwork in TLA+

Cloakwork lets the owner of a DNS domain obtain an on-chain credential without
revealing the domain: a DNSSEC-signed TXT record is the witness of a Groth16
proof, a Soroban contract verifies the proof and stores a credential under the
proof's nullifier, and other contracts gate their functions on that credential.
This directory holds TLA+ modules that model the program, TLC configurations
that model-check them, and theorems checked by TLAPS.

Run `tlc -config lifecycle.cfg MCCloakwork` (or another `.cfg` with its module,
see section 6) and `tlapm CloakworkProofs.tla`. `PROJECT.json` lists components,
runs, hazards, findings and theorems, and for every definition the lines of code
it stands for.

## 1. Inventory

### On-chain

| Component | State it keeps | Operations | Makes it correct |
|---|---|---|---|
| `contracts/cloakwork_verifier` | instance flag `Initialized`; `Admin`; one `VerifyingKey` per circuit version | `initialize`, `register_key`, `verify_proof` | configured once; only the admin registers keys; a proof passes only for the public inputs it was made for, in their time window |
| `contracts/cloakwork_registry` | instance flag; `Admin`; `VerifierContract`; `Credential(nullifier)`, `NullifierUsed(nullifier)`, `OwnerCredentials(owner)` | `initialize`, `verify_and_issue`, `renew`, `revoke`, `require_valid_credential`, `get_credential`, `get_credentials_by_owner` | one credential per nullifier; the three records agree; revocation is final; expiry is bounded |
| `contracts/gated_action_demo` | instance flag; `Registry`; published events | `initialize`, `execute_with_credential` | acts only for the holder of a credential that is valid at that moment |
| `sdk/cloakwork-sdk` | none | `require_valid_credential`, `get_credential`, `is_credential_active` | the checks agree with the registry's |
| `contracts/cloakwork-types` | none | the records shared by the contracts | |
| `proofs/circom/cloakwork.circom` | none | nine constraints over private witness and public signals | what it accepts is what the registry is told |
| `scripts/deploy.sh`, `scripts/register_key.js` | none | deploy and initialize the contracts, register the key of version 1 | leave a consistent configuration |

The gated contract calls the registry (through the SDK), the registry calls the
verifier, in one transaction. Every storage entry has a time to live that each
call extends with `extend_ttl(threshold, target)`. What is hard here: orders of
calls nobody tests (revoke and renew by different parties, initialization by
whoever comes first, keys replaced between proof and submission), values at a
boundary (`expires_at` equal to the ledger time, `u64` at its end), records
written separately that must agree, entries archived between two uses, and an
expiry that no transaction writes.

### In the browser

| Component | State it keeps | Operations | What is hard |
|---|---|---|---|
| `src/hooks/useStellarWallet.ts` | connected address, error | `connect`, the modal's callback, `disconnect` | an address that arrives after a disconnect or after another one |
| `src/hooks/useCloakworkProof.ts` with `DNSChallengeGuide`, `DNSSECCheck`, `ProofGenerator` | proof state machine; private nonce, secret and DNSSEC material in a ref; public part in `sessionStorage` | `generateChallenge`, `checkDNSSEC`, `generateProof`, `setSubmitStatus`, `reset` | answers of asynchronous work that arrive after `reset` or a new challenge; a reload that keeps the public part and loses the private one |
| `src/components/VerificationPanel.tsx` | the credential issued | simulate, sign, send, poll | the polls end with the transaction still pending |
| `src/components/CredentialManager.tsx`, `CredentialCard.tsx` | list of credentials, pending action, errors | load, renew, revoke, poll, load again | overlapping loads; a poll that ends without an answer |
| `src/components/GatedActionSection.tsx`, `GatedActionDemo.tsx` | list of credentials; the selected one, transaction, error | load, select, execute, poll | success shown before the transaction is confirmed; the panel goes with the list |
| `src/App.tsx`, `ProofWorkspace.tsx` | active tab | mount and unmount the tabs | state thrown away while its calls go on |
| `src/utils/dnssec.ts` | none | DNS-over-HTTPS queries, extraction of the RRSIG window | parsing of the window |
| `src/utils/commitments.ts`, `proofFormat.ts`, `src/workers/prover.worker.js` | none | hashing, encoding, proving | encoding agrees with circuit and contract |
| other components under `src/components` | none to speak of | presentation | |

The tabs share the wallet hook and nothing else: at most one is mounted, each
talks to the network by itself, and the proof tab alone saves anything. All
waiting is by promises, so the steps between two awaits are atomic and anything
may happen at an await, an unmounting included.

### Off-chain DNSSEC library, program and host

| Component | State it keeps | Operations | What is hard |
|---|---|---|---|
| `proofs/risc0/lib`: names | none | from text, to text, trim, append, case, wire form | escapes and bytes that are no characters, names at their maximum length, a wildcard's star that no label count includes |
| `proofs/risc0/lib`: `BinEncoder` | buffer, offset, remembered names, canonical flag | write bytes, numbers, names, record data | pointers past 14 bits, names remembered from what is taken back |
| `proofs/risc0/lib`: `dnssec` | none | `determine_name`, `construct_rrset_message_with_sig`, `verify_rrsig` | wildcard expansion, cases, the order of records |
| `proofs/risc0/program` | none | read the inputs, publish one bit | |
| `proofs/risc0/scripts` | proof and fixture files | three lookups, execute or prove, write files | answers of different ages, keys that share a tag, commands stopped between two files |

The host looks up a TXT record, its RRSIG and the DNSKEY with the signature's
tag, gives them with the domain as text to the program, which reads the name,
builds the message the zone must have signed and publishes whether the key
verifies it. The host then saves the proof under its mode and, for Groth16, a
fixture.

## 2. Plan

| | Modules | State |
|---|---|---|
| Contracts and circuit | `SorobanHost`, `CloakworkVerifier`, `CloakworkRegistry`, `GatedAction`, `Circuit`, composed in `Cloakwork`; `CloakworkProperties`, `MCCloakwork`, `CloakworkProofs` | done |
| Abstract life cycle | `CredentialLifecycle`, implemented by `Cloakwork` | done, proved |
| Proof tab | `WalletConnect`, `ProofFlow`, `Submission`, composed in `Workspace`; `WorkspaceProperties`, `WorkspaceProofs` | done |
| Credential tabs | `LedgerTransactions`, `CredentialList`, `CredentialManager`, `GatedPanel`, composed in `CredentialTabs`; `CredentialTabsProperties`, `MCCredentialTabs`, `CredentialTabsProofs` | done |
| Abstract issuance | `CredentialIssuance`, implemented by `Workspace` | done, proved |
| DNSSEC program | `DnsName`, `RrsetMessage`, composed with a zone in `DnssecProof`; `MCDnssecProof`, `DnssecTheorems` | done |
| Text and wire format | `NameText`, `DnsEncoder`, composed in `DnsCodec`; `MCDnsCodec`, `FoldTheorems`, `DnsCodecProofs`, `DnsWireProofs` | done |
| zkVM host | `ProveHost`, around `DnssecProof`; `MCProveHost`, `HostTheorems` | done, proved |

Left, in this order:

1. Proofs: that the panel's selection is one of the list's.
2. The recovery of the proof tab: from which states a user who keeps trying gets
   a proof. `OnlyLateAnswersStrand` says how the page gets to where nothing is
   offered; leaving the tab is the way out.
3. The parsing of the RRSIG window in `src/utils/dnssec.ts`, which decides the
   window the circuit and the registry see.

## 3. On-chain model

`SorobanHost` is the part of the host the contracts rely on, modelled from its
use: the ledger number and time, the live-until ledger of every storage entry,
and the signer of the last transaction. A successful contract call is one
action, `Transaction(signer, accessed, extended)`; a call that returns an error
or traps rolls everything back and is therefore no step. An entry that is not
live is restored when a transaction names it in its footprint, which the
network's automatic restoration does: contracts never see an archived entry as
missing.

| Module | Variables | Actions |
|---|---|---|
| `SorobanHost` | `sequence`, `timestamp`, `live_until`, `signer` (history) | `LedgerClose` |
| `CloakworkVerifier` | `verifier_initialized`, `verifier_admin`, `verifying_keys` | `VerifierInitialize`, `RegisterKey`, `VerifyProof` |
| `CloakworkRegistry` | `registry_initialized`, `registry_admin`, `verifier_contract`, `credentials`, `nullifier_used`, `owner_credentials` | `RegistryInitialize`, `VerifyAndIssue`, `Revoke`, `Renew`, `RequireValidCredential`, `GetCredential`, `GetCredentialsByOwner` |
| `GatedAction` | `gated_initialized`, `gated_registry`, `events` | `GatedInitialize`, `ExecuteWithCredential` |
| `Cloakwork` | | composition: `VerifierStep`, `RegistryStep`, `GatedStep`, `CloseLedger` |

Variables are named after the storage keys they stand for; guards follow the
code's early returns, in order, through the result operators
`VerifyProofResult`, `VerifyAndIssueResult`, `RequireValidResult` and
`ExecuteResult`.

Abstractions. Curve arithmetic is ideal: a proof is a record of the circuit and
the statement it was made for, a tuple of field elements, and the pairing check
compares them. The 32 bytes of an input are not a field element: they hold more
numbers than the field has elements, and the verifier reduces them, so an input is
a field element and a multiple of the field's order (`FieldOf` forgets the
multiple, as `Bn254Fr::from_bytes` does; storage keys keep it). A field element
that carries an integer is a pair of its high 24 and low 8 bytes. Poseidon is
collision free. The circuit constrains
`owner_commitment` to a witness but neither circuit nor registry relates it to
the calling address, and the model relates it to none. Error codes are strings.
Event payloads are left out; the event log carries two history fields
(nullifier and time) that the published event does not have.

Two initial states: `Init` (contracts deployed, nothing initialized) and
`DeployedInit` (what `deploy.sh` and `register_key.js` leave when every call
succeeds; as if within one ledger, so that short runs begin with a working
deployment).

## 4. Browser model

### Proof tab

| Module | Variables | Actions |
|---|---|---|
| `WalletConnect` | `address`, `modal`, `requests`, `connect_error` | `Connect`, `ConnectFails`, `CloseModal`, `SelectWallet`, `AddressArrives`, `AddressRefused`, `Disconnect` |
| `ProofFlow` | `status`, `challenge`, `proof`, `private` (`privateRef`), `session` (`sessionStorage`), `calls`, `late_saves`, `asked` (history) | `GenerateChallenge`, `ChallengeDerived`, `ChallengeFails`, `CheckDNSSEC`, `DNSSECFound`, `DNSSECFails`, `GenerateProof`, `ProofArrives`, `ProofFails`, `Reset`, `Mount`, `Unmount`, `SaveLate`, `Reload` |
| `Submission` | `credential`, `submissions`, `transactions` (the network) | `Submit`, `Simulate`, `Send`, `PollAgain`, `Issued`, `NotIssued`, `SubmissionFails`, `LeavePanel`, `Include`, `Drop` |
| `Workspace` | `tab` | composition: `ConnectStep`, `AddressStep`, `SwitchTab`, `LoadPage`, `UserStep`, `Answer`, `LateSaveStep`, `SubmitStep`, `Poll`, `Handle`, `NetworkStep` |

An asynchronous function is split at its awaits: the part up to the first is the
action of the user, every later part is an action of the call, which is a record
in `calls` or `submissions` that holds what the closure has captured. A call has
an identity, so that two equal ones stay two. Nothing cancels a call but a page
load; the code applies an answer whatever has happened, and so do the actions.
The guards on user actions are the conditions under which the components show
the button.

The random nonce and secret drawn for a challenge are the index of the challenge
in `asked`; a proof is a record of what it was made from: domain, wallet, key and
the domain of the DNSSEC material. When the workspace is unmounted its ref is
gone, and calls in flight may still save: React may run the updater that is
passed to `setState` of an unmounted component, and the hook saves to
`sessionStorage` inside it. `late_saves` holds what such updaters would save, and
`LateSaveStep` may or may not do it.

### Credential tabs

| Module | Variables | Actions |
|---|---|---|
| `LedgerTransactions` | those of `CredentialLifecycle`, `transactions` | `Include`, `Fail`, `Elsewhere`, `Clock` |
| `CredentialList` | `registry_set`, `address`, `tab`, `credentials`, `loading`, `load_error`, `loads` | `StartLoad`, `Refresh`, `ListArrives`, `RecordArrives`, `ListRefused`, `LoadFails`, `MountList`, `UnmountList` |
| `CredentialManager` | `actions`, `action_pending`, `action_error` | `HandleRevoke`, `HandleRenew`, `SimulateAction`, `SendAction`, `PollActionAgain`, `ActionSettles`, `ActionFails`, `ReloadReturns`, `UnmountManager` |
| `GatedPanel` | `executions`, `selected`, `tx_hash`, `exec_error`, `running` | `Select`, `HandleExecute`, `SimulateExecution`, `SendExecution`, `PollExecutionAgain`, `Executed`, `ExecutionFails`, `SyncSelected`, `LeavePanel` |
| `CredentialTabs` | | composition: `SetAddress`, `SetActiveTab`, `ListStep`, `RefreshStep`, `ManagerClick`, `ManagerStep`, `PanelClick`, `PanelExecute`, `PanelStep`, `LedgerStep` |

The ledger under these tabs is the abstract life cycle itself (`Ledger ==
INSTANCE CredentialLifecycle`): the contracts implement it, which
`ContractsImplementLifecycle` proves, so nothing of proofs and storage is needed
here. A transaction does what one of the actions of the life cycle does, or
fails, or stays pending for ever. A simulation (`Simulates`) makes the contracts'
checks and takes signatures for granted; that the right wallet signs a renewal or
a revocation is looked at when the transaction is included.

`registry_set` says whether the build names a registry (`config.ts`, by default it
does not). Without one no list is loaded, and `CredentialManager` shows itself
loading for as long as it is mounted. A build with a registry and without a gated
contract is not modelled.

Both tabs load the list with the same code and never at the same time, so one
set of variables serves both; what differs (a refused list) looks at `tab`.
Loads overlap: every change of the address starts one, a refresh and an action
that is done start others, and none is cancelled. Two awaits that follow each
other without a decision between them (the account and the list, the account and
the simulation) are one step. The order of the list is left out. A component
that is gone is followed only as long as it may still send a transaction; what
it would poll or load is seen by nobody. The expiry asked for by a renewal is
counted from the click, as if the account arrived within the second.

### What the proof tab promises

`CredentialIssuance` is the abstract specification of the tab: credentials come
to be on the ledger, one for a nullifier at most, and none is lost; the page
announces one only when it is there, shows it from then on, and may forget it at
any time. `Workspace` implements it (`ImplementsIssuance`): the ledger's
credentials are those of the included transactions, the one shown is the panel's,
and what is announced is the status
`credential_issued`. Polls, resets, reloads, late answers and submissions that outlive
their page all have to be steps or stutters of it.

## 5. DNSSEC models

| Module | What it is |
|---|---|
| `DnsName` | `Name` and its operations, on sequences of labels; a label is a value with a size and a lower-case form |
| `RrsetMessage` | `determine_name` and `construct_rrset_message_with_sig` |
| `DnssecProof` | variables `zone` (the record sets signed) and `run` (the call of `verify_rrsig`); actions `Sign`, external, from RFC 4034, and `VerifyRrsig` |
| `NameText` | `Display` and `from_ascii`: the reader is a machine of one step per character (`ReadChar`), with the escapes |
| `DnsEncoder` | `BinEncoder` and what `Name` and record data write to it: an encoder is a record of buffer, offset, remembered names and flag |
| `DnsCodec` | variables `text`, `parser`, `encoder`, `writes`, `written` (history), `messages` (history); actions `Type`, `EmitName`, `EmitField`, `EmitRecordData`, `SetCanonicalNames`, `Construct` |
| `ProveHost` | variables `published` (what caches may hold), `commands`, `cmd`, `proofs`, `fixture` and those of `DnssecProof`; actions `Publish`, `Start`, `LookupTxt`, `LookupRrsig`, `LookupDnskey`, `Misused`, `RunProgram`, `WriteProof`, `WriteFixture`, `Interrupted` |

In `DnssecProof` a signature is ideal: it verifies for the message signed and no
other, so the verdict compares messages, and the message is a record instead of
bytes. `MessagesAreToldApart`, checked in `DnsCodec` where messages are bytes,
is what makes that faithful. The fields of an RRSIG that are copied as they are
make one value (`Terms`); a record is its data, because its own name, type,
class and time to live are not read. Key and signature are inputs of the host,
committed nowhere (`main.rs:17`, `:22`, `:26`): the key is any, and a signature is
one that was made with any of the keys. `zone` is what was signed by whoever signs:
a verdict is about the key that was used, which the host chooses, and nothing in
the program ties that key to a domain. A key that is no point of P-256
(`Points`) makes the program panic, and so does a signature of another form, as
RSA's are (`Compact` has the keys whose signatures are as long as P-256's). The
signer's name comes in any case. The properties are the two halves of an
equivalence, against RFC 4592 and 4034 rather than against the code; the second
supposes a signer in lower case (see `doc_signer`).

In `NameText` and `DnsEncoder` a label is the sequence of its bytes and a
character is its code up to 255. The parts of `DnsCodec` (reading, writing,
signing) share no state, so a behaviour is about one of them; one encoder gets
any sequence of names, fields and record data with the flag turned at any time.
Limits (63, 255, 0x3FFF, 65535) are constants and small in the run. What is read
back is read by `LabelsAt`, which is RFC 1035 and not the code: the library only
writes. `MessagesAreToldApart` is about messages with records: the class is
written with each record and nowhere else, so messages without any, which no zone
signs, do not tell it; and it is about record data that fits its length field
(`FitData`), since the code cuts a longer length to 16 bits.

In `ProveHost` each lookup may be answered with any version the zone ever
published, since nothing ties the three answers together. A version has any number
of signatures of its record set, by keys of any algorithm, the signer's name in
any case, and the host takes whichever that fits comes first. Answers that the zone
never gave are left out, although the resolver does not validate what it is told
(`helpers.rs:35`): what is shown is shown of resolvers that are old, not of
resolvers that lie. A lookup, a file
operation or the program may fail and the command may be stopped at any step,
files staying as they are. Another command may follow. That a proof is what the
program computed is the zkVM's promise and taken for granted, and so is that a
file is written as a whole. Between the arguments' domain and the program lies
the text form, whose round trip is `TextIsReadBack`.

## 6. Properties and runs

| Run | Module | Checks | Bounds and why |
|---|---|---|---|
| `lifecycle` | `MCCloakwork` | `TypeOK`, `IndexIsExact`, `ExpiryIsBounded`, `CredentialsAreProved`, `HonestProofsAreAccepted`, `CredentialsOnlyAge`, `ImplementsLifecycle` | `bob` deploys and is the admin, so owner and admin are both the same and different accounts; 3 ledgers of one second, `U64_MAX` = 4 and lifetime 2, so the saturating addition saturates, one proof window closes during the run and one outlasts the lifetime cap; public inputs of each domain, mixtures of both, and one domain's with the other bytes of its nullifier; keys of the wrong size may be registered; two credentials at most (`FewCredentials`) |
| `deploy` | `MCCloakwork` | `CredentialsAreProved`, `ConfigurationIsFinal`, `UseKeepsCredentialsLive`, `WritesAreKeptLive`, `UnrenewedCredentialsExpire` | from `Init`, wrong addresses for verifier and registry among those configured; threshold 1, target 3, minimum 2 over 3 ledgers, closed one or two at a time: entries get archived, restored, extended and left alone; 3 seconds, renewals to 2 and past the end |
| `workspace` | `WorkspaceProperties` | `TypeOK`, `BusyIsBacked`, `ProofsHaveTheirKeys`, `ShownIsReal`, `ImplementsIssuance`, `OnlyLateAnswersStrand` | one wallet, two domains, two challenges, two calls at a time, one more poll, two transactions: enough for an answer of one challenge to meet the state of another and for a second submission of a used nullifier |
| `waiting` | `WorkspaceProperties` | `BusyEnds` | as `workspace` with one domain |
| `credentials` | `MCCredentialTabs` | `ShownIsOnLedger`, `WaitsAreBacked` | two wallets (symmetric), one nullifier, two loads at a time, one action, one execution, one transaction: loads of two wallets overlap, and a load awaited by an action overlaps one that is not; an action and an execution, which are of different tabs, are not under way at once (`OneAtATime`); with a registry and without |
| `dnssec` | `MCDnssecProof` | `OnlyTheSignedIsValid`, `GenuineIsValid` | a label in two cases, a long one and the star; the signer in two cases; names up to 3 labels and 8 octets, so that names of exactly the limit can be built and not be written; up to 2 records; one signed set, one call, since the program keeps nothing |
| `codec` | `MCDnsCodec` | `TypeOK`, `TextIsReadBack`, `NamesAreReadable`, `MessagesAreToldApart` | five characters typed out of one of each class the reader tells apart, so an octal escape is finished and followed; labels up to 3 and names up to 6 octets, pointers reach to 15, four writes: names end in pointers to names that end in pointers, and names come to lie on both sides of the reach; messages of all pairs of calls with up to two records, in two classes, of which some do not fit 45 octets, where an encoder ends, and panic |
| `host` | `MCProveHost` | `ProvedWasPublished`, `OneVersionIsProved`, `FilesAgree` | ten versions that differ in owner, records, signing keys (one or two of P-256, RSA and Ed25519), case of the signer and keys published; up to three signatures made, two commands: a command sees the zone change between any two of its lookups and finds the files of another; three keys share a tag |
| `doc_*` | | statements of comments and docs | see section 7 |

Deadlock checking is off where a bound stops the system: the ledger clock in the
on-chain runs, the transactions in the credential tabs, the single call of the
program, the characters typed, writes and commands of the library and its host.
`credentials` uses a `VIEW` that leaves out the account behind the last ledger
step, the authority and the log of uses, on which neither property depends and no
later step either; that of `lifecycle` leaves out the signer of the last
transaction, which the properties look at only in the step that sets it.

What the properties say about the code:

- `IndexIsExact`: the three records of an issuance agree, whatever sequence of
  calls, none of which checks the others' records.
- `WritesAreKeptLive`, `UseKeepsCredentialsLive`: every call extends what it
  writes, and what it relies on to act, with its own list of keys written out by
  hand; an entry forgotten in it would be left with the host's minimum, and be
  archived long before the others.
- `ExpiryIsBounded`, `UnrenewedCredentialsExpire`: no transaction writes
  `Expired`; that a credential stops being valid rests on bounds that every
  issuance and renewal keeps and on clocks alone, in the registry's check and in
  the SDK's.
- `CredentialsAreProved`, `HonestProofsAreAccepted`: the hand-made vector of
  public inputs neither accepts too much nor too little. What is proved of a
  credential is its field elements; that their bytes are not determined by them is
  the subject of `doc_one_credential`. In `deploy` the first also says that no
  error of the verifier, and no contract that is none, passes for an answer.
- `BusyIsBacked`, `BusyEnds`, `WaitsAreBacked`: nothing on the page waits for
  nothing, and what waits ends; `WaitsAreBacked` makes an exception for the tab of
  credentials in a build without a registry, and for nothing else.
- `ProofsHaveTheirKeys`: a reload brings back the public half of a challenge
  without its secret; no proof is made from that.
- `ShownIsReal`, `ShownIsOnLedger`: what is shown as a credential is one.
- `ImplementsIssuance`: see section 4.
- `OnlyLateAnswersStrand`: the page offers neither the form nor the button to
  start over only because an answer to what was asked before a reset came, or its
  failure; nothing the user does and no mounting leads there.
- `OnlyTheSignedIsValid`, `GenuineIsValid`: see section 5.
- `TextIsReadBack`: the name that is proved is the one that was given, through the
  text in between; a label of arbitrary bytes is read back as itself or refused,
  never as another.
- `TypeOK` of `DnsCodec`: an encoder's offset is the length of its buffer, also
  where a pointer takes the place of labels already written.
- `NamesAreReadable`: pointers never lead to other labels, whatever was written,
  taken back or forgotten before.
- `MessagesAreToldApart`: no two messages have the same bytes, although nothing
  but the contents of a name or record says where it ends.
- `ProvedWasPublished`, `OneVersionIsProved`, `FilesAgree`: lookups of different
  ages never make a proof of what was never published, while those of one version
  make one if the signature the host came upon can be checked: of P-256, of a
  published key whose tag is its own, with a signer in lower case; files of
  different commands are never taken for one another's.

`ImplementsLifecycle` is a refinement: `CredentialLifecycle` knows nullifiers,
holders, phases, expiries, a log of uses and an authority, and nothing of
proofs, contracts or storage. Its variables are mapped to functions of
`credentials`, to `events`, `timestamp`, `registry_admin` and `signer`.

Fairness. `deploy` assumes weak fairness of `CloseLedger` only: the Stellar
network closes a ledger every few seconds whatever the users of these contracts
do. No user, owner or admin is assumed to do anything. The clock bound is the
one thing that ends this fairness in the model, so the property excludes
credentials that expire at or past `MaxTimestamp`. `waiting` assumes that the
browser settles every request and worker one way or another and that the timer
between polls fires; nobody has to sign, which is why a submission need only end
once it is sent, and no transaction has to be included.

Mutants. Faulty operators such as `FreshAfterRevocation`, `ReportToAnyPage` or `NoStar`
stand before the definition they are variants of and are used by no action:
putting one in the place of the original must break the property it is listed
with in `PROJECT.json`, which shows that the property says something about the
code.

## 7. Findings

Four places where the code and its documentation disagree; each has a run that
TLC ends with a counterexample.

- `doc_one_credential`: the nullifier is documented to keep one proof from
  issuing several credentials; the registry compares 32 bytes and the verifier
  field elements, of which every one has several encodings, and neither asks for
  the smallest.
- `doc_material`: `checkDNSSEC` is documented to fetch material for the stored
  domain; after a reset and a new challenge the material of the old domain
  counts for the new one.
- `doc_created`: "✓ Verified Merchant Payment Intent created on Stellar testnet"
  is shown from the moment the transaction is sent, also when it fails.
- `doc_signer`: the signer's name is said to stand in canonical form in the signed
  message; it stands there in the case in which it was served, and a genuine
  signature is refused when that is not lower case.

Observations made on the way, which no run checks:

- A verifier's error is documented to become `ProofVerificationFailed`
  (`cloakwork_registry/src/lib.rs:96`); the cross-contract call traps (`:154`). No
  transaction succeeds either way.
- The second of `expires_at` counts as valid in the registry
  (`cloakwork_registry/src/lib.rs:366`) and as expired in the SDK
  (`cloakwork-sdk/src/lib.rs:117`).
- `expires_at` is documented as at most 30 days after `issued_at`
  (`cloakwork-types/src/lib.rs:45`); renewals move it further, and may also bring
  it forward where the registry's comment speaks of extending
  (`cloakwork_registry/src/lib.rs:296`). `ExpiryIsBounded` is the bound that does
  hold, from the present.
- An address still awaited at a disconnect connects again
  (`useStellarWallet.ts:66`).
- The proof tab's panel keeps an issued credential over a reset and shows it in
  place of the button to submit the next proof (`VerificationPanel.tsx:271`).
- A load of the list begun for one wallet may end after another is connected and
  show the first one's credentials; an earlier load's end can make the list say
  that there are none while a later one goes on (`CredentialManager.tsx:94`).
- No answer after the last poll is taken for success when revoking or renewing
  (`CredentialManager.tsx:136`), unlike in the two other panels.
- A name of exactly the maximum length can be parsed and not be written
  (`name.rs:98`). It is no legal name, and asked for below a wildcard it is even
  accepted, because what is written is the shorter name found for it.
- The records of the signed message are said to be sorted (`message.rs:29`,
  `:72`); they are taken as they come (`:78`). The program passes one record.
- The length of record data is cut to 16 bits (`message.rs:126`) and not refused
  when it is longer; no DNS record is.
- Without a registry in the build the tab of credentials shows "Loading…" for ever
  (`CredentialManager.tsx:27`, `:33`, `:103`).
- An octal escape with a digit that is not octal makes the reader panic instead
  of refusing the text, an escape unfinished at the end of a text is dropped, and
  an escaped dot at the end makes a relative name absolute.
- The host writes the fixture after the proof; a command stopped between leaves
  an older fixture beside a newer proof (`entrypoint.rs:129`), which
  `FilesAgree` allows for.
- The host takes the first TXT record of an answer (`helpers.rs:51`); of a set of
  several none can be proved. Of its signatures it takes the first by the record's
  owner, of whatever algorithm (`helpers.rs:53`), and the program panics over one
  that is not of P-256 (`lib.rs:32`) although another may be.

## 8. Proofs

All theorems hold for every value of the constants that satisfies the named
assumptions, which TLC evaluates in the runs.

**`CloakworkProofs`**, from either initial state (`AnySpec`):

- `TypeCorrect`, `IndexIsAlwaysExact`, `CredentialsOnlyEverAge`,
  `ExpiryIsAlwaysBounded`, `ConfigurationIsAlwaysFinal`,
  `HonestProofsAreAlwaysAccepted`, `CredentialsAreAlwaysProved`,
  `WritesAreAlwaysKeptLive`, `UseAlwaysKeepsCredentialsLive`: the properties
  of section 6.
- `ContractsImplementLifecycle`: every initial state of the contracts is one of
  `CredentialLifecycle`, and every step is one of its steps or a stutter.

`HostAssumption`, `VerifierAssumption`, `RegistryAssumption`, `GatedAssumption`
and `CloakworkAssumption` type the constants (the threshold is below the target,
the clock bound fits `u64`, the maximum lifetime is positive, `NoAddress` is no
address). `ProofSoundness` is the idealisation of Groth16: whoever has a
well-formed proof of some public signals has a witness of them.

`TypeOK` is inductive by itself; it rests on the saturating addition and the
minimum staying in `u64` (`MaxExpiryType`, `MinimumType`). `StepAmendsOrIssues`
says that a step either amends credentials without touching what identifies them
or issues under an unused nullifier; with `TypeOK` this makes `IndexIsExact`
inductive. `CredentialsOnlyAge` needs `IndexIsExact`: issuing overwrites the
credential entry unconditionally, and only because a stored credential's
nullifier is always used does it never overwrite one. The same invariant
strengthens `ExpiryIsBounded` and `CredentialsAreProved`. The refinement
needs `ConfiguredOnceInitialized`: the flags that guard `initialize` and the
records it writes say the same. For `WritesAreKeptLive` the keys a step writes are
compared with those it extends, contract by contract (`ExtensionSuffices`).

**`WorkspaceProofs`**: `WorkspaceTypeCorrect`, `BusyIsAlwaysBacked`,
`ProofsAlwaysHaveTheirKeys`, `ShownIsAlwaysReal`, `OnlyLateAnswersEverStrand`,
under `WalletAssumption`, `FlowAssumption`, `NoneAssumption` and
`SubmissionAssumption` (`None` is none of the values it stands in for; the bounds
are numbers). `TypeOK` is inductive only
with `ReadyHasProof` (together `Typed`): a submission starts from the page's
proof, so a ready page must have one, which in turn holds because a restored
state is never `proof_ready`. `BusyIsBacked` is then inductive: only
answers remove calls while the page stays, and an answer never leaves a status
that waits for its kind. The keys need `KeysBelongTogether`: key and wallet in the
ref, and in every proof on its way, are those of one challenge asked for. What
is shown needs `AskedForOwn`: a submission polls for a transaction that carries
its own proof and owner. The action property `OnlyLateAnswersStrand` needs
`StrandedInv`: what is saved as a generated challenge has a challenge, so that no
mounting restores a page without a way on, and two submissions have different
numbers, so that the answer to one never settles the other.

`TabImplementsIssuance` proves the refinement from the same invariant, with one
lemma for each kind of step: including a transaction issues its credential, under
a nullifier no other has (`NetworkIssues`); a submission that has seen its own
transaction included announces that one's credential (`IssuedAnnounces`); every
other step keeps or forgets what is shown (`OthersForget`).

**`CredentialTabsProofs`**: `ShownIsAlwaysOnLedger`. The invariant `ListInv` adds
to the credentials shown what every load in flight has found and has yet to ask
for; it survives the waiting because the ledger never takes a credential back and
never undoes a revocation (`LedgerStepKeeps`). `WaitsAreAlwaysBacked` has a
conjunct for each of the three displays: a list that says it is loading has a load
in flight if there is a registry, a pending action an entry of a mounted tab in
`actions`, and the mounted panel runs exactly one execution or none. Each is
inductive because whoever takes the call away clears the display in the same step.

**`DnssecTheorems`**: `OwnerIsRestored` (behind any case and below a wildcard,
`determine_name` finds the signed owner again, as a name that can be written),
`OnlyTheSignedIsEverValid` and
`GenuineIsAlwaysValid`, under `NameAssumption`, `CaseAssumption`,
`FailedAssumption`, `MessageAssumption`, `ProofAssumption`, `SigningAssumption` and
`PanickedAssumption` (types, bounds, and special values that are none of those they
stand beside). The core of the first is
`DeterminedCovers`: if the name found for a label count is, in lower case, the
signed owner, then that owner covers the name asked for. That of the second is
`OwnerIsRestored`: the name found has the size of the signed owner because case
keeps sizes (`CaseAssumption`), so that the message can be written whatever the
length of the name asked for. The invariant `RunInv` only says that
a recorded run is a call with its result on sets the zone has signed.

**`HostTheorems`**, under the same assumptions, `NoRunAssumption` and `HostAssumption`:
`HostRunsTheProgram` (every behaviour of the host is one of `DnssecProof`: a
refinement by leaving variables out), and from it `HostVerdictsAreRight`, the two
theorems above for what the host runs. `InputInv` says what the answers gathered
so far are: the record is data, the signature was made by the zone, the key is a
key. `ProvedIsAlwaysPublished` has `ArchiveInv`: what is written is of a run whose
set is published, and nothing unpublishes. `OneVersionIsAlwaysProved` follows an
honest command through its three lookups: `GatherInv` says that if all answers so
far are of one version, they are a record of it, a signature of it and a key of it
with the signature's tag, `OneVersionInv` that the program was then run on them.
If the signature's key is published and its tag is its own, that is the key found,
and `GenuineIsAlwaysValid` gives the verdict. `FilesAlwaysAgree` needs `FileInv`,
which orders the files by the command that wrote them: until a command writes, all
files are older than it.

**`FoldTheorems`** holds what the proofs about texts and bytes have in common.
The prover cannot be given an induction rule with a predicate as a parameter, so
induction is by least counterexample (`SmallestNumber`) and a predicate is given
as the set of what satisfies it, a step as a function (`CountedNumbers`). A fold
is shown to be the end of a run of its steps (`FoldIsRun`), and the flattening of
parts to grow by one part at a time (`FlattenNext`). `FlattenApart` is the core of
every argument that bytes tell what they were made of: if no part of one sequence
of parts begins like the part of the other at its place without being equal to it,
sequences with the same flattening are the same.

**`DnsCodecProofs`**: `TextIsAlwaysReadBack`, for names of any number of labels
and labels of any bytes, under `TextAssumption` and `CodecAssumption`. The
invariant `ParserInv` says that the reader is in one of its states and that every
label it finished was of a kind and, with those before it, of a size that it takes
(`Accepted`); the body of the proof follows a second reader through what `Display`
wrote of a character, escape and octal digits included (`ReadOctal`), of a label,
and of all labels. Its second half is about one encoder that is `Sound`: its
offset is the length of its buffer, and every name it remembers begins in it, which
trimming after a reset restores (`KeptPointers`), while what was remembered before a
name stays (`KeptFirst`). `EmittedName` is what writing a name may end in: a panic
only behind the largest offset, a failure only for a name that cannot be emitted,
the name in full, or its first labels and a pointer; and it says which of the name's
ends are remembered then, and from where.

**`DnsWireProofs`**:

- `NamesAreAlwaysReadable`, for any names, fields and record data, any number of
  writes and any limit of the pointers that fits them. That names are readable is
  not inductive: the next pointer may lead to any remembered place, not only to
  where a name begins. `ReadableInv` adds that every remembered place is within
  the reach of a pointer and is read as labels whose bytes are those remembered
  (`Good`); since bytes tell labels (`SameWire`), a pointer found by comparing
  bytes leads to the labels it replaces. The step that writes a name has two
  cases, the name in full (`ReadableFull`) and with a pointer (`ReadablePointed`),
  each with the ends of the name that are remembered (`FullRemembers`,
  `PointedRemembers`): a name is cut before each of its labels (`Cut`). Every other
  step appends, and what was read is read again when the buffer grows (`ReadKept`).
  `LabelsAt` gives up after as many steps as the buffer has bytes, so what is
  shown is that many suffice: a label costs at least one byte, and a pointer
  leads into what was there before its name was written (`PointedRead`).
- `EncoderIsAlwaysSound`, the type invariant of `DnsCodec`, from `ReadableInv` and
  `ParserInv`.
- `MessagesAreAlwaysToldApart`, for any names, records that fit and numbers of
  them. `ToldInv` says that each call panicked, or made the message and the bytes of
  some signature, owner and records (`Constructed`). Bytes are then taken
  apart from the left: a header of fixed width whose codes are all different
  (`SameHeader`), a name that ends in an empty label (`SameName`), and records
  whose lengths their heads tell (`SameRecord`), put together by `FlattenApart`.
  In canonical form there are no pointers, so what was written before does not
  matter (`CanonicalName`).

The assumptions of both modules are `EncoderAssumption` (labels are sequences of
bytes, the limits fit their fields), `TermsAssumption` and `WriteAssumption` (what
is written has its type and fits its width; with a time past 32 bits two messages
would not be told apart), and `RecordAssumption`, which types the strings of a
record and has `Panicked` be no message. A message longer than an encoder holds makes the call panic, which is part
of what is proved; data with a string that is refused, or a length that would be
cut, is outside it by the property itself (`FitData`).

Model-checked only: the liveness properties `UnrenewedCredentialsExpire` and
`BusyEnds`, which are out of the prover's reach. Every invariant and every action
property that a passing run checks is proved.

## 9. Not modelled

Groth16 and BN254 arithmetic and the byte-level encoding of points and keys, the
trusted setup, RSA and ECDSA; the composition of shell scripts beyond what they
leave on the chain. In the browser, the DNS-over-HTTPS queries of `dnssec.ts` with
the parsing of the RRSIG window, and the encodings of `proofFormat.ts` and
`commitments.ts`: they enter as answers that may come or fail and as ideal
functions. Of the library, record types and algorithms given by number only, the
class OPT, and record data that no signature of a TXT record covers. Of the host,
the check that `--verify` makes of a proof just written, and what is printed.
Styling and presentation. Reloads of the page are modelled for the proof tab only,
the one tab that saves anything; for the others a reload is the same as leaving
the tab.
