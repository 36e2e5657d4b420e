------------------------------ MODULE ProveHost ------------------------------
(***************************************************************************)
(* The command-line host of the zkVM program.  It gathers the program's    *)
(* inputs with three lookups, of TXT, RRSIG and DNSKEY records, each       *)
(* answered by caches with whatever the zone once published, runs the      *)
(* program and writes the proof, and for Groth16 the fixture, to files     *)
(* that outlive the command.  Fields of DnssecProof's run are the inputs.  *)
(* Answers come in any order, so the first that fits is any that fits.     *)
(***************************************************************************)
EXTENDS DnssecProof

CONSTANTS
  Versions,      \* what the zone may publish: a record set, its signatures and the keys
  Arguments,     \* of the command: domain, name, execute, prove, mode
  Tag,           \* of each key: the tag its signatures carry
  MaxCommands    \* bound on the commands issued

(* Signatures of one record set may be of several keys and algorithms, and *)
(* are served with the signer's name in any case.                          *)
Rrsig ==
  {rrsig \in [of : SignedSets, signer_name : Signers] :
     Lowercase(rrsig.signer_name) = rrsig.of.signer}
SetsOf(v) == {rrsig.of : rrsig \in v.rrsigs}

ASSUME HostAssumption ==
  /\ MaxCommands \in Nat
  /\ Versions \subseteq [owner : Owners, rdata : CanonicalOrders, rrsigs : SUBSET Rrsig,
                          keys : SUBSET Keys]
  /\ \A v \in Versions : /\ SetsOf(v) \in Signings
                         /\ \A s \in SetsOf(v) : s.owner = v.owner /\ s.rdata = v.rdata
  /\ Arguments \subseteq [domain : Names, name : Names, execute : BOOLEAN, prove : BOOLEAN,
                          mode : {"succinct", "groth16"}]

VARIABLES
  published,    \* the versions that caches may hold
  commands,     \* how many commands were issued
  cmd,          \* the last: its arguments, step and answers
  proofs,       \* of each mode: proofs/<mode>-proof.bin
  fixture       \* groth16-fixture.json

files == <<proofs, fixture>>
hostVars == <<zone, run, published, commands, cmd, proofs, fixture>>

NoCommand == [step |-> "ended"]
NoFile == [command |-> 0]

HostInit ==
  /\ Init
  /\ published = {} /\ commands = 0 /\ cmd = NoCommand
  /\ proofs = [mode \in {"succinct", "groth16"} |-> NoFile] /\ fixture = NoFile

Publish(v) ==
  /\ Sign(SetsOf(v))
  /\ published' = published \cup {v}
  /\ UNCHANGED <<commands, cmd, files>>

------------------------------------------------------------------------------
Start(args) ==
  /\ cmd.step \in {"ended", "failed", "done"} /\ commands < MaxCommands
  /\ commands' = commands + 1
  /\ cmd' = [step |-> "txt", args |-> args]
  /\ run' = NoRun
  /\ UNCHANGED <<zone, published, files>>

Quietly == UNCHANGED <<zone, run, published, commands, files>>
Fail == cmd' = [cmd EXCEPT !.step = "failed"]

(* A lookup or a file operation that fails, a panic, or the user's ^C. *)
Interrupted == cmd.step \notin {"ended", "failed", "done"} /\ Fail /\ Quietly

(* get_txt_records: the first record *)
LookupTxt(v, data) ==
  /\ cmd.step = "txt" /\ Covers(v.owner, cmd.args.domain.labels)
  /\ cmd' = [step |-> "rrsig", args |-> cmd.args, txt |-> data, from |-> {v}]
  /\ Quietly

(* and, looked up at the other name, the first signature over TXT records  *)
(* whose signer is the owner of that record, of whatever algorithm it is.  *)
SignaturesBy(domain, v) ==
  {rrsig \in v.rrsigs : Lowercase(rrsig.signer_name) = Lowercase(domain.labels)}

LookupRrsig(v) ==
  /\ cmd.step = "rrsig" /\ Covers(v.owner, cmd.args.name.labels)
  /\ \/ \E rrsig \in SignaturesBy(cmd.args.domain, v) :
          cmd' = [step |-> "dnskey", args |-> cmd.args, txt |-> cmd.txt, rrsig |-> rrsig,
                  from |-> cmd.from \cup {v}]
     \/ SignaturesBy(cmd.args.domain, v) = {} /\ Fail
  /\ Quietly

(* get_dnskey: the first key with the tag. *)
AnyKey(keys, tag) == keys  \* looks at no tag
KeysWithTag(keys, tag) == {k \in keys : Tag[k] = tag}

LookupDnskey(v) ==
  /\ cmd.step = "dnskey"
  /\ \E rrsig \in v.rrsigs : rrsig.of.signer = Lowercase(cmd.args.domain.labels)
  /\ LET found == KeysWithTag(v.keys, Tag[cmd.rrsig.of.key])
     IN  \/ \E key \in found :
              cmd' = [step |-> "ready", args |-> cmd.args, txt |-> cmd.txt, rrsig |-> cmd.rrsig,
                      key |-> key, from |-> cmd.from \cup {v}]
         \/ found = {} /\ Fail
  /\ Quietly

------------------------------------------------------------------------------
(* The arguments are looked at after the lookups. *)
Misused ==
  /\ cmd.step = "ready" /\ cmd.args.execute = cmd.args.prove
  /\ Fail /\ Quietly

(* generate_inputs: the signer's name is passed on as it was served. *)
ServedFields(rrsig) ==
  [terms |-> rrsig.of.terms, num_labels |-> NumLabels(rrsig.of.owner),
   signer_name |-> rrsig.signer_name]

(* execute or prove_with_opts: a panic of the program is an error. *)
RunProgram ==
  /\ cmd.step = "ready" /\ cmd.args.execute # cmd.args.prove
  /\ VerifyRrsig(cmd.key, cmd.args.domain, ServedFields(cmd.rrsig), <<cmd.txt>>, cmd.rrsig.of)
  /\ cmd' = [cmd EXCEPT !.step = CASE run'.result = "panicked" -> "failed"
                                   [] run'.result # "panicked" /\ cmd.args.execute -> "done"
                                   [] OTHER -> "proved"]
  /\ UNCHANGED <<published, commands, files>>

File == [command |-> commands, is_valid |-> run.result = "valid", domain |-> run.name,
         record |-> run.records[1], key |-> run.key]

NothingAfter(mode) == "done"  \* forgets the fixture
AfterProof(mode) == IF mode = "groth16" THEN "saved" ELSE "done"

WriteProof ==
  /\ cmd.step = "proved"
  /\ proofs' = [proofs EXCEPT ![cmd.args.mode] = File]
  /\ cmd' = [cmd EXCEPT !.step = AfterProof(cmd.args.mode)]
  /\ UNCHANGED <<zone, run, published, commands, fixture>>

WriteFixture ==
  /\ cmd.step = "saved"
  /\ fixture' = File
  /\ cmd' = [cmd EXCEPT !.step = "done"]
  /\ UNCHANGED <<zone, run, published, commands, proofs>>

HostNext ==
  \/ \E v \in Versions : Publish(v)
  \/ \E args \in Arguments : Start(args)
  \/ \E v \in published : \E data \in Range(v.rdata) : LookupTxt(v, data)
  \/ \E v \in published : LookupRrsig(v) \/ LookupDnskey(v)
  \/ Misused \/ RunProgram \/ WriteProof \/ WriteFixture
  \/ Interrupted

HostSpec == HostInit /\ [][HostNext]_hostVars

------------------------------------------------------------------------------
(***************************************************************************)
(* A proof or fixture on disk that says "valid" is of a record that the    *)
(* zone published alone for the domain, and was checked with the key that  *)
(* signed it, whatever versions the three answers were of and whatever     *)
(* happened to the commands since.                                         *)
(***************************************************************************)
ProvedWasPublished ==
  \A file \in {proofs["succinct"], proofs["groth16"], fixture} \ {NoFile} :
    file.is_valid =>
      \E v \in published :
        /\ Covers(v.owner, file.domain.labels)
        /\ v.rdata = <<file.record>>
        /\ \E s \in SetsOf(v) : s.key = file.key

(***************************************************************************)
(* While nothing changes, the host proves: when all answers are of one     *)
(* version with one record, and the signature that came first is of P-256, *)
(* of a published key whose tag no other has, and its signer's name is in  *)
(* lower case, the program says "valid".  The host does not look for such  *)
(* a signature among others.                                               *)
(***************************************************************************)
OneVersionIsProved ==
  \A v \in published :
    /\ run # NoRun /\ cmd.from = {v}
    /\ Len(v.rdata) = 1
    /\ run.of.key \in v.keys \cap Points
    /\ \A k \in v.keys : Tag[k] = Tag[run.of.key] => k = run.of.key
    /\ Canonical(run.sig.signer_name)
    => run.result = "valid"

(***************************************************************************)
(* The fixture is never newer than the proof it is made of, and a command  *)
(* that ends well leaves both as it made them; one that is interrupted     *)
(* between may leave an older fixture beside its proof.                    *)
(***************************************************************************)
FilesAgree ==
  /\ fixture # NoFile =>
       /\ proofs["groth16"] # NoFile
       /\ fixture.command <= proofs["groth16"].command
       /\ fixture.command = proofs["groth16"].command => fixture = proofs["groth16"]
  /\ cmd.step = "done" /\ cmd.args.prove =>
       /\ proofs[cmd.args.mode] = File
       /\ cmd.args.mode = "groth16" => fixture = File
==============================================================================
