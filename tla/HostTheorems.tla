----------------------------- MODULE HostTheorems -----------------------------
(***************************************************************************)
(* Proofs that the host puts before the program only what DnssecProof      *)
(* allows for, so that its verdicts are right, and that what it leaves on  *)
(* disk is of what the zone published and agrees with itself, for any      *)
(* versions, answers and interruptions.                                    *)
(***************************************************************************)
EXTENDS ProveHost, DnssecTheorems

Modes == {"succinct", "groth16"}
Asked == {"txt", "rrsig", "dnskey", "ready"}

CmdInv ==
  /\ cmd.step \in Asked \cup {"proved", "saved", "done"} => cmd.args \in Arguments
  /\ cmd.step \in {"rrsig", "dnskey", "ready"} => cmd.txt \in Rdata
  /\ cmd.step \in {"dnskey", "ready"} => cmd.rrsig \in Rrsig /\ cmd.rrsig.of \in zone
  /\ cmd.step = "ready" => cmd.key \in Keys
  /\ cmd.step \in Asked => run = NoRun
  /\ cmd.step \in {"proved", "saved"} => run # NoRun
  /\ cmd.step = "saved" => cmd.args.mode = "groth16"

ZoneInv ==
  /\ published \subseteq Versions
  /\ zone \subseteq SignedSets
  /\ zone = UNION {SetsOf(v) : v \in published}

ProgramInv ==
  /\ RunOf
  /\ run # NoRun => run.of \in zone /\ run.records = <<run.records[1]>>

InputInv == ZoneInv /\ CmdInv /\ ProgramInv

------------------------------------------------------------------------------
LEMMA FieldsOfServed ==
  ASSUME NEW rrsig \in Rrsig
  PROVE  ServedFields(rrsig) \in Sig /\ rrsig.of \in SignedSets
<1> DEFINE s == rrsig.of
<1>0. s \in SignedSets /\ rrsig.signer_name \in Signers
  BY DEF Rrsig
<1>1. s.owner \in Seq(Labels) /\ Len(s.owner) \in 0 .. MaxLabels /\ s.terms \in Terms
  BY <1>0, NameAssumption, BoundedSequences DEF SignedSets, Owners
<1> HIDE DEF s
<1>2. NumLabels(s.owner) \in Nat /\ NumLabels(s.owner) <= Len(s.owner)
  BY <1>1, NumLabelsOf
<1>3. NumLabels(s.owner) \in 0 .. MaxLabels
  BY <1>1, <1>2, NameAssumption
<1> QED
  BY <1>0, <1>1, <1>3 DEF ServedFields, Sig, s

LEMMA OneRecord ==
  ASSUME NEW data \in Rdata
  PROVE  <<data>> \in SeqOf(Rdata, MaxRecords)
<1>1. <<data>> \in Seq(Rdata) /\ Len(<<data>>) = 1
  OBVIOUS
<1>2. MaxRecords \in Nat /\ 1 <= MaxRecords
  BY ProofAssumption
<1>3. Len(<<data>>) <= MaxRecords
  BY <1>1, <1>2
<1> QED
  BY <1>1, <1>2, <1>3, SequenceIsBounded

LEMMA VersionType ==
  ASSUME NEW v \in Versions
  PROVE  /\ v.rdata \in Seq(Rdata) /\ \A data \in Range(v.rdata) : data \in Rdata
         /\ v.rrsigs \subseteq Rrsig /\ v.keys \subseteq Keys
         /\ SetsOf(v) \in Signings /\ SetsOf(v) \subseteq SignedSets
         /\ \A s \in SetsOf(v) : s.owner = v.owner /\ s.rdata = v.rdata
         /\ \A rrsig \in v.rrsigs : rrsig.of \in SetsOf(v)
<1>1. v \in [owner : Owners, rdata : CanonicalOrders, rrsigs : SUBSET Rrsig, keys : SUBSET Keys]
  BY HostAssumption
<1>2. v.rdata \in Seq(Rdata)
  BY <1>1, ProofAssumption, BoundedSequences DEF CanonicalOrders
<1>3. \A data \in Range(v.rdata) : data \in Rdata
  BY <1>2 DEF Range
<1>4. SetsOf(v) \in Signings /\ \A s \in SetsOf(v) : s.owner = v.owner /\ s.rdata = v.rdata
  BY HostAssumption
<1>5. SetsOf(v) \subseteq SignedSets
  BY <1>4, SigningAssumption
<1>6. \A rrsig \in v.rrsigs : rrsig.of \in SetsOf(v)
  BY DEF SetsOf
<1> QED
  BY <1>1, <1>2, <1>3, <1>4, <1>5, <1>6

------------------------------------------------------------------------------
(* What the host calls the program with is what DnssecProof considers. *)
LEMMA CallIsAllowed ==
  ASSUME InputInv, RunProgram
  PROVE  /\ run = NoRun /\ cmd.key \in Keys /\ cmd.args.domain \in Names
         /\ ServedFields(cmd.rrsig) \in Sig
         /\ <<cmd.txt>> \in SeqOf(Rdata, MaxRecords)
         /\ cmd.rrsig.of \in zone /\ cmd.rrsig.of \in SignedSets
<1>1. cmd.step = "ready" /\ cmd.args \in Arguments
  BY DEF RunProgram, InputInv, CmdInv, Asked
<1>2. /\ run = NoRun /\ cmd.key \in Keys /\ cmd.txt \in Rdata
      /\ cmd.rrsig \in Rrsig /\ cmd.rrsig.of \in zone
  BY <1>1 DEF InputInv, CmdInv, Asked
<1>3. cmd.args.domain \in Names
  BY <1>1, HostAssumption
<1>4. ServedFields(cmd.rrsig) \in Sig /\ cmd.rrsig.of \in SignedSets
  BY <1>2, FieldsOfServed
<1> QED
  BY <1>2, <1>3, <1>4, OneRecord

LEMMA CallIsARun ==
  ASSUME InputInv, RunProgram
  PROVE  run' # NoRun
<1>1. run' = [key |-> cmd.key, name |-> cmd.args.domain, sig |-> ServedFields(cmd.rrsig),
              records |-> <<cmd.txt>>, of |-> cmd.rrsig.of,
              result |-> Result(cmd.key, cmd.args.domain, ServedFields(cmd.rrsig),
                                <<cmd.txt>>, cmd.rrsig.of)]
  BY DEF RunProgram, VerifyRrsig
<1>2. Result(cmd.key, cmd.args.domain, ServedFields(cmd.rrsig), <<cmd.txt>>, cmd.rrsig.of)
        \in {"valid", "invalid", "panicked"}
  BY DEF Result
<1>3. run' \in Runs
  BY <1>1, <1>2, CallIsAllowed DEF Runs
<1> QED
  BY <1>3, NoRunAssumption

LEMMA InputStep == InputInv /\ [HostNext]_hostVars => InputInv'
<1> SUFFICES ASSUME InputInv, [HostNext]_hostVars
             PROVE  InputInv'
  OBVIOUS
<1> USE DEF InputInv
<1>1. ASSUME NEW v \in Versions, Publish(v)
      PROVE  InputInv'
  <2>1. ZoneInv'
    <3>1. /\ zone' = zone \cup SetsOf(v) /\ published' = published \cup {v}
          /\ SetsOf(v) \subseteq SignedSets
      BY <1>1, VersionType DEF Publish, Sign
    <3> QED
      BY <3>1 DEF ZoneInv
  <2>2. CmdInv'
    BY <1>1 DEF Publish, Sign, CmdInv
  <2>3. ProgramInv'
    BY <1>1 DEF Publish, Sign, ProgramInv, RunOf
  <2> QED
    BY <2>1, <2>2, <2>3
<1>2. ASSUME NEW args \in Arguments, Start(args)
      PROVE  InputInv'
  <2>1. ZoneInv'
    BY <1>2 DEF Start, ZoneInv
  <2>2. CmdInv'
    BY <1>2 DEF Start, CmdInv
  <2>3. ProgramInv'
    BY <1>2 DEF Start, ProgramInv, RunOf
  <2> QED
    BY <2>1, <2>2, <2>3
<1>3. ASSUME Quietly
      PROVE  ZoneInv' /\ ProgramInv'
  BY <1>3 DEF Quietly, ZoneInv, ProgramInv, RunOf
<1>4. ASSUME Fail, Quietly
      PROVE  CmdInv'
  <2>1. cmd'.step = "failed" \/ cmd' = cmd
    BY <1>4 DEF Fail
  <2> QED
    BY <1>4, <2>1 DEF CmdInv, Asked, Quietly
<1>5. ASSUME NEW v \in published, NEW data \in Range(v.rdata), LookupTxt(v, data)
      PROVE  CmdInv'
  <2>1. v \in Versions
    BY DEF ZoneInv
  <2>2. data \in Rdata
    BY <2>1, VersionType
  <2> QED
    BY <1>5, <2>2 DEF LookupTxt, Quietly, CmdInv, Asked
<1>6. ASSUME NEW v \in published, LookupRrsig(v)
      PROVE  CmdInv'
  <2>1. CASE Fail
    BY <1>4, <1>6, <2>1 DEF LookupRrsig
  <2>2. ASSUME NEW rrsig \in v.rrsigs,
               cmd' = [step |-> "dnskey", args |-> cmd.args, txt |-> cmd.txt, rrsig |-> rrsig,
                       from |-> cmd.from \cup {v}]
        PROVE  CmdInv'
    <3>1. rrsig \in Rrsig /\ rrsig.of \in zone
      BY VersionType DEF ZoneInv
    <3> QED
      BY <1>6, <2>2, <3>1 DEF LookupRrsig, Quietly, CmdInv, Asked
  <2> QED
    BY <1>6, <2>1, <2>2 DEF LookupRrsig, SignaturesBy
<1>7. ASSUME NEW v \in published, LookupDnskey(v)
      PROVE  CmdInv'
  <2>1. CASE Fail
    BY <1>4, <1>7, <2>1 DEF LookupDnskey
  <2>2. ASSUME NEW key \in v.keys,
               cmd' = [step |-> "ready", args |-> cmd.args, txt |-> cmd.txt,
                       rrsig |-> cmd.rrsig, key |-> key, from |-> cmd.from \cup {v}]
        PROVE  CmdInv'
    <3>1. key \in Keys
      BY VersionType DEF ZoneInv
    <3> QED
      BY <1>7, <2>2, <3>1 DEF LookupDnskey, Quietly, CmdInv, Asked
  <2> QED
    BY <1>7, <2>1, <2>2 DEF LookupDnskey, KeysWithTag
<1>8. CASE Misused
  BY <1>3, <1>4, <1>8 DEF Misused
<1>9. CASE RunProgram
  <2>1. ZoneInv'
    BY <1>9 DEF RunProgram, VerifyRrsig, ZoneInv
  <2>2. CmdInv'
    <3>1. cmd.step = "ready" /\ cmd'.step \in {"failed", "done", "proved"} /\ cmd'.args = cmd.args
      BY <1>9 DEF RunProgram
    <3>2. run' # NoRun
      BY <1>9, CallIsARun DEF RunProgram
    <3> QED
      BY <3>1, <3>2 DEF CmdInv, Asked
  <2>3. ProgramInv'
    <3>1. /\ cmd.args.domain \in Names /\ ServedFields(cmd.rrsig) \in Sig
          /\ <<cmd.txt>> \in SeqOf(Rdata, MaxRecords)
          /\ cmd.rrsig.of \in zone /\ cmd.rrsig.of \in SignedSets
      BY <1>9, CallIsAllowed
    <3>2. <<cmd.txt>> \in Seq(Rdata)
      BY <3>1, ProofAssumption, BoundedSequences
    <3>3. cmd.args.domain \in AnyName
      BY <3>1 DEF Names
    <3> QED
      BY <1>9, <3>1, <3>2, <3>3 DEF RunProgram, VerifyRrsig, ProgramInv, RunOf
  <2> QED
    BY <2>1, <2>2, <2>3
<1>10. CASE WriteProof
  <2>1. ZoneInv' /\ ProgramInv'
    BY <1>10 DEF WriteProof, ZoneInv, ProgramInv, RunOf
  <2>2. CmdInv'
    BY <1>10 DEF WriteProof, AfterProof, CmdInv, Asked
  <2> QED
    BY <2>1, <2>2
<1>11. CASE WriteFixture
  <2>1. ZoneInv' /\ ProgramInv'
    BY <1>11 DEF WriteFixture, ZoneInv, ProgramInv, RunOf
  <2>2. CmdInv'
    BY <1>11 DEF WriteFixture, CmdInv, Asked
  <2> QED
    BY <2>1, <2>2
<1>12. CASE Interrupted
  BY <1>3, <1>4, <1>12 DEF Interrupted
<1>13. CASE UNCHANGED hostVars
  BY <1>13 DEF hostVars, files, ZoneInv, CmdInv, ProgramInv, RunOf
<1>14. ASSUME NEW v \in published, NEW data \in Range(v.rdata), LookupTxt(v, data)
       PROVE  InputInv'
  BY <1>3, <1>5, <1>14 DEF LookupTxt
<1>15. ASSUME NEW v \in published, LookupRrsig(v) \/ LookupDnskey(v)
       PROVE  InputInv'
  BY <1>3, <1>6, <1>7, <1>15 DEF LookupRrsig, LookupDnskey
<1> QED
  BY <1>1, <1>2, <1>8, <1>9, <1>10, <1>11, <1>12, <1>13, <1>14, <1>15 DEF HostNext

LEMMA InputInit == HostInit => InputInv
BY DEF HostInit, Init, NoCommand, InputInv, ZoneInv, CmdInv, ProgramInv, RunOf, Asked

(***************************************************************************)
(* The host only ever calls the program as DnssecProof says it may be      *)
(* called, on a zone that signs as it says: the host implements that       *)
(* specification, and its verdicts are right in both directions.           *)
(***************************************************************************)
THEOREM HostRunsTheProgram == HostSpec => Spec
<1>1. HostInit => Init
  BY DEF HostInit
<1>2. InputInv /\ [HostNext]_hostVars => [Next]_vars
  <2> SUFFICES ASSUME InputInv, [HostNext]_hostVars
               PROVE  [Next]_vars
    OBVIOUS
  <2>1. ASSUME NEW v \in Versions, Publish(v)
        PROVE  Next
    <3>1. SetsOf(v) \in Signings
      BY VersionType
    <3> QED
      BY <2>1, <3>1 DEF Publish, Next
  <2>2. ASSUME NEW args \in Arguments, Start(args)
        PROVE  Return \/ UNCHANGED vars
    BY <2>2 DEF Start, Return, vars
  <2>3. ASSUME Quietly
        PROVE  UNCHANGED vars
    BY <2>3 DEF Quietly, vars
  <2>4. CASE RunProgram
    <3>1. VerifyRrsig(cmd.key, cmd.args.domain, ServedFields(cmd.rrsig), <<cmd.txt>>, cmd.rrsig.of)
      BY <2>4 DEF RunProgram
    <3> QED
      BY <2>4, <3>1, CallIsAllowed DEF Next
  <2>5. CASE WriteProof \/ WriteFixture \/ UNCHANGED hostVars
    BY <2>5 DEF WriteProof, WriteFixture, hostVars, vars
  <2>6. ASSUME NEW v \in published, \/ \E data \in Range(v.rdata) : LookupTxt(v, data)
                                    \/ LookupRrsig(v) \/ LookupDnskey(v)
        PROVE  UNCHANGED vars
    BY <2>3, <2>6 DEF LookupTxt, LookupRrsig, LookupDnskey
  <2>7. CASE Misused \/ Interrupted
    BY <2>3, <2>7 DEF Misused, Interrupted
  <2> QED
    BY <2>1, <2>2, <2>4, <2>5, <2>6, <2>7 DEF HostNext, Next
<1> QED
  BY <1>1, <1>2, InputInit, InputStep, PTL DEF HostSpec, Spec

------------------------------------------------------------------------------
LEMMA FileIsPublished ==
  ASSUME InputInv, run # NoRun, File.is_valid
  PROVE  \E v \in published : /\ Covers(v.owner, File.domain.labels)
                              /\ v.rdata = <<File.record>>
                              /\ \E s \in SetsOf(v) : s.key = File.key
<1>1. /\ Covers(run.of.owner, run.name.labels)
      /\ run.records = run.of.rdata
      /\ run.key = run.of.key
  BY ValidIsSigned DEF InputInv, ProgramInv, File, OnlyTheSignedIsValid
<1>2. PICK v \in published : run.of \in SetsOf(v)
  BY DEF InputInv, ProgramInv, ZoneInv
<1>3. run.of.owner = v.owner /\ run.of.rdata = v.rdata
  BY <1>2, VersionType DEF InputInv, ZoneInv
<1>4. run.records = <<run.records[1]>>
  BY DEF InputInv, ProgramInv
<1> QED
  BY <1>1, <1>2, <1>3, <1>4 DEF File

IsPublished(file) ==
  file # NoFile /\ file.is_valid =>
    \E v \in published : /\ Covers(v.owner, file.domain.labels)
                         /\ v.rdata = <<file.record>>
                         /\ \E s \in SetsOf(v) : s.key = file.key

ArchiveInv ==
  /\ proofs = [m \in Modes |-> proofs[m]]
  /\ IsPublished(fixture) /\ \A m \in Modes : IsPublished(proofs[m])

LEMMA ArchiveStep == InputInv /\ ArchiveInv /\ [HostNext]_hostVars => ArchiveInv'
<1> SUFFICES ASSUME InputInv, ArchiveInv, [HostNext]_hostVars
             PROVE  ArchiveInv'
  OBVIOUS
<1>1. ASSUME published \subseteq published', UNCHANGED files
      PROVE  ArchiveInv'
  BY <1>1 DEF ArchiveInv, IsPublished, files
<1>2. ASSUME run # NoRun
      PROVE  IsPublished(File)
  BY <1>2, FileIsPublished DEF IsPublished
<1>3. CASE WriteProof
  <2>1. IsPublished(File) /\ cmd.args.mode \in Modes
    BY <1>2, <1>3, HostAssumption DEF WriteProof, InputInv, CmdInv, Modes
  <2>2. /\ published' = published /\ fixture' = fixture
        /\ proofs' = [proofs EXCEPT ![cmd.args.mode] = File]
    BY <1>3 DEF WriteProof
  <2>3. /\ proofs' = [m \in Modes |-> proofs'[m]]
        /\ \A m \in Modes : proofs'[m] = IF m = cmd.args.mode THEN File ELSE proofs[m]
    BY <2>1, <2>2 DEF ArchiveInv
  <2>4. IsPublished(fixture)'
    BY <2>2 DEF ArchiveInv, IsPublished
  <2>5. ASSUME NEW m \in Modes
        PROVE  IsPublished(proofs[m])'
    <3>1. CASE m = cmd.args.mode
      BY <2>1, <2>2, <2>3, <3>1 DEF IsPublished
    <3>2. CASE m # cmd.args.mode
      BY <2>2, <2>3, <3>2 DEF ArchiveInv, IsPublished
    <3> QED
      BY <3>1, <3>2
  <2> QED
    BY <2>3, <2>4, <2>5 DEF ArchiveInv
<1>4. CASE WriteFixture
  <2>1. IsPublished(File)
    BY <1>2, <1>4 DEF WriteFixture, InputInv, CmdInv
  <2>2. published' = published /\ proofs' = proofs /\ fixture' = File
    BY <1>4 DEF WriteFixture
  <2> QED
    BY <2>1, <2>2 DEF ArchiveInv, IsPublished
<1>5. ASSUME NEW v \in Versions, Publish(v)
      PROVE  ArchiveInv'
  BY <1>1, <1>5 DEF Publish
<1>6. ASSUME NEW args \in Arguments, Start(args)
      PROVE  ArchiveInv'
  BY <1>1, <1>6 DEF Start
<1>7. ASSUME NEW v \in published, \/ \E data \in Range(v.rdata) : LookupTxt(v, data)
                                  \/ LookupRrsig(v) \/ LookupDnskey(v)
      PROVE  ArchiveInv'
  BY <1>1, <1>7 DEF LookupTxt, LookupRrsig, LookupDnskey, Quietly
<1>8. CASE Misused \/ Interrupted \/ RunProgram \/ UNCHANGED hostVars
  <2>1. published' = published /\ UNCHANGED files
    BY <1>8 DEF Misused, Interrupted, Quietly, RunProgram, hostVars, files
  <2> QED
    BY <1>1, <2>1
<1> QED
  BY <1>3, <1>4, <1>5, <1>6, <1>7, <1>8 DEF HostNext

(***************************************************************************)
(* Whatever answers the lookups got and whenever commands were stopped, a  *)
(* file that says "valid" is of a record the zone published alone, with    *)
(* the key that signed it.                                                 *)
(***************************************************************************)
THEOREM ProvedIsAlwaysPublished == HostSpec => []ProvedWasPublished
<1>1. HostInit => ArchiveInv
  BY DEF HostInit, ArchiveInv, IsPublished, Modes
<1>2. InputInv /\ ArchiveInv /\ [HostNext]_hostVars => ArchiveInv'
  BY ArchiveStep
<1>3. ArchiveInv => ProvedWasPublished
  BY DEF ArchiveInv, IsPublished, ProvedWasPublished, Modes
<1> QED
  BY <1>1, <1>2, <1>3, InputInit, InputStep, PTL DEF HostSpec

------------------------------------------------------------------------------
(***************************************************************************)
(* Commands are numbered, and a file's number says which wrote it: until a *)
(* command writes, all files are of earlier ones.                          *)
(***************************************************************************)
Older(file) == file # NoFile => file.command < commands

NumberInv ==
  /\ commands \in Nat
  /\ proofs = [m \in Modes |-> proofs[m]]
  /\ \A file \in {proofs["succinct"], proofs["groth16"], fixture} \ {NoFile} :
       file.command \in 0 .. commands

OrderInv ==
  /\ fixture # NoFile =>
       /\ proofs["groth16"] # NoFile
       /\ fixture.command <= proofs["groth16"].command
       /\ fixture.command = proofs["groth16"].command => fixture = proofs["groth16"]
  /\ cmd.step \in Asked \cup {"proved"} =>
       Older(proofs["succinct"]) /\ Older(proofs["groth16"]) /\ Older(fixture)
  /\ cmd.step = "saved" => proofs["groth16"] = File /\ Older(fixture)
  /\ cmd.step = "done" /\ cmd.args.prove =>
       /\ proofs[cmd.args.mode] = File
       /\ cmd.args.mode = "groth16" => fixture = File

FileInv == NumberInv /\ OrderInv

LEMMA FileIsAFile == File # NoFile
<1>1. "domain" \in DOMAIN File /\ "domain" \notin DOMAIN NoFile
  BY DEF File, NoFile
<1> QED
  BY <1>1

LEMMA FileStep == InputInv /\ FileInv /\ [HostNext]_hostVars => FileInv'
<1> SUFFICES ASSUME InputInv, FileInv, [HostNext]_hostVars
             PROVE  FileInv'
  OBVIOUS
<1>1. ASSUME UNCHANGED <<run, commands, proofs, fixture>>,
             cmd' = cmd \/ cmd'.step \in Asked \cup {"failed"},
             cmd'.step \in Asked => cmd.step \in Asked
      PROVE  FileInv'
  <2>1. File' = File
    BY <1>1 DEF File
  <2>2. NumberInv'
    BY <1>1 DEF FileInv, NumberInv
  <2>3. OrderInv'
    BY <1>1, <2>1 DEF FileInv, OrderInv, Older, Asked
  <2> QED
    BY <2>2, <2>3 DEF FileInv
<1>2. ASSUME Quietly, Fail
      PROVE  FileInv'
  <2>1. cmd'.step = "failed" \/ cmd' = cmd
    BY <1>2 DEF Fail
  <2> QED
    BY <1>1, <1>2, <2>1 DEF Quietly, files, Asked
<1>3. ASSUME NEW v \in Versions, Publish(v)
      PROVE  FileInv'
  BY <1>1, <1>3 DEF Publish, Sign, files
<1>4. ASSUME NEW args \in Arguments, Start(args)
      PROVE  FileInv'
  <2>1. /\ commands' = commands + 1 /\ cmd'.step = "txt"
        /\ proofs' = proofs /\ fixture' = fixture
    BY <1>4 DEF Start, files
  <2>2. NumberInv'
    BY <2>1 DEF FileInv, NumberInv
  <2>3. OrderInv'
    <3>1. /\ Older(proofs["succinct"])' /\ Older(proofs["groth16"])' /\ Older(fixture)'
      BY <2>1 DEF FileInv, NumberInv, Older
    <3> QED
      BY <2>1, <3>1 DEF FileInv, OrderInv
  <2> QED
    BY <2>2, <2>3 DEF FileInv
<1>5. ASSUME NEW v \in published, \/ \E data \in Range(v.rdata) : LookupTxt(v, data)
                                  \/ LookupRrsig(v) \/ LookupDnskey(v)
      PROVE  FileInv'
  <2>1. Quietly /\ cmd.step \in Asked
    BY <1>5 DEF LookupTxt, LookupRrsig, LookupDnskey, Asked
  <2>2. CASE Fail
    BY <1>2, <2>1, <2>2
  <2>3. CASE cmd'.step \in Asked
    BY <1>1, <2>1, <2>3 DEF Quietly, files
  <2> QED
    BY <1>5, <2>2, <2>3 DEF LookupTxt, LookupRrsig, LookupDnskey, Asked
<1>6. CASE Misused \/ Interrupted
  BY <1>2, <1>6 DEF Misused, Interrupted
<1>7. CASE RunProgram
  <2>1. /\ cmd.step = "ready" /\ cmd'.args = cmd.args /\ cmd.args.execute # cmd.args.prove
        /\ \/ cmd'.step \in {"failed", "proved"}
           \/ cmd'.step = "done" /\ cmd.args.execute
        /\ UNCHANGED <<commands, proofs, fixture>>
    BY <1>7 DEF RunProgram, files
  <2>2. cmd.args.execute => ~cmd.args.prove
    BY <2>1, HostAssumption DEF InputInv, CmdInv, Asked
  <2>3. NumberInv'
    BY <2>1 DEF FileInv, NumberInv
  <2>4. OrderInv'
    BY <2>1, <2>2 DEF FileInv, OrderInv, Older, Asked
  <2> QED
    BY <2>3, <2>4 DEF FileInv
<1>8. CASE WriteProof
  <2>1. /\ cmd.step = "proved" /\ cmd.args.mode \in Modes
        /\ proofs' = [proofs EXCEPT ![cmd.args.mode] = File]
        /\ cmd' = [cmd EXCEPT !.step = AfterProof(cmd.args.mode)]
        /\ UNCHANGED <<run, commands, fixture>>
    BY <1>8, HostAssumption DEF WriteProof, InputInv, CmdInv, Modes
  <2>2. File' = File /\ File.command = commands
    BY <2>1 DEF File
  <2>3. /\ proofs' = [m \in Modes |-> proofs'[m]]
        /\ \A m \in Modes : proofs'[m] = IF m = cmd.args.mode THEN File ELSE proofs[m]
    BY <2>1 DEF FileInv, NumberInv
  <2>4. NumberInv'
    BY <2>1, <2>2, <2>3 DEF FileInv, NumberInv, Modes
  <2>5. cmd'.args = cmd.args /\ cmd'.step = AfterProof(cmd.args.mode)
    BY <2>1
  <2>6. OrderInv'
    <3>0. Older(fixture) /\ File # NoFile
      BY <2>1, FileIsAFile DEF FileInv, OrderInv
    <3>1. CASE cmd.args.mode = "groth16"
      <4>1. proofs'["groth16"] = File /\ cmd'.step = "saved" /\ fixture' = fixture
        BY <2>1, <2>3, <2>5, <3>1 DEF Modes, AfterProof
      <4>2. fixture # NoFile => fixture.command < File.command /\ fixture.command \in Int
        BY <2>2, <3>0 DEF Older, FileInv, NumberInv
      <4>3. Older(fixture)'
        BY <2>1, <3>0 DEF Older
      <4> HIDE DEF File
      <4>4. commands \in Nat /\ File.command \in Nat
        BY <2>2 DEF FileInv, NumberInv
      <4>5. fixture' # NoFile =>
              /\ proofs'["groth16"] # NoFile
              /\ fixture'.command <= proofs'["groth16"].command
              /\ fixture'.command = proofs'["groth16"].command => fixture' = proofs'["groth16"]
        BY <3>0, <4>1, <4>2, <4>4
      <4> QED
        BY <2>2, <4>1, <4>3, <4>5 DEF OrderInv, Asked
    <3>2. CASE cmd.args.mode = "succinct"
      BY <2>1, <2>2, <2>3, <2>4, <2>5, <3>0, <3>2
         DEF FileInv, NumberInv, OrderInv, Older, Asked, Modes, AfterProof
    <3> QED
      BY <2>1, <3>1, <3>2 DEF Modes
  <2> QED
    BY <2>4, <2>6 DEF FileInv
<1>9. CASE WriteFixture
  <2>1. /\ cmd.step = "saved" /\ cmd.args.mode = "groth16" /\ proofs["groth16"] = File
        /\ fixture' = File /\ cmd'.step = "done" /\ cmd'.args = cmd.args
        /\ UNCHANGED <<run, commands, proofs>>
    BY <1>9 DEF WriteFixture, InputInv, CmdInv, FileInv, OrderInv
  <2>2. File' = File /\ File.command = commands
    BY <2>1 DEF File
  <2>3. NumberInv'
    BY <2>1, <2>2 DEF FileInv, NumberInv
  <2>4. OrderInv'
    BY <2>1, <2>2, <2>3 DEF FileInv, NumberInv, OrderInv, Older, Asked
  <2> QED
    BY <2>3, <2>4 DEF FileInv
<1>10. CASE UNCHANGED hostVars
  BY <1>1, <1>10 DEF hostVars
<1> QED
  BY <1>3, <1>4, <1>5, <1>6, <1>7, <1>8, <1>9, <1>10 DEF HostNext

(***************************************************************************)
(* However commands follow each other and are stopped, the fixture is      *)
(* never newer than the proof beside it, and a command that says it has    *)
(* generated a proof leaves files that agree.                              *)
(***************************************************************************)
THEOREM FilesAlwaysAgree == HostSpec => []FilesAgree
<1>1. HostInit => FileInv
  BY DEF HostInit, NoCommand, FileInv, NumberInv, OrderInv, Older, Asked, Modes
<1>2. InputInv /\ FileInv /\ [HostNext]_hostVars => FileInv'
  BY FileStep
<1>3. FileInv => FilesAgree
  BY DEF FileInv, OrderInv, FilesAgree
<1> QED
  BY <1>1, <1>2, <1>3, InputInit, InputStep, PTL DEF HostSpec

(***************************************************************************)
(* Verdicts of the program are right when the host runs it, too.           *)
(***************************************************************************)
THEOREM HostVerdictsAreRight == HostSpec => [](OnlyTheSignedIsValid /\ GenuineIsValid)
BY HostRunsTheProgram, OnlyTheSignedIsEverValid, GenuineIsAlwaysValid, PTL

------------------------------------------------------------------------------
(* A call is of one version when its record, its signature and the tag of  *)
(* its key are: of the keys the version has, only those with that tag.     *)
KeyOf(key, s, v) == key \in v.keys /\ Tag[key] = Tag[s.key]

GatherInv ==
  /\ cmd.step \in Asked \ {"txt"} => {"step", "from"} \subseteq DOMAIN cmd /\ cmd.from # {}
  /\ \A v \in Versions : cmd.step \in Asked \ {"txt"} /\ cmd.from = {v} =>
       /\ Covers(v.owner, cmd.args.domain.labels)
       /\ cmd.txt \in Range(v.rdata)
       /\ cmd.step # "rrsig" => cmd.rrsig \in v.rrsigs
       /\ cmd.step = "ready" => KeyOf(cmd.key, cmd.rrsig.of, v)

OneVersionInv ==
  run # NoRun =>
    /\ {"step", "from"} \subseteq DOMAIN cmd
    /\ \A v \in Versions : cmd.from = {v} =>
         /\ Covers(v.owner, run.name.labels)
         /\ \E data \in Range(v.rdata) : run.records = <<data>>
         /\ \E rrsig \in v.rrsigs : run.sig = ServedFields(rrsig) /\ run.of = rrsig.of
         /\ KeyOf(run.key, run.of, v)

VersionInv == GatherInv /\ OneVersionInv

LEMMA FromOne ==
  ASSUME NEW from, from # {}, NEW v, NEW w, from \cup {w} = {v}
  PROVE  from = {v} /\ w = v
<1>1. w \in from \cup {w} /\ \A x \in from : x \in from \cup {w}
  OBVIOUS
<1>2. w = v /\ \A x \in from : x = v
  BY <1>1
<1> QED
  BY <1>2

LEMMA VersionStep == InputInv /\ VersionInv /\ [HostNext]_hostVars => VersionInv'
<1> SUFFICES ASSUME InputInv, VersionInv, [HostNext]_hostVars
             PROVE  VersionInv'
  OBVIOUS
<1> USE DEF VersionInv
<1>1. ASSUME UNCHANGED <<run, cmd>>
      PROVE  VersionInv'
  BY <1>1 DEF GatherInv, OneVersionInv, KeyOf
<1>2. ASSUME UNCHANGED run, run # NoRun,
             NEW step, step \notin Asked, cmd' = [cmd EXCEPT !.step = step]
      PROVE  VersionInv'
  <2>1. {"step", "from"} \subseteq DOMAIN cmd
    BY <1>2 DEF OneVersionInv
  <2>2. {"step", "from"} \subseteq DOMAIN cmd' /\ cmd'.step = step /\ cmd'.from = cmd.from
    BY <1>2, <2>1
  <2>3. GatherInv'
    BY <1>2, <2>2 DEF GatherInv
  <2>4. OneVersionInv'
    BY <1>2, <2>2 DEF OneVersionInv, KeyOf
  <2> QED
    BY <2>3, <2>4
<1>3. ASSUME Quietly, Fail
      PROVE  VersionInv'
  <2>1. cmd'.step = "failed" \/ cmd' = cmd
    BY <1>3 DEF Fail
  <2>2. CASE cmd' = cmd
    BY <1>1, <1>3, <2>2 DEF Quietly
  <2>3. CASE cmd'.step = "failed" /\ run # NoRun
    BY <1>2, <1>3, <2>3 DEF Quietly, Fail, Asked
  <2>4. CASE cmd'.step = "failed" /\ run = NoRun
    BY <1>3, <2>4 DEF Quietly, GatherInv, OneVersionInv, Asked
  <2> QED
    BY <2>1, <2>2, <2>3, <2>4
<1>4. ASSUME NEW v \in Versions, Publish(v)
      PROVE  VersionInv'
  BY <1>1, <1>4 DEF Publish, Sign
<1>5. ASSUME NEW args \in Arguments, Start(args)
      PROVE  VersionInv'
  BY <1>5 DEF Start, GatherInv, OneVersionInv
<1>6. ASSUME NEW w \in published, NEW data \in Range(w.rdata), LookupTxt(w, data)
      PROVE  VersionInv'
  <2>1. /\ run' = NoRun
        /\ Covers(w.owner, cmd.args.domain.labels)
        /\ cmd' = [step |-> "rrsig", args |-> cmd.args, txt |-> data, from |-> {w}]
    BY <1>6 DEF LookupTxt, Quietly, InputInv, CmdInv, Asked
  <2>2. \A v \in Versions : cmd'.from = {v} => v = w
    BY <2>1
  <2> QED
    BY <2>1, <2>2 DEF GatherInv, OneVersionInv, Asked
<1>7. ASSUME NEW w \in published, LookupRrsig(w)
      PROVE  VersionInv'
  <2>1. CASE Fail
    BY <1>3, <1>7, <2>1 DEF LookupRrsig
  <2>2. ASSUME NEW rrsig \in w.rrsigs,
               cmd' = [step |-> "dnskey", args |-> cmd.args, txt |-> cmd.txt, rrsig |-> rrsig,
                       from |-> cmd.from \cup {w}]
        PROVE  VersionInv'
    <3>1. run' = NoRun /\ cmd.step = "rrsig" /\ cmd.from # {}
      BY <1>7 DEF LookupRrsig, Quietly, InputInv, CmdInv, GatherInv, Asked
    <3>2. ASSUME NEW v \in Versions, cmd'.from = {v}
          PROVE  cmd.from = {v} /\ w = v
      BY <2>2, <3>1, <3>2, FromOne
    <3> QED
      BY <2>2, <3>1, <3>2 DEF GatherInv, OneVersionInv, Asked
  <2> QED
    BY <1>7, <2>1, <2>2 DEF LookupRrsig, SignaturesBy
<1>8. ASSUME NEW w \in published, LookupDnskey(w)
      PROVE  VersionInv'
  <2>1. CASE Fail
    BY <1>3, <1>8, <2>1 DEF LookupDnskey
  <2>2. ASSUME NEW key \in w.keys, Tag[key] = Tag[cmd.rrsig.of.key],
               cmd' = [step |-> "ready", args |-> cmd.args, txt |-> cmd.txt,
                       rrsig |-> cmd.rrsig, key |-> key, from |-> cmd.from \cup {w}]
        PROVE  VersionInv'
    <3>1. run' = NoRun /\ cmd.step = "dnskey" /\ cmd.from # {}
      BY <1>8 DEF LookupDnskey, Quietly, InputInv, CmdInv, GatherInv, Asked
    <3>2. ASSUME NEW v \in Versions, cmd'.from = {v}
          PROVE  cmd.from = {v} /\ w = v
      BY <2>2, <3>1, <3>2, FromOne
    <3>3. ASSUME NEW v \in Versions, cmd'.from = {v}
          PROVE  /\ Covers(v.owner, cmd.args.domain.labels)
                 /\ cmd.txt \in Range(v.rdata)
                 /\ cmd.rrsig \in v.rrsigs
                 /\ KeyOf(key, cmd.rrsig.of, v)
      BY <2>2, <3>1, <3>2, <3>3 DEF GatherInv, KeyOf, Asked
    <3> QED
      BY <2>2, <3>1, <3>3 DEF GatherInv, OneVersionInv, KeyOf, Asked
  <2> QED
    BY <1>8, <2>1, <2>2 DEF LookupDnskey, KeysWithTag
<1>9. CASE Misused \/ Interrupted
  BY <1>3, <1>9 DEF Misused, Interrupted
<1>10. CASE RunProgram
  <2>1. run' = [key |-> cmd.key, name |-> cmd.args.domain, sig |-> ServedFields(cmd.rrsig),
                records |-> <<cmd.txt>>, of |-> cmd.rrsig.of,
                result |-> Result(cmd.key, cmd.args.domain, ServedFields(cmd.rrsig),
                                  <<cmd.txt>>, cmd.rrsig.of)]
    BY <1>10 DEF RunProgram, VerifyRrsig
  <2>2. cmd.step = "ready" /\ {"step", "from"} \subseteq DOMAIN cmd
    BY <1>10 DEF RunProgram, GatherInv, Asked
  <2>3. /\ {"step", "from"} \subseteq DOMAIN cmd' /\ cmd'.from = cmd.from
        /\ GatherInv'
    <3>1. PICK step \in {"failed", "done", "proved"} : cmd' = [cmd EXCEPT !.step = step]
      BY <1>10 DEF RunProgram
    <3>2. /\ {"step", "from"} \subseteq DOMAIN cmd'
          /\ cmd'.step = step /\ cmd'.from = cmd.from
      BY <2>2, <3>1
    <3> QED
      BY <3>2 DEF GatherInv, Asked
  <2>4. ASSUME NEW v \in Versions, cmd'.from = {v}
        PROVE  /\ Covers(v.owner, run'.name.labels)
               /\ \E data \in Range(v.rdata) : run'.records = <<data>>
               /\ \E rrsig \in v.rrsigs : run'.sig = ServedFields(rrsig) /\ run'.of = rrsig.of
               /\ KeyOf(run'.key, run'.of, v)
    <3>1. /\ Covers(v.owner, cmd.args.domain.labels)
          /\ cmd.txt \in Range(v.rdata)
          /\ cmd.rrsig \in v.rrsigs
          /\ KeyOf(cmd.key, cmd.rrsig.of, v)
      BY <2>2, <2>3, <2>4 DEF GatherInv, Asked
    <3> QED
      BY <2>1, <3>1
  <2> QED
    BY <2>3, <2>4 DEF OneVersionInv, KeyOf
<1>11. CASE WriteProof \/ WriteFixture
  <2>1. run # NoRun /\ UNCHANGED run
    BY <1>11 DEF WriteProof, WriteFixture, InputInv, CmdInv
  <2>2. PICK step \in {"saved", "done"} : cmd' = [cmd EXCEPT !.step = step]
    BY <1>11 DEF WriteProof, WriteFixture, AfterProof
  <2> QED
    BY <1>2, <2>1, <2>2 DEF Asked
<1>12. CASE UNCHANGED hostVars
  BY <1>1, <1>12 DEF hostVars
<1> QED
  BY <1>4, <1>5, <1>6, <1>7, <1>8, <1>9, <1>10, <1>11, <1>12 DEF HostNext

LEMMA OneVersionRunIsValid == InputInv /\ OneVersionInv => OneVersionIsProved
<1> SUFFICES ASSUME InputInv, OneVersionInv, NEW v \in published,
                    run # NoRun, cmd.from = {v}, Len(v.rdata) = 1,
                    run.of.key \in v.keys \cap Points,
                    \A k \in v.keys : Tag[k] = Tag[run.of.key] => k = run.of.key,
                    Canonical(run.sig.signer_name)
             PROVE  run.result = "valid"
  BY DEF OneVersionIsProved
<1>1. v \in Versions
  BY DEF InputInv, ZoneInv
<1>2. /\ Covers(v.owner, run.name.labels)
      /\ \E data \in Range(v.rdata) : run.records = <<data>>
      /\ \E rrsig \in v.rrsigs : run.sig = ServedFields(rrsig) /\ run.of = rrsig.of
      /\ KeyOf(run.key, run.of, v)
  BY <1>1 DEF OneVersionInv
<1>3. run.key = run.of.key
  BY <1>2 DEF KeyOf
<1>4. run.of.owner = v.owner /\ run.of.rdata = v.rdata
  BY <1>1, <1>2, VersionType
<1>5. run.records = run.of.rdata
  <2>1. v.rdata \in Seq(Rdata)
    BY <1>1, VersionType
  <2>2. v.rdata = <<v.rdata[1]>> /\ DOMAIN v.rdata = {1}
    BY <2>1
  <2>3. \A data \in Range(v.rdata) : data = v.rdata[1]
    BY <2>2 DEF Range
  <2> QED
    BY <1>2, <1>4, <2>2, <2>3
<1>6. CarriesFields(run.sig, run.of)
  <2>1. PICK rrsig \in v.rrsigs : run.sig = ServedFields(rrsig) /\ run.of = rrsig.of
    BY <1>2
  <2>2. Lowercase(rrsig.signer_name) = rrsig.of.signer
    BY <1>1, VersionType DEF Rrsig
  <2> QED
    BY <2>1, <2>2 DEF CarriesFields, ServedFields
<1>7. GenuineIsValid
  BY GenuineRunIsValid DEF InputInv, ProgramInv
<1> QED
  BY <1>2, <1>3, <1>4, <1>5, <1>6, <1>7 DEF GenuineIsValid, IsGenuine

(***************************************************************************)
(* While what the zone publishes does not change between the lookups, the  *)
(* host's program says "valid" of the signature that came first, given     *)
(* that it is of P-256 with its signer in lower case: the record found,    *)
(* the signature found at the other name and the key found by its tag      *)
(* belong together.                                                        *)
(***************************************************************************)
THEOREM OneVersionIsAlwaysProved == HostSpec => []OneVersionIsProved
<1>1. HostInit => VersionInv
  BY DEF HostInit, Init, NoCommand, VersionInv, GatherInv, OneVersionInv, Asked
<1>2. InputInv /\ VersionInv /\ [HostNext]_hostVars => VersionInv'
  BY VersionStep
<1>3. InputInv /\ VersionInv => OneVersionIsProved
  BY OneVersionRunIsValid DEF VersionInv
<1> QED
  BY <1>1, <1>2, <1>3, InputInit, InputStep, PTL DEF HostSpec
==============================================================================
