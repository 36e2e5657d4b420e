------------------------- MODULE WorkspaceProperties -------------------------
(***************************************************************************)
(* What makes the proof tab correct, and a statement of its comments that  *)
(* the code does not keep.                                                 *)
(***************************************************************************)
EXTENDS Workspace

(* Every variable has the type of the state, ref, entry or call it is. *)
WalletFlags == modal \in BOOLEAN /\ connect_error \in BOOLEAN
WalletCalls ==
  /\ address \in Wallets \cup {None}
  /\ requests \in [Wallets -> 0 .. MaxRequests]
WalletTypeOK == WalletFlags /\ WalletCalls

CallContents ==
  [kind : {"challenge"}, challenge : Challenge]
    \cup [kind : {"dnssec"}, domain : Domains]
    \cup [kind : {"prove"}, proof : Proof]

FlowTypeOK ==
  /\ status \in Statuses
  /\ challenge \in Challenge \cup {None}
  /\ proof \in Proof \cup {None}
  /\ private \in [key : Keys \cup {ZeroKey}, wallet : Wallets \cup {None},
                  material : Domains \cup {None}]
  /\ session \in Saved \cup {None}
  /\ calls \subseteq [id : 1 .. MaxCalls, of : CallContents]
  /\ late_saves \subseteq Saved
  /\ asked \in Seq(Challenge)
  /\ tab \in {"proof", "other"}

Sent == [proof : Proof, owner : Wallets, result : Results]

Submissions ==
  [id : 1 .. MaxCalls, proof : Proof, owner : Wallets,
   stage : {"preparing", "signing", "polling"}, tx : 0 .. MaxTransactions,
   polls : 0 .. MaxPolls, mounted : BOOLEAN, left : Challenge \cup {None}]

PanelTypeOK ==
  /\ credential \in [nullifier : Domains \X Keys, owner : Wallets] \cup {None}
  /\ submissions \subseteq Submissions
  /\ transactions \in Seq(Sent)

TypeOK == WalletTypeOK /\ FlowTypeOK /\ PanelTypeOK

(***************************************************************************)
(* The page never waits for nothing: while it says that it is checking,    *)
(* proving or submitting, a call of this workspace is in flight whose      *)
(* answer ends that.  Reloads, late answers and resets included.           *)
(***************************************************************************)
BusyIsBacked ==
  /\ status = "dnssec_checking" => \E c \in calls : c.of.kind = "dnssec"
  /\ status = "proving" => \E c \in calls : c.of.kind = "prove"
  /\ status = "submitting" => \E s \in submissions : s.mounted

(***************************************************************************)
(* No proof is made from lost or zeroed keys: the page's proof, and every  *)
(* proof sent to the network, uses the random key of a challenge the user  *)
(* generated, for the wallet that challenge was generated for.             *)
(***************************************************************************)
MadeFromAKey(p) == p.key \in DOMAIN asked /\ p.wallet = asked[p.key].wallet

ProofsHaveTheirKeys ==
  /\ proof # None => MadeFromAKey(proof)
  /\ \A t \in DOMAIN transactions : MadeFromAKey(transactions[t].proof)

(***************************************************************************)
(* A proof offered for submission exists, and a credential shown is on the *)
(* ledger under its nullifier and for its owner, although polls give up,   *)
(* transactions are dropped or fail and panels come and go.                *)
(***************************************************************************)
ShownIsReal ==
  /\ status = "proof_ready" => proof # None
  /\ credential # None =>
       \E t \in DOMAIN transactions :
         /\ transactions[t].result = "success"
         /\ Nullifier(transactions[t].proof) = credential.nullifier
         /\ transactions[t].owner = credential.owner

(***************************************************************************)
(* A DNSSEC check and a proof come to an end, and so does a submission     *)
(* once it is sent, whatever the network does with the transaction.        *)
(***************************************************************************)
WaitsForTheNetwork ==
  /\ status = "submitting"
  /\ \A s \in submissions : s.mounted => s.stage = "polling"

BusyEnds ==
  /\ status = "dnssec_checking" ~> status # "dnssec_checking"
  /\ status = "proving" ~> status # "proving"
  /\ WaitsForTheNetwork ~> ~WaitsForTheNetwork

(***************************************************************************)
(* The page implements the issuance it promises: whatever is reset,        *)
(* reloaded, lost or answered late, "issued" is announced only with a      *)
(* credential that is on the ledger, and a nullifier has one at most.      *)
(***************************************************************************)
OnTheLedger ==
  {[nullifier |-> Nullifier(transactions[t].proof), owner |-> transactions[t].owner] :
     t \in {u \in DOMAIN transactions : transactions[u].result = "success"}}

Issuance == INSTANCE CredentialIssuance WITH
  Credentials <- [nullifier : Domains \X Keys, owner : Wallets],
  Nobody <- None,
  issued <- OnTheLedger,
  shown <- credential,
  announced <- status = "credential_issued"
ImplementsIssuance == Issuance!Spec

(***************************************************************************)
(* DNSChallengeGuide.tsx has a form while idle and a button to start over  *)
(* beside a challenge, and neither in any other state.  Only an answer to  *)
(* what was asked before a reset leads there: never anything the user does *)
(* and never a mounting, so that leaving the tab always helps.             *)
(***************************************************************************)
Stranded == IsMounted /\ status # "idle" /\ challenge = None

LateAnswer ==
  \/ \E c \in calls \ calls' : c.of.kind \in {"dnssec", "prove"}
  \/ \E s \in submissions : s.mounted /\ \A r \in submissions' : r.id # s.id

OnlyLateAnswersStrand == [][~Stranded /\ Stranded' => LateAnswer]_vars

------------------------------------------------------------------------------
(* useCloakworkProof.ts says of checkDNSSEC: "Fetch DNSSEC material for    *)
(* the stored domain"; after a reset and a new challenge the material      *)
(* found for the old domain is taken for the new one's.                    *)
DocMaterialIsOfDomain ==
  status = "dnssec_found" /\ challenge # None => private.material = challenge.domain
==============================================================================
