----------------------------- MODULE Submission ------------------------------
(***************************************************************************)
(* The panel that submits a proof to the registry: simulate, have the      *)
(* wallet sign, send, and ask the network for the outcome until it knows   *)
(* one or MaxPolls answers were "not found".  The network includes or      *)
(* drops a transaction whether or not anyone still asks for it.            *)
(***************************************************************************)
EXTENDS ProofFlow

CONSTANTS
  MaxPolls,          \* how often the panel asks again
  MaxTransactions    \* bound on the transactions sent

ASSUME SubmissionAssumption == MaxPolls \in Nat /\ MaxTransactions \in Nat

VARIABLES
  credential,    \* the credential the panel shows, or None
  submissions,   \* the calls of handleSubmit that have not returned
  transactions   \* what was sent to the network, with its result

panelVars == <<credential, submissions, transactions>>

Results == {"pending", "success", "failed", "dropped"}

(* The registry stores one credential per domain and secret. *)
Nullifier(p) == <<p.domain, p.key>>
IsIssued(n) ==
  \E t \in DOMAIN transactions :
    transactions[t].result = "success" /\ Nullifier(transactions[t].proof) = n

(* What getTransaction answers. *)
TransactionStatus(t) ==
  CASE transactions[t].result = "success" -> "SUCCESS"
    [] transactions[t].result = "failed" -> "FAILED"
    [] OTHER -> "NOT_FOUND"

NotFailed(s) == TransactionStatus(s.tx) # "FAILED"  \* also takes no answer for success
Succeeded(s) == TransactionStatus(s.tx) = "SUCCESS"

OncePollTooMany(s) == s.polls <= MaxPolls
MayPollAgain(s) == s.polls < MaxPolls

ReportToAnyPage(s, st) ==  \* to the page there is, whoever asked
  /\ SetStatus(st, challenge)
  /\ UNCHANGED <<proof, private, calls, late_saves, asked>>

(***************************************************************************)
(* setSubmitStatus of a panel that is still mounted; otherwise the state   *)
(* it had when it left may be saved.  An error is set without saving.      *)
(***************************************************************************)
Report(s, st) ==
  /\ IF s.mounted THEN SetStatus(st, challenge)
     ELSE /\ UNCHANGED <<status, challenge>>
          /\ \/ UNCHANGED session
             \/ session' = [status |-> st, challenge |-> s.left]
  /\ UNCHANGED <<proof, private, calls, late_saves, asked>>

ReportError(s) ==
  /\ IF s.mounted THEN SetError("submit_error") ELSE UNCHANGED <<status, challenge, session>>
  /\ UNCHANGED <<proof, private, calls, late_saves, asked>>

Return(s) == submissions' = submissions \ {s}
Proceed(s, next) == submissions' = (submissions \ {s}) \cup {next}

SubmissionInit ==
  /\ credential = None
  /\ submissions = {}
  /\ transactions = <<>>

------------------------------------------------------------------------------
(* The button is shown for a ready proof beside no credential. *)
CanSubmit == status = "proof_ready" /\ credential = None

Submit ==
  /\ CanSubmit
  /\ FreeIds(submissions) # {}
  /\ submissions' = submissions \cup
       {[id |-> NewId(submissions), proof |-> proof, owner |-> address, stage |-> "preparing",
         tx |-> 0, polls |-> 0, mounted |-> TRUE, left |-> None]}
  /\ SetStatus("submitting", challenge)
  /\ UNCHANGED <<proof, private, calls, late_saves, asked, credential, transactions>>

(* The simulation finds a fresh nullifier; the wallet is asked to sign. *)
Simulate(s) ==
  /\ s.stage = "preparing"
  /\ ~IsIssued(Nullifier(s.proof))
  /\ Proceed(s, [s EXCEPT !.stage = "signing"])
  /\ UNCHANGED <<flowVars, credential, transactions>>

Send(s) ==
  /\ s.stage = "signing"
  /\ Len(transactions) < MaxTransactions
  /\ transactions' = Append(transactions,
                            [proof |-> s.proof, owner |-> s.owner, result |-> "pending"])
  /\ Proceed(s, [s EXCEPT !.stage = "polling", !.tx = Len(transactions) + 1])
  /\ UNCHANGED <<flowVars, credential>>

(* Not found yet: wait and ask again. *)
PollAgain(s) ==
  /\ s.stage = "polling"
  /\ TransactionStatus(s.tx) = "NOT_FOUND"
  /\ MayPollAgain(s)
  /\ Proceed(s, [s EXCEPT !.polls = @ + 1])
  /\ UNCHANGED <<flowVars, credential, transactions>>

(* A panel that is gone shows no credential. *)
Issued(s) ==
  /\ s.stage = "polling"
  /\ Succeeded(s)
  /\ credential' = IF s.mounted THEN [nullifier |-> Nullifier(s.proof), owner |-> s.owner]
                   ELSE credential
  /\ Report(s, "credential_issued")
  /\ Return(s)
  /\ UNCHANGED transactions

(* The transaction failed, or is still unknown after the last poll. *)
NotIssued(s) ==
  /\ s.stage = "polling"
  /\ \/ TransactionStatus(s.tx) = "FAILED"
     \/ TransactionStatus(s.tx) = "NOT_FOUND" /\ ~MayPollAgain(s)
  /\ ReportError(s)
  /\ Return(s)
  /\ UNCHANGED <<credential, transactions>>

(* Any of the awaited calls rejects: the account or the simulation, the    *)
(* signature, the sending, or a poll.                                      *)
SubmissionFails(s) ==
  /\ ReportError(s)
  /\ Return(s)
  /\ UNCHANGED <<credential, transactions>>

(* The panel goes with the workspace; what it awaits does not. *)
LeavePanel ==
  /\ credential' = None
  /\ submissions' = {IF s.mounted THEN [s EXCEPT !.mounted = FALSE, !.left = challenge] ELSE s
                       : s \in submissions}
  /\ UNCHANGED transactions

------------------------------------------------------------------------------
(* The network: a used nullifier fails, and so may anything else.          *)
Include(t) ==
  /\ transactions[t].result = "pending"
  /\ \E result \in {"success", "failed"} :
       /\ result = "success" => ~IsIssued(Nullifier(transactions[t].proof))
       /\ transactions' = [transactions EXCEPT ![t].result = result]
  /\ UNCHANGED <<credential, submissions>>

Drop(t) ==
  /\ transactions[t].result = "pending"
  /\ transactions' = [transactions EXCEPT ![t].result = "dropped"]
  /\ UNCHANGED <<credential, submissions>>
==============================================================================
