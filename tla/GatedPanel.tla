------------------------------ MODULE GatedPanel ------------------------------
(***************************************************************************)
(* The tab that executes the gated action with one of the active           *)
(* credentials.  The panel is there while the list has an active one, and  *)
(* shows the hash of its transaction from the moment it is sent.           *)
(***************************************************************************)
EXTENDS CredentialList

CONSTANT MaxExecutions   \* bound on the calls of handleExecute at a time

ASSUME PanelAssumption == MaxExecutions \in Nat

VARIABLES
  executions,   \* the calls of handleExecute that have not returned
  selected,     \* the credential selected, as it was found, or None
  tx_hash,      \* the transaction shown as a success, or None
  exec_error,   \* whether an error is shown
  running

panelVars == <<selected, tx_hash, exec_error, running>>
gatedVars == <<executions, panelVars>>

GatedInit ==
  /\ executions = {}
  /\ selected = None /\ tx_hash = None /\ exec_error = FALSE /\ running = FALSE

FreeExecutionIds == (1 .. MaxExecutions) \ {x.id : x \in executions}
ContinueExecution(x, next) == executions' = (executions \ {x}) \cup {next}

(* What the panel shows when handleExecute returns. *)
ReturnExecution(x, failed) ==
  /\ executions' = executions \ {x}
  /\ IF x.mounted
     THEN exec_error' = failed /\ running' = FALSE
     ELSE UNCHANGED <<exec_error, running>>
  /\ UNCHANGED <<selected, tx_hash>>

(***************************************************************************)
(* The panel after the list has changed: it goes, comes with the first     *)
(* active credential, or keeps its selection while that is still active.   *)
(***************************************************************************)
KeepsSelection(list) == \E c \in ActiveOf(list) : c.nullifier = selected.nullifier

(* As with the other tab, only what is not sent yet can still matter. *)
LeavePanel ==
  /\ selected' = None /\ tx_hash' = None /\ exec_error' = FALSE /\ running' = FALSE
  /\ executions' = {[x EXCEPT !.mounted = FALSE] :
                      x \in {y \in executions : y.stage \in {"preparing", "signing"}}}

SyncSelected ==
  LET offered == ActiveOf(credentials')
  IN  CASE offered = {} -> LeavePanel
        [] offered # {} /\ selected # None /\ KeepsSelection(credentials') -> UNCHANGED gatedVars
        [] OTHER -> selected' \in offered /\ UNCHANGED <<executions, tx_hash, exec_error, running>>

------------------------------------------------------------------------------
Select(c) ==
  /\ c \in ActiveOf(credentials)
  /\ selected' = c
  /\ UNCHANGED <<executions, tx_hash, exec_error, running>>

(* handleExecute, up to its first await. *)
HandleExecute ==
  /\ selected # None /\ ~running
  /\ FreeExecutionIds # {}
  /\ executions' = executions \cup
       {[id |-> CHOOSE i \in FreeExecutionIds : \A j \in FreeExecutionIds : i <= j,
         call |-> [kind |-> "execute", nullifier |-> selected.nullifier, by |-> address, expiry |-> 0],
         stage |-> "preparing", tx |-> 0, polls |-> 0, mounted |-> TRUE]}
  /\ running' = TRUE
  /\ exec_error' = FALSE
  /\ tx_hash' = None
  /\ UNCHANGED selected

SimulateExecution(x) ==
  /\ x.stage = "preparing"
  /\ Simulates(x.call)
  /\ ContinueExecution(x, [x EXCEPT !.stage = "signing"])
  /\ UNCHANGED <<panelVars, transactions>>

SendExecution(x) ==
  /\ x.stage = "signing"
  /\ MaySubmit
  /\ transactions' = Submitted(x.call)
  /\ IF x.mounted
     THEN /\ ContinueExecution(x, [x EXCEPT !.stage = "polling", !.tx = Len(transactions) + 1])
          /\ tx_hash' = Len(transactions) + 1
     ELSE executions' = executions \ {x} /\ UNCHANGED tx_hash
  /\ UNCHANGED <<selected, exec_error, running>>

PollExecutionAgain(x) ==
  /\ x.stage = "polling"
  /\ MayPollAgain(x.tx, x.polls)
  /\ ContinueExecution(x, [x EXCEPT !.polls = @ + 1])
  /\ UNCHANGED <<panelVars, transactions>>

Executed(x) ==
  /\ x.stage = "polling"
  /\ TransactionStatus(x.tx) = "SUCCESS"
  /\ ReturnExecution(x, FALSE)
  /\ UNCHANGED transactions

(* An awaited call rejects, the transaction failed, or the polls are over. *)
ExecutionFails(x) ==
  /\ ReturnExecution(x, TRUE)
  /\ UNCHANGED transactions
==============================================================================
