-------------------------- MODULE CredentialManager ---------------------------
(***************************************************************************)
(* The tab that revokes and renews credentials: simulate, have the wallet  *)
(* sign, send, ask for the outcome at most MaxPolls times, and load the    *)
(* list again.  Every card has its buttons whatever else is under way, and *)
(* one display, actionPending, serves them all.                            *)
(***************************************************************************)
EXTENDS CredentialList

CONSTANT MaxActions   \* bound on the calls of handleRevoke and handleRenew at a time

ASSUME ManagerAssumption == MaxActions \in Nat

VARIABLES
  actions,          \* the calls of handleRevoke and handleRenew that have not returned
  action_pending,   \* the nullifier beside which an action is shown, or None
  action_error      \* whether an action's failure is shown

managerVars == <<actions, action_pending, action_error>>

ManagerInit == actions = {} /\ action_pending = None /\ action_error = FALSE

FreeActionIds == (1 .. MaxActions) \ {a.id : a \in actions}
ContinueAction(a, next) == actions' = (actions \ {a}) \cup {next}

(* The state of a component that is gone is not written any more. *)
ReturnActionSilently(a) == actions' = actions \ {a} /\ UNCHANGED action_pending  \* no finally
ReturnAction(a) ==
  /\ actions' = actions \ {a}
  /\ action_pending' = IF a.mounted THEN None ELSE action_pending

------------------------------------------------------------------------------
(* handleRevoke and handleRenew, up to their first await. *)
StartAction(kind, n) ==
  /\ registry_set
  /\ FreeActionIds # {}
  /\ actions' = actions \cup
       {[id |-> CHOOSE i \in FreeActionIds : \A j \in FreeActionIds : i <= j,
         call |-> [kind |-> kind, nullifier |-> n, by |-> address, expiry |-> now + MaxLifetime],
         stage |-> "preparing", tx |-> 0, polls |-> 0, load |-> 0, mounted |-> TRUE]}
  /\ action_pending' = n
  /\ action_error' = FALSE

(* The card of a credential offers what its status allows. *)
HandleRevoke(c) == c.status = "Active" /\ StartAction("revoke", c.nullifier)
HandleRenew(c) == c.status \in {"Active", "Expired"} /\ StartAction("renew", c.nullifier)

(* The simulation succeeds; the wallet is asked to sign. *)
SimulateAction(a) ==
  /\ a.stage = "preparing"
  /\ Simulates(a.call)
  /\ ContinueAction(a, [a EXCEPT !.stage = "signing"])
  /\ UNCHANGED <<action_pending, action_error, transactions, listVars>>

SendAction(a) ==
  /\ a.stage = "signing"
  /\ MaySubmit
  /\ transactions' = Submitted(a.call)
  /\ IF a.mounted THEN ContinueAction(a, [a EXCEPT !.stage = "polling", !.tx = Len(transactions) + 1])
     ELSE actions' = actions \ {a}
  /\ UNCHANGED <<action_pending, action_error, listVars>>

PollActionAgain(a) ==
  /\ a.stage = "polling"
  /\ MayPollAgain(a.tx, a.polls)
  /\ ContinueAction(a, [a EXCEPT !.polls = @ + 1])
  /\ UNCHANGED <<action_pending, action_error, transactions, listVars>>

(* No answer after the last poll is taken for success. *)
ActionSettles(a) ==
  /\ a.stage = "polling"
  /\ TransactionStatus(a.tx) # "FAILED" /\ ~MayPollAgain(a.tx, a.polls)
  /\ StartLoad(a.call.by)
  /\ ContinueAction(a, [a EXCEPT !.stage = "reloading", !.load = NewLoad(a.call.by, loads).id])
  /\ UNCHANGED <<action_pending, action_error, transactions>>

(* An awaited call rejects, or the transaction failed.  That the user has  *)
(* declined to sign is not shown as an error.                              *)
ActionFails(a) ==
  /\ a.stage # "reloading"
  /\ \E declined \in IF a.stage = "signing" THEN BOOLEAN ELSE {FALSE} :
       action_error' = (action_error \/ (a.mounted /\ ~declined))
  /\ ReturnAction(a)
  /\ UNCHANGED <<transactions, listVars>>

(* The action that awaits a load returns with it. *)
ReloadReturns(l) ==
  LET waiting == {a \in actions : a.stage = "reloading" /\ a.load = l.id}
  IN  /\ actions' = actions \ waiting
      /\ action_pending' = IF waiting # {} THEN None ELSE action_pending
      /\ UNCHANGED action_error

(***************************************************************************)
(* The tab is left: a call that has not sent its transaction may still do  *)
(* so.  What it would find out or load afterwards is seen by nobody.       *)
(***************************************************************************)
IsUnsent(call) == call.stage \in {"preparing", "signing"}
UnmountManager ==
  /\ actions' = {[a EXCEPT !.mounted = FALSE] : a \in {b \in actions : IsUnsent(b)}}
  /\ action_pending' = None
  /\ action_error' = FALSE
==============================================================================
