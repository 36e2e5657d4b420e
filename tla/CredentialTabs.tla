---------------------------- MODULE CredentialTabs ----------------------------
(***************************************************************************)
(* The two tabs beside the proof tab: one page, of which one tab at a time *)
(* is mounted, a wallet that comes, goes and is exchanged for another, the *)
(* requests of both tabs and the ledger, in every order.                   *)
(***************************************************************************)
EXTENDS CredentialManager, GatedPanel

pageVars == <<registry_set, address, tab>>
vars == <<ledgerVars, transactions, pageVars, listVars, managerVars, gatedVars>>

Init == LedgerInit /\ ListInit /\ ManagerInit /\ GatedInit

------------------------------------------------------------------------------
(* What App renders: a tab of its own for a wallet, or a prompt to connect. *)
Mounted(a, t) == IF a = None THEN "none" ELSE t

Render(a, t) ==
  CASE Mounted(a, t) = Mounted(address, tab) /\ (a = address \/ Mounted(a, t) \notin {"credentials", "gated"}) ->
         UNCHANGED <<listVars, managerVars, gatedVars>>
    [] Mounted(a, t) = Mounted(address, tab) /\ a # address /\ Mounted(a, t) \in {"credentials", "gated"} ->
         /\ IF registry_set THEN StartLoad(a) ELSE UNCHANGED listVars
         /\ UNCHANGED <<managerVars, gatedVars>>
    [] Mounted(a, t) # Mounted(address, tab) ->
         /\ IF Mounted(a, t) \in {"credentials", "gated"} THEN MountList(a, t) ELSE UnmountList
         /\ UnmountManager
         /\ LeavePanel

(* The wallet hook sets another address, or none. *)
SetAddress ==
  /\ address' \in (Accounts \cup {None}) \ {address}
  /\ UNCHANGED <<registry_set, tab, ledgerVars, transactions>>
  /\ Render(address', tab)

SetActiveTab ==
  /\ address # None
  /\ tab' \in Tabs \ {tab}
  /\ UNCHANGED <<registry_set, address, ledgerVars, transactions>>
  /\ Render(address, tab')

------------------------------------------------------------------------------
(* A load's answer reaches the action that awaits the load, or the panel. *)
ListStep(l) ==
  /\ LoadAnswer(l)
  /\ IF \E k \in loads' : k.id = l.id THEN UNCHANGED managerVars ELSE ReloadReturns(l)
  /\ IF tab = "gated" THEN SyncSelected ELSE UNCHANGED gatedVars
  /\ UNCHANGED <<ledgerVars, transactions, pageVars>>

RefreshStep ==
  /\ Refresh
  /\ UNCHANGED <<ledgerVars, transactions, pageVars, managerVars, gatedVars>>

ManagerClick ==
  /\ tab = "credentials"
  /\ \E c \in credentials : HandleRevoke(c) \/ HandleRenew(c)
  /\ UNCHANGED <<ledgerVars, transactions, pageVars, listVars, gatedVars>>

ManagerStep(a) ==
  /\ \/ SimulateAction(a) \/ SendAction(a) \/ PollActionAgain(a)
     \/ ActionSettles(a) \/ ActionFails(a)
  /\ UNCHANGED <<ledgerVars, pageVars, gatedVars>>

PanelClick ==
  /\ \E c \in credentials : Select(c)
  /\ tab = "gated"
  /\ UNCHANGED <<ledgerVars, transactions, pageVars, listVars, managerVars>>

PanelExecute ==
  /\ HandleExecute
  /\ UNCHANGED <<ledgerVars, transactions, pageVars, listVars, managerVars>>

PanelStep(x) ==
  /\ \/ SimulateExecution(x) \/ SendExecution(x) \/ PollExecutionAgain(x)
     \/ Executed(x) \/ ExecutionFails(x)
  /\ UNCHANGED <<ledgerVars, pageVars, listVars, managerVars>>

LedgerStep ==
  /\ Elsewhere \/ Clock \/ \E t \in DOMAIN transactions : Include(t) \/ Fail(t)
  /\ UNCHANGED <<pageVars, listVars, managerVars, gatedVars>>

Next ==
  \/ SetAddress
  \/ SetActiveTab
  \/ \E l \in loads : ListStep(l)
  \/ RefreshStep
  \/ ManagerClick
  \/ \E a \in actions : ManagerStep(a)
  \/ PanelClick
  \/ PanelExecute
  \/ \E x \in executions : PanelStep(x)
  \/ LedgerStep

Spec == Init /\ [][Next]_vars
==============================================================================
