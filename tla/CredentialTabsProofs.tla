------------------------- MODULE CredentialTabsProofs -------------------------
(***************************************************************************)
(* Proofs that the tabs show only credentials the ledger has, and no wait  *)
(* that nothing ends, for any wallets, credentials, loads and calls.  A    *)
(* load in flight holds what it has been told and what it is going to ask  *)
(* for; both stay true while they wait because the ledger never takes a    *)
(* credential back.                                                        *)
(***************************************************************************)
EXTENDS CredentialTabsProperties, FiniteSetTheorems, TLAPS

LedgerType ==
  /\ phase \in [Nullifiers -> {"none", "active", "revoked"}]
  /\ holder \in [Nullifiers -> Accounts \cup {None}]

OnLedger(c) ==
  /\ c.nullifier \in Nullifiers
  /\ phase[c.nullifier] # "none" /\ holder[c.nullifier] = c.owner
  /\ c.status = "Revoked" => phase[c.nullifier] = "revoked"

LoadOnLedger(l) ==
  /\ \A c \in l.found : OnLedger(c)
  /\ \A n \in l.left : n \in Nullifiers /\ phase[n] # "none" /\ holder[n] = l.owner

ListInv ==
  /\ LedgerType
  /\ \A c \in credentials : OnLedger(c)
  /\ \A l \in loads : LoadOnLedger(l)

(* What has been issued stays issued to its holder, and revoked if it is. *)
LedgerKeeps ==
  \A n \in Nullifiers :
    /\ phase[n] # "none" => phase'[n] # "none" /\ holder'[n] = holder[n]
    /\ phase[n] = "revoked" => phase'[n] = "revoked"

LEMMA IssueKeeps ==
  ASSUME LedgerType, NEW n \in Nullifiers, Ledger!Issue(n)
  PROVE  LedgerType' /\ LedgerKeeps
BY DEF LedgerType, LedgerKeeps, Ledger!Issue

LEMMA RevokeKeeps ==
  ASSUME LedgerType, NEW n, Ledger!Revoke(n)
  PROVE  LedgerType' /\ LedgerKeeps
BY DEF LedgerType, LedgerKeeps, Ledger!Revoke

LEMMA LedgerStepKeeps ==
  ASSUME LedgerType, LedgerStep
  PROVE  LedgerType' /\ LedgerKeeps
<1>1. CASE Elsewhere
  BY <1>1, IssueKeeps, RevokeKeeps DEF Elsewhere
<1>2. CASE Clock
  BY <1>2 DEF Clock, Ledger!Tick, LedgerType, LedgerKeeps
<1>3. ASSUME NEW t \in DOMAIN transactions, Include(t)
      PROVE  LedgerType' /\ LedgerKeeps
  <2> DEFINE call == transactions[t].call
  <2>1. CASE call.kind = "revoke" /\ Ledger!Revoke(call.nullifier)
    BY <2>1, RevokeKeeps
  <2>2. CASE Ledger!Renew(call.nullifier)
    BY <2>2 DEF Ledger!Renew, LedgerType, LedgerKeeps
  <2>3. CASE Ledger!Use(call.nullifier)
    BY <2>3 DEF Ledger!Use, LedgerType, LedgerKeeps
  <2> QED
    BY <1>3, <2>1, <2>2, <2>3 DEF Include, Perform
<1>4. ASSUME NEW t \in DOMAIN transactions, Fail(t)
      PROVE  LedgerType' /\ LedgerKeeps
  BY <1>4 DEF Fail, ledgerVars, LedgerType, LedgerKeeps
<1> QED
  BY <1>1, <1>2, <1>3, <1>4 DEF LedgerStep

------------------------------------------------------------------------------
(* A list that grows only by new loads keeps the invariant. *)
LEMMA NewLoadKeeps ==
  ASSUME ListInv, UNCHANGED ledgerVars,
         \A c \in credentials' : c \in credentials,
         \A l \in loads' : l \in loads \/ (l.found = {} /\ l.left = {})
  PROVE  ListInv'
BY DEF ListInv, LedgerType, LoadOnLedger, OnLedger, ledgerVars

LEMMA StartLoadKeeps ==
  ASSUME ListInv, UNCHANGED ledgerVars, NEW owner, StartLoad(owner)
  PROVE  ListInv'
BY NewLoadKeeps DEF StartLoad, NewLoad

LEMMA RenderKeeps ==
  ASSUME ListInv, UNCHANGED ledgerVars, NEW a, NEW t, Render(a, t)
  PROVE  ListInv'
<1>1. CASE UNCHANGED listVars
  BY <1>1, NewLoadKeeps DEF listVars
<1>2. CASE StartLoad(a)
  BY <1>2, StartLoadKeeps
<1>3. CASE MountList(a, t)
  BY <1>3, NewLoadKeeps DEF MountList, NewLoad
<1>4. CASE UnmountList
  BY <1>4, NewLoadKeeps DEF UnmountList
<1> QED
  BY <1>1, <1>2, <1>3, <1>4 DEF Render

(* What an answer adds is on the ledger when it arrives. *)
LEMMA AnswerKeeps ==
  ASSUME ListInv, UNCHANGED ledgerVars, NEW l \in loads, LoadAnswer(l)
  PROVE  ListInv'
<1>1. LoadOnLedger(l)
  BY DEF ListInv
<1> USE DEF ListInv
<1>0. /\ LedgerType'
      /\ \A c : OnLedger(c) => OnLedger(c)'
      /\ \A k : LoadOnLedger(k) => LoadOnLedger(k)'
  BY DEF LedgerType, LoadOnLedger, OnLedger, ledgerVars
<1>2. ASSUME NEW list, NEW failed, EndLoad(l, list, failed), \A c \in list : OnLedger(c)
      PROVE  ListInv'
  BY <1>0, <1>2 DEF EndLoad
<1>3. ASSUME NEW next, Advance(l, next), LoadOnLedger(next)
      PROVE  ListInv'
  BY <1>0, <1>3 DEF Advance
<1>4. CASE ListArrives(l)
  <2> DEFINE nullifiers == {n \in Nullifiers : phase[n] # "none" /\ holder[n] = l.owner}
             next == [l EXCEPT !.stage = "records", !.left = nullifiers]
  <2>1. CASE EndLoad(l, {}, FALSE)
    BY <1>0, <2>1 DEF EndLoad
  <2>2. CASE Advance(l, next)
    <3>1. next.left = nullifiers /\ next.found = l.found /\ next.owner = l.owner
      OBVIOUS
    <3>2. LoadOnLedger(next)
      BY <1>1, <3>1 DEF LoadOnLedger
    <3> QED
      BY <1>3, <2>2, <3>2
  <2> QED
    BY <1>4, <2>1, <2>2 DEF ListArrives
<1>5. CASE RecordArrives(l)
  <2>1. PICK n \in l.left : \E found \in {l.found, l.found \cup {FoundFor(l.owner, n)}} :
          IF l.left = {n} THEN EndLoad(l, found, FALSE)
          ELSE Advance(l, [l EXCEPT !.left = @ \ {n}, !.found = found])
    BY <1>5 DEF RecordArrives
  <2>2. PICK found \in {l.found, l.found \cup {FoundFor(l.owner, n)}} :
          IF l.left = {n} THEN EndLoad(l, found, FALSE)
          ELSE Advance(l, [l EXCEPT !.left = @ \ {n}, !.found = found])
    BY <2>1
  <2>3. OnLedger(FoundFor(l.owner, n))
    BY <1>1 DEF LoadOnLedger, OnLedger, FoundFor, StatusShown
  <2>4. \A c \in found : OnLedger(c)
    BY <1>1, <2>3 DEF LoadOnLedger
  <2> DEFINE next == [l EXCEPT !.left = @ \ {n}, !.found = found]
  <2>5. CASE Advance(l, next)
    <3>1. next.left \subseteq l.left /\ next.found = found /\ next.owner = l.owner
      OBVIOUS
    <3>2. LoadOnLedger(next)
      BY <1>1, <2>4, <3>1 DEF LoadOnLedger
    <3> QED
      BY <1>3, <2>5, <3>2
  <2> QED
    BY <1>2, <2>2, <2>4, <2>5
<1>6. CASE ListRefused(l) \/ LoadFails(l)
  <2>1. loads' = loads \ {l} /\ credentials' \in {credentials, {}}
    BY <1>6 DEF ListRefused, LoadFails, EndLoad
  <2> QED
    BY <1>0, <2>1
<1> QED
  BY <1>4, <1>5, <1>6 DEF LoadAnswer

LEMMA ListStepsKeep == ListInv /\ [Next]_vars => ListInv'
<1> SUFFICES ASSUME ListInv, [Next]_vars
             PROVE  ListInv'
  OBVIOUS
<1>1. ASSUME UNCHANGED <<ledgerVars, listVars>>
      PROVE  ListInv'
  BY <1>1, NewLoadKeeps DEF listVars
<1>2. CASE SetAddress
  BY <1>2, RenderKeeps DEF SetAddress
<1>3. CASE SetActiveTab
  BY <1>3, RenderKeeps DEF SetActiveTab
<1>4. ASSUME NEW l \in loads, ListStep(l)
      PROVE  ListInv'
  BY <1>4, AnswerKeeps DEF ListStep
<1>5. CASE RefreshStep
  BY <1>5, StartLoadKeeps DEF RefreshStep, Refresh
<1>6. CASE ManagerClick
  BY <1>1, <1>6 DEF ManagerClick
<1>7. ASSUME NEW a \in actions, ManagerStep(a)
      PROVE  ListInv'
  <2>1. CASE ActionSettles(a)
    BY <1>7, <2>1, StartLoadKeeps DEF ManagerStep, ActionSettles
  <2> QED
    BY <1>1, <1>7, <2>1
    DEF ManagerStep, SimulateAction, SendAction, PollActionAgain, ActionFails
<1>8. CASE PanelClick \/ PanelExecute
  BY <1>1, <1>8 DEF PanelClick, PanelExecute
<1>9. ASSUME NEW x \in executions, PanelStep(x)
      PROVE  ListInv'
  BY <1>1, <1>9 DEF PanelStep
<1>10. CASE LedgerStep
  <2>1. LedgerType' /\ LedgerKeeps /\ UNCHANGED listVars
    BY <1>10, LedgerStepKeeps DEF ListInv, LedgerStep
  <2> QED
    BY <2>1 DEF LedgerKeeps, ListInv, LoadOnLedger, OnLedger, listVars
<1>11. CASE UNCHANGED vars
  BY <1>1, <1>11 DEF vars
<1> QED
  BY <1>2, <1>3, <1>4, <1>5, <1>6, <1>7, <1>8, <1>9, <1>10, <1>11 DEF Next

(***************************************************************************)
(* No load that is overtaken, awaited by an action or left over from       *)
(* another wallet makes the tabs show what the ledger does not have.       *)
(***************************************************************************)
THEOREM ShownIsAlwaysOnLedger == Spec => []ShownIsOnLedger
<1>1. Init => ListInv
  BY DEF Init, LedgerInit, Ledger!Init, ListInit, ListInv, LedgerType
<1>2. ListInv => ShownIsOnLedger
  BY DEF ListInv, OnLedger, ShownIsOnLedger
<1> QED
  BY <1>1, <1>2, ListStepsKeep, PTL DEF Spec

------------------------------------------------------------------------------
(***************************************************************************)
(* Waits.  Calls are records of which only the fields named here matter;   *)
(* those that wait for a load are found by it, and the rest return by      *)
(* themselves.                                                             *)
(***************************************************************************)
LoadingBacked == loading => IF registry_set THEN loads # {} ELSE tab = "credentials"

ActionBacked ==
  /\ \A a \in actions : {"call", "mounted"} \subseteq DOMAIN a
  /\ action_pending # None =>
       \E a \in actions : a.mounted /\ a.call.nullifier = action_pending

Watched == {x \in executions : x.mounted}
RunningBacked ==
  /\ \A x \in executions : "mounted" \in DOMAIN x
  /\ \/ running = TRUE /\ \E x : Watched = {x}
     \/ running = FALSE /\ Watched = {}

LEMMA LoadingStep == LoadingBacked /\ [Next]_vars => LoadingBacked'
<1> SUFFICES ASSUME LoadingBacked, [Next]_vars
             PROVE  LoadingBacked'
  OBVIOUS
<1>1. UNCHANGED <<registry_set, tab, listVars>> => LoadingBacked'
  BY DEF listVars, LoadingBacked
<1>2. \A owner : UNCHANGED registry_set /\ StartLoad(owner) => LoadingBacked'
  BY DEF StartLoad, LoadingBacked
<1>3. ASSUME NEW a, UNCHANGED registry_set, MountList(a, tab')
      PROVE  LoadingBacked'
  <2>1. CASE registry_set
    <3>1. loads' = {NewLoad(a, {})}
      BY <1>3, <2>1 DEF MountList
    <3> QED
      BY <1>3, <2>1, <3>1 DEF LoadingBacked
  <2>2. CASE ~registry_set
    <3>1. loading' = (tab' = "credentials")
      BY <1>3, <2>2 DEF MountList
    <3> QED
      BY <1>3, <2>2, <3>1 DEF LoadingBacked
  <2> QED
    BY <2>1, <2>2
<1>4. UnmountList => LoadingBacked'
  BY DEF UnmountList, LoadingBacked
<1>5. CASE SetAddress
  BY <1>1, <1>2, <1>3, <1>4, <1>5 DEF SetAddress, Render
<1>6. CASE SetActiveTab
  <2>1. Mounted(address, tab') # Mounted(address, tab)
    BY <1>6 DEF SetActiveTab, Mounted
  <2>2. UnmountList \/ \E a : MountList(a, tab')
    BY <1>6, <2>1 DEF SetActiveTab, Render
  <2> QED
    BY <1>3, <1>4, <1>6, <2>2 DEF SetActiveTab
<1>7. ASSUME NEW l \in loads, ListStep(l)
      PROVE  LoadingBacked'
  <2>0. LoadAnswer(l) /\ UNCHANGED <<registry_set, tab>>
    BY <1>7 DEF ListStep, pageVars
  <2>1. \A list, failed : EndLoad(l, list, failed) => LoadingBacked'
    BY DEF EndLoad, LoadingBacked
  <2>2. \A next : Advance(l, next) => LoadingBacked'
    BY <2>0 DEF Advance, LoadingBacked
  <2>3. RecordArrives(l) => LoadingBacked'
    BY <2>1, <2>2 DEF RecordArrives
  <2> QED
    BY <2>0, <2>1, <2>2, <2>3 DEF LoadAnswer, ListArrives, ListRefused, LoadFails
<1>8. ASSUME NEW a \in actions, ManagerStep(a)
      PROVE  LoadingBacked'
  <2>1. UNCHANGED <<registry_set, tab>>
    BY <1>8 DEF ManagerStep, pageVars
  <2>2. (\E owner : StartLoad(owner)) => LoadingBacked'
    BY <2>1 DEF StartLoad, NewLoad, LoadingBacked
  <2> QED
    BY <1>1, <1>8, <2>1, <2>2
    DEF ManagerStep, SimulateAction, SendAction, PollActionAgain, ActionSettles, ActionFails
<1>9. CASE RefreshStep
  BY <1>2, <1>9 DEF RefreshStep, Refresh, pageVars
<1> QED
  BY <1>1, <1>5, <1>6, <1>7, <1>8, <1>9
     DEF Next, vars, pageVars, ManagerClick, PanelClick, PanelExecute, PanelStep, LedgerStep

LEMMA ActionStep == ActionBacked /\ [Next]_vars => ActionBacked'
<1> SUFFICES ASSUME ActionBacked, [Next]_vars
             PROVE  ActionBacked'
  OBVIOUS
<1>1. UNCHANGED <<actions, action_pending>> => ActionBacked'
  BY DEF ActionBacked
<1>2. \A a, t : Render(a, t) => ActionBacked'
  <2>1. UnmountManager => ActionBacked'
    BY DEF UnmountManager, ActionBacked
  <2> QED
    BY <1>1, <2>1 DEF Render, managerVars
<1>3. ASSUME NEW l, ReloadReturns(l)
      PROVE  ActionBacked'
  <2> DEFINE waiting == {a \in actions : a.stage = "reloading" /\ a.load = l.id}
  <2>1. /\ actions' = actions \ waiting
        /\ action_pending' = IF waiting # {} THEN None ELSE action_pending
    BY <1>3 DEF ReloadReturns
  <2> HIDE DEF waiting
  <2> QED
    BY <2>1 DEF ActionBacked
<1>4. ASSUME NEW kind, NEW n, StartAction(kind, n)
      PROVE  ActionBacked'
  <2> DEFINE number == CHOOSE i \in FreeActionIds : \A j \in FreeActionIds : i <= j
             a == [id |-> number,
                   call |-> [kind |-> kind, nullifier |-> n, by |-> address,
                             expiry |-> now + MaxLifetime],
                   stage |-> "preparing", tx |-> 0, polls |-> 0, load |-> 0, mounted |-> TRUE]
  <2>1. actions' = actions \cup {a}
    BY <1>4 DEF StartAction
  <2> HIDE DEF number
  <2>2. {"call", "mounted"} \subseteq DOMAIN a /\ a.mounted = TRUE /\ a.call.nullifier = n
    OBVIOUS
  <2> HIDE DEF a
  <2> QED
    BY <1>4, <2>1, <2>2 DEF StartAction, ActionBacked
<1>5. ASSUME NEW a \in actions, ManagerStep(a)
      PROVE  ActionBacked'
  <2>0. {"call", "mounted"} \subseteq DOMAIN a
    BY DEF ActionBacked
  <2>1. ASSUME NEW next, ContinueAction(a, next), UNCHANGED action_pending,
               {"call", "mounted"} \subseteq DOMAIN next,
               next.call = a.call, next.mounted = a.mounted
        PROVE  ActionBacked'
    BY <2>1 DEF ContinueAction, ActionBacked
  <2>2. ASSUME actions' = actions \ {a}, UNCHANGED action_pending, ~a.mounted
        PROVE  ActionBacked'
    BY <2>2 DEF ActionBacked
  <2>3. CASE SimulateAction(a)
    BY <2>0, <2>1, <2>3 DEF SimulateAction
  <2>4. CASE SendAction(a)
    BY <2>0, <2>1, <2>2, <2>4 DEF SendAction
  <2>5. CASE PollActionAgain(a)
    BY <2>0, <2>1, <2>5 DEF PollActionAgain
  <2>6. CASE ActionSettles(a)
    <3> DEFINE load == NewLoad(a.call.by, loads).id
    <3>1. ContinueAction(a, [a EXCEPT !.stage = "reloading", !.load = load])
      BY <2>6 DEF ActionSettles
    <3> HIDE DEF load
    <3> QED
      BY <2>0, <2>1, <2>6, <3>1 DEF ActionSettles
  <2>7. CASE ActionFails(a)
    <3>1. actions' = actions \ {a} /\ action_pending' = IF a.mounted THEN None ELSE action_pending
      BY <2>7 DEF ActionFails, ReturnAction
    <3> QED
      BY <2>2, <3>1 DEF ActionBacked
  <2> QED
    BY <1>5, <2>3, <2>4, <2>5, <2>6, <2>7 DEF ManagerStep
<1> QED
  BY <1>1, <1>2, <1>3, <1>4, <1>5
     DEF Next, vars, managerVars, SetAddress, SetActiveTab, ListStep, RefreshStep, ManagerClick,
         HandleRevoke, HandleRenew, PanelClick, PanelExecute, PanelStep, LedgerStep

LEMMA RunningStep == RunningBacked /\ [Next]_vars => RunningBacked'
<1> SUFFICES ASSUME RunningBacked, [Next]_vars
             PROVE  RunningBacked'
  OBVIOUS
<1>1. UNCHANGED <<executions, running>> => RunningBacked'
  BY DEF RunningBacked, Watched
<1>2. LeavePanel => RunningBacked'
  BY DEF LeavePanel, RunningBacked, Watched
<1>3. \A a, t : Render(a, t) => RunningBacked'
  BY <1>1, <1>2 DEF Render, gatedVars, panelVars
<1>4. SyncSelected => RunningBacked'
  BY <1>1, <1>2 DEF SyncSelected, gatedVars, panelVars
<1>5. ASSUME HandleExecute
      PROVE  RunningBacked'
  <2> DEFINE number == CHOOSE i \in FreeExecutionIds : \A j \in FreeExecutionIds : i <= j
             x == [id |-> number,
                   call |-> [kind |-> "execute", nullifier |-> selected.nullifier,
                             by |-> address, expiry |-> 0],
                   stage |-> "preparing", tx |-> 0, polls |-> 0, mounted |-> TRUE]
  <2>0. executions' = executions \cup {x}
    BY <1>5 DEF HandleExecute
  <2> HIDE DEF number
  <2>1. executions' = executions \cup {x} /\ "mounted" \in DOMAIN x /\ x.mounted = TRUE
    BY <2>0
  <2> HIDE DEF x
  <2>2. running = FALSE /\ Watched = {} /\ running' = TRUE
    BY <1>5 DEF HandleExecute, RunningBacked
  <2>3. Watched' = {x}
    BY <2>1, <2>2 DEF Watched
  <2> QED
    BY <2>1, <2>2, <2>3 DEF RunningBacked
<1>6. ASSUME NEW x \in executions, PanelStep(x)
      PROVE  RunningBacked'
  <2>0. "mounted" \in DOMAIN x /\ (x.mounted <=> x \in Watched)
    BY DEF RunningBacked, Watched
  <2>1. ASSUME NEW next, ContinueExecution(x, next), UNCHANGED running,
               "mounted" \in DOMAIN next, next.mounted = x.mounted
        PROVE  RunningBacked'
    <3>1. Watched' = IF x.mounted THEN (Watched \ {x}) \cup {next} ELSE Watched
      BY <2>1 DEF ContinueExecution, Watched
    <3>2. \A y \in executions' : "mounted" \in DOMAIN y
      BY <2>1 DEF ContinueExecution, RunningBacked
    <3> QED
      BY <2>0, <2>1, <3>1, <3>2 DEF RunningBacked
  <2>2. ASSUME executions' = executions \ {x}, running' = IF x.mounted THEN FALSE ELSE running
        PROVE  RunningBacked'
    <3>1. Watched' = Watched \ {x}
      BY <2>2 DEF Watched
    <3> QED
      BY <2>0, <2>2, <3>1 DEF RunningBacked
  <2>3. CASE SimulateExecution(x)
    BY <2>0, <2>1, <2>3 DEF SimulateExecution, panelVars
  <2>4. CASE SendExecution(x)
    BY <2>0, <2>1, <2>2, <2>4 DEF SendExecution
  <2>5. CASE PollExecutionAgain(x)
    BY <2>0, <2>1, <2>5 DEF PollExecutionAgain, panelVars
  <2>6. CASE Executed(x) \/ ExecutionFails(x)
    BY <2>2, <2>6 DEF Executed, ExecutionFails, ReturnExecution
  <2> QED
    BY <1>6, <2>3, <2>4, <2>5, <2>6 DEF PanelStep
<1> QED
  BY <1>1, <1>3, <1>4, <1>5, <1>6
     DEF Next, vars, gatedVars, panelVars, SetAddress, SetActiveTab, ListStep, RefreshStep,
         ManagerClick, ManagerStep, PanelClick, Select, PanelExecute, LedgerStep

(***************************************************************************)
(* Whatever comes back late, is unmounted or overtaken, a wait that is     *)
(* shown has a call in flight that ends it.                                *)
(***************************************************************************)
THEOREM WaitsAreAlwaysBacked == Spec => []WaitsAreBacked
<1>1. Init => LoadingBacked /\ ActionBacked /\ RunningBacked
  BY DEF Init, ListInit, ManagerInit, GatedInit, LoadingBacked, ActionBacked, RunningBacked, Watched
<1>2. ASSUME LoadingBacked, ActionBacked, RunningBacked
      PROVE  WaitsAreBacked
  <2>1. Cardinality(Watched) = IF running THEN 1 ELSE 0
    BY <1>2, FS_EmptySet, FS_Singleton DEF RunningBacked
  <2> QED
    BY <1>2, <2>1 DEF WaitsAreBacked, LoadingBacked, ActionBacked, Watched
<1> QED
  BY <1>1, <1>2, LoadingStep, ActionStep, RunningStep, PTL DEF Spec
==============================================================================
