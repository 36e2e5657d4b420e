------------------------------ MODULE Workspace ------------------------------
(***************************************************************************)
(* The proof tab of the web application: wallet, proof and submission on   *)
(* one page.  The workspace is mounted while a wallet is connected and its *)
(* tab is open; leaving the tab or disconnecting throws its state away,    *)
(* but not the calls it has made.                                          *)
(***************************************************************************)
EXTENDS Submission

VARIABLE tab  \* activeTab: "proof", or "other" for the two others

vars == <<walletVars, flowVars, panelVars, tab>>

IsMounted == address # None /\ tab = "proof"

Init == WalletInit /\ FlowInit /\ SubmissionInit /\ tab = "proof"

------------------------------------------------------------------------------
(* The workspace appears or disappears with what App renders it for. *)
MountOrNot ==
  \/ ~IsMounted /\ IsMounted' /\ Mount /\ UNCHANGED panelVars
  \/ IsMounted /\ ~IsMounted' /\ Unmount /\ LeavePanel
  \/ IsMounted' = IsMounted /\ UNCHANGED <<flowVars, panelVars>>

ConnectStep ==
  /\ \/ Connect \/ ConnectFails \/ CloseModal
     \/ \E w \in Wallets : SelectWallet(w) \/ AddressRefused(w)
  /\ UNCHANGED <<flowVars, panelVars, tab>>

AddressStep ==
  /\ Disconnect \/ \E w \in Wallets : AddressArrives(w)
  /\ UNCHANGED tab
  /\ MountOrNot

SwitchTab ==
  /\ address # None
  /\ tab' \in {"proof", "other"} \ {tab}
  /\ UNCHANGED walletVars
  /\ MountOrNot

(* The page is loaded again: all that was in memory is gone. *)
LoadPage ==
  /\ address' = None
  /\ modal' = FALSE
  /\ requests' = [w \in Wallets |-> 0]
  /\ connect_error' = FALSE
  /\ tab' = "proof"
  /\ Reload
  /\ credential' = None
  /\ submissions' = {}
  /\ UNCHANGED transactions

------------------------------------------------------------------------------
(* What the user does in the workspace, and what it awaits. *)
UserStep ==
  /\ IsMounted
  /\ \/ \E d \in Domains : GenerateChallenge(d)
     \/ CheckDNSSEC
     \/ GenerateProof
     \/ Reset
  /\ UNCHANGED <<walletVars, panelVars, tab>>

Answer(c) ==
  /\ \/ ChallengeDerived(c) \/ ChallengeFails(c)
     \/ DNSSECFound(c) \/ DNSSECFails(c)
     \/ ProofArrives(c) \/ ProofFails(c)
  /\ UNCHANGED <<walletVars, panelVars, tab>>

LateSaveStep ==
  /\ SaveLate
  /\ UNCHANGED <<walletVars, panelVars, tab>>

SubmitStep ==
  /\ IsMounted
  /\ Submit
  /\ UNCHANGED <<walletVars, tab>>

Poll(s) ==
  /\ PollAgain(s) \/ Issued(s) \/ NotIssued(s)
  /\ UNCHANGED <<walletVars, tab>>

Handle(s) ==
  /\ Simulate(s) \/ Send(s) \/ SubmissionFails(s)
  /\ UNCHANGED <<walletVars, tab>>

NetworkStep ==
  /\ \E t \in DOMAIN transactions : Include(t) \/ Drop(t)
  /\ UNCHANGED <<walletVars, flowVars, tab>>

Next ==
  \/ ConnectStep
  \/ AddressStep
  \/ SwitchTab
  \/ LoadPage
  \/ UserStep
  \/ \E c \in calls : Answer(c)
  \/ LateSaveStep
  \/ SubmitStep
  \/ \E s \in submissions : Poll(s) \/ Handle(s)
  \/ NetworkStep

Spec == Init /\ [][Next]_vars

(***************************************************************************)
(* The browser ends every request and every worker, one way or another,    *)
(* and the timer of the polls fires.  Nobody has to sign, and no           *)
(* transaction has to be included.                                         *)
(***************************************************************************)
FairSpec ==
  /\ Spec
  /\ \A i \in 1 .. MaxCalls :
       /\ WF_vars(\E c \in calls : c.id = i /\ Answer(c))
       /\ WF_vars(\E s \in submissions : s.id = i /\ Poll(s))
==============================================================================
