--------------------------- MODULE WorkspaceProofs ---------------------------
(***************************************************************************)
(* Proofs that the proof tab keeps its invariants, for any domains,        *)
(* wallets and bounds.                                                     *)
(***************************************************************************)
EXTENDS WorkspaceProperties, TLAPS

USE WalletAssumption, FlowAssumption, NoneAssumption, SubmissionAssumption

(* Submit reads the proof a ready page has, so the types need this. *)
ReadyHasProof == status = "proof_ready" => proof # None
Typed == TypeOK /\ ReadyHasProof

(* The number of a new call is free. *)
LEMMA NewIdType ==
  ASSUME NEW pending, FreeIds(pending) # {}
  PROVE  NewId(pending) \in 1 .. MaxCalls
BY DEF FreeIds, NewId

LEMMA InitTyped == Init => Typed
<1> SUFFICES ASSUME Init PROVE Typed
  OBVIOUS
<1>1. WalletTypeOK
  <2>1. WalletFlags
    BY DEF Init, WalletInit, WalletFlags
  <2>2. WalletCalls
    BY DEF Init, WalletInit, WalletCalls
  <2> QED
    BY <2>1, <2>2 DEF WalletTypeOK
<1>2. FlowTypeOK /\ ReadyHasProof
  BY DEF Init, FlowInit, FlowTypeOK, ReadyHasProof, Statuses, NoKeys, ZeroKey
<1>3. PanelTypeOK
  BY DEF Init, SubmissionInit, PanelTypeOK
<1> QED
  BY <1>1, <1>2, <1>3 DEF Typed, TypeOK

------------------------------------------------------------------------------
(***************************************************************************)
(* Types, by the groups of steps of Next.                                  *)
(***************************************************************************)
LEMMA SavesTyped ==
  ASSUME Typed, NEW c \in calls
  PROVE  LateSave(c) \in Saved
<1>1. c.of \in CallContents
  BY DEF Typed, TypeOK, FlowTypeOK
<1>2. challenge \in Challenge \cup {None}
  BY DEF Typed, TypeOK, FlowTypeOK
<1>3. CASE c.of.kind = "challenge"
  BY <1>1, <1>2, <1>3 DEF CallContents, LateSave, Saved, Statuses
<1>4. CASE c.of.kind = "dnssec"
  BY <1>1, <1>2, <1>4 DEF CallContents, LateSave, Saved, Statuses
<1>5. CASE c.of.kind = "prove"
  BY <1>1, <1>2, <1>5 DEF CallContents, LateSave, Saved, Statuses
<1> QED
  BY <1>1, <1>3, <1>4, <1>5 DEF CallContents

LEMMA MountTyped ==
  ASSUME Typed, MountOrNot, tab' \in {"proof", "other"}
  PROVE  FlowTypeOK' /\ PanelTypeOK' /\ ReadyHasProof'
<1>1. ASSUME Mount, UNCHANGED panelVars
      PROVE  FlowTypeOK' /\ PanelTypeOK' /\ ReadyHasProof'
  <2>1. RestoredStatus \in RestorableStatuses /\ RestoredChallenge \in Challenge \cup {None}
    BY DEF RestoredStatus, RestoredChallenge, RestorableStatuses, Typed, TypeOK, FlowTypeOK, Saved
  <2> QED
    BY <1>1, <2>1 DEF Mount, panelVars, Typed, TypeOK, FlowTypeOK, PanelTypeOK, ReadyHasProof,
                      RestorableStatuses, Statuses
<1>2. ASSUME Unmount, LeavePanel
      PROVE  FlowTypeOK' /\ PanelTypeOK' /\ ReadyHasProof'
  <2>1. FlowTypeOK' /\ ReadyHasProof'
    BY <1>2, SavesTyped DEF Unmount, Forget, Typed, TypeOK, FlowTypeOK, ReadyHasProof,
                            Statuses, NoKeys
  <2>2. PanelTypeOK'
    <3>1. challenge \in Challenge \cup {None}
      BY DEF Typed, TypeOK, FlowTypeOK
    <3>2. ASSUME NEW s \in submissions
          PROVE  [s EXCEPT !.mounted = FALSE, !.left = challenge] \in Submissions
      BY <3>1 DEF Typed, TypeOK, PanelTypeOK, Submissions
    <3>3. submissions' \subseteq Submissions
      BY <1>2, <3>2 DEF LeavePanel, Typed, TypeOK, PanelTypeOK
    <3> QED
      BY <1>2, <3>3 DEF LeavePanel, Typed, TypeOK, PanelTypeOK
  <2> QED
    BY <2>1, <2>2
<1>3. ASSUME UNCHANGED <<flowVars, panelVars>>
      PROVE  FlowTypeOK' /\ PanelTypeOK' /\ ReadyHasProof'
  BY <1>3 DEF flowVars, pageVars, panelVars, Typed, TypeOK, FlowTypeOK, PanelTypeOK, ReadyHasProof
<1> QED
  BY <1>1, <1>2, <1>3 DEF MountOrNot

LEMMA WalletStepTyped ==
  ASSUME Typed, ConnectStep \/ AddressStep \/ SwitchTab \/ LoadPage
  PROVE  Typed'
<1>1. CASE ConnectStep
  <2>1. WalletFlags'
    BY <1>1 DEF ConnectStep, Connect, ConnectFails, CloseModal, SelectWallet, AddressRefused,
                Typed, TypeOK, WalletTypeOK, WalletFlags
  <2>2. WalletCalls'
    BY <1>1 DEF ConnectStep, Connect, ConnectFails, CloseModal, SelectWallet, AddressRefused,
                Typed, TypeOK, WalletTypeOK, WalletCalls
  <2>3. FlowTypeOK' /\ PanelTypeOK' /\ ReadyHasProof'
    BY <1>1 DEF ConnectStep, flowVars, pageVars, panelVars, Typed, TypeOK, FlowTypeOK,
                PanelTypeOK, ReadyHasProof
  <2> QED
    BY <2>1, <2>2, <2>3 DEF Typed, TypeOK, WalletTypeOK
<1>2. CASE AddressStep
  <2>1. WalletFlags' /\ tab' \in {"proof", "other"}
    BY <1>2 DEF AddressStep, Disconnect, AddressArrives, Typed, TypeOK, WalletTypeOK, WalletFlags,
                FlowTypeOK
  <2>2. WalletCalls'
    BY <1>2 DEF AddressStep, Disconnect, AddressArrives, Typed, TypeOK, WalletTypeOK, WalletCalls
  <2> QED
    BY <1>2, <2>1, <2>2, MountTyped DEF AddressStep, Typed, TypeOK, WalletTypeOK
<1>3. CASE SwitchTab
  <2>1. WalletTypeOK' /\ tab' \in {"proof", "other"}
    BY <1>3 DEF SwitchTab, walletVars, Typed, TypeOK, WalletTypeOK, WalletFlags, WalletCalls,
                FlowTypeOK
  <2> QED
    BY <1>3, <2>1, MountTyped DEF SwitchTab, Typed, TypeOK
<1>4. CASE LoadPage
  <2>1. WalletTypeOK'
    <3>1. WalletFlags'
      BY <1>4 DEF LoadPage, WalletFlags
    <3>2. WalletCalls'
      BY <1>4 DEF LoadPage, WalletCalls
    <3> QED
      BY <3>1, <3>2 DEF WalletTypeOK
  <2>2. FlowTypeOK' /\ ReadyHasProof'
    BY <1>4 DEF LoadPage, Reload, Forget, Typed, TypeOK, FlowTypeOK, ReadyHasProof, Statuses, NoKeys
  <2>3. PanelTypeOK'
    BY <1>4 DEF LoadPage, Typed, TypeOK, PanelTypeOK
  <2> QED
    BY <2>1, <2>2, <2>3 DEF Typed, TypeOK
<1> QED
  BY <1>1, <1>2, <1>3, <1>4

(* A call begins under a free number. *)
LEMMA BeginTyped ==
  ASSUME Typed, NEW content \in CallContents, Begin(content)
  PROVE  calls' \subseteq [id : 1 .. MaxCalls, of : CallContents]
BY NewIdType DEF Begin, Typed, TypeOK, FlowTypeOK

LEMMA UserStepTyped ==
  ASSUME Typed, UserStep
  PROVE  Typed'
<1>1. WalletTypeOK' /\ PanelTypeOK' /\ tab' \in {"proof", "other"}
  BY DEF UserStep, walletVars, panelVars, Typed, TypeOK, WalletTypeOK, WalletFlags, WalletCalls,
         PanelTypeOK, FlowTypeOK
<1>2. ASSUME NEW d \in Domains, GenerateChallenge(d)
      PROVE  FlowTypeOK' /\ ReadyHasProof'
  <2> DEFINE key == Len(asked) + 1
             c == [domain |-> d, wallet |-> address, key |-> key]
  <2>1. c \in Challenge
    BY <1>2 DEF GenerateChallenge, UserStep, IsMounted, Typed, TypeOK, FlowTypeOK, WalletTypeOK,
                WalletCalls, Challenge, Keys
  <2>2. calls' \subseteq [id : 1 .. MaxCalls, of : CallContents]
    BY <1>2, <2>1, BeginTyped DEF GenerateChallenge, CallContents, ChallengeCall
  <2>3. asked' \in Seq(Challenge) /\ private'.key = key
    BY <1>2, <2>1 DEF GenerateChallenge, Typed, TypeOK, FlowTypeOK
  <2> QED
    BY <1>1, <1>2, <2>1, <2>2, <2>3
    DEF GenerateChallenge, Typed, TypeOK, FlowTypeOK, ReadyHasProof, Challenge
<1>3. ASSUME CheckDNSSEC
      PROVE  FlowTypeOK' /\ ReadyHasProof'
  <2>1. calls' \subseteq [id : 1 .. MaxCalls, of : CallContents]
    BY <1>3, BeginTyped DEF CheckDNSSEC, CallContents, DnssecCall, Typed, TypeOK, FlowTypeOK,
                            Challenge
  <2> QED
    BY <1>1, <1>3, <2>1 DEF CheckDNSSEC, SetStatus, SetError, Typed, TypeOK, FlowTypeOK,
                            ReadyHasProof, Statuses, Saved
<1>4. ASSUME GenerateProof
      PROVE  FlowTypeOK' /\ ReadyHasProof'
  <2>1. ASSUME CanProve
        PROVE  ProveCall([domain |-> challenge.domain, wallet |-> private.wallet,
                          key |-> private.key, material |-> private.material]) \in CallContents
    BY <2>1 DEF CanProve, ProveCall, CallContents, Proof, Typed, TypeOK, FlowTypeOK, Challenge
  <2>2. calls' \subseteq [id : 1 .. MaxCalls, of : CallContents]
    BY <1>4, <2>1, BeginTyped DEF GenerateProof, Typed, TypeOK, FlowTypeOK
  <2> QED
    BY <1>1, <1>4, <2>2 DEF GenerateProof, SetStatus, SetError, Typed, TypeOK, FlowTypeOK,
                            ReadyHasProof, Statuses, Saved
<1>5. ASSUME Reset
      PROVE  FlowTypeOK' /\ ReadyHasProof'
  BY <1>1, <1>5 DEF Reset, Forget, Typed, TypeOK, FlowTypeOK, ReadyHasProof, Statuses, NoKeys
<1> QED
  BY <1>1, <1>2, <1>3, <1>4, <1>5 DEF UserStep, Typed, TypeOK

LEMMA AnswerTyped ==
  ASSUME Typed, NEW c \in calls, Answer(c)
  PROVE  Typed'
<1>1. WalletTypeOK' /\ PanelTypeOK' /\ tab' \in {"proof", "other"}
  BY DEF Answer, walletVars, panelVars, Typed, TypeOK, WalletTypeOK, WalletFlags, WalletCalls,
         PanelTypeOK, FlowTypeOK
<1>2. c.of \in CallContents
  BY DEF Typed, TypeOK, FlowTypeOK
<1>3. ASSUME ChallengeDerived(c) \/ ChallengeFails(c)
      PROVE  FlowTypeOK' /\ ReadyHasProof'
  <2>1. c.of.challenge \in Challenge
    BY <1>2, <1>3 DEF CallContents, ChallengeDerived, ChallengeFails
  <2> QED
    BY <1>1, <1>3, <2>1 DEF ChallengeDerived, ChallengeFails, SetStatus, End, Typed, TypeOK,
                            FlowTypeOK, ReadyHasProof, Statuses, Saved
<1>4. ASSUME DNSSECFound(c) \/ DNSSECFails(c)
      PROVE  FlowTypeOK' /\ ReadyHasProof'
  <2>1. c.of.domain \in Domains
    BY <1>2, <1>4 DEF CallContents, DNSSECFound, DNSSECFails
  <2> QED
    BY <1>1, <1>4, <2>1 DEF DNSSECFound, DNSSECFails, SetStatus, SetError, End, Typed, TypeOK,
                            FlowTypeOK, ReadyHasProof, Statuses, Saved
<1>5. ASSUME ProofArrives(c) \/ ProofFails(c)
      PROVE  FlowTypeOK' /\ ReadyHasProof'
  <2>1. c.of.proof \in Proof /\ c.of.proof # None
    BY <1>2, <1>5 DEF CallContents, ProofArrives, ProofFails
  <2> QED
    BY <1>1, <1>5, <2>1 DEF ProofArrives, ProofFails, SetStatus, SetError, End, Typed, TypeOK,
                            FlowTypeOK, ReadyHasProof, Statuses, Saved
<1> QED
  BY <1>1, <1>3, <1>4, <1>5 DEF Answer, Typed, TypeOK

LEMMA NullifierType ==
  ASSUME NEW p \in Proof
  PROVE  Nullifier(p) \in Domains \X Keys
BY DEF Nullifier, Proof

(* The outcome of a submission, reported to a page that may be gone. *)
LEMMA ReportTyped ==
  ASSUME Typed, NEW s \in Submissions, UNCHANGED tab,
         Report(s, "credential_issued") \/ ReportError(s) \/ UNCHANGED flowVars
  PROVE  FlowTypeOK' /\ ReadyHasProof'
<1>1. s.left \in Challenge \cup {None} /\ s.mounted \in BOOLEAN
  BY DEF Submissions
<1>2. UNCHANGED <<tab, proof, private, calls, late_saves, asked>>
  BY DEF Report, ReportError, flowVars, pageVars
<1>3. ASSUME Report(s, "credential_issued")
      PROVE  FlowTypeOK' /\ ReadyHasProof'
  <2>1. /\ status' \in {status, "credential_issued"}
        /\ challenge' = challenge
        /\ session' \in Saved \cup {None}
    BY <1>1, <1>3 DEF Report, SetStatus, Saved, Statuses, Typed, TypeOK, FlowTypeOK
  <2> QED
    BY <1>2, <2>1 DEF Typed, TypeOK, FlowTypeOK, ReadyHasProof, Statuses
<1>4. ASSUME ReportError(s)
      PROVE  FlowTypeOK' /\ ReadyHasProof'
  BY <1>2, <1>4 DEF ReportError, SetError, Typed, TypeOK, FlowTypeOK, ReadyHasProof, Statuses
<1>5. ASSUME UNCHANGED flowVars
      PROVE  FlowTypeOK' /\ ReadyHasProof'
  BY <1>2, <1>5 DEF flowVars, pageVars, Typed, TypeOK, FlowTypeOK, ReadyHasProof
<1> QED
  BY <1>3, <1>4, <1>5

LEMMA SubmitTyped ==
  ASSUME Typed, SubmitStep
  PROVE  Typed'
<1>1. FlowTypeOK' /\ ReadyHasProof'
  BY DEF SubmitStep, Submit, SetStatus, Typed, TypeOK, FlowTypeOK, ReadyHasProof, Statuses, Saved
<1>2. WalletTypeOK'
  BY DEF SubmitStep, walletVars, Typed, TypeOK, WalletTypeOK, WalletFlags, WalletCalls
<1>3. [id |-> NewId(submissions), proof |-> proof, owner |-> address, stage |-> "preparing",
       tx |-> 0, polls |-> 0, mounted |-> TRUE, left |-> None] \in Submissions
  BY NewIdType DEF SubmitStep, Submit, CanSubmit, IsMounted, Submissions, Typed, TypeOK,
                   ReadyHasProof, FlowTypeOK, WalletTypeOK, WalletCalls
<1>4. PanelTypeOK'
  BY <1>3 DEF SubmitStep, Submit, Typed, TypeOK, PanelTypeOK
<1> QED
  BY <1>1, <1>2, <1>4 DEF Typed, TypeOK

LEMMA HandleTyped ==
  ASSUME Typed, NEW s \in submissions, Poll(s) \/ Handle(s)
  PROVE  Typed'
<1>1. s \in Submissions
  BY DEF Typed, TypeOK, PanelTypeOK
<1>2. WalletTypeOK' /\ UNCHANGED tab
  BY DEF Poll, Handle, walletVars, Typed, TypeOK, WalletTypeOK, WalletFlags, WalletCalls
<1>3. FlowTypeOK' /\ ReadyHasProof'
  <2>1. Report(s, "credential_issued") \/ ReportError(s) \/ UNCHANGED flowVars
    BY DEF Poll, Handle, PollAgain, Issued, NotIssued, Simulate, Send, SubmissionFails
  <2> QED
    BY <1>1, <1>2, <2>1, ReportTyped
<1>4. CASE Simulate(s)
  <2>1. [s EXCEPT !.stage = "signing"] \in Submissions
    BY <1>1 DEF Submissions
  <2> QED
    BY <1>2, <1>3, <1>4, <2>1 DEF Simulate, Proceed, Typed, TypeOK, PanelTypeOK
<1>5. CASE Send(s)
  <2>1. [s EXCEPT !.stage = "polling", !.tx = Len(transactions) + 1] \in Submissions
    <3>1. Len(transactions) + 1 \in 0 .. MaxTransactions
      BY <1>5 DEF Send, Typed, TypeOK, PanelTypeOK
    <3> QED
      BY <1>1, <3>1 DEF Submissions
  <2>2. [proof |-> s.proof, owner |-> s.owner, result |-> "pending"] \in Sent
    BY <1>1 DEF Submissions, Sent, Results
  <2> QED
    BY <1>2, <1>3, <1>5, <2>1, <2>2 DEF Send, Proceed, Typed, TypeOK, PanelTypeOK
<1>6. CASE PollAgain(s)
  <2>1. [s EXCEPT !.polls = @ + 1] \in Submissions
    BY <1>1, <1>6 DEF PollAgain, MayPollAgain, Submissions
  <2> QED
    BY <1>2, <1>3, <1>6, <2>1 DEF PollAgain, Proceed, Typed, TypeOK, PanelTypeOK
<1>7. CASE Issued(s)
  <2>1. credential' \in [nullifier : Domains \X Keys, owner : Wallets] \cup {None}
    BY <1>1, <1>7, NullifierType DEF Issued, Submissions, Typed, TypeOK, PanelTypeOK
  <2> QED
    BY <1>2, <1>3, <1>7, <2>1 DEF Issued, Return, Typed, TypeOK, PanelTypeOK
<1>8. CASE NotIssued(s) \/ SubmissionFails(s)
  BY <1>2, <1>3, <1>8 DEF NotIssued, SubmissionFails, Return, Typed, TypeOK, PanelTypeOK
<1> QED
  BY <1>4, <1>5, <1>6, <1>7, <1>8 DEF Poll, Handle

LEMMA NetworkTyped ==
  ASSUME Typed, NetworkStep
  PROVE  Typed'
<1>1. WalletTypeOK' /\ FlowTypeOK' /\ ReadyHasProof'
  BY DEF NetworkStep, walletVars, flowVars, pageVars, Typed, TypeOK, WalletTypeOK, WalletFlags,
         WalletCalls, FlowTypeOK, ReadyHasProof
<1>2. ASSUME NEW t \in DOMAIN transactions, Include(t) \/ Drop(t)
      PROVE  PanelTypeOK'
  <2>1. PICK result \in Results : transactions' = [transactions EXCEPT ![t].result = result]
    BY <1>2 DEF Include, Drop, Results
  <2>2. transactions' \in Seq(Sent)
    <3>1. transactions \in Seq(Sent)
      BY DEF Typed, TypeOK, PanelTypeOK
    <3>2. transactions[t] \in Sent
      BY <1>2, <3>1
    <3>3. [transactions[t] EXCEPT !.result = result] \in Sent
      BY <3>2, <2>1 DEF Sent
    <3> QED
      BY <1>2, <2>1, <3>1, <3>3
  <2> QED
    BY <1>2, <2>2 DEF Include, Drop, Typed, TypeOK, PanelTypeOK
<1> QED
  BY <1>1, <1>2 DEF NetworkStep, Typed, TypeOK

LEMMA StepTyped == Typed /\ [Next]_vars => Typed'
<1> SUFFICES ASSUME Typed, [Next]_vars PROVE Typed'
  OBVIOUS
<1>1. CASE UNCHANGED vars
  <2>1. WalletTypeOK'
    BY <1>1 DEF vars, walletVars, Typed, TypeOK, WalletTypeOK, WalletFlags, WalletCalls
  <2>2. FlowTypeOK' /\ PanelTypeOK' /\ ReadyHasProof'
    BY <1>1 DEF vars, flowVars, pageVars, panelVars, Typed, TypeOK, FlowTypeOK, PanelTypeOK,
                ReadyHasProof
  <2> QED
    BY <2>1, <2>2 DEF Typed, TypeOK
<1>2. CASE LateSaveStep
  <2>1. WalletTypeOK'
    BY <1>2 DEF LateSaveStep, walletVars, Typed, TypeOK, WalletTypeOK, WalletFlags, WalletCalls
  <2>2. FlowTypeOK' /\ PanelTypeOK' /\ ReadyHasProof'
    BY <1>2 DEF LateSaveStep, SaveLate, pageVars, panelVars, Typed, TypeOK, FlowTypeOK,
                PanelTypeOK, ReadyHasProof
  <2> QED
    BY <2>1, <2>2 DEF Typed, TypeOK
<1> QED
  BY <1>1, <1>2, WalletStepTyped, UserStepTyped, AnswerTyped, SubmitTyped, HandleTyped,
     NetworkTyped DEF Next

LEMMA AlwaysTyped == Spec => []Typed
BY InitTyped, StepTyped, PTL DEF Spec

(***************************************************************************)
(* Every variable of the proof tab keeps its type, whatever arrives late.  *)
(***************************************************************************)
THEOREM WorkspaceTypeCorrect == Spec => []TypeOK
<1>1. Typed => TypeOK
  BY DEF Typed
<1> QED
  BY <1>1, AlwaysTyped, PTL

------------------------------------------------------------------------------
(***************************************************************************)
(* Waiting.  A busy status is set only together with its call, and every   *)
(* answer to that call leaves the status, so the invariant is inductive.   *)
(***************************************************************************)
LEMMA InitBacked == Init => BusyIsBacked
BY DEF Init, FlowInit, BusyIsBacked

LEMMA MountBacked ==
  ASSUME BusyIsBacked, MountOrNot
  PROVE  BusyIsBacked'
<1>1. CASE Mount
  BY <1>1 DEF Mount, RestoredStatus, RestorableStatuses, BusyIsBacked
<1>2. CASE Unmount
  BY <1>2 DEF Unmount, Forget, BusyIsBacked
<1>3. CASE UNCHANGED <<flowVars, panelVars>>
  BY <1>3 DEF flowVars, pageVars, panelVars, BusyIsBacked
<1> QED
  BY <1>1, <1>2, <1>3 DEF MountOrNot

LEMMA BeginBacks ==
  ASSUME NEW content, Begin(content)
  PROVE  \E c \in calls' : c.of = content
<1> DEFINE c == [id |-> NewId(calls), of |-> content]
<1>1. c \in calls'
  BY DEF Begin
<1>2. c.of = content
  OBVIOUS
<1> QED
  BY <1>1, <1>2

LEMMA FlowBacked ==
  ASSUME BusyIsBacked, UserStep \/ \E c \in calls : Answer(c)
  PROVE  BusyIsBacked'
<1>1. UNCHANGED submissions
  BY DEF UserStep, Answer, panelVars
<1>2. ASSUME NEW d \in Domains, GenerateChallenge(d)
      PROVE  BusyIsBacked'
  BY <1>1, <1>2 DEF GenerateChallenge, BusyIsBacked
<1>3. CASE CheckDNSSEC
  <2>1. CASE challenge = None
    BY <1>1, <1>3, <2>1 DEF CheckDNSSEC, SetError, BusyIsBacked
  <2>2. CASE challenge # None
    <3>1. \E c \in calls' : c.of = DnssecCall(challenge.domain)
      BY <1>3, <2>2, BeginBacks DEF CheckDNSSEC
    <3>2. \E c \in calls' : c.of.kind = "dnssec"
      BY <3>1 DEF DnssecCall
    <3> QED
      BY <1>3, <2>2, <3>2 DEF CheckDNSSEC, SetStatus, BusyIsBacked
  <2> QED
    BY <2>1, <2>2
<1>4. CASE GenerateProof
  <2>1. CASE ~CanProve
    BY <1>1, <1>4, <2>1 DEF GenerateProof, SetError, BusyIsBacked
  <2>2. CASE CanProve
    <3>1. \E c \in calls' :
            c.of = ProveCall([domain |-> challenge.domain, wallet |-> private.wallet,
                              key |-> private.key, material |-> private.material])
      BY <1>4, <2>2, BeginBacks DEF GenerateProof
    <3>2. \E c \in calls' : c.of.kind = "prove"
      BY <3>1 DEF ProveCall
    <3> QED
      BY <1>4, <2>2, <3>2 DEF GenerateProof, SetStatus, BusyIsBacked
  <2> QED
    BY <2>1, <2>2
<1>5. CASE Reset
  BY <1>1, <1>5 DEF Reset, Forget, BusyIsBacked
<1>6. ASSUME NEW c \in calls, Answer(c)
      PROVE  BusyIsBacked'
  <2>1. CASE ChallengeFails(c)
    BY <1>1, <2>1 DEF ChallengeFails, End, BusyIsBacked
  <2>2. CASE ~ChallengeFails(c)
    BY <1>1, <1>6, <2>2 DEF Answer, ChallengeDerived, DNSSECFound, DNSSECFails, ProofArrives,
                            ProofFails, SetStatus, SetError, BusyIsBacked
  <2> QED
    BY <2>1, <2>2
<1> QED
  BY <1>2, <1>3, <1>4, <1>5, <1>6 DEF UserStep

LEMMA HandleBacked ==
  ASSUME Typed, BusyIsBacked, NEW s \in submissions, Poll(s) \/ Handle(s)
  PROVE  BusyIsBacked'
<1>1. s \in Submissions
  BY DEF Typed, TypeOK, PanelTypeOK
<1>2. ASSUME NEW next, next.mounted = s.mounted, Proceed(s, next), UNCHANGED flowVars
      PROVE  BusyIsBacked'
  BY <1>2 DEF Proceed, flowVars, pageVars, BusyIsBacked
<1>3. CASE Simulate(s)
  <2>1. [s EXCEPT !.stage = "signing"].mounted = s.mounted
    BY <1>1 DEF Submissions
  <2> QED
    BY <1>2, <1>3, <2>1 DEF Simulate
<1>4. CASE Send(s)
  <2>1. [s EXCEPT !.stage = "polling", !.tx = Len(transactions) + 1].mounted = s.mounted
    BY <1>1 DEF Submissions
  <2> QED
    BY <1>2, <1>4, <2>1 DEF Send
<1>5. CASE PollAgain(s)
  <2>1. [s EXCEPT !.polls = @ + 1].mounted = s.mounted
    BY <1>1 DEF Submissions
  <2> QED
    BY <1>2, <1>5, <2>1 DEF PollAgain
<1>6. CASE Issued(s) \/ NotIssued(s) \/ SubmissionFails(s)
  <2>1. CASE s.mounted
    BY <1>6, <2>1 DEF Issued, NotIssued, SubmissionFails, Report, ReportError, SetStatus, SetError,
                      BusyIsBacked
  <2>2. CASE ~s.mounted
    BY <1>6, <2>2 DEF Issued, NotIssued, SubmissionFails, Report, ReportError, Return, BusyIsBacked
  <2> QED
    BY <2>1, <2>2
<1> QED
  BY <1>3, <1>4, <1>5, <1>6 DEF Poll, Handle

LEMMA StepBacked == Typed /\ BusyIsBacked /\ [Next]_vars => BusyIsBacked'
<1> SUFFICES ASSUME Typed, BusyIsBacked, [Next]_vars PROVE BusyIsBacked'
  OBVIOUS
<1>1. CASE ConnectStep \/ LateSaveStep \/ NetworkStep \/ UNCHANGED vars
  <2>1. UNCHANGED <<status, calls, submissions>>
    BY <1>1 DEF ConnectStep, LateSaveStep, SaveLate, NetworkStep, Include, Drop, vars, flowVars,
                pageVars, panelVars
  <2> QED
    BY <2>1 DEF BusyIsBacked
<1>2. CASE AddressStep \/ SwitchTab
  BY <1>2, MountBacked DEF AddressStep, SwitchTab
<1>3. CASE LoadPage
  BY <1>3 DEF LoadPage, Reload, Forget, BusyIsBacked
<1>4. CASE SubmitStep
  <2> DEFINE s == [id |-> NewId(submissions), proof |-> proof, owner |-> address,
                   stage |-> "preparing", tx |-> 0, polls |-> 0, mounted |-> TRUE, left |-> None]
  <2>1. s \in submissions' /\ s.mounted
    BY <1>4 DEF SubmitStep, Submit
  <2>2. status' = "submitting"
    BY <1>4 DEF SubmitStep, Submit, SetStatus
  <2> QED
    BY <2>1, <2>2 DEF BusyIsBacked
<1> QED
  BY <1>1, <1>2, <1>3, <1>4, FlowBacked, HandleBacked DEF Next

(***************************************************************************)
(* Whatever is reloaded, reset or answered late, the page never shows that *)
(* it is checking, proving or submitting without a call that will end it.  *)
(***************************************************************************)
THEOREM BusyIsAlwaysBacked == Spec => []BusyIsBacked
BY AlwaysTyped, InitBacked, StepBacked, PTL DEF Spec

------------------------------------------------------------------------------
(***************************************************************************)
(* Keys.  The ref's key and wallet belong together, and so do those of     *)
(* every proof on its way from the worker to the ledger.                   *)
(***************************************************************************)
KeysBelongTogether ==
  /\ private.key # ZeroKey =>
       private.key \in DOMAIN asked /\ private.wallet = asked[private.key].wallet
  /\ \A c \in calls : c.of.kind = "prove" => MadeFromAKey(c.of.proof)
  /\ \A s \in submissions : MadeFromAKey(s.proof)
  /\ ProofsHaveTheirKeys

LEMMA InitKeys == Init => KeysBelongTogether
BY DEF Init, FlowInit, SubmissionInit, KeysBelongTogether, ProofsHaveTheirKeys, NoKeys, ZeroKey

(* Challenges are only added, so proofs keep their keys. *)
LEMMA AskedOnlyGrows ==
  ASSUME Typed, NEW p, MadeFromAKey(p), NEW c \in Challenge,
         asked' = asked \/ asked' = Append(asked, c)
  PROVE  MadeFromAKey(p)'
<1>1. asked \in Seq(Challenge)
  BY DEF Typed, TypeOK, FlowTypeOK
<1> QED
  BY <1>1 DEF MadeFromAKey

(* Steps that make no key, no proof and no transaction. *)
LEMMA NothingMadeKeepsKeys ==
  ASSUME KeysBelongTogether, UNCHANGED <<asked, transactions>>, calls' \subseteq calls,
         \/ private' = NoKeys
         \/ private'.key = private.key /\ private'.wallet = private.wallet,
         proof' \in {proof, None},
         \A s \in submissions' : \E r \in submissions : s.proof = r.proof
  PROVE  KeysBelongTogether'
BY DEF KeysBelongTogether, ProofsHaveTheirKeys, MadeFromAKey, NoKeys, ZeroKey

LEMMA PageKeepsKeys ==
  ASSUME Typed, KeysBelongTogether, AddressStep \/ SwitchTab \/ LoadPage
  PROVE  KeysBelongTogether'
<1>1. CASE Mount /\ UNCHANGED panelVars
  BY <1>1, NothingMadeKeepsKeys DEF Mount, panelVars
<1>2. CASE Unmount /\ LeavePanel
  <2>1. ASSUME NEW s \in submissions'
        PROVE  \E r \in submissions : s.proof = r.proof
    <3>1. PICK r \in submissions :
            s = IF r.mounted THEN [r EXCEPT !.mounted = FALSE, !.left = challenge] ELSE r
      BY <1>2, <2>1 DEF LeavePanel
    <3>2. r \in Submissions
      BY DEF Typed, TypeOK, PanelTypeOK
    <3> QED
      BY <3>1, <3>2 DEF Submissions
  <2> QED
    BY <1>2, <2>1, NothingMadeKeepsKeys DEF Unmount, Forget, LeavePanel
<1>3. CASE UNCHANGED <<flowVars, panelVars>>
  BY <1>3, NothingMadeKeepsKeys DEF flowVars, pageVars, panelVars
<1>4. CASE LoadPage
  BY <1>4, NothingMadeKeepsKeys DEF LoadPage, Reload, Forget
<1> QED
  BY <1>1, <1>2, <1>3, <1>4 DEF AddressStep, SwitchTab, MountOrNot

LEMMA GenerateChallengeKeepsKeys ==
  ASSUME Typed, KeysBelongTogether, UserStep, NEW d \in Domains, GenerateChallenge(d)
  PROVE  KeysBelongTogether'
<1> DEFINE key == Len(asked) + 1
           ch == [domain |-> d, wallet |-> address, key |-> key]
<1>1. asked \in Seq(Challenge) /\ address \in Wallets
  BY DEF Typed, TypeOK, FlowTypeOK, WalletTypeOK, WalletCalls, UserStep, IsMounted
<1>2. ch \in Challenge /\ asked' = Append(asked, ch)
  BY <1>1 DEF GenerateChallenge, Challenge, Keys
<1>3. \A p : MadeFromAKey(p) => MadeFromAKey(p)'
  BY <1>2, AskedOnlyGrows
<1>4. private'.key = key /\ private'.wallet = address
  BY DEF GenerateChallenge
<1>5. key \in DOMAIN asked' /\ asked'[key] = ch
  BY <1>1, <1>2
<1>6. \A c \in calls' : c \in calls \/ c.of.kind = "challenge"
  BY DEF GenerateChallenge, Begin, ChallengeCall
<1>7. UNCHANGED <<proof, submissions, transactions>>
  BY DEF UserStep, GenerateChallenge, panelVars
<1> QED
  BY <1>3, <1>4, <1>5, <1>6, <1>7 DEF KeysBelongTogether, ProofsHaveTheirKeys

LEMMA UserKeepsKeys ==
  ASSUME Typed, KeysBelongTogether, UserStep
  PROVE  KeysBelongTogether'
<1>1. UNCHANGED <<submissions, transactions>>
  BY DEF UserStep, panelVars
<1>2. CASE Reset
  BY <1>1, <1>2, NothingMadeKeepsKeys DEF Reset, Forget
<1>3. CASE CheckDNSSEC
  <2>1. \A c \in calls' : c \in calls \/ c.of.kind = "dnssec"
    BY <1>3 DEF CheckDNSSEC, Begin, DnssecCall
  <2> QED
    BY <1>1, <1>3, <2>1 DEF CheckDNSSEC, KeysBelongTogether, ProofsHaveTheirKeys, MadeFromAKey
<1>4. CASE GenerateProof
  <2> DEFINE p == [domain |-> challenge.domain, wallet |-> private.wallet,
                   key |-> private.key, material |-> private.material]
  <2>1. CanProve => MadeFromAKey(p)
    BY DEF CanProve, KeysBelongTogether, MadeFromAKey
  <2>2. \A c \in calls' : c \in calls \/ (CanProve /\ c.of.proof = p)
    BY <1>4 DEF GenerateProof, Begin, ProveCall
  <2> QED
    BY <1>1, <1>4, <2>1, <2>2
    DEF GenerateProof, KeysBelongTogether, ProofsHaveTheirKeys, MadeFromAKey
<1> QED
  BY <1>2, <1>3, <1>4, GenerateChallengeKeepsKeys DEF UserStep

LEMMA AnswerKeepsKeys ==
  ASSUME Typed, KeysBelongTogether, NEW c \in calls, Answer(c)
  PROVE  KeysBelongTogether'
<1>1. UNCHANGED <<submissions, transactions, asked>> /\ calls' \subseteq calls
  BY DEF Answer, panelVars, ChallengeDerived, ChallengeFails, DNSSECFound, DNSSECFails,
         ProofArrives, ProofFails, End
<1>2. CASE ProofArrives(c)
  BY <1>1, <1>2 DEF ProofArrives, KeysBelongTogether, ProofsHaveTheirKeys, MadeFromAKey
<1>3. CASE ~ProofArrives(c)
  <2>1. private'.key = private.key /\ private'.wallet = private.wallet /\ proof' = proof
    BY <1>3 DEF Answer, ChallengeDerived, ChallengeFails, DNSSECFound, DNSSECFails, ProofFails,
                Typed, TypeOK, FlowTypeOK
  <2> QED
    BY <1>1, <2>1, NothingMadeKeepsKeys
<1> QED
  BY <1>2, <1>3

LEMMA SubmitKeepsKeys ==
  ASSUME Typed, KeysBelongTogether, SubmitStep
  PROVE  KeysBelongTogether'
<1>1. MadeFromAKey(proof)
  BY DEF SubmitStep, Submit, CanSubmit, Typed, ReadyHasProof, KeysBelongTogether,
         ProofsHaveTheirKeys
<1>2. \A s \in submissions' : s \in submissions \/ s.proof = proof
  BY DEF SubmitStep, Submit
<1>3. UNCHANGED <<private, calls, proof, asked, transactions>>
  BY DEF SubmitStep, Submit
<1> QED
  BY <1>1, <1>2, <1>3 DEF KeysBelongTogether, ProofsHaveTheirKeys, MadeFromAKey

LEMMA HandleKeepsKeys ==
  ASSUME Typed, KeysBelongTogether, NEW s \in submissions, Poll(s) \/ Handle(s)
  PROVE  KeysBelongTogether'
<1>1. s \in Submissions
  BY DEF Typed, TypeOK, PanelTypeOK
<1>2. UNCHANGED <<private, calls, proof, asked>>
  BY DEF Poll, Handle, PollAgain, Issued, NotIssued, Simulate, Send, SubmissionFails, Report,
         ReportError, flowVars, pageVars
<1>3. \A r \in submissions' : r \in submissions \/ r.proof = s.proof
  <2>1. /\ [s EXCEPT !.stage = "signing"].proof = s.proof
        /\ [s EXCEPT !.stage = "polling", !.tx = Len(transactions) + 1].proof = s.proof
        /\ [s EXCEPT !.polls = @ + 1].proof = s.proof
    BY <1>1 DEF Submissions
  <2>2. CASE Simulate(s)
    BY <2>1, <2>2 DEF Simulate, Proceed
  <2>3. CASE Send(s)
    BY <2>1, <2>3 DEF Send, Proceed
  <2>4. CASE PollAgain(s)
    BY <2>1, <2>4 DEF PollAgain, Proceed
  <2>5. CASE Issued(s) \/ NotIssued(s) \/ SubmissionFails(s)
    BY <2>5 DEF Issued, NotIssued, SubmissionFails, Return
  <2> QED
    BY <2>2, <2>3, <2>4, <2>5 DEF Poll, Handle
<1>4. \A t \in DOMAIN transactions' :
        \/ t \in DOMAIN transactions /\ transactions'[t] = transactions[t]
        \/ transactions'[t].proof = s.proof
  <2>1. transactions \in Seq(Sent)
    BY DEF Typed, TypeOK, PanelTypeOK
  <2>2. CASE Send(s)
    BY <2>1, <2>2 DEF Send
  <2>3. CASE ~Send(s)
    BY <2>3 DEF Poll, Handle, PollAgain, Issued, NotIssued, Simulate, SubmissionFails
  <2> QED
    BY <2>2, <2>3
<1> QED
  BY <1>2, <1>3, <1>4 DEF KeysBelongTogether, ProofsHaveTheirKeys, MadeFromAKey

(* The network changes results only. *)
LEMMA NetworkKeepsSent ==
  ASSUME Typed, NetworkStep
  PROVE  /\ DOMAIN transactions' = DOMAIN transactions
         /\ \A t \in DOMAIN transactions :
              /\ transactions'[t].proof = transactions[t].proof
              /\ transactions'[t].owner = transactions[t].owner
              /\ transactions[t].result = "success" => transactions'[t].result = "success"
<1>1. PICK t \in DOMAIN transactions : Include(t) \/ Drop(t)
  BY DEF NetworkStep
<1>2. PICK result : transactions' = [transactions EXCEPT ![t].result = result]
  BY <1>1 DEF Include, Drop
<1>3. transactions \in Seq(Sent) /\ transactions[t].result # "success"
  BY <1>1 DEF Include, Drop, Typed, TypeOK, PanelTypeOK
<1>4. \A u \in DOMAIN transactions : transactions[u] \in Sent
  BY <1>3
<1> QED
  BY <1>1, <1>2, <1>3, <1>4 DEF Sent

LEMMA StepKeepsKeys == Typed /\ KeysBelongTogether /\ [Next]_vars => KeysBelongTogether'
<1> SUFFICES ASSUME Typed, KeysBelongTogether, [Next]_vars PROVE KeysBelongTogether'
  OBVIOUS
<1>1. CASE ConnectStep \/ LateSaveStep \/ UNCHANGED vars
  <2>1. UNCHANGED <<private, calls, proof, asked, submissions, transactions>>
    BY <1>1 DEF ConnectStep, LateSaveStep, SaveLate, vars, flowVars, pageVars, panelVars
  <2> QED
    BY <2>1, NothingMadeKeepsKeys
<1>2. CASE NetworkStep
  <2>1. UNCHANGED <<private, calls, proof, asked, submissions>>
    BY <1>2 DEF NetworkStep, Include, Drop, flowVars, pageVars
  <2> QED
    BY <1>2, <2>1, NetworkKeepsSent DEF KeysBelongTogether, ProofsHaveTheirKeys, MadeFromAKey
<1> QED
  BY <1>1, <1>2, PageKeepsKeys, UserKeepsKeys, AnswerKeepsKeys, SubmitKeepsKeys, HandleKeepsKeys
  DEF Next

(***************************************************************************)
(* No proof shown or sent was made from lost keys or for another wallet    *)
(* than the one its keys were drawn for.                                   *)
(***************************************************************************)
THEOREM ProofsAlwaysHaveTheirKeys == Spec => []ProofsHaveTheirKeys
<1>1. KeysBelongTogether => ProofsHaveTheirKeys
  BY DEF KeysBelongTogether
<1> QED
  BY <1>1, AlwaysTyped, InitKeys, StepKeepsKeys, PTL DEF Spec

------------------------------------------------------------------------------
(***************************************************************************)
(* Credentials.  A submission that polls asks for a transaction with its   *)
(* own proof and owner, and a success on the ledger stays one.             *)
(***************************************************************************)
AskedForOwn ==
  \A s \in submissions :
    s.stage = "polling" =>
      /\ s.tx \in DOMAIN transactions
      /\ transactions[s.tx].proof = s.proof
      /\ transactions[s.tx].owner = s.owner

OnLedger(n, owner) ==
  \E t \in DOMAIN transactions :
    /\ transactions[t].result = "success"
    /\ Nullifier(transactions[t].proof) = n
    /\ transactions[t].owner = owner

ShownInv ==
  /\ AskedForOwn
  /\ credential # None => OnLedger(credential.nullifier, credential.owner)

LEMMA InitShown == Init => ShownInv
BY DEF Init, SubmissionInit, ShownInv, AskedForOwn

LEMMA LedgerStepsOnly ==
  [Next]_vars => NetworkStep \/ UNCHANGED transactions \/ \E s \in submissions : Send(s)
<1> SUFFICES ASSUME [Next]_vars
             PROVE  NetworkStep \/ UNCHANGED transactions \/ \E s \in submissions : Send(s)
  OBVIOUS
<1>1. ASSUME MountOrNot
      PROVE  UNCHANGED transactions
  BY <1>1 DEF MountOrNot, LeavePanel, panelVars
<1>2. ASSUME NEW s \in submissions, Poll(s) \/ Handle(s), ~Send(s)
      PROVE  UNCHANGED transactions
  BY <1>2 DEF Poll, Handle, PollAgain, Issued, NotIssued, Simulate, SubmissionFails
<1> QED
  BY <1>1, <1>2 DEF Next, vars, panelVars, ConnectStep, AddressStep, SwitchTab, LoadPage,
                    UserStep, Answer, LateSaveStep, SubmitStep, Submit

(* The ledger only grows, and forgets no success. *)
LEMMA LedgerLasts ==
  ASSUME Typed, [Next]_vars
  PROVE  \A t \in DOMAIN transactions :
           /\ t \in DOMAIN transactions'
           /\ transactions'[t].proof = transactions[t].proof
           /\ transactions'[t].owner = transactions[t].owner
           /\ transactions[t].result = "success" => transactions'[t].result = "success"
<1>1. CASE NetworkStep
  BY <1>1, NetworkKeepsSent
<1>2. CASE UNCHANGED transactions
  BY <1>2
<1>3. ASSUME NEW s \in submissions, Send(s)
      PROVE  \A t \in DOMAIN transactions :
               t \in DOMAIN transactions' /\ transactions'[t] = transactions[t]
  <2>1. transactions \in Seq(Sent)
    BY DEF Typed, TypeOK, PanelTypeOK
  <2> QED
    BY <1>3, <2>1 DEF Send
<1> QED
  BY <1>1, <1>2, <1>3, LedgerStepsOnly

LEMMA StepAsksForOwn ==
  ASSUME Typed, AskedForOwn, [Next]_vars
  PROVE  AskedForOwn'
<1>1. ASSUME \A s \in submissions' : s.stage = "polling" =>
               \E r \in submissions : /\ r.stage = "polling"
                                      /\ s.tx = r.tx /\ s.proof = r.proof /\ s.owner = r.owner
      PROVE  AskedForOwn'
  BY <1>1, LedgerLasts DEF AskedForOwn
<1>2. CASE UNCHANGED submissions
  BY <1>1, <1>2
<1>3. CASE LeavePanel
  <2>1. ASSUME NEW s \in submissions', s.stage = "polling"
        PROVE  \E r \in submissions : /\ r.stage = "polling"
                                      /\ s.tx = r.tx /\ s.proof = r.proof /\ s.owner = r.owner
    <3>1. PICK r \in submissions :
            s = IF r.mounted THEN [r EXCEPT !.mounted = FALSE, !.left = challenge] ELSE r
      BY <1>3, <2>1 DEF LeavePanel
    <3>2. r \in Submissions
      BY DEF Typed, TypeOK, PanelTypeOK
    <3> QED
      BY <2>1, <3>1, <3>2 DEF Submissions
  <2> QED
    BY <1>1, <2>1
<1>4. CASE LoadPage
  BY <1>4 DEF LoadPage, AskedForOwn
<1>5. CASE SubmitStep
  <2>1. \A s \in submissions' : s \in submissions \/ s.stage = "preparing"
    BY <1>5 DEF SubmitStep, Submit
  <2> QED
    BY <1>1, <2>1
<1>6. ASSUME NEW s \in submissions, Poll(s) \/ Handle(s)
      PROVE  AskedForOwn'
  <2>1. s \in Submissions
    BY DEF Typed, TypeOK, PanelTypeOK
  <2>2. CASE Simulate(s)
    <3>1. [s EXCEPT !.stage = "signing"].stage = "signing"
      BY <2>1 DEF Submissions
    <3>2. \A r \in submissions' : r \in submissions \/ r.stage = "signing"
      BY <2>2, <3>1 DEF Simulate, Proceed
    <3> QED
      BY <1>1, <3>2
  <2>3. CASE Send(s)
    <3> DEFINE next == [s EXCEPT !.stage = "polling", !.tx = Len(transactions) + 1]
    <3>1. next.tx = Len(transactions) + 1 /\ next.proof = s.proof /\ next.owner = s.owner
      BY <2>1 DEF Submissions
    <3>2. /\ Len(transactions) + 1 \in DOMAIN transactions'
          /\ transactions'[Len(transactions) + 1].proof = s.proof
          /\ transactions'[Len(transactions) + 1].owner = s.owner
      BY <2>3 DEF Send, Typed, TypeOK, PanelTypeOK
    <3>3. \A r \in submissions' : r \in submissions \/ r = next
      BY <2>3 DEF Send, Proceed
    <3> HIDE DEF next
    <3>4. ASSUME NEW r \in submissions', r.stage = "polling"
          PROVE  /\ r.tx \in DOMAIN transactions'
                 /\ transactions'[r.tx].proof = r.proof
                 /\ transactions'[r.tx].owner = r.owner
      <4>1. CASE r \in submissions
        BY <3>4, <4>1, LedgerLasts DEF AskedForOwn
      <4>2. CASE r = next
        BY <3>1, <3>2, <4>2
      <4> QED
        BY <3>3, <4>1, <4>2
    <3> QED
      BY <3>4 DEF AskedForOwn
  <2>4. CASE PollAgain(s)
    <3> DEFINE next == [s EXCEPT !.polls = @ + 1]
    <3>1. next.tx = s.tx /\ next.proof = s.proof /\ next.owner = s.owner /\ s.stage = "polling"
      BY <2>1, <2>4 DEF Submissions, PollAgain
    <3>2. \A r \in submissions' : r \in submissions \/ r = next
      BY <2>4 DEF PollAgain, Proceed
    <3> QED
      BY <1>1, <3>1, <3>2
  <2>5. CASE Issued(s) \/ NotIssued(s) \/ SubmissionFails(s)
    BY <1>1, <2>5 DEF Issued, NotIssued, SubmissionFails, Return
  <2> QED
    BY <1>6, <2>2, <2>3, <2>4, <2>5 DEF Poll, Handle
<1>7. MountOrNot => LeavePanel \/ UNCHANGED submissions
  BY DEF MountOrNot, panelVars
<1> QED
  BY <1>2, <1>3, <1>4, <1>5, <1>6, <1>7
  DEF Next, vars, panelVars, ConnectStep, AddressStep, SwitchTab, UserStep, Answer, LateSaveStep,
      NetworkStep, Include, Drop

LEMMA StepKeepsShown == Typed /\ ShownInv /\ [Next]_vars => ShownInv'
<1> SUFFICES ASSUME Typed, ShownInv, [Next]_vars PROVE ShownInv'
  OBVIOUS
<1>1. AskedForOwn'
  BY StepAsksForOwn DEF ShownInv
<1>2. \A n, owner : OnLedger(n, owner) => OnLedger(n, owner)'
  BY LedgerLasts DEF OnLedger, Nullifier
<1>3. CASE credential' \in {credential, None}
  BY <1>1, <1>2, <1>3 DEF ShownInv
<1>4. ASSUME NEW s \in submissions, Issued(s)
      PROVE  credential' # credential => OnLedger(credential'.nullifier, credential'.owner)
  <2>1. /\ s.tx \in DOMAIN transactions
        /\ transactions[s.tx].result = "success"
        /\ transactions[s.tx].proof = s.proof
        /\ transactions[s.tx].owner = s.owner
    BY <1>4 DEF Issued, Succeeded, TransactionStatus, ShownInv, AskedForOwn
  <2>2. OnLedger(Nullifier(s.proof), s.owner)
    BY <2>1 DEF OnLedger
  <2> QED
    BY <1>4, <2>2 DEF Issued
<1>5. \/ credential' \in {credential, None}
      \/ \E s \in submissions : Issued(s)
  <2>1. MountOrNot => credential' \in {credential, None}
    BY DEF MountOrNot, LeavePanel, panelVars
  <2>2. \A s \in submissions : Poll(s) \/ Handle(s) => Issued(s) \/ credential' = credential
    BY DEF Poll, Handle, PollAgain, NotIssued, Simulate, Send, SubmissionFails
  <2> QED
    BY <2>1, <2>2 DEF Next, vars, panelVars, ConnectStep, AddressStep, SwitchTab, LoadPage,
         UserStep, Answer, LateSaveStep, SubmitStep, Submit, NetworkStep, Include, Drop
<1> QED
  BY <1>1, <1>2, <1>3, <1>4, <1>5 DEF ShownInv

(***************************************************************************)
(* The page offers only proofs it has, and shows only credentials that the *)
(* ledger has.                                                             *)
(***************************************************************************)
THEOREM ShownIsAlwaysReal == Spec => []ShownIsReal
<1>1. Typed /\ ShownInv => ShownIsReal
  BY DEF Typed, ReadyHasProof, ShownInv, OnLedger, ShownIsReal
<1> QED
  BY <1>1, AlwaysTyped, InitShown, StepKeepsShown, PTL DEF Spec

------------------------------------------------------------------------------
(***************************************************************************)
(* The issuance that the page implements.  A transaction included adds its *)
(* credential to those on the ledger; any other step leaves them alone.    *)
(***************************************************************************)
CredentialOf(t) ==
  [nullifier |-> Nullifier(transactions[t].proof), owner |-> transactions[t].owner]

LEMMA OnTheLedgerMeans ==
  \A c : c \in OnTheLedger <=>
    \E t \in DOMAIN transactions : transactions[t].result = "success" /\ c = CredentialOf(t)
BY DEF OnTheLedger, CredentialOf

LEMMA OnTheLedgerMeansThen ==
  \A c : c \in OnTheLedger' <=>
    \E t \in DOMAIN transactions' : transactions'[t].result = "success" /\ c = CredentialOf(t)'
BY DEF OnTheLedger, CredentialOf

LEMMA SendIssuesNothing ==
  ASSUME Typed, NEW s \in submissions, Send(s)
  PROVE  OnTheLedger' = OnTheLedger
<1> DEFINE sent == [proof |-> s.proof, owner |-> s.owner, result |-> "pending"]
<1>1. /\ transactions \in Seq(Sent)
      /\ transactions' = Append(transactions, sent)
      /\ sent.result = "pending"
  BY DEF Send, Typed, TypeOK, PanelTypeOK
<1> HIDE DEF sent
<1>2. \A t \in DOMAIN transactions : t \in DOMAIN transactions' /\ transactions'[t] = transactions[t]
  BY <1>1
<1>3. \A t \in DOMAIN transactions' : t \in DOMAIN transactions \/ transactions'[t] = sent
  BY <1>1
<1>4. \A c : c \in OnTheLedger => c \in OnTheLedger'
  BY <1>2, OnTheLedgerMeans, OnTheLedgerMeansThen DEF CredentialOf, Nullifier
<1>5. \A c : c \in OnTheLedger' => c \in OnTheLedger
  BY <1>1, <1>2, <1>3, OnTheLedgerMeans, OnTheLedgerMeansThen DEF CredentialOf, Nullifier
<1> QED
  BY <1>4, <1>5

LEMMA NetworkIssues ==
  ASSUME Typed, NetworkStep
  PROVE  Issuance!Next \/ UNCHANGED Issuance!issuanceVars
<1>1. UNCHANGED <<credential, status>> /\ transactions \in Seq(Sent)
  BY DEF NetworkStep, Include, Drop, flowVars, pageVars, Typed, TypeOK, PanelTypeOK
<1>2. PICK t \in DOMAIN transactions : Include(t) \/ Drop(t)
  BY DEF NetworkStep
<1>3. PICK result \in {"success", "failed", "dropped"} :
        /\ transactions[t].result = "pending"
        /\ result = "success" => ~IsIssued(Nullifier(transactions[t].proof))
        /\ transactions' = [transactions EXCEPT ![t].result = result]
  BY <1>2 DEF Include, Drop
<1>4. /\ DOMAIN transactions' = DOMAIN transactions
      /\ \A u \in DOMAIN transactions :
           /\ CredentialOf(u)' = CredentialOf(u)
           /\ u # t => transactions'[u] = transactions[u]
      /\ transactions'[t].result = result
  <2>1. transactions[t] \in Sent
    BY <1>1
  <2> QED
    BY <1>1, <1>3, <2>1 DEF Sent, CredentialOf, Nullifier
<1>5. CASE result = "success"
  <2>1. \A c : c \in OnTheLedger' <=> c \in OnTheLedger \/ c = CredentialOf(t)
    BY <1>3, <1>4, <1>5, OnTheLedgerMeans, OnTheLedgerMeansThen
  <2>2. OnTheLedger' = OnTheLedger \cup {CredentialOf(t)}
    BY <2>1
  <2>3. ASSUME NEW other \in OnTheLedger
        PROVE  other.nullifier # CredentialOf(t).nullifier
    <3>1. PICK u \in DOMAIN transactions :
            transactions[u].result = "success" /\ other = CredentialOf(u)
      BY OnTheLedgerMeans
    <3> QED
      BY <1>3, <1>5, <3>1 DEF CredentialOf, IsIssued
  <2>4. CredentialOf(t) \in [nullifier : Domains \X (1 .. MaxChallenges), owner : Wallets]
    <3>1. transactions[t] \in Sent
      BY <1>1
    <3> QED
      BY <3>1, NullifierType DEF Sent, CredentialOf, Keys
  <2>5. Issuance!Issue(CredentialOf(t))
    BY <1>1, <2>2, <2>3 DEF Issuance!Issue
  <2> QED
    BY <2>4, <2>5 DEF Issuance!Next, Keys
<1>6. CASE result # "success"
  <2>1. \A c : c \in OnTheLedger' <=> c \in OnTheLedger
    BY <1>3, <1>4, <1>6, OnTheLedgerMeans, OnTheLedgerMeansThen
  <2> QED
    BY <1>1, <2>1 DEF Issuance!issuanceVars
<1> QED
  BY <1>5, <1>6

LEMMA IssuedAnnounces ==
  ASSUME Typed, ShownInv, NEW s \in submissions, Issued(s)
  PROVE  Issuance!Next \/ UNCHANGED Issuance!issuanceVars
<1>1. OnTheLedger' = OnTheLedger
  BY DEF Issued, OnTheLedger, Nullifier
<1>2. CASE s.mounted
  <2> DEFINE c == [nullifier |-> Nullifier(s.proof), owner |-> s.owner]
  <2>1. credential' = c /\ status' = "credential_issued"
    BY <1>2 DEF Issued, Report, SetStatus
  <2>2. /\ s.tx \in DOMAIN transactions
        /\ transactions[s.tx].result = "success"
        /\ CredentialOf(s.tx) = c
    BY DEF Issued, Succeeded, TransactionStatus, ShownInv, AskedForOwn, CredentialOf
  <2>3. c \in OnTheLedger
    BY <2>2, OnTheLedgerMeans
  <2> HIDE DEF c
  <2> QED
    BY <1>1, <2>1, <2>3 DEF Issuance!Next, Issuance!Announce
<1>3. CASE ~s.mounted
  BY <1>1, <1>3 DEF Issued, Report, Issuance!issuanceVars
<1> QED
  BY <1>2, <1>3

(* Whatever else happens changes nothing, or makes the page forget. *)
ForgetsOrKeeps ==
  \/ UNCHANGED <<credential, status>>
  \/ status' # "credential_issued" /\ credential' \in {credential, None}

LEMMA OthersForget ==
  ASSUME Typed, [Next]_vars, ~NetworkStep, \A s \in submissions : ~Issued(s)
  PROVE  ForgetsOrKeeps
<1>1. MountOrNot => ForgetsOrKeeps
  BY DEF MountOrNot, Mount, Unmount, Forget, RestoredStatus, RestorableStatuses, LeavePanel,
         flowVars, pageVars, panelVars, ForgetsOrKeeps
<1>2. LoadPage => ForgetsOrKeeps
  BY DEF LoadPage, Reload, Forget, ForgetsOrKeeps
<1>3. UserStep => ForgetsOrKeeps
  BY DEF UserStep, GenerateChallenge, CheckDNSSEC, GenerateProof, Reset, Forget, SetStatus,
         SetError, panelVars, ForgetsOrKeeps
<1>4. \A c \in calls : Answer(c) => ForgetsOrKeeps
  BY DEF Answer, ChallengeDerived, ChallengeFails, DNSSECFound, DNSSECFails, ProofArrives,
         ProofFails, SetStatus, SetError, panelVars, ForgetsOrKeeps
<1>5. LateSaveStep \/ ConnectStep \/ UNCHANGED vars => ForgetsOrKeeps
  BY DEF LateSaveStep, SaveLate, ConnectStep, vars, flowVars, pageVars, panelVars, ForgetsOrKeeps
<1>6. SubmitStep => ForgetsOrKeeps
  BY DEF SubmitStep, Submit, SetStatus, ForgetsOrKeeps
<1>7. \A s \in submissions : Poll(s) \/ Handle(s) => ForgetsOrKeeps
  BY DEF Poll, Handle, PollAgain, NotIssued, SubmissionFails, Simulate, Send, ReportError, SetError,
         flowVars, pageVars, ForgetsOrKeeps
<1> QED
  BY <1>1, <1>2, <1>3, <1>4, <1>5, <1>6, <1>7 DEF Next, AddressStep, SwitchTab

LEMMA StepIssues ==
  ASSUME Typed, ShownInv, [Next]_vars
  PROVE  Issuance!Next \/ UNCHANGED Issuance!issuanceVars
<1>1. CASE ~NetworkStep /\ \A s \in submissions : ~Issued(s)
  <2>1. OnTheLedger' = OnTheLedger
    <3>1. (\E s \in submissions : Send(s)) \/ UNCHANGED transactions
      BY <1>1, LedgerStepsOnly
    <3>2. UNCHANGED transactions => OnTheLedger' = OnTheLedger
      BY DEF OnTheLedger, Nullifier
    <3> QED
      BY <3>1, <3>2, SendIssuesNothing
  <2>2. ForgetsOrKeeps
    BY <1>1, OthersForget
  <2> QED
    BY <2>1, <2>2 DEF ForgetsOrKeeps, Issuance!Next, Issuance!Forget, Issuance!issuanceVars
<1> QED
  BY <1>1, NetworkIssues, IssuedAnnounces

(***************************************************************************)
(* The page implements the issuance it promises, for any wallets, domains  *)
(* and bounds.                                                             *)
(***************************************************************************)
THEOREM TabImplementsIssuance == Spec => ImplementsIssuance
<1>1. Init => Issuance!Init
  BY OnTheLedgerMeans DEF Init, FlowInit, SubmissionInit, Issuance!Init
<1>2. Typed /\ ShownInv /\ [Next]_vars => [Issuance!Next]_(Issuance!issuanceVars)
  BY StepIssues
<1> QED
  BY <1>1, <1>2, AlwaysTyped, InitShown, StepKeepsShown, PTL DEF Spec, ImplementsIssuance, Issuance!Spec

------------------------------------------------------------------------------
(***************************************************************************)
(* Stranding.  A challenge saved as generated comes with its challenge,    *)
(* now or from a call of a hook that is gone, so that no mounting restores *)
(* a page without a way out; and a submission that reports is the only one *)
(* with its number, so that its answer is its own.                         *)
(***************************************************************************)
SavedIsWhole(saved) ==
  saved # None /\ saved.status = "challenge_generated" => saved.challenge # None

SavesAreWhole == SavedIsWhole(session) /\ \A saved \in late_saves : SavedIsWhole(saved)
NumbersDiffer == \A r, s \in submissions : r.id = s.id => r = s

StrandedInv == SavesAreWhole /\ NumbersDiffer

LEMMA LateSaveIsWhole ==
  ASSUME Typed, NEW c \in calls
  PROVE  SavedIsWhole(LateSave(c))
<1>1. c.of \in CallContents
  BY DEF Typed, TypeOK, FlowTypeOK
<1>2. c.of.kind = "challenge" => c.of.challenge \in Challenge
  BY <1>1 DEF CallContents
<1> QED
  BY <1>1, <1>2 DEF LateSave, SavedIsWhole, CallContents

LEMMA StepKeepsSavesWhole ==
  ASSUME Typed, SavesAreWhole, [Next]_vars
  PROVE  SavesAreWhole'
<1>1. ASSUME late_saves' \subseteq late_saves,
             \/ session' \in {session, None} \cup late_saves
             \/ session'.status # "challenge_generated" \/ session'.challenge # None
      PROVE  SavesAreWhole'
  BY <1>1 DEF SavesAreWhole, SavedIsWhole
<1>2. CASE MountOrNot
  <2>1. CASE Unmount
    <3>1. \A saved \in late_saves' : saved \in late_saves \/ \E c \in calls : saved = LateSave(c)
      BY <2>1 DEF Unmount
    <3>2. \A saved \in late_saves' : SavedIsWhole(saved)
      BY <3>1, LateSaveIsWhole DEF SavesAreWhole
    <3>3. session' = session
      BY <2>1 DEF Unmount
    <3> QED
      BY <3>2, <3>3 DEF SavesAreWhole, SavedIsWhole
  <2>2. CASE Mount \/ UNCHANGED <<flowVars, panelVars>>
    BY <1>1, <2>2 DEF Mount, flowVars, pageVars
  <2> QED
    BY <1>2, <2>1, <2>2 DEF MountOrNot
<1>3. CASE LoadPage \/ LateSaveStep
  BY <1>1, <1>3 DEF LoadPage, Reload, LateSaveStep, SaveLate
<1>4. CASE ConnectStep \/ NetworkStep \/ UNCHANGED vars
  BY <1>1, <1>4 DEF ConnectStep, NetworkStep, vars, flowVars, pageVars
<1>5. CASE UserStep \/ SubmitStep
  <2>1. late_saves' = late_saves
    BY <1>5 DEF UserStep, GenerateChallenge, CheckDNSSEC, GenerateProof, Reset, SubmitStep, Submit
  <2>2. CASE Reset \/ \E d \in Domains : GenerateChallenge(d)
    BY <1>1, <2>1, <2>2 DEF Reset, GenerateChallenge
  <2>3. CASE CheckDNSSEC \/ GenerateProof \/ Submit
    <3>1. \/ session' = session
          \/ session'.status \in {"dnssec_checking", "proving", "submitting"}
      BY <2>3 DEF CheckDNSSEC, GenerateProof, Submit, SetStatus, SetError
    <3> QED
      BY <1>1, <2>1, <3>1
  <2> QED
    BY <1>5, <2>2, <2>3 DEF UserStep, SubmitStep
<1>6. ASSUME NEW c \in calls, Answer(c)
      PROVE  SavesAreWhole'
  <2>1. c.of \in CallContents
    BY DEF Typed, TypeOK, FlowTypeOK
  <2>2. c.of.kind = "challenge" => c.of.challenge \in Challenge
    BY <2>1 DEF CallContents
  <2> QED
    BY <1>1, <1>6, <2>2 DEF Answer, ChallengeDerived, ChallengeFails, DNSSECFound, DNSSECFails,
                            ProofArrives, ProofFails, SetStatus, SetError
<1>7. ASSUME NEW s \in submissions, Poll(s) \/ Handle(s)
      PROVE  SavesAreWhole'
  <2>1. \/ Report(s, "credential_issued") \/ ReportError(s) \/ UNCHANGED flowVars
    BY <1>7 DEF Poll, Handle, PollAgain, Issued, NotIssued, Simulate, Send, SubmissionFails
  <2>2. ASSUME Report(s, "credential_issued")
        PROVE  session' = session \/ session'.status = "credential_issued"
    BY <2>2 DEF Report, SetStatus
  <2>3. late_saves' = late_saves
    BY <2>1 DEF Report, ReportError, flowVars
  <2>4. ReportError(s) \/ UNCHANGED flowVars => session' = session
    BY DEF ReportError, SetError, flowVars
  <2> QED
    BY <1>1, <2>1, <2>2, <2>3, <2>4
<1> QED
  BY <1>2, <1>3, <1>4, <1>5, <1>6, <1>7 DEF Next, AddressStep, SwitchTab

LEMMA StepKeepsNumbersDifferent ==
  ASSUME Typed, NumbersDiffer, [Next]_vars
  PROVE  NumbersDiffer'
<1>1. CASE UNCHANGED submissions
  BY <1>1 DEF NumbersDiffer
<1>2. CASE LeavePanel
  <2> DEFINE left(s) == IF s.mounted THEN [s EXCEPT !.mounted = FALSE, !.left = challenge] ELSE s
  <2>1. ASSUME NEW s \in submissions
        PROVE  left(s).id = s.id
    BY DEF Typed, TypeOK, PanelTypeOK, Submissions
  <2>2. submissions' = {left(s) : s \in submissions}
    BY <1>2 DEF LeavePanel
  <2> HIDE DEF left
  <2>3. ASSUME NEW r \in submissions', NEW s \in submissions', r.id = s.id
        PROVE  r = s
    <3>1. PICK q \in submissions : r = left(q)
      BY <2>2
    <3>2. PICK t \in submissions : s = left(t)
      BY <2>2
    <3>3. q.id = t.id
      BY <2>1, <2>3, <3>1, <3>2
    <3> QED
      BY <3>1, <3>2, <3>3 DEF NumbersDiffer
  <2> QED
    BY <2>3 DEF NumbersDiffer
<1>3. CASE LoadPage
  BY <1>3 DEF LoadPage, NumbersDiffer
<1>4. CASE SubmitStep
  <2> DEFINE new == [id |-> NewId(submissions), proof |-> proof, owner |-> address,
                     stage |-> "preparing", tx |-> 0, polls |-> 0, mounted |-> TRUE, left |-> None]
  <2>1. submissions' = submissions \cup {new} /\ NewId(submissions) \in FreeIds(submissions)
    BY <1>4 DEF SubmitStep, Submit, NewId
  <2>2. \A r \in submissions : r.id # new.id
    BY <2>1 DEF FreeIds
  <2> HIDE DEF new
  <2> QED
    BY <2>1, <2>2 DEF NumbersDiffer
<1>5. ASSUME NEW s \in submissions, Poll(s) \/ Handle(s)
      PROVE  NumbersDiffer'
  <2>1. ASSUME NEW next, next.id = s.id, Proceed(s, next)
        PROVE  NumbersDiffer'
    BY <2>1 DEF Proceed, NumbersDiffer
  <2>2. s \in Submissions
    BY DEF Typed, TypeOK, PanelTypeOK
  <2>3. /\ [s EXCEPT !.stage = "signing"].id = s.id
        /\ [s EXCEPT !.stage = "polling", !.tx = Len(transactions) + 1].id = s.id
        /\ [s EXCEPT !.polls = @ + 1].id = s.id
    BY <2>2 DEF Submissions
  <2>4. CASE Simulate(s)
    BY <2>1, <2>3, <2>4 DEF Simulate
  <2>5. CASE Send(s)
    BY <2>1, <2>3, <2>5 DEF Send
  <2>6. CASE PollAgain(s)
    BY <2>1, <2>3, <2>6 DEF PollAgain
  <2>7. CASE Issued(s) \/ NotIssued(s) \/ SubmissionFails(s)
    BY <2>7 DEF Issued, NotIssued, SubmissionFails, Return, NumbersDiffer
  <2> QED
    BY <1>5, <2>4, <2>5, <2>6, <2>7 DEF Poll, Handle
<1>6. MountOrNot => LeavePanel \/ UNCHANGED submissions
  BY DEF MountOrNot, panelVars
<1> QED
  BY <1>1, <1>2, <1>3, <1>4, <1>5, <1>6
  DEF Next, vars, panelVars, ConnectStep, AddressStep, SwitchTab, UserStep, Answer, LateSaveStep,
      NetworkStep, Include, Drop

LEMMA OnlyLateAnswersStrandNow ==
  ASSUME Typed, StrandedInv, [Next]_vars, ~Stranded, Stranded'
  PROVE  LateAnswer
<1>1. CASE UNCHANGED <<status, challenge, address, tab>>
  BY <1>1 DEF Stranded, IsMounted
<1>2. CASE MountOrNot
  <2>1. CASE ~IsMounted /\ IsMounted' /\ Mount
    <3>1. status' = RestoredStatus /\ challenge' = RestoredChallenge
      BY <2>1 DEF Mount
    <3>2. RestoredStatus = "challenge_generated" => RestoredChallenge # None
      BY DEF RestoredStatus, RestoredChallenge, RestorableStatuses, StrandedInv, SavesAreWhole,
             SavedIsWhole
    <3>3. RestoredStatus \in {"idle", "challenge_generated"}
      BY DEF RestoredStatus, RestorableStatuses
    <3> QED
      BY <3>1, <3>2, <3>3 DEF Stranded
  <2>2. CASE Unmount
    BY <2>2 DEF Unmount, Forget, Stranded
  <2>3. CASE IsMounted' = IsMounted /\ UNCHANGED <<flowVars, panelVars>>
    BY <2>3 DEF Stranded, flowVars, pageVars
  <2> QED
    BY <1>2, <2>1, <2>2, <2>3 DEF MountOrNot
<1>3. CASE LoadPage
  BY <1>3 DEF LoadPage, Reload, Forget, Stranded
<1>4. CASE UserStep \/ SubmitStep
  <2>1. UNCHANGED <<address, tab>>
    BY <1>4 DEF UserStep, SubmitStep, walletVars
  <2>2. IsMounted
    BY <1>4 DEF UserStep, SubmitStep
  <2>3. status = "idle" \/ challenge # None
    BY <2>2 DEF Stranded
  <2>4. status' = "idle" \/ (challenge' = challenge /\ (challenge = None => status' = status))
    BY <1>4, <2>3 DEF UserStep, GenerateChallenge, CheckDNSSEC, GenerateProof, CanProve, Reset,
                      Forget, SetStatus, SetError, SubmitStep, Submit, CanSubmit
  <2> QED
    BY <2>3, <2>4 DEF Stranded
<1>5. ASSUME NEW c \in calls, Answer(c)
      PROVE  LateAnswer
  <2>1. CASE c.of.kind \in {"dnssec", "prove"}
    <3>1. c \in calls \ calls'
      BY <1>5, <2>1 DEF Answer, ChallengeDerived, ChallengeFails, DNSSECFound, DNSSECFails,
                        ProofArrives, ProofFails, End
    <3> QED
      BY <2>1, <3>1 DEF LateAnswer
  <2>2. CASE ChallengeDerived(c)
    <3>1. c.of.challenge \in Challenge
      BY <2>2 DEF ChallengeDerived, Typed, TypeOK, FlowTypeOK, CallContents
    <3> QED
      BY <2>2, <3>1 DEF ChallengeDerived, SetStatus, Stranded
  <2>3. CASE ChallengeFails(c)
    BY <1>1, <1>5, <2>3 DEF Answer, ChallengeFails, walletVars
  <2> QED
    BY <1>5, <2>1, <2>2, <2>3 DEF Answer, DNSSECFound, DNSSECFails, ProofArrives, ProofFails
<1>6. ASSUME NEW s \in submissions, Poll(s) \/ Handle(s)
      PROVE  LateAnswer
  <2>1. UNCHANGED <<address, tab>>
    BY <1>6 DEF Poll, Handle, walletVars
  <2>2. CASE ~s.mounted \/ Simulate(s) \/ Send(s) \/ PollAgain(s)
    <3>1. UNCHANGED <<status, challenge>>
      BY <1>6, <2>2 DEF Poll, Handle, PollAgain, Issued, NotIssued, Simulate, Send,
                        SubmissionFails, Report, ReportError, flowVars, pageVars
    <3> QED
      BY <1>1, <2>1, <3>1
  <2>3. CASE s.mounted /\ Return(s)
    <3>1. \A r \in submissions' : r.id # s.id
      BY <2>3 DEF Return, StrandedInv, NumbersDiffer
    <3> QED
      BY <2>3, <3>1 DEF LateAnswer
  <2> QED
    BY <1>6, <2>2, <2>3 DEF Poll, Handle, Issued, NotIssued, SubmissionFails
<1>7. CASE ConnectStep \/ LateSaveStep \/ NetworkStep \/ UNCHANGED vars
  BY <1>1, <1>7 DEF ConnectStep, Connect, ConnectFails, CloseModal, SelectWallet, AddressRefused,
                    LateSaveStep, SaveLate, NetworkStep, vars, walletVars, flowVars, pageVars
<1> QED
  BY <1>2, <1>3, <1>4, <1>5, <1>6, <1>7 DEF Next, AddressStep, SwitchTab

(***************************************************************************)
(* Only an answer to what was asked before a reset, or its failure, leaves *)
(* the page with neither the form nor the button to start over: nothing    *)
(* the user does, no mounting and no reload does so.                       *)
(***************************************************************************)
THEOREM OnlyLateAnswersEverStrand == Spec => OnlyLateAnswersStrand
<1>1. Init => StrandedInv
  BY DEF Init, FlowInit, SubmissionInit, StrandedInv, SavesAreWhole, SavedIsWhole, NumbersDiffer
<1>2. Typed /\ StrandedInv /\ [Next]_vars => StrandedInv'
  BY StepKeepsSavesWhole, StepKeepsNumbersDifferent DEF StrandedInv
<1>3. Typed /\ StrandedInv /\ [Next]_vars => [~Stranded /\ Stranded' => LateAnswer]_vars
  BY OnlyLateAnswersStrandNow
<1> QED
  BY <1>1, <1>2, <1>3, AlwaysTyped, PTL DEF Spec, OnlyLateAnswersStrand
==============================================================================
