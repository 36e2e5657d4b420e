------------------------- MODULE CredentialIssuance --------------------------
(***************************************************************************)
(* What the proof tab promises its user, without pages, wallets, calls or  *)
(* polls: credentials come to be on the ledger, at most one for a          *)
(* nullifier, and none is lost; the page announces one only when it is     *)
(* there, shows it from then on, and may forget it at any time.            *)
(***************************************************************************)
CONSTANTS Credentials, Nobody

VARIABLES
  issued,      \* the credentials on the ledger
  shown,       \* the one the page shows, or Nobody
  announced    \* whether the page says that it has just been issued

issuanceVars == <<issued, shown, announced>>

Init == issued = {} /\ shown = Nobody /\ announced = FALSE

Issue(c) ==
  /\ \A other \in issued : other.nullifier # c.nullifier
  /\ issued' = issued \cup {c}
  /\ UNCHANGED <<shown, announced>>

Announce(c) ==
  /\ shown' = c
  /\ announced' = TRUE
  /\ UNCHANGED issued

Forget ==
  /\ shown' \in {shown, Nobody}
  /\ announced' = FALSE
  /\ UNCHANGED issued

Next ==
  \/ \E c \in Credentials : Issue(c)
  \/ \E c \in issued : Announce(c)
  \/ Forget

Spec == Init /\ [][Next]_issuanceVars
==============================================================================
