---------------------------- MODULE WalletConnect ----------------------------
(***************************************************************************)
(* The wallet hook of the web application: connecting opens the wallet     *)
(* kit's modal, and the address arrives in a callback of the modal's own,  *)
(* whenever the chosen wallet gets round to giving it.                     *)
(***************************************************************************)
EXTENDS Integers

CONSTANTS
  Wallets,      \* the addresses the user's wallets have
  None,         \* no address, no challenge, no proof, ...
  MaxRequests   \* bound on the wallets asked at a time

ASSUME WalletAssumption ==
  /\ None \notin Wallets
  /\ MaxRequests \in Nat

VARIABLES
  address,        \* the connected address, or None
  modal,          \* whether the modal is open
  requests,       \* of each wallet: the getAddress calls it has not answered
  connect_error   \* whether the last attempt to open the modal failed

walletVars == <<address, modal, requests, connect_error>>

WalletInit ==
  /\ address = None
  /\ modal = FALSE
  /\ requests = [w \in Wallets |-> 0]
  /\ connect_error = FALSE

------------------------------------------------------------------------------
(* The buttons to connect are shown without an address and beside an error. *)
Connect ==
  /\ address = None \/ connect_error
  /\ ~modal
  /\ modal' = TRUE
  /\ connect_error' = FALSE
  /\ UNCHANGED <<address, requests>>

(* The kit cannot open its modal. *)
ConnectFails ==
  /\ modal
  /\ modal' = FALSE
  /\ connect_error' = TRUE
  /\ UNCHANGED <<address, requests>>

CloseModal ==
  /\ modal
  /\ modal' = FALSE
  /\ UNCHANGED <<address, requests, connect_error>>

(* onWalletSelected, up to its await. *)
SelectWallet(w) ==
  /\ modal
  /\ requests[w] < MaxRequests
  /\ modal' = FALSE
  /\ requests' = [requests EXCEPT ![w] = @ + 1]
  /\ UNCHANGED <<address, connect_error>>

(* onWalletSelected, after its await. *)
AddressArrives(w) ==
  /\ requests[w] > 0
  /\ requests' = [requests EXCEPT ![w] = @ - 1]
  /\ address' = w
  /\ UNCHANGED <<modal, connect_error>>

(* Nobody handles the rejection of onWalletSelected. *)
AddressRefused(w) ==
  /\ requests[w] > 0
  /\ requests' = [requests EXCEPT ![w] = @ - 1]
  /\ UNCHANGED <<address, modal, connect_error>>

(* Takes the address back and leaves calls to the wallets as they are. *)
Disconnect ==
  /\ address # None
  /\ address' = None
  /\ connect_error' = FALSE
  /\ UNCHANGED <<modal, requests>>
==============================================================================
