-------------------------- MODULE PaginationSession --------------------------
(***************************************************************************)
(* What the pagination session promises (spec 4.6), as a state machine:  *)
(* absent (no pages left) or active (the pages still to hand out).  A     *)
(* GetAssertion may open a session with a fresh list of credentials (an   *)
(* allow list may name one twice), or leave the session alone; each       *)
(* successful                                                              *)
(* GetNextAssertion serves the first remaining page and removes it; a     *)
(* refused one destroys the session.  served is the credential the last  *)
(* response of a GetNextAssertion carried, NoCred for any other response.*)
(***************************************************************************)
EXTENDS Naturals, Sequences

CONSTANTS
  Cred,      \* credentials
  NoCred,    \* no credential served
  MaxPages   \* capacity of a session after its first credential

VARIABLES pages, served

Init == pages = <<>> /\ served = NoCred

\* A GetAssertion replaces the session by a new list of credentials.
Open ==
  /\ pages' \in Seq(Cred)
  /\ pages' # <<>> /\ Len(pages') <= MaxPages
  /\ served' = NoCred

\* A GetAssertion that keeps whatever session there is.
Keep == pages' = pages /\ served' = NoCred

\* A GetNextAssertion answered with the first remaining credential.
Serve ==
  /\ pages # <<>>
  /\ served' = Head(pages)
  /\ pages' = Tail(pages)

\* A GetNextAssertion refused: the session is destroyed.
Refuse == pages' = <<>> /\ served' = NoCred

Next == Open \/ Keep \/ Serve \/ Refuse

Spec == Init /\ [][Next]_<<pages, served>>
=============================================================================
