--------------------------- MODULE MCGetAssertion ---------------------------
(***************************************************************************)
(* A small instance of GetAssertion for TLC.                               *)
(*                                                                         *)
(* Five credentials: c1, c2, c3, c5 of rpA created at times 1, 2, 3, 4     *)
(* with credProtect 0 (none), 2 (UV optional with list), 3 (UV required)  *)
(* and 0; c4 of rpB.  The resident slots hold c1, an empty slot, c2, c3,   *)
(* c5, c4 and MAX_CREDENTIAL_COUNT_IN_LIST is 3, so a resident scan of rpA *)
(* stops before c5: with UV it yields c3, c2, c1, without UV only c1 (the *)
(* filter runs after the scan).  An allow list of c1, c2, c2 yields three *)
(* candidates without UV: sessions arise with and without a token.        *)
(***************************************************************************)
EXTENDS GetAssertion

CONSTANTS c1, c2, c3, c4, c5, rpA, rpB

MC_Cred == {c1, c2, c3, c4, c5}
MC_RP == {rpA, rpB}
MC_CredRp == (c1 :> rpA) @@ (c2 :> rpA) @@ (c3 :> rpA) @@ (c4 :> rpB) @@ (c5 :> rpA)
MC_Creation == (c1 :> 1) @@ (c2 :> 2) @@ (c3 :> 3) @@ (c4 :> 1) @@ (c5 :> 4)
MC_CredProtect == (c1 :> 0) @@ (c2 :> 2) @@ (c3 :> 3) @@ (c4 :> 0) @@ (c5 :> 0)
MC_Store == <<c1, NoCred, c2, c3, c5, c4>>

\* Allow lists: none (resident scan), public-key handles of rpA naming c2
\* twice (load_allow_list keeps both), a UV-required handle beside a
\* descriptor of another type.
AllowLists == {<<>>, <<c1, c2, c2>>, <<c3, OtherType>>}

\* The CBOR keys present: 1 rpId, 2 clientDataHash, 3 allowList.
KeysOf(allow) == IF allow = <<>> THEN <<1, 2>> ELSE <<1, 2, 3>>

Request(rp, allow, up, pin) ==
  [keys |-> KeysOf(allow), rp |-> rp, allow |-> allow, up |-> up, uv |-> Absent,
   rk |-> Absent, pin |-> pin, hmac |-> "none", lbk |-> Absent]

\* rpA with every allow list, option and token use; rpB by a resident scan
\* without a token (its single credential c4).
WellFormed ==
  { Request(rpA, a, up, pin) : a \in AllowLists, up \in {Absent, FALSE},
                               pin \in {"none", "valid"} }
  \cup { Request(rpB, <<>>, Absent, "none") }

\* A resident-scan request of rpA without a token.
Base == Request(rpA, <<>>, Absent, "none")

\* An allow list longer than the candidate arrays.
Oversized == { Request(rpA, <<c1, c2, c3, c4>>, Absent, "none") }

\* The requests of the session runs: the well-formed ones, an empty
\* pinUvAuthParam (the button wait of line 213) and a refused largeBlobKey
\* (after the presence step).  up = true and a bad MAC take the paths of
\* an absent up and a refused token.
SessionRequests ==
  WellFormed \cup { [Base EXCEPT !.pin = "empty"], [Base EXCEPT !.lbk = FALSE] }

MC_Requests == SessionRequests
MC_RequestsOversized == SessionRequests \cup Oversized
=============================================================================
