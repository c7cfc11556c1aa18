------------------------- MODULE MCU2fAuthenticate -------------------------
(***************************************************************************)
(* A small instance of U2fAuthenticate for TLC: one application a1 asks,  *)
(* with a handle made for it under the provisioned device key, one made   *)
(* for a2, one made under the key a blank device generates, one whose     *)
(* path is not hardened, and a resident credential id of a1.              *)
(***************************************************************************)
EXTENDS U2fAuthenticate

CONSTANTS a1, a2

MC_AppIds == {a1, a2}

Handle(kind, app, dev, hardened) ==
  [kind |-> kind, app |-> app, dev |-> dev, hardened |-> hardened]

MC_Handles ==
  { Handle("u2f", a1, DevKey, TRUE), Handle("u2f", a2, DevKey, TRUE),
    Handle("u2f", a1, NewKey, TRUE), Handle("u2f", a1, DevKey, FALSE),
    Handle("resident", a1, DevKey, TRUE) }

Apdu(cla, ins, p1, h, ncShort, khShort) ==
  [cla |-> cla, ins |-> ins, p1 |-> p1, app |-> a1, h |-> h,
   ncShort |-> ncShort, khShort |-> khShort]

Good == Handle("u2f", a1, DevKey, TRUE)

\* Every P1 with every handle, and one APDU for each early rejection.
MC_Requests ==
  { Apdu(0, "AUTHENTICATE", p1, h, FALSE, FALSE) :
      p1 \in {CTAP_AUTH_ENFORCE, CTAP_AUTH_CHECK_ONLY, CTAP_AUTH_DONT_ENFORCE},
      h \in MC_Handles }
  \cup { Apdu(1, "AUTHENTICATE", CTAP_AUTH_DONT_ENFORCE, Good, FALSE, FALSE),
         Apdu(0, "OTHER", CTAP_AUTH_DONT_ENFORCE, Good, FALSE, FALSE),
         Apdu(0, "AUTHENTICATE", CTAP_AUTH_ENFORCE, Good, TRUE, FALSE),
         Apdu(0, "AUTHENTICATE", CTAP_AUTH_ENFORCE, Good, FALSE, TRUE) }
=============================================================================
