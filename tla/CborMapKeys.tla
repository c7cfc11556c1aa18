---------------------------- MODULE CborMapKeys -----------------------------
(***************************************************************************)
(* The map-key discipline of the authenticatorGetAssertion request parser  *)
(* (src/src/fido/cbor_get_assertion.c, cbor_get_assertion, lines 100-111): *)
(* the first two keys must be 0x01 and 0x02 and every key must be larger   *)
(* than the one before it.  A key sequence is the data; the values are     *)
(* irrelevant to the check.                                                *)
(***************************************************************************)
EXTENDS Naturals, Sequences

\* val_c is the smallest key still acceptable; keys below 3 must equal it.
RECURSIVE KeyScan(_, _)
KeyScan(keys, val_c) ==
  IF keys = <<>> THEN "OK"
  ELSE LET val_u == Head(keys) IN
       IF val_c <= 2 /\ val_c # val_u THEN "MISSING_PARAMETER"
       ELSE IF val_u < val_c THEN "INVALID_CBOR"
       ELSE KeyScan(Tail(keys), val_u + 1)

MapKeyError(keys) == KeyScan(keys, 1)
=============================================================================
