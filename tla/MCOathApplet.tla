--------------------------- MODULE MCOathApplet ---------------------------
(***************************************************************************)
(* A small instance of OathApplet for TLC: two credential names but room *)
(* for one (so SW_FILE_FULL happens), two access-code keys, two OTP PINs, *)
(* the code's MAX_OTP_COUNTER of 3, HOTP moving factors 0..1, and two    *)
(* challenge values: the current one and the one in the listener's       *)
(* answer are all random_gen must avoid.                                   *)
(***************************************************************************)
EXTENDS OathApplet, TLC

CONSTANTS n1, n2, k1, k2, p1, p2, c1, c2

MC_Names == {n1, n2}
MC_Keys == {k1, k2}
MC_Pins == {p1, p2}
MC_Challenges == {c1, c2}

\* Names, keys, PINs and challenges are only compared for equality.
MC_Symmetry == Permutations(MC_Names) \cup Permutations(MC_Keys) \cup Permutations(MC_Pins)
                \cup Permutations(MC_Challenges)

\* No action reads resp: states that differ only in the last response have
\* the same successors, and the properties look at resp' alone.
MC_View == <<validated, selected, challenge, files, history, flushed>>
=============================================================================
