--------------------------- MODULE MCExchangeSort ---------------------------
(***************************************************************************)
(* Checks the candidate ordering of cbor_get_assertion (lines 347-355)     *)
(* against a reference definition over every list of at most SortLen      *)
(* candidates with creation times in 1..MaxTimeValue.  Candidates are      *)
(* named by their position in the scan, so ties can be told apart.         *)
(***************************************************************************)
EXTENDS Naturals, Sequences, SequencesExt

SortLen == 4        \* longer than any list that exposes an ordering fault
MaxTimeValue == 3   \* three values give ties and strict orders in one list

VARIABLES n, times

R == INSTANCE CandidateResolver WITH
       Cred <- 1..SortLen, RP <- {"rp"}, CredRp <- [c \in 1..SortLen |-> "rp"],
       Creation <- times, CredProtect <- [c \in 1..SortLen |-> 0],
       Store <- <<>>, NoCred <- 0, BadDesc <- -1, OtherType <- -2,
       MaxCreds <- SortLen

vars == <<n, times>>

Init == /\ n \in 0..SortLen
        /\ times \in [1..SortLen -> 1..MaxTimeValue]

Next == UNCHANGED vars

Spec == Init /\ [][Next]_vars

Input  == [i \in 1..n |-> i]
Output == R!SortByCreation(Input)

\* The sorted candidates are ranked most recently created first, the order
\* GetNextAssertion must hand them out in (spec 4.4).
SortedNewestFirst ==
  \A i, j \in DOMAIN Output : i < j => times[Output[i]] >= times[Output[j]]

\* Spec 4.4: candidates created at the same time keep their scan order
\* (a stable sort).  The exchange sort of lines 347-355 is not stable.
SortIsStable ==
  \A i, j \in DOMAIN Output :
     (i < j /\ times[Output[i]] = times[Output[j]]) => Output[i] < Output[j]
=============================================================================
