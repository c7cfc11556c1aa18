-------------------------- MODULE CandidateResolver --------------------------
(***************************************************************************)
(* The Candidate Resolver of authenticatorGetAssertion                     *)
(* (src/src/fido/cbor_get_assertion.c, cbor_get_assertion, lines 284-355): *)
(* the credentials a request may be answered with, gathered from the      *)
(* allow list or from a scan of the resident-credential slots, filtered by *)
(* credential protection and ranked newest first by the exchange sort of  *)
(* lines 347-355.                                                          *)
(*                                                                         *)
(* Credentials are model values.  A credential handle is abstracted to the *)
(* credential it names: credential_load (credential.c, not under src/)    *)
(* accepts a handle exactly when its integrity tag binds it to the        *)
(* requesting relying party (spec 4.1).                                   *)
(***************************************************************************)
EXTENDS Naturals, Sequences, SequencesExt

CONSTANTS
  Cred,          \* credentials known to the authenticator
  RP,            \* relying parties (their rpIdHash)
  CredRp,        \* [Cred -> RP]: the relying party a handle is bound to
  Creation,      \* [Cred -> Nat]: Credential.creation
  CredProtect,   \* [Cred -> 0..3]: extensions.credProtect, 0 = no extensions
  Store,         \* Seq(Cred \cup {NoCred}): resident slots EF_CRED + i
  NoCred,        \* an empty resident slot
  BadDesc,       \* an allow-list descriptor without "id" or "type"
  OtherType,     \* an allow-list descriptor whose type is not "public-key"
  MaxCreds       \* MAX_CREDENTIAL_COUNT_IN_LIST

ASSUME MaxCreds \in Nat \ {0}
ASSUME CredRp \in [Cred -> RP] /\ CredProtect \in [Cred -> 0..3]

\* credProtect levels (credential.h 56-57).
CRED_PROT_UV_OPTIONAL_WITH_LIST == 2
CRED_PROT_UV_REQUIRED == 3

(***************************************************************************)
(* credential_load(id, rp_id_hash): a handle loads iff its tag is bound to *)
(* the relying party.  credential.c is not under src/: modelled from the   *)
(* spec (4.1 load, 3 CredentialHandle invariant).                          *)
(***************************************************************************)
CredentialLoad(c, rp) == c \in Cred /\ CredRp[c] = rp

(***************************************************************************)
(* Lines 284-301: a descriptor without id or type fails the request with   *)
(* MISSING_PARAMETER; a non public-key descriptor is skipped; a handle     *)
(* that does not load is dropped silently.                                 *)
(***************************************************************************)
AllowListMissingParameter(allow) == \E e \in DOMAIN allow : allow[e] = BadDesc

LoadAllowList(allow, rp) ==
  SelectSeq(allow, LAMBDA d : d \notin {BadDesc, OtherType} /\ CredentialLoad(d, rp))

(***************************************************************************)
(* Lines 302-321: scan the resident slots in slot order, keep those whose *)
(* stored rpIdHash matches and that load, and stop once MaxCreds are held. *)
(***************************************************************************)
\* Variant with the loop bound creds_len <= MAX_CREDENTIAL_COUNT_IN_LIST.
ScanResidentInclusiveBound(rp) ==
  LET found == SelectSeq(Store, LAMBDA c : c # NoCred /\ CredentialLoad(c, rp))
  IN  SubSeq(found, 1, IF Len(found) < MaxCreds + 1 THEN Len(found) ELSE MaxCreds + 1)

ScanResident(rp) ==
  LET found == SelectSeq(Store, LAMBDA c : c # NoCred /\ CredentialLoad(c, rp))
  IN  SubSeq(found, 1, IF Len(found) < MaxCreds THEN Len(found) ELSE MaxCreds)

(***************************************************************************)
(* Lines 323-342: the protection filter.  A credential whose level is     *)
(* UV_REQUIRED is dropped unless the UV flag is set; one whose level is    *)
(* UV_OPTIONAL_WITH_LIST is dropped from a resident scan unless UV is set. *)
(* The survivors are compacted in their original order.                    *)
(***************************************************************************)
ProtectionAllows(c, uvFlag, resident) ==
  /\ ~(CredProtect[c] = CRED_PROT_UV_REQUIRED /\ ~uvFlag)
  /\ ~(CredProtect[c] = CRED_PROT_UV_OPTIONAL_WITH_LIST /\ resident /\ ~uvFlag)

FilterProtected(creds, uvFlag, resident) ==
  SelectSeq(creds, LAMBDA c : ProtectionAllows(c, uvFlag, resident))

(***************************************************************************)
(* Lines 347-355: for each i, every later j whose creation is greater is   *)
(* exchanged with position i through the temporary tmp.                    *)
(***************************************************************************)
\* Variant comparing creation with < (oldest first).
RECURSIVE ExchangeRowOldestFirst(_, _, _)
ExchangeRowOldestFirst(s, i, j) ==
  IF j > Len(s) THEN s
  ELSE ExchangeRowOldestFirst(IF Creation[s[j]] < Creation[s[i]]
                              THEN [s EXCEPT ![i] = s[j], ![j] = s[i]] ELSE s, i, j + 1)

SwapCandidates(s, i, j) == [s EXCEPT ![i] = s[j], ![j] = s[i]]

RECURSIVE ExchangeRow(_, _, _)
ExchangeRow(s, i, j) ==
  IF j > Len(s) THEN s
  ELSE ExchangeRow(IF Creation[s[j]] > Creation[s[i]] THEN SwapCandidates(s, i, j) ELSE s,
                   i, j + 1)

RECURSIVE ExchangeSortFrom(_, _)
ExchangeSortFrom(s, i) ==
  IF i > Len(s) THEN s ELSE ExchangeSortFrom(ExchangeRow(s, i, i + 1), i + 1)

SortByCreation(s) == ExchangeSortFrom(s, 1)

(***************************************************************************)
(* The ranked candidate list of a request: an empty allow list means a     *)
(* resident scan (resident = true).                                        *)
(***************************************************************************)
Candidates(rp, allow, uvFlag) ==
  LET resident == allow = <<>>
      loaded   == IF resident THEN ScanResident(rp) ELSE LoadAllowList(allow, rp)
  IN  SortByCreation(FilterProtected(loaded, uvFlag, resident))

(***************************************************************************)
(* Lines 119-139 and 292-299 index the fixed arrays allowList[] and        *)
(* creds[] of MaxCreds entries by allowList_len and creds_len without a    *)
(* bound: a request with more descriptors writes past their end.           *)
(***************************************************************************)
OverflowsCandidateArrays(allow) == Len(allow) > MaxCreds

=============================================================================
