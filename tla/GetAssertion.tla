---------------------------- MODULE GetAssertion ----------------------------
(***************************************************************************)
(* authenticatorGetAssertion and authenticatorGetNextAssertion             *)
(* (src/src/fido/cbor_get_assertion.c): the policy checks, the candidate   *)
(* resolution, the user-presence step, the pagination session kept in the *)
(* globals credsx, numberOfCredentialsx, credentialCounter, timerx,        *)
(* flagsx and datax, and the signature counter, kept in EF_COUNTER of   *)
(* FlashStore: written back staged, programmed by do_flash(), and lost  *)
(* with a power cut before that.                                         *)
(*                                                                         *)
(* Requests are handled one at a time by a single worker (spec 5), so     *)
(* each handler is one atomic action.  Real time is the variable now;      *)
(* board_millis() is now % ClockMod, a uint32_t in the code.  The outcome *)
(* of the blocking button wait, of key loading and extension processing,   *)
(* and of the ECDSA signature are inputs chosen by \E.                     *)
(***************************************************************************)
EXTENDS Naturals, Sequences, SequencesExt, CandidateResolver, CborMapKeys, FlashStore

CONSTANTS
  Requests,      \* the request maps a platform may send
  Absent,        \* an option or extension key that is not in the request
  NoReq,         \* datax == NULL
  NoRp,          \* a pinUvAuthToken not bound to a relying party
  PinSet,        \* file_has_data(ef_pin)
  Window,        \* 30 * 1000: GetNextAssertion lifetime in ms
  ClockMod,      \* 2^32: the range of board_millis()
  MaxTime,       \* bound on real time
  DevKey,        \* the device key scan_files() generated in EF_KEY_DEV
  SignOutcomes   \* results mbedtls_ecdsa_write_signature can produce

ASSUME Window \in Nat /\ ClockMod \in Nat \ {0} /\ MaxTime \in Nat
ASSUME SignOutcomes \subseteq BOOLEAN /\ SignOutcomes # {}

\* pinUvAuthParam: absent, empty, present without or with a bad protocol,
\* present with a MAC that fails or passes verify().
PinParams == {"none", "empty", "noproto", "badproto", "badmac", "valid"}
\* hmac-secret: absent, missing a parameter, salt of a bad length, well formed.
HmacParams == {"none", "missing", "badlen", "ok"}

VARIABLES
  now,                   \* real time
  credsx,                \* candidates kept for GetNextAssertion
  numberOfCredentialsx,
  credentialCounter,
  timerx,                \* board_millis() of the last session step
  flagsx,                \* authenticator-data flags of the session
  datax,                 \* owned copy of the originating request
  paut,                  \* pinUvAuthToken flags and permission
  resp,                  \* the last response
  overflow,              \* a write went past allowList[] / creds[]
  sessOut,               \* history: credentials delivered by the session
  sessTime,              \* history: real time of the last session step
  lastOkRp,              \* history: rp of the last successful GetAssertion
  uvUpUses               \* history: UV+UP assertions since the token was issued

session == <<credsx, numberOfCredentialsx, credentialCounter, timerx, flagsx, datax>>
history == <<sessOut, sessTime, lastOkRp, uvUpUses>>
vars == <<now, session, flashVars, paut, resp, overflow, history>>

\* get_sign_counter(): EF_COUNTER as FlashStore holds it.
signCount == GetSignCounter

Flags == SUBSET {"UP", "UV"}
Codes == {"OK", "MISSING_PARAMETER", "INVALID_CBOR", "OPERATION_DENIED",
          "PIN_NOT_SET", "PIN_AUTH_INVALID", "INVALID_PARAMETER", "INVALID_OPTION",
          "UNSUPPORTED_OPTION", "INVALID_LEN", "NO_CREDENTIALS", "NOT_ALLOWED", "OTHER"}
Response == [op : {"none", "GA", "Next"}, code : Codes, cred : Cred \cup {NoCred},
             flags : Flags, count : 0..MaxCreds, sig : BOOLEAN]
Token == [uv : BOOLEAN, up : BOOLEAN, ga : BOOLEAN, rp : RP \cup {NoRp}]

TypeOK ==
  /\ now \in 0..MaxTime
  /\ credsx \in Seq(Cred) /\ Len(credsx) <= MaxCreds
  /\ numberOfCredentialsx \in 0..MaxCreds
  /\ credentialCounter \in 0..MaxCreds
  /\ timerx \in 0..(ClockMod - 1)
  /\ flagsx \in Flags
  /\ datax \in Requests \cup {NoReq}
  /\ signCount \in 0..MaxCounter /\ flashReady \in BOOLEAN
  /\ paut \in Token
  /\ resp \in Response
  /\ overflow \in BOOLEAN
  /\ sessOut \in Seq(Cred) /\ sessTime \in 0..MaxTime
  /\ lastOkRp \in RP \cup {NoRp} /\ uvUpUses \in Nat

board_millis == now % ClockMod

(***************************************************************************)
(* Lines 252-271: a non-empty pinUvAuthParam passes when its MAC verifies  *)
(* and the token is user-verified, holds the GA permission and is unbound *)
(* or bound to this relying party.                                         *)
(***************************************************************************)
PinTokenAccepts(req) ==
  /\ req.pin = "valid"
  /\ paut.uv /\ paut.ga
  /\ paut.rp \in {NoRp, req.rp}

(***************************************************************************)
(* Lines 99-282 and 284-301: the early returns before any state changes,   *)
(* in the order the code takes them.  Only the empty-pinUvAuthParam branch *)
(* waits for the button (check_user_presence, line 213).                   *)
(***************************************************************************)
PreChecks(req, pressed) ==
  << <<MapKeyError(req.keys) # "OK", MapKeyError(req.keys)>>,
     <<~({1, 2} \subseteq ToSet(req.keys)), "MISSING_PARAMETER">>,
     <<req.pin = "empty", IF ~pressed THEN "OPERATION_DENIED"
                          ELSE IF ~PinSet THEN "PIN_NOT_SET" ELSE "PIN_AUTH_INVALID">>,
     <<req.pin = "noproto", "MISSING_PARAMETER">>,
     <<req.pin = "badproto", "INVALID_PARAMETER">>,
     <<req.uv = TRUE, "INVALID_OPTION">>,
     <<req.rk # Absent, "UNSUPPORTED_OPTION">>,
     <<req.pin = "badmac" \/ (req.pin = "valid" /\ ~PinTokenAccepts(req)), "PIN_AUTH_INVALID">>,
     <<req.hmac = "missing", "MISSING_PARAMETER">>,
     <<req.hmac = "badlen", "INVALID_LEN">>,
     <<AllowListMissingParameter(req.allow), "MISSING_PARAMETER">> >>

PreCheck(req, pressed) ==
  LET checks == PreChecks(req, pressed)
      first  == SelectInSeq(checks, LAMBDA c : c[1])
  IN  IF first = 0 THEN "OK" ELSE checks[first][2]

\* The ranked candidates of every request, resolved with the UV flag an
\* accepted pinUvAuthParam sets (lines 270, 284-355).
Ranked == [req \in Requests |-> Candidates(req.rp, req.allow, req.pin = "valid")]

\* Line 270: the UV flag comes only from an accepted pinUvAuthParam.
InitialFlags(req) == IF req.pin = "valid" THEN {"UV"} ELSE {}

\* Local up (lines 94, 247-249): the "up" option, TRUE when absent.
UpOption(req) == req.up # FALSE

(***************************************************************************)
(* Lines 357-371: with "up" not FALSE a presence check is needed; with a   *)
(* pinUvAuthParam the token's user-present flag stands in for the button.  *)
(***************************************************************************)
PresenceSatisfied(req, pressed) ==
  IF req.pin = "valid" THEN paut.up \/ pressed ELSE pressed

\* Variant clearing only the user-present flag.
ClearTokenUpOnly(tok) == [tok EXCEPT !.up = FALSE]

\* Lines 373-375: clearUserPresentFlag, clearUserVerifiedFlag and
\* clearPinUvAuthTokenPermissionsExceptLbw.
ClearTokenAfterPresence(tok) == [tok EXCEPT !.up = FALSE, !.uv = FALSE, !.ga = FALSE]

\* A response that carries no assertion.
Fail(op, code) ==
  resp' = [op |-> op, code |-> code, cred |-> NoCred, flags |-> {}, count |-> 0, sig |-> FALSE]

(***************************************************************************)
(* Lines 537-644: the assertion for cred.  The counter is read, sent and   *)
(* written back incremented (staged, then low_flash_available()).  The    *)
(* return value of                                                          *)
(* mbedtls_ecdsa_write_signature (line 567) is not checked: the response  *)
(* is sent whatever signed is.                                             *)
(***************************************************************************)
\* Lines 642-644: ctr++ and flash_write_data_to_file(ef_counter).
CounterAfterAssertion(ctr) == "counter" :> ctr + 1

EmitAssertion(op, cred, flags, count, signed) ==
  /\ signCount < MaxCounter
  /\ resp' = [op |-> op, code |-> "OK", cred |-> cred, flags |-> flags,
              count |-> count, sig |-> signed]
  /\ WriteFiles(CounterAfterAssertion(signCount))
  /\ UNCHANGED committed

(***************************************************************************)
(* Lines 386-400: with more than one candidate and "up" not FALSE the      *)
(* candidates, a copy of the request, the flags and the time are kept and *)
(* the cursor is set to the second candidate.  The previous contents of    *)
(* the globals are overwritten, never released.                           *)
(***************************************************************************)
\* Variant leaving the cursor at the first candidate.
InstallSessionCursorFirst(req, cands, flags) ==
  /\ credsx' = cands
  /\ numberOfCredentialsx' = Len(cands)
  /\ datax' = req
  /\ flagsx' = flags
  /\ timerx' = board_millis
  /\ credentialCounter' = 0
  /\ sessOut' = <<cands[1]>>
  /\ sessTime' = now

InstallSession(req, cands, flags) ==
  /\ credsx' = cands
  /\ numberOfCredentialsx' = Len(cands)
  /\ datax' = req
  /\ flagsx' = flags
  /\ timerx' = board_millis
  /\ credentialCounter' = 1
  /\ sessOut' = <<cands[1]>>
  /\ sessTime' = now

(***************************************************************************)
(* Lines 57-70: free the candidates and the request copy, reset the        *)
(* globals.                                                                 *)
(***************************************************************************)
TeardownSession ==
  /\ credsx' = <<>>
  /\ numberOfCredentialsx' = 0
  /\ credentialCounter' = 0
  /\ timerx' = 0
  /\ flagsx' = {}
  /\ datax' = NoReq

(***************************************************************************)
(* cbor_get_assertion(data, len, false), lines 79-674.  pressed is the     *)
(* outcome of the button wait, built whether key loading and extension     *)
(* processing (lines 409-535) succeed, signed the signature's result.      *)
(***************************************************************************)
GetAssertion(req, pressed, built, signed) ==
  LET pre     == PreCheck(req, pressed)
      cands   == Ranked[req]
      needUp  == UpOption(req)
      flags   == IF needUp THEN InitialFlags(req) \cup {"UP"} ELSE InitialFlags(req)
      install == needUp /\ Len(cands) > 1
      count   == IF Len(cands) > 1 THEN Len(cands) ELSE 0
  IN
  /\ overflow' = (overflow \/ OverflowsCandidateArrays(req.allow))
  /\ \/ /\ pre # "OK"
        /\ Fail("GA", pre)
        /\ UNCHANGED <<session, flashVars, paut, history>>
     \/ /\ pre = "OK" /\ cands = <<>>
        /\ Fail("GA", "NO_CREDENTIALS")
        /\ UNCHANGED <<session, flashVars, paut, history>>
     \/ /\ pre = "OK" /\ cands # <<>>
        /\ needUp /\ ~PresenceSatisfied(req, pressed)
        /\ Fail("GA", "OPERATION_DENIED")
        /\ UNCHANGED <<session, flashVars, paut, history>>
     \/ /\ pre = "OK" /\ cands # <<>>
        /\ needUp => PresenceSatisfied(req, pressed)
        /\ paut' = IF needUp THEN ClearTokenAfterPresence(paut) ELSE paut
        /\ \/ /\ req.lbk = FALSE               \* line 378
              /\ Fail("GA", "INVALID_OPTION")
              /\ UNCHANGED <<session, flashVars, history>>
           \/ /\ req.lbk # FALSE
              /\ IF install THEN InstallSession(req, cands, flags)
                 ELSE UNCHANGED <<session, sessOut, sessTime>>
              /\ \/ /\ ~built
                    /\ Fail("GA", "OTHER")
                    /\ UNCHANGED <<flashVars, lastOkRp, uvUpUses>>
                 \/ /\ built
                    /\ EmitAssertion("GA", cands[1], flags, count, signed)
                    /\ lastOkRp' = req.rp
                    /\ uvUpUses' = IF {"UP", "UV"} \subseteq flags THEN uvUpUses + 1
                                   ELSE uvUpUses

(***************************************************************************)
(* cbor_get_next_assertion, lines 45-77.  The saved request is processed  *)
(* again with next = true: no policy step, the flags of the session, the  *)
(* candidate at the cursor.  Any error, and the last candidate, tear the  *)
(* session down.  The expiry test is computed in uint32_t.                 *)
(***************************************************************************)
SessionExhausted == credentialCounter >= numberOfCredentialsx
\* Variant without the expiry test.
SessionExpiredNever == FALSE

SessionExpired == (timerx + Window) % ClockMod < board_millis

\* Line 413 with next = true: the candidate at the cursor.
SessionCursorCredStale == credsx[credentialCounter]
SessionCursorCred == credsx[credentialCounter + 1]

GetNextAssertion(built, signed) ==
  LET cred == SessionCursorCred
      last == credentialCounter + 1 = numberOfCredentialsx
  IN
  /\ UNCHANGED <<paut, overflow, lastOkRp, uvUpUses>>
  /\ \/ /\ SessionExhausted \/ SessionExpired
        /\ TeardownSession
        /\ Fail("Next", "NOT_ALLOWED")
        /\ UNCHANGED <<flashVars, sessOut, sessTime>>
     \/ /\ ~SessionExhausted /\ ~SessionExpired /\ ~built
        /\ TeardownSession
        /\ Fail("Next", "OTHER")
        /\ UNCHANGED <<flashVars, sessOut, sessTime>>
     \/ /\ ~SessionExhausted /\ ~SessionExpired /\ built
        /\ EmitAssertion("Next", cred, flagsx, 0, signed)
        /\ sessOut' = Append(sessOut, cred)
        /\ sessTime' = now
        /\ IF last THEN TeardownSession
           ELSE /\ timerx' = board_millis
                /\ credentialCounter' = credentialCounter + 1
                /\ UNCHANGED <<credsx, numberOfCredentialsx, flagsx, datax>>

(***************************************************************************)
(* The PIN/UV ceremony that issues a pinUvAuthToken (getPinUvAuthToken,   *)
(* not under src/; spec 3 PinUvAuthToken): the token is user-verified,    *)
(* carries the GA permission, may be bound to a relying party and may be  *)
(* user-present (built-in UV).                                             *)
(***************************************************************************)
IssueToken(rp, up) ==
  /\ PinSet
  /\ paut' = [uv |-> TRUE, up |-> up, ga |-> TRUE, rp |-> rp]
  /\ uvUpUses' = 0
  /\ UNCHANGED <<now, session, flashVars, resp, overflow, sessOut, sessTime, lastOkRp>>

Tick ==
  /\ now < MaxTime
  /\ now' = now + 1
  /\ UNCHANGED <<session, flashVars, paut, resp, overflow, history>>

\* do_flash() in the USB core's main loop (main.c lines 321-324): it
\* follows the execute_tasks() that sent the response, before another
\* request can be taken.
Flush ==
  /\ DoFlash
  /\ UNCHANGED <<now, session, paut, resp, overflow, history>>

\* A power cut: the staged counter is lost, and the RAM globals (the
\* session, lines 36-43, and the token) start from their initialisers.
PowerLoss ==
  /\ FlashLoss
  /\ credsx' = <<>> /\ numberOfCredentialsx' = 0 /\ credentialCounter' = 1
  /\ timerx' = 0 /\ flagsx' = {} /\ datax' = NoReq
  /\ paut' = [uv |-> FALSE, up |-> FALSE, ga |-> FALSE, rp |-> NoRp]
  /\ resp' = [op |-> "none", code |-> "OK", cred |-> NoCred, flags |-> {}, count |-> 0, sig |-> FALSE]
  /\ UNCHANGED <<now, overflow, history>>

Init ==
  /\ now = 0
  /\ credsx = <<>>
  /\ numberOfCredentialsx = 0
  /\ credentialCounter = 1
  /\ timerx = 0
  /\ flagsx = {}
  /\ datax = NoReq
  /\ committed = [f \in Files |-> IF f = "counter" THEN 0 ELSE DevKey]
  /\ staged = [f \in Files |-> NoStage] /\ flashReady = FALSE
  /\ paut = [uv |-> FALSE, up |-> FALSE, ga |-> FALSE, rp |-> NoRp]
  /\ resp = [op |-> "none", code |-> "OK", cred |-> NoCred, flags |-> {}, count |-> 0, sig |-> FALSE]
  /\ overflow = FALSE
  /\ sessOut = <<>>
  /\ sessTime = 0
  /\ lastOkRp = NoRp
  /\ uvUpUses = 0

\* One CTAP request, taken with nothing left to program.
TakeRequest ==
  /\ ~flashReady
  /\ \/ \E req \in Requests, pressed, built \in BOOLEAN, signed \in SignOutcomes :
           /\ GetAssertion(req, pressed, built, signed)
           /\ UNCHANGED now
     \/ \E built \in BOOLEAN, signed \in SignOutcomes :
           /\ GetNextAssertion(built, signed)
           /\ UNCHANGED now
     \/ \E rp \in RP \cup {NoRp}, up \in BOOLEAN : IssueToken(rp, up)

Next == TakeRequest \/ Flush \/ PowerLoss \/ Tick

Spec == Init /\ [][Next]_vars

-----------------------------------------------------------------------------
(***************************************************************************)
(* Properties                                                              *)
(***************************************************************************)

\* GetNextAssertion hands out the session's candidates one at a time, in
\* the order the resolver ranks them for the saved request, never
\* repeating or skipping one (spec 4.4 ordering contract, 4.6).
ContinuationInOrder ==
  datax # NoReq =>
    IsPrefix(sessOut, Candidates(datax.rp, datax.allow, "UV" \in flagsx))

\* A GetNextAssertion answers with an assertion only within Window of the
\* previous step of its session (spec 3: valid only while now - created
\* <= 30s, re-armed by every step).
ContinuationWithinWindow ==
  [][(resp'.op = "Next" /\ signCount' > signCount) => now - sessTime <= Window]_vars

\* A pinUvAuthToken backs at most one user-present, user-verified
\* assertion: the presence step clears the token's UV flag and GA
\* permission (spec 4.3 rule 6).
PresenceConsumedOnce == uvUpUses <= 1

\* A GetNextAssertion continues only the resolution of the most recent
\* successful GetAssertion (spec 3: a new GetAssertion invalidates any
\* prior session).
NoStaleContinuation ==
  (resp.op = "Next" /\ resp.code = "OK") => CredRp[resp.cred] = lastOkRp

\* A success response carries a valid signature: the counter is
\* advanced only after all checks and the signature succeed (spec 7).
SuccessCarriesSignature == resp.code = "OK" /\ resp.op # "none" => resp.sig

\* No request writes past the fixed allowList[] and creds[] arrays.
CandidateArraysInBounds == ~overflow

\* The pagination session seen as PaginationSession: the candidates after
\* the cursor while datax is set, and the credential of the last
\* successful GetNextAssertion.
SessionPages ==
  IF datax = NoReq THEN <<>>
  ELSE SubSeq(credsx, credentialCounter + 1, numberOfCredentialsx)
ServedCred == IF resp.op = "Next" /\ resp.code = "OK" THEN resp.cred ELSE NoCred

Abstract == INSTANCE PaginationSession
              WITH pages <- SessionPages, served <- ServedCred,
                   MaxPages <- MaxCreds - 1

\* Every step of the handlers is a step of the abstract session: a
\* GetAssertion opens a session or leaves it alone (a stale session is
\* left alone too, see NoStaleContinuation), a GetNextAssertion serves exactly the first remaining page or
\* destroys the session (spec 4.6).
PaginationRefined == Abstract!Spec
=============================================================================
