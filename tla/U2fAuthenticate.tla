--------------------------- MODULE U2fAuthenticate ---------------------------
(***************************************************************************)
(* The legacy U2F Authenticate command on the whole device: APDU dispatch *)
(* (fido_process_apdu), cmd_authenticate with the key-handle checks       *)
(* (verify_key, derive_key, load_keydev, fido_load_key), the touch asked  *)
(* of the USB core (ButtonWait), the signature counter in the flash store *)
(* (FlashStore), the boot-time provisioning of scan_files(), and power    *)
(* loss.  Sources: src/src/fido/cmd_authenticate.c, src/src/fido/fido.c.   *)
(*                                                                         *)
(* A key handle is a record: kind "u2f" (a derived path followed by an     *)
(* HMAC tag over appId and path under the device key) or "resident" (a     *)
(* FIDO2 credential id, recognised by credential_verify()); app and dev    *)
(* are the appId and device key its tag was made with; hardened says      *)
(* whether every path component has its top bit set.                       *)
(***************************************************************************)
EXTENDS Naturals, Sequences, SequencesExt, ButtonWait, FlashStore

CONSTANTS
  AppIds,          \* application parameters a client may send
  Handles,         \* key handles a client may send
  DevKey,          \* the device key of a provisioned device
  NewKey,          \* the key scan_files() generates on a blank device
  KeyGenOutcomes,  \* results mbedtls_ecdsa_genkey can produce
  SignOutcomes,    \* results mbedtls_ecdsa_write_signature can produce
  Requests,        \* the APDUs a client may send
  NoReq

\* P1 of an Authenticate APDU (ctap.h).
CTAP_AUTH_ENFORCE == 3
CTAP_AUTH_CHECK_ONLY == 7
CTAP_AUTH_DONT_ENFORCE == 8

SW == {"none", "OK", "WRONG_DATA", "INCORRECT_PARAMS", "CONDITIONS_NOT_SATISFIED",
       "EXEC_ERROR", "CLA_NOT_SUPPORTED", "INS_NOT_SUPPORTED"}

VARIABLES
  booted,      \* init_fido() has run since power-up
  capU2f,      \* cap_supported(CAP_U2F)
  pending,     \* the APDU held while the card core waits for a touch
  resp,        \* the last status word, TUP flag and counter
  reports,     \* history: counters signed since power-up, in order
  flushed,     \* history: how many of them do_flash() has made durable
  durable      \* history: durable counters of earlier power cycles

u2fVars == <<booted, capU2f, pending, resp, reports, flushed, durable>>
vars == <<u2fVars, buttonVars, flashVars>>

Response == [sw : SW, tup : BOOLEAN, ctr : 0..MaxCounter]

TypeOK ==
  /\ ButtonTypeOK
  /\ committed \in [Files -> {NoData, DevKey, NewKey} \cup 0..MaxCounter]
  /\ staged \in [Files -> {NoStage, NewKey} \cup 0..MaxCounter]
  /\ flashReady \in BOOLEAN
  /\ booted \in BOOLEAN /\ capU2f \in BOOLEAN
  /\ pending \in Requests \cup {NoReq}
  /\ resp \in Response
  /\ reports \in Seq(0..MaxCounter)
  /\ flushed \in 0..Len(reports)
  /\ durable \subseteq 0..MaxCounter

\* load_keydev() (fido.c lines 187-199); has_keydev_dec is never set.
LoadKeydev == FileHasData("keydev")

\* derive_key() (lines 239-301) with an existing path: it fails only when
\* the device key cannot be loaded.
DeriveKey == LoadKeydev

\* fido_load_key() (lines 144-156) for FIDO2_CURVE_P256: the path of the
\* credential id, hardened, under the device key.
FidoLoadKey == DeriveKey

\* credential_verify() (credential.c, not under src/; spec 4.1): the handle
\* is a credential id issued to this relying party.
CredentialVerify(h, app) == h.kind = "resident" /\ h.app = app

\* verify_key() (lines 201-237) after derive_key(): every path component
\* hardened (-1 otherwise), the derived key exported (-2 when derive_key()
\* failed to load it), and the tag recomputed over appId and path under the
\* device key equal to the handle's.
VerifyKey(app, h) ==
  /\ h.hardened
  /\ DeriveKey
  /\ h.kind = "u2f" /\ h.app = app /\ h.dev = FileData("keydev")

Reply(sw) == resp' = [sw |-> sw, tup |-> FALSE, ctr |-> 0]

\* Lines 99-101: ctr++ written to EF_COUNTER, low_flash_available().
CounterAfterSignTwice(ctr) == WriteFiles("counter" :> ctr + 2)
CounterAfterSign(ctr) == WriteFiles("counter" :> ctr + 1)

\* cmd_authenticate() from line 41, once the touch (if any) is done: load
\* or derive the key, check it, sign, and advance the counter.
AuthenticateKey(req, signOk) ==
  LET resident == CredentialVerify(req.h, req.app)
      ret == IF resident THEN FidoLoadKey ELSE DeriveKey
      ctr == GetSignCounter
  IN \/ /\ ~resident /\ ~VerifyKey(req.app, req.h)                \* 51-54
        /\ Reply("INCORRECT_PARAMS")
        /\ UNCHANGED <<flashVars, reports>>
     \/ /\ resident /\ ~ret                                         \* 57-60
        /\ Reply("EXEC_ERROR")
        /\ UNCHANGED <<flashVars, reports>>
     \/ /\ resident => ret
        /\ ~resident => VerifyKey(req.app, req.h)
        /\ \/ /\ req.p1 = CTAP_AUTH_CHECK_ONLY                      \* 61-64
              /\ Reply("CONDITIONS_NOT_SATISFIED")
              /\ UNCHANGED <<flashVars, reports>>
           \/ /\ req.p1 # CTAP_AUTH_CHECK_ONLY /\ ~signOk           \* 84-96
              /\ Reply("EXEC_ERROR")
              /\ UNCHANGED <<flashVars, reports>>
           \/ /\ req.p1 # CTAP_AUTH_CHECK_ONLY /\ signOk           \* 65-102
              /\ resp' = [sw |-> "OK", tup |-> req.p1 = CTAP_AUTH_ENFORCE, ctr |-> ctr]
              /\ CounterAfterSign(ctr)
              /\ UNCHANGED committed
              /\ reports' = Append(reports, ctr)

\* The counter has room for one more signature (bound of the model).
CounterRoom == GetSignCounter # MaxCounter

\* cmd_authenticate() lines 31-39: length checks, then the touch for
\* CTAP_AUTH_ENFORCE, which the card core waits for.
CmdAuthenticate(req, signOk) ==
  \/ /\ req.ncShort                                                 \* 31-33
     /\ Reply("WRONG_DATA")
     /\ UNCHANGED <<flashVars, buttonVars, pending, reports>>
  \/ /\ ~req.ncShort /\ req.khShort                                 \* 34-36
     /\ Reply("INCORRECT_PARAMS")
     /\ UNCHANGED <<flashVars, buttonVars, pending, reports>>
  \/ /\ ~req.ncShort /\ ~req.khShort /\ req.p1 = CTAP_AUTH_ENFORCE  \* 37
     /\ SendPressButton
     /\ pending' = req
     /\ UNCHANGED <<flashVars, resp, reports, button, cancel_button, usbState,
                    millis, start_button, usbToCard, touched>>
  \/ /\ ~req.ncShort /\ ~req.khShort /\ req.p1 # CTAP_AUTH_ENFORCE
     /\ AuthenticateKey(req, signOk)
     /\ UNCHANGED <<buttonVars, pending>>

\* fido_process_apdu() (fido.c lines 481-494) for an APDU of the card core.
FidoProcessApdu(req, signOk) ==
  /\ booted /\ ~cardWaiting /\ CounterRoom
  /\ \/ /\ req.cla \notin {0, 128}
        /\ Reply("CLA_NOT_SUPPORTED")
        /\ UNCHANGED <<flashVars, buttonVars, pending, reports>>
     \/ /\ req.cla \in {0, 128} /\ (~capU2f \/ req.ins # "AUTHENTICATE")
        /\ Reply("INS_NOT_SUPPORTED")
        /\ UNCHANGED <<flashVars, buttonVars, pending, reports>>
     \/ /\ req.cla \in {0, 128} /\ capU2f /\ req.ins = "AUTHENTICATE"
        /\ CmdAuthenticate(req, signOk)
  /\ UNCHANGED <<booted, capU2f, flushed, durable>>

\* The card core wakes in wait_button_pressed() and cmd_authenticate()
\* goes on from line 37 with its verdict.
CardButtonEvent(signOk) ==
  /\ TakeButtonEvent
  /\ \/ /\ ButtonTimedOut
        /\ Reply("CONDITIONS_NOT_SATISFIED")
        /\ UNCHANGED <<flashVars, reports>>
     \/ /\ ~ButtonTimedOut
        /\ AuthenticateKey(pending, signOk)
  /\ pending' = NoReq
  /\ UNCHANGED <<booted, capU2f, flushed, durable, button, cancel_button, usbState,
                 millis, start_button, cardToUsb, touched>>

\* scan_files() lines 304-331: a blank EF_KEY_DEV gets a fresh key; a
\* failed key generation returns at once.
ScanKeyDevFails(genOk) == ~FileHasData("keydev") /\ ~genOk

\* Lines 362-368: a blank EF_COUNTER is set to 0.
ScanCounterAlways == "counter" :> 0
ScanCounter ==
  IF FileHasData("counter") THEN <<>> ELSE "counter" :> 0

\* init_fido() -> scan_all() -> scan_files() after power-up, ending in
\* low_flash_available() (line 392).
Boot(genOk) ==
  /\ ~booted
  /\ booted' = TRUE
  /\ IF ScanKeyDevFails(genOk)
       THEN UNCHANGED flashVars
       ELSE LET kd == IF FileHasData("keydev") THEN <<>> ELSE "keydev" :> NewKey
            IN /\ WriteFiles(kd @@ ScanCounter)
               /\ UNCHANGED committed
  /\ UNCHANGED <<capU2f, pending, resp, reports, flushed, durable, buttonVars>>

\* do_flash() runs in the main loop of the USB core, so not while that core
\* is inside wait_button().
Flush ==
  /\ usbState = "idle"
  /\ DoFlash
  /\ flushed' = Len(reports)
  /\ UNCHANGED <<booted, capU2f, pending, resp, reports, durable, buttonVars>>

\* Power is lost: RAM, both cores and the queues restart.
PowerLoss ==
  /\ booted
  /\ booted' = FALSE
  /\ FlashLoss
  /\ ButtonReset
  /\ pending' = NoReq
  /\ durable' = durable \cup ToSet(SubSeq(reports, 1, flushed))
  /\ reports' = <<>>
  /\ flushed' = 0
  /\ UNCHANGED <<capU2f, resp>>

ButtonStep(A) == A /\ UNCHANGED <<u2fVars, flashVars>>

Init ==
  /\ ButtonInit
  /\ committed \in { ("keydev" :> NoData) @@ ("counter" :> NoData),
                     ("keydev" :> DevKey) @@ ("counter" :> 0) }
  /\ staged = [f \in Files |-> NoStage]
  /\ flashReady = FALSE
  /\ booted = FALSE
  /\ capU2f \in BOOLEAN
  /\ pending = NoReq
  /\ resp = [sw |-> "none", tup |-> FALSE, ctr |-> 0]
  /\ reports = <<>>
  /\ flushed = 0
  /\ durable = {}

Next ==
  \/ \E genOk \in KeyGenOutcomes : Boot(genOk)
  \/ \E req \in Requests, signOk \in SignOutcomes : FidoProcessApdu(req, signOk)
  \/ \E signOk \in SignOutcomes : CardButtonEvent(signOk)
  \/ ButtonStep(WaitButtonStart)
  \/ ButtonStep(WaitButtonStep)
  \/ ButtonStep(Tick)
  \/ ButtonStep(Cancel)
  \/ ButtonStep(Toggle)
  \/ Flush
  \/ PowerLoss

\* board_millis() keeps running.  The USB core polls without end and makes
\* the loop tests of wait_button() in every turn, many turns a millisecond,
\* so a test that holds again and again (a timeout while the wrapping
\* clock is past its deadline, a button held for a while) is eventually
\* seen: strong fairness.  A blocked queue_remove_blocking() wakes when an
\* event is queued.  The user (button, cancel, requests) and power loss
\* are not fair.
Fairness ==
  /\ WF_vars(ButtonStep(Tick))
  /\ WF_vars(ButtonStep(WaitButtonStart))
  /\ SF_vars(ButtonStep(WaitButtonStep))
  /\ WF_vars(\E signOk \in SignOutcomes : CardButtonEvent(signOk))

Spec == Init /\ [][Next]_vars /\ Fairness

-----------------------------------------------------------------------------
\* Signature counter (cmd_authenticate lines 67-101, scan_files lines
\* 362-368, the deferred write of the flash store): within one power cycle
\* the counters signed strictly increase, and every counter signed exceeds
\* each one that do_flash() made durable in an earlier power cycle.
CounterFresh ==
  /\ \A i \in 1..Len(reports) - 1 : reports[i] < reports[i + 1]
  /\ \A i \in 1..Len(reports), d \in durable : d < reports[i]

\* An assertion with the TUP flag (P1 = CTAP_AUTH_ENFORCE) is signed only
\* after the wait_button() that answered the card core saw the button
\* pressed and no cancel arrived (fido.c 407-418, main.c 169-196).
PresenceConfirmed ==
  [][ (Len(reports') > Len(reports) /\ resp'.tup) => (touched /\ ~cancel_button) ]_vars

\* A card core blocked in wait_button_pressed() is woken, whatever the
\* user does with the button, unless the loop wait_button() runs has a
\* deadline start_button + timeout that lands on the top value of
\* board_millis() (main.c 178, 187): no uint32_t is above it, so that
\* loop ends only on the button or a cancel.  A deadline that wraps past
\* the top is already below board_millis() and times out at once.
DeadlineUnreachable ==
  \/ usbState = "press" /\ Deadline(ButtonTimeout) = ClockMod - 1
  \/ usbState = "release" /\ Deadline(ReleaseTimeout) = ClockMod - 1

PresenceWaitEnds == cardWaiting ~> (~cardWaiting \/ DeadlineUnreachable)
=============================================================================
