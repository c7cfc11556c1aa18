----------------------------- MODULE OathApplet -----------------------------
(***************************************************************************)
(* The OATH applet of src/src/fido/oath.c: the credential files            *)
(* EF_OATH_CRED + i, the access code EF_OATH_CODE, the OTP PIN file        *)
(* EF_OTP_PIN (retry counter and PIN hash) and the RAM flag validated.     *)
(* Each APDU handler is one atomic action (oath_process_apdu runs one      *)
(* command at a time).  Secrets are model values: an HMAC response is     *)
(* right iff it was computed with the stored key, a PIN hash matches iff  *)
(* the PIN does, an HOTP code is the counter value it was computed from.  *)
(* Files are written through flash_write_data_to_file and staged in RAM  *)
(* until do_flash() in the USB core's main loop programs them; a power    *)
(* cycle keeps only what was programmed, and validated, a static, starts  *)
(* again at its initial value.                                             *)
(* APDUs reach oath_process_apdu only while the applet is current_app,   *)
(* which it becomes at SELECT; SELECT draws the challenge VALIDATE is     *)
(* answered against.  Challenges are model values; random_gen gives one  *)
(* that no value the model keeps (the current challenge, the answers a    *)
(* listener recorded) carries, as 8 random bytes do.                       *)
(***************************************************************************)
EXTENDS Naturals, FiniteSets

CONSTANTS
  Names,            \* credential names a host may use
  Keys,             \* access-code keys a host may set or answer with
  Pins,             \* OTP PIN values
  NoKey,            \* no EF_OATH_CODE / an empty key
  NoPin,            \* EF_OTP_PIN without data / a missing password tag
  MAX_OTP_COUNTER,  \* oath.c line 30
  MaxOathCred,      \* MAX_OATH_CRED (line 28)
  MaxHotp,          \* bound on the HOTP moving factor
  MaxGuesses,       \* bound on the history of wrong PIN comparisons
  Challenges,       \* values random_gen may draw for challenge[]
  ZeroChallenge     \* the static all-zero challenge[] (line 64)

ASSUME MAX_OTP_COUNTER \in Nat \ {0} /\ MaxOathCred \in Nat \ {0}
ASSUME MaxHotp \in Nat /\ MaxGuesses \in Nat
ASSUME ZeroChallenge \notin Challenges

Types == {"HOTP", "TOTP"}
NoCred == [type |-> "NONE", imf |-> 0]
NoOtp == <<>>
\* A VALIDATE answer is <<key, chal>>, the HMAC under key of challenge
\* chal, or NoAnswer, an empty TAG_RESPONSE.
NoAnswer == <<>>
Answers == (Keys \X (Challenges \cup {ZeroChallenge})) \cup {NoAnswer}

VARIABLES
  validated,      \* static bool validated (line 63)
  selected,       \* current_app is the OATH applet (main.c line 112)
  challenge,      \* static uint8_t challenge[] (line 64)
  creds,          \* EF_OATH_CRED files by name: type and moving factor (TAG_IMF)
  code,           \* EF_OATH_CODE
  otpPin,         \* EF_OTP_PIN hash
  pinCounter,     \* EF_OTP_PIN byte 0
  resp,           \* the last status word, and the HOTP value it carries
  authSinceCode,  \* history: code or PIN proven since the code was set / boot
  verifyFails,    \* history: failed VERIFY PIN since the counter was restored
  wrongGuesses,   \* history: PIN comparisons that failed since then
  issued,         \* history: <<name, factor>> codes CALCULATE returned
  accepted,       \* history: <<name, factor>> codes VERIFY CODE accepted
  heard,          \* history: the last non-empty VALIDATE answer the key accepted
  heardStale,     \* history: heard was accepted before the latest SELECT
  flushed         \* what the last do_flash() programmed: the four files, and
                  \* verifyFails and issued as those files record them

files == <<creds, code, otpPin, pinCounter>>
listener == <<heard, heardStale>>
history == <<authSinceCode, verifyFails, wrongGuesses, issued, accepted, listener>>
vars == <<validated, selected, challenge, files, resp, history, flushed>>

Instructions == {"PUT", "DELETE", "SET_CODE", "RESET", "LIST", "VALIDATE", "CALCULATE",
                 "CALC_ALL", "SET_PIN", "CHANGE_PIN", "VERIFY_PIN", "VERIFY_CODE", "BOOT",
                 "SELECT", "SELECT_FIDO"}
Status == {"OK", "SECURITY_STATUS_NOT_SATISFIED", "INCORRECT_PARAMS", "INCORRECT_P1P2", "DATA_INVALID",
           "FILE_FULL", "CONDITIONS_NOT_SATISFIED", "WRONG_DATA", "NONE"}
\* Commands that return SW_SECURITY_STATUS_NOT_SATISFIED unless validated.
Protected == {"PUT", "DELETE", "SET_CODE", "LIST", "CALCULATE", "CALC_ALL"}

TypeOK ==
  /\ validated \in BOOLEAN /\ selected \in BOOLEAN
  /\ challenge \in Challenges \cup {ZeroChallenge}
  /\ creds \in [Names -> [type : Types, imf : 0..MaxHotp] \cup {NoCred}]
  /\ code \in Keys \cup {NoKey}
  /\ otpPin \in Pins \cup {NoPin}
  /\ pinCounter \in 0..MAX_OTP_COUNTER
  /\ resp \in [ins : Instructions, sw : Status, otp : (Names \X (0..MaxHotp)) \cup {NoOtp}]
  /\ authSinceCode \in BOOLEAN
  /\ verifyFails \in Nat /\ wrongGuesses \in 0..MaxGuesses
  /\ issued \subseteq Names \X (0..MaxHotp) /\ accepted \subseteq Names \X (0..MaxHotp)
  /\ heard \in Answers /\ heardStale \in BOOLEAN
  /\ flushed \in [files : [Names -> [type : Types, imf : 0..MaxHotp] \cup {NoCred}]
                          \X (Keys \cup {NoKey}) \X (Pins \cup {NoPin}) \X (0..MAX_OTP_COUNTER),
                  verifyFails : Nat, issued : SUBSET (Names \X (0..MaxHotp))]

Stored == {n \in Names : creds[n] # NoCred}

Reply(ins, sw) == resp' = [ins |-> ins, sw |-> sw, otp |-> NoOtp]

\* A handler that only answers.
Refuse(ins, sw) == Reply(ins, sw) /\ UNCHANGED <<validated, challenge, files, history>>

\* random_gen(NULL, challenge, sizeof(challenge)).
Recorded == IF heard = NoAnswer THEN {} ELSE {heard[2]}
Draw == \E c \in Challenges \ (Recorded \cup {challenge}) : challenge' = c

\* The counter is restored to MAX_OTP_COUNTER: the guess history restarts.
RestoreCounter == verifyFails' = 0 /\ wrongGuesses' = 0

(***************************************************************************)
(* cmd_put, lines 135-180: an HOTP credential without TAG_IMF gets eight   *)
(* zero bytes, a shorter one is left-padded (the value is kept); a name    *)
(* already stored is overwritten, else the first free slot is taken.       *)
(***************************************************************************)
Put(name, type, imf) ==
  \/ ~validated /\ Refuse("PUT", "SECURITY_STATUS_NOT_SATISFIED")
  \/ /\ validated
     /\ name \notin Stored /\ Cardinality(Stored) = MaxOathCred
     /\ Refuse("PUT", "FILE_FULL")
  \/ /\ validated
     /\ name \in Stored \/ Cardinality(Stored) < MaxOathCred
     /\ creds' = [creds EXCEPT ![name] = [type |-> type, imf |-> IF type = "HOTP" THEN imf ELSE 0]]
     /\ issued' = {x \in issued : x[1] # name}
     /\ accepted' = {x \in accepted : x[1] # name}
     /\ Reply("PUT", "OK")
     /\ UNCHANGED <<validated, code, otpPin, pinCounter, authSinceCode, verifyFails, wrongGuesses,
                    challenge, listener>>

\* cmd_delete, lines 183-198.
Delete(name) ==
  \/ ~validated /\ Refuse("DELETE", "SECURITY_STATUS_NOT_SATISFIED")
  \/ validated /\ name \notin Stored /\ Refuse("DELETE", "DATA_INVALID")
  \/ /\ validated /\ name \in Stored
     /\ creds' = [creds EXCEPT ![name] = NoCred]
     /\ Reply("DELETE", "OK")
     /\ UNCHANGED <<validated, code, otpPin, pinCounter, challenge, history>>

(***************************************************************************)
(* cmd_set_code, lines 213-257.  key = NoKey is an empty APDU or an empty *)
(* TAG_KEY: the code is removed.  respOk says whether the host's response  *)
(* matches the HMAC of its own challenge under the new key.  A new code   *)
(* draws a new select challenge (line 250), which no response carries.    *)
(***************************************************************************)
SetCode(key, respOk) ==
  \/ ~validated /\ Refuse("SET_CODE", "SECURITY_STATUS_NOT_SATISFIED")
  \/ /\ validated /\ key = NoKey
     /\ code' = NoKey /\ validated' = TRUE
     /\ Reply("SET_CODE", "OK")
     /\ UNCHANGED <<creds, otpPin, pinCounter, challenge, history>>
  \/ validated /\ key # NoKey /\ ~respOk /\ Refuse("SET_CODE", "DATA_INVALID")
  \/ /\ validated /\ key # NoKey /\ respOk
     /\ Draw
     /\ code' = key /\ validated' = FALSE
     /\ authSinceCode' = FALSE
     /\ Reply("SET_CODE", "OK")
     /\ UNCHANGED <<creds, otpPin, pinCounter, verifyFails, wrongGuesses, issued, accepted,
                    listener>>

\* cmd_reset, lines 259-274: every file is deleted or cleared, no
\* authentication is asked for.
Reset ==
  /\ creds' = [n \in Names |-> NoCred]
  /\ code' = NoKey /\ otpPin' = NoPin /\ pinCounter' = 0
  /\ validated' = TRUE
  /\ issued' = {} /\ accepted' = {} /\ RestoreCounter
  /\ Reply("RESET", "OK")
  /\ UNCHANGED <<authSinceCode, challenge, listener>>

\* cmd_list, lines 276-299, and cmd_calculate_all, lines 445-494: read only.
List == \/ ~validated /\ Refuse("LIST", "SECURITY_STATUS_NOT_SATISFIED")
        \/ validated /\ Refuse("LIST", "OK")
CalculateAll == \/ ~validated /\ Refuse("CALC_ALL", "SECURITY_STATUS_NOT_SATISFIED")
                \/ validated /\ Refuse("CALC_ALL", "OK")

(***************************************************************************)
(* cmd_validate, lines 301-340: with no code file validated is set and    *)
(* DATA_INVALID returned; otherwise the response must be the HMAC of the  *)
(* select challenge under the stored key.  A listener on the wire keeps  *)
(* the last accepted answer to replay it; a refused one could only be     *)
(* accepted after the code changed, and SET CODE draws a new challenge.   *)
(***************************************************************************)
\* Line 325: memcmp(hmac, resp, resp_len) compares only the resp_len bytes
\* the host sent, so an empty response matches.
ResponseMatches(a) == a = <<code, challenge>> \/ a = NoAnswer

Answer(sw, a) ==
  /\ Reply("VALIDATE", sw)
  /\ IF sw = "OK" /\ a # NoAnswer THEN heard' = a /\ heardStale' = FALSE
                                  ELSE UNCHANGED listener
  /\ UNCHANGED <<challenge, files, verifyFails, wrongGuesses, issued, accepted>>

Validate(a) ==
  \/ code = NoKey /\ validated' = TRUE /\ Answer("DATA_INVALID", a) /\ UNCHANGED authSinceCode
  \/ /\ code # NoKey /\ ~ResponseMatches(a)
     /\ Answer("DATA_INVALID", a) /\ UNCHANGED <<validated, authSinceCode>>
  \/ /\ code # NoKey /\ ResponseMatches(a)
     /\ validated' = TRUE /\ authSinceCode' = (authSinceCode \/ a = <<code, challenge>>)
     /\ Answer("OK", a)

(***************************************************************************)
(* cmd_calculate, lines 375-443: an HOTP code is computed from the stored  *)
(* moving factor, which is then incremented and written back.              *)
(***************************************************************************)
\* Lines 413-438: v++ on the 64-bit big-endian TAG_IMF value.
NextMovingFactor(imf) == imf + 1

Calculate(name) ==
  \/ ~validated /\ Refuse("CALCULATE", "SECURITY_STATUS_NOT_SATISFIED")
  \/ validated /\ name \notin Stored /\ Refuse("CALCULATE", "DATA_INVALID")
  \/ validated /\ name \in Stored /\ creds[name].type = "TOTP" /\ Refuse("CALCULATE", "OK")
  \/ /\ validated /\ name \in Stored /\ creds[name].type = "HOTP"
     /\ creds[name].imf < MaxHotp
     /\ resp' = [ins |-> "CALCULATE", sw |-> "OK", otp |-> <<name, creds[name].imf>>]
     /\ creds' = [creds EXCEPT ![name].imf = NextMovingFactor(@)]
     /\ issued' = issued \cup {<<name, creds[name].imf>>}
     /\ UNCHANGED <<validated, code, otpPin, pinCounter, authSinceCode, verifyFails, challenge,
                    wrongGuesses, accepted, listener>>

\* cmd_set_otp_pin, lines 500-515.
SetOtpPin(pin) ==
  \/ otpPin # NoPin /\ Refuse("SET_PIN", "CONDITIONS_NOT_SATISFIED")
  \/ /\ otpPin = NoPin
     /\ otpPin' = pin /\ pinCounter' = MAX_OTP_COUNTER
     /\ RestoreCounter
     /\ Reply("SET_PIN", "OK")
     /\ UNCHANGED <<validated, creds, code, authSinceCode, issued, accepted, challenge, listener>>

(***************************************************************************)
(* cmd_change_otp_pin, lines 517-539: the old PIN is compared with the     *)
(* stored hash; the retry counter is neither checked nor decremented.     *)
(* new = NoPin is a request without TAG_NEW_PASSWORD.                      *)
(***************************************************************************)
ChangeOtpPin(old, new) ==
  \/ otpPin = NoPin /\ Refuse("CHANGE_PIN", "CONDITIONS_NOT_SATISFIED")
  \/ /\ otpPin # NoPin /\ old # otpPin
     /\ wrongGuesses < MaxGuesses
     /\ wrongGuesses' = wrongGuesses + 1
     /\ Reply("CHANGE_PIN", "SECURITY_STATUS_NOT_SATISFIED")
     /\ UNCHANGED <<validated, files, authSinceCode, verifyFails, issued, accepted, challenge,
                    listener>>
  \/ otpPin # NoPin /\ old = otpPin /\ new = NoPin /\ Refuse("CHANGE_PIN", "INCORRECT_PARAMS")
  \/ /\ otpPin # NoPin /\ old = otpPin /\ new # NoPin
     /\ otpPin' = new /\ pinCounter' = MAX_OTP_COUNTER
     /\ RestoreCounter
     /\ Reply("CHANGE_PIN", "OK")
     /\ UNCHANGED <<validated, creds, code, authSinceCode, issued, accepted, challenge, listener>>

(***************************************************************************)
(* cmd_verify_otp_pin, lines 541-567: with the counter at 0 or a wrong PIN *)
(* the counter is decremented (not below 0) and validated cleared; a      *)
(* right PIN restores the counter and sets validated.                      *)
(***************************************************************************)
\* Variant without the data_hsh[0] == 0 test.
VerifyRejectsNoLockout(pin) == pin # otpPin

VerifyRejects(pin) == pinCounter = 0 \/ pin # otpPin

\* Variant without the data_hsh[0] > 0 test: the uint8_t wraps.
DecrementedCounterUnchecked(c) == (c + 255) % 256

\* Lines 554-556: the retry counter is decremented, not below 0.
DecrementedCounter(c) == IF c > 0 THEN c - 1 ELSE 0

VerifyOtpPin(pin) ==
  \/ otpPin = NoPin /\ Refuse("VERIFY_PIN", "CONDITIONS_NOT_SATISFIED")
  \/ /\ otpPin # NoPin /\ VerifyRejects(pin)
     /\ pinCounter > 0 => wrongGuesses < MaxGuesses
     /\ pinCounter' = DecrementedCounter(pinCounter)
     /\ validated' = FALSE
     /\ verifyFails' = IF pinCounter > 0 THEN verifyFails + 1 ELSE verifyFails
     /\ wrongGuesses' = IF pinCounter > 0 THEN wrongGuesses + 1 ELSE wrongGuesses
     /\ Reply("VERIFY_PIN", "SECURITY_STATUS_NOT_SATISFIED")
     /\ UNCHANGED <<creds, code, otpPin, authSinceCode, issued, accepted, challenge, listener>>
  \/ /\ otpPin # NoPin /\ ~VerifyRejects(pin)
     /\ pinCounter' = MAX_OTP_COUNTER
     /\ validated' = TRUE /\ authSinceCode' = TRUE
     /\ RestoreCounter
     /\ Reply("VERIFY_PIN", "OK")
     /\ UNCHANGED <<creds, code, otpPin, issued, accepted, challenge, listener>>

(***************************************************************************)
(* cmd_verify_hotp, lines 569-611: the code is compared with the one      *)
(* computed from the stored moving factor, which is left as it is.  No    *)
(* validated check.                                                         *)
(***************************************************************************)
VerifyHotp(name, otp) ==
  \/ name \notin Stored /\ Refuse("VERIFY_CODE", "DATA_INVALID")
  \/ name \in Stored /\ creds[name].type # "HOTP" /\ Refuse("VERIFY_CODE", "DATA_INVALID")
  \/ /\ name \in Stored /\ creds[name].type = "HOTP" /\ otp # creds[name].imf
     /\ Refuse("VERIFY_CODE", "WRONG_DATA")
  \/ /\ name \in Stored /\ creds[name].type = "HOTP" /\ otp = creds[name].imf
     /\ resp' = [ins |-> "VERIFY_CODE", sw |-> "OK", otp |-> <<name, otp>>]
     /\ accepted' = accepted \cup {<<name, otp>>}
     /\ UNCHANGED <<validated, files, authSinceCode, verifyFails, wrongGuesses, issued,
                    challenge, listener>>

(***************************************************************************)
(* The early returns for a missing TLV tag, an unknown algorithm or wrong  *)
(* P1/P2 (INCORRECT_PARAMS, no state change), reached once the checks     *)
(* each handler makes before them pass: validated (cmd_put 136-145,       *)
(* cmd_delete 186-197, cmd_set_code 214-225, cmd_calculate 381-388,       *)
(* cmd_calculate_all 451-455), the OTP PIN file absent (cmd_set_otp_pin   *)
(* 504-509) or present (cmd_change_otp_pin 521-526, cmd_verify_otp_pin    *)
(* 545-550), nothing (cmd_validate 305, cmd_verify_hotp 574).  cmd_reset  *)
(* has no tag to miss.                                                     *)
(***************************************************************************)
TagChecksReached(ins) ==
  CASE ins \in Protected \ {"LIST"} -> validated
    [] ins \in {"VALIDATE", "VERIFY_CODE"} -> TRUE
    [] ins = "SET_PIN" -> otpPin = NoPin
    [] ins \in {"CHANGE_PIN", "VERIFY_PIN"} -> otpPin # NoPin

MissingTag(ins) == TagChecksReached(ins) /\ Refuse(ins, "INCORRECT_PARAMS")

\* The first test of cmd_reset (P1P2 other than DE AD, lines 260-262),
\* cmd_calculate (P2 not 0 or 1, 378-380) and cmd_calculate_all (448-450),
\* made before validated is read.
WrongP1P2(ins) == Refuse(ins, "INCORRECT_P1P2")

\* Every handler writes with flash_write_data_to_file() or delete_file()
\* and calls low_flash_available(): the files differ from what was
\* programmed until do_flash() runs.
Pending == <<creds, code, otpPin, pinCounter>> # flushed.files

\* do_flash() in the main loop (main.c lines 321-324) programs the staged
\* files.  It runs after execute_tasks() has sent the response and before
\* the next turn can take another APDU, so no handler runs while a write
\* is pending.
Flush ==
  /\ Pending
  /\ flushed' = [files |-> <<creds, code, otpPin, pinCounter>>,
                 verifyFails |-> verifyFails, issued |-> issued]
  /\ UNCHANGED <<validated, selected, challenge, files, resp, history>>

\* A power cycle: the files are what do_flash() last programmed, the
\* statics validated and challenge are initialised again (lines 63-64)
\* and no applet is selected (current_app = NULL, main.c line 112).  The PIN comparisons
\* and accepted codes the host saw stay in the history.
Reboot ==
  /\ validated' = TRUE /\ authSinceCode' = FALSE
  /\ creds' = flushed.files[1] /\ code' = flushed.files[2]
  /\ otpPin' = flushed.files[3] /\ pinCounter' = flushed.files[4]
  /\ verifyFails' = flushed.verifyFails /\ issued' = flushed.issued
  /\ selected' = FALSE /\ challenge' = ZeroChallenge
  /\ Reply("BOOT", "NONE")
  /\ UNCHANGED <<wrongGuesses, accepted, listener, flushed>>

(***************************************************************************)
(* oath_select, lines 71-110: the applet becomes current_app; with an     *)
(* access code set a new challenge is drawn and returned (lines 89-95).   *)
(* validated is left as it is.                                             *)
(***************************************************************************)
\* Variant that never draws a new challenge at SELECT.
SelectRenewsNever == FALSE

SelectRenews == code # NoKey

Select ==
  /\ \/ SelectRenews /\ Draw
     \/ ~SelectRenews /\ UNCHANGED challenge
  /\ selected' = TRUE
  /\ heardStale' = (heard # NoAnswer)
  /\ Reply("SELECT", "OK")
  /\ UNCHANGED <<validated, files, authSinceCode, verifyFails, wrongGuesses, issued, accepted,
                 heard>>

\* fido_select, fido.c lines 64-70: the FIDO applet takes current_app.
SelectFido ==
  /\ selected' = FALSE
  /\ Reply("SELECT_FIDO", "OK")
  /\ UNCHANGED <<validated, challenge, files, history>>

Init ==
  /\ validated = TRUE /\ selected = FALSE
  /\ challenge = ZeroChallenge /\ heard = NoAnswer /\ heardStale = FALSE
  /\ creds = [n \in Names |-> NoCred]
  /\ code = NoKey /\ otpPin = NoPin /\ pinCounter = 0
  /\ resp = [ins |-> "BOOT", sw |-> "NONE", otp |-> NoOtp]
  /\ authSinceCode = FALSE /\ verifyFails = 0 /\ wrongGuesses = 0
  /\ issued = {} /\ accepted = {}
  /\ flushed = [files |-> <<creds, code, otpPin, pinCounter>>,
                verifyFails |-> 0, issued |-> {}]

\* One APDU of oath_process_apdu.
Handle ==
  \/ \E n \in Names, t \in Types, imf \in 0..MaxHotp : Put(n, t, imf)
  \/ \E n \in Names : Delete(n) \/ Calculate(n)
  \/ \E k \in Keys \cup {NoKey}, ok \in BOOLEAN : SetCode(k, ok)
  \/ \E a \in {<<k, challenge>> : k \in Keys} \cup {heard, NoAnswer} : Validate(a)
  \/ Reset \/ List \/ CalculateAll
  \/ \E ins \in Instructions \ {"LIST", "BOOT", "SELECT", "SELECT_FIDO", "RESET"} : MissingTag(ins)
  \/ \E ins \in {"RESET", "CALCULATE", "CALC_ALL"} : WrongP1P2(ins)
  \/ \E p \in Pins : SetOtpPin(p) \/ VerifyOtpPin(p)
  \/ \E p \in Pins, q \in Pins \cup {NoPin} : ChangeOtpPin(p, q)
  \/ \E n \in Names, c \in 0..MaxHotp : VerifyHotp(n, c)

Next ==
  \/ ~Pending /\ selected /\ Handle /\ UNCHANGED <<selected, flushed>>
  \/ ~Pending /\ (Select \/ SelectFido) /\ UNCHANGED flushed
  \/ Flush
  \/ Reboot

Spec == Init /\ [][Next]_vars

-----------------------------------------------------------------------------
\* VERIFY PIN succeeds only while fewer than MAX_OTP_COUNTER wrong PINs
\* were presented to it since the counter was last restored, counting
\* those whose decrement do_flash() programmed before a power cycle.
VerifyPinLockout ==
  [][(resp'.ins = "VERIFY_PIN" /\ resp'.sw = "OK") => verifyFails < MAX_OTP_COUNTER]_vars

\* While an access code is set, a protected command succeeds only after
\* the host proved the code (VALIDATE) or the OTP PIN since the code was
\* set or the key was powered up.  A handler step is one taken with
\* nothing pending: do_flash() does not answer.
AccessCodeEnforced ==
  [][(~Pending /\ resp'.ins \in Protected /\ resp'.sw = "OK" /\ code # NoKey) => authSinceCode]_vars

\* A VALIDATE answer accepted before the latest SELECT is never accepted
\* again after it: oath_select draws a new challenge whenever an access
\* code is set, so a listener's recorded answer does not carry over into
\* a later selection, across power cycles and code changes included.
\* An accepted non-empty answer becomes heard' and is no longer stale.
\* (Within one selection it does: the challenge is not renewed after a
\* successful VALIDATE, line 320.)
ReplayBoundedBySelect ==
  [][(resp'.ins = "VALIDATE" /\ resp'.sw = "OK" /\ heardStale /\ ~heardStale') => heard' # heard]_vars

\* No more than MAX_OTP_COUNTER wrong OTP PINs can be tried, by any
\* command, before the PIN is blocked.
PinGuessesBounded == wrongGuesses <= MAX_OTP_COUNTER

\* An HOTP code is accepted at most once, and never one CALCULATE has
\* already handed out.
HotpAcceptedOnce ==
  [][(resp'.ins = "VERIFY_CODE" /\ resp'.sw = "OK") => resp'.otp \notin issued \cup accepted]_vars
=============================================================================
