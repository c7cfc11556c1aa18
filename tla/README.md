# TLA+ models of RP2040-GEEK-FIDO2

This directory holds TLA+ specifications of the FIDO2/U2F/OATH firmware in `src/`,
the TLC configurations that check them, and `PROJECT.json`. That file records which
source lines each definition translates, every run, a mutant per checked property,
the findings, and the hazards the code is exposed to.

## 1. The system

The firmware is an RP2040 security key that runs on two cores.

The USB core runs `main()` (`pico-keys-sdk/src/main.c:321-345`). It loops over `execute_tasks` (USB and LED), `neug_task` and `do_flash`, which programs the flash pages that earlier writes staged in RAM.

The card core (`card_init_core1`, `usb.h:116`) runs the applet handlers, one command at a time: FIDO (`fido.c`: `fido_process_apdu`, `cmd_cbor` for CTAP2, `cmd_authenticate` for U2F) or OATH (`oath.c`). A handler runs to completion before the next request is read.

The one blocking point inside a handler is the user-presence wait. `wait_button_pressed` (`fido.c:407-418`) queues `EV_PRESS_BUTTON` to the USB core and blocks until a verdict comes back. The USB core answers it by running `wait_button` (`main.c:169-196`), which polls the button for up to 15 s for a press and then for the release, and honours a CTAPHID cancel.

| Part | Source | State | Operations |
|---|---|---|---|
| GetAssertion / GetNextAssertion | `src/fido/cbor_get_assertion.c` | the pagination globals `credsx`, `numberOfCredentialsx`, `credentialCounter`, `timerx`, `flagsx`, `datax`/`lenx`, `residentx`; the token `paut`; the signature counter in `EF_COUNTER` | `cbor_get_assertion(next=false)`, `cbor_get_next_assertion` |
| Candidate resolver | same file, 284-355 | local `creds[]`, `allowList[]` (fixed arrays of `MAX_CREDENTIAL_COUNT_IN_LIST`) | allow-list load, resident scan, credProtect filter, exchange sort |
| Key derivation | `src/fido/fido.c` 144-301 | none persistent (scratch key material) | `fido_load_key`, `derive_key`, `verify_key`, `load_keydev` |
| User presence | `fido.c` 407-433, `main.c` 134-196, `usb.h` 28-41 | button, `cancel_button`, the two inter-core queues | `wait_button_pressed`, `wait_button`, `check_user_presence` |
| Flash store | `fido.c` 303-394, 435-438 (the low-flash layer is not under `src/`) | `EF_KEY_DEV`, `EF_COUNTER`, staged pages | `scan_files`, `get_sign_counter`, `flash_write_data_to_file`, `do_flash` |
| U2F authenticate | `src/fido/cmd_authenticate.c`, `fido.c` 481-494 | signature counter | `fido_process_apdu`, `cmd_authenticate` |
| OATH applet | `src/fido/oath.c` | `validated`, credential files, OTP PIN file with retry counter, HOTP counters | put, delete, list, calculate(all), set/validate/reset code, set/change/verify OTP PIN, verify HOTP |
| Transport emulation | `pico-keys-sdk/src/usb/emulation/emulation.c` | sockets | send/receive with retry |

How the parts interact:
- GetAssertion asks the resolver for candidates.
- GetAssertion waits for the button through `check_user_presence`.
- GetAssertion loads keys through `fido_load_key`/`derive_key`.
- GetAssertion leaves the pagination session in globals. GetNextAssertion reads and advances it, and later replays the saved request through `cbor_get_assertion(next=true)`.
- Every assertion (CTAP2 or U2F) increments the counter and queues it with `flash_write_data_to_file`. The main loop's `do_flash` later commits it, but only while the USB core is not inside `wait_button`.
- U2F `Authenticate` with P1 = ENFORCE blocks the card core until the USB core's `wait_button` answers.

Where it is hard:
- The session outlives its request and is shared by two handlers.
- Its 30 s window is computed in `uint32_t`.
- The token flags are read at presence time and must be cleared after.
- Errors occur after the session is already installed.
- The fixed arrays are indexed by counters that have no bound.

## 2. Modules

| Module | Models | How state and actions correspond |
|---|---|---|
| `CandidateResolver` | lines 119-139, 284-355 | Pure operators. `LoadAllowList`, `ScanResident` (stops at `MaxCreds`, before filtering, as the loop condition does), `FilterProtected` (the credProtect rules with order-preserving compaction), and `ExchangeRow`/`ExchangeSortFrom`. The last two are the two nested loops of the exchange sort as `RECURSIVE` operators. `credential_load` (credential.c, not under `src/`) is modelled from the spec: a handle loads iff it is bound to the relying party. |
| `CborMapKeys` | lines 98-111 | `KeyScan` is the key-order loop over the request map: keys 1 and 2 first, then strictly increasing. |
| `GetAssertion` | lines 45-77, 79-674 | VARIABLES are the session globals, `paut`, the last response and `now` (real time). The module composes `FlashStore`, so `signCount` is `EF_COUNTER` as `get_sign_counter` reads it. An assertion stages `ctr + 1` (`CounterAfterAssertion`). `TakeRequest` runs a request only when nothing is staged, and `Flush` (`do_flash`) programs the staged counter. `PowerLoss` drops what is staged and resets the RAM globals to their initialisers. `board_millis` is `now % ClockMod`. `GetAssertion(req, pressed, built, signed)` is the whole handler. It takes the early returns in code order (`PreChecks`), then resolves candidates, then the presence step (the token's UP stands in for the button) followed by token clearing, then the `largeBlobKey=false` error, then the session install. `built` is the outcome of key loading and extensions, after the install. `signed` is the ignored signature result. `GetNextAssertion(built, signed)` is lines 45-77 together with the `next=true` path. `IssueToken` is the PIN ceremony (not under `src/`; spec-modelled). |
| `OathApplet` | `oath.c` 63-611 | VARIABLES are the files (`creds` by name with type and moving factor, `code` = `EF_OATH_CODE`, `otpPin` and `pinCounter` = the hash and byte 0 of `EF_OTP_PIN`), the static `validated` and the last status word. There is one action per handler with its early returns as disjuncts. `MissingTag` covers the missing-TLV returns (`INCORRECT_PARAMS`), guarded by the checks that precede them in each handler. `WrongP1P2` is the `INCORRECT_P1P2` test that RESET, CALCULATE and CALCULATE ALL make before anything else. Every handler stages its writes. `flushed` holds what `do_flash` last programmed, and `Pending` holds while the files differ from it. `Flush` is `do_flash` in the main loop. `Handle` (one APDU) runs only with nothing pending: `main` sends the response in `execute_tasks` and runs `do_flash` before the next turn can take another APDU. `Reboot` is a power cycle at any point. It restores the files to `flushed`, re-initialises the static, and rolls back the `verifyFails`/`issued` history those files record. Because that history rolls back, no property here can tell a lost HOTP increment or PIN decrement from none: checking those would need a history that survives the cut, and the code would violate it by design (see the hazards). The PIN comparisons the host saw (`wrongGuesses`) are not rolled back. A key, PIN or HOTP code is a model value. `selected` is `current_app` (main.c 112): `Select` (`oath_select`) sets it and draws a new `challenge` when a code is set (`SelectRenews`, lines 89-90). `SelectFido` (fido.c 64-70) takes it away, and `Reboot` clears it and zeroes the static `challenge`. Handlers run only while the applet is selected. `Draw` is `random_gen`: a challenge value that neither the current challenge nor the recorded answer carries. A VALIDATE answer is `<<key, challenge>>` or `NoAnswer`. `ResponseMatches` accepts the HMAC of the current challenge under the stored key. It also accepts an empty answer, because line 325 compares only `resp_len` bytes. The listener (`heard`, `heardStale`) keeps the last accepted answer and may replay it. The answer turns stale at the next SELECT. |
| `MCOathApplet` | — | Names `n1`, `n2` with room for one credential (so `FILE_FULL` happens), keys `k1`, `k2`, PINs `p1`, `p2`, `MAX_OTP_COUNTER = 3` as in the code, moving factors 0..1, and challenges `c1`, `c2` besides the zero one: two values are enough, because `Draw` must avoid only the current challenge and the one in the recorded answer. The pass run declares `MC_Symmetry`, since names, keys, PINs and challenges are only compared for equality. It also declares `MC_View`, which leaves out `resp`. No guard reads `resp`, so two states that differ only in the last response have the same successors, and every property reads `resp'` alone. |
| `MCExchangeSort` | — | Instantiates the resolver with `Creation` bound to a variable. It checks `SortByCreation` on every list of at most 4 candidates with times in 1..3. |
| `PaginationSession` | — (spec 4.6) | The abstract session: `pages` (the credentials still to hand out) and `served` (the credential of the last successful GetNextAssertion). A GetAssertion opens it with a new non-empty list of credentials (`Open`), which may name a credential twice, because `load_allow_list` keeps repeated handles (lines 284-301), or leaves it alone (`Keep`). A GetNextAssertion serves the head of the list (`Serve`) or destroys the session (`Refuse`). `GetAssertion` instantiates it as `Abstract`. The refinement mapping is `SessionPages` (`credsx` after the cursor while `datax` is set) and `ServedCred`. |
| `MCGetAssertion` | — | Five credentials, two relying parties, and the request set described below. |
| `ButtonWait` | `main.c` 149-196, `fido.c` 407-418, `usb.h` 33-41 | VARIABLES: the button, `cancel_button`, the USB core's place in `wait_button` (`idle`, `press` loop, `release` loop), `millis` (`board_millis()`, a uint32 counted modulo `ClockMod`), `start_button`, both queues, and whether the card core is blocked. Each loop exit and each timeout `break` is its own action. The timeout tests are `Deadline(t) < millis`, where `Deadline(t)` is `start_button + t` taken modulo `ClockMod`, as the uint32 sum is in the code. `Tick` is the clock advancing, always, and wrapping at the top. `Cancel` and `Toggle` are the host and the user. The USB core's handler that turns the result into `EV_BUTTON_TIMEOUT`/`EV_BUTTON_PRESSED` is in `usb.c`, which is not under `src/`; it is modelled by what `usb.h` and `wait_button_pressed` imply. `touched` is a history variable. |
| `FlashStore` | `fido.c` 435-438, plus the low-flash layer (spec-modelled) | `committed` and `staged` contents of `EF_KEY_DEV` and `EF_COUNTER`. A read sees the staged page; `DoFlash` programs it; `FlashLoss` drops it. |
| `U2fAuthenticate` | `cmd_authenticate.c` 26-102, `fido.c` 144-405, 473-494 | Composes `ButtonWait` and `FlashStore`. `FidoProcessApdu` is the dispatch together with `cmd_authenticate` up to the touch. For ENFORCE it sends `EV_PRESS_BUTTON` and parks the APDU in `pending`; `CardButtonEvent` resumes from line 37 with the verdict. `AuthenticateKey` is lines 41-102: `credential_verify` (spec-modelled), then `fido_load_key` or `derive_key` + `verify_key`, CHECK_ONLY, signature, and the counter write. A key handle is a record (kind, appId, device key, hardened). `Boot` is `init_fido` → `scan_files`: a blank device generates its key (which may fail, returning early) and initialises the counter. `Flush` is `do_flash` in the main loop. `PowerLoss` resets both cores, the queues and RAM. History: `reports` (counters signed this power cycle), `flushed`, `durable`. |
| `MCU2fAuthenticate` | — | One requesting appId `a1`. Five handles: good; made for `a2`; made under the key a blank device generates; a path that is not hardened; and a resident credential of `a1`. Requests: every P1 with every handle, and one APDU per early rejection. |

History variables in `GetAssertion` exist only for properties:
- `sessOut`: the credentials the current session has delivered.
- `sessTime`: the real time of its last step.
- `lastOkRp`: the relying party of the last successful GetAssertion.
- `uvUpUses`: UV+UP assertions since the token was issued.

`overflow` records that a request indexed past the fixed arrays.

## 3. Runs

| Run | Cfg | Expect | Shows |
|---|---|---|---|
| exchange_sort | `MCExchangeSort.cfg` | pass | `SortedNewestFirst`: the sort ranks every list of up to 4 newest first (405 states). |
| sort_stability | `MCExchangeSortStable.cfg` | violation | `SortIsStable`: times `<<1,1,2>>` come out as `<<3,2,1>>`. Equal-time candidates are reordered, against spec 4.4. |
| assertion_session | `MCGetAssertion.cfg` | pass | See the list below (110 853 distinct states, under 3 minutes). |
| stale_continuation | `MCGetAssertionStale.cfg` | violation | `NoStaleContinuation`: see the list below. |
| unsigned_success | `MCGetAssertionUnsigned.cfg` | violation | `SuccessCarriesSignature`: a failed signature still gives an OK response and a counter increment. |
| clock_wrap | `MCGetAssertionWrap.cfg` | violation | `ContinuationWithinWindow` with `ClockMod=4`. See the list below. |
| oath_applet | `MCOathApplet.cfg` | pass | Checks `TypeOK`. `VerifyPinLockout`: VERIFY PIN succeeds only while fewer than `MAX_OTP_COUNTER` wrong PINs were recorded in flash since the counter was restored. `ReplayBoundedBySelect`: a VALIDATE answer accepted before the latest SELECT is never accepted again after it, across power cycles and code changes. Power may fail between any response and `do_flash`, and the host may re-select at any time. 358 k distinct states under symmetry and the view, about 20 s. |
| oath_access_bypass | `MCOathAppletAccess.cfg` | violation | `AccessCodeEnforced`: SELECT, SET CODE k1, then VALIDATE with an empty response, then PUT succeeds. With the empty response removed by hand, the trace is SELECT, SET CODE k1, `do_flash`, power cycle, SELECT, PUT. |
| oath_pin_guesses | `MCOathAppletGuesses.cfg` | violation | `PinGuessesBounded`: TLC's shortest trace is SELECT, SET PIN, `do_flash`, three wrong CHANGE PINs (the retry counter stays at 3), then a wrong VERIFY PIN: four guesses with `MAX_OTP_COUNTER = 3`. With that path removed by hand, the property still fails: after the third wrong VERIFY PIN, power is cut before `do_flash`, and a fourth guess is compared. |
| oath_hotp_replay | `MCOathAppletReplay.cfg` | violation | `HotpAcceptedOnce`: VERIFY CODE accepts factor 0 twice. |
| allowlist_overflow | `MCGetAssertionOverflow.cfg` | violation | `CandidateArraysInBounds`: an allow list of 4 with `MaxCreds=3`. |
| u2f_authenticate | `MCU2fAuthenticate.cfg` | pass | See the list below (598 824 distinct states, about 45 s, liveness included). |

What the u2f_authenticate run checks:
- `TypeOK`.
- `CounterFresh`: within a power cycle the U2F counters strictly increase. Every counter is above each one made durable by `do_flash` in an earlier power cycle. Power loss at any point and the deferred write are both in the model.
- `PresenceConfirmed`: an OK response with the TUP flag comes only after a `wait_button` that saw the button pressed, with no cancel arriving before its verdict. This crosses both cores and both queues.
- `PresenceWaitEnds`: a card core blocked in `wait_button_pressed` is woken, even if the user holds the button forever or never touches it, unless the loop that `wait_button` runs has a deadline `start_button + timeout` equal to the top value of `board_millis()`. No uint32 is above that value, so that loop ends only on a press or a cancel (main.c 178, 187). Without this exception TLC finds the wait that never ends: `start_button = 2`, deadline 3, `ClockMod = 4`. The exception is stated in the property rather than checked as a violation, because every run slot is taken; it is listed as a hazard. A deadline that wraps past the top is already below `board_millis()`, and the loop times out before the user can touch. The property covers that case.

What the assertion_session run checks:
- `TypeOK`.
- `ContinuationInOrder`: the delivered credentials are always a prefix of the ranked candidates of the saved request.
- `PresenceConsumedOnce`: one token backs at most one UP+UV assertion.
- `PaginationRefined` (`Abstract!Spec`): every handler step is a step of `PaginationSession`. A GetNextAssertion serves exactly the first remaining page or destroys the session, and a session only ever gains pages by being replaced. The allow list `<<c2, c2>>` gives a session that names `c2` twice, and the refinement holds for it too. The abstraction lets a GetAssertion leave an old session in place, so the stale continuations of stale_continuation are not refused here.

The two counterexamples found by stale_continuation:
- A GetAssertion installs a session and then fails loading the key. A GetNextAssertion continues it.
- A GetAssertion of rpB with one candidate succeeds. A GetNextAssertion then answers from the older rpA session.

The clock_wrap counterexample: a session re-armed at `board_millis()=1` is still accepted when real time is 5.

Each property of a passing run has a mutant in `PROJECT.json`: a plausible coding error in the mapped definition that TLC must catch. The mutants are:
- the exchange comparison flipped;
- the resident-scan bound `<=`;
- the cursor left at 0 at install;
- only the UP flag cleared;
- the cursor read one place back (`credsx[credentialCounter - 1]`), which serves a page already served.

The OATH mutants: the counter decremented without the `> 0` test (uint8 wrap), the `data_hsh[0] == 0` lockout test dropped, and `oath_select` not drawing a new challenge.

The U2F mutants:
- the counter written as `ctr + 2`;
- `scan_files` resetting `EF_COUNTER` even when it has data (after a power loss the counter falls below a durable one);
- `wait_button` returning `timeout` without `|| cancel_button` (a cancel in the press loop becomes EV_BUTTON_PRESSED);
- the release loop without its timeout (a held button blocks the card core).

### Bounds
`MCGetAssertion`:
- `MaxCreds=3` is reached by the resident scan of rpA, which also hides `c5` behind the protected `c2`, `c3`.
- `Window=1`, `MaxTime=2` in the passing run: a session can be used, re-armed and expire (armed at 0, refused at 2). clock_wrap uses `Window=2`, `MaxTime=6`.
- `ClockMod=8` in the passing run: no wrap, so the 30 s window is checked only by clock_wrap, where the wrap shows.
- `MaxCounter=3` (FlashStore): one GetAssertion plus two GetNextAssertions, a full three-credential session.

Requests in `MCGetAssertion`:
- every allow list (none, `<<c1, c2>>`, `<<c2, c2>>`, `<<c3, other type>>`) × `up` absent/false × no PIN/valid PIN for rpA;
- a resident request for rpB;
- an empty pinUvAuthParam (the button wait of line 213) and `largeBlobKey=false`. An explicit `up=true` and a bad MAC take the same paths as an absent `up` and a token that is refused.

The other early returns of `PreChecks` (bad CBOR keys, a missing parameter, `uv=true`, `rk`, the hmac-secret errors, a bad PIN protocol) are written in `PreChecks` in the code's order but are not in the request set: each only returns an error code without changing state, so they would add states without adding behaviour. Every action and every disjunct of `Next` fires in the passing runs (TLC coverage).

`MCU2fAuthenticate`:
- `ButtonTimeout = ReleaseTimeout = 1` tick. The code has 15000 ms for both, and only the order of "past the timeout" and a press or release matters.
- `MaxCounter = 3` allows three signatures, so a counter can be reported, flushed, lost and reported again.
- Both key-generation and both signature outcomes are enabled, and `cap_supported(CAP_U2F)` may be either value.
- `ClockMod = 4` with both timeouts 1 gives every start: a deadline passed after a tick (start 0, 1), one at the top that is never passed (start 2), and one that wraps and times out at once (start 3).

### Fairness
Only `U2fAuthenticate` states fairness, for `PresenceWaitEnds`:
- weak fairness of `Tick`: `board_millis()` is a free-running hardware timer;
- weak fairness of the USB core's `WaitButtonStart`: that core polls without end;
- strong fairness of the loop tests of `wait_button` (`WaitButtonStep`). With a wrapping clock a timeout test holds only while `millis` is past the deadline, so it is enabled again and again but not continuously. The loop makes its tests in every turn, many turns a millisecond, so a test that keeps coming true is eventually seen;
- weak fairness of the card core taking the verdict: `queue_remove_blocking` returns once an item is queued.

Requests, button presses, cancels and power loss come from the host and the user, and the firmware owes none of them: they are not fair. The other runs check safety only.

## 4. Findings
- **Unstable sort.** Spec 4.4 requires a stable newest-first sort; the code is unstable (`sort_stability`).
- **Stale or failed sessions are continued.** The code installs the session before the last fallible step, never tears it down on error, and never invalidates it on a new GetAssertion. This contradicts spec 3 and 4.6 (`stale_continuation`).
- **Signature result ignored** at line 567 (`unsigned_success`).
- **uint32 wrap of the 30 s test** at line 50 (`clock_wrap`).
- **OATH access code bypassed with an empty VALIDATE response.** `memcmp` compares only the `resp_len` bytes the host sent (oath.c:325) (`oath_access_bypass`).
- **OATH access code bypassed after a power cycle.** `validated` is a static initialised to `true` (oath.c:63) (`oath_access_bypass`).
- **OTP PIN retry counter bypassed by CHANGE PIN** (oath.c:528) and by a power cut between the VERIFY PIN answer and `do_flash` (oath.c:557) (`oath_pin_guesses`).
- **HOTP codes replayable through VERIFY CODE**: the moving factor is not advanced (oath.c:606) (`oath_hotp_replay`).
- **Unbounded writes** into `allowList[]`/`creds[]` at lines 121-139 (`allowlist_overflow`).

Two more divergences were noted while modelling. They have no run of their own, because the project keeps its runs for the findings above:
- **Policy rules out of order.** `PreChecks` follows the code. The code tests an empty pinUvAuthParam (line 211, with its button wait) and the PIN protocol before `options.uv`/`options.rk` (lines 232-240). Spec 4.3 puts uv and rk first. A request with `uv=true` and an empty pinUvAuthParam therefore makes the user touch the key and then gets a PIN error, not InvalidOption.
- **`numberOfCredentials` without a session.** With `up=false` and several candidates, the count is encoded (line 631) but no session is installed (line 382). In the model this is the `~install /\ count > 1` case of `GetAssertion`.

## 5. Plan (in order)

1. Done: `CandidateResolver`, `CborMapKeys`, `GetAssertion` with the session runs above.
2. Runs for two divergences noted below (policy order, announced count) if a run slot is worth spending on them.
3. Done: the abstract `PaginationSession`, refined by `GetAssertion` (`PaginationRefined`). Still to do: add the 30 s deadline to the abstract spec, and a variant where a new GetAssertion must close the old session (spec 3). The code fails that variant, as stale_continuation shows.
4. Done for U2F: `FlashStore` with `do_flash` and power loss (`CounterFresh`). Done for CTAP2: `GetAssertion` keeps its counter in `FlashStore`, and a power cut before `do_flash` can reuse a counter value that was sent (spec 4.5 step 7 allows it; no property claims otherwise). Done for OATH: every file write is staged until `do_flash`. A power cut can hand out an HOTP code again, the same fire-and-forget write. It also undoes a PIN retry decrement, which is a finding.
5. Done: `OathApplet`, with SELECT and its challenge (`ReplayBoundedBySelect`). Within one selection, a recorded answer can still be replayed (oath.c:320). `oath_select` also keeps `validated` (oath.c:71). Both are listed as hazards without a property.
6. Done: `U2fAuthenticate`. Still to do: the `tmp_kh` leak of line 53 as a heap counter, with a violation run.
7. `verify_key`/`derive_key` are modelled by their outcomes in `U2fAuthenticate`. Still to do: zeroisation on every return path, and the curve mapping for CTAP2 algorithms.
8. Done: `ButtonWait` with liveness. Still to do: the main-loop press counter (`main.c` 326-342), where a touch ending a presence wait may also be counted for `button_pressed_cb`; and `check_user_presence` in `GetAssertion` through the same handshake.

## 6. Not modelled
- `emulation.c`: socket I/O only. Its length-prefix framing trusts a single `recv`/`send`, so a split TCP frame desynchronises it. This is listed as a hazard and not modelled, because the firmware models take whole APDUs.
- `psa_util.h`: a third-party header.
- `usb.h`: beyond the button events, prototypes and interface numbers.
- `usb.c`, `low_flash.c`, `credential.c`: not under `src/`. Only the behaviour `U2fAuthenticate` relies on is spec-modelled: the handler that answers `EV_PRESS_BUTTON`, staged pages and commit, and `credential_verify`.
- `scan_files` for the certificate, auth-token and large-blob files, and `x509_create_cert`: they hold no state a modelled handler reads. The exception is the early `return` when building the certificate fails (`fido.c:352`). That return skips the counter and auth-token initialisation, and `init_fido` ignores it. This is listed as a hazard; the models start from a `scan_files` that completed.
- `mbedtls_curve_to_fido` (`fido.c` 122-142): no code under `src/` calls it.
- LED and board bring-up.
- CBOR encoding of responses: layout only.
- Cryptographic values: an HMAC, a key or a signature is a success/failure outcome.
- Heap ownership: leaks are listed as hazards without a property.
