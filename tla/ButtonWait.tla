----------------------------- MODULE ButtonWait -----------------------------
(***************************************************************************)
(* The user-presence handshake between the two cores.                      *)
(*                                                                         *)
(* The card core (the FIDO handlers) calls wait_button_pressed()           *)
(* (src/src/fido/fido.c): it queues EV_PRESS_BUTTON on card_to_usb_q and   *)
(* blocks on usb_to_card_q until EV_BUTTON_PRESSED or EV_BUTTON_TIMEOUT    *)
(* arrives.  The USB core takes the event in usb_task() (usb.c, not under *)
(* src/), runs wait_button() (src/pico-keys-sdk/src/main.c) and queues    *)
(* its verdict.  wait_button() polls the button in two loops, first for a *)
(* press and then for the release, running execute_tasks() in each turn,  *)
(* where a CTAPHID_CANCEL may set cancel_button.                           *)
(*                                                                         *)
(* board_millis() is a uint32_t that wraps; it is millis, counted modulo *)
(* ClockMod.  The timeout tests add the timeout to start_button in        *)
(* uint32_t as the code does, so a deadline may wrap past the top.        *)
(***************************************************************************)
EXTENDS Naturals, Sequences

CONSTANTS
  ButtonTimeout,   \* button_timeout (15000 ms), bound of the press loop
  ReleaseTimeout,  \* the literal 15000 ms of the release loop
  ClockMod         \* 2^32: the range of board_millis()

ASSUME ButtonTimeout \in Nat /\ ReleaseTimeout \in Nat /\ ClockMod \in Nat \ {0}

\* usb.h lines 33, 40, 41.
EV_PRESS_BUTTON == 32
EV_BUTTON_TIMEOUT == 16
EV_BUTTON_PRESSED == 32

VARIABLES
  button,          \* board_button_read()
  cancel_button,
  usbState,        \* "idle", or the loop of wait_button() being run
  millis,          \* board_millis()
  start_button,    \* board_millis() when wait_button() was entered
  cardToUsb,       \* card_to_usb_q
  usbToCard,       \* usb_to_card_q
  cardWaiting,     \* the card core is blocked in wait_button_pressed()
  touched          \* history: the press loop ended on a pressed button

buttonVars == <<button, cancel_button, usbState, millis, start_button, cardToUsb,
                usbToCard, cardWaiting, touched>>

ButtonTypeOK ==
  /\ button \in BOOLEAN /\ cancel_button \in BOOLEAN
  /\ usbState \in {"idle", "press", "release"}
  /\ millis \in 0..(ClockMod - 1) /\ start_button \in 0..(ClockMod - 1)
  /\ cardToUsb \in Seq({EV_PRESS_BUTTON})
  /\ usbToCard \in Seq({EV_BUTTON_TIMEOUT, EV_BUTTON_PRESSED})
  /\ cardWaiting \in BOOLEAN /\ touched \in BOOLEAN

ButtonInit ==
  /\ button \in BOOLEAN
  /\ cancel_button = FALSE
  /\ usbState = "idle"
  /\ millis = 0 /\ start_button = 0
  /\ cardToUsb = <<>> /\ usbToCard = <<>>
  /\ cardWaiting = FALSE
  /\ touched = FALSE

\* wait_button_pressed(), lines 408-411: the card core asks for a touch and
\* blocks.  Part of the handler that calls it.
SendPressButton ==
  /\ cardToUsb' = Append(cardToUsb, EV_PRESS_BUTTON)
  /\ cardWaiting' = TRUE

\* Lines 412-414: the card core takes the next event; any other than the
\* two verdicts is dropped and the wait goes on.  Part of the handler.
TakeButtonEvent ==
  /\ cardWaiting /\ usbToCard # <<>>
  /\ usbToCard' = Tail(usbToCard)
  /\ cardWaiting' = (Head(usbToCard) \notin {EV_BUTTON_PRESSED, EV_BUTTON_TIMEOUT})

\* Line 417: wait_button_pressed() returns true on a timeout.
ButtonTimedOut == Head(usbToCard) = EV_BUTTON_TIMEOUT

\* usb_task() takes EV_PRESS_BUTTON and enters wait_button(), lines 170-174.
WaitButtonStart ==
  /\ usbState = "idle" /\ cardToUsb # <<>>
  /\ Head(cardToUsb) = EV_PRESS_BUTTON
  /\ cardToUsb' = Tail(cardToUsb)
  /\ usbState' = "press"
  /\ start_button' = millis
  /\ cancel_button' = FALSE
  /\ touched' = FALSE
  /\ UNCHANGED <<button, millis, usbToCard, cardWaiting>>

\* Line 195: the verdict of wait_button().
WaitButtonResultNoCancel(timeout) == timeout
WaitButtonResult(timeout) == timeout \/ cancel_button

\* Lines 193-195 and the reply of usb_task(): EV_BUTTON_TIMEOUT when
\* wait_button() returns true, EV_BUTTON_PRESSED otherwise.
WaitButtonReturn(timeout) ==
  /\ usbToCard' = Append(usbToCard,
                    IF WaitButtonResult(timeout) THEN EV_BUTTON_TIMEOUT
                                                 ELSE EV_BUTTON_PRESSED)
  /\ usbState' = "idle"

\* Lines 175 and 183: the press loop ends on a press or a cancel.
PressLoopExit ==
  /\ usbState = "press"
  /\ button \/ cancel_button
  /\ usbState' = "release"
  /\ touched' = button
  /\ UNCHANGED <<button, cancel_button, millis, start_button, cardToUsb, usbToCard, cardWaiting>>

\* start_button + t < board_millis(), the sum taken in uint32_t.
Deadline(t) == (start_button + t) % ClockMod
DeadlinePassed(t) == Deadline(t) < millis

\* Lines 178-181: no press within button_timeout.
PressLoopTimeout ==
  /\ usbState = "press"
  /\ ~button /\ ~cancel_button
  /\ DeadlinePassed(ButtonTimeout)
  /\ WaitButtonReturn(TRUE)
  /\ UNCHANGED <<button, cancel_button, millis, start_button, cardToUsb, cardWaiting, touched>>

\* Line 184: the release loop ends on the release or a cancel.
ReleaseLoopExit ==
  /\ usbState = "release"
  /\ ~button \/ cancel_button
  /\ WaitButtonReturn(FALSE)
  /\ UNCHANGED <<button, cancel_button, millis, start_button, cardToUsb, cardWaiting, touched>>

\* Lines 187-190: the button is held past the release timeout.
ReleaseLoopTimeoutNever == FALSE
ReleaseLoopTimeout ==
  /\ usbState = "release"
  /\ button /\ ~cancel_button
  /\ DeadlinePassed(ReleaseTimeout)
  /\ WaitButtonReturn(TRUE)
  /\ UNCHANGED <<button, cancel_button, millis, start_button, cardToUsb, cardWaiting, touched>>

\* board_millis() advances, wrapping at the top of uint32_t.
Tick ==
  /\ millis' = (millis + 1) % ClockMod
  /\ UNCHANGED <<button, cancel_button, usbState, start_button, cardToUsb, usbToCard,
                 cardWaiting, touched>>

\* A CTAPHID_CANCEL handled by execute_tasks() during the wait.
Cancel ==
  /\ usbState # "idle" /\ ~cancel_button
  /\ cancel_button' = TRUE
  /\ UNCHANGED <<button, usbState, millis, start_button, cardToUsb, usbToCard, cardWaiting, touched>>

\* The user presses or releases the button.
Toggle ==
  /\ button' = ~button
  /\ UNCHANGED <<cancel_button, usbState, millis, start_button, cardToUsb, usbToCard, cardWaiting, touched>>

\* One turn of the USB core while wait_button() runs.
WaitButtonStep ==
  \/ PressLoopExit \/ PressLoopTimeout
  \/ ReleaseLoopExit \/ ReleaseLoopTimeout

\* A power loss empties the queues and stops both loops; the button stays
\* as the user holds it, and board_millis() starts again from 0.
ButtonReset ==
  /\ cancel_button' = FALSE
  /\ usbState' = "idle"
  /\ millis' = 0 /\ start_button' = 0
  /\ cardToUsb' = <<>> /\ usbToCard' = <<>>
  /\ cardWaiting' = FALSE
  /\ touched' = FALSE
  /\ UNCHANGED button
=============================================================================
