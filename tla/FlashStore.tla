----------------------------- MODULE FlashStore -----------------------------
(***************************************************************************)
(* The two files of the flash store the U2F path reads: EF_KEY_DEV, the   *)
(* device master key, and EF_COUNTER, the global signature counter.       *)
(*                                                                         *)
(* flash_write_data_to_file() only stages a page in RAM; reads see the    *)
(* staged page; low_flash_available() marks the pages ready and do_flash() *)
(* in the main loop of the USB core programs them (low_flash.c, not under *)
(* src/: modelled from spec 4.5 step 7, "the counter write is              *)
(* fire-and-forget", and spec 5, commit atomic by the store's contract).  *)
(* A power loss drops what is staged.                                      *)
(***************************************************************************)
EXTENDS Naturals, TLC

CONSTANTS
  NoData,       \* a file without data (file_has_data() false)
  MaxCounter,   \* bound on the signature counter
  NoStage       \* no page staged for the file

Files == {"keydev", "counter"}

VARIABLES
  committed,    \* file -> content programmed in flash
  staged,       \* file -> content staged in RAM, or NoStage
  flashReady    \* low_flash_available() was called since the last do_flash()

flashVars == <<committed, staged, flashReady>>

\* file_get_data(): the staged page if there is one.
FileData(f) == IF staged[f] # NoStage THEN staged[f] ELSE committed[f]

FileHasData(f) == FileData(f) # NoData

\* flash_write_data_to_file() of each file in the domain of upd, then
\* low_flash_available().
WriteFiles(upd) ==
  /\ staged' = upd @@ staged
  /\ flashReady' = TRUE

\* do_flash() (main.c line 324): program every ready page.
DoFlash ==
  /\ flashReady
  /\ committed' = [f \in Files |-> FileData(f)]
  /\ staged' = [f \in Files |-> NoStage]
  /\ flashReady' = FALSE

\* Power loss: RAM is lost, flash keeps what was programmed.
FlashLoss ==
  /\ staged' = [f \in Files |-> NoStage]
  /\ flashReady' = FALSE
  /\ UNCHANGED committed

\* get_sign_counter() (fido.c lines 435-438): the little-endian uint32 at
\* the start of EF_COUNTER.
GetSignCounter == FileData("counter")
=============================================================================
