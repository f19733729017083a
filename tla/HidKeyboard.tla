----------------------------- MODULE HidKeyboard ----------------------------
(***************************************************************************)
(* A USB boot-protocol keyboard as hid.rs polls it: each report lists the  *)
(* codes held down, and poll_new_keys passes on those the previous report  *)
(* lacked.  Whoever polls updates the previous report: the boot menu, its  *)
(* "press any key" screens and the console of a booted application share   *)
(* one Keyboard.                                                           *)
(***************************************************************************)
EXTENDS Naturals, Sequences, SequencesExt, Sublists

CONSTANT Codes   \* HID usage codes of the keyboard, at most the six a report holds

VARIABLES
    down,       \* the codes held down, in report order
    fresh,      \* the keyboard has a report the firmware has not read
    prev        \* Keyboard::prev_report, as the set of its codes

keyboardVars == <<down, fresh, prev>>

KeyboardInit == down = <<>> /\ fresh = FALSE /\ prev = {}

(* External: a key goes down or up; the next report lists what is held.    *)
KeyDown(c) ==
    /\ c \notin Range(down)
    /\ down' = Append(down, c)
    /\ fresh' = TRUE
    /\ UNCHANGED prev

KeyUp(c) ==
    /\ c \in Range(down)
    /\ down' = Among(down, Codes \ {c})
    /\ fresh' = TRUE
    /\ UNCHANGED prev

(* Mutant of NewKeys: every key of the report counts as new. *)
NewKeys_All == down

(* The codes of a report that the previous one lacked, in report order.    *)
NewKeys == Among(down, Codes \ prev)

(* poll_new_keys with a report: it becomes the previous one.               *)
TakeReport ==
    /\ fresh /\ fresh' = FALSE
    /\ prev' = Range(down)
    /\ UNCHANGED down

(* The transfer failed or was NAKed: nothing changes, and no keys.         *)
NoReport == UNCHANGED keyboardVars
=============================================================================
