------------------------------ MODULE Console -------------------------------
(***************************************************************************)
(* The console of a booted application (efi/console.rs): text output and   *)
(* key input, and console::init, which wires both up anew each time the    *)
(* boot manager starts an image.                                           *)
(***************************************************************************)
EXTENDS ConsoleInput, TextConsole

CONSTANTS
    Strings,     \* what applications write
    MaxStarts,   \* bound on the images started
    MaxSteps     \* bound on inputs and output calls together

ASSUME ConsoleAssumption ==
    /\ {MaxStarts, MaxSteps} \subseteq Nat
    /\ \A s \in Strings : Len(s) \in Nat

VARIABLES
    starts,     \* images started
    calls,      \* output calls made
    spoke       \* history: the image has made a call that ends in sync_mode

vars == <<inputVars, textVars, starts, calls, spoke>>

Init ==
    /\ InputInit /\ TextInit
    /\ starts = 1 /\ calls = 0 /\ spoke = FALSE

-----------------------------------------------------------------------------
(* An image returns to the boot manager, which reads what input it likes   *)
(* and starts another one.  init forgets a half-read sequence: the rest of *)
(* it, if still in the FIFO, is left for the new image.  What the boot     *)
(* manager has read counts as resolved.                                    *)
EscBehind(n) == Scanned(esc, SubSeq(uart, 1, n)).esc

KeysIn(bytes) == Scanned(0, bytes).keys

(* Mutant of ResetInput: the half-read sequence is not forgotten. *)
ResetInput_KeepsEsc(n) ==
    /\ uart' = SubSeq(uart, n + 1, Len(uart)) /\ esc' = esc /\ last' = "idle"
    /\ torn' = (uart' # <<>> /\ (torn \/ EscBehind(n) # 0))
    /\ lead' = IF uart' = <<>> THEN 0 ELSE lead
    /\ decoded' = IF torn' THEN decoded
                  ELSE SubSeq(meant, 1, Len(meant) - Len(KeysIn(uart')))

ResetInput(n) ==
    /\ uart' = SubSeq(uart, n + 1, Len(uart)) /\ esc' = 0 /\ last' = "idle"
    /\ torn' = (uart' # <<>> /\ (torn \/ EscBehind(n) # 0))
    /\ lead' = IF uart' = <<>> THEN 0 ELSE lead
    /\ decoded' = IF torn' THEN decoded
                  ELSE SubSeq(meant, 1, Len(meant) - Len(KeysIn(uart')))

StartImage ==
    /\ starts < MaxStarts /\ starts' = starts + 1
    /\ \E n \in 0..Len(uart) : ResetInput(n)
    /\ TakeReport \/ UNCHANGED keyboardVars
    /\ TextStart
    /\ spoke' = FALSE
    /\ UNCHANGED <<typed, meant, pressed, heard, calls>>

(* The application writes.                                                 *)
Call(synced) ==
    /\ Inputs + calls < MaxSteps
    /\ calls' = calls + 1 /\ spoke' = (spoke \/ synced)
    /\ UNCHANGED <<inputVars, starts>>

Writes ==
    \/ \E s \in Strings : Call(TRUE) /\ OutputString(s)
    \/ \E a \in Attributes : Call(TRUE) /\ SetAttribute(a)
    \/ Call(TRUE) /\ ClearScreen
    \/ \E c \in Col, r \in Row : Call(TRUE) /\ SetCursorPosition(c, r)
    \/ \E v \in BOOLEAN : Call(FALSE) /\ EnableCursor(v)

(* The application reads, and people type.                                 *)
Reads ==
    /\ KeyAvailable \/ ReadKeyStroke
    /\ UNCHANGED <<textVars, starts, calls, spoke>>

Arrives ==
    /\ Inputs + calls < MaxSteps
    /\ UserInput
    /\ UNCHANGED <<textVars, starts, calls, spoke>>

Next == StartImage \/ Writes \/ Reads \/ Arrives

Spec == Init /\ [][Next]_vars

-----------------------------------------------------------------------------
(* Serial input, Esc among it, is resolved without loss, duplication or    *)
(* reordering, in the second image as in the first, unless bytes were lost *)
(* in a full FIFO or init came in the middle of a sequence (console.rs     *)
(* init, uart_byte_to_key).  An image that starts on an empty FIFO starts  *)
(* clean.                                                                  *)
KeysFaithful == ~torn => UartKeysFaithful

(* The copies follow: the display shows what was drawn, and Mode tells the *)
(* cursor and attribute the next output will use, once the application has *)
(* moved, written or changed anything (console.rs sync_mode,               *)
(* framebuffer.rs flush).                                                  *)
CopiesUpToDate ==
    /\ shown = text.cells
    /\ spoke => mode.col = text.col /\ mode.row = text.row /\ mode.attr = text.attr

-----------------------------------------------------------------------------
(* What comments and documents say.                                        *)

(* console.rs on init: it "resets cursor/attribute state".  An image finds *)
(* Mode reset when it starts.                                              *)
ModeResetAtStart ==
    [][starts' # starts => mode'.col = 0 /\ mode'.row = 0 /\ mode'.attr = DefaultAttr]_vars

(* ui.rs on console::init: "it repaints the whole screen as a text         *)
(* console".  An image starts on a blank screen.                           *)
RepaintedAtStart == [][starts' # starts => shown' = BlankScreen(DefaultAttr)]_vars
=============================================================================
