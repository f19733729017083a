---------------------------- MODULE ConsoleInput ----------------------------
(***************************************************************************)
(* EFI_SIMPLE_TEXT_INPUT (efi/console.rs): ReadKeyStroke and the           *)
(* key_available test behind ConIn's WaitForKey event.  Keys come from two *)
(* sources polled in a fixed order: the UART's receive FIFO, decoded one   *)
(* byte per poll by the ANSI state machine, and the USB keyboard, whose    *)
(* reports hid.rs compares with the previous one to find new keydowns.     *)
(*                                                                         *)
(* A byte stands for its class: ESC, "[", "A" (the final byte of an        *)
(* arrow), any other printable byte, or "ctl", which decodes to no key.    *)
(***************************************************************************)
EXTENDS HidKeyboard, FiniteSets

CONSTANTS
    Keystrokes,   \* what the person at the serial terminal can type: an arrow
                  \* ("Up"), the Esc key ("ESC") or a character
    MappedCodes,  \* those hid_code_to_key translates
    FifoDepth,    \* bytes the UART's receive FIFO holds
    MaxInputs     \* bound on the keystrokes and keydowns of a behaviour

ASSUME InputAssumption ==
    /\ Keystrokes \subseteq {"Up", "ESC", "x", "[", "A", "ctl"}
    /\ MappedCodes \subseteq Codes
    /\ FifoDepth \in Nat /\ MaxInputs \in Nat

VARIABLES
    uart,       \* the receive FIFO
    esc,        \* ANSI.esc: 0 idle, 1 saw ESC, 2 saw ESC [
    last,       \* what the last poll told its caller
    typed,      \* history: number of keystrokes typed at the terminal
    meant,      \* history: the keys they stand for
    lead,       \* history: how far they have got into an ESC [ typed by hand
    torn,       \* history: bytes were lost, or a sequence forgotten half-read
    decoded,    \* history: keys poll_key_raw resolved from the UART
    pressed,    \* history: keydowns of each code
    heard       \* history: keydowns of each code poll_key_raw resolved

typedVars == <<typed, meant, lead>>
inputVars == <<uart, esc, keyboardVars, last, typedVars, torn, decoded, pressed, heard>>

NoKey == "none"
Bytes == {"ESC", "[", "A", "x", "ctl"}
Results == {"idle", "available", "unavailable", "success", "not_ready"}

(* What a terminal sends for a keystroke.  External: the other end of the  *)
(* serial line.                                                            *)
BytesOf(k) == IF k = "Up" THEN <<"ESC", "[", "A">> ELSE <<k>>

(* The escape state a byte leaves behind, and the key it completes.        *)
NextEsc(e, b) ==
    CASE e = 0 /\ b = "ESC" -> 1
      [] e = 1 /\ b = "["   -> 2
      [] OTHER              -> 0

UartKey(e, b) ==
    CASE NextEsc(e, b) # 0          -> NoKey
      [] e = 2 /\ b = "A"           -> "Up"
      [] e = 2 /\ b # "A"           -> NoKey
      [] e = 1 /\ b # "["           -> "Esc"
      [] e = 0 /\ b = "ctl"         -> NoKey
      [] OTHER                      -> b

(* hid_code_to_key's hits among the new codes of a report.                 *)
FirstMapped(cs) == Among(cs, MappedCodes)

InputInit ==
    /\ uart = <<>> /\ esc = 0 /\ decoded = <<>>
    /\ typed = 0 /\ meant = <<>> /\ lead = 0 /\ torn = FALSE
    /\ KeyboardInit
    /\ pressed = [c \in Codes |-> 0] /\ heard = [c \in Codes |-> 0]
    /\ last = "idle"

Inputs == typed + FoldFunction(LAMBDA n, acc : n + acc, 0, pressed)

(* What a keystroke stands for after e: nothing (0), Esc (1), or Esc and   *)
(* then "[" (2).  Nobody can tell Esc from the start of an arrow until     *)
(* more is typed, so Esc counts with the keystroke after it, and replaces  *)
(* the first byte of that unless it is "[".                                *)
Heard(e, k) ==
    CASE e = 0 -> IF k \in {"ESC", "ctl"} THEN <<>> ELSE <<k>>
      [] e = 1 -> CASE k = "["  -> <<>>
                    [] k = "Up" -> <<"Esc", "[", "A">>
                    [] OTHER    -> <<"Esc">>
      [] OTHER -> CASE k = "A"  -> <<"Up">>
                    [] k = "Up" -> <<"[", "A">>
                    [] OTHER    -> <<>>

LeadAfter(e, k) ==
    CASE e = 0 /\ k = "ESC" -> 1
      [] e = 1 /\ k = "["   -> 2
      [] OTHER              -> 0

(* Someone types at the terminal.  External: the UART loses the bytes for  *)
(* which its FIFO has no room.                                             *)
Type(k) ==
    LET line == uart \o BytesOf(k)
    IN  /\ Inputs < MaxInputs
        /\ uart' = IF Len(line) <= FifoDepth THEN line ELSE SubSeq(line, 1, FifoDepth)
        /\ torn' = (torn \/ Len(line) > FifoDepth)
        /\ typed' = typed + 1
        /\ meant' = meant \o Heard(lead, k) /\ lead' = LeadAfter(lead, k)
        /\ UNCHANGED <<esc, keyboardVars, last, decoded, pressed, heard>>

(* A key of the USB keyboard goes down or up.                              *)
Press(c) ==
    /\ Inputs < MaxInputs
    /\ KeyDown(c)
    /\ pressed' = [pressed EXCEPT ![c] = @ + 1]
    /\ UNCHANGED <<uart, esc, last, typedVars, torn, decoded, heard>>

Release(c) ==
    /\ KeyUp(c)
    /\ UNCHANGED <<uart, esc, last, typedVars, torn, decoded, pressed, heard>>

(* The UART half of poll_key_raw: one byte, if there is one.               *)
UartPoll(k) ==
    \/ /\ uart = <<>> /\ k = NoKey
       /\ UNCHANGED <<uart, esc, decoded>>
    \/ /\ uart # <<>>
       /\ k = UartKey(esc, Head(uart))
       /\ uart' = Tail(uart)
       /\ esc' = NextEsc(esc, Head(uart))
       /\ decoded' = IF k = NoKey THEN decoded ELSE Append(decoded, k)

(* The keyboard half: nothing when the transfer fails or has no data,      *)
(* otherwise the first new key that translates.                            *)
KeyboardPoll(k) ==
    \/ k = NoKey /\ NoReport /\ UNCHANGED heard
    \/ /\ TakeReport
       /\ LET hits == FirstMapped(NewKeys)
          IN  IF hits = <<>>
              THEN k = NoKey /\ UNCHANGED heard
              ELSE /\ k = Head(hits)
                   /\ heard' = [heard EXCEPT ![Head(hits)] = @ + 1]

(* poll_key_raw returns k: the keyboard is asked only when the UART's byte *)
(* completed no key.                                                       *)
PollKeyRaw(k) ==
    /\ \/ UartPoll(k) /\ k # NoKey /\ UNCHANGED <<keyboardVars, heard>>
       \/ UartPoll(NoKey) /\ KeyboardPoll(k)
    /\ UNCHANGED <<typedVars, torn, pressed>>

Polled == {NoKey, "Up", "Esc", "[", "A", "x"} \cup MappedCodes

KeyAvailable ==
    \E k \in Polled :
        PollKeyRaw(k) /\ last' = IF k = NoKey THEN "unavailable" ELSE "available"

ReadKeyStroke ==
    \E k \in Polled :
        PollKeyRaw(k) /\ last' = IF k = NoKey THEN "not_ready" ELSE "success"

UserInput ==
    \/ \E k \in Keystrokes : Type(k)
    \/ \E c \in Codes : Press(c) \/ Release(c)

InputNext == UserInput \/ KeyAvailable \/ ReadKeyStroke

InputSpec == InputInit /\ [][InputNext]_inputVars

-----------------------------------------------------------------------------
(* The FIFO, the escape state and the keyboard's memory stay in range.     *)
InputTypeOK ==
    /\ uart \in Seq(Bytes) /\ Len(uart) <= FifoDepth
    /\ esc \in 0..2
    /\ lead \in 0..2 /\ torn \in BOOLEAN
    /\ down \in Seq(Codes) /\ fresh \in BOOLEAN /\ prev \subseteq Codes
    /\ last \in Results
    /\ pressed \in [Codes -> 0..MaxInputs] /\ heard \in [Codes -> 0..MaxInputs]

(* What the decoder would make of the bytes still queued.                  *)
Fed(st, b) ==
    [esc  |-> NextEsc(st.esc, b),
     keys |-> IF UartKey(st.esc, b) = NoKey THEN st.keys
              ELSE Append(st.keys, UartKey(st.esc, b))]

Scanned(e, bytes) ==
    LET After[n \in 0..Len(bytes)] ==
            IF n = 0 THEN [esc |-> e, keys |-> <<>>] ELSE Fed(After[n - 1], bytes[n])
    IN  After[Len(bytes)]

Queued == Scanned(esc, uart).keys

(* Serial input is resolved without loss, duplication or reordering: at    *)
(* any moment the keys already resolved, followed by those still in the    *)
(* FIFO and in a half-read sequence, are the keys that were typed, however *)
(* polls, WaitForKey tests and the USB keyboard interleave                 *)
(* (console.rs uart_byte_to_key: the sequence's state persists).           *)
(* Resolved is not delivered: a key that a WaitForKey test resolves is     *)
(* gone with the test (AvailableMeansReadable).                            *)
UartKeysFaithful == decoded \o Queued = meant

(* A held key is not repeated: no code is resolved more often than it was  *)
(* pressed (hid.rs poll_new_keys: no "flood of repeats while a key is      *)
(* held").                                                                 *)
KeydownsAtMostOnce == \A c \in Codes : heard[c] <= pressed[c]

(* key_available's contract, "true if ReadKeyStroke would succeed right    *)
(* now": a ReadKeyStroke that directly follows a positive test succeeds.   *)
AvailableMeansReadable ==
    [][last = "available" /\ last' \in {"success", "not_ready"}
           => last' = "success"]_inputVars

(* hid.rs on poll_new_keys, "callers see each keydown exactly once": once  *)
(* a report has been read, every translatable key it holds down has        *)
(* reached the console's caller.                                           *)
EachKeydownSeen ==
    \A c \in prev \cap MappedCodes : heard[c] >= 1
=============================================================================
