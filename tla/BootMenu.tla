------------------------------ MODULE BootMenu ------------------------------
(***************************************************************************)
(* The boot manager of ui.rs: the menu loop, the SETTINGS screen, the      *)
(* "press any key" screens and the key decoder they poll, fed by the       *)
(* serial line and the USB keyboard.  One thread runs all of it; bytes and *)
(* keydowns arrive whenever they arrive, also while BOOT FROM SD or SAVE   *)
(* VARIABLES TO SD keep the firmware from polling.                         *)
(*                                                                         *)
(* A byte stands for itself where the decoder looks at it; "x" is any      *)
(* other.  What the menu entries do to variables and images is NvStore's   *)
(* and BootServices' business; here they only take time, and an            *)
(* application started by BOOT FROM SD may read input of its own.          *)
(***************************************************************************)
EXTENDS HidKeyboard, FiniteSets, Functions

CONSTANTS
    Keystrokes,   \* what the person at the serial terminal types
    FifoDepth,    \* bytes the UART's receive FIFO holds
    MaxInputs     \* bound on the keystrokes and keydowns of a behaviour

(* The codes of the USB keyboard that the menu knows, named apart from the *)
(* keystrokes at the terminal.                                             *)
MenuCodes == {"up", "down", "left", "right", "enter", "back", "key_j", "key_k"}

ASSUME MenuAssumption ==
    /\ FifoDepth \in Nat /\ MaxInputs \in Nat
    /\ Keystrokes \cap (Codes \cup MenuCodes) = {}

Key == {"Up", "Down", "Left", "Right", "Enter", "Back"}
None == "none"
ITEMS == 5
ROWS == 3
Themes == 3
Settings == [verbose : BOOLEAN, theme : 0..(Themes - 1), usb : BOOLEAN]

VARIABLES
    wire,       \* bytes sent by the terminal that have not arrived yet, each
                \* with the number of its keystroke
    fifo,       \* the UART's receive FIFO
    kbd,        \* run()'s keyboard: one was found when the menu started
    screen,     \* what has control: the loop of one screen, or work
    selected,   \* MenuState.selected
    row,        \* run_settings' selected
    esc,        \* the InputState of run()
    sesc,       \* the InputState of run_settings
    cfg,        \* settings::get()
    drawn,      \* what the display shows
    strokes,    \* history: what each keystroke or keydown asked for
    acts,       \* history: the keys resolved, with the stroke that completed each
    ended,      \* history: the strokes that ended a "press any key" wait
    clean,      \* history: only the serial line was used, and only by these two
                \* screens, and the FIFO lost no byte
    meant,      \* history: the keys the keystrokes at the terminal stand for
    lead        \* history: how far they have got into an ESC [ typed by hand

deviceVars == <<wire, fifo, keyboardVars, kbd>>
menuVars == <<screen, selected, row, esc, sesc, cfg, drawn>>
meantVars == <<meant, lead>>
historyVars == <<strokes, acts, ended, clean, meantVars>>
vars == <<deviceVars, menuVars, historyVars>>

-----------------------------------------------------------------------------
(* External: what a terminal sends for a keystroke, and what is meant.     *)
BytesOf(k) ==
    CASE k = "Up"    -> <<"ESC", "[", "A">>
      [] k = "Down"  -> <<"ESC", "[", "B">>
      [] k = "Right" -> <<"ESC", "[", "C">>
      [] k = "Left"  -> <<"ESC", "[", "D">>
      [] OTHER       -> <<k>>

Meaning(k) ==
    CASE k \in {"Up", "k", "up", "key_k"}     -> "Up"
      [] k \in {"Down", "j", "down", "key_j"} -> "Down"
      [] k \in {"Left", "h", "left"}          -> "Left"
      [] k \in {"Right", "l", "right"}        -> "Right"
      [] k \in {"CR", "enter"}                -> "Enter"
      [] k \in {"q", "BS", "back"}            -> "Back"
      [] OTHER                                -> None

(* keycode_to_menu_bytes: the keyboard speaks the terminal's bytes.        *)
MenuBytes(c) ==
    CASE c = "up"    -> BytesOf("Up")   [] c = "down"  -> BytesOf("Down")
      [] c = "left"  -> BytesOf("Left") [] c = "right" -> BytesOf("Right")
      [] c = "enter" -> <<"CR">>        [] c = "back"  -> <<"BS">>
      [] c = "key_j" -> <<"j">>         [] c = "key_k" -> <<"k">>
      [] OTHER       -> <<>>

-----------------------------------------------------------------------------
(* decode_byte.                                                            *)

(* Mutant of EscAfter: no reset after a complete sequence. *)
EscAfter_Stuck(e, b) ==
    CASE e = 0 /\ b = "ESC" -> 1
      [] e \in {1, 2}       -> 2
      [] OTHER              -> 0

EscAfter(e, b) ==
    CASE e = 0 /\ b = "ESC" -> 1
      [] e = 1 /\ b = "["   -> 2
      [] OTHER              -> 0

Final(b) ==
    CASE b = "A" -> "Up" [] b = "B" -> "Down" [] b = "C" -> "Right" [] b = "D" -> "Left"
      [] OTHER -> None

Plain(b) ==
    CASE b = "k" -> "Up" [] b = "j" -> "Down" [] b = "h" -> "Left" [] b = "l" -> "Right"
      [] b = "CR" -> "Enter" [] b \in {"BS", "q"} -> "Back" [] OTHER -> None

(* Mutant of KeyOf: a final byte counts without its escape sequence. *)
KeyOf_Loose(e, b) ==
    CASE EscAfter(e, b) # 0 -> None
      [] Final(b) # None    -> Final(b)
      [] OTHER              -> Plain(b)

KeyOf(e, b) ==
    CASE EscAfter(e, b) # 0 -> None
      [] e = 2              -> Final(b)
      [] OTHER              -> Plain(b)

Numbered(bytes, n) == [i \in DOMAIN bytes |-> [byte |-> bytes[i], stroke |-> n]]

(* The last time a code went down.                                         *)
StrokeOf(c) == CHOOSE n \in DOMAIN strokes :
                  /\ strokes[n] = c
                  /\ \A m \in DOMAIN strokes : strokes[m] = c => m <= n

(* A byte of stroke n is fed in, unless one before it completed a key.     *)
FeedByte(st, b, n) ==
    IF st.key # None THEN st
    ELSE [esc |-> EscAfter(st.esc, b), key |-> KeyOf(st.esc, b), stroke |-> n]

(* The bytes of a code of the report.                                      *)
FeedCode(st, c) ==
    LET After[n \in 0..Len(MenuBytes(c))] ==
            IF n = 0 THEN st ELSE FeedByte(After[n - 1], MenuBytes(c)[n], StrokeOf(c))
    IN  After[Len(MenuBytes(c))]

(* The new codes of a report, in order.                                    *)
FeedReport(e) ==
    LET After[n \in 0..Len(NewKeys)] ==
            IF n = 0 THEN [esc |-> e, key |-> None, stroke |-> 0]
            ELSE FeedCode(After[n - 1], NewKeys[n])
    IN  After[Len(NewKeys)]

-----------------------------------------------------------------------------
(* poll_menu_key leaves decoder state e, and returns k: the UART's byte if *)
(* there is one, else the keyboard's report.                               *)

Resolved(k, n) ==
    /\ acts' = IF k = None THEN acts ELSE Append(acts, [key |-> k, stroke |-> n])
    /\ UNCHANGED <<wire, kbd, strokes, ended, meantVars>>

PollUart(from, e, k) ==
    /\ fifo # <<>>
    /\ e = EscAfter(from, Head(fifo).byte) /\ k = KeyOf(from, Head(fifo).byte)
    /\ fifo' = Tail(fifo)
    /\ Resolved(k, Head(fifo).stroke)
    /\ UNCHANGED <<keyboardVars, clean>>

PollKeyboard(from, e, k) ==
    /\ fifo = <<>> /\ kbd
    /\ TakeReport
    /\ e = FeedReport(from).esc /\ k = FeedReport(from).key
    /\ Resolved(k, FeedReport(from).stroke)
    /\ UNCHANGED <<fifo, clean>>

Poll(from, e, k) == PollUart(from, e, k) \/ PollKeyboard(from, e, k)

-----------------------------------------------------------------------------
(* The screens.                                                            *)

Picture(scr, sel, c) == [screen |-> scr, at |-> sel, cfg |-> c]

Show(scr, sel, c) == screen' = scr /\ drawn' = Picture(scr, sel, c)

(* move_up and move_down, of n entries.                                    *)
Moved(at, k, n) ==
    CASE k = "Up"   -> IF at = 0 THEN n - 1 ELSE at - 1
      [] k = "Down" -> (at + 1) % n

(* select: the screen an entry opens.                                      *)
Opens(item) ==
    CASE item \in {0, 3} -> "working"
      [] item = 1        -> "settings"
      [] item = 2        -> "anykey"
      [] item = 4        -> "rebooting"

(* Mutant of MenuKey: moving does not redraw. *)
MenuKey_NoRedraw(k) ==
    /\ IF k \in {"Up", "Down"}
       THEN selected' = Moved(selected, k, ITEMS) /\ UNCHANGED <<screen, row, sesc, drawn>>
       ELSE IF k = "Enter"
       THEN Show(Opens(selected), 0, cfg) /\ row' = 0 /\ sesc' = 0 /\ UNCHANGED selected
       ELSE UNCHANGED <<screen, selected, row, sesc, drawn>>
    /\ UNCHANGED cfg

(* run(): a key at the boot manager.                                       *)
MenuKey(k) ==
    /\ \/ /\ k \in {"Up", "Down"}
          /\ selected' = Moved(selected, k, ITEMS)
          /\ Show("menu", selected', cfg)
          /\ UNCHANGED <<row, sesc>>
       \/ /\ k = "Enter"
          /\ Show(Opens(selected), 0, cfg)
          /\ row' = 0 /\ sesc' = 0
          /\ UNCHANGED selected
       \/ /\ k \in {"Left", "Right", "Back", None}
          /\ UNCHANGED <<screen, selected, row, sesc, drawn>>
    /\ UNCHANGED cfg

MenuPoll ==
    /\ screen = "menu"
    /\ \E e \in 0..2, k \in Key \cup {None} :
           Poll(esc, e, k) /\ esc' = e /\ MenuKey(k)

(* apply_change: Left cycles the theme back, as two steps forward.         *)
Changed(c, r, forward) ==
    CASE r = 0 -> [c EXCEPT !.verbose = ~@]
      [] r = 1 -> [c EXCEPT !.theme = (@ + (IF forward THEN 1 ELSE 2)) % Themes]
      [] r = 2 -> [c EXCEPT !.usb = ~@]

(* run_settings: a key at the settings screen; Back returns to the loop    *)
(* of run(), which draws the menu.                                         *)
SettingsKey(k) ==
    \/ /\ k \in {"Up", "Down"}
       /\ row' = Moved(row, k, ROWS)
       /\ Show("settings", row', cfg)
       /\ UNCHANGED cfg
    \/ /\ k \in {"Enter", "Right", "Left"}
       /\ cfg' = Changed(cfg, row, k # "Left")
       /\ Show("settings", row, cfg')
       /\ UNCHANGED row
    \/ /\ k = "Back"
       /\ Show("menu", selected, cfg)
       /\ UNCHANGED <<row, cfg>>
    \/ /\ k = None
       /\ UNCHANGED <<screen, drawn, row, cfg>>

SettingsPoll ==
    /\ screen = "settings"
    /\ \E e \in 0..2, k \in Key \cup {None} :
           Poll(sesc, e, k) /\ sesc' = e /\ SettingsKey(k)
    /\ UNCHANGED <<selected, esc>>

(* boot_from_sd and save_variables_to_sd come to their end, whatever the   *)
(* outcome: all of them wait for a key.  Loading the card may have changed *)
(* the settings.                                                           *)
WorkDone ==
    /\ screen = "working"
    /\ \/ UNCHANGED cfg
       \/ selected = 0 /\ cfg' \in Settings
    /\ Show("anykey", 0, cfg')
    /\ UNCHANGED <<deviceVars, selected, row, esc, sesc, historyVars>>

(* External: an application started by boot_from_sd reads input.           *)
AppReads ==
    /\ screen = "working" /\ selected = 0
    /\ \/ fifo # <<>> /\ fifo' = Tail(fifo) /\ UNCHANGED keyboardVars
       \/ kbd /\ TakeReport /\ UNCHANGED fifo
    /\ clean' = FALSE
    /\ UNCHANGED <<wire, kbd, menuVars, strokes, acts, ended, meantVars>>

(* Mutant of AnyKey: the key that ends the wait is left in the FIFO. *)
AnyKey_Peeks(pressed, by) ==
    \/ /\ fifo # <<>> /\ pressed
       /\ by = {Head(fifo).stroke}
       /\ UNCHANGED <<fifo, keyboardVars>>
    \/ /\ fifo = <<>> /\ kbd /\ TakeReport
       /\ pressed = (NewKeys # <<>>)
       /\ by = {StrokeOf(c) : c \in Range(NewKeys)}
       /\ UNCHANGED fifo

(* poll_any_key: any byte, or any new code, counts.                        *)
AnyKey(pressed, by) ==
    \/ /\ fifo # <<>> /\ pressed
       /\ by = {Head(fifo).stroke}
       /\ fifo' = Tail(fifo)
       /\ UNCHANGED keyboardVars
    \/ /\ fifo = <<>> /\ kbd /\ TakeReport
       /\ pressed = (NewKeys # <<>>)
       /\ by = {StrokeOf(c) : c \in Range(NewKeys)}
       /\ UNCHANGED fifo

(* wait_for_key, after which select draws the menu, or resets the machine. *)
AnyKeyPoll ==
    /\ screen \in {"anykey", "rebooting"}
    /\ \E pressed \in BOOLEAN, by \in SUBSET DOMAIN strokes :
           /\ AnyKey(pressed, by)
           /\ ended' = ended \cup by
           /\ \/ ~pressed /\ UNCHANGED <<screen, drawn>>
              \/ pressed /\ screen = "anykey" /\ Show("menu", selected, cfg)
              \/ pressed /\ screen = "rebooting" /\ Show("off", 0, cfg)
    /\ clean' = FALSE
    /\ UNCHANGED <<wire, kbd, selected, row, esc, sesc, cfg, strokes, acts, meantVars>>

-----------------------------------------------------------------------------
(* External: the people and the line.                                      *)

(* What a keystroke at the terminal stands for after nothing (0), Esc (1), *)
(* or Esc and "[" (2) typed by hand.  Esc is no key of the decoder: a      *)
(* character after it means what it always does, but an arrow after it is  *)
(* lost; Esc and "[" turn A to D into an arrow and take any other key.     *)
Heard(e, k) ==
    LET key == CASE e = 1 /\ k \in {"Up", "Down", "Left", "Right"} -> None
                 [] e = 2 -> Final(k)
                 [] OTHER -> Meaning(k)
    IN  IF key = None THEN <<>> ELSE <<key>>

LeadAfter(e, k) ==
    CASE e = 0 /\ k = "ESC" -> 1
      [] e = 1 /\ k = "["   -> 2
      [] OTHER              -> 0

Stroke(k) == Len(strokes) < MaxInputs /\ strokes' = Append(strokes, k)

Type(k) ==
    /\ Stroke(k)
    /\ wire' = wire \o Numbered(BytesOf(k), Len(strokes'))
    /\ meant' = meant \o Heard(lead, k) /\ lead' = LeadAfter(lead, k)
    /\ UNCHANGED <<fifo, keyboardVars, kbd, menuVars, acts, ended, clean>>

Press(c) ==
    /\ kbd /\ Stroke(c)
    /\ KeyDown(c)
    /\ clean' = FALSE
    /\ UNCHANGED <<wire, fifo, kbd, menuVars, acts, ended, meantVars>>

Release(c) ==
    /\ kbd /\ KeyUp(c)
    /\ UNCHANGED <<wire, fifo, kbd, menuVars, historyVars>>

(* A byte arrives; a full FIFO loses it.                                   *)
Arrive ==
    /\ wire # <<>> /\ wire' = Tail(wire)
    /\ IF Len(fifo) < FifoDepth THEN fifo' = Append(fifo, Head(wire)) /\ UNCHANGED clean
       ELSE UNCHANGED fifo /\ clean' = FALSE
    /\ UNCHANGED <<keyboardVars, kbd, menuVars, strokes, acts, ended, meantVars>>

(* run(): the keyboard is looked for only if USB is enabled.               *)
Init ==
    /\ wire = <<>> /\ fifo = <<>> /\ KeyboardInit
    /\ cfg \in [verbose : {TRUE}, theme : {0}, usb : BOOLEAN]
    /\ kbd \in BOOLEAN /\ (kbd => cfg.usb)
    /\ screen = "menu" /\ selected = 0 /\ row = 0 /\ esc = 0 /\ sesc = 0
    /\ drawn = Picture("menu", 0, cfg)
    /\ strokes = <<>> /\ acts = <<>> /\ ended = {} /\ clean = TRUE
    /\ meant = <<>> /\ lead = 0

Next ==
    \/ MenuPoll \/ SettingsPoll \/ AnyKeyPoll \/ WorkDone \/ AppReads \/ Arrive
    \/ \E k \in Keystrokes : Type(k)
    \/ \E c \in Codes : Press(c) \/ Release(c)

Spec == Init /\ [][Next]_vars

-----------------------------------------------------------------------------
(* The selections never leave their lists (select's unreachable!()).       *)
TypeOK ==
    /\ selected \in 0..(ITEMS - 1) /\ row \in 0..(ROWS - 1)
    /\ esc \in 0..2 /\ sesc \in 0..2
    /\ screen \in {"menu", "settings", "working", "anykey", "rebooting", "off"}
    /\ cfg \in Settings
    /\ Len(fifo) <= FifoDepth
    /\ ended \subseteq DOMAIN strokes /\ \A i \in DOMAIN acts : acts[i].stroke \in DOMAIN strokes

(* What a stroke can mean: by itself, or as the end of an arrow.           *)
Senses(k) == {Meaning(k), Final(k)}

(* No stroke does what it was not meant for: a keystroke may be lost when  *)
(* the two devices' bytes meet in the one decoder, when the FIFO overflows *)
(* or when a "press any key" screen takes one byte of its sequence, but    *)
(* what is left of it is never taken for another key.  The one exception   *)
(* is a capital A to D, which no screen knows: it may end a sequence whose *)
(* own last byte was lost, and then acts as that arrow.  No stroke acts    *)
(* twice, however long it is held, and one that ended a wait does not act  *)
(* at all (ui.rs decode_byte, poll_menu_key, wait_for_key; hid.rs          *)
(* poll_new_keys).                                                         *)
StrokesActAsMeant ==
    /\ \A i \in DOMAIN acts : acts[i].key \in Senses(strokes[acts[i].stroke])
    /\ \A i, j \in DOMAIN acts : acts[i].stroke = acts[j].stroke => i = j
    /\ \A i \in DOMAIN acts : acts[i].stroke \notin ended

(* What the decoder would make of the bytes still on their way.            *)
Fed(st, b) ==
    [esc  |-> EscAfter(st.esc, b.byte),
     keys |-> IF KeyOf(st.esc, b.byte) = None THEN st.keys
              ELSE Append(st.keys, KeyOf(st.esc, b.byte))]

Scanned(e, bytes) ==
    LET After[n \in 0..Len(bytes)] ==
            IF n = 0 THEN [esc |-> e, keys |-> <<>>] ELSE Fed(After[n - 1], bytes[n])
    IN  After[Len(bytes)]

Decoder == IF screen = "settings" THEN sesc ELSE esc

Coming == Scanned(Decoder, fifo \o wire).keys

Resolutions == [i \in DOMAIN acts |-> acts[i].key]

(* Serial input alone is decoded without loss, duplication or reordering,  *)
(* through the changes from the menu's decoder to the settings screen's    *)
(* and back, Esc included, which stands for no key and spoils an arrow     *)
(* typed after it (ui.rs decode_byte, run_settings).  This holds until the *)
(* FIFO overruns, the keyboard is used, or an application or a "press any  *)
(* key" screen reads from the line: those lose keys.                       *)
SerialKeysFaithful == clean => Resolutions \o Coming = meant

(* What the display shows is what the next key will act on: the menu with  *)
(* the entry Enter opens, or the settings with the row and the values a    *)
(* key changes, whichever screen or job was left before it (ui.rs run,     *)
(* select, run_settings).                                                  *)
DisplayTellsTheTruth ==
    /\ screen = "menu" => drawn = Picture("menu", selected, cfg)
    /\ screen = "settings" => drawn = Picture("settings", row, cfg)

-----------------------------------------------------------------------------
(* What a comment of the code says.                                        *)

(* ui.rs on run_settings, "Backspace/q/Esc returns to the boot manager":   *)
(* with nothing left on the line, the settings screen is not what an Esc   *)
(* typed last has left on the display.                                     *)
EscLeavesSettings ==
    clean /\ fifo = <<>> /\ wire = <<>> /\ screen = "settings" /\ strokes # <<>>
        => strokes[Len(strokes)] # "ESC"

=============================================================================
