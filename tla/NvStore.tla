------------------------------- MODULE NvStore -------------------------------
(***************************************************************************)
(* What survives a reset: the RAM variable store, the settings cache       *)
(* (src/settings.rs), the copy of the store in FERRO.VAR (src/persist.rs,  *)
(* serialize and deserialize in src/efi/variables.rs), the menu entries    *)
(* that mount the card (src/ui.rs) and the boot sequence (src/main.rs).    *)
(*                                                                         *)
(* FERRO.VAR is the sequence of records serialize writes.  A failed        *)
(* write_file leaves the old file, or a file whose first sectors are new   *)
(* and whose other sectors and directory entry are old; records are taken  *)
(* to fill one sector each, so such a file is a prefix of new records over *)
(* old ones.  Fat32.tla models write_file block by block.                  *)
(***************************************************************************)
EXTENDS VariableStore, SequencesExt

CONSTANTS
  Setting,      \* setting names that live under FERRO_SETTINGS_GUID
  Ferro,        \* FERRO_SETTINGS_GUID
  UsbSetting,   \* "UsbHidEnabled"
  SmokeTest,    \* the (name, GUID) runtime_services_smoke_test sets
  SmokeData,    \* and its payload
  ByteOf,       \* one-byte payload -> its value; longer payloads are not in it
  Themes,       \* number of values a setting takes: 3 themes, 2 booleans
  Default,      \* setting -> its value when the variable is missing
  NV,           \* an attribute word with EFI_VARIABLE_NON_VOLATILE
  MaxBytes,     \* MAX_BYTES of persist.rs (8192)
  HeaderBytes,  \* magic and count
  RecordBytes,  \* a record's bytes besides its data
  NoFile,       \* FERRO.VAR does not exist
  MaxCalls      \* bound on SetVariable and settings changes in a run

Value == 0 .. 2

ASSUME NvAssumption ==
  /\ Setting \subseteq Name /\ Ferro \in Vendor /\ UsbSetting \in Setting
  /\ SmokeTest \in Key /\ SmokeData \in Data /\ ~TooLong(SmokeData)
  /\ DOMAIN ByteOf \subseteq Data /\ \A d \in DOMAIN ByteOf : ByteOf[d] \in Nat /\ LenOf[d] = 1
  /\ Themes \in [Setting -> {2, 3}]
  /\ \A s \in Setting : \A b \in 0 .. (Themes[s] - 1) : \E d \in DOMAIN ByteOf : ByteOf[d] = b
  /\ Default \in [Setting -> Value]
  /\ NV \in Attributes
  /\ MaxBytes \in Nat /\ HeaderBytes \in Nat /\ RecordBytes \in Nat /\ MaxCalls \in Nat
  /\ NoFile \notin Seq(Variable)

VARIABLES
  settings,  \* SETTINGS: setting -> cached value
  mounted,   \* SD_CONTEXT is Some
  file,      \* FERRO.VAR: NoFile or its records
  usb_on,    \* this boot called usb::init()
  in_app,    \* BOOT FROM SD found an application and is running it
  calls,     \* calls so far, for MaxCalls
  torn,      \* history: some save failed half-way and none has succeeded since
  kept,      \* history: keys the card held at this session's load, not deleted since
  private,   \* history: this session only the menu wrote settings, and each write fitted
  outcome    \* history: how the last save of the last step went

ramVars == <<store, settings, mounted, usb_on, in_app>>
history == <<calls, torn, kept, private, outcome>>
vars == <<ramVars, file, history>>

-----------------------------------------------------------------------------
(* Mutant of Serialized: the record count is one short. *)
Serialized_DropsLast(t) ==
  LET all == SelectSeq(t, LAMBDA v : v # Unused)
  IN  IF Len(all) > 1 THEN Front(all) ELSE all

(* serialize: the in-use slots in table order. *)
Serialized(t) ==
  LET From[n \in 0 .. MaxVariables] ==
        IF n = 0 THEN <<>>
        ELSE IF t[n] = Unused THEN From[n - 1] ELSE Append(From[n - 1], t[n])
  IN  From[MaxVariables]

BlobBytes(t) ==
  HeaderBytes + FoldLeft(LAMBDA n, v : n + RecordBytes + LenOf[v.data], 0, Serialized(t))

(* deserialize: set() record by record; one that does not fit is skipped. *)
Merge(t, v) ==
  IF Settable(t, KeyOf(v), v.data) THEN SetVar(t, KeyOf(v), v.attributes, v.data) ELSE t

(* Mutant of Deserialized: replaces the live store instead of merging. *)
Deserialized_Replaces(t, records) == FoldLeft(Merge, EmptyStore, records)

Deserialized(t, records) ==
  LET Merged[n \in 0 .. Len(records)] ==
        IF n = 0 THEN t ELSE Merge(Merged[n - 1], records[n])
  IN  Merged[Len(records)]

FileKeys(f) == IF f = NoFile THEN {} ELSE {KeyOf(f[n]) : n \in DOMAIN f}

(* get_bool and get_byte: a one-byte variable, or the default; booleans    *)
(* test for non-zero, Theme::from_byte maps unknown bytes to Amber.        *)
Decode(t, s) ==
  LET v == Lookup(t, [name |-> s, guid |-> Ferro])
  IN  IF v = Unused \/ v.data \notin DOMAIN ByteOf THEN Default[s]
      ELSE IF Themes[s] = 2 THEN (IF ByteOf[v.data] = 0 THEN 0 ELSE 1)
      ELSE IF ByteOf[v.data] \in 1 .. 2 THEN ByteOf[v.data] ELSE 0

SettingsFrom(t) == [s \in Setting |-> Decode(t, s)]

-----------------------------------------------------------------------------
(* persist::save of table t over file f: what FERRO.VAR can be afterwards, *)
(* and whether the save reported success.  Cut short while resize_chain    *)
(* frees the tail of the old file, it leaves old records without the last  *)
(* ones; cut short among the data, new records followed by old ones.       *)
SaveResults(t, f) ==
  LET new == Serialized(t)
      old == IF f = NoFile THEN <<>> ELSE f
  IN  IF BlobBytes(t) > MaxBytes THEN {[file |-> f, ok |-> "too large"]}
      ELSE {[file |-> new, ok |-> "saved"], [file |-> f, ok |-> "sd error"]} \cup
           {[file |-> [n \in 1 .. Min({Len(old), Len(new)}) |->
                         IF n <= cut THEN new[n] ELSE old[n]],
             ok |-> "torn"] : cut \in IF f = NoFile THEN {} ELSE 1 .. Len(new)} \cup
           {[file |-> SubSeq(old, 1, left), ok |-> "torn"] : left \in Len(new) .. (Len(old) - 1)}

(* Applies one of those results; every caller but the menu ignores it. *)
SaveTo(t) ==
  \E r \in SaveResults(t, file) :
    /\ file' = r.file
    /\ outcome' = r.ok
    /\ torn' = ((torn \/ r.ok = "torn") /\ r.ok # "saved")

(* autosave: nothing happens until a card has been mounted. *)
Autosave(t) ==
  IF mounted THEN SaveTo(t)
  ELSE outcome' = "none" /\ UNCHANGED <<file, torn>>

(* Statics at reset, the smoke test's SetVariable, settings::init in       *)
(* ui::run, and its decision about USB.                                    *)
BootStore == SetVar(EmptyStore, SmokeTest, NV, SmokeData)

Init ==
  /\ store = BootStore
  /\ settings = SettingsFrom(BootStore)
  /\ mounted = FALSE
  /\ usb_on = (SettingsFrom(BootStore)[UsbSetting] # 0)
  /\ in_app = FALSE
  /\ file = NoFile
  /\ calls = 0
  /\ torn = FALSE
  /\ kept = {}
  /\ private = TRUE
  /\ outcome = "none"

(* REBOOT, ResetSystem, or power lost between two calls. *)
Reboot ==
  /\ store' = BootStore
  /\ settings' = SettingsFrom(BootStore)
  /\ mounted' = FALSE
  /\ usb_on' = (SettingsFrom(BootStore)[UsbSetting] # 0)
  /\ in_app' = FALSE
  /\ kept' = {}
  /\ private' = TRUE
  /\ outcome' = "none"
  /\ UNCHANGED <<file, calls, torn>>

(* SetVariable by an application: saved at once if this call's attributes  *)
(* say NON_VOLATILE.                                                       *)
SetVariable(k, a, d) ==
  /\ in_app
  /\ calls < MaxCalls
  /\ Settable(store, k, d)
  /\ store' = SetVar(store, k, a, d)
  /\ IF a = NV THEN Autosave(store') ELSE outcome' = "none" /\ UNCHANGED <<file, torn>>
  /\ kept' = IF d = NoData THEN kept \ {k} ELSE kept
  /\ private' = (private /\ k.guid # Ferro)
  /\ calls' = calls + 1
  /\ UNCHANGED <<settings, mounted, usb_on, in_app>>

(* set_verbose_boot, set_theme and set_usb_enabled: a set() that does not  *)
(* fit is ignored, the save and the cache update happen all the same.      *)
ChangeSetting(s, b) ==
  LET k == [name |-> s, guid |-> Ferro]
      d == CHOOSE e \in DOMAIN ByteOf : ByteOf[e] = b
      t == IF Settable(store, k, d) THEN SetVar(store, k, NV, d) ELSE store
  IN  /\ calls < MaxCalls
      /\ b # settings[s]
      /\ store' = t
      /\ Autosave(t)
      /\ settings' = [settings EXCEPT ![s] = b]
      /\ private' = (private /\ Settable(store, k, d))
      /\ calls' = calls + 1
      /\ in_app' = FALSE
      /\ UNCHANGED <<mounted, usb_on, kept>>

(* Mutant of BootLoads: the settings cache is not read again. *)
BootLoads_StaleCache ==
  /\ file # NoFile
  /\ store' = Deserialized(store, file)
  /\ kept' = IF FileKeys(file) \subseteq Keys(store') THEN FileKeys(file) ELSE {}
  /\ UNCHANGED settings

(* BOOT FROM SD up to the directory listing: mount, merge FERRO.VAR and    *)
(* re-read the settings; a missing file or a failed read is ignored.  Then *)
(* the application found on the card runs until it returns to the menu.    *)
BootLoads ==
  /\ file # NoFile
  /\ store' = Deserialized(store, file)
  /\ settings' = SettingsFrom(store')
  /\ kept' = IF FileKeys(file) \subseteq Keys(store') THEN FileKeys(file) ELSE {}

BootFromSd ==
  /\ mounted' = TRUE
  /\ BootLoads \/ UNCHANGED <<store, settings, kept>>
  /\ in_app' = TRUE
  /\ outcome' = "none"
  /\ UNCHANGED <<file, usb_on, calls, torn, private>>

(* SAVE VARIABLES TO SD: mounts and writes, without merging first. *)
SaveVariablesToSd ==
  /\ mounted' = TRUE
  /\ in_app' = FALSE
  /\ SaveTo(store)
  /\ kept' = kept \cap Keys(store)
  /\ UNCHANGED <<store, settings, usb_on, calls, private>>

Next ==
  \/ Reboot
  \/ \E k \in Key, a \in Attributes, d \in Data \cup {NoData} : SetVariable(k, a, d)
  \/ \E s \in Setting : \E b \in 0 .. (Themes[s] - 1) : ChangeSetting(s, b)
  \/ BootFromSd
  \/ SaveVariablesToSd

Spec == Init /\ [][Next]_vars

-----------------------------------------------------------------------------
InSync == file = Serialized(store)

(* Every variable has its type. *)
TypeOK ==
  /\ store \in [Slots -> Variable \cup {Unused}]
  /\ settings \in [Setting -> Value]
  /\ mounted \in BOOLEAN
  /\ file = NoFile \/ (Len(file) <= MaxVariables /\ \A n \in DOMAIN file : file[n] \in Variable)
  /\ usb_on \in BOOLEAN
  /\ in_app \in BOOLEAN
  /\ calls \in 0 .. MaxCalls
  /\ torn \in BOOLEAN
  /\ kept \subseteq Key
  /\ private \in BOOLEAN
  /\ outcome \in {"none", "saved", "too large", "sd error", "torn"}

(* Once a session has merged the card completely, no sequence of calls,    *)
(* explicit saves and failed saves makes the live store or an untorn card  *)
(* lose a variable it loaded, unless someone deletes that variable.        *)
LoadedVariablesKept ==
  /\ kept \subseteq Keys(store)
  /\ ~torn => kept \subseteq FileKeys(file)

(* While only the menu changes settings, and each change fits, the cache   *)
(* the menu draws from says what GetVariable would say, through mounts,    *)
(* merges and reboots.                                                     *)
CacheMatchesStore == private => settings = SettingsFrom(store)

(* Serializing and merging back is the identity: choosing BOOT FROM SD     *)
(* again while the card is in sync changes no variable and no setting that *)
(* came from one.                                                          *)
ReloadChangesNothing ==
  [][BootFromSd /\ InSync => store' = store /\ (private => settings' = settings)]_vars

-----------------------------------------------------------------------------
(* What comments and documents say of this code, and the code does not do. *)

(* "merges any previously-saved variables into the live store". *)
LoadMergesEverything ==
  [][BootFromSd /\ BootLoads => FileKeys(file) \subseteq Keys(store')]_vars

(* "I already mounted a card, keep it in sync": deleting a non-volatile    *)
(* variable removes it from a mounted card the deletion could be saved to. *)
DeletionsReachTheCard ==
  [][\A k \in Key : mounted /\ InSync /\ k \in Keys(store) \ Keys(store')
       /\ Lookup(store, k).attributes = NV /\ outcome' \in {"none", "saved"}
       /\ mounted' => k \notin FileKeys(file')]_vars

(* "SetVariable with the EFI_VARIABLE_NON_VOLATILE attribute now actually  *)
(* persists immediately": short of an SD error, a change made with it on a *)
(* mounted card is on the card when the call returns.                      *)
NonVolatilePersists ==
  [][mounted /\ calls' # calls /\ outcome' \in {"saved", "too large"} => InSync']_vars

(* "backed by real UEFI variables, not a UI-only toggle": what the menu    *)
(* shows after changing a setting is what GetVariable returns.             *)
SettingsAreVariables ==
  [][\A s \in Setting : settings'[s] # settings[s] => Decode(store', s) = settings'[s]]_vars

(* "USB HID Keyboard, when disabled, skips usb::init() entirely on the     *)
(* next boot": when the setting is disabled and saved on the card.         *)
UsbSettingHonoured ==
  [][Reboot /\ InSync /\ settings[UsbSetting] = 0 /\ Decode(store, UsbSetting) = 0 => ~usb_on']_vars
=============================================================================
