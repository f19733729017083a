# Ferro in TLA+

Ferro is a UEFI-style firmware for the Raspberry Pi 3 written in Rust (`src/src/`).
It brings up one core, shows a boot menu, mounts an SD card, loads a PE
application and offers it EFI Boot Services and Runtime Services. This directory
holds TLA+ specifications of its core logic, TLC configurations that check them on
small instances, and TLAPS proofs of the most important properties.

Nothing in Ferro runs in parallel: one core executes the menu, the services and
the application, and the only interrupt increments a tick counter. What makes the
code hard is of another kind: callers that mix services in any order, tables of
fixed size that fill up, handles that are slot numbers, copies of state that go
stale (settings cache, write-back files, map key, previous keyboard report), block
writes that are cut short, hardware that goes on with what the driver has given up on,
and results that are dropped.

`PROJECT.json` relates every definition to the source lines it models and lists
the components, runs, hazards, findings and theorems.

## The system

| part (under `src/src/`) | state it keeps | operations | talks to |
|---|---|---|---|
| page allocator `efi/memory.rs` | bump pointer, generation | allocate_pages, get_memory_map, generation | every allocating service |
| protocol database `efi/protocol_db.rs` | 32 handles of 8 (GUID, interface) slots | install, uninstall, reinstall, lookups | image services, console, menu |
| boot services `efi/boot_services.rs` | exited flag, loaded-image and entry-point tables | the EFI_BOOT_SERVICES table | allocator, database, events, PE loader |
| events `efi/events.rs` | 16 event slots, deadlines | create, close, set_timer, signal, check, wait | tick counter, console input |
| variable store `efi/variables.rs` | 32 slots | get, set, get_next, serialize, deserialize | runtime services, settings, persistence |
| runtime services `efi/runtime_services.rs` | none of its own | SetVariable, GetVariable, GetNextVariableName | store, autosave |
| persistence `persist.rs` | cached card context, file FERRO.VAR | save, autosave, load | FAT32 |
| settings `settings.rs` | cache of three settings | init, setters | store, menu |
| menu and boot `ui.rs`, `main.rs` | selected entry and row, two key decoders, what is drawn | the menu loop, SETTINGS, "press any key", BOOT FROM SD, SAVE VARIABLES, REBOOT | all of the above |
| FAT32 `fat32.rs` | nothing cached; the volume | mount, read_file, write_file, list, resolve | SD controller |
| SD controller `sd.rs`, block I/O `efi/block_io.rs` | addressing of the card; status and command registers | init, read_block, write_block, ReadBlocks, WriteBlocks | hardware |
| file protocol `efi/file_protocol.rs` | 4 open-file slots with a 64 KiB copy each | Open, Close, Read, Write, Seek, Flush, info | FAT32 |
| console `efi/console.rs`, `framebuffer.rs` | escape decoder, cursor, attribute, screen, Mode | ReadKeyStroke, WaitForKey test, OutputString and the rest of text output, init | UART, USB keyboard, display |
| keyboard `hid.rs`, `usb.rs` | previous report, device and hub address, one host channel | find_keyboard, poll_new_keys, control and interrupt transfers | hardware |
| device paths, PE loader, framebuffer, MMU, timer, watchdog | tables and registers | | |

What makes each part correct, and where it is hard:

- **Memory.** No page is handed out twice; the map covers memory without gaps; the
  map key a caller got with a map is refused once the map has changed, although any
  service may allocate between GetMemoryMap and ExitBootServices; after the exit the
  gated services change nothing.
- **Handles and images.** A handle is a slot; three parallel tables are indexed by
  it. Installing, uninstalling, loading and reaching the table's end must never
  associate a handle with another one's image.
- **Variables.** One slot per (name, GUID) through create, overwrite, delete and
  re-create; an enumeration whose position is a variable stays correct while
  variables change under it.
- **Persistence.** The live store, the settings cache and the file on the card are
  three copies that any step may fail to update.
- **FAT32.** A write is up to dozens of block writes; each may be the last before a
  reset.
- **Files.** Each handle has its own whole-file copy; several handles may name one
  file, slots are re-used, and write-backs fail.
- **SD card.** A command that timed out is still being executed when the next one is
  sent; its status bits, its data or its write may arrive in the next call. Every wait
  has to end, and a failed call must not keep a later one from succeeding.
- **USB.** The search for a keyboard is a chain of a dozen requests to devices that
  share one default address; each may fail, time out or complete late, and a device
  that is given up on keeps its address.
- **Menu.** Two decoders and a third reader take turns at one byte stream and one
  keyboard; what is drawn has to be what the next key acts on.
- **Text console.** Wrapping, scrolling and cursor moves meet at the end of a line and
  of the screen; Mode and the display are copies; init runs again for every image.
- **Input and events.** One escape decoder and one previous report are shared by
  tests and reads; notify functions change events from inside the poll that
  triggers them.

## Modules

| module | models | state and actions |
|---|---|---|
| `PageAllocator` | memory.rs | `next_free_page`, `generation`; `granted` is history. `Allocate`, `AllocateFails`; `MapFor` is get_memory_map |
| `ProtocolDb` | protocol_db.rs | `handles` is the table; `InstallOnNew`, `InstallOn`, `Uninstall`, `Reinstall`, the lookups as operators |
| `ProtocolRegistry` | what the database promises | a bag of entries per handle; abstract |
| `BootServices` | boot_services.rs composed with the two above, plus the firmware's own handles | an action per service that allocates, or touches handles, images or the exit |
| `VariableStore` | variables.rs as operators on a table | `SetVar`, `Settable`, `Lookup`; `StartIndex` and `Ahead` are get_next |
| `VariableMap` | what the store promises | a partial map of bounded size; abstract |
| `VariableWalk` | SetVariable and GetNextVariableName interleaved | `previous` is what the client passes back |
| `NvStore` | persist.rs, settings.rs, the menu entries and the boot sequence over `VariableStore` | `store`, `settings`, `file`; saves that fail whole or half-way |
| `Fat32` | fat32.rs, one block write at a time | `write_file` computes its block writes from the volume; `BlockWrite` issues one, `CutShort` ends the call before the next |
| `FileProtocol` | file_protocol.rs | `files` is FILES, `disk` the root directory |
| `SdCard` | sd.rs and block_io.rs, one register poll or event of the hardware at a time | `pc` is the wait the driver is in, `status` INT_STATUS, `job` the command the controller executes, `mode`/`flash`/`blocks` the card |
| `UsbKeyboard` | usb.rs and hid.rs find_keyboard, one transaction at a time | `step`/`phase` the request and stage, `bus` the addresses of the devices, `owed` a transaction given up on |
| `HidKeyboard` | hid.rs poll_new_keys | `down`, `fresh`, `prev`: the report and the previous one; over `Sublists`; used by the next two |
| `BootMenu` | ui.rs: run, run_settings, select, wait_for_key, the key decoder | `screen`, `selected`, `row`, one `esc` state per loop, `drawn` the display |
| `ConsoleInput` | console.rs (input), uart.rs, over `HidKeyboard` | `uart` FIFO, `esc` decoder state |
| `TextConsole` | console.rs (output) on framebuffer.rs | `text` cursor, attribute and cells; `mode` OUT_MODE; `shown` the display; `page` is history |
| `Console` | console.rs: the two composed, with init at every image start | `StartImage` is ui.rs boot_efi_app's console::init and StartImage |
| `Events` | events.rs and its Boot Services entry points over `ConsoleInput` | one poll of the wait loop is one step |
| `Sublists` | loops over a buffer: the one of poll_new_keys that skips some of its elements (`Among`), those of allocate_chain and free_chain_from that call a helper in every round (`Joined`) | |
| `Loops` | lemmas on the code's loops: the first match of a search, what holds after every round, that a loop written as a recursive function has a run, and what `Among` and `Joined` return | |
| `BootServices_proofs`, `Variables_proofs`, `Files_proofs`, `SdCard_proofs`, `Console_proofs`, `UsbKeyboard_proofs`, `BootMenu_proofs` | theorems; `Variables_proofs` is about `VariableStore`, `VariableWalk` and `NvStore`, `BootServices_proofs` about `PageAllocator` and `ProtocolDb` too, `Files_proofs` about `Fat32` and `FileProtocol`, `Console_proofs` about `Events` too | |
| `MC*` | instances for TLC | |

Conventions: a call that fails without changing state is either a stuttering step or
a step that only records its outcome. `\* history` variables are not in the code;
they only record what has happened. Operators called `X_Something` directly before
`X` are wrong variants of `X`, kept to show that the properties notice.

### Correspondence and abstraction

- *Addresses* are page numbers; u64 wrap-around is kept, at `AddrPages` = 2^64/4096.
- *Pool allocations* round to whole pages in the same wrapping arithmetic as the code.
- *PE images*: a load yields pages and an entry page, or fails before or after its
  allocation. pe.rs adds AddressOfEntryPoint to the load base without comparing it with
  SizeOfImage, so the entry page may lie past the image, and an image may have no pages.
  The rest of the parser is not modelled.
- *Variable data* is a small set with lengths, so that the size limit and the
  one-byte settings still matter. Attributes are one word with the non-volatile bit
  or one without.
- *FERRO.VAR* is its sequence of records; `NvStore` takes each record to fill a
  sector, so a half-way failure leaves a prefix of new records over old ones, or old
  records without their last ones when it comes while the file shrinks. A failure is
  possible at every save.
- *FAT32* uses one sector per cluster and a file length in clusters. Every data
  block names its file, version and position, so misplaced data shows. The volume
  is validly mounted, its FAT is as long as its data area. Subdirectories do not
  appear (write_file only writes the root).
- *A block write* of `Fat32` and `NvStore` either happens whole, or returns an error and
  does not happen. What a block write is made of is `SdCard`'s subject, and it shows one
  outcome more: success for a block that was lost (`OkMeansWritten` below).
- *FileProtocol* takes write_file as one step with the outcomes `Fat32` shows
  possible for the file itself: done, or an old file with a new first part and
  perhaps a missing tail. Bytes carry the name of the file they belong to. That a failed
  shrink leaves a chain into free clusters, which another file may then take, is in
  `Fat32` (`ChainFitsData`) and not here. A slot records the directory it was
  opened in, which the code's does not: it is a history.
- *SD card*: the controller and the card are external and do what the driver has an
  answer for: an error interrupt at any stage (inhibit bits left set or not, the data
  taken or not), a command never heard of again, a wrong echo to CMD8, a card that is
  never ready. A deadline passes freely once the hardware will make no further move;
  passing earlier, because the hardware is slow, counts as a fault. Registers are sets
  of named bits; a block is a value. Block numbers are any u64: block_io.rs and sd.rs
  compare them with nothing, cut them to u32 and multiply them by 512 for a byte-addressed
  card, all of it modulo 2^32. The card answers an address past its end with an error; a
  number past its end that wraps to an address on the card reads or writes that block.
- *USB*: position 0 is the root port, the others the ports of a hub there. A device is
  its configuration descriptor as a list of descriptors with their lengths, so that the
  64 bytes that are read and the order of interfaces and endpoints matter; a descriptor of
  length 0 ends the scan. Two devices
  at one address either both hear a request (and collide in its data stage) or the one
  at the lower port does. Packet sizes, speeds, data toggles and DMA buffers are left
  out, and so is that the hub is never sent SET_CONFIGURATION: it is taken to work
  unconfigured, as QEMU's does.
- *Boot menu*: the entries that do work (BOOT FROM SD, SAVE VARIABLES) only take time
  here, may change the settings and may let an application read input; `NvStore` and
  `BootServices` model what they do. A byte or a keydown carries the number of the
  stroke it belongs to, so that what a stroke caused can be told.
- *Console input*: the serial line delivers whole keystrokes (an arrow key as its
  three bytes), and a full FIFO loses what is left of one. Esc may be typed; since the
  decoder has no time-out it cannot be told from the start of an arrow until the next byte,
  so what a keystroke stands for is a function of the ones before it (`Heard`, `lead`): in
  an application Esc takes the place of the first byte that follows, in the menu it is no
  key and spoils an arrow typed next. `decoded` is what was resolved, by ReadKeyStroke or by
  a WaitForKey test; a key resolved by a test reaches nobody.
- *Text console*: a cell is its background and the glyphs drawn on it in order, since
  draw_char clears no pixels. The grid's height is a whole number of cells (600 pixels of
  20). An attribute stands for its two colours. What goes to the serial line is left out
  (backspaces, cursor moves and clears do not go there at all). The screen an image finds
  is what boot_efi_app drew, as one colour "boot".
- *Timers*: SetTimer's 100 ns units become microseconds and ticks as in events.rs and
  timer.rs, the product saturating and the sum wrapping at `Word` = 2^64 (a release build).
  A timer keeps the ticks left to its deadline instead of an absolute tick; this is
  the same as the code as long as the counter does not wrap, and needs no bound on
  time. Counting begins inside a running tick, so the first tick of an interval may
  come at once: intervals are judged in tick interrupts.
- *Notify functions* are application code: they do nothing, or arm, cancel, close or
  signal an event, their own or another; one that signals has the other's notify function
  run inside its own, one level deep.

## What is checked

The runs that pass. The largest takes two and a half minutes with two workers.

| run | distinct states | question |
|---|---|---|
| `protocol_db` | 15,751 | does the slot table implement a registry, and do the lookups agree? |
| `boot_services` | 320,618 | pages, map, key, handles, images and exit under any mix of services |
| `variable_walk` | 28,350 | enumeration interleaved with SetVariable; the table implements a map |
| `nv_store` | 172,786 | store, cache and card across saves, failed saves and reboots |
| `fat32` | 79,011 | write_file block by block, cut short anywhere |
| `sd_card` | 696,162 | the command protocol under faults, late completions and retries |
| `usb_keyboard` | 113,776 | the keyboard search under failing, silent and late devices |
| `boot_menu` | 2,492,330 | decoders, screens and display under any mix of input |
| `console` | 1,228,630 | text output, decoder and keyboard merge under any order of calls, over two images |
| `events` | 843,307 | timers, notify functions and waits |
| `file_protocol` | 1,577,530 | write-back copies against the card |

Bounds, and why they are enough:

- `protocol_db`: two handles of three slots, two GUIDs, two interfaces. A GUID twice
  on one handle, a hole before it, a full handle and a full table all occur, and the
  operations look at one handle at a time.
- `boot_services`: three free pages below the framebuffer and two above, requests of
  0 and 3 pages, pool requests of two pages, images of none and of two pages entered at
  the second, three successful allocations: the pointer meets and crosses the framebuffer and hits the end of RAM
  exactly and with room left over. Two handles of one protocol slot each: the table
  fills with images, client handles and firmware handles in every order, and the query
  that allocates after the exit has something to find.
- `variable_walk`: three slots and four names, the empty one among them, four SetVariable
  calls: holes before and behind the walk's position are made and re-used by other names,
  the table fills, and payloads at and beyond the length limit are tried.
- `nv_store`: two slots, two names under two GUIDs, a blob limit that two long
  records exceed; three client calls and any number of mounts, saves and reboots.
  Three calls suffice to fill the store, outgrow the blob and delete what a load
  brought in; loads and saves themselves are unbounded.
- `fat32`: six clusters, one of them the root directory with one entry per cluster,
  so the second file already extends the directory; files of 0, 1 and 3 clusters,
  three writes: grow, shrink, create and out-of-space all occur at every stage, and
  each is cut short before each of its block writes.
- `sd_card`: a card of two blocks, both addressings, values 0 and 1, calls of one or two
  blocks from block 0, from 4096 = 2^32 here, which is cut to 0, and from 9, past the card,
  whose byte address wraps to block 1; one ACMD41 round before the deadline, four calls and two faults. The shortest
  histories in which a dropped status reset or inhibit check shows are init, a write that
  times out, and one more call; four calls leave one to recover in.
- `usb_keyboard`: a hub of three ports, so that a device can come before, between and
  after others; six kinds of root device and four behind the hub, among them a keyboard
  interface second to a mouse's, one past the 64 bytes read, one without an IN endpoint of
  its own, and a configuration that breaks off at a descriptor of length 0. Any number of
  faults.
- `boot_menu`: an arrow (three bytes), the capital that is its last byte, the letter for
  Down, Enter and Esc on the serial line, Up and Backspace on the keyboard, a FIFO of three
  bytes, four strokes: enough to open each screen, leave it and act after it, with an arrow
  split over the change, its tail lost or its end typed by hand.
- `console`: a screen of two by two cells and strings that fill a line, break it, go back
  on it and scroll it; two attributes; an arrow, Esc, its "[" and "A" by themselves
  and a control byte on the serial line, a FIFO of four bytes, so that a second arrow overruns it, two mapped and one unmapped key code; four inputs and output calls together, at
  most three of them inputs, and two images: a line is filled, left, overwritten and
  scrolled away, and an escape sequence is split over an image start.
- `events`: three events, wait lists that put console input, a closed event and a timer
  before and after each other, notify functions that do nothing or arm, cancel, close or
  signal event 2, four calls. Time is scaled down: 2 counts a second of 2 "microseconds",
  3 counts a tick, words below 16. Of the spans, 40 is four microseconds, rounded up from
  8/6 to two ticks, and the sum that rounds up 90 wraps to 0 ticks.
- `file_protocol`: three slots (one is the directory handle, so two handles on one
  file and the full table occur), a slot of two bytes, a file longer than a slot, a
  directory with more entries than a listing holds, a subdirectory with a namesake of
  the root file, seven calls: the shortest history that re-uses a slot, seeks past the
  end, writes and flushes has seven.

Deadlock is checked, except where the behaviour really ends: a keyboard search that is
over, a menu that has rebooted or that nobody types at any more, and a card nobody calls
any more.

### Fairness

`WalkEnds` assumes weak fairness of GetNextVariableName: a client that has begun an
enumeration calls until it is told there is no more. `WaitEnds` assumes weak fairness
of the poll and of the tick: wait is a busy loop whose only pause is a `wfe`, which
the tick interrupt ends, and the tick interrupt re-arms itself. `CallsReturn` and
`FaultsHeal` of `SdCard` assume weak fairness of the driver (a polling loop whose deadline
is counted by that interrupt) and of the hardware's own progress, from which commands can
still get lost; `SearchEnds` of `UsbKeyboard` assumes weak fairness of the driver and its
deadlines and none of the devices. No service is assumed to be called, no key to be typed,
no card or device to answer.

### Refinement

`ProtocolDb` maps the slot table to a bag of entries per handle (`Registry`,
`RefinesRegistry`): every call is one operation of `ProtocolRegistry` or a stutter.
`VariableWalk` maps the variable table to a partial map (`Map`, `RefinesMap`) and does the
same for `VariableMap`: in particular a new key is taken only while there is room. Both are
model-checked and proved.

### Where the code and its documents disagree

One disagreement is kept as a run that must fail:

- `usb_second_device` (`KeyboardFound`): every device behind the hub is given address 2
  and a device that turns out not to be a keyboard keeps it. The keyboard at a later port
  then shares its address with it, its descriptors collide or are the other device's,
  and it is not found, although no transfer failed. hid.rs:29-30 says that find_keyboard
  walks "down through a hub (if there is one) to find a HID boot-protocol keyboard".
  `FirstKeyboardFound` is what does hold.

The modules state more of them, each with the sentence it is taken from, under "What
comments and documents say". They are reproduced with the configuration named here,
with the definition as its only property (an INVARIANT where noted):

| definition | configuration | what TLC finds |
|---|---|---|
| `AllHandlesNamed` | `MCBootServices.cfg` (INVARIANT) | the second search of an AllHandles query writes over the results of the first and the counts are added: image handles go missing, null handles are reported |
| `KeyChangesOnlyWithMap` | `MCBootServices.cfg` | AllocatePages of zero pages changes the key and not the map (memory.rs:30 "changes exactly when the map does") |
| `FramebufferReportedCorrectly` | `MCBootServices.cfg` (INVARIANT) | allocating past the framebuffer puts its pages under two descriptors (memory.rs:13) |
| `HandsOutMonotonically` | `MCBootServices.cfg`, `PageCounts = {1, 99}` | a page count whose byte size wraps moves the pointer back (memory.rs:3) |
| `MapFrozenAfterExit` | `MCBootServices.cfg` | LocateHandleBuffer and ProtocolsPerHandle allocate after ExitBootServices (boot_services.rs:150) |
| `EveryWalkEnds` | `MCVariableWalk.cfg` | a variable with the empty name, which set() accepts, sends the walk back to its start for ever (variables.rs:140) |
| `LoadMergesEverything` | `MCNvStore.cfg`, `MaxCalls = 4` | a card with more variables than there is room for is merged in part, without an error |
| `DeletionsReachTheCard` | same | a deletion that does not pass the non-volatile attribute stays off the card and the variable returns |
| `NonVolatilePersists` | same | beyond MAX_BYTES a non-volatile SetVariable succeeds without being saved |
| `SettingsAreVariables` | same | with a full store a setting changes in the menu and not in its variable |
| `UsbSettingHonoured` | same | USB is brought up before anything has read the card |
| `ChainFitsData` | `MCFat32.cfg` | resize_chain frees the tail of a chain before it ends the chain: cut short in between, the chain leads into free clusters, and the next write of the file returns Ok with a chain of another length |
| `OkMeansWritten` | `MCSdCard.cfg` (INVARIANT) | the last wait of write_block ends on an error too and the status is not looked at: Ok for a block that was lost |
| `OffTheCardFails` | same (INVARIANT) | a call for blocks past the end of a byte-addressed card, or past 2^32, succeeds on other blocks (sd.rs on read_block: "lba is a block number regardless of the card's actual addressing mode") |
| `EachKeydownSeen` | `MCConsole.cfg`, `MaxStarts = 1` (INVARIANT) | of two keys that go down in one report the second is never seen |
| `ModeResetAtStart` | `MCConsole.cfg` | init resets the cursor and the attribute and not Mode, so a second image reads the first one's (console.rs:450 "resets cursor/attribute state") |
| `RepaintedAtStart` | same | init draws nothing: the image writes over the boot screen (ui.rs:912 "it repaints the whole screen as a text console") |
| `AvailableMeansReadable` | `MCEvents.cfg`, `MaxCalls = 3` | the test behind ConIn's WaitForKey event polls the key and drops it, so the ReadKeyStroke after a WaitForEvent finds nothing (console.rs:423-424 "true if ReadKeyStroke would succeed right now") |
| `NeverEarly` | same | for a time whose microseconds times the counter's frequency come to 2^64 (eleven days at 19.2 MHz) the sum that rounds up wraps, SetTimer gets 0 ticks and the timer fires at once (timer.rs:48 "Rounds a microsecond duration up to whole ticks") |
| `EscLeavesSettings` | `MCBootMenu.cfg` (INVARIANT) | Esc typed at the terminal is only the start of an arrow to decode_byte, and the settings screen stays (ui.rs:552 "Backspace/q/Esc returns to the boot manager") |
| `SignalEndsWait` | `MCEvents.cfg`, `MaxCalls = 3` | SignalEvent on a timer event does not end a wait on it |
| `NoSilentTruncation` | `MCFileProtocol.cfg` | a file longer than a slot is opened truncated; one write and a Flush cut it off on the card, with success throughout |
| `FlushReachesTheCard` | `MCFileProtocol.cfg` | Flush reports success when write_file failed |
| `DirectoriesOpenAsDirectories` | same | a directory directly under the root opens as an empty file |
| `ListingsTellFilesApart` | same (INVARIANT) | a directory read marks every entry as a directory |

Some things no document speaks of. In `BootMenu` and `ConsoleInput`: the decoder has
no time-out, so an arrow typed after a lone Esc is lost; the three bytes of one arrow can
end two "press any key" waits, one after the other; and a keydown that arrives between the
bytes of a serial arrow costs one of the two. `StrokesActAsMeant` says how far this can go:
a stroke may be lost, and it never turns into another one, except that a capital A, B, C or
D, which no screen knows, acts as an arrow when it comes where the last byte of one is
missing. In `Console`: init forgets a half-read arrow, and what is left of it reaches the
new image as the characters `[` and `A` (`torn`); after a full line Mode reports a
column just past the grid, which SetCursorPosition then refuses; and writing over a
character draws both.

## What is proved

TLAPS checks these for every value of the constants that satisfies the ASSUMEs of the
modules: any memory layout, table size, set of names and GUIDs, card, volume, grid, hub and
number of calls or faults.

| theorem | states |
|---|---|
| **`BootServices_proofs`** | |
| `DbTypeCorrect` | the handle table stays well formed and unused entries stay empty |
| `LookupsAlwaysAgree` | LocateProtocol and the LocateHandle + HandleProtocol walk give the same interface |
| `TableIsARegistry` | the slot table implements `ProtocolRegistry` |
| `TypeCorrect` | every variable of the boot services keeps its type |
| `AllocationsAreDisjoint` | no two allocations share a page |
| `HandshakeIsSound` | a current key means a current map |
| `MapIsAPartition` | as long as the pointer is below the framebuffer, every page is under exactly one descriptor of the memory map, and under the right one |
| `GatedServicesStayStopped` | after the exit only the two handle queries allocate and no image starts |
| `ImagesLineUp` | a handle's entry point is its own image base plus the entry offset of its own file, which lies in the image if the offset does, and images do not overlap |
| `HandlesAreForever` | a handle never changes hands |
| **`Variables_proofs`** | |
| `KeysStayUnique` | no (name, GUID) occupies two slots |
| `WalksAreComplete` | a walk whose position is not deleted and that is not handed the empty name returns every variable that was there all along exactly once |
| `WalksKeepTheirPlace` | a walk loses its place only if the variable it stands at was deleted |
| `StoreIsAMap` | the variable table implements `VariableMap` |
| `NvTypeCorrect` | store, settings and file keep their types |
| `NothingLoadedIsLost` | once a session has merged the card, a variable it loaded stays in the store and on an untorn card unless it is deleted, through saves and failed saves |
| `CacheIsTheStore` | while only the menu changes settings and each change fits, the settings cache is what the store's variables say |
| `ReloadIsIdentity` | BOOT FROM SD with the card in sync changes no variable and no setting that came from one |
| **`Files_proofs`** | |
| `VolumeStaysExact` | between calls, as long as none has failed, exactly the clusters of the directory and of the files are allocated, each by one of them, with chains as long as their data (one cluster for an empty file) and equal copies of the FAT |
| `ReadsGiveLastWrite` | read_file gives back what the last completed write_file wrote, for every file, and no name is listed twice |
| `BystandersStayIntact` | at every block write of a call, and after the first one cut short or out of space, every file but the one being written reads as last written |
| `FileTypeCorrect` | slots and volume keep their types |
| `CleanSlotsMatchTheCard` | a slot with nothing to write back holds what the card holds, unless the file changed behind its back or its own write failed |
| `FilesDoNotMix` | no byte of a file reaches another one, however slots are re-used |
| `WritersOnly` | an entry of the root changes only by creating that file, or by writing back a slot opened for writing by that name in the root |
| **`SdCard_proofs`** | |
| `SdTypeCorrect` | driver, controller and card keep their types |
| `ReadsDeliver` | a read of blocks of the card that succeeds returns the blocks asked for, in order, whatever was given up on before |
| `WritesAreOver` | after a write that met no error nothing is under way to the card, and its blocks hold the data if they are blocks of the card |
| `LateWritesAreHarmless` | a block only ever changes to what was last handed over for a number that names it, on the card or wrapped, whatever the driver gave up on |
| **`Console_proofs`** | |
| `SerialKeysArrive` | serial keys, Esc too, are resolved in order and once, over image starts too, unless the FIFO overran or an image started inside an escape sequence |
| `NoKeydownTwice` | no key is resolved more often than it was pressed, however long it is held |
| `ScreenShowsThePage` | the screen is the window onto everything printed that ends where the output has got to |
| `CopiesFollow` | the display shows what was drawn, and Mode tells the cursor and attribute of the next output once the application has changed anything |
| `TimersFireOnTime` | a wait returns a timer event only once the ticks that make up the microseconds asked for have come, unless rounding those up leaves u64 |
| `NotifyHasLastWord` | what a notify function does to its own timer lasts: a new time counts, a cancelled or closed timer is not revived |
| **`BootMenu_proofs`** | |
| `DisplayIsTrue` | the display shows the entry, row and values the next key will act on |
| `KeysActAsMeant` | no stroke acts as another key (a capital A to D may act as the arrow it ends), none acts twice, and one that ended a wait does not act |
| `SerialLineIsFaithful` | serial input alone, Esc too, is decoded as typed, across the two loops' decoders, until the FIFO overruns or somebody else reads from the line |
| `SelectionsInLists` | the selected entry and row stay in their lists, so select's `unreachable!()` is |
| **`UsbKeyboard_proofs`** | |
| `UsbTypeCorrect` | driver and bus keep their types |
| `FoundKeyboardsWork` | a keyboard that was found answers at the address and endpoint the driver will poll, configured, whatever failed on the way |
| `LeadingKeyboardFound` | a keyboard that is the first device on its way is found if no transfer failed |

Assumptions beyond the modules' own: the boot-services theorems, except
`GatedServicesStayStopped`, assume `NoWrap` (no request overflows u64 when added to the
end of RAM). It is necessary: `HandsOutMonotonically` above fails without it.
The modules' own assumptions
say that sizes are naturals (positive where the code's constant is), that marker values such
as `Unused`, `NoEntry`, `NoFile` or the character codes CR, LF and BS are none of the values
they mark, that a volume's files hold their own bytes to begin with, that callers of the SD
driver pass buffers of at least one block, that a firmware object fits into a handle's slots,
that waits name events, that the root directory of a fresh volume holds no file (end marks,
deleted, long-name or label entries only), that the keyboard's codes are named apart from the
terminal's keystrokes, and, of USB, that a descriptor is either of length 0 or at least its
own header; that 512 divides the SD driver's address space; that a notify function makes one
call; and, of the terminal, that it sends arrows, Esc and characters.

The arguments:

- **Memory.** `GrantsDisjoint` is not inductive: a new grant is disjoint from the old
  ones only because each of those ends at or below the bump pointer. `MemInv` adds
  that, and the range of the pointer. `CurrentKeyMeansCurrentMap` needs that a caller's
  key is never ahead of the generation (`SeenInv`): otherwise an allocation could bump
  the generation *to* a stale key. Each service is first reduced to one of a few shapes
  seen from the allocator (`GatedAllocation`, `QueryAllocation`, nothing, a fetched
  map), and the step lemma is proved on the shapes. The map is a partition because each
  region pushed begins where the last one ended (`PushTiles`), empty regions being left out.
- **Handles and images.** `ImageInv` ties the three tables together: a slot is in use exactly
  if it has a creator, has an image exactly if it has an entry point, the image's pages were
  granted to it, and two images are never the same grant. With `GrantsDisjoint` that
  gives disjointness of images. The registry's bags are cardinalities of sets of slots;
  that one slot more or less changes them by one is taken from the finite-set theorems.
- **Variables.** `StoreInv` (uniqueness) is inductive because a new key takes the first
  unused slot only if no slot has it. `WalkInv` adds the walk's position: as long as
  `previous` has a slot p, settled variables in slots up to p have been returned once
  and those behind it not at all. Overwrites keep a variable's slot and deletions other
  than of `previous` only remove settled keys, so the position never moves backwards until
  the walk is handed the empty name (`rewound`), which get_next takes for the start.
- **Persistence.** `NvInv` says which keys the store has to have after a load, and that
  what is on the card is well formed. It rests on what the two loops do: serialize writes
  one record for each slot in use, deserialize merges record by record
  and leaves the rest alone, and one after the other is the identity (`RoundTrip`).
- **FAT32.** The invariants of `Fat32` speak of the volume between calls; the proof has to
  carry them through each block write. A volume is *laid out* (`Ready`) if there are a
  directory chain, and a chain and a directory entry for each file, all apart from each other,
  holding the data last written, with equal FAT copies and nothing else allocated. What the
  block writes of each helper do is proved on the volumes they go through (`Track`): a
  free cluster is found if there is one, allocate_chain links what it has taken, free_chain_from
  frees a chain and nothing else. All writes of a call go to clusters that belong neither to
  the directory nor to another file (`Rest`), except the last, which is the entry, and those
  that extend a full directory; so the other files keep reading as they did (`Kept`). Sizing
  leaves the file with a chain of the right length (`Sizing`), the data fills it, and the entry
  lays the volume out again (`ClosingDoes`). `FatInv` says this of the writes still to be issued:
  each prefix of them keeps the other files, and all of them, if they fit, end in a volume laid
  out for the new contents. After the first failure it says only that the other files still
  read; of a volume written to again after that, nothing.
- **Files.** `DiskInv`, `SlotInv` and `CacheInv`: every slot, in use or not, is well formed
  and holds no bytes but its own file's; a slot outside `stale` is coherent with the card.
  A failed write-back leaves its slot dirty or stale, so it cannot break the third.
- **SD card.** `JobInv` is the heart: an error or a completed transfer leaves the controller
  without a command, and after a command is issued with the inhibit bits clear the one it
  executes is that one. Which block an address means to the card, and which one a block
  number means to its caller, agree for numbers on the card because 512 divides 2^32 and
  the card's last byte is below it. `FlashInv` says that a block still on its way is the last one handed
  over for its address; `DataInv` what a call that has met no error is through with.
- **Console.** `LineInv`: the keys resolved, then what the decoder would make of the bytes
  in the FIFO, are the keys typed, and the state it would end in is `lead`, how far the typing
  has got into a sequence. This uses that decoding two strings one after the other is
  decoding their concatenation (`ScanJoin`), and what each keystroke decodes to from each
  state (`KeystrokeBytes`). `KeyInv`: what
  the last report held has been delivered or dropped. `ScreenInv`: screen and page go
  through the loop of OutputString in step, round by round.
- **Events.** `TimerInv`: the ticks left to a deadline and the ticks gone by make up the
  ticks of the time asked for, through expiry, renewal of a period and whatever a notify
  function calls, and those ticks cover the microseconds unless the sum wrapped.
- **Menu.** `StrokesActAsMeant` says nothing of bytes, so `MenuInv` adds where they are. The
  bytes in the FIFO and on the wire are in the order they were typed, a keystroke's last byte
  behind its others and its first before them (`Ordered`), and each is a byte of the keystroke
  whose number it carries (`Owners`). Nothing is left of a stroke that has acted
  (`ActedGone`). Nothing older is left than a stroke that ended a wait (`EndedFirst`), and what
  is left of it lacks its first byte and meets a decoder at rest (`EndedSilent`), so it acts no
  more. A keydown not yet reported has neither acted nor ended a wait (`KeysUnheard`). A key
  is then completed either by a plain byte, the only one of its stroke, or by the last byte of
  an arrow, which is the arrow's own last byte or a capital typed in its place (`Senses`).
  `SerialInv` holds while `clean` does: the keys resolved and those the bytes on their way
  will give are the keys meant, the decoder would end in `lead`, and a change of screen happens
  only on a completed key, with both decoders at rest. It rests on decoding two strings one
  after the other being decoding their concatenation, and on what each keystroke decodes to
  after nothing, Esc and Esc with "[".
- **USB.** `FoundInv`: a transaction given up on can complete only in the setup stage of a
  later request, after which nobody has heard that request, so it cannot succeed; and
  whatever the data stage brought came from the one device that was heard. The scan of a
  descriptor finds a report endpoint exactly if the bytes read contain one
  (`EndpointIsRight`). `CleanInv`: on the way to the first keyboard only the hub and that
  keyboard answer, each at an address of its own.

Recursion is written as recursive functions where there are theorems; what such a loop
computes is proved by a minimal-counterexample argument over its rounds (`Loops`), since
the library's induction theorems take an operator as a parameter and cannot be used.

Model-checked only: the liveness properties (`WalkEnds`, `WaitEnds`, `CallsReturn`,
`FaultsHeal`, `SearchEnds`), because the prover has no rules for fairness.

## Not modelled

- Mailbox, MMU, caches, exception vectors, timer programming, start-up code: register
  sequences against hardware, run once. What the rest of the firmware sees of them (a
  tick, a framebuffer address) is in the modules that use it.
- The PE parser and its relocations: pure code over a byte buffer.
- Mounting a FAT32 volume and its geometry: `Fat32` starts from a valid mount whose FAT is
  as long as its data area.
- Fonts and drawing: layout. `BootMenu` keeps which picture is on the display,
  `TextConsole` which glyphs, neither of them pixels. Device-path and GUID tables, CRC32: constants.
- FreePages and FreePool (accepted and ignored by the code), TPL, the watchdog, the
  monotonic counter and time services (stubs or constants), the configuration table.
- What a late USB transaction writes through the address of a buffer that transact has
  returned from: memory contents outside the model.
- The EFI test application: a client; the modules let clients make any call.

## Plan

In this order; what is done is marked.

1. done: allocator, protocol database, boot services; their theorems.
2. done: variable store and walk; their theorems and refinement.
3. done: persistence and settings, FAT32 with crashes, file protocol, console input,
   events.
4. done: SD commands and status register, block I/O.
5. done: menu, settings screen and their key decoders; USB enumeration and HID
   descriptors; text console.
6. done: theorems on the handle and variable refinements, persistence, FAT32, files,
   SD card, console, events, the menu and the keyboard search.
7. `Fat32` over `SdCard` as the card it writes to, and files and persistence over one
   card (`FileProtocol` and `NvStore` both write FERRO.VAR).
8. Mount geometry (fat32.rs:155); PE parsing and relocation as operators against a
   reference definition; configuration table.
