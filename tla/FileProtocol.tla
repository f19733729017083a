----------------------------- MODULE FileProtocol -----------------------------
(***************************************************************************)
(* EFI_SIMPLE_FILE_SYSTEM and EFI_FILE (efi/file_protocol.rs) over the     *)
(* FAT32 driver: a fixed table of open-file slots, each with its own whole *)
(* copy of the file, written back on Flush, Close or Delete.               *)
(*                                                                         *)
(* The volume is the root directory: name -> kind and contents.  Contents  *)
(* are sequences of bytes, and a byte is tagged with the file it was       *)
(* written to.  Every subdirectory holds one file, called Inner, whose     *)
(* 8.3 name may be that of a root file too.  Fat32.tla models write_file   *)
(* itself.                                                                 *)
(***************************************************************************)
EXTENDS Integers, SequencesExt, FiniteSetsExt

CONSTANTS
  RootName,     \* 8.3 names in the root directory
  Inner,        \* 8.3 name of the file in each subdirectory
  Volumes,      \* the root directories a run starts from
  MaxOpen,      \* MAX_OPEN_FILES
  MaxFile,      \* MAX_FILE_BYTES
  MaxEntries,   \* MAX_DIR_ENTRIES
  WriteSizes,   \* lengths callers pass to Write
  MaxCalls      \* bound on the calls of a run

Zero == "zero"
Nested == "nested"
Byte == {Zero, Nested} \cup RootName
Kind == {"none", "file", "dir"}
Volume == [RootName -> [kind : Kind, data : Seq(Byte)]]
Opened == 1 .. MaxOpen

NotDir == "plain"
RootDir == "root"

ASSUME FileAssumption ==
  /\ {Zero, Nested, NotDir, RootDir, "none"} \cap RootName = {}
  /\ MaxOpen \in Nat \ {0} /\ MaxFile \in Nat /\ MaxEntries \in Nat /\ MaxCalls \in Nat
  /\ WriteSizes \subseteq Nat
  /\ IsFiniteSet(RootName)
  /\ \A v \in Volumes :
       /\ v \in Volume
       /\ \A n \in RootName :
            v[n].data \in Seq({Zero, n}) /\ (v[n].kind # "file" => v[n].data = <<>>)

VARIABLES
  disk,    \* the root directory
  files,   \* FILES; parent is a history: the directory a file was opened in
  did,     \* history: the last call: which service, on which slot, what it reported
  stale,   \* history: slots whose file changed under them since they read or wrote it
  calls    \* calls so far

vars == <<disk, files, did, stale, calls>>

EMPTY_FILE ==
  [in_use |-> FALSE, dir |-> NotDir, parent |-> NotDir, name |-> "none", data |-> [n \in 1 .. MaxFile |-> Zero],
   len |-> 0, pos |-> 0, dirty |-> FALSE, for_write |-> FALSE, list |-> <<>>, index |-> 0]

Call(op, i) == [op |-> op, slot |-> i, entry |-> "none", is_dir |-> FALSE]
Unnoted == Call("none", 0)  \* a call no property asks about

Init ==
  /\ disk \in Volumes
  /\ files = [i \in Opened |-> EMPTY_FILE]
  /\ did = Unnoted
  /\ stale = {}
  /\ calls = 0

Called == calls < MaxCalls /\ calls' = calls + 1

-----------------------------------------------------------------------------
(* read_file and read_from: as much of the file as fits in the buffer; a   *)
(* directory entry's size is 0.                                            *)
ReadBack(data) == SubSeq(data, 1, Min({MaxFile, Len(data)}))

Exists(name) == disk[name].kind # "none"

(* list_dir into a buffer of MAX_DIR_ENTRIES names; open_dir takes an SD   *)
(* error for an empty directory.                                           *)
Entries(dir) ==
  IF dir = RootDir THEN SetToSeq({n \in RootName : Exists(n)}) ELSE <<".", "..", Inner>>

Listings(dir) == {<<>>, SubSeq(Entries(dir), 1, Min({MaxEntries, Len(Entries(dir))}))}

Contents(i) == SubSeq(files[i].data, 1, files[i].len)

Subdirectories == {n \in RootName : disk[n].kind = "dir"}

FreeSlots == {i \in Opened : ~files[i].in_use}

(* Mutant of Loaded: the slot's old contents are not wiped. *)
Loaded_Unwiped(dir, name, data, for_write) ==
  [EMPTY_FILE EXCEPT !.in_use = TRUE, !.parent = dir, !.name = name, !.len = Len(data),
     !.for_write = for_write,
     !.data = [n \in 1 .. MaxFile |-> IF n <= Len(data) THEN data[n] ELSE files[Min(FreeSlots)].data[n]]]

(* alloc_slot wipes the slot; then the copy of a file of directory dir is  *)
(* read into it.                                                           *)
Loaded(dir, name, data, for_write) ==
  [EMPTY_FILE EXCEPT !.in_use = TRUE, !.parent = dir, !.name = name, !.len = Len(data),
     !.for_write = for_write,
     !.data = [n \in 1 .. MaxFile |-> IF n <= Len(data) THEN data[n] ELSE Zero]]

(* alloc_slot and the slot it fills; EFI_OUT_OF_RESOURCES when none is     *)
(* free.                                                                   *)
Take(slot) ==
  IF FreeSlots = {}
  THEN did' = Unnoted /\ UNCHANGED <<files, stale>>
  ELSE LET i == Min(FreeSlots)
       IN  /\ files' = [files EXCEPT ![i] = slot]
           /\ stale' = stale \ {i}
           /\ did' = Call("Open", i)

OpenDir(dir) ==
  \E list \in Listings(dir) :
    Take([EMPTY_FILE EXCEPT !.in_use = TRUE, !.dir = dir, !.list = list])

(* What write_file can leave in the entry of name: the new contents, or    *)
(* after an error the old ones, with a first part of the new ones written  *)
(* over them and, if the file was to shrink, some of the rest cut off.     *)
(* A shrink that fails can also leave the entry's chain leading into free  *)
(* clusters, which a later write of another file may take: that is         *)
(* Fat32.tla's subject (ChainFitsData), and here files stay apart.         *)
Written(data) == [kind |-> "file", data |-> data]

Failed(name, data) ==
  LET old == disk[name].data
      Mixed(cut) == [n \in 1 .. Len(old) |-> IF n <= cut /\ n <= Len(data) THEN data[n] ELSE old[n]]
  IN  {[disk[name] EXCEPT !.data = SubSeq(Mixed(cut), 1, len)] :
        cut \in 0 .. Len(old), len \in Min({Len(data), Len(old)}) .. Len(old)}

-----------------------------------------------------------------------------
(* OpenVolume, and Open of "", "\" or "." through a directory handle. *)
OpenVolume ==
  /\ Called
  /\ OpenDir(RootDir)
  /\ UNCHANGED disk

OpenSame(p) ==
  /\ Called
  /\ files[p].in_use /\ files[p].dir # NotDir
  /\ OpenDir(files[p].dir)
  /\ UNCHANGED disk

(* Open of one name directly under the root: whatever the entry is, it is  *)
(* read as a file.  If that fails, for want of the entry or by an SD       *)
(* error, CREATE writes an empty file in its place, which may fail too.    *)
OpenRoot(p, name, write) ==
  /\ Called
  /\ files[p].in_use /\ files[p].dir # NotDir
  /\ Exists(name)
  /\ Take(Loaded(RootDir, name, ReadBack(disk[name].data), write))
  /\ UNCHANGED disk

(* The slots whose copy a change of name's entry leaves behind. *)
Holders(name) == {i \in Opened : files[i].in_use /\ files[i].name = name}

Created(i, name) == [Call("Create", i) EXCEPT !.entry = name]

OpenCreates(p, name, write) ==
  /\ Called
  /\ files[p].in_use /\ files[p].dir # NotDir
  /\ disk' = [disk EXCEPT ![name] = Written(<<>>)]
  /\ IF FreeSlots = {}
     THEN did' = Created(0, name) /\ UNCHANGED files /\ stale' = stale \cup Holders(name)
     ELSE LET i == Min(FreeSlots)
          IN  /\ files' = [files EXCEPT ![i] = Loaded(RootDir, name, <<>>, write)]
              /\ stale' = (stale \cup Holders(name)) \ {i}
              /\ did' = Created(i, name)

(* A failure that leaves the entry as it was changes nothing else either. *)
OpenCreateFails(p, name) ==
  /\ Called
  /\ files[p].in_use /\ files[p].dir # NotDir
  /\ \E e \in Failed(name, <<>>) \ {disk[name]} : disk' = [disk EXCEPT ![name] = e]
  /\ stale' = stale \cup Holders(name)
  /\ did' = Created(0, name)
  /\ UNCHANGED files

(* Mutant of OpenNested: WRITE is not refused and taken over. *)
OpenNested_Writable(p, dir) ==
  /\ Called
  /\ files[p].in_use /\ files[p].dir # NotDir
  /\ dir \in Subdirectories
  /\ IF FreeSlots = {}
     THEN did' = Unnoted /\ UNCHANGED <<files, stale>>
     ELSE LET i == Min(FreeSlots)
          IN  /\ files' = [files EXCEPT ![i] = Loaded(dir, Inner, ReadBack(<<Nested>>), TRUE)]
              /\ stale' = stale \cup {i}
              /\ did' = Call("Open", i)
  /\ UNCHANGED disk

(* Open of a path through a subdirectory: read-only, a file or the         *)
(* directory itself; WRITE and CREATE are refused.                         *)
OpenNested(p, dir) ==
  /\ Called
  /\ files[p].in_use /\ files[p].dir # NotDir
  /\ dir \in Subdirectories
  /\ IF FreeSlots = {}
     THEN did' = Unnoted /\ UNCHANGED <<files, stale>>
     ELSE LET i == Min(FreeSlots)
          IN  /\ files' = [files EXCEPT ![i] = Loaded(dir, Inner, ReadBack(<<Nested>>), FALSE)]
              /\ stale' = stale \cup {i}
              /\ did' = Call("Open", i)
  /\ UNCHANGED disk

OpenNestedDir(p, dir) ==
  /\ Called
  /\ files[p].in_use /\ files[p].dir # NotDir
  /\ dir \in Subdirectories
  /\ OpenDir(dir)
  /\ UNCHANGED disk

-----------------------------------------------------------------------------
(* Read of a plain file, and of a directory: one entry a call, each        *)
(* formatted with is_dir = true.                                           *)
Read(i, n) ==
  /\ Called
  /\ files[i].in_use /\ files[i].dir = NotDir
  /\ files' = [files EXCEPT ![i].pos =
                 IF @ >= files[i].len THEN @ ELSE Min({files[i].len, @ + n})]
  /\ did' = Unnoted
  /\ UNCHANGED <<disk, stale>>

ReadDir(i) ==
  /\ Called
  /\ files[i].in_use /\ files[i].dir # NotDir
  /\ IF files[i].index >= Len(files[i].list)
     THEN did' = Call("ReadDir", i) /\ UNCHANGED files
     ELSE /\ did' = [Call("ReadDir", i) EXCEPT !.entry = files[i].list[files[i].index + 1],
                                               !.is_dir = TRUE]
          /\ files' = [files EXCEPT ![i].index = @ + 1]
  /\ UNCHANGED <<disk, stale>>

(* Mutant of Overwrite: the slot is not marked dirty. *)
Overwrite_Clean(f, n) ==
  [f EXCEPT !.data = [k \in 1 .. MaxFile |->
                        IF f.pos < k /\ k <= f.pos + n THEN f.name ELSE f.data[k]],
            !.pos = f.pos + n,
            !.len = Max({f.len, f.pos + n})]

(* Write's effect on an open file: n bytes at its position. *)
Overwrite(f, n) ==
  [f EXCEPT !.data = [k \in 1 .. MaxFile |->
                        IF f.pos < k /\ k <= f.pos + n THEN f.name ELSE f.data[k]],
            !.pos = f.pos + n,
            !.len = Max({f.len, f.pos + n}),
            !.dirty = TRUE]

(* EFI_UNSUPPORTED, EFI_WRITE_PROTECTED and EFI_OUT_OF_RESOURCES aside. *)
Writable(f, n) == f.in_use /\ f.dir = NotDir /\ f.for_write /\ f.pos + n <= MaxFile

Write(i, n) ==
  /\ Called
  /\ Writable(files[i], n)
  /\ files' = [files EXCEPT ![i] = Overwrite(files[i], n)]
  /\ did' = Unnoted
  /\ UNCHANGED <<disk, stale>>

SetPosition(i, p) ==
  /\ Called
  /\ files[i].in_use
  /\ files' = IF files[i].dir = NotDir THEN [files EXCEPT ![i].pos = p]
              ELSE [files EXCEPT ![i].index = IF p = 0 THEN 0 ELSE @]
  /\ did' = Unnoted
  /\ UNCHANGED <<disk, stale>>

(* flush_if_dirty: the result of write_file is dropped, the slot is clean  *)
(* either way.                                                             *)
MustWrite(i) == files[i].for_write /\ files[i].dirty

FlushIfDirty(i) ==
  IF ~MustWrite(i) THEN UNCHANGED <<disk, stale>>
  ELSE LET name == files[i].name
           others == Holders(name) \ {i}
       IN  \/ /\ disk' = [disk EXCEPT ![name] = Written(Contents(i))]
              /\ stale' = (stale \cup others) \ {i}
           \/ /\ \E e \in Failed(name, Contents(i)) : disk' = [disk EXCEPT ![name] = e]
              /\ stale' = stale \cup others \cup {i}

Flush(i) ==
  /\ Called
  /\ files[i].in_use
  /\ FlushIfDirty(i)
  /\ files' = [files EXCEPT ![i].dirty = @ /\ ~MustWrite(i)]
  /\ did' = Call("Flush", i)

(* Close, and Delete, which only closes and answers with a warning. *)
Close(i) ==
  /\ Called
  /\ files[i].in_use
  /\ FlushIfDirty(i)
  /\ files' = [files EXCEPT ![i].in_use = FALSE, ![i].dirty = @ /\ ~MustWrite(i)]
  /\ did' = Call("Close", i)

(* GetPosition, GetInfo, SetInfo and every call that is refused: nothing   *)
(* changes.                                                                *)
Queries == UNCHANGED vars

Next ==
  \/ OpenVolume
  \/ Queries
  \/ \E p \in Opened :
       \/ OpenSame(p)
       \/ \E name \in RootName, w \in BOOLEAN : OpenRoot(p, name, w) \/ OpenCreates(p, name, w)
       \/ \E name \in RootName : OpenCreateFails(p, name)
       \/ \E dir \in RootName : OpenNested(p, dir) \/ OpenNestedDir(p, dir)
  \/ \E i \in Opened :
       \/ \E n \in WriteSizes : Read(i, n) \/ Write(i, n)
       \/ \E p \in 0 .. MaxFile : SetPosition(i, p)
       \/ ReadDir(i) \/ Flush(i) \/ Close(i)

Spec == Init /\ [][Next]_vars

-----------------------------------------------------------------------------
(* Slots, the volume and the last call keep their types. *)
TypeOK ==
  /\ \A n \in RootName :
       disk[n].kind \in Kind /\ \A k \in DOMAIN disk[n].data : disk[n].data[k] \in Byte
  /\ \A i \in Opened :
       /\ files[i].data \in [1 .. MaxFile -> Byte]
       /\ files[i].len \in 0 .. MaxFile /\ files[i].pos \in 0 .. MaxFile
       /\ files[i].index \in 0 .. Len(files[i].list)
       /\ files[i].name \in RootName \cup {Inner, "none"}
       /\ files[i].parent \in RootName \cup {RootDir, NotDir}
  /\ stale \subseteq Opened /\ calls \in 0 .. MaxCalls

(* The write-back cache is coherent: an open file with nothing left to     *)
(* write, that nobody changed behind its back and none of whose own writes *)
(* failed, holds what the card holds, through any sequence of seeks,       *)
(* writes, flushes, closes and re-opens, up to MAX_FILE_BYTES.  (That no   *)
(* chain leads into another file's clusters is Fat32's half of this.)      *)
CleanMeansOnDisk ==
  \A i \in Opened \ stale :
    files[i].in_use /\ files[i].dir = NotDir /\ ~files[i].dirty
      => Contents(i) = ReadBack(disk[files[i].name].data)

(* No byte of one file turns up in another: a slot is wiped before it is   *)
(* re-used, so a seek past the end followed by a write leaves zeros, not   *)
(* what the slot's last file had there.  It is about the slots: chains     *)
(* that a failed write_file left cross-linked are Fat32.tla's.             *)
BytesStayInTheirFile ==
  \A n \in RootName : \A k \in DOMAIN disk[n].data : disk[n].data[k] \in {Zero, n}

(* The card changes only where a client asked for it: when an entry of the *)
(* root changes, the call created that very file, or wrote back a slot     *)
(* that was opened for writing, under that name and in the root.  A slot   *)
(* remembers a bare 8.3 name and no directory, so a file of a subdirectory *)
(* that became writable would go over its namesake in the root.            *)
OnlyWritersWrite ==
  [][\A n \in RootName : disk'[n] # disk[n] =>
       \/ did'.op = "Create" /\ did'.entry = n
       \/ /\ did'.op \in {"Flush", "Close"}
          /\ files[did'.slot].name = n /\ files[did'.slot].parent = RootDir
          /\ files[did'.slot].for_write]_vars

-----------------------------------------------------------------------------
(* What comments and documents say of this code, and the code does not do. *)

(* "with the real disk write happening on Close/Flush": a Flush that       *)
(* reports success leaves the file on the card as the client sees it.      *)
FlushReachesTheCard ==
  [][did'.op = "Flush" /\ calls' # calls /\ files[did'.slot].dir = NotDir
       /\ files[did'.slot].for_write /\ files[did'.slot].dirty
       => disk'[files[did'.slot].name].data = Contents(did'.slot)]_vars

(* "an honest, documented limitation rather than a silent one": writing to *)
(* a file longer than MAX_FILE_BYTES does not cut it off.                  *)
NoSilentTruncation ==
  [][did'.op \in {"Flush", "Close"} =>
       \A n \in RootName : Cardinality(Holders(n)) = 1 =>
         Len(disk'[n].data) >= Len(disk[n].data)]_vars

(* "Opening a path that resolves to a directory returns a new directory    *)
(* handle (listable, walkable) instead of failing".                        *)
DirectoriesOpenAsDirectories ==
  [][\A i \in Opened : did'.op = "Open" /\ did'.slot = i /\ calls' # calls
       /\ files'[i].name \in Subdirectories => files'[i].dir # NotDir]_vars

(* "reading a directory handle returns one EFI_FILE_INFO per call, real    *)
(* `ls` support": an entry is a directory exactly when it says so.         *)
ListingsTellFilesApart ==
  did.op = "ReadDir" /\ did.entry \in RootName /\ files[did.slot].dir = RootDir
    => did.is_dir = (disk[did.entry].kind = "dir")
=============================================================================
