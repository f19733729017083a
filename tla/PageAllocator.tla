---------------------------- MODULE PageAllocator ----------------------------
(***************************************************************************)
(* Ferro's physical page allocator and memory-map builder                  *)
(* (src/efi/memory.rs).  All addresses are page numbers: every address the *)
(* code hands out or reports is a multiple of EFI_PAGE_SIZE (the mailbox   *)
(* framebuffer request asks for 4096-byte alignment), so a byte address is *)
(* the page number times EFI_PAGE_SIZE, and u64 arithmetic on byte         *)
(* addresses is arithmetic modulo AddrPages = 2^64 / EFI_PAGE_SIZE.        *)
(***************************************************************************)
EXTENDS Integers, Sequences

CONSTANTS
  FirmwareStart,   \* BASE_ADDRESS of linker.ld
  FirmwareEnd,     \* page_align_up(__end)
  FbBase,          \* framebuffer, as reported by the VideoCore mailbox
  FbEnd,           \* page_align_up(fb_base + fb_size)
  RamLimit,        \* PERIPHERAL_BASE: end of RAM, start of MMIO
  LocalBase,       \* LOCAL_BASE: BCM2836 local peripherals
  LocalEnd,        \* end of the 1 GiB block mmu.rs maps there
  AddrPages,       \* 2^64 / EFI_PAGE_SIZE: where u64 addresses wrap
  MaxGeneration    \* bound on the number of allocations a run explores

ASSUME LayoutAssumption ==
  /\ {FirmwareStart, FirmwareEnd, FbBase, FbEnd, RamLimit,
      LocalBase, LocalEnd, AddrPages, MaxGeneration} \subseteq Nat
  /\ 0 < FirmwareStart /\ FirmwareStart < FirmwareEnd
  /\ FirmwareEnd <= FbBase /\ FbBase < FbEnd /\ FbEnd <= RamLimit
  /\ RamLimit < LocalBase /\ LocalBase < LocalEnd /\ LocalEnd <= AddrPages

VARIABLES
  next_free_page,  \* NEXT_FREE_PAGE
  generation,      \* GENERATION, the memory-map key
  granted          \* history: every range handed out, and the kind of service that asked

memVars == <<next_free_page, generation, granted>>

(* Which services ask: those ExitBootServices switches off, LoadImage for  *)
(* the image itself, or the two handle queries that are never switched off. *)
Owner == {"gated", "image", "query"}

Grant == [base : Nat, pages : Nat, owner : Owner]

(* memory::init, run once before the first allocation. *)
MemInit ==
  /\ next_free_page = FirmwareEnd
  /\ generation = 0
  /\ granted = {}

(* Mutant of Bumped: every allocation advances the pointer by one page. *)
Bumped_OnePage(count) == (next_free_page + 1) % AddrPages

(* base + count * EFI_PAGE_SIZE in the wrapping u64 arithmetic of the      *)
(* release build.                                                          *)
Bumped(count) == (next_free_page + count) % AddrPages

Fits(count) == Bumped(count) <= RamLimit

(* Mutant of Allocate: the map key is not advanced. *)
Allocate_SameKey(count, owner) ==
  /\ Fits(count)
  /\ generation < MaxGeneration
  /\ next_free_page' = Bumped(count)
  /\ granted' = granted \cup
       {[base |-> next_free_page, pages |-> count, owner |-> owner]}
  /\ UNCHANGED generation

(* allocate_pages(count) when it returns Some(base).  The compare-exchange *)
(* cannot fail: nothing else runs between the load and the exchange.       *)
Allocate(count, owner) ==
  /\ Fits(count)
  /\ generation < MaxGeneration
  /\ next_free_page' = Bumped(count)
  /\ generation' = generation + 1
  /\ granted' = granted \cup
       {[base |-> next_free_page, pages |-> count, owner |-> owner]}

(* allocate_pages(count) when it returns None. *)
AllocateFails(count) == ~Fits(count) /\ UNCHANGED memVars

-----------------------------------------------------------------------------
(* get_memory_map: eight candidate regions in address order, of which the  *)
(* empty or inverted ones are not pushed.                                  *)
Conventional == "EFI_CONVENTIONAL_MEMORY"
BootCode == "EFI_BOOT_SERVICES_CODE"
BootData == "EFI_BOOT_SERVICES_DATA"
Mmio == "EFI_MEMORY_MAPPED_IO"

Region(start, end, ty) == [start |-> start, end |-> end, ty |-> ty]

(* Mutant of Candidates: free memory is reported from the firmware's end. *)
Candidates_NoBump(bump) ==
  << Region(0, FirmwareStart, Conventional),
     Region(FirmwareStart, FirmwareEnd, BootCode),
     Region(FirmwareEnd, bump, BootData),
     Region(FirmwareEnd, FbBase, Conventional),
     Region(FbBase, FbEnd, Mmio),
     Region(FbEnd, RamLimit, Conventional),
     Region(RamLimit, LocalBase, Mmio),
     Region(LocalBase, LocalEnd, Mmio) >>

Candidates(bump) ==
  << Region(0, FirmwareStart, Conventional),
     Region(FirmwareStart, FirmwareEnd, BootCode),
     Region(FirmwareEnd, bump, BootData),
     Region(bump, FbBase, Conventional),
     Region(FbBase, FbEnd, Mmio),
     Region(FbEnd, RamLimit, Conventional),
     Region(RamLimit, LocalBase, Mmio),
     Region(LocalBase, LocalEnd, Mmio) >>

(* The push closure of get_memory_map. *)
Push(map, r) == IF r.end > r.start THEN Append(map, r) ELSE map

MapFor(bump) ==
  LET c == Candidates(bump)
  IN  Push(Push(Push(Push(Push(Push(Push(Push(
        <<>>, c[1]), c[2]), c[3]), c[4]), c[5]), c[6]), c[7]), c[8])

MemoryMap == MapFor(next_free_page)

(* The types the map gives to page p; a correct map gives exactly one to   *)
(* every page below LocalEnd.                                              *)
TypesOf(map, p) ==
  {map[i].ty : i \in {j \in DOMAIN map : map[j].start <= p /\ p < map[j].end}}

Covering(map, p) == {i \in DOMAIN map : map[i].start <= p /\ p < map[i].end}

PagesOf(g) == g.base .. (g.base + g.pages - 1)
=============================================================================
