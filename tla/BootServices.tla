---------------------------- MODULE BootServices ----------------------------
(***************************************************************************)
(* EFI Boot Services (src/efi/boot_services.rs) over the page allocator    *)
(* and the protocol database: the allocation entry points, LoadImage and   *)
(* StartImage, the handle-buffer queries that allocate their answer, the   *)
(* memory-map handshake with ExitBootServices, and the handles the         *)
(* firmware makes for itself (the menu's SD handle in src/ui.rs, the       *)
(* console handles in src/efi/console.rs).  Any caller, the menu or a      *)
(* loaded application, may make any call at any time; calls do not         *)
(* overlap: the firmware is single-threaded and its only interrupt touches *)
(* a tick counter.                                                         *)
(***************************************************************************)
EXTENDS PageAllocator, ProtocolDb

CONSTANTS
  LoadedImage,   \* LOADED_IMAGE_PROTOCOL_GUID
  TextOutput,    \* SIMPLE_TEXT_OUTPUT_PROTOCOL_GUID
  FirmwareObject,\* objects the firmware makes a handle for: "sd", "con_out", "con_in"
  ProtocolsOf,   \* object -> the GUIDs it installs there, in order
  PageCounts,    \* page counts callers ask AllocatePages for
  PoolSizes,     \* byte sizes callers ask AllocatePool for
  ImagePages,    \* pages of the PE images callers load: SizeOfImage, which may be 0
  EntryPages,    \* their AddressOfEntryPoint in pages, inside the image or past its end
  PageBytes,     \* EFI_PAGE_SIZE
  NoMap          \* the caller has not fetched a memory map yet

ASSUME BootAssumption ==
  /\ {LoadedImage, TextOutput} \subseteq Guid
  /\ FirmwareObject \subseteq STRING
  /\ ProtocolsOf \in [FirmwareObject -> Seq(Guid)]
  /\ \A o \in FirmwareObject : Len(ProtocolsOf[o]) <= MaxProtocols
  /\ PageCounts \subseteq Nat
  /\ PoolSizes \subseteq Nat
  /\ ImagePages \subseteq Nat
  /\ EntryPages \subseteq Nat
  /\ PageBytes \in Nat \ {0}

VARIABLES
  exited,        \* BOOT_SERVICES_EXITED
  loaded_image,  \* LOADED_IMAGE_PROTOCOLS: index -> [base, pages], and as a history
                 \* the entry offset of the file it was loaded from
  entry_points,  \* ENTRY_POINTS: index -> entry page, 0 when none
  own_handle,    \* SD_HANDLE, console_out_handle, console_in_handle; Null until made
  running,       \* history: entry pages StartImage has called into
  creator,       \* history: who created each handle
  seen           \* the caller's last GetMemoryMap answer and its key

bootVars == <<exited, loaded_image, entry_points, own_handle, running, creator, seen>>
vars == <<memVars, handles, bootVars>>

EmptyImage == [base |-> 0, pages |-> 0, entry |-> 0]

(* Each handle's LOADED_IMAGE interface is the address of its own slot in  *)
(* LOADED_IMAGE_PROTOCOLS; other interfaces are whatever the client gave.  *)
CONSTANTS ImageInterface, ClientInterface

ASSUME InterfaceAssumption == {ImageInterface, ClientInterface} \subseteq Interface

Init ==
  /\ MemInit
  /\ DbInit
  /\ exited = FALSE
  /\ loaded_image = [i \in Index |-> EmptyImage]
  /\ entry_points = [i \in Index |-> 0]
  /\ own_handle = [o \in FirmwareObject |-> Null]
  /\ running = {}
  /\ creator = [i \in Index |-> "none"]
  /\ seen = NoMap

-----------------------------------------------------------------------------
(* Memory services. *)

AllocatePages(count) ==
  /\ ~exited
  /\ Allocate(count, "gated") \/ AllocateFails(count)
  /\ UNCHANGED <<handles, bootVars>>

(* Whole pages, at least one; size + EFI_PAGE_SIZE - 1 is u64 arithmetic. *)
PoolPages(size) ==
  Max({1, ((size + PageBytes - 1) % (AddrPages * PageBytes)) \div PageBytes})

(* Mutant of AllocatePool: forgets to ask exited(). *)
AllocatePool_Ungated(size) ==
  /\ Allocate(PoolPages(size), "gated") \/ AllocateFails(PoolPages(size))
  /\ UNCHANGED <<handles, bootVars>>

AllocatePool(size) ==
  /\ ~exited
  /\ Allocate(PoolPages(size), "gated") \/ AllocateFails(PoolPages(size))
  /\ UNCHANGED <<handles, bootVars>>

(* AllocatePages, AllocatePool, LoadImage and StartImage after             *)
(* ExitBootServices: EFI_UNSUPPORTED.                                      *)
RefusedAfterExit == exited /\ UNCHANGED vars

(* GetMemoryMap with a large enough buffer: never gated, reads only. *)
GetMemoryMap ==
  /\ seen' = [key |-> generation, map |-> MemoryMap]
  /\ UNCHANGED <<memVars, handles, exited, loaded_image, entry_points,
                 own_handle, running, creator>>

(* ExitBootServices(key): EFI_INVALID_PARAMETER on a stale key, EFI_SUCCESS *)
(* without effect when boot services have already been left.               *)
ExitBootServices(key) ==
  /\ exited' = (exited \/ key = generation)
  /\ UNCHANGED <<memVars, handles, loaded_image, entry_points, own_handle,
                 running, creator, seen>>

-----------------------------------------------------------------------------
(* Image services. *)

(* pe::load fails after its allocation (a truncated section or relocation  *)
(* table), or LoadImage finds no vacant handle: the pages stay allocated.  *)
LoadImageFails(count) ==
  /\ ~exited
  /\ Allocate(count, "gated") \/ AllocateFails(count)
  /\ UNCHANGED <<handles, bootVars>>

(* Mutant of LoadImage: indexes the parallel tables by handle value.       *)
LoadImage_ByHandle(count, off) ==
  /\ ~exited
  /\ Vacant # {}
  /\ Allocate(count, "image")
  /\ LET i == Min(Vacant)
         h == Handle(i) % MaxHandles IN
       /\ loaded_image' = [loaded_image EXCEPT
                             ![h] = [base |-> next_free_page, pages |-> count,
                                     entry |-> off]]
       /\ entry_points' = [entry_points EXCEPT ![h] = next_free_page + off]
       /\ creator' = [creator EXCEPT ![i] = "image"]
       /\ handles' = [handles EXCEPT ![i] = Put(Fresh, LoadedImage, ImageInterface)]
  /\ UNCHANGED <<exited, own_handle, running, seen>>

(* LoadImage: the image gets fresh pages, a fresh handle, its own slot in  *)
(* both parallel tables, and the LOADED_IMAGE protocol.  pe::load adds     *)
(* AddressOfEntryPoint to the base without a look at SizeOfImage: off may  *)
(* lie past the image's pages, and an image may have no pages at all.      *)
LoadImage(count, off) ==
  /\ ~exited
  /\ Vacant # {}
  /\ Allocate(count, "image")
  /\ LET i == Min(Vacant) IN
       /\ loaded_image' = [loaded_image EXCEPT
                             ![i] = [base |-> next_free_page, pages |-> count,
                                     entry |-> off]]
       /\ entry_points' = [entry_points EXCEPT ![i] = next_free_page + off]
       /\ creator' = [creator EXCEPT ![i] = "image"]
       /\ handles' = [handles EXCEPT ![i] = Put(Fresh, LoadedImage, ImageInterface)]
  /\ UNCHANGED <<exited, own_handle, running, seen>>

(* StartImage: calls the entry point of a live handle that has one. *)
StartImage(i) ==
  /\ ~exited
  /\ i \in Live
  /\ running' = IF entry_points[i] = 0 THEN running ELSE running \cup {entry_points[i]}
  /\ UNCHANGED <<memVars, handles, exited, loaded_image, entry_points,
                 own_handle, creator, seen>>

-----------------------------------------------------------------------------
(* Handle services; none of them looks at BOOT_SERVICES_EXITED. *)

(* LocateHandleBuffer(AllHandles) fills one scratch array twice, the       *)
(* second time from the front again, and reports the sum of both counts.   *)
AllHandlesBuffer ==
  LET images == HandlesWith(LoadedImage)
      consoles == HandlesWith(TextOutput)
  IN  [n \in 1 .. (Len(images) + Len(consoles)) |->
         IF n <= Len(consoles) THEN consoles[n]
         ELSE IF n <= Len(images) THEN images[n] ELSE Null]

(* LocateHandleBuffer and ProtocolsPerHandle allocate the caller's copy of *)
(* a non-empty answer; MAX_HANDLES handles fit in one page.                *)
AnswerInPages(answer, owner) ==
  /\ answer # <<>>
  /\ Allocate(1, owner) \/ AllocateFails(1)
  /\ UNCHANGED <<handles, bootVars>>

LocateHandleBuffer(g) == AnswerInPages(HandlesWith(g), "query")

(* More handles than the scratch array holds is an index panic; the model  *)
(* stays below it.                                                         *)
LocateAllHandles ==
  /\ Len(AllHandlesBuffer) <= MaxHandles
  /\ AnswerInPages(AllHandlesBuffer, "query")

ProtocolsPerHandle(i) ==
  /\ i \in Live
  /\ AnswerInPages(ProtocolsOn(i), "query")

(* InstallProtocolInterface, ReinstallProtocolInterface and                *)
(* UninstallProtocolInterface by a client.                                 *)
InstallNew(g) ==
  /\ InstallOnNew(g, ClientInterface)
  /\ creator' = [creator EXCEPT ![Min(Vacant)] = "client"]
  /\ UNCHANGED <<memVars, exited, loaded_image, entry_points, own_handle, running, seen>>

ChangeProtocols(i, g) ==
  /\ \/ InstallOn(i, g, ClientInterface)
     \/ Reinstall(i, g, ClientInterface)
     \/ Uninstall(i, g)
  /\ UNCHANGED <<memVars, bootVars>>

(* sd_handle(), and the console handles of console::init: each is made on  *)
(* the first application boot and reused afterwards.  With a full table    *)
(* the consoles go without a handle and sd_handle() panics: no step.       *)
FirmwareHandle(o) ==
  /\ own_handle[o] = Null
  /\ Vacant # {}
  /\ LET i == Min(Vacant) IN
       /\ handles' = [handles EXCEPT ![i] =
            [Fresh EXCEPT !.protocols =
               [s \in Slot |-> IF s <= Len(ProtocolsOf[o])
                               THEN [guid |-> ProtocolsOf[o][s], interface |-> ClientInterface]
                               ELSE NoEntry]]]
       /\ own_handle' = [own_handle EXCEPT ![o] = Handle(i)]
       /\ creator' = [creator EXCEPT ![i] = "firmware"]
  /\ UNCHANGED <<memVars, exited, loaded_image, entry_points, running, seen>>

Next ==
  \/ \E n \in PageCounts : AllocatePages(n)
  \/ \E b \in PoolSizes : AllocatePool(b)
  \/ RefusedAfterExit
  \/ GetMemoryMap
  \/ \E k \in 0 .. MaxGeneration : ExitBootServices(k)
  \/ \E n \in ImagePages : LoadImageFails(n)
  \/ \E n \in ImagePages : \E off \in EntryPages : LoadImage(n, off)
  \/ \E i \in Index : StartImage(i)
  \/ \E g \in Guid : LocateHandleBuffer(g)
  \/ LocateAllHandles
  \/ \E i \in Index : ProtocolsPerHandle(i)
  \/ \E g \in Guid : InstallNew(g)
  \/ \E i \in Index, g \in Guid : ChangeProtocols(i, g)
  \/ \E o \in FirmwareObject : FirmwareHandle(o)

Spec == Init /\ [][Next]_vars

-----------------------------------------------------------------------------
(* No request is so large that base + count * EFI_PAGE_SIZE overflows u64. *)
NoWrap ==
  \A n \in PageCounts \cup ImagePages \cup {PoolPages(b) : b \in PoolSizes} \cup {1} :
    RamLimit + n < AddrPages

(* Every variable has its type. *)
TypeOK ==
  /\ next_free_page \in FirmwareEnd .. RamLimit
  /\ generation \in 0 .. MaxGeneration
  /\ granted \subseteq Grant
  /\ DbTypeOK
  /\ exited \in BOOLEAN
  /\ loaded_image \in [Index -> [base : Nat, pages : Nat, entry : Nat]]
  /\ entry_points \in [Index -> Nat]
  /\ own_handle \in [FirmwareObject -> {Null} \cup {Handle(i) : i \in Index}]
  /\ running \subseteq Nat
  /\ creator \in [Index -> {"none", "client", "image", "firmware"}]
  /\ seen \in {NoMap} \cup
       [key : 0 .. MaxGeneration, map : {MapFor(b) : b \in FirmwareEnd .. RamLimit}]

(* No two ranges handed out by any mix of AllocatePages, AllocatePool,     *)
(* LoadImage, LocateHandleBuffer and ProtocolsPerHandle share a page, and  *)
(* all of them lie between the firmware image and the end of RAM.          *)
GrantsDisjoint ==
  \A g \in granted :
    /\ FirmwareEnd <= g.base /\ g.base + g.pages <= next_free_page
    /\ \A h \in granted \ {g} :
         g.base + g.pages <= h.base \/ h.base + h.pages <= g.base

(* The map-key handshake: whoever holds the current key holds the current  *)
(* map, so ExitBootServices never succeeds against a map that some later   *)
(* allocation, by any service, made stale.                                 *)
CurrentKeyMeansCurrentMap ==
  seen # NoMap /\ seen.key = generation => seen.map = MemoryMap

(* Boot services that are gated hand out nothing once ExitBootServices has *)
(* succeeded, and start no image: only the two ungated queries allocate.   *)
GatedServicesStop ==
  [][exited =>
       /\ \A g \in granted' \ granted : g.owner = "query"
       /\ running' = running
       /\ exited']_vars

(* While the bump pointer is below the framebuffer, the memory map puts    *)
(* every page under exactly one descriptor, every page handed out under    *)
(* boot-services data and every framebuffer page under MMIO.               *)
MapPartitionsMemory ==
  next_free_page <= FbBase =>
    /\ \A p \in 0 .. (LocalEnd - 1) : Cardinality(Covering(MemoryMap, p)) = 1
    /\ \A g \in granted : \A p \in PagesOf(g) : TypesOf(MemoryMap, p) = {BootData}
    /\ \A p \in FbBase .. (FbEnd - 1) : TypesOf(MemoryMap, p) = {Mmio}

(* LOADED_IMAGE_PROTOCOLS and ENTRY_POINTS line up with the handle table:  *)
(* an index has an entry point only if LoadImage created that handle; it   *)
(* is that handle's own image base plus the AddressOfEntryPoint of the     *)
(* file that handle was loaded from, and no two handles share image pages. *)
(* So StartImage enters the handle's own image if its file's entry offset  *)
(* lies inside SizeOfImage, which pe::load does not check.                 *)
EntryPointsLineUp ==
  \A i \in Index : entry_points[i] # 0 =>
    /\ i \in Live /\ creator[i] = "image"
    /\ [base |-> loaded_image[i].base, pages |-> loaded_image[i].pages,
        owner |-> "image"] \in granted
    /\ entry_points[i] = loaded_image[i].base + loaded_image[i].entry
    /\ loaded_image[i].entry < loaded_image[i].pages =>
         entry_points[i] \in PagesOf(loaded_image[i])
    /\ \A j \in Index \ {i} :
         PagesOf(loaded_image[i]) \cap PagesOf(loaded_image[j]) = {}

(* A handle, once given to anyone, stays that object for the rest of the   *)
(* boot, whatever is uninstalled from it: the menu's cached SD_HANDLE and  *)
(* a client's image handles are never taken over by a later creation.      *)
HandlesKeepTheirIdentity ==
  [][\A i \in Index : creator[i] # "none" =>
       creator'[i] = creator[i] /\ handles'[i].in_use]_vars

-----------------------------------------------------------------------------
(* What comments and documents say of this code, and the code does not do. *)

(* "a map key that changes exactly when the map does": the key changes     *)
(* only together with the map.                                             *)
KeyChangesOnlyWithMap ==
  [][generation' # generation => MemoryMap' # MemoryMap]_vars

(* "reports the framebuffer region correctly either way": each framebuffer *)
(* page is MMIO and nothing else, however far the allocator has walked.    *)
FramebufferReportedCorrectly ==
  \A p \in FbBase .. (FbEnd - 1) : TypesOf(MemoryMap, p) = {Mmio}

(* "hands out pages monotonically": the bump pointer never moves back. *)
HandsOutMonotonically ==
  [][next_free_page' >= next_free_page]_vars

(* No "boot-time things after the caller has taken over the machine": the  *)
(* memory map the caller left boot services with stays true.               *)
MapFrozenAfterExit ==
  [][exited => MemoryMap' = MemoryMap]_vars

(* "taking the union of handles carrying any protocol": an AllHandles      *)
(* buffer names at least every handle of the two kinds it searches for.    *)
AllHandlesNamed ==
  \A i \in Carriers(LoadedImage) \cup Carriers(TextOutput) :
    \E n \in DOMAIN AllHandlesBuffer : AllHandlesBuffer[n] = Handle(i)
=============================================================================
