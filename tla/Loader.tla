------------------------------- MODULE Loader -------------------------------
(***************************************************************************)
(* The ELF loader (elf.c) on the files of the host (spike_file.c): from    *)
(* spike_file_init to the close after loading.  One step is a call, or one *)
(* turn of the loop over the program headers.                              *)
(*                                                                         *)
(* A header is [load, size, va, mis, kind]: whether it is of type LOAD,    *)
(* what the checks say of its sizes, its page, whether its address is in   *)
(* the middle of the page, and its flags.  Frame k is the one that         *)
(* elf_alloc_mb takes for the k-th header, 0 the one of the stack; the     *)
(* frame behind one of them, which nobody allocated, is Behind.            *)
(***************************************************************************)
EXTENDS Integers, Sequences, FiniteSets

CONSTANTS MAX_FILES,
          Headers,    \* program headers a file may have
          PhBound,    \* bound on their number
          MAX_REGIONS,   \* PGSIZE / sizeof(mapped_region)
          LastPage,   \* user pages are 0 .. LastPage
          StackPage

\* The stack is one of the pages, and a segment does not reach beyond them.  The
\* regions of a program fit into the page that mapped_info is.
ASSUME LoaderAssumption ==
    /\ MAX_FILES \in Nat /\ LastPage \in Nat /\ StackPage \in 0 .. LastPage
    /\ PhBound \in Nat /\ MAX_REGIONS \in Nat /\ PhBound + 4 <= MAX_REGIONS
    /\ \A h \in Headers :
         h.load \in BOOLEAN /\ h.mis \in BOOLEAN /\ h.va \in Nat /\ h.va < LastPage

VARIABLES pc,
          kfd, refcnt,        \* spike_files[]
          spike_fds,
          elf,                \* the program headers of the file
          i,                  \* of spike_file_init and elf_load
          f,                  \* info.f
          mapped_info, total_mapped_region,   \* of the first process
          pt                  \* its user pages

loadVars == <<pc, kfd, refcnt, spike_fds, elf, i, f, mapped_info,
              total_mapped_region, pt>>

File    == 0 .. MAX_FILES - 1
Std     == 0 .. 2
NoFile  == -1
Pages   == 0 .. LastPage
NoFrame == -1
Behind  == -2
INIT_FILE_REF == 3

LoadInit ==
    /\ pc = "m_start"
    /\ kfd = [x \in File |-> -1] /\ refcnt = [x \in File |-> 0]
    /\ spike_fds = [x \in File |-> NoFile]
    /\ elf = <<>> /\ i = 0 /\ f = NoFile
    /\ mapped_info = <<>> /\ total_mapped_region = 0
    /\ pt = [x \in Pages |-> NoFrame]

LoadPanic == /\ pc' = "panic"
             /\ UNCHANGED <<kfd, refcnt, spike_fds, elf, i, f, mapped_info,
                            total_mapped_region, pt>>
-----------------------------------------------------------------------------
\* A search that does not look at the counts.
FirstSlot(g) == g = 0

\* spike_file_get_free
GetFree(g) == refcnt[g] = 0 /\ \A x \in File : x < g => refcnt[x] # 0

\* The first descriptor that spike_file_dup finds unused.
FirstFd(d) == spike_fds[d] = NoFile /\ \A x \in File : x < d => spike_fds[x] # NoFile

\* One turn of the loop of spike_file_init; dup adds a reference.
SpikeFileInit ==
    /\ pc = "m_start"
    /\ \E g, d \in File :
         /\ GetFree(g) /\ FirstFd(d)
         /\ kfd' = [kfd EXCEPT ![g] = i]
         /\ spike_fds' = [spike_fds EXCEPT ![d] = g]
         /\ refcnt' = [refcnt EXCEPT ![g] = INIT_FILE_REF + 1]
    /\ i' = i + 1
    /\ pc' = IF i = 2 THEN "booting" ELSE pc
    /\ UNCHANGED <<elf, f, mapped_info, total_mapped_region, pt>>

\* spike_file_decref: the count after one call.
Decref(n) == IF n = 2 THEN 0 ELSE n - 1

\* load_bincode_from_host_elf without a program name.
NoArgument == pc = "load_program" /\ LoadPanic

\* spike_file_open succeeds: the host answers with the first descriptor that
\* is not open, and the file has some program headers.
Open ==
    /\ pc = "load_program"
    /\ \E g \in File :
         /\ GetFree(g)
         /\ refcnt' = [refcnt EXCEPT ![g] = INIT_FILE_REF]
         /\ kfd' = [kfd EXCEPT ![g] = 3]
         /\ f' = g
    /\ \E n \in 0 .. PhBound : elf' \in [1 .. n -> Headers]
    /\ pc' = "elf_init"
    /\ UNCHANGED <<spike_fds, i, mapped_info, total_mapped_region, pt>>

\* It fails; the slot gives one reference back, and the kernel stops.
OpenFails ==
    /\ pc = "load_program"
    /\ \E g \in File :
         /\ GetFree(g)
         /\ refcnt' = [refcnt EXCEPT ![g] = Decref(INIT_FILE_REF)]
    /\ pc' = "panic"
    /\ UNCHANGED <<kfd, spike_fds, elf, i, f, mapped_info, total_mapped_region, pt>>

\* elf_init reads the header and knows the magic number, or not.
ElfInit ==
    /\ pc = "elf_init"
    /\ \/ /\ pc' = "elf_load" /\ i' = 1
          /\ UNCHANGED <<kfd, refcnt, spike_fds, elf, f, mapped_info,
                         total_mapped_region, pt>>
       \/ LoadPanic
-----------------------------------------------------------------------------
Ph == elf[i]

\* alloc_process: the four regions every process has.  Trapframe and trap
\* vector lie outside the pages of the program, as does the empty heap.
Region(va, n, type) == [va |-> va, npages |-> n, seg_type |-> type]
FirstRegions == <<Region(StackPage, 1, "STACK"), Region(LastPage + 1, 1, "CONTEXT"),
                  Region(LastPage + 2, 1, "SYSTEM"), Region(LastPage + 3, 0, "HEAP")>>

AllocProcess ==
    /\ mapped_info' = FirstRegions /\ total_mapped_region' = 4
    /\ pt' = [pt EXCEPT ![StackPage] = 0]

\* The loop goes on behind a header that is not of type LOAD.
SkipHeader ==
    /\ pc = "elf_load" /\ i <= Len(elf) /\ ~Ph.load
    /\ i' = i + 1
    /\ UNCHANGED <<pc, kfd, refcnt, spike_fds, elf, f, mapped_info,
                   total_mapped_region, pt>>

\* map_pages with PGSIZE bytes at the address of the segment: one page, or
\* two when the address is in the middle of a page.
PagesOf(h) == IF h.mis THEN {h.va, h.va + 1} ELSE {h.va}

\* Mapping over a page in use.
MappableOver(h) == 0 \notin PagesOf(h)

\* page_walk refuses page 0, map_pages a page that is mapped.
Mappable(h) == 0 \notin PagesOf(h) /\ \A v \in PagesOf(h) : pt[v] = NoFrame

\* The two checks of elf_load, and the one of elf_alloc_mb.
SizesOK(h) == h.size = "ok"

SegType(h) == IF h.kind = "rx" THEN "CODE" ELSE "DATA"

\* A loop that looks for the last region and not behind it.
SeekLast == Len(mapped_info)

\* The first region without an address, or else the one behind the page: the
\* search looks no further, and the loader writes there.
SeekRegion == IF Len(mapped_info) < MAX_REGIONS THEN Len(mapped_info) + 1 ELSE MAX_REGIONS + 1

LoadSegment ==
    /\ pc = "elf_load" /\ i <= Len(elf) /\ Ph.load
    /\ SizesOK(Ph) /\ Mappable(Ph) /\ Ph.kind \in {"rx", "rw"}
    /\ LET j == SeekRegion
           r == Region(Ph.va, 1, SegType(Ph))
       IN  /\ pt' = [v \in Pages |->
                        IF v = Ph.va THEN i
                        ELSE IF v \in PagesOf(Ph) THEN Behind ELSE pt[v]]
           /\ mapped_info' = [k \in 1 .. SeekRegion |->
                                 IF k = j THEN r ELSE mapped_info[k]]
    /\ total_mapped_region' = total_mapped_region + 1
    /\ i' = i + 1
    /\ UNCHANGED <<pc, kfd, refcnt, spike_fds, elf, f>>

\* A read that comes back short, sizes that are refused, a page that cannot be
\* mapped or flags that are not known.
SegmentPanic ==
    /\ pc = "elf_load" /\ i <= Len(elf)
    /\ LoadPanic

\* spike_file_close: no descriptor was made for this file, so the swap finds
\* another file or none, and one reference is given back.
LoadDone ==
    /\ pc = "elf_load" /\ i > Len(elf)
    /\ refcnt' = [refcnt EXCEPT ![f] =
          IF spike_fds[kfd[f]] = f THEN Decref(Decref(@)) ELSE Decref(@)]
    /\ spike_fds' = [spike_fds EXCEPT ![kfd[f]] = IF @ = f THEN NoFile ELSE @]
    /\ pc' = "loaded"
    /\ UNCHANGED <<kfd, elf, i, f, mapped_info, total_mapped_region, pt>>

LoadNext ==
    \/ NoArgument \/ Open \/ OpenFails \/ ElfInit
    \/ SkipHeader \/ LoadSegment \/ SegmentPanic \/ LoadDone
-----------------------------------------------------------------------------
Aligned == \A k \in DOMAIN elf : elf[k].load => ~elf[k].mis

\* The regions recorded for a program whose segments begin at pages are what
\* its page table maps, at every turn of elf_load: each page of the program is
\* mapped exactly when one region has it, and the first total_mapped_region
\* regions are all there are, since do_fork looks no further.
TableMatchesRegions ==
    pc \in {"load_program", "elf_init", "elf_load", "loaded"} /\ Aligned =>
       /\ total_mapped_region = Len(mapped_info)
       /\ \A v \in Pages :
            pt[v] # NoFrame <=> Cardinality({k \in DOMAIN mapped_info : mapped_info[k].va = v}) = 1

\* A program that was loaded has every LOAD segment of its file, each in a
\* frame of its own and with the right type, and no page twice.
EverySegmentLoaded ==
    pc = "loaded" => \A k \in DOMAIN elf : elf[k].load =>
       /\ pt[elf[k].va] = k
       /\ \E r \in DOMAIN mapped_info :
            mapped_info[r] = Region(elf[k].va, 1, IF elf[k].kind = "rx" THEN "CODE" ELSE "DATA")

\* From spike_file_init on, stdin, stdout and stderr stay live in the slots
\* that their macros name, whatever is opened and closed: the kernel prints
\* through stderr even when it stops.
StdFilesKept ==
    pc # "m_start" => \A x \in Std : kfd[x] = x /\ refcnt[x] > 0 /\ spike_fds[x] = x
=============================================================================
