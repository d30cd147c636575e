----------------------------- MODULE PageTable -----------------------------
(***************************************************************************)
(* The three-level Sv39 page table of kernel/vmm.c: page_walk, map_pages   *)
(* and user_vm_unmap on one address space, by one hart or by several.      *)
(*                                                                         *)
(* page_walk installs a missing table with a compare-and-swap and clears   *)
(* it afterwards; each memory access that another hart can see is a step.  *)
(* A virtual page is its three table indices, va[2] for the directory.     *)
(* An entry is Invalid or the frame it points to: permission bits are the  *)
(* subject of module Memory.  Pages come from an allocator that keeps its  *)
(* promise, and panics when it has none left.                              *)
(***************************************************************************)
EXTENDS Integers, FiniteSets

CONSTANTS CPU,      \* harts that use the address space
          Index,    \* indices of a table (512 in the code)
          VA,       \* the virtual pages in use: functions 0 .. 2 -> Index
          Frame,    \* frames the allocator can hand out
          Root,     \* the page directory
          Invalid   \* an entry without PTE_V

ASSUME PageTableAssumption ==
    /\ VA \subseteq [0 .. 2 -> Index]
    /\ Root \notin Frame
    /\ Invalid \notin Frame \cup {Root}

VARIABLES mem,      \* contents of every frame, seen as a table
          free,     \* frames of the allocator
          pc, op, va, lvl, pt, page,   \* per hart: locals of the call, page
          new,      \* being the page to map and new the table to install
          space     \* what callers were told: the frame mapped at each page

vars == <<mem, free, pc, op, va, lvl, pt, page, new, space>>

Blank == [i \in Index |-> Invalid]

Init ==
    /\ mem = [f \in Frame \cup {Root} |-> Blank]
    /\ free = Frame
    /\ pc = [c \in CPU |-> "idle"]
    /\ op = [c \in CPU |-> "map"]
    /\ va \in [CPU -> {CHOOSE v \in VA : TRUE}]
    /\ lvl = [c \in CPU |-> 2]
    /\ pt = [c \in CPU |-> Root]
    /\ page = [c \in CPU |-> Invalid]
    /\ new = [c \in CPU |-> Invalid]
    /\ space = [v \in VA |-> Invalid]

Goto(c, l) == pc' = [pc EXCEPT ![c] = l]

\* The entry of the current level that hart c looks at.
Entry(c) == mem[pt[c]][va[c][lvl[c]]]

SetEntry(c, e) == [mem EXCEPT ![pt[c]][va[c][lvl[c]]] = e]

\* The walk starts at the directory.
StartWalk(c, o, v) ==
    /\ pc[c] = "idle"
    /\ Goto(c, "walk")
    /\ op' = [op EXCEPT ![c] = o]
    /\ va' = [va EXCEPT ![c] = v]
    /\ lvl' = [lvl EXCEPT ![c] = 2]
    /\ pt' = [pt EXCEPT ![c] = Root]
    /\ UNCHANGED <<mem, new, space>>

Descend(c, table) ==
    /\ pt' = [pt EXCEPT ![c] = table]
    /\ lvl' = [lvl EXCEPT ![c] = @ - 1]

Finish(c) ==
    /\ Goto(c, "idle")
    /\ page' = [page EXCEPT ![c] = Invalid]
    /\ UNCHANGED <<op, va, lvl, pt, new>>
-----------------------------------------------------------------------------
\* A page is allocated and mapped with user_vm_map.  Harts that share the
\* address space work on different pages of it.
MapCall(c, v) ==
    /\ \A d \in CPU : pc[d] = "idle" \/ va[d] # v
    /\ \E f \in free :
         /\ page' = [page EXCEPT ![c] = f]
         /\ free' = free \ {f}
    /\ StartWalk(c, "map", v)

\* user_vm_unmap(..., free = 1).
UnmapCall(c, v) ==
    /\ \A d \in CPU : pc[d] = "idle" \/ va[d] # v
    /\ StartWalk(c, "unmap", v)
    /\ UNCHANGED <<free, page>>

\* The entry is valid: on to the next level.
Follow(c) ==
    /\ pc[c] = "walk" /\ lvl[c] > 0
    /\ Entry(c) # Invalid
    /\ Descend(c, Entry(c))
    /\ UNCHANGED <<mem, free, pc, op, va, page, new, space>>

\* No entry, alloc = 1: a page for the next table.  What it contains is left
\* over from its last use.
AllocTable(c) ==
    /\ pc[c] = "walk" /\ lvl[c] > 0 /\ op[c] = "map"
    /\ Entry(c) = Invalid
    /\ \E f \in free, left \in Frame \cup {Invalid} :
         /\ free' = free \ {f}
         /\ mem' = [mem EXCEPT ![f] = [i \in Index |-> left]]
         /\ new' = [new EXCEPT ![c] = f]
    /\ Goto(c, "cas")
    /\ UNCHANGED <<op, va, lvl, pt, page, space>>

\* buddy_alloc panics: there is no page for the table.
AllocPanic(c) ==
    /\ pc[c] = "walk" /\ lvl[c] > 0 /\ op[c] = "map"
    /\ Entry(c) = Invalid
    /\ free = {}
    /\ Goto(c, "oom")
    /\ UNCHANGED <<mem, free, op, va, lvl, pt, page, new, space>>

\* The compare-and-swap on an entry that is still 0.
Install(c) ==
    /\ pc[c] = "cas"
    /\ Entry(c) = Invalid
    /\ mem' = SetEntry(c, new[c])
    /\ Descend(c, new[c])
    /\ Goto(c, "clear")
    /\ UNCHANGED <<free, op, va, page, new, space>>

\* It fails: another hart was first; give the page back and use its table.
InstallLost(c) ==
    /\ pc[c] = "cas"
    /\ Entry(c) # Invalid
    /\ free' = free \cup {new[c]}
    /\ new' = [new EXCEPT ![c] = Invalid]
    /\ Descend(c, Entry(c))
    /\ Goto(c, "walk")
    /\ UNCHANGED <<mem, op, va, page, space>>

\* A walk that uses the new table as it is.
Uncleared(f) == mem

\* memset(pt, 0, PGSIZE).
Cleared(f) == [mem EXCEPT ![f] = Blank]

Clear(c) ==
    /\ pc[c] = "clear"
    /\ mem' = Cleared(new[c])
    /\ new' = [new EXCEPT ![c] = Invalid]
    /\ Goto(c, "walk")
    /\ UNCHANGED <<free, op, va, lvl, pt, page, space>>
-----------------------------------------------------------------------------
\* map_pages goes on only at a leaf without PTE_V.
MapAllowed(c) == Entry(c) = Invalid

\* map_pages stores the leaf entry.
MapStore(c) ==
    /\ pc[c] = "walk" /\ lvl[c] = 0 /\ op[c] = "map"
    /\ MapAllowed(c)
    /\ mem' = SetEntry(c, page[c])
    /\ space' = [space EXCEPT ![va[c]] = page[c]]
    /\ Finish(c)
    /\ UNCHANGED free

\* "map_pages fails on mapping va": the leaf is already valid.
MapPanic(c) ==
    /\ pc[c] = "walk" /\ lvl[c] = 0 /\ op[c] = "map"
    /\ ~MapAllowed(c)
    /\ Goto(c, "panic")
    /\ UNCHANGED <<mem, free, op, va, lvl, pt, page, new, space>>

\* An unmap that frees the page and leaves the entry.
UnmapKeepsEntry(c) == mem

\* *pte = 0.
UnmapEntry(c) == SetEntry(c, Invalid)

\* user_vm_unmap frees the page and clears the leaf.
UnmapStore(c) ==
    /\ pc[c] = "walk" /\ lvl[c] = 0 /\ op[c] = "unmap"
    /\ Entry(c) # Invalid
    /\ free' = free \cup {Entry(c)}
    /\ mem' = UnmapEntry(c)
    /\ space' = [space EXCEPT ![va[c]] = Invalid]
    /\ Finish(c)

\* No leaf, or no table above it: user_vm_unmap skips the page.
UnmapSkip(c) ==
    /\ pc[c] = "walk" /\ op[c] = "unmap"
    /\ Entry(c) = Invalid
    /\ space' = [space EXCEPT ![va[c]] = Invalid]
    /\ Finish(c)
    /\ UNCHANGED <<mem, free>>

Step(c) ==
    \/ \E v \in VA : MapCall(c, v) \/ UnmapCall(c, v)
    \/ Follow(c) \/ AllocTable(c) \/ AllocPanic(c) \/ Install(c) \/ Clear(c)
    \/ MapStore(c) \/ MapPanic(c) \/ UnmapStore(c) \/ UnmapSkip(c)

\* One hart at a time, as with NCPU = 1: no other hart can be first.
NextAlone == \E c \in CPU : Step(c)

Next == \E c \in CPU : Step(c) \/ InstallLost(c)

SpecAlone == Init /\ [][NextAlone]_vars

Spec == Init /\ [][Next]_vars
-----------------------------------------------------------------------------
\* A table between its installation and its memset.
Dirty(f) == \E c \in CPU : pc[c] = "clear" /\ new[c] = f

\* The entry at index i of table t; an absent or a dirty table has none.
At(t, i) == IF t = Invalid \/ Dirty(t) THEN Invalid ELSE mem[t][i]

\* The frame the hardware finds for v.
Translate(v) == At(At(At(Root, v[2]), v[1]), v[0])

\* At every step the tables translate exactly the pages that map_pages has
\* mapped and user_vm_unmap has not unmapped, each to its own frame.
TranslationExact == \A v \in VA : Translate(v) = space[v]

\* The tables in use, the directory included.
Tables ==
    LET ups(ts) == {At(t, i) : t \in ts, i \in Index} \ {Invalid} IN
    {Root} \cup ups({Root}) \cup ups(ups({Root}))

\* No frame has two uses and none is lost: each is free, or linked from one
\* entry of one table (as a table or as a mapped page), or in the hands of one
\* running call.
OneUse ==
    \A f \in Frame :
       LET links == {x \in Tables \X Index : At(x[1], x[2]) = f}
           hands == {c \in CPU : page[c] = f}
           tables == {c \in CPU : pc[c] = "cas" /\ new[c] = f}
           held == Cardinality(links) + Cardinality(hands) + Cardinality(tables)
       IN  held + (IF f \in free THEN 1 ELSE 0) = 1

\* map_pages panics only when its caller maps a page that is already mapped.
PanicOnlyOnRemap == \A c \in CPU : pc[c] = "panic" => space[va[c]] # Invalid

\* What the hardware finds for v, whoever is still busy with a table.
Hardware(v) ==
    LET at(t, i) == IF t = Invalid THEN Invalid ELSE mem[t][i]
    IN  at(at(at(Root, v[2]), v[1]), v[0])

\* Harts that map different pages of one address space at the same time all
\* end up in the same tables: a mapping that was made is still there (the
\* comment in page_walk at the failed compare-and-swap).
MappingsKept == \A v \in VA : space[v] # Invalid => Hardware(v) = space[v]
=============================================================================
