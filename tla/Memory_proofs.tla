--------------------------- MODULE Memory_proofs ---------------------------
(***************************************************************************)
(* The heap managers and the page permissions of module Memory, for any    *)
(* number of processes, frames and heap pages.                             *)
(*                                                                         *)
(* HeapListSound and NoStuckPage are inductive together with the types:    *)
(* every action changes the entries of one process at a few addresses, and *)
(* a fork copies list, top and mapped pages of the same process.  With     *)
(* them, HeapsComplete follows from the fact that only the first process   *)
(* gets through a fork.  RefCoversSharers is inductive on top of these: it *)
(* counts the entries of all page tables, and every action moves at most   *)
(* one place of a frame, except fork, which counts what it adds.           *)
(***************************************************************************)
EXTENDS Memory, FiniteSetTheorems, TLAPS

Leaf == [f : Frame \cup {CodeFrame, DataFrame, NoFrame}, perm : {"W", "COW", "R", "-"}]

MemTypeOK ==
    /\ pte \in [Pid -> [VA -> Leaf]]
    /\ heap_top \in [Pid -> 0 .. HeapBound]
    /\ free_pages \in [Pid -> Seq(Heap)]
    /\ strayed \in [Pid -> BOOLEAN]
    /\ ready_queue \in Seq(Pid)
    /\ machine = "on" => current \in Pid

MemInv == MemTypeOK /\ HeapListSound /\ NoStuckPage

\* The parts of HeapListSound, for one process.
Distinct(s) == \A i, j \in DOMAIN s : s[i] = s[j] => i = j
Reclaimed(s, top, e) == \A i \in DOMAIN s : s[i] < top /\ e[s[i]].f = NoFrame
NoneAbove(top, e) == \A va \in Heap : va >= top => e[va].f = NoFrame
NotStuck(e) ==
    \A va \in Heap \cup {Stack} : e[va].f # NoFrame => e[va].perm \in {"W", "COW"}

\* b: the process has strayed.
Good(b, s, top, e) ==
    /\ ~b => Distinct(s) /\ Reclaimed(s, top, e)
    /\ NoneAbove(top, e) /\ NotStuck(e)

\* The two properties say that every process is good.
LEMMA GoodIsSound ==
    HeapListSound /\ NoStuckPage <=> \A p \in Pid : Good(strayed[p], free_pages[p], heap_top[p], pte[p])
BY DEF HeapListSound, NoStuckPage, Good, Distinct, Reclaimed, NoneAbove, NotStuck, Mapped, Listed

LEMMA GoodIsSoundNext ==
    (HeapListSound /\ NoStuckPage)'
       <=> \A p \in Pid : Good(strayed'[p], free_pages'[p], heap_top'[p], pte'[p])
BY DEF HeapListSound, NoStuckPage, Good, Distinct, Reclaimed, NoneAbove, NotStuck, Mapped, Listed

\* What the list operations of the heap manager leave in the list.
LEMMA ListOps ==
    ASSUME NEW s \in Seq(Heap)
    PROVE  /\ s # <<>> => /\ Len(s) \in DOMAIN s
                          /\ SubSeq(s, 1, Len(s) - 1) \in Seq(Heap)
                          /\ DOMAIN SubSeq(s, 1, Len(s) - 1) = 1 .. Len(s) - 1
                          /\ \A i \in 1 .. Len(s) - 1 : SubSeq(s, 1, Len(s) - 1)[i] = s[i]
           /\ DOMAIN s = 1 .. Len(s) /\ Len(s) \in Nat
           /\ \A va \in Heap : /\ Append(s, va) \in Seq(Heap)
                               /\ DOMAIN Append(s, va) = 1 .. Len(s) + 1
                               /\ Append(s, va)[Len(s) + 1] = va
                               /\ \A i \in 1 .. Len(s) : Append(s, va)[i] = s[i]
OBVIOUS

\* Actions that leave page tables and heap managers alone.
LEMMA QuietKeeps ==
    ASSUME MemInv, UNCHANGED <<pte, heaps>>, ready_queue' \in Seq(Pid),
           machine' = "on" => current' \in Pid
    PROVE  MemInv'
BY DEF MemInv, MemTypeOK, HeapListSound, NoStuckPage, Mapped, Listed, heaps
-----------------------------------------------------------------------------
\* schedule() on a queue of processes.
LEMMA ScheduleTypes ==
    ASSUME NEW st, NEW q \in Seq(Pid), P!Schedule(st, q), ready_queue \in Seq(Pid)
    PROVE  ready_queue' \in Seq(Pid) /\ (machine' = "on" => current' \in Pid)
<1>1. CASE q = <<>>
  BY <1>1 DEF P!Schedule
<1>2. CASE q # <<>>
  <2>1. Head(q) \in Pid /\ Tail(q) \in Seq(Pid)
    BY <1>2
  <2> QED
    BY Zenon, <1>2, <2>1 DEF P!Schedule
<1> QED
  BY <1>1, <1>2

LEMMA InsertTypes ==
    ASSUME NEW q \in Seq(Pid), NEW p \in Pid
    PROVE  P!Insert(q, p) \in Seq(Pid)
BY DEF P!Insert

LEMMA ExitKeeps == ASSUME MemInv, Exit PROVE MemInv'
<1>1. ready_queue' \in Seq(Pid) /\ (machine' = "on" => current' \in Pid)
  BY ScheduleTypes DEF Exit, P!Exit, MemInv, MemTypeOK
<1> QED
  BY <1>1, QuietKeeps DEF Exit, memory

LEMMA StopKeeps ==
  ASSUME MemInv, P!Panic \/ P!Stop("lost"), UNCHANGED memory
  PROVE  MemInv'
BY QuietKeeps DEF P!Panic, P!Stop, MemInv, MemTypeOK, memory

LEMMA BootKeeps == ASSUME MemInv, Boot PROVE MemInv'
<1>1. ready_queue' \in Seq(Pid) /\ (machine' = "on" => current' \in Pid)
  <2>1. PICK p \in Pid :
          P!Schedule([status EXCEPT ![p] = "READY"], P!Insert(ready_queue, p))
    BY Zenon DEF Boot, P!Boot, Pid, P!Pid
  <2>2. P!Insert(ready_queue, p) \in Seq(Pid)
    BY InsertTypes DEF MemInv, MemTypeOK
  <2> QED
    BY <2>1, <2>2, ScheduleTypes DEF MemInv, MemTypeOK
<1>2. PICK f \in Frame :
        pte' = [pte EXCEPT ![current'][Stack] = Page(f),
                           ![current'][Data] = Page(DataFrame),
                           ![current'][Code] = Page(CodeFrame)]
  BY Zenon DEF Boot
<1>3. free_pages' = free_pages /\ heap_top' = heap_top /\ strayed' = strayed
  BY DEF Boot, heaps
<1>4. \A p \in Pid : /\ pte'[p] \in [VA -> Leaf]
                     /\ \A va \in Heap : pte'[p][va] = pte[p][va]
                     /\ pte'[p][Stack] = pte[p][Stack] \/ pte'[p][Stack] = Page(f)
  <2> SUFFICES ASSUME NEW p \in Pid
               PROVE  /\ pte'[p] \in [VA -> Leaf]
                      /\ \A va \in Heap : pte'[p][va] = pte[p][va]
                      /\ pte'[p][Stack] = pte[p][Stack] \/ pte'[p][Stack] = Page(f)
    OBVIOUS
  <2>1. /\ Page(f) \in Leaf /\ Page(DataFrame) \in Leaf /\ Page(CodeFrame) \in Leaf
        /\ pte[p] \in [VA -> Leaf] /\ pte \in [Pid -> [VA -> Leaf]]
    BY DEF Leaf, Page, MemInv, MemTypeOK
  <2>2. pte'[p] = IF p = current'
                  THEN [pte[p] EXCEPT ![Stack] = Page(f), ![Data] = Page(DataFrame),
                                      ![Code] = Page(CodeFrame)]
                  ELSE pte[p]
    BY Zenon, <1>2, <2>1
  <2>3. Stack \in VA /\ Heap \subseteq VA /\ Stack \notin Heap /\ Data \notin Heap /\ Code \notin Heap
        /\ Stack # Data /\ Stack # Code
    BY DEF VA, Heap, Stack, Data, Code
  <2> HIDE DEF Leaf, Page, VA, Heap, Stack, Data, Code
  <2> QED
    BY Zenon, <2>1, <2>2, <2>3
<1>5. pte' \in [Pid -> [VA -> Leaf]]
  BY Zenon, <1>2, <1>4 DEF MemInv, MemTypeOK
<1>6. \A p \in Pid : Good(strayed'[p], free_pages'[p], heap_top'[p], pte'[p])
  <2> SUFFICES ASSUME NEW p \in Pid
               PROVE  Good(strayed'[p], free_pages'[p], heap_top'[p], pte'[p])
    OBVIOUS
  <2>1. Good(strayed[p], free_pages[p], heap_top[p], pte[p]) /\ free_pages[p] \in Seq(Heap)
    BY GoodIsSound DEF MemInv, MemTypeOK
  <2>2. \A i \in DOMAIN free_pages[p] : free_pages[p][i] \in Heap
    BY <2>1
  <2> QED
    BY <1>3, <1>4, <2>1, <2>2 DEF Good, Distinct, Reclaimed, NoneAbove, NotStuck, Page
<1> QED
  BY <1>1, <1>3, <1>5, <1>6, GoodIsSoundNext DEF MemInv, MemTypeOK
-----------------------------------------------------------------------------
\* One entry of the current process changes, its list and its top perhaps.
LEMMA OneEntry ==
    ASSUME MemInv, machine = "on", NEW va \in VA, NEW e \in Leaf,
           NEW s \in Seq(Heap), NEW top \in 0 .. HeapBound, NEW b \in BOOLEAN,
           pte' = [pte EXCEPT ![current][va] = e],
           free_pages' = [free_pages EXCEPT ![current] = s],
           heap_top' = [heap_top EXCEPT ![current] = top],
           strayed' = [strayed EXCEPT ![current] = b],
           Good(b, s, top, [pte[current] EXCEPT ![va] = e]),
           UNCHANGED procs
    PROVE  MemInv'
<1>1. /\ current \in Pid /\ pte \in [Pid -> [VA -> Leaf]]
      /\ free_pages \in [Pid -> Seq(Heap)] /\ heap_top \in [Pid -> 0 .. HeapBound]
      /\ strayed \in [Pid -> BOOLEAN]
  BY DEF MemInv, MemTypeOK
<1>2. \A p \in Pid : pte'[p] = IF p = current THEN [pte[p] EXCEPT ![va] = e] ELSE pte[p]
  BY Zenon, <1>1
<1>3. /\ pte' \in [Pid -> [VA -> Leaf]]
      /\ free_pages' \in [Pid -> Seq(Heap)] /\ heap_top' \in [Pid -> 0 .. HeapBound]
      /\ strayed' \in [Pid -> BOOLEAN]
  BY <1>1
<1>4. \A p \in Pid : Good(strayed'[p], free_pages'[p], heap_top'[p], pte'[p])
  <2>1. \A p \in Pid : Good(strayed[p], free_pages[p], heap_top[p], pte[p])
    BY GoodIsSound DEF MemInv
  <2> QED
    BY Zenon, <1>1, <1>2, <2>1
<1>5. (HeapListSound /\ NoStuckPage)'
  BY <1>4, GoodIsSoundNext
<1> QED
  BY <1>1, <1>3, <1>5 DEF MemInv, MemTypeOK, procs

\* What is known of the current process.
LEMMA CurrentGood ==
    ASSUME MemInv, machine = "on"
    PROVE  /\ current \in Pid
           /\ pte \in [Pid -> [VA -> Leaf]] /\ pte[current] \in [VA -> Leaf]
           /\ free_pages \in [Pid -> Seq(Heap)] /\ free_pages[current] \in Seq(Heap)
           /\ heap_top \in [Pid -> 0 .. HeapBound] /\ heap_top[current] \in 0 .. HeapBound
           /\ strayed \in [Pid -> BOOLEAN] /\ strayed[current] \in BOOLEAN
           /\ Good(strayed[current], free_pages[current], heap_top[current], pte[current])
BY GoodIsSound DEF MemInv, MemTypeOK

LEMMA PageIsLeaf == \A f \in Frame : Page(f) \in Leaf /\ Page(f).f # NoFrame /\ Page(f).perm = "W"
BY MemoryAssumption DEF Page, Leaf

LEMMA HeapInVA == Heap \subseteq VA /\ Heap \subseteq Int /\ Stack \in VA /\ Stack \notin Heap
BY MemoryAssumption DEF Heap, VA, Stack

LEMMA StorableInVA == Storable \subseteq VA /\ Heap \subseteq VA /\ Code \notin Storable
BY MemoryAssumption DEF Storable, Heap, VA, Stack, Data, Code

LEMMA MallocReuseKeeps == ASSUME MemInv, MallocReuse PROVE MemInv'
<1> DEFINE s == free_pages[current]
           t == SubSeq(s, 1, Len(s) - 1)
           top == heap_top[current]
           va == s[Len(s)]
           b == strayed[current]
<1>1. machine = "on" /\ s # <<>> /\ Target(current) = va /\ va < top
  BY DEF MallocReuse, MapHeapPage, Mappable, BelowTop, Target
<1>2. /\ current \in Pid /\ pte[current] \in [VA -> Leaf] /\ s \in Seq(Heap)
      /\ heap_top \in [Pid -> 0 .. HeapBound] /\ top \in 0 .. HeapBound
      /\ strayed \in [Pid -> BOOLEAN] /\ b \in BOOLEAN
      /\ Good(b, s, top, pte[current])
  BY <1>1, CurrentGood
<1>3. PICK f \in Frame : pte' = [pte EXCEPT ![current][va] = Page(f)]
  BY Zenon, <1>1 DEF MallocReuse, MapHeapPage
<1>4. /\ Len(s) \in DOMAIN s /\ t \in Seq(Heap) /\ DOMAIN t = 1 .. Len(s) - 1
      /\ \A i \in 1 .. Len(s) - 1 : t[i] = s[i]
      /\ DOMAIN s = 1 .. Len(s) /\ Len(s) \in Nat
  BY <1>1, <1>2, ListOps
<1>5. va \in Heap /\ va \in VA
  <2>1. va \in Heap
    BY <1>2, <1>4
  <2> QED
    BY Zenon, <2>1, HeapInVA
<1>6. free_pages' = [free_pages EXCEPT ![current] = t]
  BY DEF MallocReuse, Reuse
<1>7. heap_top' = [heap_top EXCEPT ![current] = top] /\ strayed' = [strayed EXCEPT ![current] = b]
  BY <1>2 DEF MallocReuse
<1>8. Page(f) \in Leaf /\ Page(f).f # NoFrame /\ Page(f).perm = "W"
  BY PageIsLeaf
<1> DEFINE e == [pte[current] EXCEPT ![va] = Page(f)]
<1>9. \A x \in VA : e[x] = IF x = va THEN Page(f) ELSE pte[current][x]
  BY <1>2
<1>10. Good(b, t, top, e)
  <2>1. /\ ~b => Distinct(s) /\ Reclaimed(s, top, pte[current])
        /\ NoneAbove(top, pte[current]) /\ NotStuck(pte[current])
    BY <1>2 DEF Good
  <2>2. \A i \in DOMAIN t : i \in DOMAIN s /\ t[i] = s[i] /\ i # Len(s) /\ t[i] \in Heap
    BY <1>2, <1>4
  <2>3. ~b => Distinct(t)
    BY <2>1, <2>2 DEF Distinct
  <2>4. \A i \in DOMAIN t : (~b => t[i] # va) /\ t[i] \in VA
    BY Zenon, <1>4, <2>1, <2>2, HeapInVA DEF Distinct
  <2>5. ~b => Reclaimed(t, top, e)
    BY Zenon, <1>9, <2>1, <2>2, <2>4 DEF Reclaimed
  <2>6. NoneAbove(top, e)
    BY <1>2, <1>1, <1>5, <1>9, <2>1, HeapInVA DEF NoneAbove
  <2>7. NotStuck(e)
    BY <1>8, <1>9, <2>1, HeapInVA DEF NotStuck
  <2> QED
    BY <2>3, <2>5, <2>6, <2>7 DEF Good
<1>11. UNCHANGED procs
  BY DEF MallocReuse, MapHeapPage
<1> HIDE DEF s, t, top, va, b, e
<1> QED
  BY Zenon, <1>1, <1>2, <1>3, <1>4, <1>5, <1>6, <1>7, <1>8, <1>10, <1>11, OneEntry DEF e

LEMMA MallocGrowKeeps == ASSUME MemInv, MallocGrow PROVE MemInv'
<1> DEFINE s == free_pages[current]
           top == heap_top[current]
           b == strayed[current]
<1>1. machine = "on" /\ s = <<>> /\ Target(current) = top /\ top < HeapBound
  BY DEF MallocGrow, Target
<1>2. /\ current \in Pid /\ pte[current] \in [VA -> Leaf] /\ s \in Seq(Heap)
      /\ free_pages \in [Pid -> Seq(Heap)] /\ heap_top \in [Pid -> 0 .. HeapBound]
      /\ strayed \in [Pid -> BOOLEAN] /\ b \in BOOLEAN
      /\ top \in 0 .. HeapBound /\ Good(b, s, top, pte[current])
  BY <1>1, CurrentGood
<1>3. PICK f \in Frame : pte' = [pte EXCEPT ![current][top] = Page(f)]
  BY Zenon, <1>1 DEF MallocGrow, MapHeapPage
<1>4. top \in Heap /\ top \in VA /\ top + 1 \in 0 .. HeapBound
  BY <1>1, <1>2, MemoryAssumption DEF Heap, VA
<1>5. free_pages' = [free_pages EXCEPT ![current] = s]
  BY <1>2 DEF MallocGrow
<1>6. /\ heap_top' = [heap_top EXCEPT ![current] = top + 1]
      /\ strayed' = [strayed EXCEPT ![current] = b]
  BY <1>2 DEF MallocGrow
<1>7. Page(f) \in Leaf /\ Page(f).f # NoFrame /\ Page(f).perm = "W"
  BY PageIsLeaf
<1> DEFINE e == [pte[current] EXCEPT ![top] = Page(f)]
<1>8. \A x \in VA : e[x] = IF x = top THEN Page(f) ELSE pte[current][x]
  BY <1>2
<1>9. Good(b, s, top + 1, e)
  <2>1. NoneAbove(top, pte[current]) /\ NotStuck(pte[current])
    BY <1>2 DEF Good
  <2>2. DOMAIN s = {}
    BY <1>1
  <2>3. Distinct(s) /\ Reclaimed(s, top + 1, e)
    BY <2>2 DEF Distinct, Reclaimed
  <2>4. NoneAbove(top + 1, e)
    <3> SUFFICES ASSUME NEW x \in Heap, x >= top + 1 PROVE e[x].f = NoFrame
      BY DEF NoneAbove
    <3>1. x \in VA /\ x \in Int /\ top \in Int
      BY Zenon, <1>4, HeapInVA
    <3>2. x # top /\ x >= top
      BY <3>1
    <3> QED
      BY <1>8, <2>1, <3>1, <3>2 DEF NoneAbove
  <2>5. NotStuck(e)
    BY <1>7, <1>8, <2>1, HeapInVA DEF NotStuck
  <2> QED
    BY <2>3, <2>4, <2>5 DEF Good
<1>10. UNCHANGED procs
  BY DEF MallocGrow, MapHeapPage
<1> HIDE DEF s, top, b, e
<1> QED
  BY Zenon, <1>1, <1>2, <1>3, <1>4, <1>5, <1>6, <1>7, <1>9, <1>10, OneEntry DEF e

LEMMA FreePageKeeps == ASSUME MemInv, NEW va \in Heap, FreePage(va) PROVE MemInv'
<1> DEFINE s == free_pages[current]
           t == Append(s, va)
           top == heap_top[current]
           e == [pte[current] EXCEPT ![va] = Absent]
           b == strayed[current] \/ va \notin Owned(current)
<1>1. machine = "on"
  BY DEF FreePage
<1>2. /\ current \in Pid /\ pte[current] \in [VA -> Leaf] /\ s \in Seq(Heap)
      /\ free_pages \in [Pid -> Seq(Heap)] /\ heap_top \in [Pid -> 0 .. HeapBound]
      /\ strayed \in [Pid -> BOOLEAN]
      /\ top \in 0 .. HeapBound /\ Good(strayed[current], s, top, pte[current])
  BY <1>1, CurrentGood
<1>3. ~b => va < top /\ va \notin Listed(current) /\ ~strayed[current]
  BY <1>2 DEF Owned
<1>4. /\ t \in Seq(Heap) /\ DOMAIN t = 1 .. Len(s) + 1 /\ t[Len(s) + 1] = va
      /\ \A i \in 1 .. Len(s) : t[i] = s[i]
      /\ DOMAIN s = 1 .. Len(s) /\ Len(s) \in Nat
  BY <1>2, ListOps
<1>5. /\ free_pages' = [free_pages EXCEPT ![current] = t]
      /\ strayed' = [strayed EXCEPT ![current] = b] /\ b \in BOOLEAN
  BY Zenon DEF FreePage
<1>6. heap_top' = [heap_top EXCEPT ![current] = top]
  BY <1>2 DEF FreePage
<1>7. Absent \in Leaf /\ Absent.f = NoFrame
  BY DEF Absent, Leaf
<1>8. \A x \in VA : e[x] = IF x = va THEN Absent ELSE pte[current][x]
  BY <1>2
<1> HIDE DEF b
<1>9. Good(b, t, top, e)
  <2>1. /\ ~b => Distinct(s) /\ Reclaimed(s, top, pte[current])
        /\ NoneAbove(top, pte[current]) /\ NotStuck(pte[current])
    BY <1>2, <1>3 DEF Good
  <2>2. ASSUME ~b PROVE Distinct(t) /\ Reclaimed(t, top, e)
    <3>1. \A i \in DOMAIN s : s[i] # va /\ s[i] \in Heap
      BY <1>2, <1>3, <2>2 DEF Listed
    <3>2. Distinct(t)
      BY SMTT(30), <1>4, <2>1, <2>2, <3>1 DEF Distinct
    <3>3. \A i \in DOMAIN s : s[i] < top /\ e[s[i]].f = NoFrame
      BY <1>8, <2>1, <2>2, <3>1, HeapInVA DEF Reclaimed
    <3>4. e[va].f = NoFrame
      BY <1>7, <1>8, HeapInVA
    <3>5. Reclaimed(t, top, e)
      BY <1>3, <1>4, <2>2, <3>3, <3>4 DEF Reclaimed
    <3> QED
      BY <3>2, <3>5
  <2>3. NoneAbove(top, e)
    BY <1>7, <1>8, <2>1, HeapInVA DEF NoneAbove
  <2>4. NotStuck(e)
    BY <1>7, <1>8, <2>1, HeapInVA DEF NotStuck
  <2> QED
    BY Zenon, <2>2, <2>3, <2>4 DEF Good
<1>10. UNCHANGED procs /\ pte' = [pte EXCEPT ![current][va] = Absent] /\ va \in VA
  BY HeapInVA DEF FreePage
<1> HIDE DEF s, t, top, e
<1> QED
  BY Zenon, <1>1, <1>2, <1>4, <1>5, <1>6, <1>7, <1>9, <1>10, OneEntry DEF e
-----------------------------------------------------------------------------
\* A fault gives the program a writable page where it had one.
LEMMA FaultEntry ==
    ASSUME MemInv, machine = "on", NEW va \in Storable, Mapped(current, va),
           NEW x \in Leaf, x.perm = "W",
           pte' = [pte EXCEPT ![current][va] = x],
           UNCHANGED <<procs, heaps>>
    PROVE  MemInv'
<1> DEFINE s == free_pages[current]
           top == heap_top[current]
           b == strayed[current]
           e == [pte[current] EXCEPT ![va] = x]
<1>1. /\ current \in Pid /\ pte[current] \in [VA -> Leaf] /\ s \in Seq(Heap)
      /\ free_pages \in [Pid -> Seq(Heap)] /\ heap_top \in [Pid -> 0 .. HeapBound]
      /\ strayed \in [Pid -> BOOLEAN] /\ b \in BOOLEAN
      /\ top \in 0 .. HeapBound /\ Good(b, s, top, pte[current])
  BY CurrentGood
<1>2. \A y \in VA : e[y] = IF y = va THEN x ELSE pte[current][y]
  BY <1>1
<1>3. va \in VA
  BY StorableInVA
<1>4. Good(b, s, top, e)
  <2>1. /\ ~b => Distinct(s) /\ Reclaimed(s, top, pte[current])
        /\ NoneAbove(top, pte[current]) /\ NotStuck(pte[current])
    BY <1>1 DEF Good
  <2>2. \A i \in DOMAIN s : (~b => s[i] # va) /\ s[i] \in Heap
    BY <1>1, <2>1 DEF Reclaimed, Mapped
  <2>3. ~b => Reclaimed(s, top, e)
    BY <1>2, <2>1, <2>2, HeapInVA DEF Reclaimed
  <2>4. NoneAbove(top, e)
    <3> SUFFICES ASSUME NEW y \in Heap, y >= top PROVE e[y].f = NoFrame
      BY DEF NoneAbove
    <3>1. y # va /\ y \in VA
      BY <2>1, HeapInVA DEF NoneAbove, Mapped
    <3> QED
      BY <1>2, <2>1, <3>1 DEF NoneAbove
  <2>5. NotStuck(e)
    BY <1>2, <2>1, HeapInVA DEF NotStuck
  <2> QED
    BY <2>1, <2>3, <2>4, <2>5 DEF Good
<1>5. /\ free_pages' = [free_pages EXCEPT ![current] = s]
      /\ heap_top' = [heap_top EXCEPT ![current] = top]
      /\ strayed' = [strayed EXCEPT ![current] = b]
  BY <1>1 DEF heaps
<1> HIDE DEF s, top, b, e
<1> QED
  BY Zenon, <1>1, <1>3, <1>4, <1>5, OneEntry DEF e

LEMMA FaultCopyKeeps == ASSUME MemInv, NEW va \in Storable, FaultCopy(va) PROVE MemInv'
<1>1. PICK f \in Frame : pte' = [pte EXCEPT ![current][va] = Page(f)]
  BY Zenon DEF FaultCopy
<1>2. machine = "on" /\ Mapped(current, va) /\ UNCHANGED <<procs, heaps>>
  BY DEF FaultCopy, Cow, Mapped
<1>3. Page(f) \in Leaf /\ Page(f).perm = "W"
  BY PageIsLeaf
<1> QED
  BY Zenon, <1>1, <1>2, <1>3, FaultEntry

LEMMA FaultClaimKeeps == ASSUME MemInv, NEW va \in Storable, FaultClaim(va) PROVE MemInv'
<1> DEFINE x == [pte[current][va] EXCEPT !.perm = "W"]
<1>1. machine = "on" /\ Mapped(current, va) /\ UNCHANGED <<procs, heaps>>
  BY DEF FaultClaim, Cow, Mapped
<1>2. pte' = [pte EXCEPT ![current][va] = x]
  BY DEF FaultClaim
<1>3. \A y \in Leaf : [y EXCEPT !.perm = "W"] \in Leaf /\ [y EXCEPT !.perm = "W"].perm = "W"
  BY DEF Leaf
<1>4. pte[current][va] \in Leaf
  BY <1>1, CurrentGood, StorableInVA
<1>5. x \in Leaf /\ x.perm = "W"
  BY <1>3, <1>4
<1> HIDE DEF x
<1> QED
  BY Zenon, <1>1, <1>2, <1>5, FaultEntry
-----------------------------------------------------------------------------
\* do_fork: the child has the list and the top of its parent, and no heap page
\* that the parent does not map.
LEMMA ForkKeeps == ASSUME MemInv, Fork PROVE MemInv'
<1> DEFINE sh == Shared(current)
           par == [va \in VA |-> IF va \in sh THEN Share(pte[current][va]) ELSE pte[current][va]]
           kid == [va \in VA |->
                     IF va \in sh THEN Share(pte[current][va])
                     ELSE IF va = Code THEN [pte[current][Code] EXCEPT !.perm = "R"]
                     ELSE Absent]
<1>1. machine = "on" /\ machine' = "on" /\ current' = current
  BY DEF Fork, P!Fork
<1>2. /\ current \in Pid /\ pte \in [Pid -> [VA -> Leaf]] /\ pte[current] \in [VA -> Leaf]
      /\ free_pages \in [Pid -> Seq(Heap)] /\ heap_top \in [Pid -> 0 .. HeapBound]
      /\ strayed \in [Pid -> BOOLEAN]
      /\ Good(strayed[current], free_pages[current], heap_top[current], pte[current])
  BY <1>1, CurrentGood
<1>3. ready_queue' \in Seq(Pid)
  <2>1. PICK c \in Pid : ready_queue' = P!Insert(ready_queue, c)
    BY DEF Fork, P!Fork, Pid, P!Pid
  <2> QED
    BY <2>1, InsertTypes DEF MemInv, MemTypeOK
<1>4. PICK child \in Pid :
        /\ pte' = [pte EXCEPT ![current] = par, ![child] = kid]
        /\ heap_top' = [heap_top EXCEPT ![child] = heap_top[current]]
        /\ free_pages' = [free_pages EXCEPT ![child] = free_pages[current]]
        /\ strayed' = [strayed EXCEPT ![child] = strayed[current]]
  BY Zenon, <1>2 DEF Fork
<1>5. \A y \in Leaf : /\ Share(y) \in Leaf /\ Share(y).f = y.f
                      /\ y.perm \in {"W", "COW"} => Share(y).perm \in {"W", "COW"}
                      /\ [y EXCEPT !.perm = "R"] \in Leaf
  BY DEF Leaf, Share
<1>6. Absent \in Leaf /\ Absent.f = NoFrame /\ Code \in VA /\ Code \notin Heap /\ Code # Stack
  BY MemoryAssumption DEF Absent, Leaf, VA, Code, Heap, Stack
<1>7. par \in [VA -> Leaf] /\ kid \in [VA -> Leaf]
  BY Zenon, <1>2, <1>5, <1>6
<1>8. \A va \in VA : /\ par[va].f = pte[current][va].f
                     /\ pte[current][va].perm \in {"W", "COW"} => par[va].perm \in {"W", "COW"}
  BY Zenon, <1>2, <1>5
<1>9. \A va \in Heap \cup {Stack} :
        \/ kid[va].f = NoFrame
        \/ /\ kid[va].f = pte[current][va].f
           /\ pte[current][va].perm \in {"W", "COW"} => kid[va].perm \in {"W", "COW"}
  BY Zenon, <1>2, <1>5, <1>6, HeapInVA
<1>10. \A i \in DOMAIN free_pages[current] : free_pages[current][i] \in Heap
  BY <1>2
<1> HIDE DEF sh, par, kid
<1>11. Good(strayed[current], free_pages[current], heap_top[current], par)
  BY Zenon, <1>2, <1>8, <1>10, HeapInVA DEF Good, Reclaimed, NoneAbove, NotStuck
<1>12. Good(strayed[current], free_pages[current], heap_top[current], kid)
  <2>1. /\ ~strayed[current] =>
            /\ Distinct(free_pages[current])
            /\ Reclaimed(free_pages[current], heap_top[current], pte[current])
        /\ NoneAbove(heap_top[current], pte[current]) /\ NotStuck(pte[current])
    BY <1>2 DEF Good
  <2>2. \A va \in Heap : pte[current][va].f = NoFrame => kid[va].f = NoFrame
    BY <1>9
  <2>3. ~strayed[current] => Reclaimed(free_pages[current], heap_top[current], kid)
    BY <1>10, <2>1, <2>2 DEF Reclaimed
  <2>4. NoneAbove(heap_top[current], kid)
    BY <2>1, <2>2 DEF NoneAbove
  <2>5. NotStuck(kid)
    BY <1>9, <2>1 DEF NotStuck
  <2> QED
    BY <2>1, <2>3, <2>4, <2>5 DEF Good
<1>13. \A p \in Pid : Good(strayed[p], free_pages[p], heap_top[p], pte[p])
  BY GoodIsSound DEF MemInv
<1>14. \A p \in Pid : Good(strayed'[p], free_pages'[p], heap_top'[p], pte'[p])
  <2> SUFFICES ASSUME NEW p \in Pid
               PROVE  Good(strayed'[p], free_pages'[p], heap_top'[p], pte'[p])
    OBVIOUS
  <2>1. CASE p = child
    <3>1. /\ free_pages'[p] = free_pages[current] /\ heap_top'[p] = heap_top[current]
          /\ pte'[p] = kid /\ strayed'[p] = strayed[current]
      BY <1>2, <1>4, <2>1
    <3> QED
      BY <1>12, <3>1
  <2>2. CASE p # child /\ p = current
    <3>1. /\ free_pages'[p] = free_pages[current] /\ heap_top'[p] = heap_top[current]
          /\ pte'[p] = par /\ strayed'[p] = strayed[current]
      BY <1>2, <1>4, <2>2
    <3> QED
      BY <1>11, <3>1
  <2>3. CASE p # child /\ p # current
    <3>1. /\ free_pages'[p] = free_pages[p] /\ heap_top'[p] = heap_top[p]
          /\ pte'[p] = pte[p] /\ strayed'[p] = strayed[p]
      BY <1>2, <1>4, <2>3
    <3> QED
      BY <1>13, <3>1
  <2> QED
    BY <2>1, <2>2, <2>3
<1>15. (HeapListSound /\ NoStuckPage)'
  BY <1>14, GoodIsSoundNext
<1>16. /\ pte' \in [Pid -> [VA -> Leaf]] /\ heap_top' \in [Pid -> 0 .. HeapBound]
       /\ free_pages' \in [Pid -> Seq(Heap)] /\ strayed' \in [Pid -> BOOLEAN]
  BY Zenon, <1>2, <1>4, <1>7
<1> QED
  BY <1>1, <1>2, <1>3, <1>15, <1>16 DEF MemInv, MemTypeOK
-----------------------------------------------------------------------------
LEMMA MemInvInit == Init => MemInv
<1> SUFFICES ASSUME Init PROVE MemInv
  OBVIOUS
<1>1. MemTypeOK
  BY MemoryAssumption DEF Init, P!Init, MemTypeOK, Absent, Leaf
<1>2. \A p \in Pid : Good(strayed[p], free_pages[p], heap_top[p], pte[p])
  BY HeapInVA DEF Init, Good, Distinct, Reclaimed, NoneAbove, NotStuck, Absent
<1> QED
  BY <1>1, <1>2, GoodIsSound DEF MemInv

LEMMA MemInvStep == MemInv /\ [Next]_vars => MemInv'
<1> SUFFICES ASSUME MemInv, [Next]_vars PROVE MemInv'
  OBVIOUS
<1>1. CASE Boot
  BY <1>1, BootKeeps
<1>2. CASE Fork
  BY <1>2, ForkKeeps
<1>3. CASE ForkPanic
  BY <1>3, StopKeeps DEF ForkPanic, P!ForkPanic
<1>15. CASE Lost
  BY <1>15, StopKeeps DEF Lost, P!Lost
<1>4. CASE Exit
  BY <1>4, ExitKeeps
<1>5. CASE YieldOrTimer
  BY <1>5, StopKeeps DEF YieldOrTimer, P!YieldOrTimer
<1>6. CASE MallocReuse
  BY <1>6, MallocReuseKeeps
<1>7. CASE MallocGrow
  BY <1>7, MallocGrowKeeps
<1>8. CASE MallocPanic
  BY <1>8, StopKeeps DEF MallocPanic
<1>9. ASSUME NEW va \in Heap, FreePage(va) PROVE MemInv'
  BY <1>9, FreePageKeeps
<1>10. ASSUME NEW va \in Storable, FaultCopy(va) PROVE MemInv'
  BY <1>10, FaultCopyKeeps
<1>11. ASSUME NEW va \in Storable, FaultClaim(va) PROVE MemInv'
  BY <1>11, FaultClaimKeeps
<1>12. ASSUME NEW va \in Storable, FaultPanic(va) PROVE MemInv'
  BY <1>12, StopKeeps DEF FaultPanic
<1>13. ASSUME NEW va \in Storable, NEW x \in Value, Store(va, x) PROVE MemInv'
  BY <1>13, QuietKeeps DEF Store, MemInv, MemTypeOK, procs
<1>14. CASE UNCHANGED vars
  BY <1>14, QuietKeeps DEF vars, procs, memory, MemInv, MemTypeOK
<1> QED
  BY <1>1, <1>2, <1>3, <1>4, <1>5, <1>6, <1>7, <1>8, <1>9, <1>10, <1>11, <1>12,
     <1>13, <1>14, <1>15 DEF Next

\* For any number of processes, frames and heap pages: nothing is mapped above
\* the top of a heap, whatever sys_user_free_page was called with; and the heap
\* manager of a process that returned only pages it held, each once, lists only
\* unmapped pages below the top, each once, whatever other processes returned.
THEOREM MemoryHeapListSound == Spec => []HeapListSound
<1>1. MemInv => HeapListSound
  BY DEF MemInv
<1> QED
  BY <1>1, MemInvInit, MemInvStep, PTL DEF Spec

\* What a process may return to the kernel it may get again: while there is a
\* page left and the heap is within its bound, sys_user_allocate_page passes the
\* assertion and map_pages for a process that returned only pages it held.
THEOREM MemoryMallocMaps ==
    Spec => [](\A p \in Pid : ~strayed[p] /\ ~OutOfMemory /\ Target(p) \in Heap => Mappable(p))
<1>1. ASSUME MemInv, NEW p \in Pid, ~strayed[p], ~OutOfMemory, Target(p) \in Heap
      PROVE  Mappable(p)
  <2>1. free_pages[p] \in Seq(Heap) /\ heap_top[p] \in Int
    BY <1>1 DEF MemInv, MemTypeOK
  <2>2. CASE free_pages[p] = <<>>
    BY <1>1, <2>1, <2>2 DEF MemInv, HeapListSound, Mappable, BelowTop, Target
  <2>3. CASE free_pages[p] # <<>>
    <3>1. Target(p) \in Listed(p)
      BY <2>1, <2>3, ListOps DEF Target, Listed
    <3> QED BY Zenon, <1>1, <3>1 DEF MemInv, HeapListSound, Mappable, BelowTop
  <2> QED BY <2>2, <2>3
<1>2. MemInv => \A p \in Pid : ~strayed[p] /\ ~OutOfMemory /\ Target(p) \in Heap => Mappable(p)
  BY <1>1
<1> QED
  BY <1>2, MemInvInit, MemInvStep, PTL DEF Spec

\* For any number of processes, frames and heap pages, fork and the store
\* fault never leave a stack or heap page that its program can no longer write.
THEOREM MemoryNoStuckPage == Spec => []NoStuckPage
<1>1. MemInv => NoStuckPage
  BY DEF MemInv
<1> QED
  BY <1>1, MemInvInit, MemInvStep, PTL DEF Spec
-----------------------------------------------------------------------------
\* Below the top, a heap maps every page that its list does not name.
Full(s, top, e) ==
    \A va \in 0 .. top - 1 : (\A i \in DOMAIN s : s[i] # va) => e[va].f # NoFrame

\* Only the first process forks, and its npages is the size of its heap.
FullInv ==
    /\ npages \in [Pid -> Int]
    /\ parent \in [Pid -> Pid \cup {P!Nobody}]
    /\ \A p \in Pid : parent[p] = P!Nobody => npages[p] = heap_top[p]
    /\ \A p \in Pid : Full(free_pages[p], heap_top[p], pte[p])

LEMMA HeapBelowTop ==
    ASSUME MemInv, NEW p \in Pid
    PROVE  0 .. heap_top[p] - 1 \subseteq Heap
BY MemoryAssumption DEF MemInv, MemTypeOK, Heap

\* The heap of the current process changes at one address, and is still full.
LEMMA OneFull ==
    ASSUME MemInv, FullInv, machine = "on", NEW va \in VA, NEW e \in Leaf, NEW s, NEW top \in Int,
           NEW n \in Int,
           pte' = [pte EXCEPT ![current][va] = e],
           free_pages' = [free_pages EXCEPT ![current] = s],
           heap_top' = [heap_top EXCEPT ![current] = top],
           npages' = [npages EXCEPT ![current] = n],
           npages[current] = heap_top[current] => n = top,
           Full(s, top, [pte[current] EXCEPT ![va] = e]),
           parent' = parent
    PROVE  FullInv'
<1>1. /\ current \in Pid /\ pte \in [Pid -> [VA -> Leaf]]
      /\ free_pages \in [Pid -> Seq(Heap)] /\ heap_top \in [Pid -> 0 .. HeapBound]
  BY DEF MemInv, MemTypeOK
<1>2. \A p \in Pid : pte'[p] = IF p = current THEN [pte[p] EXCEPT ![va] = e] ELSE pte[p]
  BY Zenon, <1>1
<1>3. npages' \in [Pid -> Int] /\ parent' \in [Pid -> Pid \cup {P!Nobody}]
  BY Zenon DEF FullInv
<1>4. \A p \in Pid : parent[p] = P!Nobody => npages'[p] = heap_top'[p]
  BY <1>1 DEF FullInv
<1>5. \A p \in Pid : Full(free_pages'[p], heap_top'[p], pte'[p])
  BY <1>1, <1>2 DEF FullInv
<1> QED BY <1>3, <1>4, <1>5 DEF FullInv

LEMMA MallocReuseFull == ASSUME MemInv, FullInv, MallocReuse PROVE FullInv'
<1> DEFINE s == free_pages[current]
           t == SubSeq(s, 1, Len(s) - 1)
           top == heap_top[current]
           va == s[Len(s)]
<1>1. machine = "on" /\ s # <<>> /\ Target(current) = va /\ parent' = parent
  BY DEF MallocReuse, Target, MapHeapPage, procs
<1>2. /\ current \in Pid /\ pte[current] \in [VA -> Leaf] /\ s \in Seq(Heap)
      /\ heap_top \in [Pid -> 0 .. HeapBound] /\ top \in Int
      /\ npages \in [Pid -> Int] /\ Full(s, top, pte[current])
  BY <1>1, CurrentGood DEF FullInv
<1>3. PICK f \in Frame : pte' = [pte EXCEPT ![current][va] = Page(f)]
  BY Zenon, <1>1 DEF MallocReuse, MapHeapPage
<1>4. /\ Len(s) \in DOMAIN s /\ DOMAIN t = 1 .. Len(s) - 1 /\ DOMAIN s = 1 .. Len(s)
      /\ Len(s) \in Nat /\ \A i \in 1 .. Len(s) - 1 : t[i] = s[i]
  BY <1>1, <1>2, ListOps
<1>5. va \in VA /\ Page(f) \in Leaf /\ Page(f).f # NoFrame
  <2>1. va \in Heap
    BY <1>2, <1>4
  <2> QED BY Zenon, <2>1, HeapInVA, PageIsLeaf
<1>6. /\ free_pages' = [free_pages EXCEPT ![current] = t]
      /\ heap_top' = [heap_top EXCEPT ![current] = top]
      /\ npages' = [npages EXCEPT ![current] = npages[current]]
      /\ npages[current] \in Int
  BY <1>2 DEF MallocReuse, Reuse
<1> DEFINE e == [pte[current] EXCEPT ![va] = Page(f)]
<1>7. Full(t, top, e)
  <2> SUFFICES ASSUME NEW x \in 0 .. top - 1, \A i \in DOMAIN t : t[i] # x
               PROVE  e[x].f # NoFrame
    BY DEF Full
  <2>1. x \in VA
    BY <1>2, HeapBelowTop, HeapInVA
  <2>2. CASE x = va
    BY <1>2, <1>5, <2>1, <2>2
  <2>3. CASE x # va
    <3>1. \A i \in DOMAIN s : s[i] # x
      BY <1>4, <2>3
    <3> QED BY <1>2, <2>1, <2>3, <3>1 DEF Full
  <2> QED BY <2>2, <2>3
<1> HIDE DEF s, t, top, va, e
<1> QED BY Zenon, <1>1, <1>2, <1>3, <1>5, <1>6, <1>7, OneFull DEF e, top

LEMMA MallocGrowFull == ASSUME MemInv, FullInv, MallocGrow PROVE FullInv'
<1> DEFINE s == free_pages[current]
           top == heap_top[current]
<1>1. machine = "on" /\ s = <<>> /\ Target(current) = top /\ top < HeapBound /\ parent' = parent
  BY DEF MallocGrow, Target, MapHeapPage, procs
<1>2. /\ current \in Pid /\ pte[current] \in [VA -> Leaf]
      /\ free_pages \in [Pid -> Seq(Heap)] /\ heap_top \in [Pid -> 0 .. HeapBound]
      /\ top \in 0 .. HeapBound /\ npages \in [Pid -> Int] /\ Full(s, top, pte[current])
  BY <1>1, CurrentGood DEF FullInv
<1>3. PICK f \in Frame : pte' = [pte EXCEPT ![current][top] = Page(f)]
  BY Zenon, <1>1 DEF MallocGrow, MapHeapPage
<1>4. top \in VA /\ top + 1 \in Int /\ Page(f) \in Leaf /\ Page(f).f # NoFrame
  BY <1>1, <1>2, MemoryAssumption, PageIsLeaf DEF Heap, VA
<1>5. /\ free_pages' = [free_pages EXCEPT ![current] = s]
      /\ heap_top' = [heap_top EXCEPT ![current] = top + 1]
      /\ npages' = [npages EXCEPT ![current] = npages[current] + 1]
      /\ npages[current] + 1 \in Int
  BY <1>2 DEF MallocGrow
<1> DEFINE e == [pte[current] EXCEPT ![top] = Page(f)]
<1>6. Full(s, top + 1, e)
  <2> SUFFICES ASSUME NEW x \in 0 .. (top + 1) - 1 PROVE e[x].f # NoFrame
    BY DEF Full
  <2>1. CASE x = top
    BY <1>2, <1>4, <2>1
  <2>2. CASE x # top
    <3>1. x \in 0 .. top - 1
      BY <1>2, <2>2
    <3>2. x \in VA /\ DOMAIN s = {}
      BY <1>1, <1>2, <3>1, HeapBelowTop, HeapInVA
    <3> QED BY <1>2, <2>2, <3>1, <3>2 DEF Full
  <2> QED BY <2>1, <2>2
<1>7. npages[current] = heap_top[current] => npages[current] + 1 = top + 1
  OBVIOUS
<1> HIDE DEF s, top, e
<1> QED BY Zenon, <1>1, <1>3, <1>4, <1>5, <1>6, <1>7, OneFull DEF e

LEMMA FreePageFull == ASSUME MemInv, FullInv, NEW va \in Heap, FreePage(va) PROVE FullInv'
<1> DEFINE s == free_pages[current]
           t == Append(s, va)
           top == heap_top[current]
           e == [pte[current] EXCEPT ![va] = Absent]
<1>1. machine = "on" /\ va \in VA /\ parent' = parent
      /\ pte' = [pte EXCEPT ![current][va] = Absent]
  BY HeapInVA DEF FreePage, procs
<1>2. /\ current \in Pid /\ pte[current] \in [VA -> Leaf] /\ s \in Seq(Heap)
      /\ heap_top \in [Pid -> 0 .. HeapBound] /\ top \in Int
      /\ npages \in [Pid -> Int] /\ Full(s, top, pte[current])
  BY <1>1, CurrentGood DEF FullInv
<1>3. /\ DOMAIN t = 1 .. Len(s) + 1 /\ t[Len(s) + 1] = va /\ Len(s) \in Nat
      /\ DOMAIN s = 1 .. Len(s) /\ \A i \in 1 .. Len(s) : t[i] = s[i]
  BY <1>2, ListOps
<1>4. Absent \in Leaf
  BY DEF Absent, Leaf
<1>5. /\ free_pages' = [free_pages EXCEPT ![current] = t]
      /\ heap_top' = [heap_top EXCEPT ![current] = top]
      /\ npages' = [npages EXCEPT ![current] = npages[current]]
      /\ npages[current] \in Int
  BY <1>2 DEF FreePage
<1>6. Full(t, top, e)
  <2> SUFFICES ASSUME NEW x \in 0 .. top - 1, \A i \in DOMAIN t : t[i] # x
               PROVE  e[x].f # NoFrame
    BY DEF Full
  <2>1. x \in VA /\ x # va /\ \A i \in DOMAIN s : s[i] # x
    <3>1. x \in VA
      BY Zenon, <1>2, HeapBelowTop, HeapInVA
    <3>2. Len(s) + 1 \in DOMAIN t /\ \A i \in DOMAIN s : i \in DOMAIN t /\ t[i] = s[i]
      BY <1>3
    <3> HIDE DEF s, t
    <3> QED BY <1>3, <3>1, <3>2
  <2> QED BY <1>2, <2>1 DEF Full
<1> HIDE DEF s, t, top, e
<1> QED BY Zenon, <1>1, <1>2, <1>4, <1>5, <1>6, OneFull DEF e, top

LEMMA FaultFull ==
    ASSUME MemInv, FullInv, NEW va \in VA, FaultCopy(va) \/ FaultClaim(va)
    PROVE  FullInv'
<1>1. machine = "on" /\ UNCHANGED <<parent, heaps>>
  BY DEF FaultCopy, FaultClaim, procs
<1>2. /\ current \in Pid /\ pte[current] \in [VA -> Leaf]
      /\ free_pages \in [Pid -> Seq(Heap)] /\ heap_top \in [Pid -> 0 .. HeapBound]
      /\ npages \in [Pid -> Int]
      /\ Full(free_pages[current], heap_top[current], pte[current])
  BY <1>1, CurrentGood DEF FullInv
<1>3. PICK x \in Leaf : /\ pte' = [pte EXCEPT ![current][va] = x]
                        /\ pte[current][va].f # NoFrame => x.f # NoFrame
  <2>1. CASE FaultCopy(va)
    <3>1. PICK f \in Frame : pte' = [pte EXCEPT ![current][va] = Page(f)]
      BY Zenon, <2>1 DEF FaultCopy
    <3> QED BY Zenon, <3>1, PageIsLeaf
  <2>2. CASE FaultClaim(va)
    <3>1. pte[current][va] \in Leaf
      BY <1>2
    <3>2. \A y \in Leaf : [y EXCEPT !.perm = "W"] \in Leaf /\ [y EXCEPT !.perm = "W"].f = y.f
      BY DEF Leaf
    <3>3. pte' = [pte EXCEPT ![current][va] = [pte[current][va] EXCEPT !.perm = "W"]]
      BY <2>2 DEF FaultClaim
    <3> QED BY Zenon, <3>1, <3>2, <3>3
  <2> QED BY <2>1, <2>2
<1> DEFINE s == free_pages[current]
           top == heap_top[current]
           e == [pte[current] EXCEPT ![va] = x]
<1>4. Full(s, top, e)
  <2> SUFFICES ASSUME NEW y \in 0 .. top - 1, \A i \in DOMAIN s : s[i] # y
               PROVE  e[y].f # NoFrame
    BY DEF Full
  <2>1. y \in VA /\ pte[current][y].f # NoFrame
    BY Zenon, <1>2, HeapBelowTop, HeapInVA DEF Full
  <2> QED BY <1>2, <1>3, <2>1
<1>5. /\ free_pages' = [free_pages EXCEPT ![current] = s]
      /\ heap_top' = [heap_top EXCEPT ![current] = top]
      /\ npages' = [npages EXCEPT ![current] = npages[current]]
      /\ npages[current] \in Int /\ top \in Int
  BY <1>1, <1>2 DEF heaps
<1> HIDE DEF s, top, e
<1> QED BY Zenon, <1>1, <1>3, <1>4, <1>5, OneFull DEF e, top

\* The first process has npages pages, so the child gets them all.
LEMMA ForkFull == ASSUME MemInv, FullInv, Fork PROVE FullInv'
<1> DEFINE sh == Shared(current)
           par == [va \in VA |-> IF va \in sh THEN Share(pte[current][va]) ELSE pte[current][va]]
           kid == [va \in VA |->
                     IF va \in sh THEN Share(pte[current][va])
                     ELSE IF va = Code THEN [pte[current][Code] EXCEPT !.perm = "R"]
                     ELSE Absent]
           top == heap_top[current]
<1>1. machine = "on" /\ parent[current] = P!Nobody /\ npages' = npages
  BY DEF Fork, P!Fork, P!HartKnown
<1>2. /\ current \in Pid /\ pte \in [Pid -> [VA -> Leaf]] /\ pte[current] \in [VA -> Leaf]
      /\ free_pages \in [Pid -> Seq(Heap)] /\ heap_top \in [Pid -> 0 .. HeapBound]
      /\ Full(free_pages[current], top, pte[current]) /\ npages[current] = top
  BY <1>1, CurrentGood DEF FullInv
<1>3. PICK child \in Pid :
        /\ P!FirstFree(child)
        /\ pte' = [pte EXCEPT ![current] = par, ![child] = kid]
        /\ heap_top' = [heap_top EXCEPT ![child] = top]
        /\ free_pages' = [free_pages EXCEPT ![child] = free_pages[current]]
  BY Zenon, <1>2 DEF Fork
<1>4. parent' = [parent EXCEPT ![child] = current]
  <2>1. PICK c \in Pid : P!FirstFree(c) /\ parent' = [parent EXCEPT ![c] = current]
    BY Zenon DEF Fork, P!Fork, Pid, P!Pid
  <2>2. c = child
    BY <1>3, <2>1 DEF P!FirstFree, Pid, P!Pid
  <2> QED BY <2>1, <2>2
<1>5. current # P!Nobody
  BY <1>2 DEF Pid, P!Nobody
<1>6. \A y \in Leaf : Share(y).f = y.f
  BY DEF Leaf, Share
<1>7. \A va \in VA : par[va].f = pte[current][va].f
  BY <1>2, <1>6
<1>8. \A va \in 0 .. top - 1 : pte[current][va].f # NoFrame => kid[va].f # NoFrame
  <2> SUFFICES ASSUME NEW va \in 0 .. top - 1, pte[current][va].f # NoFrame
               PROVE  kid[va].f # NoFrame
    OBVIOUS
  <2>1. va \in VA /\ pte[current][va] \in Leaf
    BY <1>2, HeapBelowTop, HeapInVA
  <2>2. va \in sh
    BY <1>2 DEF Shared, Mapped
  <2> QED BY <1>6, <2>1, <2>2
<1>9. 0 .. top - 1 \subseteq VA
  BY <1>2, HeapBelowTop, HeapInVA
<1> HIDE DEF sh, par, kid
<1>10. Full(free_pages[current], top, par) /\ Full(free_pages[current], top, kid)
  BY Zenon, <1>2, <1>7, <1>8, <1>9 DEF Full
<1>11. \A p \in Pid : Full(free_pages'[p], heap_top'[p], pte'[p])
  <2> SUFFICES ASSUME NEW p \in Pid PROVE Full(free_pages'[p], heap_top'[p], pte'[p])
    OBVIOUS
  <2>1. CASE p = child
    BY Zenon, <1>2, <1>3, <1>10, <2>1
  <2>2. CASE p # child /\ p = current
    BY Zenon, <1>2, <1>3, <1>10, <2>2
  <2>3. CASE p # child /\ p # current
    BY <1>2, <1>3, <2>3 DEF FullInv
  <2> QED BY <2>1, <2>2, <2>3
<1>12. /\ \A p \in Pid : parent'[p] = P!Nobody => npages'[p] = heap_top'[p]
       /\ parent' \in [Pid -> Pid \cup {P!Nobody}] /\ npages' \in [Pid -> Int]
  BY Zenon, <1>1, <1>2, <1>3, <1>4, <1>5 DEF FullInv
<1> QED BY <1>11, <1>12 DEF FullInv

\* The first process gets no heap yet.
LEMMA BootFull == ASSUME MemInv, FullInv, Boot PROVE FullInv'
<1>1. PICK f \in Frame :
        pte' = [pte EXCEPT ![current'][Stack] = Page(f),
                           ![current'][Data] = Page(DataFrame),
                           ![current'][Code] = Page(CodeFrame)]
  BY Zenon DEF Boot
<1>2. UNCHANGED <<heaps, parent>> /\ pte \in [Pid -> [VA -> Leaf]]
  BY DEF Boot, P!Boot, MemInv, MemTypeOK
<1>3. \A p \in Pid, va \in Heap : pte'[p][va] = pte[p][va]
  <2> SUFFICES ASSUME NEW p \in Pid, NEW va \in Heap PROVE pte'[p][va] = pte[p][va]
    OBVIOUS
  <2>1. pte'[p] = IF p = current'
                  THEN [pte[p] EXCEPT ![Stack] = Page(f), ![Data] = Page(DataFrame),
                                      ![Code] = Page(CodeFrame)]
                  ELSE pte[p]
    BY <1>1, <1>2
  <2>2. va \notin {Stack, Data, Code} /\ va \in VA
    BY DEF VA, Heap, Stack, Data, Code
  <2>3. pte[p] \in [VA -> Leaf]
    BY <1>2
  <2> HIDE DEF VA, Heap, Stack, Data, Code, Page, Leaf
  <2> QED BY <2>1, <2>2, <2>3
<1>4. \A p \in Pid : Full(free_pages[p], heap_top[p], pte'[p])
  BY <1>3, HeapBelowTop DEF FullInv, Full
<1> QED BY <1>2, <1>4 DEF FullInv, heaps

LEMMA FullStep == MemInv /\ FullInv /\ [Next]_vars => FullInv'
<1> SUFFICES ASSUME MemInv, FullInv, [Next]_vars PROVE FullInv'
  OBVIOUS
<1>1. CASE UNCHANGED <<pte, heaps, parent>>
  BY <1>1 DEF FullInv, heaps
<1>2. CASE Exit \/ ForkPanic \/ Lost \/ YieldOrTimer \/ MallocPanic \/ UNCHANGED vars
  BY <1>1, <1>2 DEF Exit, ForkPanic, Lost, YieldOrTimer, MallocPanic, P!Exit, P!ForkPanic, P!Lost,
                    P!YieldOrTimer, P!Panic, P!Stop, memory, vars, procs
<1>3. ASSUME NEW va \in Storable, FaultPanic(va) PROVE FullInv'
  BY <1>1, <1>3 DEF FaultPanic, P!Panic, P!Stop, memory
<1>4. ASSUME NEW va \in Storable, NEW x \in Value, Store(va, x) PROVE FullInv'
  BY <1>1, <1>4 DEF Store, procs
<1> QED
  BY <1>2, <1>3, <1>4, BootFull, ForkFull, MallocReuseFull, MallocGrowFull, FreePageFull,
     FaultFull, StorableInVA DEF Next

\* For any number of processes, frames and heap pages, no process misses a page
\* of its heap, although do_fork does not copy npages.
THEOREM MemoryHeapsComplete == Spec => []HeapsComplete
<1>1. Init => FullInv
  BY DEF Init, P!Init, FullInv, Full, Pid, P!Pid
<1>2. FullInv => HeapsComplete
  BY Zenon DEF FullInv, Full, HeapsComplete, Owned, Listed, Mapped
<1> QED BY <1>1, <1>2, MemInvInit, MemInvStep, FullStep, PTL DEF Spec
-----------------------------------------------------------------------------
\* The entries of all page tables that map a frame.
Places(e, f) == {x \in Pid \X VA : e[x[1]][x[2]].f = f}

\* RefCoversSharers with what it needs: the counts are numbers, and a code page
\* that fork hands on uncounted is never a frame of the allocator.
RefInv ==
    /\ pool \in [Frame -> Nat]
    /\ ref \in [Frame -> Nat]
    /\ \A p \in Pid : pte[p][Code].f \in {CodeFrame, NoFrame}
    /\ \A f \in Frame : pool[f] + Cardinality(Places(pte, f)) <= ref[f] + 1

\* There are finitely many entries.
LEMMA PlacesFinite ==
    ASSUME NEW e, NEW f
    PROVE  IsFiniteSet(Places(e, f)) /\ Cardinality(Places(e, f)) \in Nat
<1>1. IsFiniteSet(Pid) /\ IsFiniteSet(Heap)
  BY FS_Interval, MemoryAssumption DEF Pid, Heap
<1>2. IsFiniteSet({Stack}) /\ IsFiniteSet({Data}) /\ IsFiniteSet({Code})
  BY Zenon, FS_Singleton
<1>3. VA = ((Heap \cup {Stack}) \cup {Data}) \cup {Code}
  BY DEF VA
<1>4. IsFiniteSet(VA)
  BY Zenon, <1>1, <1>2, <1>3, FS_Union
<1>5. IsFiniteSet(Pid \X VA)
  BY <1>1, <1>4, FS_Product
<1>6. Places(e, f) \in SUBSET (Pid \X VA)
  BY DEF Places
<1>7. IsFiniteSet(Places(e, f))
  BY <1>5, <1>6, FS_Subset
<1> QED BY <1>7, FS_CardinalityType

\* One entry of the current process changes: its old frame loses a place, the
\* new one gains it.
LEMMA OnePlace ==
    ASSUME MemInv, machine = "on", NEW va \in VA, NEW e \in Leaf,
           pte' = [pte EXCEPT ![current][va] = e], NEW g
    PROVE  Cardinality(Places(pte', g))
             = Cardinality(Places(pte, g))
                 - (IF pte[current][va].f = g THEN 1 ELSE 0) + (IF e.f = g THEN 1 ELSE 0)
<1> DEFINE here == <<current, va>>
           old == Places(pte, g)
           new == Places(pte', g)
<1>1. current \in Pid /\ pte \in [Pid -> [VA -> Leaf]]
  BY CurrentGood DEF MemInv, MemTypeOK
<1>2. \A p \in Pid, y \in VA : pte'[p][y] = IF p = current /\ y = va THEN e ELSE pte[p][y]
  BY <1>1
<1>3. here \in Pid \X VA /\ here[1] = current /\ here[2] = va
  BY <1>1
<1>4. \A x \in Pid \X VA : x # here => (x \in new <=> x \in old)
  <2> SUFFICES ASSUME NEW x \in Pid \X VA, x # here PROVE x \in new <=> x \in old
    BY Zenon
  <2>1. PICK p \in Pid, y \in VA : x = <<p, y>>
    OBVIOUS
  <2>2. x[1] = p /\ x[2] = y /\ ~(p = current /\ y = va)
    BY <2>1
  <2>3. pte'[p][y] = pte[p][y]
    BY <1>2, <2>2
  <2> QED BY <2>2, <2>3 DEF Places
<1>5. here \in new <=> e.f = g
  BY <1>1, <1>2, <1>3 DEF Places
<1>6. here \in old <=> pte[current][va].f = g
  BY <1>3 DEF Places
<1>7. old \subseteq Pid \X VA /\ new \subseteq Pid \X VA
  BY DEF Places
<1>8. IsFiniteSet(old) /\ Cardinality(old) \in Nat
  BY PlacesFinite
<1> HIDE DEF here, old, new
<1>9. /\ IsFiniteSet(old \ {here})
      /\ Cardinality(old \ {here}) = Cardinality(old) - (IF here \in old THEN 1 ELSE 0)
  BY <1>8, FS_RemoveElement
<1>10. CASE e.f = g
  <2>1. new = (old \ {here}) \cup {here}
    BY <1>3, <1>4, <1>5, <1>7, <1>10
  <2>2. here \notin old \ {here}
    OBVIOUS
  <2>3. Cardinality(new) = Cardinality(old \ {here}) + 1
    BY <1>9, <2>1, <2>2, FS_AddElement
  <2>4. Cardinality(new) = Cardinality(old) - (IF here \in old THEN 1 ELSE 0) + 1
    BY <1>8, <1>9, <2>3
  <2> QED BY <1>6, <1>10, <2>4 DEF old, new
<1>11. CASE e.f # g
  <2>1. new = old \ {here}
    BY <1>3, <1>4, <1>5, <1>7, <1>11
  <2>2. Cardinality(new) = Cardinality(old) - (IF here \in old THEN 1 ELSE 0)
    BY <1>9, <2>1
  <2> QED BY <1>6, <1>8, <1>11, <2>2 DEF old, new
<1> QED BY <1>10, <1>11

\* Only code entries matter for the third part.
LEMMA CodeKept ==
    ASSUME MemInv, RefInv, machine = "on", NEW va \in VA, va # Code, NEW e,
           pte' = [pte EXCEPT ![current][va] = e]
    PROVE  \A p \in Pid : pte'[p][Code].f \in {CodeFrame, NoFrame}
<1>1. pte \in [Pid -> [VA -> Leaf]] /\ Code \in VA
  BY Zenon DEF MemInv, MemTypeOK, VA
<1>2. \A p \in Pid : pte'[p][Code] = pte[p][Code]
  BY <1>1
<1> QED BY <1>2 DEF RefInv

\* A page of the allocator is mapped at one address.
LEMMA MapRef ==
    ASSUME MemInv, RefInv, machine = "on", NEW va \in VA, va # Code, NEW f \in Frame,
           NEW e \in Leaf, e.f = f, AllocPage(f),
           pte' = [pte EXCEPT ![current][va] = e], ref' = ref
    PROVE  RefInv'
<1>2. \A g \in Frame : Cardinality(Places(pte', g))
                       <= Cardinality(Places(pte, g)) + (IF f = g THEN 1 ELSE 0)
  <2> SUFFICES ASSUME NEW g \in Frame
               PROVE  Cardinality(Places(pte', g))
                       <= Cardinality(Places(pte, g)) + (IF f = g THEN 1 ELSE 0)
    BY Zenon
  <2>1. Cardinality(Places(pte', g))
             = Cardinality(Places(pte, g))
                 - (IF pte[current][va].f = g THEN 1 ELSE 0) + (IF e.f = g THEN 1 ELSE 0)
    BY ZenonT(60), OnePlace
  <2>2. (IF e.f = g THEN 1 ELSE 0) = (IF f = g THEN 1 ELSE 0)
    OBVIOUS
  <2>3. Cardinality(Places(pte, g)) \in Nat
    BY PlacesFinite
  <2> QED BY <2>1, <2>2, <2>3
<1>3. pool' \in [Frame -> Nat] /\ \A g \in Frame : pool'[g] = pool[g] - (IF f = g THEN 1 ELSE 0)
  BY DEF RefInv, AllocPage
<1>4. \A g \in Frame : pool'[g] + Cardinality(Places(pte', g)) <= ref'[g] + 1
  <2> SUFFICES ASSUME NEW g \in Frame
               PROVE  pool'[g] + Cardinality(Places(pte', g)) <= ref'[g] + 1
    BY Zenon
  <2>1. /\ pool[g] \in Nat /\ ref[g] \in Nat
        /\ pool[g] + Cardinality(Places(pte, g)) <= ref[g] + 1
    BY DEF RefInv
  <2>2. Cardinality(Places(pte, g)) \in Nat /\ Cardinality(Places(pte', g)) \in Nat
    BY PlacesFinite
  <2>3. /\ pool'[g] = pool[g] - (IF f = g THEN 1 ELSE 0)
        /\ Cardinality(Places(pte', g)) <= Cardinality(Places(pte, g)) + (IF f = g THEN 1 ELSE 0)
        /\ ref'[g] = ref[g]
    BY Zenon, <1>2, <1>3
  <2> QED BY <2>1, <2>2, <2>3
<1>5. \A p \in Pid : pte'[p][Code].f \in {CodeFrame, NoFrame}
  BY Zenon, CodeKept
<1> QED BY Zenon, <1>3, <1>4, <1>5 DEF RefInv

LEMMA MallocRef == ASSUME MemInv, RefInv, MallocReuse \/ MallocGrow PROVE RefInv'
<1>1. machine = "on" /\ ref' = ref
  BY DEF MallocReuse, MallocGrow, MapHeapPage
<1>2. PICK f \in Frame : AllocPage(f) /\ pte' = [pte EXCEPT ![current][Target(current)] = Page(f)]
  BY DEF MallocReuse, MallocGrow, MapHeapPage
<1>3. /\ current \in Pid /\ free_pages[current] \in Seq(Heap) /\ heap_top[current] \in 0 .. HeapBound
  BY <1>1, CurrentGood
<1>4. Target(current) \in Heap
  <2>1. CASE MallocReuse
    <3>1. free_pages[current] # <<>>
      BY <2>1 DEF MallocReuse
    <3>2. free_pages[current][Len(free_pages[current])] \in Heap
      BY <1>3, <3>1, ListOps
    <3> QED BY <3>1, <3>2 DEF Target
  <2>2. CASE MallocGrow
    BY <1>3, <2>2, MemoryAssumption DEF MallocGrow, Target, Heap
  <2> QED BY <2>1, <2>2
<1>5. Target(current) \in VA /\ Target(current) # Code
  BY <1>4, HeapInVA DEF Heap, Code
<1>6. Page(f) \in Leaf /\ Page(f).f = f
  BY DEF Page, Leaf
<1> QED BY Zenon, <1>1, <1>2, <1>5, <1>6, MapRef

\* user_vm_unmap: the frame leaves the page table for the allocator.
LEMMA FreeRef == ASSUME MemInv, RefInv, NEW va \in Heap, FreePage(va) PROVE RefInv'
<1> DEFINE old == pte[current][va].f
<1>1. machine = "on" /\ ref' = ref
      /\ pte' = [pte EXCEPT ![current][va] = Absent] /\ pool' = UnmapPool(current, va)
  BY DEF FreePage
<1>2. Absent \in Leaf /\ Absent.f = NoFrame
  BY DEF Absent, Leaf
<1>3. va # Code /\ va \in VA
  BY HeapInVA DEF Heap, Code
<1>4. pool' \in [Frame -> Nat] /\ \A g \in Frame : pool'[g] = pool[g] + (IF old = g THEN 1 ELSE 0)
  <2>1. pool \in [Frame -> Nat] /\ NoFrame \notin Frame
    BY MemoryAssumption DEF RefInv
  <2>2. pool' = [pool EXCEPT ![old] = @ + 1] \/ (pool' = pool /\ old = NoFrame)
    BY <1>1 DEF UnmapPool, Mapped
  <2> HIDE DEF old
  <2> QED BY <2>1, <2>2
<1>5. \A g \in Frame : Cardinality(Places(pte', g))
                       = Cardinality(Places(pte, g)) - (IF old = g THEN 1 ELSE 0)
  <2> SUFFICES ASSUME NEW g \in Frame
               PROVE  Cardinality(Places(pte', g))
                       = Cardinality(Places(pte, g)) - (IF old = g THEN 1 ELSE 0)
    OBVIOUS
  <2>1. Cardinality(Places(pte', g))
             = Cardinality(Places(pte, g))
                 - (IF old = g THEN 1 ELSE 0) + (IF Absent.f = g THEN 1 ELSE 0)
    BY Zenon, <1>1, <1>2, <1>3, OnePlace
  <2>2. Absent.f # g
    BY <1>2, MemoryAssumption
  <2> HIDE DEF old
  <2> QED BY <2>1, <2>2, PlacesFinite
<1>6. \A g \in Frame : pool'[g] + Cardinality(Places(pte', g)) <= ref'[g] + 1
  <2> SUFFICES ASSUME NEW g \in Frame
               PROVE  pool'[g] + Cardinality(Places(pte', g)) <= ref'[g] + 1
    OBVIOUS
  <2>1. /\ pool[g] \in Nat /\ ref[g] \in Nat
        /\ pool[g] + Cardinality(Places(pte, g)) <= ref[g] + 1
    BY DEF RefInv
  <2>2. Cardinality(Places(pte, g)) \in Nat
    BY PlacesFinite
  <2>3. /\ pool'[g] = pool[g] + (IF old = g THEN 1 ELSE 0)
        /\ Cardinality(Places(pte', g)) = Cardinality(Places(pte, g)) - (IF old = g THEN 1 ELSE 0)
        /\ ref'[g] = ref[g]
    BY Zenon, <1>1, <1>4, <1>5
  <2> HIDE DEF old
  <2> QED BY <2>1, <2>2, <2>3
<1>7. \A p \in Pid : pte'[p][Code].f \in {CodeFrame, NoFrame}
  BY Zenon, <1>1, <1>3, CodeKept
<1> QED BY Zenon, <1>1, <1>4, <1>6, <1>7 DEF RefInv

\* handle_user_page_fault: the writer's old page goes to the allocator, the
\* copy comes from there.
LEMMA FaultCopyRef == ASSUME MemInv, RefInv, NEW va \in Storable, FaultCopy(va) PROVE RefInv'
<1> DEFINE old == pte[current][va].f
<1>1. machine = "on" /\ ref' = ref
  BY Zenon DEF FaultCopy
<1>2. PICK f \in Frame :
         /\ pool[f] > 0
         /\ pte' = [pte EXCEPT ![current][va] = Page(f)]
         /\ pool' = [g \in Frame |-> pool[g] + (IF g = old THEN 1 ELSE 0)
                                             - (IF g = f THEN 1 ELSE 0)]
  BY Zenon DEF FaultCopy
<1>3. va # Code /\ va \in VA
  BY Zenon, StorableInVA
<1>4. Page(f) \in Leaf /\ Page(f).f = f
  BY DEF Page, Leaf
<1>5. \A g \in Frame : Cardinality(Places(pte', g))
                       = Cardinality(Places(pte, g)) - (IF g = old THEN 1 ELSE 0)
                                                     + (IF g = f THEN 1 ELSE 0)
  <2> SUFFICES ASSUME NEW g \in Frame
               PROVE  Cardinality(Places(pte', g))
                       = Cardinality(Places(pte, g)) - (IF g = old THEN 1 ELSE 0)
                                                     + (IF g = f THEN 1 ELSE 0)
    OBVIOUS
  <2>1. Cardinality(Places(pte', g))
             = Cardinality(Places(pte, g))
                 - (IF old = g THEN 1 ELSE 0) + (IF Page(f).f = g THEN 1 ELSE 0)
    BY ZenonT(60), <1>1, <1>2, <1>3, <1>4, OnePlace
  <2>2. (IF Page(f).f = g THEN 1 ELSE 0) = (IF g = f THEN 1 ELSE 0)
    BY <1>4
  <2> HIDE DEF old
  <2> QED BY <2>1, <2>2
<1> HIDE DEF old
<1>6. pool' \in [Frame -> Nat]
  BY <1>2 DEF RefInv
<1>7. \A g \in Frame : pool'[g] + Cardinality(Places(pte', g)) <= ref'[g] + 1
  <2> SUFFICES ASSUME NEW g \in Frame
               PROVE  pool'[g] + Cardinality(Places(pte', g)) <= ref'[g] + 1
    OBVIOUS
  <2>1. /\ pool[g] \in Nat /\ ref[g] \in Nat
        /\ pool[g] + Cardinality(Places(pte, g)) <= ref[g] + 1
    BY DEF RefInv
  <2>2. Cardinality(Places(pte, g)) \in Nat
    BY PlacesFinite
  <2>3. pool'[g] = pool[g] + (IF g = old THEN 1 ELSE 0) - (IF g = f THEN 1 ELSE 0)
    BY <1>2
  <2> QED BY <1>1, <1>5, <2>1, <2>2, <2>3
<1>8. \A p \in Pid : pte'[p][Code].f \in {CodeFrame, NoFrame}
  BY Zenon, <1>1, <1>2, <1>3, CodeKept
<1> QED BY <1>1, <1>6, <1>7, <1>8 DEF RefInv

\* Claiming a page changes no frame.
LEMMA FaultClaimRef == ASSUME MemInv, RefInv, NEW va \in VA, FaultClaim(va) PROVE RefInv'
<1>1. /\ pte' = [pte EXCEPT ![current][va].perm = "W"]
      /\ pool' = pool /\ ref' = ref
  BY DEF FaultClaim
<1>2. pte \in [Pid -> [VA -> Leaf]] /\ Code \in VA
  BY Zenon DEF MemInv, MemTypeOK, VA
<1>3. \A y \in Leaf : [y EXCEPT !.perm = "W"].f = y.f
  BY DEF Leaf
<1>4. \A p \in Pid, y \in VA : pte'[p][y].f = pte[p][y].f
  <2> SUFFICES ASSUME NEW p \in Pid, NEW y \in VA PROVE pte'[p][y].f = pte[p][y].f
    OBVIOUS
  <2>1. pte[p][y] \in Leaf
    BY <1>2
  <2>2. pte'[p][y] = pte[p][y] \/ pte'[p][y] = [pte[p][y] EXCEPT !.perm = "W"]
    BY <1>1, <1>2
  <2> QED BY Zenon, <1>3, <2>1, <2>2
<1>5. \A g : Places(pte', g) = Places(pte, g)
  BY <1>4 DEF Places
<1> QED BY Zenon, <1>1, <1>2, <1>4, <1>5 DEF RefInv

\* The first process gets a stack page, and two pages that no allocator has.
LEMMA BootRef == ASSUME MemInv, RefInv, Boot PROVE RefInv'
<1>1. PICK f \in Frame :
        /\ AllocPage(f)
        /\ pte' = [pte EXCEPT ![current'][Stack] = Page(f),
                              ![current'][Data] = Page(DataFrame),
                              ![current'][Code] = Page(CodeFrame)]
  BY Zenon DEF Boot
<1>2. ref' = ref /\ pte \in [Pid -> [VA -> Leaf]]
  BY DEF Boot, MemInv, MemTypeOK
<1>3. /\ Stack \in VA /\ Data \in VA /\ Code \in VA
      /\ Stack # Data /\ Stack # Code /\ Data # Code
  BY DEF VA, Stack, Data, Code
<1>4. \A p \in Pid, va \in VA :
         pte'[p][va] = IF p # current' THEN pte[p][va]
                       ELSE IF va = Stack THEN Page(f)
                       ELSE IF va = Data THEN Page(DataFrame)
                       ELSE IF va = Code THEN Page(CodeFrame)
                       ELSE pte[p][va]
  <2> SUFFICES ASSUME NEW p \in Pid, NEW va \in VA
               PROVE pte'[p][va] = IF p # current' THEN pte[p][va]
                       ELSE IF va = Stack THEN Page(f)
                       ELSE IF va = Data THEN Page(DataFrame)
                       ELSE IF va = Code THEN Page(CodeFrame)
                       ELSE pte[p][va]
    OBVIOUS
  <2>1. pte'[p] = IF p = current'
                  THEN [pte[p] EXCEPT ![Stack] = Page(f), ![Data] = Page(DataFrame),
                                      ![Code] = Page(CodeFrame)]
                  ELSE pte[p]
    BY <1>1, <1>2
  <2>2. pte[p] \in [VA -> Leaf]
    BY <1>2
  <2> HIDE DEF Stack, Data, Code, VA, Leaf, Page
  <2> QED BY <1>3, <2>1, <2>2
<1>5. \A x : Page(x).f = x
  BY DEF Page
<1>6. \A p \in Pid : pte'[p][Code].f \in {CodeFrame, NoFrame}
  BY <1>3, <1>4, <1>5 DEF RefInv
<1>7. \A g \in Frame : Places(pte', g) \subseteq
         Places(pte, g) \cup (IF g = f THEN {<<current', Stack>>} ELSE {})
  <2> SUFFICES ASSUME NEW g \in Frame, NEW x \in Places(pte', g), x \notin Places(pte, g)
               PROVE  g = f /\ x = <<current', Stack>>
    OBVIOUS
  <2>1. PICK p \in Pid, va \in VA : x = <<p, va>> /\ pte'[p][va].f = g /\ pte[p][va].f # g
    BY DEF Places
  <2>2. g # DataFrame /\ g # CodeFrame
    BY MemoryAssumption
  <2> QED BY <1>4, <1>5, <2>1, <2>2
<1>8. pool' \in [Frame -> Nat] /\ \A g \in Frame : pool'[g] = pool[g] - (IF g = f THEN 1 ELSE 0)
  BY <1>1 DEF RefInv, AllocPage
<1>9. \A g \in Frame : pool'[g] + Cardinality(Places(pte', g)) <= ref'[g] + 1
  <2> SUFFICES ASSUME NEW g \in Frame
               PROVE  pool'[g] + Cardinality(Places(pte', g)) <= ref'[g] + 1
    OBVIOUS
  <2>1. /\ pool[g] \in Nat /\ ref[g] \in Nat
        /\ pool[g] + Cardinality(Places(pte, g)) <= ref[g] + 1
    BY DEF RefInv
  <2>2. /\ IsFiniteSet(Places(pte, g)) /\ Cardinality(Places(pte, g)) \in Nat
        /\ Cardinality(Places(pte', g)) \in Nat
    BY PlacesFinite
  <2>3. Cardinality(Places(pte', g)) <= Cardinality(Places(pte, g)) + (IF g = f THEN 1 ELSE 0)
    <3>1. CASE g = f
      <4> DEFINE all == Places(pte, g) \cup {<<current', Stack>>}
      <4>1. IsFiniteSet(all) /\ Cardinality(all) <= Cardinality(Places(pte, g)) + 1
            /\ Cardinality(all) \in Nat
        <5> DEFINE c == Cardinality(Places(pte, g))
        <5>1. IsFiniteSet(all) /\ (Cardinality(all) = c \/ Cardinality(all) = c + 1)
          BY Zenon, <2>2, FS_AddElement
        <5>2. c \in Nat
          BY Zenon, <2>2
        <5> HIDE DEF all, c
        <5>3. Cardinality(all) <= c + 1 /\ Cardinality(all) \in Nat
          BY <5>1, <5>2
        <5> QED BY Zenon, <5>1, <5>3 DEF c
      <4>2. Places(pte', g) \in SUBSET all
        BY <1>7, <3>1
      <4> HIDE DEF all
      <4>3. Cardinality(Places(pte', g)) <= Cardinality(all)
        BY <4>1, <4>2, FS_Subset
      <4> QED BY <2>2, <3>1, <4>1, <4>3
    <3>2. CASE g # f
      <4>1. Places(pte', g) \in SUBSET Places(pte, g)
        BY <1>7, <3>2
      <4>2. Cardinality(Places(pte', g)) <= Cardinality(Places(pte, g))
        BY <2>2, <4>1, FS_Subset
      <4> QED BY <2>2, <3>2, <4>2
    <3> QED BY <3>1, <3>2
  <2>4. pool'[g] = pool[g] - (IF g = f THEN 1 ELSE 0) /\ ref'[g] = ref[g]
    BY <1>2, <1>8
  <2> QED BY <2>1, <2>2, <2>3, <2>4
<1> QED BY <1>2, <1>6, <1>8, <1>9 DEF RefInv

\* do_fork: every page the child gets is counted, except the code page.
LEMMA ForkRef == ASSUME MemInv, FullInv, RefInv, Fork PROVE RefInv'
<1> DEFINE sh == Shared(current)
           K(g) == {va \in sh : pte[current][va].f = g}
<1>1. /\ machine = "on" /\ current \in Pid /\ pte \in [Pid -> [VA -> Leaf]]
      /\ npages[current] \in Int
  BY CurrentGood DEF Fork, P!Fork, MemInv, MemTypeOK, FullInv
<1>2. PICK child \in Pid :
         pte' = [pte EXCEPT
               ![current] = [va \in VA |-> IF va \in sh THEN Share(@[va]) ELSE @[va]],
               ![child] = [va \in VA |->
                   IF va \in sh THEN Share(pte[current][va])
                   ELSE IF va = Code THEN [pte[current][Code] EXCEPT !.perm = "R"]
                   ELSE Absent]]
  BY Zenon DEF Fork
<1>3. PICK f \in Frame : AllocPage(f)
  BY DEF Fork
<1>4. /\ \A y \in Leaf : Share(y).f = y.f /\ [y EXCEPT !.perm = "R"].f = y.f
      /\ Absent.f = NoFrame
  BY DEF Leaf, Share, Absent
<1>5. Code \in VA /\ Code \notin sh
  BY <1>1 DEF VA, Shared, Stack, Code
<1> HIDE DEF sh
<1>6. \A p \in Pid, va \in VA :
         pte'[p][va].f = IF p # child THEN pte[p][va].f
                         ELSE IF va \in sh \cup {Code} THEN pte[current][va].f ELSE NoFrame
  <2> SUFFICES ASSUME NEW p \in Pid, NEW va \in VA
               PROVE  pte'[p][va].f = IF p # child THEN pte[p][va].f
                         ELSE IF va \in sh \cup {Code} THEN pte[current][va].f ELSE NoFrame
    OBVIOUS
  <2>1. pte[current][va] \in Leaf /\ pte[p][va] \in Leaf /\ pte[current][Code] \in Leaf
    BY <1>1, <1>5
  <2>2. CASE p = child
    <3>1. pte'[p][va] = IF va \in sh THEN Share(pte[current][va])
                   ELSE IF va = Code THEN [pte[current][Code] EXCEPT !.perm = "R"]
                   ELSE Absent
      BY <1>1, <1>2, <2>2
    <3> HIDE DEF Share, Absent, Leaf
    <3> QED BY <1>4, <2>1, <2>2, <3>1
  <2>3. CASE p # child /\ p = current
    <3>1. pte'[p][va] = IF va \in sh THEN Share(pte[current][va]) ELSE pte[current][va]
      BY <1>1, <1>2, <2>3
    <3> QED BY <1>4, <2>1, <2>3, <3>1
  <2>4. CASE p # child /\ p # current
    <3>1. pte'[p] = pte[p]
      BY <1>1, <1>2, <2>4
    <3> QED BY <2>4, <3>1
  <2> QED BY Zenon, <2>2, <2>3, <2>4
<1>7. \A p \in Pid : pte'[p][Code].f \in {CodeFrame, NoFrame}
  BY <1>1, <1>5, <1>6 DEF RefInv
<1>8. \A g \in Frame : IsFiniteSet(K(g)) /\ Cardinality(K(g)) \in Nat
  <2>1. IsFiniteSet({Stack}) /\ IsFiniteSet(0 .. npages[current] - 1)
    <3>1. PICK n \in Int : n = npages[current] - 1
      BY <1>1
    <3>2. IsFiniteSet(0 .. n)
      BY FS_Interval
    <3>3. IsFiniteSet({Stack})
      BY Zenon, FS_Singleton
    <3> QED BY <3>1, <3>2, <3>3
  <2>2. IsFiniteSet({Stack} \cup 0 .. npages[current] - 1)
    BY Zenon, <2>1, FS_Union
  <2> SUFFICES ASSUME NEW g \in Frame PROVE IsFiniteSet(K(g)) /\ Cardinality(K(g)) \in Nat
    OBVIOUS
  <2>3. K(g) \in SUBSET ({Stack} \cup 0 .. npages[current] - 1)
    BY DEF sh, Shared
  <2>4. IsFiniteSet(K(g))
    BY <2>2, <2>3, FS_Subset
  <2> QED BY <2>4, FS_CardinalityType
<1>9. \A g \in Frame : Places(pte', g) \subseteq Places(pte, g) \cup ({child} \X K(g))
  <2> SUFFICES ASSUME NEW g \in Frame, NEW x \in Places(pte', g), x \notin Places(pte, g)
               PROVE  x \in {child} \X K(g)
    OBVIOUS
  <2>1. PICK p \in Pid, va \in VA : x = <<p, va>> /\ pte'[p][va].f = g /\ pte[p][va].f # g
    BY DEF Places
  <2>2. g # NoFrame /\ g # CodeFrame /\ pte[current][Code].f # g
    BY Zenon, <1>1, MemoryAssumption DEF RefInv
  <2>3. p = child /\ va \in sh /\ pte[current][va].f = g
    BY <1>6, <2>1, <2>2
  <2> QED BY <2>1, <2>3
<1>10. \A g \in Frame : Cardinality(Places(pte', g)) <= Cardinality(Places(pte, g)) + Cardinality(K(g))
  <2> SUFFICES ASSUME NEW g \in Frame
               PROVE  Cardinality(Places(pte', g)) <= Cardinality(Places(pte, g)) + Cardinality(K(g))
    OBVIOUS
  <2>1. IsFiniteSet(K(g)) /\ Cardinality(K(g)) \in Nat
    BY <1>8
  <2>2. IsFiniteSet({child}) /\ Cardinality({child}) = 1
    BY Zenon, FS_Singleton
  <2> DEFINE old == Places(pte, g)
             new == Places(pte', g)
             k == K(g)
             got == {child} \X k
             all == old \cup got
  <2>6. new \in SUBSET all
    BY <1>9
  <2>4. /\ IsFiniteSet(old) /\ Cardinality(old) \in Nat /\ Cardinality(new) \in Nat
    BY PlacesFinite
  <2> SUFFICES Cardinality(new) <= Cardinality(old) + Cardinality(k)
    OBVIOUS
  <2> HIDE DEF old, new, k
  <2>3. IsFiniteSet(got) /\ Cardinality(got) = 1 * Cardinality(k)
    BY Zenon, <2>1, <2>2, FS_Product DEF k
  <2>8. Cardinality(got) = Cardinality(k) /\ Cardinality(k) \in Nat
    BY <2>1, <2>3 DEF k
  <2> HIDE DEF got
  <2>5. /\ IsFiniteSet(all) /\ Cardinality(all) \in Nat /\ Cardinality(old \cap got) \in Nat
        /\ Cardinality(all) = Cardinality(old) + Cardinality(got) - Cardinality(old \cap got)
    BY Zenon, <2>3, <2>4, FS_Union, FS_Intersection, FS_CardinalityType
  <2> HIDE DEF all
  <2>7. Cardinality(new) <= Cardinality(all)
    BY <2>5, <2>6, FS_Subset
  <2> QED BY <2>4, <2>5, <2>7, <2>8
<1>11. /\ pool' \in [Frame -> Nat]
       /\ \A g \in Frame : pool'[g] <= pool[g]
  BY <1>3 DEF RefInv, AllocPage
<1>12. ref' = [g \in Frame |-> ref[g] + Cardinality(K(g))]
  BY DEF Fork, Counted, sh
<1> HIDE DEF K
<1>13. ref' \in [Frame -> Nat]
  BY <1>8, <1>12 DEF RefInv
<1>14. \A g \in Frame : pool'[g] + Cardinality(Places(pte', g)) <= ref'[g] + 1
  <2> SUFFICES ASSUME NEW g \in Frame
               PROVE  pool'[g] + Cardinality(Places(pte', g)) <= ref'[g] + 1
    OBVIOUS
  <2>1. /\ pool[g] \in Nat /\ ref[g] \in Nat /\ pool'[g] \in Nat
        /\ pool[g] + Cardinality(Places(pte, g)) <= ref[g] + 1
    BY <1>11 DEF RefInv
  <2>2. /\ Cardinality(Places(pte, g)) \in Nat /\ Cardinality(Places(pte', g)) \in Nat
    BY PlacesFinite
  <2>3. /\ pool'[g] <= pool[g] /\ ref'[g] = ref[g] + Cardinality(K(g))
        /\ Cardinality(Places(pte', g)) <= Cardinality(Places(pte, g)) + Cardinality(K(g))
        /\ Cardinality(K(g)) \in Nat
    BY Zenon, <1>8, <1>10, <1>11, <1>12
  <2> QED BY <2>1, <2>2, <2>3
<1> QED BY <1>7, <1>11, <1>13, <1>14 DEF RefInv

LEMMA RefStart == Init => RefInv
<1> SUFFICES ASSUME Init PROVE RefInv
  OBVIOUS
<1>1. pool = [f \in Frame |-> 1] /\ ref = [f \in Frame |-> 0]
      /\ pte = [p \in Pid |-> [va \in VA |-> Absent]]
  BY DEF Init
<1>2. \A p \in Pid, va \in VA : pte[p][va].f = NoFrame
  BY <1>1 DEF Absent
<1>3. Code \in VA
  BY DEF VA
<1>4. \A f \in Frame : Places(pte, f) = {}
  BY Zenon, <1>2, MemoryAssumption DEF Places
<1>5. \A f \in Frame : Cardinality(Places(pte, f)) = 0
  BY <1>4, FS_EmptySet
<1> QED BY <1>1, <1>2, <1>3, <1>5 DEF RefInv

LEMMA RefStep == MemInv /\ FullInv /\ RefInv /\ [Next]_vars => RefInv'
<1> SUFFICES ASSUME MemInv, FullInv, RefInv, [Next]_vars PROVE RefInv'
  OBVIOUS
<1>1. CASE UNCHANGED <<pte, pool, ref>>
  BY <1>1 DEF RefInv
<1>2. CASE Exit \/ ForkPanic \/ Lost \/ YieldOrTimer \/ MallocPanic \/ UNCHANGED vars
  BY <1>1, <1>2 DEF Exit, ForkPanic, Lost, YieldOrTimer, MallocPanic, memory, vars
<1>3. ASSUME NEW va \in Storable, FaultPanic(va) PROVE RefInv'
  BY <1>1, <1>3 DEF FaultPanic, memory
<1>4. ASSUME NEW va \in Storable, NEW x \in Value, Store(va, x) PROVE RefInv'
  BY <1>1, <1>4 DEF Store
<1> QED
  BY <1>2, <1>3, <1>4, BootRef, ForkRef, MallocRef, FreeRef, FaultCopyRef, FaultClaimRef,
     StorableInVA DEF Next

\* For any number of processes, frames and heap pages, page_t.ref never falls
\* behind the places of a frame: get_page in do_fork counts every sharer, and
\* a page that handle_user_page_fault hands to pfree was counted once more.
THEOREM MemoryRefCoversSharers == Spec => []RefCoversSharers
<1>1. RefInv => RefCoversSharers
  BY DEF RefInv, RefCoversSharers, Places
<1>2. Init => FullInv
  BY DEF Init, P!Init, FullInv, Full, Pid, P!Pid
<1> QED BY <1>1, <1>2, MemInvInit, MemInvStep, FullStep, RefStart, RefStep, PTL DEF Spec
=============================================================================
