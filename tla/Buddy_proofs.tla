---------------------------- MODULE Buddy_proofs ----------------------------
(***************************************************************************)
(* For every memory size, every start of the managed range and every       *)
(* MAX_ORDER: the buddy system never gives a frame to two blocks, never    *)
(* loses one, and its marks are truthful, also while a loop is under way;  *)
(* blocks are aligned, free buddies do not stay apart, the lists return to *)
(* what they were, and a caller meets the abstract FramePool.  The second  *)
(* half begins with the multiples of a block size, since the provers know  *)
(* little about products.                                                  *)
(***************************************************************************)
EXTENDS Buddy, WellFoundedInduction, TLAPS

\* Every block lies inside the managed range.
Inside == \A f \in PFN, o \in Order :
             Block(f, o) => f >= BUDDY_START /\ f + Pow2[o] <= NR_PAGES

\* What the loops keep: nothing is carved above curr_addr yet, the level of a
\* split stays at or above the request, and a carried block has its order on
\* record.
LoopInv ==
    /\ pc = "init" => /\ held = {}
                      /\ \A f \in PFN, o \in Order : Listed(f, o) => f + Pow2[o] <= pfn
    /\ pc = "split" => lvl >= want
    /\ pc \in {"merge", "wild"} => pfn \in PFN /\ order[pfn] = lvl

IInv == TypeOK /\ Inside /\ NoOverlap /\ NoLeak /\ MarksTruthful /\ LoopInv

\* Block sizes are positive and double from one order to the next.
LEMMA Pow2Facts ==
  /\ MAX_ORDER \in Nat \ {0} /\ NR_PAGES \in Nat /\ BUDDY_START \in 0 .. NR_PAGES
  /\ \A o \in Order : Pow2[o] \in Nat /\ Pow2[o] > 0
  /\ \A o \in Order : o > 0 => o - 1 \in Order /\ Pow2[o] = 2 * Pow2[o - 1]
  /\ \A o \in Order : o < MAX_ORDER - 1 => o + 1 \in Order /\ Pow2[o + 1] = 2 * Pow2[o]
  /\ 0 \in Order
<1> USE BuddyAssumption DEF Order
<1>1. \A o \in Order : Pow2[o] \in Nat /\ Pow2[o] > 0
  OBVIOUS
<1>2. ASSUME NEW o \in Order, o > 0
      PROVE  o - 1 \in Order /\ Pow2[o] = 2 * Pow2[o - 1]
  <2>1. o - 1 \in 0 .. MAX_ORDER - 1 /\ (o - 1) + 1 = o
    BY <1>2
  <2> QED BY <2>1
<1>3. ASSUME NEW o \in Order, o < MAX_ORDER - 1
      PROVE  o + 1 \in Order /\ Pow2[o + 1] = 2 * Pow2[o]
  BY <1>3
<1> QED BY <1>1, <1>2, <1>3

\* Before buddy_system_init there are no blocks and no marks.
LEMMA IInvInit == Init => IInv
<1> SUFFICES ASSUME Init PROVE IInv
  OBVIOUS
<1> USE Pow2Facts DEF Init
<1>1. TypeOK
  BY DEF TypeOK, Order, PFN
<1>2. \A f \in PFN, o \in Order : ~Block(f, o)
  BY DEF Block, Listed, Carried
<1>3. Inside /\ NoOverlap
  BY <1>2 DEF Inside, NoOverlap, Block
<1>4. MarksTruthful
  BY DEF MarksTruthful, Listed
<1>5. LoopInv /\ NoLeak
  BY DEF LoopInv, NoLeak, Listed
<1> QED BY <1>1, <1>3, <1>4, <1>5 DEF IInv

\* Carving puts a fresh block above everything carved so far.
LEMMA CarveStep == IInv /\ Carve => IInv'
<1> SUFFICES ASSUME IInv, Carve PROVE IInv'
  OBVIOUS
<1> USE Pow2Facts
<1>0. /\ TypeOK /\ Inside /\ NoOverlap /\ NoLeak /\ MarksTruthful /\ LoopInv
      /\ pc = "init" /\ pc' = "init" /\ held = {} /\ held' = {} /\ pfn \in PFN
  BY DEF IInv, Carve, LoopInv, TypeOK, PFN
<1>1. PICK o \in Order :
         /\ Fits(pfn, o)
         /\ is_head' = [is_head EXCEPT ![pfn] = TRUE]
         /\ is_free' = [is_free EXCEPT ![pfn] = TRUE]
         /\ order' = [order EXCEPT ![pfn] = o]
         /\ free_area' = ListAdd(o, pfn)
         /\ pfn' = pfn + Pow2[o]
  BY Zenon DEF Carve
<1>2. pfn + Pow2[o] <= NR_PAGES
  BY <1>0, <1>1 DEF Fits, PFN
<1>3. TypeOK'
  BY <1>0, <1>1, <1>2 DEF TypeOK, Carve, ListAdd, PFN
<1>4. \A g \in PFN, r \in Order : Listed(g, r)' <=> Listed(g, r) \/ (g = pfn /\ r = o)
  BY <1>0, <1>1 DEF Listed, ListAdd, TypeOK
<1>5. \A g \in PFN, r \in Order : ~Carried(g, r) /\ ~Carried(g, r)'
  BY <1>0 DEF Carried
<1>6. \A g \in PFN, r \in Order : Listed(g, r) => g + Pow2[r] <= pfn
  BY <1>0 DEF LoopInv
<1>7. Inside'
  BY <1>0, <1>2, <1>4, <1>5 DEF Inside, Block, TypeOK, PFN
<1>8. NoOverlap'
  BY <1>0, <1>4, <1>5, <1>6 DEF NoOverlap, Block, Apart, TypeOK, PFN
<1>9. MarksTruthful'
  <2>1. \A r \in Order : ~Listed(pfn, r)
    BY <1>0, <1>6 DEF PFN
  <2> QED
    BY <1>0, <1>1, <1>4, <2>1 DEF MarksTruthful, TypeOK
<1>10. LoopInv'
  BY <1>0, <1>1, <1>4, <1>6 DEF LoopInv, TypeOK, PFN
<1>11. NoLeak'
  <2> SUFFICES ASSUME NEW f \in BUDDY_START .. NR_PAGES - 1, f < pfn + Pow2[o]
               PROVE  \E g \in PFN, r \in Order : Block(g, r)' /\ g <= f /\ f < g + Pow2[r]
    BY <1>0, <1>1 DEF NoLeak, TypeOK, PFN
  <2>1. CASE f >= pfn
    BY <1>0, <1>4, <2>1 DEF Block
  <2>2. CASE f < pfn
    BY Zenon, <1>0, <1>4, <1>5, <2>2 DEF NoLeak, Block, TypeOK, PFN
  <2> QED BY <1>0, <2>1, <2>2 DEF PFN
<1> QED BY <1>3, <1>7, <1>8, <1>9, <1>10, <1>11 DEF IInv

\* Steps that touch neither the lists nor the marks: the end of carving, the
\* search of buddy_alloc, its panic, and a stuttering step.
LEMMA QuietStep ==
  ASSUME IInv,
         \/ CarveDone
         \/ \E o \in Order : Alloc(o) \/ AllocPanic(o)
         \/ MergeBeyond
         \/ UNCHANGED vars
  PROVE  IInv'
<1> USE DEF IInv
<1>1. UNCHANGED <<is_free, is_head, order, free_area, held, pfn>>
  BY DEF CarveDone, Alloc, AllocPanic, MergeBeyond, vars, meta
<1>2. \/ pc \in {"merge", "wild"} /\ pc' \in {"merge", "wild"} /\ lvl' = lvl
      \/ pc \notin {"merge", "wild"} /\ pc' \notin {"merge", "wild"}
  BY DEF CarveDone, Alloc, AllocPanic, MergeBeyond, vars
<1>3. \A f, o : (Listed(f, o)' <=> Listed(f, o)) /\ (Carried(f, o)' <=> Carried(f, o))
  BY <1>1, <1>2 DEF Listed, Carried
<1>4. \A f, o : Block(f, o)' <=> Block(f, o)
  BY <1>1, <1>3 DEF Block
<1>5. TypeOK'
  <2>1. /\ pc' \in {"init", "idle", "split", "merge", "panic", "wild"}
        /\ lvl' \in Order /\ want' \in Order
    BY Pow2Facts DEF TypeOK, CarveDone, Alloc, AllocPanic, MergeBeyond, vars, Order
  <2> QED BY Zenon, <1>1, <2>1 DEF TypeOK
<1>6. Inside' /\ NoOverlap' /\ MarksTruthful'
  BY <1>1, <1>3, <1>4 DEF Inside, NoOverlap, MarksTruthful, Apart
<1>7. LoopInv'
  <2>1. pc' = "init" => pc = "init"
    BY DEF CarveDone, Alloc, AllocPanic, MergeBeyond, vars
  <2>2. pc' = "split" => lvl' >= want'
    BY DEF LoopInv, CarveDone, Alloc, AllocPanic, MergeBeyond, vars, Order
  <2> QED
    BY <1>1, <1>2, <1>3, <2>1, <2>2 DEF LoopInv
<1>8. NoLeak'
  <2>1. pc = "init" /\ pc' # "init" => pfn >= NR_PAGES
    BY DEF CarveDone, Alloc, AllocPanic, MergeBeyond, vars
  <2> QED
    BY <1>1, <1>4, <2>1, Pow2Facts DEF NoLeak, TypeOK
<1> QED BY <1>5, <1>6, <1>7, <1>8

\* A split replaces a listed block by its two halves.
LEMMA SplitStep == IInv /\ Split => IInv'
<1> SUFFICES ASSUME IInv, Split PROVE IInv'
  OBVIOUS
<1> USE Pow2Facts
<1>0. /\ TypeOK /\ Inside /\ NoOverlap /\ NoLeak /\ MarksTruthful /\ LoopInv
      /\ pc = "split" /\ pc' = "split" /\ held' = held /\ pfn' = pfn
  BY DEF IInv, Split
<1>1. PICK i \in Order : i = lvl
  BY <1>0 DEF TypeOK
<1>2. /\ want \in Order /\ want' = want /\ i > want /\ lvl' = i - 1
      /\ i > 0 /\ i - 1 \in Order /\ Pow2[i] = 2 * Pow2[i - 1]
      /\ Pow2[i - 1] \in Nat /\ Pow2[i - 1] > 0
  BY <1>0, <1>1 DEF Split, TypeOK, Order
<1>3. PICK f \in free_area[i] :
         LET b == UpperHalf(f, i) IN
         /\ is_free' = [is_free EXCEPT ![b] = TRUE]
         /\ is_head' = [is_head EXCEPT ![b] = TRUE]
         /\ order' = [order EXCEPT ![b] = i - 1, ![f] = i - 1]
         /\ free_area' = [free_area EXCEPT ![i] = @ \ {f},
                                           ![i - 1] = @ \cup {b, f}]
  BY Zenon, <1>1 DEF Split
<1>4. f \in PFN /\ Listed(f, i) /\ f >= BUDDY_START /\ f + Pow2[i] <= NR_PAGES
  BY Zenon, <1>0, <1>3 DEF TypeOK, Listed, Inside, Block
<1>5. PICK bud \in PFN : bud = f + Pow2[i - 1]
  BY <1>2, <1>4 DEF PFN
<1>6. /\ is_free' = [is_free EXCEPT ![bud] = TRUE]
      /\ is_head' = [is_head EXCEPT ![bud] = TRUE]
      /\ order' = [order EXCEPT ![bud] = i - 1, ![f] = i - 1]
      /\ free_area' = [free_area EXCEPT ![i] = @ \ {f}, ![i - 1] = @ \cup {bud, f}]
      /\ bud # f
  BY <1>2, <1>3, <1>4, <1>5 DEF UpperHalf, PFN
<1>7. TypeOK'
  BY <1>0, <1>2, <1>4, <1>6 DEF TypeOK
<1>8. \A g \in PFN, r \in Order :
        Listed(g, r)' <=> \/ Listed(g, r) /\ ~(g = f /\ r = i)
                          \/ g \in {f, bud} /\ r = i - 1
  BY <1>0, <1>2, <1>4, <1>6 DEF Listed, TypeOK
<1>9. \A g \in PFN, r \in Order : ~Carried(g, r) /\ ~Carried(g, r)'
  BY <1>0 DEF Carried
<1>10. ASSUME NEW g \in PFN, NEW r \in Order,
              Listed(g, r) \/ <<g, r>> \in held, ~(g = f /\ r = i)
       PROVE  /\ Apart(g, r, f, i - 1)
              /\ Apart(g, r, bud, i - 1)
              /\ g # f /\ g # bud
  <2>1. Apart(g, r, f, i)
    BY Zenon, <1>0, <1>4, <1>10 DEF NoOverlap, Block
  <2>2. Pow2[r] \in Nat /\ Pow2[r] > 0
    OBVIOUS
  <2> QED
    BY <1>2, <1>4, <1>5, <2>1, <2>2 DEF Apart, PFN
<1>11. <<f, i>> \notin held
  BY <1>0, <1>4 DEF NoOverlap
<1>12. Apart(f, i - 1, bud, i - 1)
  BY <1>2, <1>4, <1>5 DEF Apart, PFN
<1>13. \A g \in PFN, r \in Order :
         Block(g, r)' <=> \/ (Listed(g, r) \/ <<g, r>> \in held) /\ ~(g = f /\ r = i)
                          \/ g \in {f, bud} /\ r = i - 1
  BY <1>0, <1>8, <1>9, <1>11 DEF Block
<1>14. Inside'
  <2> SUFFICES ASSUME NEW g \in PFN, NEW r \in Order, Block(g, r)'
               PROVE  g >= BUDDY_START /\ g + Pow2[r] <= NR_PAGES
    BY DEF Inside
  <2>1. CASE Listed(g, r) \/ <<g, r>> \in held
    BY <1>0, <2>1 DEF Inside, Block
  <2>2. CASE g \in {f, bud} /\ r = i - 1
    BY <1>2, <1>4, <1>5, <2>2 DEF PFN
  <2> QED BY <1>13, <2>1, <2>2
<1>15. NoOverlap'
  <2>1. ASSUME NEW g \in PFN, NEW r \in Order, NEW h \in PFN, NEW q \in Order,
               Block(g, r)', Block(h, q)', <<g, r>> # <<h, q>>
        PROVE  Apart(g, r, h, q)
    <3>1. CASE (Listed(g, r) \/ <<g, r>> \in held) /\ (Listed(h, q) \/ <<h, q>> \in held)
      BY <1>0, <2>1, <3>1 DEF NoOverlap, Block
    <3>2. CASE g \in {f, bud} /\ r = i - 1
      <4>1. CASE h \in {f, bud} /\ q = i - 1
        BY <1>12, <2>1, <3>2, <4>1 DEF Apart
      <4>2. CASE (Listed(h, q) \/ <<h, q>> \in held) /\ ~(h = f /\ q = i)
        <5>1. Apart(h, q, f, i - 1) /\ Apart(h, q, bud, i - 1)
          BY <1>10, <4>2
        <5> QED BY <3>2, <5>1 DEF Apart
      <4> QED BY <1>13, <2>1, <4>1, <4>2
    <3>3. CASE h \in {f, bud} /\ q = i - 1 /\ ~(g \in {f, bud} /\ r = i - 1)
      <4>1. Apart(g, r, f, i - 1) /\ Apart(g, r, bud, i - 1)
        BY Zenon, <1>10, <1>13, <2>1, <3>3
      <4> QED BY <3>3, <4>1
    <3> QED BY <1>13, <2>1, <3>1, <3>2, <3>3
  <2>2. ASSUME NEW g \in PFN, NEW r \in Order
        PROVE  ~(Listed(g, r)' /\ <<g, r>> \in held')
    BY <1>0, <1>4, <1>8, <1>10, <1>11 DEF NoOverlap
  <2> QED BY <1>9, <2>1, <2>2 DEF NoOverlap, Apart
<1>16. MarksTruthful'
  <2>1. \A g \in PFN : g # f /\ g # bud =>
           is_free'[g] = is_free[g] /\ is_head'[g] = is_head[g] /\ order'[g] = order[g]
    BY <1>0, <1>4, <1>6 DEF TypeOK
  <2>2. /\ is_free'[f] /\ is_head'[f] /\ order'[f] = i - 1
        /\ is_free'[bud] /\ is_head'[bud] /\ order'[bud] = i - 1
    BY Zenon, <1>0, <1>4, <1>6 DEF TypeOK, MarksTruthful
  <2>3. \A g \in PFN, r \in Order : g # f /\ g # bud => (Listed(g, r)' <=> Listed(g, r))
    BY <1>8
  <2>4. ASSUME NEW r \in Order, r # i - 1 PROVE ~Listed(f, r)' /\ ~Listed(bud, r)'
    <3>1. ~(Listed(f, r) /\ r # i)
      BY Zenon, <1>4, <1>10
    <3>2. ~Listed(bud, r)
      BY Zenon, <1>6, <1>10
    <3> QED BY <1>4, <1>8, <2>4, <3>1, <3>2
  <2>5. \A r \in Order : <<f, r>> \notin held /\ <<bud, r>> \notin held
    BY <1>4, <1>6, <1>10, <1>11
  <2>6. Listed(f, i - 1)' /\ Listed(bud, i - 1)'
    BY <1>2, <1>4, <1>8
  <2>7. ASSUME NEW g \in PFN PROVE is_free'[g] <=> \E r \in Order : Listed(g, r)'
    <3>1. CASE g = f \/ g = bud
      BY <1>2, <2>2, <2>6, <3>1
    <3>2. CASE g # f /\ g # bud
      BY <1>0, <2>1, <2>3, <3>2 DEF MarksTruthful
    <3> QED BY <3>1, <3>2
  <2>8. ASSUME NEW g \in PFN, NEW r \in Order, Listed(g, r)' \/ <<g, r>> \in held'
        PROVE  is_head'[g] /\ order'[g] = r
    <3>1. CASE g = f \/ g = bud
      BY Zenon, <1>0, <2>2, <2>4, <2>5, <2>8, <3>1
    <3>2. CASE g # f /\ g # bud
      BY <1>0, <2>1, <2>3, <2>8, <3>2 DEF MarksTruthful
    <3> QED BY <3>1, <3>2
  <2>9. ASSUME NEW g \in PFN, is_head'[g]
        PROVE  g \in free_area'[order'[g]] \/ <<g, order'[g]>> \in held'
    <3>1. CASE g = f \/ g = bud
      BY <2>2, <2>6, <3>1 DEF Listed
    <3>2. CASE g # f /\ g # bud
      <4>1. order[g] \in Order /\ order'[g] = order[g] /\ is_head[g]
        BY <1>0, <2>1, <2>9, <3>2 DEF TypeOK
      <4>2. Listed(g, order[g]) \/ <<g, order[g]>> \in held
        BY <1>0, <4>1 DEF MarksTruthful
      <4>3. \A r \in Order : Listed(g, r)' <=> Listed(g, r)
        BY <2>3, <3>2
      <4> QED BY <1>0, <4>1, <4>2, <4>3 DEF Listed
    <3> QED BY <3>1, <3>2
  <2> QED BY <2>7, <2>8, <2>9 DEF MarksTruthful, Listed
<1>17. LoopInv'
  BY <1>0, <1>2 DEF LoopInv, Order
<1>18. NoLeak'
  <2> SUFFICES ASSUME NEW x \in BUDDY_START .. NR_PAGES - 1
               PROVE  \E g \in PFN, r \in Order : Block(g, r)' /\ g <= x /\ x < g + Pow2[r]
    BY DEF NoLeak
  <2>1. PICK g \in PFN, r \in Order : Block(g, r) /\ g <= x /\ x < g + Pow2[r]
    BY <1>0 DEF NoLeak
  <2>2. CASE ~(g = f /\ r = i)
    BY <1>9, <1>13, <2>1, <2>2 DEF Block
  <2>3. CASE g = f /\ r = i
    <3>1. Block(f, i - 1)' /\ Block(bud, i - 1)'
      BY Zenon, <1>2, <1>4, <1>13
    <3>2. (f <= x /\ x < f + Pow2[i - 1]) \/ (bud <= x /\ x < bud + Pow2[i - 1])
      BY <1>2, <1>4, <1>5, <2>1, <2>3 DEF PFN
    <3> QED BY <1>2, <1>4, <3>1, <3>2
  <2> QED BY <2>2, <2>3
<1> QED BY <1>7, <1>14, <1>15, <1>16, <1>17, <1>18 DEF IInv

\* The last step of buddy_alloc moves one block from its list to the caller.
LEMMA PopStep == IInv /\ Pop => IInv'
<1> SUFFICES ASSUME IInv, Pop PROVE IInv'
  OBVIOUS
<1>0. /\ TypeOK /\ Inside /\ NoOverlap /\ NoLeak /\ MarksTruthful /\ LoopInv
      /\ pc = "split" /\ pc' = "idle"
      /\ UNCHANGED <<is_head, order, pfn, lvl, want>>
  BY DEF IInv, Pop
<1>1. PICK i \in Order : i = want
  BY <1>0 DEF TypeOK
<1>2. PICK f \in PFN :
         /\ Listed(f, i)
         /\ free_area' = [free_area EXCEPT ![i] = @ \ {f}]
         /\ is_free' = [is_free EXCEPT ![f] = FALSE]
         /\ held' = held \cup {<<f, i>>}
  BY Zenon, <1>0, <1>1 DEF Pop, Listed, ListDel, TypeOK
<1>3. TypeOK'
  BY <1>0, <1>2 DEF TypeOK
<1>4. \A g \in PFN, r \in Order :
        /\ Listed(g, r)' <=> Listed(g, r) /\ ~(g = f /\ r = i)
        /\ <<g, r>> \in held' <=> <<g, r>> \in held \/ (g = f /\ r = i)
        /\ ~Carried(g, r) /\ ~Carried(g, r)'
  BY <1>0, <1>2 DEF Listed, Carried, TypeOK
<1>5. \A g \in PFN, r \in Order : Block(g, r)' <=> Block(g, r)
  BY <1>2, <1>4 DEF Block
<1>6. Inside'
  BY <1>0, <1>5 DEF Inside
<1>7. NoOverlap'
  BY <1>0, <1>4, <1>5 DEF NoOverlap, Apart
<1>8. MarksTruthful'
  <2>1. ASSUME NEW r \in Order, Listed(f, r) PROVE r = i
    BY Zenon, <1>0, <1>2, <2>1 DEF MarksTruthful
  <2>2. \A g \in PFN : is_free'[g] <=> \E r \in Order : Listed(g, r)'
    BY <1>0, <1>2, <1>4, <2>1 DEF MarksTruthful, TypeOK
  <2>3. \A g \in PFN, r \in Order : Listed(g, r)' \/ <<g, r>> \in held' => is_head'[g] /\ order'[g] = r
    BY <1>0, <1>2, <1>4 DEF MarksTruthful
  <2>4. ASSUME NEW g \in PFN, is_head'[g]
        PROVE  g \in free_area'[order'[g]] \/ <<g, order'[g]>> \in held'
    <3>1. order[g] \in Order /\ order'[g] = order[g] /\ is_head[g]
      BY <1>0, <2>4 DEF TypeOK
    <3>2. Listed(g, order[g]) \/ <<g, order[g]>> \in held
      BY <1>0, <3>1 DEF MarksTruthful
    <3> QED BY <1>4, <3>1, <3>2 DEF Listed
  <2> QED BY <2>2, <2>3, <2>4 DEF MarksTruthful, Listed
<1>9. LoopInv'
  BY <1>0 DEF LoopInv
<1>10. NoLeak'
  BY <1>0, <1>5 DEF NoLeak
<1> QED BY <1>3, <1>6, <1>7, <1>8, <1>9, <1>10 DEF IInv

\* Giving a block back makes it the carried block of a merge.
LEMMA FreeStep == ASSUME IInv, NEW b \in held, Free(b) PROVE IInv'
<1>0. /\ TypeOK /\ Inside /\ NoOverlap /\ NoLeak /\ MarksTruthful /\ LoopInv
      /\ pc = "idle" /\ pc' = "merge"
      /\ UNCHANGED <<order, free_area, want>>
  BY DEF IInv, Free
<1>1. PICK f \in PFN, i \in Order : b = <<f, i>>
  BY <1>0 DEF TypeOK
<1>2. <<f, i>> \in held /\ is_head[f] /\ order[f] = i
  BY <1>0, <1>1 DEF MarksTruthful
<1>3. /\ held' = held \ {<<f, i>>} /\ pfn' = f /\ lvl' = i
      /\ is_free' = [is_free EXCEPT ![f] = FALSE]
      /\ is_head' = [is_head EXCEPT ![f] = FALSE]
  BY <1>1, <1>2 DEF Free
<1>4. f >= BUDDY_START /\ f + Pow2[i] <= NR_PAGES
  BY <1>0, <1>2 DEF Inside, Block
<1>5. TypeOK'
  BY <1>0, <1>3, <1>4, Pow2Facts DEF TypeOK, PFN
<1>6. \A g \in PFN, r \in Order :
        /\ Listed(g, r)' <=> Listed(g, r)
        /\ <<g, r>> \in held' <=> <<g, r>> \in held /\ ~(g = f /\ r = i)
        /\ ~Carried(g, r)
        /\ Carried(g, r)' <=> (g = f /\ r = i)
  BY <1>0, <1>3 DEF Listed, Carried
<1>7. \A g \in PFN, r \in Order : Block(g, r)' <=> Block(g, r)
  BY Zenon, <1>2, <1>6 DEF Block
<1>8. Inside'
  BY <1>0, <1>7 DEF Inside
<1>9. NoOverlap'
  BY Zenon, <1>0, <1>2, <1>6, <1>7 DEF NoOverlap, Apart
<1>10. MarksTruthful'
  <2>1. \A r \in Order : ~Listed(f, r) /\ (<<f, r>> \in held => r = i)
    BY <1>0, <1>2 DEF MarksTruthful, NoOverlap
  <2>2. ASSUME NEW g \in PFN PROVE is_free'[g] <=> \E r \in Order : Listed(g, r)'
    <3>1. CASE g = f
      <4>1. ~is_free'[g]
        BY <1>0, <1>3, <3>1 DEF TypeOK
      <4> QED BY Zenon, <1>6, <2>1, <3>1, <4>1
    <3>2. CASE g # f
      <4>1. is_free'[g] = is_free[g]
        BY <1>0, <1>3, <3>2 DEF TypeOK
      <4> QED BY Zenon, <1>0, <1>6, <4>1 DEF MarksTruthful
    <3> QED BY <3>1, <3>2
  <2>3. \A g \in PFN, r \in Order : Listed(g, r)' \/ <<g, r>> \in held' => is_head'[g] /\ order'[g] = r
    BY <1>0, <1>3, <1>6, <2>1 DEF MarksTruthful, TypeOK
  <2>4. ASSUME NEW g \in PFN, is_head'[g]
        PROVE  g \in free_area'[order'[g]] \/ <<g, order'[g]>> \in held'
    <3>1. order[g] \in Order /\ order'[g] = order[g] /\ is_head[g] /\ g # f
      BY <1>0, <1>3, <2>4 DEF TypeOK
    <3>2. Listed(g, order[g]) \/ <<g, order[g]>> \in held
      BY <1>0, <3>1 DEF MarksTruthful
    <3> QED BY <1>6, <3>1, <3>2 DEF Listed
  <2> QED BY <2>2, <2>3, <2>4 DEF MarksTruthful, Listed
<1>11. LoopInv'
  BY <1>0, <1>2, <1>3 DEF LoopInv
<1>12. NoLeak'
  BY <1>0, <1>7 DEF NoLeak
<1> QED BY <1>5, <1>8, <1>9, <1>10, <1>11, <1>12 DEF IInv

\* The merge ends: the carried block goes onto the list of its order.
LEMMA MergeDoneStep == IInv /\ MergeDone => IInv'
<1> SUFFICES ASSUME IInv, MergeDone PROVE IInv'
  OBVIOUS
<1>0. /\ TypeOK /\ Inside /\ NoOverlap /\ NoLeak /\ MarksTruthful /\ LoopInv
      /\ pc = "merge" /\ pc' = "idle"
      /\ UNCHANGED <<order, pfn, lvl, want, held>>
  BY DEF IInv, MergeDone
<1>1. PICK f \in PFN, i \in Order : f = pfn /\ i = lvl /\ order[f] = i
  BY <1>0 DEF TypeOK, LoopInv
<1>2. /\ is_free' = [is_free EXCEPT ![f] = TRUE]
      /\ is_head' = [is_head EXCEPT ![f] = TRUE]
      /\ free_area' = [free_area EXCEPT ![i] = @ \cup {f}]
  BY <1>1 DEF MergeDone, ListAdd
<1>3. TypeOK'
  BY <1>0, <1>2 DEF TypeOK
<1>4. \A g \in PFN, r \in Order :
        /\ Listed(g, r)' <=> Listed(g, r) \/ (g = f /\ r = i)
        /\ Carried(g, r) <=> (g = f /\ r = i)
        /\ ~Carried(g, r)'
  BY <1>0, <1>1, <1>2 DEF Listed, Carried, TypeOK
<1>5. \A g \in PFN, r \in Order : Block(g, r)' <=> Block(g, r)
  BY <1>0, <1>4 DEF Block
<1>6. Inside'
  BY <1>0, <1>5 DEF Inside
<1>7. NoOverlap'
  BY <1>0, <1>4, <1>5 DEF NoOverlap, Apart
<1>8. MarksTruthful'
  <2>1. ASSUME NEW r \in Order PROVE ~Listed(f, r) /\ <<f, r>> \notin held
    <3>1. Pow2[r] > 0 /\ Pow2[i] > 0 /\ Pow2[r] \in Nat /\ Pow2[i] \in Nat
      BY Pow2Facts
    <3>2. ~Apart(f, r, f, i)
      BY <3>1 DEF Apart, PFN
    <3>3. Carried(f, i)
      BY <1>4
    <3> QED BY Zenon, <1>0, <3>2, <3>3 DEF NoOverlap, Block
  <2>2. \A g \in PFN : is_free'[g] <=> \E r \in Order : Listed(g, r)'
    BY <1>0, <1>2, <1>4 DEF MarksTruthful, TypeOK
  <2>3. \A g \in PFN, r \in Order : Listed(g, r)' \/ <<g, r>> \in held' => is_head'[g] /\ order'[g] = r
    BY <1>0, <1>1, <1>2, <1>4, <2>1 DEF MarksTruthful, TypeOK
  <2>4. ASSUME NEW g \in PFN, is_head'[g]
        PROVE  g \in free_area'[order'[g]] \/ <<g, order'[g]>> \in held'
    <3>1. CASE g = f
      BY <1>0, <1>1, <1>4, <3>1 DEF Listed
    <3>2. CASE g # f
      <4>1. order[g] \in Order /\ order'[g] = order[g] /\ is_head[g]
        BY <1>0, <1>2, <2>4, <3>2 DEF TypeOK
      <4>2. Listed(g, order[g]) \/ <<g, order[g]>> \in held
        BY <1>0, <4>1 DEF MarksTruthful
      <4> QED BY <1>0, <1>4, <4>1, <4>2 DEF Listed
    <3> QED BY <3>1, <3>2
  <2> QED BY <2>2, <2>3, <2>4 DEF MarksTruthful, Listed
<1>9. LoopInv'
  BY <1>0 DEF LoopInv
<1>10. NoLeak'
  BY <1>0, <1>5 DEF NoLeak
<1> QED BY <1>3, <1>6, <1>7, <1>8, <1>9, <1>10 DEF IInv

\* The two halves of a block: the buddy is the other half, and the base is the
\* lower one.
LEMMA BuddyFacts ==
  ASSUME NEW f \in PFN, NEW i \in Order
  PROVE  \/ BuddyOf(f, i) = f - Pow2[i] /\ BaseOf(f, i) = f - Pow2[i]
         \/ BuddyOf(f, i) = f + Pow2[i] /\ BaseOf(f, i) = f
BY DEF BuddyOf, BaseOf

\* One turn of the merge loop: a listed buddy and the carried block become one
\* carried block of the next order.
LEMMA MergeStep == IInv /\ Merge => IInv'
<1> SUFFICES ASSUME IInv, Merge PROVE IInv'
  OBVIOUS
<1> USE Pow2Facts
<1>0. /\ TypeOK /\ Inside /\ NoOverlap /\ NoLeak /\ MarksTruthful /\ LoopInv
      /\ pc = "merge" /\ pc' = "merge"
      /\ UNCHANGED <<want, held>>
  BY DEF IInv, Merge
<1>1. PICK f \in PFN, i \in Order : f = pfn /\ i = lvl
  BY <1>0 DEF TypeOK, LoopInv
<1>2. /\ i + 1 \in Order /\ lvl' = i + 1 /\ Pow2[i + 1] = 2 * Pow2[i]
      /\ Pow2[i] \in Nat /\ Pow2[i] > 0
  BY <1>1 DEF Merge
<1>3. PICK bud \in PFN, base \in PFN :
        /\ bud = BuddyOf(f, i) /\ base = BaseOf(f, i) /\ Mergeable(bud, i)
        /\ free_area' = [free_area EXCEPT ![i] = @ \ {bud}]
        /\ is_free' = [is_free EXCEPT ![bud] = FALSE]
        /\ is_head' = [is_head EXCEPT ![bud] = FALSE]
        /\ order' = [order EXCEPT ![base] = i + 1]
        /\ pfn' = base
  <2>1. BuddyOf(f, i) \in PFN /\ Mergeable(BuddyOf(f, i), i)
    BY <1>1 DEF Merge
  <2>2. BaseOf(f, i) \in PFN
    BY <2>1, BuddyFacts
  <2> QED BY Zenon, <1>1, <2>1, <2>2 DEF Merge, ListDel
<1>4. Listed(bud, i)
  <2>1. PICK r \in Order : Listed(bud, r)
    BY <1>0, <1>3 DEF MarksTruthful, Mergeable
  <2>2. r = i
    BY Zenon, <1>0, <1>3, <2>1 DEF MarksTruthful, Mergeable
  <2> QED BY <2>1, <2>2
<1>5. \/ bud = f - Pow2[i] /\ base = bud
      \/ bud = f + Pow2[i] /\ base = f
  BY <1>3, BuddyFacts
<1>6. /\ bud >= BUDDY_START /\ bud + Pow2[i] <= NR_PAGES
      /\ f >= BUDDY_START /\ f + Pow2[i] <= NR_PAGES
      /\ Carried(f, i)
  BY Zenon, <1>0, <1>1, <1>4 DEF Inside, Block, Carried
<1>7. base >= BUDDY_START /\ base + Pow2[i + 1] <= NR_PAGES
  BY <1>2, <1>5, <1>6 DEF PFN
<1>8. TypeOK'
  <2>1. is_free' \in [PFN -> BOOLEAN] /\ is_head' \in [PFN -> BOOLEAN]
    BY Zenon, <1>0, <1>3 DEF TypeOK
  <2>2. order' \in [PFN -> Order] /\ lvl' \in Order
    BY Zenon, <1>0, <1>2, <1>3 DEF TypeOK
  <2>3. free_area' \in [Order -> SUBSET PFN]
    BY Zenon, <1>0, <1>3 DEF TypeOK
  <2>4. pfn' \in BUDDY_START .. NR_PAGES
    BY <1>3, <1>7 DEF PFN
  <2> QED BY Zenon, <1>0, <2>1, <2>2, <2>3, <2>4 DEF TypeOK
<1>9. \A g \in PFN, r \in Order :
        /\ Listed(g, r)' <=> Listed(g, r) /\ ~(g = bud /\ r = i)
        /\ Carried(g, r)' <=> (g = base /\ r = i + 1)
        /\ Carried(g, r) <=> (g = f /\ r = i)
  BY <1>0, <1>1, <1>2, <1>3 DEF Listed, Carried, TypeOK
<1>10. ASSUME NEW g \in PFN, NEW r \in Order,
              (Listed(g, r) /\ ~(g = bud /\ r = i)) \/ <<g, r>> \in held
       PROVE  Apart(g, r, base, i + 1) /\ g # bud /\ g # f /\ g # base
  <2>1. <<g, r>> # <<bud, i>> /\ <<g, r>> # <<f, i>>
    BY <1>0, <1>4, <1>6, <1>10 DEF NoOverlap
  <2>2. Apart(g, r, bud, i) /\ Apart(g, r, f, i)
    BY Zenon, <1>0, <1>4, <1>6, <1>10, <2>1 DEF NoOverlap, Block
  <2>3. Pow2[r] \in Nat /\ Pow2[r] > 0
    OBVIOUS
  <2> QED BY <1>2, <1>5, <2>2, <2>3 DEF Apart, PFN
<1>11. <<bud, i>> \notin held
  BY <1>0, <1>4 DEF NoOverlap
<1>12. \A g \in PFN, r \in Order :
         Block(g, r)' <=> \/ Listed(g, r) /\ ~(g = bud /\ r = i)
                          \/ <<g, r>> \in held
                          \/ g = base /\ r = i + 1
  BY <1>0, <1>9 DEF Block
<1>13. Inside'
  BY <1>0, <1>7, <1>12 DEF Inside, Block
<1>14. NoOverlap'
  <2>1. ASSUME NEW g \in PFN, NEW r \in Order, NEW h \in PFN, NEW q \in Order,
               Block(g, r)', Block(h, q)', <<g, r>> # <<h, q>>
        PROVE  Apart(g, r, h, q)
    <3>1. CASE g = base /\ r = i + 1
      <4>1. Apart(h, q, base, i + 1)
        BY Zenon, <1>10, <1>12, <2>1, <3>1
      <4> QED BY <3>1, <4>1 DEF Apart
    <3>2. CASE h = base /\ q = i + 1
      BY Zenon, <1>10, <1>12, <2>1, <3>2
    <3>3. CASE ~(g = base /\ r = i + 1) /\ ~(h = base /\ q = i + 1)
      BY <1>0, <1>12, <2>1, <3>3 DEF NoOverlap, Block
    <3> QED BY <3>1, <3>2, <3>3
  <2>2. ASSUME NEW g \in PFN, NEW r \in Order
        PROVE  /\ ~(Listed(g, r)' /\ <<g, r>> \in held')
               /\ ~(Listed(g, r)' /\ Carried(g, r)')
               /\ ~(<<g, r>> \in held' /\ Carried(g, r)')
    BY <1>0, <1>9, <1>10 DEF NoOverlap
  <2> QED BY <2>1, <2>2 DEF NoOverlap, Apart
<1>15. MarksTruthful'
  <2>1. ASSUME NEW r \in Order
        PROVE  ~Listed(bud, r)' /\ <<bud, r>> \notin held /\ ~Listed(base, r)' /\ <<base, r>> \notin held
    BY <1>9, <1>10
  <2>2. ASSUME NEW g \in PFN, g # bud
        PROVE  is_free'[g] = is_free[g] /\ is_head'[g] = is_head[g]
    BY <1>0, <1>3, <2>2 DEF TypeOK
  <2>3. ~is_free'[bud] /\ ~is_head'[bud]
    BY <1>0, <1>3 DEF TypeOK
  <2>4. ASSUME NEW g \in PFN PROVE is_free'[g] <=> \E r \in Order : Listed(g, r)'
    <3>1. CASE g = bud
      BY Zenon, <2>1, <2>3, <3>1
    <3>2. CASE g # bud
      BY Zenon, <1>0, <1>9, <2>2, <3>2 DEF MarksTruthful
    <3> QED BY <3>1, <3>2
  <2>5. ASSUME NEW g \in PFN, NEW r \in Order, Listed(g, r)' \/ <<g, r>> \in held'
        PROVE  is_head'[g] /\ order'[g] = r
    <3>1. g # bud /\ g # base
      BY Zenon, <1>0, <2>1, <2>5
    <3>2. order'[g] = order[g]
      BY Zenon, <1>0, <1>3, <3>1 DEF TypeOK
    <3> QED BY <1>0, <1>9, <2>2, <2>5, <3>1, <3>2 DEF MarksTruthful
  <2>6. ASSUME NEW g \in PFN, is_head'[g]
        PROVE  g \in free_area'[order'[g]] \/ <<g, order'[g]>> \in held'
    <3>1. g # bud /\ is_head[g] /\ order[g] \in Order
      BY <1>0, <2>2, <2>3, <2>6 DEF TypeOK
    <3>2. Listed(g, order[g]) \/ <<g, order[g]>> \in held
      BY <1>0, <3>1 DEF MarksTruthful
    <3>3. (Listed(g, order[g]) /\ ~(g = bud /\ order[g] = i)) \/ <<g, order[g]>> \in held
      BY <3>1, <3>2
    <3>4. g # base
      BY <1>10, <3>1, <3>3
    <3>5. order'[g] = order[g]
      BY <1>0, <1>3, <3>4 DEF TypeOK
    <3> QED BY <1>0, <1>9, <3>1, <3>3, <3>5 DEF Listed
  <2> QED BY <2>4, <2>5, <2>6 DEF MarksTruthful, Listed
<1>16. LoopInv'
  BY <1>0, <1>2, <1>3 DEF LoopInv, TypeOK
<1>17. NoLeak'
  <2> SUFFICES ASSUME NEW x \in BUDDY_START .. NR_PAGES - 1
               PROVE  \E g \in PFN, r \in Order : Block(g, r)' /\ g <= x /\ x < g + Pow2[r]
    BY DEF NoLeak
  <2>1. PICK g \in PFN, r \in Order : Block(g, r) /\ g <= x /\ x < g + Pow2[r]
    BY <1>0 DEF NoLeak
  <2>2. CASE ~(g = bud /\ r = i) /\ ~(g = f /\ r = i)
    BY <1>9, <1>12, <2>1, <2>2 DEF Block
  <2>3. CASE (g = bud \/ g = f) /\ r = i
    <3>1. Block(base, i + 1)'
      BY Zenon, <1>2, <1>12
    <3>2. base <= x /\ x < base + Pow2[i + 1]
      BY <1>2, <1>5, <2>1, <2>3 DEF PFN
    <3> QED BY <1>2, <3>1, <3>2
  <2> QED BY <2>2, <2>3
<1> QED BY <1>8, <1>13, <1>14, <1>15, <1>16, <1>17 DEF IInv

\* The inductive step for the whole next-state relation.
LEMMA IInvStep == IInv /\ [Next]_vars => IInv'
  BY QuietStep, CarveStep, SplitStep, PopStep, FreeStep, MergeStep, MergeDoneStep DEF Next

\* The inductive invariant holds in every state of the allocator.
LEMMA IInvAlways == Spec => []IInv
  BY IInvInit, IInvStep, PTL DEF Spec

\* Type correctness of the allocator's state.
THEOREM BuddyTypeOK == Spec => []TypeOK
  BY IInvAlways, PTL DEF IInv

\* buddy_alloc never hands out a frame that is in another block, free or in
\* use, and no split or merge makes two blocks overlap.
THEOREM BuddyNoOverlap == Spec => []NoOverlap
  BY IInvAlways, PTL DEF IInv

\* No sequence of allocations and frees loses a frame of the managed range.
THEOREM BuddyNoLeak == Spec => []NoLeak
  BY IInvAlways, PTL DEF IInv

\* What the merge test reads from pages[] is what the lists contain.
THEOREM BuddyMarksTruthful == Spec => []MarksTruthful
  BY IInvAlways, PTL DEF IInv
-----------------------------------------------------------------------------
(* Multiples of a block size. *)

\* f is a multiple of p.
Mult(f, p) == \E k \in Nat : f = k * p

\* What % and \div mean.
LEMMA Division ==
    ASSUME NEW f \in Nat, NEW p \in Nat, p > 0
    PROVE  /\ f % p \in Nat /\ f % p < p /\ f \div p \in Nat
           /\ f = (f \div p) * p + (f % p)
<1>1. f % p \in Nat /\ f % p < p
  BY SMT
<1>2. f \div p \in Int /\ f \div p >= 0
  BY SMT
<1>3. f = p * (f \div p) + (f % p)
  BY SMT
<1>4. PICK k \in Nat : k = f \div p
  BY <1>2
<1>5. p * k = k * p
  OBVIOUS
<1> QED BY <1>1, <1>2, <1>3, <1>4, <1>5

\* A number is k times p, for one k, plus a remainder less than p.
LEMMA Unique ==
    ASSUME NEW p \in Nat, p > 0, NEW k \in Nat, NEW l \in Nat, NEW r \in Nat, NEW s \in Nat,
           r < p, s < p, k * p + r = l * p + s
    PROVE  k = l /\ r = s
<1>1. ASSUME k > l PROVE FALSE
  <2>1. PICK d \in Nat : k = l + 1 + d
    BY <1>1
  <2>2. k * p = l * p + p + d * p
    BY <2>1
  <2>3. d * p >= 0 /\ l * p \in Nat /\ d * p \in Nat
    OBVIOUS
  <2> QED BY <2>2, <2>3
<1>2. ASSUME l > k PROVE FALSE
  <2>1. PICK d \in Nat : l = k + 1 + d
    BY <1>2
  <2>2. l * p = k * p + p + d * p
    BY <2>1
  <2>3. d * p >= 0 /\ k * p \in Nat /\ d * p \in Nat
    OBVIOUS
  <2> QED BY <2>2, <2>3
<1>3. k = l
  BY <1>1, <1>2
<1>4. k * p \in Nat
  OBVIOUS
<1> QED BY <1>3, <1>4

\* Remainder 0 means a multiple.
LEMMA ModMult ==
    ASSUME NEW f \in Nat, NEW p \in Nat, p > 0
    PROVE  f % p = 0 <=> Mult(f, p)
<1>1. ASSUME f % p = 0 PROVE Mult(f, p)
  <2>1. f = (f \div p) * p /\ f \div p \in Nat
    BY <1>1, Division
  <2> QED BY <2>1 DEF Mult
<1>2. ASSUME Mult(f, p) PROVE f % p = 0
  <2>1. PICK k \in Nat : f = k * p
    BY <1>2 DEF Mult
  <2>2. /\ f % p \in Nat /\ f % p < p /\ f \div p \in Nat
        /\ f = (f \div p) * p + (f % p)
    BY Division
  <2>3. k * p + 0 = (f \div p) * p + (f % p)
    BY <2>1, <2>2
  <2> QED BY Zenon, <2>2, <2>3, Unique
<1> QED BY <1>1, <1>2

\* Dividing a multiple gives its factor.
LEMMA DivMult ==
    ASSUME NEW p \in Nat, p > 0, NEW k \in Nat
    PROVE  (k * p) \div p = k
<1>1. PICK f \in Nat : f = k * p
  OBVIOUS
<1>2. /\ f % p \in Nat /\ f % p < p /\ f \div p \in Nat
        /\ f = (f \div p) * p + (f % p)
  BY Division
<1>3. k * p + 0 = (f \div p) * p + (f % p)
  BY <1>1, <1>2
<1> QED BY <1>1, <1>2, <1>3, Unique

\* Sums and differences of multiples.
LEMMA MultSum ==
    ASSUME NEW f \in Nat, NEW g \in Nat, NEW p \in Nat, Mult(f, p), Mult(g, p)
    PROVE  /\ Mult(f + g, p)
           /\ f >= g => Mult(f - g, p)
<1>1. PICK k \in Nat, l \in Nat : f = k * p /\ g = l * p
  BY Zenon DEF Mult
<1>2. f + g = (k + l) * p /\ k + l \in Nat
  BY <1>1
<1>3. ASSUME f >= g PROVE Mult(f - g, p)
  <2>1. CASE k >= l
    <3>1. f - g = (k - l) * p /\ k - l \in Nat
      BY <1>1, <2>1
    <3> QED BY Zenon, <3>1 DEF Mult
  <2>2. CASE k < l
    <3>1. PICK d \in Nat : l = k + d
      BY <2>2
    <3>2. g = f + d * p /\ d * p \in Nat
      BY <1>1, <3>1
    <3>3. f - g = 0 /\ 0 = 0 * p
      BY <1>3, <3>2
    <3> QED BY <3>3 DEF Mult
  <2> QED BY <2>1, <2>2
<1> QED BY <1>2, <1>3 DEF Mult

\* The least positive multiple of p is p.
LEMMA MultLeast ==
    ASSUME NEW f \in Nat, NEW p \in Nat, p > 0, Mult(f, p), f > 0
    PROVE  f >= p
<1>1. PICK k \in Nat : f = k * p
  BY DEF Mult
<1>2. k > 0
  BY <1>1
<1>3. PICK d \in Nat : k = d + 1
  BY <1>2
<1>4. f = d * p + p /\ d * p \in Nat
  BY <1>1, <1>3
<1> QED BY <1>4

\* A multiple of a multiple.
LEMMA MultTrans ==
    ASSUME NEW f \in Nat, NEW p \in Nat, NEW q \in Nat, Mult(f, p), Mult(p, q)
    PROVE  Mult(f, q)
<1>1. PICK k \in Nat, l \in Nat : f = k * p /\ p = l * q
  BY Zenon DEF Mult
<1>2. f = (k * l) * q /\ k * l \in Nat
  BY <1>1
<1> QED BY Zenon, <1>2 DEF Mult

\* The parity of the factor tells whether a multiple of p is one of 2p.
LEMMA MultTwice ==
    ASSUME NEW f \in Nat, NEW p \in Nat, p > 0, Mult(f, p)
    PROVE  /\ (f \div p) % 2 = 1 => f >= p /\ Mult(f - p, 2 * p) /\ ~Mult(f, 2 * p)
           /\ (f \div p) % 2 # 1 => Mult(f, 2 * p)
<1>1. PICK k \in Nat : f = k * p
  BY DEF Mult
<1>2. f \div p = k
  BY <1>1, DivMult
<1>3. CASE k % 2 = 1
  <2>1. PICK j \in Nat : k = 2 * j + 1
    BY <1>3
  <2>2. f = j * (2 * p) + p /\ j * (2 * p) \in Nat
    BY <1>1, <2>1
  <2>3. f >= p /\ f - p = j * (2 * p)
    BY <2>2
  <2>4. ASSUME NEW l \in Nat, f = l * (2 * p) PROVE FALSE
    <3>1. PICK q \in Nat : q = 2 * p
      OBVIOUS
    <3>2. j * q + p = l * q + 0 /\ p < q /\ q > 0
      BY <2>2, <2>4, <3>1
    <3>3. p = 0
      BY <3>2, Unique
    <3> QED BY <3>3
  <2> QED BY <1>2, <1>3, <2>3, <2>4 DEF Mult
<1>4. CASE k % 2 # 1
  <2>1. PICK j \in Nat : k = 2 * j
    BY <1>4
  <2>2. f = j * (2 * p)
    BY <1>1, <2>1
  <2> QED BY <1>2, <1>4, <2>2 DEF Mult
<1> QED BY <1>3, <1>4

\* The first multiples.
LEMMA MultRefl == ASSUME NEW p \in Nat PROVE Mult(p, p) /\ Mult(2 * p, p) /\ Mult(0, p)
<1>1. p = 1 * p /\ 2 * p = 2 * p /\ 0 = 0 * p
  OBVIOUS
<1> QED BY <1>1 DEF Mult

\* A relation that contains < has minimal elements: so has <.
LEMMA LeastOf ==
    ASSUME NEW R, NEW T, T \subseteq Nat,
           \E x \in T : \A y \in T : ~ (<<y, x>> \in R),
           \A x, y \in Nat : x < y => <<x, y>> \in R
    PROVE  \E x \in T : \A y \in T : x <= y
<1>1. PICK x \in T : \A y \in T : ~ (<<y, x>> \in R)
  OBVIOUS
<1>2. \A y \in T : ~(y < x)
  BY <1>1, Zenon
<1>3. \A y \in T : y \in Nat /\ x \in Nat
  OBVIOUS
<1>4. \A y \in T : x <= y
  BY <1>2, <1>3, SMT
<1> QED
  BY <1>4

\* A set of orders that is not empty has a least one.
LEMMA LeastOrder ==
    ASSUME NEW T, T \subseteq Nat, T # {}
    PROVE  \E x \in T : \A y \in T : x <= y
<1>1. \A x, y \in Nat : x < y => <<x, y>> \in OpToRel(<, Nat)
  BY DEF OpToRel
<1>2. \E x \in T : \A y \in T : ~ (<<y, x>> \in OpToRel(<, Nat))
  BY Zenon, WFMin, NatLessThanWellFounded
<1> QED
  BY Zenon, <1>1, <1>2, LeastOf
-----------------------------------------------------------------------------
(* Alignment of blocks. *)

\* f is a place for a block of order o.
Al(f, o) == Mult(f, Pow2[o])

\* Alignment as the code and the model test it.
LEMMA AlMod ==
    ASSUME NEW f \in Nat, NEW o \in Order
    PROVE  f % Pow2[o] = 0 <=> Al(f, o)
BY Pow2Facts, ModMult DEF Al

\* A large block is a whole number of smaller ones.
LEMMA PowDivides ==
    ASSUME NEW a \in Order, NEW b \in Order, a <= b
    PROVE  Mult(Pow2[b], Pow2[a])
<1> DEFINE T == {c \in Order : a <= c /\ ~Mult(Pow2[c], Pow2[a])}
<1>0. Order \subseteq Nat
  BY Pow2Facts DEF Order
<1>1. SUFFICES ASSUME T # {} PROVE FALSE
  OBVIOUS
<1>2. PICK c \in T : \A d \in T : c <= d
  BY Zenon, <1>0, <1>1, LeastOrder
<1>3. c # a
  BY Pow2Facts, MultRefl
<1>4. c \in Order /\ c > 0 /\ c - 1 \in Order /\ a <= c - 1 /\ Pow2[c] = 2 * Pow2[c - 1]
  BY <1>0, <1>3, Pow2Facts
<1>5. c - 1 \notin T
  BY <1>0, <1>2, <1>4
<1>6. Mult(Pow2[c - 1], Pow2[a])
  BY <1>4, <1>5
<1>7. Mult(Pow2[c], Pow2[c - 1])
  BY <1>4, Pow2Facts, MultRefl
<1>8. Mult(Pow2[c], Pow2[a])
  BY <1>4, <1>6, <1>7, Pow2Facts, MultTrans
<1> QED BY <1>8

\* A block that is aligned for an order is so for the smaller ones.
LEMMA AlDown ==
    ASSUME NEW f \in Nat, NEW a \in Order, NEW b \in Order, a <= b, Al(f, b)
    PROVE  Al(f, a)
BY PowDivides, Pow2Facts, MultTrans DEF Al

\* Two aligned blocks of one order are the same or apart.
LEMMA AlSame ==
    ASSUME NEW f \in Nat, NEW g \in Nat, NEW a \in Order, Al(f, a), Al(g, a),
           f <= g, g < f + Pow2[a]
    PROVE  f = g
<1>1. Pow2[a] \in Nat /\ Pow2[a] > 0
  BY Pow2Facts
<1>2. Mult(g - f, Pow2[a]) /\ g - f \in Nat
  BY <1>1, MultSum DEF Al
<1>3. ~(g - f > 0)
  <2> SUFFICES ASSUME g - f > 0 PROVE FALSE
    OBVIOUS
  <2>1. g - f >= Pow2[a]
    BY <1>1, <1>2, MultLeast
  <2> QED BY <1>1, <2>1
<1> QED BY <1>3

\* A block that begins inside a larger one ends inside it.
LEMMA AlIn ==
    ASSUME NEW x \in Nat, NEW b \in Nat, NEW a \in Order, NEW s \in Order, a <= s,
           Al(x, a), Al(b, s), b <= x, x < b + Pow2[s]
    PROVE  x + Pow2[a] <= b + Pow2[s]
<1>1. Pow2[a] \in Nat /\ Pow2[a] > 0 /\ Pow2[s] \in Nat /\ Pow2[s] > 0
  BY Pow2Facts
<1>2. Mult(b, Pow2[a]) /\ Mult(Pow2[s], Pow2[a])
  BY AlDown, PowDivides DEF Al
<1>3. PICK e \in Nat : e = b + Pow2[s]
  BY <1>1
<1>4. Mult(e, Pow2[a])
  BY <1>1, <1>2, <1>3, MultSum
<1>5. Mult(e - x, Pow2[a]) /\ e - x \in Nat /\ e - x > 0
  <2>1. e >= x /\ e - x \in Nat /\ e - x > 0
    BY <1>1, <1>3
  <2>2. Mult(x, Pow2[a])
    BY DEF Al
  <2>3. Mult(e - x, Pow2[a])
    BY <1>1, <1>4, <2>1, <2>2, MultSum
  <2> QED BY <2>1, <2>3
<1>6. e - x >= Pow2[a]
  BY <1>1, <1>5, MultLeast
<1> QED BY <1>1, <1>3, <1>6

\* The two halves of a block.
LEMMA AlHalf ==
    ASSUME NEW f \in Nat, NEW o \in Order, o > 0, Al(f, o)
    PROVE  /\ o - 1 \in Order /\ Al(f, o - 1) /\ Al(f + Pow2[o - 1], o - 1)
           /\ BuddyOf(f, o - 1) = f + Pow2[o - 1]
<1>1. o - 1 \in Order /\ Pow2[o] = 2 * Pow2[o - 1] /\ Pow2[o - 1] \in Nat /\ Pow2[o - 1] > 0
  BY Pow2Facts
<1>2. Al(f, o - 1)
  BY <1>1, AlDown DEF Order
<1>3. Mult(f + Pow2[o - 1], Pow2[o - 1])
  BY Zenon, <1>1, <1>2, MultRefl, MultSum DEF Al
<1>4. (f \div Pow2[o - 1]) % 2 # 1
  BY <1>1, <1>2, MultTwice DEF Al
<1> QED BY <1>1, <1>2, <1>3, <1>4 DEF Al, BuddyOf, IsUpper

\* A block is the upper or the lower half of the block above.
LEMMA AlBuddy ==
    ASSUME NEW f \in Nat, NEW o \in Order, o < MAX_ORDER - 1, Al(f, o)
    PROVE  \/ /\ BuddyOf(f, o) = f - Pow2[o] /\ BaseOf(f, o) = f - Pow2[o]
              /\ f >= Pow2[o] /\ Al(f - Pow2[o], o + 1) /\ ~Al(f, o + 1)
           \/ /\ BuddyOf(f, o) = f + Pow2[o] /\ BaseOf(f, o) = f
              /\ Al(f, o + 1)
<1>1. Pow2[o + 1] = 2 * Pow2[o] /\ Pow2[o] \in Nat /\ Pow2[o] > 0
  BY Pow2Facts
<1>2. CASE IsUpper(f, o)
  <2>1. f >= Pow2[o] /\ Mult(f - Pow2[o], 2 * Pow2[o]) /\ ~Mult(f, 2 * Pow2[o])
    BY <1>1, <1>2, MultTwice DEF IsUpper, Al
  <2> QED BY <1>1, <1>2, <2>1 DEF BuddyOf, BaseOf, Al
<1>3. CASE ~IsUpper(f, o)
  <2>1. Mult(f, 2 * Pow2[o])
    BY <1>1, <1>3, MultTwice DEF IsUpper, Al
  <2> QED BY <1>1, <1>3, <2>1 DEF BuddyOf, BaseOf, Al
<1> QED BY <1>2, <1>3

\* The buddy of the buddy is the block itself.
LEMMA BuddyBack ==
    ASSUME NEW f \in Nat, NEW o \in Order, o < MAX_ORDER - 1, Al(f, o)
    PROVE  /\ BuddyOf(f, o) \in Nat /\ Al(BuddyOf(f, o), o)
           /\ BuddyOf(BuddyOf(f, o), o) = f
<1>1. /\ o + 1 \in Order /\ Pow2[o + 1] = 2 * Pow2[o] /\ Pow2[o] \in Nat /\ Pow2[o] > 0
      /\ o <= o + 1
  BY Pow2Facts DEF Order
<1>2. CASE /\ BuddyOf(f, o) = f - Pow2[o]
           /\ f >= Pow2[o] /\ Al(f - Pow2[o], o + 1) /\ ~Al(f, o + 1)
  <2>1. PICK g \in Nat : g = f - Pow2[o]
    BY <1>1, <1>2
  <2>2. Al(g, o + 1) /\ Al(g, o)
    BY <1>1, <1>2, <2>1, AlDown
  <2>3. BuddyOf(g, o) = g + Pow2[o]
    BY <2>2, AlBuddy
  <2> QED BY <1>1, <1>2, <2>1, <2>2, <2>3
<1>3. CASE BuddyOf(f, o) = f + Pow2[o] /\ Al(f, o + 1)
  <2>1. PICK g \in Nat : g = f + Pow2[o]
    BY <1>1
  <2>2. Al(g, o)
    BY Zenon, <1>1, <2>1, MultSum, MultRefl DEF Al
  <2>3. ~Al(g, o + 1)
    <3> SUFFICES ASSUME Al(g, o + 1) PROVE FALSE
      OBVIOUS
    <3>1. f = g
      BY <1>1, <1>3, <2>1, AlSame
    <3> QED BY <1>1, <2>1, <3>1
  <2>4. BuddyOf(g, o) = g - Pow2[o]
    BY <2>2, <2>3, AlBuddy
  <2> QED BY <1>1, <1>3, <2>1, <2>2, <2>4
<1> QED BY <1>2, <1>3, AlBuddy
-----------------------------------------------------------------------------
(* What each step does to the lists. *)

\* Carving adds the largest block that fits.
LEMMA CarveChange ==
    ASSUME IInv, Carve
    PROVE  \E f \in PFN, o \in Order :
             /\ f = pfn /\ Fits(f, o) /\ (o = MAX_ORDER - 1 \/ ~Fits(f, o + 1))
             /\ \A g \in PFN, r \in Order : Listed(g, r)' <=> Listed(g, r) \/ (g = f /\ r = o)
             /\ pc = "init" /\ pc' = "init" /\ held' = held
<1>1. PICK o \in Order :
         /\ Fits(pfn, o) /\ (o = MAX_ORDER - 1 \/ ~Fits(pfn, o + 1))
         /\ free_area' = [free_area EXCEPT ![o] = @ \cup {pfn}]
  BY Zenon DEF Carve, ListAdd
<1>2. /\ pc = "init" /\ pc' = "init" /\ held' = held /\ pfn \in PFN
      /\ free_area \in [Order -> SUBSET PFN]
  BY Pow2Facts DEF Carve, IInv, TypeOK, PFN
<1>3. PICK f \in PFN : f = pfn
  BY <1>2
<1>4. \A g \in PFN, r \in Order : Listed(g, r)' <=> Listed(g, r) \/ (g = f /\ r = o)
  BY Zenon, <1>1, <1>2, <1>3 DEF Listed
<1> QED BY <1>1, <1>2, <1>3, <1>4

\* A split takes one block off its list and puts two on the one below.
LEMMA SplitChange ==
    ASSUME IInv, Split
    PROVE  \E f \in PFN, b \in PFN, i \in Order :
             /\ i = lvl /\ i > want /\ i - 1 \in Order /\ lvl' = i - 1 /\ want' = want
             /\ want \in Order
             /\ Listed(f, i) /\ b = f + Pow2[i - 1]
             /\ \A g \in PFN, r \in Order :
                  Listed(g, r)' <=> \/ Listed(g, r) /\ ~(g = f /\ r = i)
                                    \/ g \in {f, b} /\ r = i - 1
             /\ pc = "split" /\ pc' = "split" /\ held' = held
<1>0. TypeOK /\ Inside /\ pc = "split" /\ pc' = "split" /\ held' = held /\ want' = want
  BY DEF IInv, Split
<1>1. PICK i \in Order : i = lvl
  BY Zenon, <1>0 DEF TypeOK
<1>2. /\ want \in Order /\ i > want /\ lvl' = i - 1
      /\ i > 0 /\ i - 1 \in Order /\ Pow2[i] = 2 * Pow2[i - 1]
      /\ Pow2[i - 1] \in Nat /\ Pow2[i - 1] > 0
  BY <1>0, <1>1, Pow2Facts DEF Split, TypeOK, Order
<1>3. PICK f \in free_area[i] :
         free_area' = [free_area EXCEPT ![i] = @ \ {f}, ![i - 1] = @ \cup {UpperHalf(f, i), f}]
  BY Zenon, <1>1 DEF Split
<1>4. f \in PFN /\ Listed(f, i) /\ f + Pow2[i] <= NR_PAGES
  BY Zenon, <1>0, <1>3 DEF TypeOK, Listed, Inside, Block
<1>5. PICK b \in PFN : b = f + Pow2[i - 1]
  BY <1>2, <1>4, Pow2Facts DEF PFN
<1>6. \A g \in PFN, r \in Order :
        Listed(g, r)' <=> \/ Listed(g, r) /\ ~(g = f /\ r = i)
                          \/ g \in {f, b} /\ r = i - 1
  BY <1>0, <1>2, <1>3, <1>4, <1>5 DEF Listed, TypeOK, UpperHalf
<1> QED BY <1>0, <1>1, <1>2, <1>4, <1>5, <1>6

\* The pop moves one block to the caller.
LEMMA PopChange ==
    ASSUME IInv, Pop
    PROVE  \E f \in PFN, i \in Order :
             /\ i = want /\ i = lvl /\ Listed(f, i)
             /\ \A g \in PFN, r \in Order :
                  /\ Listed(g, r)' <=> Listed(g, r) /\ ~(g = f /\ r = i)
                  /\ <<g, r>> \in held' <=> <<g, r>> \in held \/ (g = f /\ r = i)
             /\ pc = "split" /\ pc' = "idle"
<1>0. TypeOK /\ pc = "split" /\ pc' = "idle" /\ lvl = want
  BY DEF IInv, Pop
<1>1. PICK i \in Order : i = want
  BY <1>0 DEF TypeOK
<1>2. PICK f \in PFN :
         /\ Listed(f, i)
         /\ free_area' = [free_area EXCEPT ![i] = @ \ {f}]
         /\ held' = held \cup {<<f, i>>}
  BY Zenon, <1>0, <1>1 DEF Pop, Listed, ListDel, TypeOK
<1>3. \A g \in PFN, r \in Order :
        /\ Listed(g, r)' <=> Listed(g, r) /\ ~(g = f /\ r = i)
        /\ <<g, r>> \in held' <=> <<g, r>> \in held \/ (g = f /\ r = i)
  BY <1>0, <1>2 DEF Listed, TypeOK
<1> QED BY <1>0, <1>1, <1>2, <1>3

\* A free leaves the lists alone.
LEMMA FreeChange ==
    ASSUME IInv, NEW b \in held, Free(b)
    PROVE  \E f \in PFN, i \in Order :
             /\ <<f, i>> \in held /\ pfn' = f /\ lvl' = i
             /\ \A g \in PFN, r \in Order :
                  /\ Listed(g, r)' <=> Listed(g, r)
                  /\ <<g, r>> \in held' => <<g, r>> \in held
             /\ pc = "idle" /\ pc' = "merge"
<1>0. TypeOK /\ MarksTruthful /\ pc = "idle" /\ pc' = "merge" /\ free_area' = free_area
  BY DEF IInv, Free
<1>1. PICK f \in PFN, i \in Order : b = <<f, i>>
  BY <1>0 DEF TypeOK
<1>2. <<f, i>> \in held /\ order[f] = i
  BY <1>0, <1>1 DEF MarksTruthful
<1>3. held' = held \ {<<f, i>>} /\ pfn' = f /\ lvl' = i
  BY <1>1, <1>2 DEF Free
<1> QED BY Zenon, <1>0, <1>2, <1>3 DEF Listed

\* A turn of the merge takes the buddy off its list.
LEMMA MergeChange ==
    ASSUME IInv, Merge
    PROVE  \E f \in PFN, b \in PFN, i \in Order :
             /\ f = pfn /\ i = lvl /\ i < MAX_ORDER - 1 /\ i + 1 \in Order
             /\ b = BuddyOf(f, i) /\ pfn' = BaseOf(f, i) /\ lvl' = i + 1
             /\ Listed(b, i)
             /\ \A g \in PFN, r \in Order :
                  Listed(g, r)' <=> Listed(g, r) /\ ~(g = b /\ r = i)
             /\ pc = "merge" /\ pc' = "merge" /\ held' = held
<1>0. /\ TypeOK /\ MarksTruthful /\ LoopInv
      /\ pc = "merge" /\ pc' = "merge" /\ held' = held
  BY DEF IInv, Merge
<1>1. PICK f \in PFN, i \in Order : f = pfn /\ i = lvl
  BY <1>0 DEF TypeOK, LoopInv
<1>2. i < MAX_ORDER - 1 /\ i + 1 \in Order /\ lvl' = i + 1
  BY <1>1, Pow2Facts DEF Merge
<1>3. PICK b \in PFN :
        /\ b = BuddyOf(f, i) /\ Mergeable(b, i)
        /\ free_area' = [free_area EXCEPT ![i] = @ \ {b}]
        /\ pfn' = BaseOf(f, i)
  BY Zenon, <1>1 DEF Merge, ListDel
<1>4. Listed(b, i)
  <2>1. PICK r \in Order : Listed(b, r)
    BY Zenon, <1>0, <1>3 DEF MarksTruthful, Mergeable
  <2>2. r = i
    BY Zenon, <1>0, <1>3, <2>1 DEF MarksTruthful, Mergeable
  <2> QED BY Zenon, <2>1, <2>2
<1>5. \A g \in PFN, r \in Order : Listed(g, r)' <=> Listed(g, r) /\ ~(g = b /\ r = i)
  BY <1>0, <1>3 DEF Listed, TypeOK
<1> QED BY <1>0, <1>1, <1>2, <1>3, <1>4, <1>5

\* The end of the merge adds a block whose buddy is not on the list.
LEMMA MergeDoneChange ==
    ASSUME IInv, MergeDone
    PROVE  \E f \in PFN, i \in Order :
             /\ f = pfn /\ i = lvl /\ Carried(f, i)
             /\ i < MAX_ORDER - 1 /\ BuddyOf(f, i) \in PFN => ~Listed(BuddyOf(f, i), i)
             /\ \A g \in PFN, r \in Order :
                  Listed(g, r)' <=> Listed(g, r) \/ (g = f /\ r = i)
             /\ pc = "merge" /\ pc' = "idle" /\ held' = held
<1>0. /\ TypeOK /\ MarksTruthful /\ LoopInv
      /\ pc = "merge" /\ pc' = "idle" /\ held' = held /\ MergeStops
  BY DEF IInv, MergeDone
<1>1. PICK f \in PFN, i \in Order : f = pfn /\ i = lvl
  BY <1>0 DEF TypeOK, LoopInv
<1>2. free_area' = [free_area EXCEPT ![i] = @ \cup {f}]
  BY <1>1 DEF MergeDone, ListAdd
<1>3. \A g \in PFN, r \in Order : Listed(g, r)' <=> Listed(g, r) \/ (g = f /\ r = i)
  BY <1>0, <1>2 DEF Listed, TypeOK
<1>4. ASSUME i < MAX_ORDER - 1, BuddyOf(f, i) \in PFN PROVE ~Listed(BuddyOf(f, i), i)
  <2>1. ~Mergeable(BuddyOf(f, i), i)
    BY <1>0, <1>1, <1>4 DEF MergeStops, Order
  <2> QED BY Zenon, <1>0, <1>4, <2>1 DEF MarksTruthful, Mergeable
<1>5. Carried(f, i)
  BY <1>0, <1>1 DEF Carried
<1> QED BY <1>0, <1>1, <1>3, <1>4, <1>5
-----------------------------------------------------------------------------
\* Blocks are aligned.
AlignedInv == \A f \in PFN, o \in Order : Block(f, o) => Al(f, o)

\* Every step keeps blocks aligned: a split and a merge use the halves of a
\* block, carving tests it, and nothing else makes a block.
LEMMA AlignedStep == IInv /\ AlignedInv /\ [Next]_vars => AlignedInv'
<1> SUFFICES ASSUME IInv, AlignedInv, [Next]_vars PROVE AlignedInv'
  OBVIOUS
<1>0. PFN \subseteq Nat
  BY Pow2Facts DEF PFN
<1>1. CASE Carve
  <2>1. PICK f \in PFN, o \in Order :
             /\ Fits(f, o)
             /\ \A g \in PFN, r \in Order : Listed(g, r)' <=> Listed(g, r) \/ (g = f /\ r = o)
             /\ pc' = "init" /\ held' = held
    BY <1>1, CarveChange
  <2>2. Al(f, o)
    BY <1>0, <2>1, AlMod DEF Fits
  <2>3. \A g \in PFN, r \in Order : ~Carried(g, r)'
    BY <2>1 DEF Carried
  <2> QED BY <2>1, <2>2, <2>3 DEF AlignedInv, Block
<1>2. CASE Split
  <2>1. PICK f \in PFN, b \in PFN, i \in Order :
             /\ i = lvl /\ i > want /\ want \in Order
             /\ Listed(f, i) /\ b = f + Pow2[i - 1]
             /\ \A g \in PFN, r \in Order :
                  Listed(g, r)' <=> \/ Listed(g, r) /\ ~(g = f /\ r = i)
                                    \/ g \in {f, b} /\ r = i - 1
             /\ pc' = "split" /\ held' = held
    BY <1>2, SplitChange
  <2>5. Al(f, i)
    BY Zenon, <2>1 DEF AlignedInv, Block
  <2>6. i > 0
    BY <2>1, Pow2Facts DEF Order
  <2>2. Al(f, i) /\ i > 0
    BY <2>5, <2>6
  <2>3. Al(f, i - 1) /\ Al(b, i - 1)
    BY <1>0, <2>1, <2>2, AlHalf
  <2>4. \A g \in PFN, r \in Order : ~Carried(g, r)'
    BY <2>1 DEF Carried
  <2> QED BY <2>1, <2>3, <2>4 DEF AlignedInv, Block
<1>3. CASE Pop
  <2>1. PICK f \in PFN, i \in Order :
             /\ Listed(f, i)
             /\ \A g \in PFN, r \in Order :
                  /\ Listed(g, r)' <=> Listed(g, r) /\ ~(g = f /\ r = i)
                  /\ <<g, r>> \in held' <=> <<g, r>> \in held \/ (g = f /\ r = i)
             /\ pc' = "idle"
    BY <1>3, PopChange
  <2>2. \A g \in PFN, r \in Order : ~Carried(g, r)'
    BY <2>1 DEF Carried
  <2> QED BY <2>1, <2>2 DEF AlignedInv, Block
<1>4. ASSUME NEW b \in held, Free(b) PROVE AlignedInv'
  <2>1. PICK f \in PFN, i \in Order :
             /\ <<f, i>> \in held /\ pfn' = f /\ lvl' = i
             /\ \A g \in PFN, r \in Order :
                  /\ Listed(g, r)' <=> Listed(g, r)
                  /\ <<g, r>> \in held' => <<g, r>> \in held
    BY Zenon, <1>4, FreeChange
  <2>2. \A g \in PFN, r \in Order : Carried(g, r)' => g = f /\ r = i
    BY <2>1 DEF Carried
  <2> QED BY <2>1, <2>2 DEF AlignedInv, Block
<1>5. CASE Merge
  <2>1. PICK f \in PFN, b \in PFN, i \in Order :
             /\ f = pfn /\ i = lvl /\ i < MAX_ORDER - 1 /\ i + 1 \in Order
             /\ pfn' = BaseOf(f, i) /\ lvl' = i + 1
             /\ \A g \in PFN, r \in Order :
                  Listed(g, r)' <=> Listed(g, r) /\ ~(g = b /\ r = i)
             /\ pc = "merge" /\ held' = held
    BY <1>5, MergeChange
  <2>2. Al(f, i)
    BY Zenon, <2>1 DEF AlignedInv, Block, Carried
  <2>3. Al(BaseOf(f, i), i + 1)
    BY <1>0, <2>1, <2>2, AlBuddy
  <2>4. \A g \in PFN, r \in Order : Carried(g, r)' => g = BaseOf(f, i) /\ r = i + 1
    BY <2>1 DEF Carried
  <2> QED BY <2>1, <2>3, <2>4 DEF AlignedInv, Block
<1>6. CASE MergeDone
  <2>1. PICK f \in PFN, i \in Order :
             /\ Carried(f, i)
             /\ \A g \in PFN, r \in Order :
                  Listed(g, r)' <=> Listed(g, r) \/ (g = f /\ r = i)
             /\ pc' = "idle" /\ held' = held
    BY <1>6, MergeDoneChange
  <2>2. \A g \in PFN, r \in Order : ~Carried(g, r)'
    BY <2>1 DEF Carried
  <2> QED BY <2>1, <2>2 DEF AlignedInv, Block
<1>7. CASE \/ CarveDone \/ MergeBeyond \/ UNCHANGED vars
           \/ \E o \in Order : Alloc(o) \/ AllocPanic(o)
  <2>1. UNCHANGED <<free_area, held, pfn>>
    BY Zenon, <1>7 DEF CarveDone, Alloc, AllocPanic, MergeBeyond, vars, meta
  <2>2. pc' \in {"merge", "wild"} => pc \in {"merge", "wild"} /\ lvl' = lvl
    BY <1>7 DEF CarveDone, Alloc, AllocPanic, MergeBeyond, vars
  <2>3. \A g, r : Block(g, r)' => Block(g, r)
    BY <2>1, <2>2 DEF Block, Listed, Carried
  <2> QED BY <2>3 DEF AlignedInv
<1> QED BY <1>1, <1>2, <1>3, <1>4, <1>5, <1>6, <1>7 DEF Next

\* Blocks are always aligned.
LEMMA AlignedAlways == Spec => []AlignedInv
<1>1. Init => AlignedInv
  BY DEF Init, AlignedInv, Block, Listed, Carried
<1> QED BY <1>1, IInvAlways, AlignedStep, PTL DEF Spec

\* Every block is naturally aligned, for any memory size and start of the
\* managed range, also while a split or a merge is under way.
THEOREM BuddyAligned == Spec => []Aligned
<1>1. AlignedInv => Aligned
  <2>1. PFN \subseteq Nat
    BY Pow2Facts DEF PFN
  <2> QED BY <2>1, AlMod DEF AlignedInv, Aligned
<1> QED BY <1>1, AlignedAlways, PTL
-----------------------------------------------------------------------------
(* Buddies on one list. *)

NoPair(o) == \A f \in PFN : ~(Listed(f, o) /\ Listed(BuddyOf(f, o), o))

NoPairs == \A o \in Order : o < MAX_ORDER - 1 => NoPair(o)

\* While carving, every block is as large as fits.
LargestCarved == \A f \in PFN, o \in Order : Listed(f, o) => o = MAX_ORDER - 1 \/ ~Fits(f, o + 1)

\* While splitting, the orders between the request and the level have no
\* blocks, and a pair of buddies is all that its list holds.
OnePair ==
    /\ \A o \in Order : want <= o /\ o < lvl => \A f \in PFN : ~Listed(f, o)
    /\ \A o \in Order : o < MAX_ORDER - 1 /\ o # lvl => NoPair(o)
    /\ lvl < MAX_ORDER - 1 =>
          \/ NoPair(lvl)
          \/ \E f \in PFN : \A g \in PFN : Listed(g, lvl) => g \in {f, BuddyOf(f, lvl)}

\* Nowhere else are two buddies on one list.
PairInv ==
    /\ pc = "init" => LargestCarved
    /\ pc \notin {"init", "split"} => NoPairs
    /\ pc = "split" => OnePair

\* No block is its own buddy.
LEMMA BuddyDiffers ==
    ASSUME NEW f \in PFN, NEW o \in Order PROVE BuddyOf(f, o) # f
<1>1. f \in Nat /\ Pow2[o] \in Nat /\ Pow2[o] > 0
  BY Pow2Facts DEF PFN
<1> QED BY <1>1 DEF BuddyOf

\* Blocks that are as large as fits leave no pair.
LEMMA CarvedNoPairs ==
    ASSUME IInv, AlignedInv, LargestCarved PROVE NoPairs
<1> SUFFICES ASSUME NEW o \in Order, o < MAX_ORDER - 1, NEW f \in PFN,
                    Listed(f, o), Listed(BuddyOf(f, o), o)
             PROVE  FALSE
  BY DEF NoPairs, NoPair
<1> DEFINE b == BuddyOf(f, o)
<1>1. /\ PFN \subseteq Nat /\ free_area \in [Order -> SUBSET PFN] /\ o + 1 \in Order
      /\ Pow2[o + 1] = 2 * Pow2[o] /\ Pow2[o] \in Nat /\ Pow2[o] > 0 /\ NR_PAGES \in Nat
      /\ o \in Int /\ MAX_ORDER \in Int
  BY Pow2Facts DEF PFN, IInv, TypeOK, Order
<1>2. b \in PFN /\ Listed(b, o)
  BY <1>1 DEF Listed
<1>3. Al(f, o) /\ f + Pow2[o] <= NR_PAGES /\ b + Pow2[o] <= NR_PAGES
  BY Zenon, <1>2 DEF AlignedInv, Block, IInv, Inside
<1>4. PICK low \in PFN : /\ Listed(low, o) /\ Al(low, o + 1)
                         /\ low + Pow2[o + 1] <= NR_PAGES
  <2>1. CASE b = f - Pow2[o] /\ Al(f - Pow2[o], o + 1)
    <3>1. b + Pow2[o + 1] <= NR_PAGES
      BY <1>1, <1>2, <1>3, <2>1
    <3> QED BY <1>2, <2>1, <3>1
  <2>2. CASE b = f + Pow2[o] /\ Al(f, o + 1)
    <3>1. f + Pow2[o + 1] <= NR_PAGES
      BY <1>1, <1>2, <1>3, <2>2
    <3> QED BY <2>2, <3>1
  <2> QED BY <1>1, <1>3, <2>1, <2>2, AlBuddy
<1>5. Fits(low, o + 1)
  <2>1. low % Pow2[o + 1] = 0
    BY <1>1, <1>4, AlMod
  <2>2. Pow2[o + 1] \in Nat /\ low \in Nat
    BY <1>1
  <2>3. Pow2[o + 1] <= NR_PAGES - low
    BY <1>1, <1>4, <2>2
  <2> QED BY <2>1, <2>3 DEF Fits
<1>6. o # MAX_ORDER - 1
  BY <1>1
<1> QED BY <1>4, <1>5, <1>6 DEF LargestCarved

\* Fewer blocks, fewer pairs.
LEMMA PairsOfFewer ==
    ASSUME NEW o, NoPair(o), \A g \in PFN : Listed(g, o)' => Listed(g, o),
           free_area[o]' \subseteq PFN
    PROVE  NoPair(o)'
<1> SUFFICES ASSUME NEW f \in PFN, Listed(f, o)', Listed(BuddyOf(f, o), o)' PROVE FALSE
  BY DEF NoPair, BuddyOf, IsUpper
<1>1. BuddyOf(f, o) \in PFN
  BY DEF Listed
<1>2. Listed(f, o) /\ Listed(BuddyOf(f, o), o)
  BY <1>1
<1> QED BY <1>2 DEF NoPair

\* Of a pair that is alone on its list, one block is taken.
LEMMA OneOfPair ==
    ASSUME NEW r \in Order, NEW h \in PFN, NEW f \in PFN, Listed(f, r),
           \A g \in PFN : Listed(g, r) => g \in {h, BuddyOf(h, r)},
           \A g \in PFN : Listed(g, r)' => Listed(g, r) /\ g # f,
           free_area[r]' \subseteq PFN
    PROVE  NoPair(r)'
<1> SUFFICES ASSUME NEW g \in PFN, Listed(g, r)', Listed(BuddyOf(g, r), r)' PROVE FALSE
  BY Zenon DEF NoPair, BuddyOf, IsUpper
<1>1. BuddyOf(g, r) \in PFN
  BY DEF Listed
<1>2. Listed(g, r) /\ g # f /\ Listed(BuddyOf(g, r), r) /\ BuddyOf(g, r) # f
  BY Zenon, <1>1
<1>3. f \in {h, BuddyOf(h, r)} /\ g \in {h, BuddyOf(h, r)} /\ BuddyOf(g, r) \in {h, BuddyOf(h, r)}
  BY Zenon, <1>1, <1>2
<1>4. BuddyOf(g, r) = g
  BY Zenon, <1>2, <1>3
<1> QED BY <1>4, BuddyDiffers

\* The lists hold frames.
LEMMA ListsInRange ==
    IInv' => \A o \in Order : free_area[o]' \subseteq PFN
BY DEF IInv, TypeOK

\* Every step keeps the lists free of pairs, but for the pair that a split
\* under way has just made.
LEMMA PairStep == IInv /\ AlignedInv /\ PairInv /\ [Next]_vars /\ IInv' => PairInv'
<1> SUFFICES ASSUME IInv, AlignedInv, PairInv, [Next]_vars, IInv' PROVE PairInv'
  BY Zenon
<1>0. /\ PFN \subseteq Nat /\ MAX_ORDER \in Nat /\ Order \subseteq Nat
      /\ free_area \in [Order -> SUBSET PFN]
      /\ \A o \in Order : free_area[o]' \subseteq PFN
  BY Pow2Facts, ListsInRange DEF PFN, Order, IInv, TypeOK
<1>1. CASE Carve
  <2>1. PICK f \in PFN, o \in Order :
             /\ (o = MAX_ORDER - 1 \/ ~Fits(f, o + 1))
             /\ \A g \in PFN, r \in Order : Listed(g, r)' <=> Listed(g, r) \/ (g = f /\ r = o)
             /\ pc = "init" /\ pc' = "init"
    BY <1>1, CarveChange
  <2>2. LargestCarved
    BY <2>1 DEF PairInv
  <2>3. \A g \in PFN, r \in Order : Listed(g, r)' => r = MAX_ORDER - 1 \/ ~Fits(g, r + 1)
    BY <2>1, <2>2 DEF LargestCarved
  <2>4. LargestCarved'
    BY <2>3 DEF LargestCarved, Fits
  <2> QED BY <2>1, <2>4 DEF PairInv
<1>2. CASE CarveDone
  <2>1. pc = "init" /\ pc' = "idle" /\ free_area' = free_area
    BY <1>2 DEF CarveDone
  <2>2. NoPairs
    BY <2>1, CarvedNoPairs DEF PairInv
  <2>3. NoPairs'
    BY <2>1, <2>2 DEF NoPairs, NoPair, Listed, BuddyOf, IsUpper
  <2> QED BY <2>1, <2>3 DEF PairInv
<1>3. ASSUME NEW o \in Order, Alloc(o) PROVE PairInv'
  <2>1. pc = "idle" /\ pc' = "split" /\ free_area' = free_area /\ want' = o
    BY <1>3 DEF Alloc
  <2>2. NoPairs
    BY <2>1 DEF PairInv
  <2>3. PICK i \in o .. MAX_ORDER - 1 : lvl' = i /\ \A j \in o .. i - 1 : free_area[j] = {}
    BY <1>3 DEF Alloc
  <2>4. i \in Order
    BY <1>0, <2>3 DEF Order
  <2>5. \A r \in Order : (NoPair(r)' <=> NoPair(r)) /\ \A g \in PFN : Listed(g, r)' <=> Listed(g, r)
    BY <2>1 DEF NoPair, Listed, BuddyOf, IsUpper
  <2>6. \A r \in Order : o <= r /\ r < i => \A f \in PFN : ~Listed(f, r)'
    <3> SUFFICES ASSUME NEW r \in Order, o <= r, r < i, NEW f \in PFN PROVE ~Listed(f, r)
      BY <2>5
    <3>1. r \in o .. i - 1
      BY <1>0, <2>4
    <3> QED BY <2>3, <3>1 DEF Listed
  <2>7. \A r \in Order : r < MAX_ORDER - 1 => NoPair(r)'
    BY <2>2, <2>5 DEF NoPairs
  <2>8. i < MAX_ORDER - 1 => \A f \in PFN : ~(Listed(f, i)' /\ Listed(BuddyOf(f, i), i)')
    BY Zenon, <2>4, <2>7 DEF NoPair, BuddyOf, IsUpper
  <2>9. OnePair'
    BY Zenon, <2>1, <2>3, <2>6, <2>7, <2>8 DEF OnePair, NoPair, Listed
  <2> QED BY <2>1, <2>9 DEF PairInv
<1>4. CASE Split
  <2>1. PICK f \in PFN, b \in PFN, i \in Order :
             /\ i = lvl /\ i > want /\ i - 1 \in Order /\ lvl' = i - 1 /\ want' = want
             /\ want \in Order
             /\ Listed(f, i) /\ b = f + Pow2[i - 1]
             /\ \A g \in PFN, r \in Order :
                  Listed(g, r)' <=> \/ Listed(g, r) /\ ~(g = f /\ r = i)
                                    \/ g \in {f, b} /\ r = i - 1
             /\ pc = "split" /\ pc' = "split"
    BY <1>4, SplitChange
  <2>2. OnePair
    BY <2>1 DEF PairInv
  <2>3. Al(f, i)
    BY Zenon, <2>1 DEF AlignedInv, Block
  <2>4. i > 0 /\ i \in Nat /\ want \in Nat /\ i - 1 # i /\ i <= MAX_ORDER - 1
    BY <1>0, <2>1 DEF Order
  <2>5. b = BuddyOf(f, i - 1)
    BY <1>0, <2>1, <2>3, <2>4, AlHalf
  <2>6. \A r \in Order : want <= r /\ r < i - 1 => \A g \in PFN : ~Listed(g, r)'
    <3> SUFFICES ASSUME NEW r \in Order, want <= r, r < i - 1, NEW g \in PFN, Listed(g, r)'
                 PROVE  FALSE
      OBVIOUS
    <3>1. r \in Nat /\ r < i /\ r # i - 1
      BY <1>0, <2>4
    <3>2. Listed(g, r)
      BY <2>1, <3>1
    <3> QED BY <2>1, <2>2, <3>1, <3>2 DEF OnePair
  <2>7. \A g \in PFN : Listed(g, i - 1)' => g \in {f, b}
    <3>1. \A g \in PFN : ~Listed(g, i - 1)
      BY <1>0, <2>1, <2>2, <2>4 DEF OnePair
    <3> QED BY Zenon, <2>1, <3>1
  <2>8. ASSUME NEW r \in Order, r < MAX_ORDER - 1, r # i - 1 PROVE NoPair(r)'
    <3>1. \A g \in PFN : Listed(g, r)' => Listed(g, r) /\ ~(g = f /\ r = i)
      BY <2>1, <2>8
    <3>2. CASE NoPair(r)
      BY <1>0, <3>1, <3>2, PairsOfFewer
    <3>3. CASE ~NoPair(r)
      <4>1. r = i
        BY <2>1, <2>2, <2>8, <3>3 DEF OnePair
      <4>2. PICK h \in PFN : \A g \in PFN : Listed(g, r) => g \in {h, BuddyOf(h, r)}
        BY <2>1, <2>2, <2>8, <3>3, <4>1 DEF OnePair
      <4>3. Listed(f, r) /\ \A g \in PFN : Listed(g, r)' => Listed(g, r) /\ g # f
        BY <2>1, <3>1, <4>1
      <4> QED BY <1>0, <4>2, <4>3, OneOfPair
    <3> QED BY <3>2, <3>3
  <2>9. \A g \in PFN : g \in free_area'[i - 1] => g \in {f, BuddyOf(f, i - 1)}
    BY <2>5, <2>7 DEF Listed
  <2>10. \E h \in PFN : \A g \in PFN : Listed(g, lvl)' => g \in {h, BuddyOf(h, lvl)'}
    <3>1. \A g \in PFN : Listed(g, lvl)' => g \in {f, BuddyOf(f, lvl)'}
      BY <2>1, <2>9 DEF Listed, BuddyOf, IsUpper
    <3> QED BY <3>1
  <2>11. /\ \A o \in Order : want' <= o /\ o < lvl' => \A g \in PFN : ~Listed(g, o)'
         /\ \A o \in Order : o < MAX_ORDER - 1 /\ o # lvl' => NoPair(o)'
    BY <2>1, <2>6, <2>8
  <2>12. OnePair'
    BY <2>10, <2>11 DEF OnePair
  <2> QED BY <2>1, <2>12 DEF PairInv
<1>5. CASE Pop
  <2>1. PICK f \in PFN, i \in Order :
             /\ i = want /\ i = lvl /\ Listed(f, i)
             /\ \A g \in PFN, r \in Order :
                  /\ Listed(g, r)' <=> Listed(g, r) /\ ~(g = f /\ r = i)
                  /\ <<g, r>> \in held' <=> <<g, r>> \in held \/ (g = f /\ r = i)
             /\ pc = "split" /\ pc' = "idle"
    BY <1>5, PopChange
  <2>2. OnePair
    BY <2>1 DEF PairInv
  <2>3. ASSUME NEW r \in Order, r < MAX_ORDER - 1 PROVE NoPair(r)'
    <3>1. \A g \in PFN : Listed(g, r)' => Listed(g, r) /\ ~(g = f /\ r = i)
      BY Zenon, <2>1
    <3>2. CASE NoPair(r)
      BY <1>0, <3>1, <3>2, PairsOfFewer
    <3>3. CASE ~NoPair(r)
      <4>1. r = i
        BY <2>1, <2>2, <2>3, <3>3 DEF OnePair
      <4>2. PICK h \in PFN : \A g \in PFN : Listed(g, r) => g \in {h, BuddyOf(h, r)}
        BY <2>1, <2>2, <2>3, <3>3, <4>1 DEF OnePair
      <4>3. Listed(f, r) /\ \A g \in PFN : Listed(g, r)' => Listed(g, r) /\ g # f
        BY <2>1, <3>1, <4>1
      <4> QED BY <1>0, <4>2, <4>3, OneOfPair
    <3> QED BY <3>2, <3>3
  <2> QED BY <2>1, <2>3 DEF PairInv, NoPairs
<1>6. CASE MergeDone
  <2>1. PICK f \in PFN, i \in Order :
             /\ Carried(f, i)
             /\ i < MAX_ORDER - 1 /\ BuddyOf(f, i) \in PFN => ~Listed(BuddyOf(f, i), i)
             /\ \A g \in PFN, r \in Order :
                  Listed(g, r)' <=> Listed(g, r) \/ (g = f /\ r = i)
             /\ pc = "merge" /\ pc' = "idle"
    BY <1>6, MergeDoneChange
  <2>2. NoPairs
    BY <2>1 DEF PairInv
  <2>3. Al(f, i)
    BY Zenon, <2>1 DEF AlignedInv, Block
  <2>4. ASSUME NEW r \in Order, r < MAX_ORDER - 1, NEW g \in PFN,
               Listed(g, r)', Listed(BuddyOf(g, r), r)'
        PROVE  FALSE
    <3>1. BuddyOf(g, r) \in PFN
      BY <1>0, <2>4 DEF Listed
    <3>2. Listed(g, r) \/ (g = f /\ r = i)
      BY <2>1, <2>4
    <3>3. Listed(BuddyOf(g, r), r) \/ (BuddyOf(g, r) = f /\ r = i)
      BY <2>1, <2>4, <3>1
    <3>4. CASE Listed(g, r) /\ Listed(BuddyOf(g, r), r)
      BY <2>2, <2>4, <3>4 DEF NoPairs, NoPair
    <3>5. CASE g = f /\ r = i /\ Listed(BuddyOf(g, r), r)
      BY <2>1, <2>4, <3>1, <3>5
    <3>6. CASE Listed(g, r) /\ BuddyOf(g, r) = f /\ r = i
      <4>1. Al(g, r) /\ g \in Nat
        BY Zenon, <1>0, <3>6 DEF AlignedInv, Block
      <4>2. BuddyOf(f, i) = g
        BY <2>4, <3>6, <4>1, BuddyBack
      <4> QED BY <2>1, <2>4, <3>6, <4>2
    <3>7. CASE g = f /\ BuddyOf(g, r) = f /\ r = i
      BY <3>7, BuddyDiffers
    <3> QED BY <3>2, <3>3, <3>4, <3>5, <3>6, <3>7
  <2>5. NoPairs'
    BY <2>4 DEF NoPairs, NoPair, BuddyOf, IsUpper
  <2> QED BY <2>1, <2>5 DEF PairInv
<1>7. CASE Merge
  <2>1. PICK f \in PFN, b \in PFN, i \in Order :
             /\ \A g \in PFN, r \in Order :
                  Listed(g, r)' <=> Listed(g, r) /\ ~(g = b /\ r = i)
             /\ pc = "merge" /\ pc' = "merge"
    BY <1>7, MergeChange
  <2>2. NoPairs
    BY <2>1 DEF PairInv
  <2>3. ASSUME NEW r \in Order, r < MAX_ORDER - 1 PROVE NoPair(r)'
    <3>1. \A g \in PFN : Listed(g, r)' => Listed(g, r)
      BY <2>1
    <3>2. NoPair(r)
      BY <2>2, <2>3 DEF NoPairs
    <3> QED BY <1>0, <3>1, <3>2, PairsOfFewer
  <2> QED BY <2>1, <2>3 DEF PairInv, NoPairs
<1>8. ASSUME pc \notin {"init", "split"}, pc' \notin {"init", "split"}, free_area' = free_area
      PROVE  PairInv'
  <2>1. NoPairs
    BY <1>8 DEF PairInv
  <2>2. NoPairs'
    BY <1>8, <2>1 DEF NoPairs, NoPair, Listed, BuddyOf, IsUpper
  <2> QED BY <1>8, <2>2 DEF PairInv
<1>9. ASSUME NEW b \in held, Free(b) PROVE PairInv'
  BY <1>8, <1>9 DEF Free
<1>10. ASSUME NEW o \in Order, AllocPanic(o) PROVE PairInv'
  BY <1>8, <1>10 DEF AllocPanic
<1>11. CASE MergeBeyond
  BY <1>8, <1>11 DEF MergeBeyond
<1>12. CASE UNCHANGED vars
  BY Zenon, <1>12 DEF vars, PairInv, LargestCarved, NoPairs, OnePair, NoPair, Listed, BuddyOf, IsUpper, Fits
<1> QED BY <1>1, <1>2, <1>3, <1>4, <1>5, <1>6, <1>7, <1>9, <1>10, <1>11, <1>12 DEF Next

\* PairInv holds always.
LEMMA PairAlways == Spec => []PairInv
<1>1. Init => PairInv
  BY DEF Init, PairInv, LargestCarved, Listed
<1> QED BY <1>1, IInvAlways, AlignedAlways, PairStep, PTL DEF Spec

\* Between calls no two free buddies below the top order are left unmerged,
\* for any memory size: not after buddy_system_init, not after a split that was
\* used in part, and not after any merge.
THEOREM BuddyCoalesced == Spec => []Coalesced
<1>1. IInv /\ PairInv => Coalesced
  <2> SUFFICES ASSUME IInv, PairInv, pc = "idle", NEW o \in 0 .. MAX_ORDER - 2,
                      NEW f \in free_area[o], BuddyOf(f, o) \in free_area[o]
               PROVE  FALSE
    BY DEF Coalesced
  <2>1. o \in Order /\ o < MAX_ORDER - 1
    BY Pow2Facts DEF Order
  <2>2. f \in PFN
    BY <2>1 DEF IInv, TypeOK
  <2> QED BY <2>1, <2>2 DEF PairInv, NoPairs, NoPair, Listed
<1> QED BY <1>1, IInvAlways, PairAlways, PTL
-----------------------------------------------------------------------------
(* Blocks that nobody holds a frame of. *)

Vacant(f, o) == Natural(f, o) /\ \A b \in held : Apart(f, o, b[1], b[2])

\* Natural in terms of multiples.
LEMMA NaturalAl ==
    ASSUME NEW f \in Nat, NEW o \in Order
    PROVE  Natural(f, o) <=> f >= BUDDY_START /\ Al(f, o) /\ f + Pow2[o] <= NR_PAGES
<1>1. f % Pow2[o] = 0 <=> Al(f, o)
  BY AlMod
<1>2. Pow2[o] <= NR_PAGES - f <=> f + Pow2[o] <= NR_PAGES
  BY Pow2Facts
<1> QED BY <1>1, <1>2 DEF Natural, Fits

\* Of two aligned blocks with a common frame, the larger contains the smaller.
LEMMA Contains ==
    ASSUME NEW l \in Nat, NEW g \in Nat, NEW x \in Nat, NEW a \in Order, NEW s \in Order, a <= s,
           Al(l, a), Al(g, s), l <= x, x < l + Pow2[a], g <= x, x < g + Pow2[s]
    PROVE  g <= l /\ l + Pow2[a] <= g + Pow2[s]
<1>1. Pow2[a] \in Nat /\ Pow2[s] \in Nat
  BY Pow2Facts
<1>2. Al(g, a)
  BY AlDown
<1>3. g <= l
  <2> SUFFICES ASSUME l < g PROVE FALSE
    OBVIOUS
  <2>1. g < l + Pow2[a] /\ l <= g
    BY <1>1
  <2>2. l = g
    BY <1>2, <2>1, AlSame
  <2> QED BY <2>2
<1>4. l < g + Pow2[s]
  BY <1>1
<1> QED BY <1>3, <1>4, AlIn

\* The second half of the first block of a smaller order is inside the range.
LEMMA LowerNatural ==
    ASSUME NEW h \in Nat, NEW r \in Order, NEW s \in Order, s < r, Natural(h, r)
    PROVE  /\ s < MAX_ORDER - 1 /\ Natural(BuddyOf(h, s), s)
           /\ BuddyOf(h, s) \in Nat /\ h <= BuddyOf(h, s)
           /\ BuddyOf(h, s) + Pow2[s] <= h + Pow2[r]
<1>1. /\ s < MAX_ORDER - 1 /\ s + 1 \in Order /\ s + 1 <= r /\ s <= r
      /\ Pow2[s + 1] = 2 * Pow2[s] /\ Pow2[s] \in Nat /\ Pow2[s] > 0
      /\ Pow2[r] \in Nat /\ Pow2[r] > 0 /\ NR_PAGES \in Nat /\ BUDDY_START \in Nat
  BY Pow2Facts DEF Order
<1>2. h >= BUDDY_START /\ Al(h, r) /\ h + Pow2[r] <= NR_PAGES
  BY NaturalAl
<1>3. Al(h, s) /\ Al(h, s + 1)
  BY <1>1, <1>2, AlDown
<1>4. BuddyOf(h, s) = h + Pow2[s]
  BY <1>1, <1>3, AlBuddy
<1>5. Al(BuddyOf(h, s), s) /\ BuddyOf(h, s) \in Nat
  BY <1>1, <1>3, BuddyBack
<1>6. Pow2[s + 1] <= Pow2[r]
  BY <1>1, PowDivides, MultLeast
<1>7. BuddyOf(h, s) + Pow2[s] <= NR_PAGES /\ BuddyOf(h, s) >= BUDDY_START
  BY <1>1, <1>2, <1>4, <1>6
<1>8. h <= BuddyOf(h, s) /\ BuddyOf(h, s) + Pow2[s] <= h + Pow2[r]
  BY <1>1, <1>4, <1>6
<1> QED BY <1>1, <1>5, <1>7, <1>8, NaturalAl

\* It is vacant with the whole.
LEMMA LowerVacant ==
    ASSUME TypeOK, NEW h \in Nat, NEW r \in Order, NEW s \in Order, s < r, Vacant(h, r)
    PROVE  s < MAX_ORDER - 1 /\ Vacant(BuddyOf(h, s), s)
<1>1. /\ s < MAX_ORDER - 1 /\ Natural(BuddyOf(h, s), s)
      /\ BuddyOf(h, s) \in Nat /\ h <= BuddyOf(h, s)
      /\ BuddyOf(h, s) + Pow2[s] <= h + Pow2[r]
  BY LowerNatural DEF Vacant
<1>2. ASSUME NEW b \in held PROVE Apart(BuddyOf(h, s), s, b[1], b[2])
  <2>1. b[1] \in Nat /\ b[2] \in Order
    BY Pow2Facts DEF TypeOK, PFN
  <2>2. Pow2[b[2]] \in Nat /\ Pow2[s] \in Nat /\ Pow2[r] \in Nat
    BY <2>1, Pow2Facts
  <2>3. h + Pow2[r] <= b[1] \/ b[1] + Pow2[b[2]] <= h
    BY Zenon DEF Vacant, Apart
  <2> QED BY <1>1, <2>1, <2>2, <2>3 DEF Apart
<1> QED BY <1>1, <1>2 DEF Vacant

\* Between calls, the first frame of a vacant block is in a listed block.
LEMMA Covered ==
    ASSUME IInv, AlignedInv, pc = "idle", NEW h \in Nat, NEW r \in Order, Vacant(h, r)
    PROVE  \E g \in PFN, s \in Order :
             Listed(g, s) /\ Al(g, s) /\ g >= BUDDY_START /\ g + Pow2[s] <= NR_PAGES
             /\ g <= h /\ h < g + Pow2[s]
<1>0. Pow2[r] \in Nat /\ Pow2[r] > 0 /\ NR_PAGES \in Nat /\ BUDDY_START \in Nat
  BY Pow2Facts
<1>1. h \in BUDDY_START .. NR_PAGES - 1
  <2>1. h >= BUDDY_START /\ h + Pow2[r] <= NR_PAGES
    BY NaturalAl DEF Vacant
  <2> QED BY <1>0, <2>1
<1>2. PICK g \in PFN, s \in Order : Block(g, s) /\ g <= h /\ h < g + Pow2[s]
  BY <1>1 DEF IInv, NoLeak
<1>3. Listed(g, s)
  <2>1. ASSUME <<g, s>> \in held PROVE FALSE
    <3>1. Apart(h, r, <<g, s>>[1], <<g, s>>[2])
      BY Zenon, <2>1 DEF Vacant
    <3>2. h + Pow2[r] <= g \/ g + Pow2[s] <= h
      BY <3>1 DEF Apart
    <3>3. g \in Nat /\ Pow2[s] \in Nat
      BY Pow2Facts DEF PFN
    <3> QED BY <1>0, <1>2, <3>2, <3>3
  <2> QED BY <1>2, <2>1 DEF Block, Carried
<1> QED BY <1>2, <1>3 DEF AlignedInv, IInv, Inside

\* A listed block whose buddy is vacant would have to be next to a smaller one
\* in the buddy's place, that one next to a smaller one again, and so on: there
\* is none.
LEMMA NoneLeft ==
    ASSUME IInv, AlignedInv, NoPairs, pc = "idle",
           NEW o \in Order, o < MAX_ORDER - 1, NEW f \in PFN, Listed(f, o)
    PROVE  ~Vacant(BuddyOf(f, o), o)
<1> DEFINE T == {r \in Order : r < MAX_ORDER - 1
                   /\ \E b \in PFN : Listed(b, r) /\ Vacant(BuddyOf(b, r), r)}
<1>0. PFN \subseteq Nat /\ Order \subseteq Nat /\ MAX_ORDER \in Nat /\ NR_PAGES \in Nat
      /\ BUDDY_START \in Nat
  BY Pow2Facts DEF PFN, Order
<1>1. SUFFICES ASSUME T # {} PROVE FALSE
  OBVIOUS
<1>2. PICK r \in T : \A s \in T : r <= s
  BY Zenon, <1>0, <1>1, LeastOrder
<1>3. /\ r \in Order /\ r < MAX_ORDER - 1 /\ r + 1 \in Order /\ Pow2[r + 1] = 2 * Pow2[r]
      /\ Pow2[r] \in Nat /\ Pow2[r] > 0
  BY <1>2, Pow2Facts
<1>4. PICK b \in PFN : Listed(b, r) /\ Vacant(BuddyOf(b, r), r)
  BY <1>2
<1>5. b \in Nat /\ Al(b, r)
  BY Zenon, <1>0, <1>3, <1>4 DEF AlignedInv, Block
<1>6. PICK h \in Nat : h = BuddyOf(b, r) /\ Vacant(h, r)
  BY <1>3, <1>4, <1>5, BuddyBack
<1>7. Al(h, r)
  BY <1>3, <1>6, NaturalAl DEF Vacant
<1>9. PICK g \in PFN, s \in Order :
             Listed(g, s) /\ Al(g, s) /\ g <= h /\ h < g + Pow2[s]
  BY Zenon, <1>3, <1>6, Covered
<1>10. s \in Nat /\ r \in Nat /\ g \in Nat /\ Pow2[s] \in Nat
  BY <1>0, <1>3, Pow2Facts
<1>11. CASE s > r
  <2>1. PICK l \in Nat : /\ Al(l, r + 1) /\ l <= h /\ h < l + Pow2[r + 1]
                         /\ l <= b /\ b < l + Pow2[r + 1]
    <3>1. CASE h = b - Pow2[r] /\ Al(h, r + 1)
      BY <1>3, <1>5, <3>1
    <3>2. CASE h = b + Pow2[r] /\ Al(b, r + 1)
      BY <1>3, <1>5, <3>2
    <3> QED BY Zenon, <1>3, <1>5, <1>6, <3>1, <3>2, AlBuddy
  <2>2. r + 1 <= s
    BY <1>10, <1>11
  <2>3. g <= l /\ l + Pow2[r + 1] <= g + Pow2[s]
    BY Zenon, <1>3, <1>9, <1>10, <2>1, <2>2, Contains
  <2>4. ~Apart(b, r, g, s)
    BY <1>3, <1>5, <1>10, <2>1, <2>3 DEF Apart
  <2>5. <<b, r>> # <<g, s>>
    BY <1>10, <1>11
  <2>6. Block(b, r) /\ Block(g, s)
    BY <1>4, <1>9 DEF Block
  <2> QED BY Zenon, <1>3, <2>4, <2>5, <2>6 DEF IInv, NoOverlap
<1>12. CASE s = r
  <2>1. g = h
    BY Zenon, <1>3, <1>7, <1>9, <1>10, <1>12, AlSame
  <2> QED BY Zenon, <1>3, <1>4, <1>6, <1>9, <1>12, <2>1 DEF NoPairs, NoPair
<1>13. CASE s < r
  <2>1. Al(h, s)
    BY <1>3, <1>7, <1>10, <1>13, AlDown
  <2>2. g = h
    BY Zenon, <1>9, <1>10, <2>1, AlSame
  <2>3. s < MAX_ORDER - 1 /\ Vacant(BuddyOf(h, s), s)
    BY Zenon, <1>3, <1>6, <1>13, LowerVacant DEF IInv
  <2>4. s \in T
    BY <1>9, <2>2, <2>3
  <2> QED BY <1>2, <1>10, <1>13, <2>4
<1> QED BY <1>10, <1>11, <1>12, <1>13

\* The block of the next order around a frame.
LEMMA Around ==
    ASSUME NEW f \in Nat, NEW a \in Order
    PROVE  /\ f - (f % Pow2[a]) \in Nat /\ Al(f - (f % Pow2[a]), a)
           /\ f - (f % Pow2[a]) <= f /\ f < (f - (f % Pow2[a])) + Pow2[a]
<1> DEFINE p == Pow2[a]
<1>1. p \in Nat /\ p > 0
  BY Pow2Facts
<1> HIDE DEF p
<1>2. f % p \in Nat /\ f % p < p /\ f \div p \in Nat /\ f = (f \div p) * p + (f % p)
  BY <1>1, Division
<1>3. (f \div p) * p \in Nat
  BY <1>1, <1>2
<1>4. f - (f % p) = (f \div p) * p
  BY <1>2, <1>3
<1>5. Mult(f - (f % p), p)
  BY <1>2, <1>4 DEF Mult
<1>6. f - (f % p) \in Nat /\ f - (f % p) <= f /\ f < (f - (f % p)) + p
  BY <1>1, <1>2, <1>3, <1>4
<1> QED BY <1>5, <1>6 DEF p, Al

\* Once everything has been given back, the lists are what buddy_system_init
\* made of the range, for any memory size: every frame is in a listed block,
\* blocks are aligned and no buddies are left apart, so a block that is not
\* the largest possible would lead to ever smaller ones.
THEOREM BuddyRestored == Spec => []Restored
<1>1. ASSUME IInv, AlignedInv, PairInv PROVE Restored
  <2> SUFFICES ASSUME pc = "idle", held = {}, NEW f \in PFN, NEW o \in Order
               PROVE  Listed(f, o) <=>
                        /\ Natural(f, o)
                        /\ o = MAX_ORDER - 1 \/ ~Natural(f - (f % Pow2[o + 1]), o + 1)
    BY DEF Restored
  <2>0. /\ f \in Nat /\ o \in Nat /\ PFN \subseteq Nat /\ Order \subseteq Nat /\ MAX_ORDER \in Nat
        /\ NR_PAGES \in Nat /\ BUDDY_START \in Nat /\ Pow2[o] \in Nat /\ Pow2[o] > 0
        /\ o <= MAX_ORDER - 1
    BY Pow2Facts DEF PFN, Order
  <2>1. NoPairs /\ \A h, r : Natural(h, r) => Vacant(h, r)
    BY <1>1 DEF PairInv, Vacant
  <2>2. o # MAX_ORDER - 1 => /\ o < MAX_ORDER - 1 /\ o + 1 \in Order
                             /\ Pow2[o + 1] = 2 * Pow2[o]
    BY <2>0, Pow2Facts
  <2>3. ASSUME Listed(f, o) PROVE Natural(f, o)
    BY <1>1, <2>0, <2>3, NaturalAl DEF AlignedInv, Block, IInv, Inside
  <2>4. ASSUME Listed(f, o), o # MAX_ORDER - 1, Natural(f - (f % Pow2[o + 1]), o + 1) PROVE FALSE
    <3>1. PICK l \in Nat : /\ l = f - (f % Pow2[o + 1]) /\ Al(l, o + 1)
                           /\ l <= f /\ f < l + Pow2[o + 1]
      BY Zenon, <2>0, <2>2, <2>4, Around
    <3>2. Natural(l, o + 1)
      BY <2>4, <3>1
    <3>3. l >= BUDDY_START /\ l + Pow2[o + 1] <= NR_PAGES
      BY <2>2, <2>4, <3>2, NaturalAl
    <3>4. Al(f, o)
      BY <1>1, <2>4 DEF AlignedInv, Block
    <3>5. BuddyOf(f, o) = l \/ BuddyOf(f, o) = l + Pow2[o]
      <4>1. CASE BuddyOf(f, o) = f - Pow2[o] /\ f >= Pow2[o] /\ Al(f - Pow2[o], o + 1)
        <5>1. PICK b \in Nat : b = f - Pow2[o]
          BY <2>0, <4>1
        <5>2. b <= f /\ f < b + Pow2[o + 1]
          BY <2>0, <2>2, <2>4, <5>1
        <5>5. Al(b, o + 1) /\ o + 1 \in Order /\ o + 1 <= o + 1
          BY <2>0, <2>2, <2>4, <4>1, <5>1
        <5>3. b <= l
          BY <2>0, <3>1, <5>2, <5>5, Contains
        <5>4. l <= b
          BY <2>0, <3>1, <5>2, <5>5, Contains
        <5> QED BY <4>1, <5>1, <5>3, <5>4
      <4>2. CASE BuddyOf(f, o) = f + Pow2[o] /\ Al(f, o + 1)
        <5>1. l = f
          BY <2>0, <2>2, <2>4, <3>1, <4>2, AlSame
        <5> QED BY Zenon, <4>2, <5>1
      <4> QED BY Zenon, <2>2, <2>4, <3>4, <4>1, <4>2, <2>0, AlBuddy
    <3>6. BuddyOf(f, o) \in Nat /\ Al(BuddyOf(f, o), o)
      BY <2>0, <2>2, <2>4, <3>4, BuddyBack
    <3>7. BuddyOf(f, o) >= BUDDY_START /\ BuddyOf(f, o) + Pow2[o] <= NR_PAGES
      BY <2>0, <2>2, <2>4, <3>3, <3>5
    <3>8. Vacant(BuddyOf(f, o), o)
      BY <2>1, <3>6, <3>7, NaturalAl
    <3> QED BY Zenon, <1>1, <2>1, <2>2, <2>4, <3>8, NoneLeft
  <2>5. ASSUME Natural(f, o), o = MAX_ORDER - 1 \/ ~Natural(f - (f % Pow2[o + 1]), o + 1)
        PROVE  Listed(f, o)
    <3>1. f >= BUDDY_START /\ Al(f, o) /\ f + Pow2[o] <= NR_PAGES
      BY <2>0, <2>5, NaturalAl
    <3>2. f < NR_PAGES
      BY <2>0, <3>1
    <3>3. PICK g \in PFN, s \in Order :
             Listed(g, s) /\ Al(g, s) /\ g >= BUDDY_START /\ g + Pow2[s] <= NR_PAGES
             /\ g <= f /\ f < g + Pow2[s]
      BY Zenon, <1>1, <2>0, <2>1, <2>5, Covered
    <3>4. s \in Nat /\ g \in Nat /\ Pow2[s] \in Nat /\ s <= MAX_ORDER - 1
      BY <2>0, Pow2Facts DEF Order
    <3>5. CASE s = o
      BY Zenon, <2>0, <3>1, <3>3, <3>4, <3>5, AlSame
    <3>6. CASE s > o
      <4>1. o # MAX_ORDER - 1 /\ o + 1 \in Order /\ o + 1 <= s
        BY <2>0, <2>2, <3>4, <3>6
      <4>2. PICK l \in Nat : /\ l = f - (f % Pow2[o + 1]) /\ Al(l, o + 1)
                             /\ l <= f /\ f < l + Pow2[o + 1]
        BY Zenon, <2>0, <4>1, Around
      <4>3. g <= l /\ l + Pow2[o + 1] <= g + Pow2[s]
        BY Zenon, <2>0, <3>3, <3>4, <4>1, <4>2, Contains
      <4>4. Pow2[o + 1] \in Nat
        BY <4>1, Pow2Facts
      <4>5. l >= BUDDY_START /\ l + Pow2[o + 1] <= NR_PAGES
        BY <2>0, <3>3, <3>4, <4>3, <4>4
      <4>6. Natural(l, o + 1)
        BY <4>1, <4>2, <4>5, NaturalAl
      <4> QED BY <2>5, <4>1, <4>2, <4>6
    <3>7. CASE s < o
      <4>1. Al(f, s)
        BY <2>0, <3>1, <3>4, <3>7, AlDown
      <4>2. g = f
        BY <2>0, <3>3, <3>4, <4>1, AlSame
      <4>3. s < MAX_ORDER - 1 /\ Vacant(BuddyOf(f, s), s)
        BY <2>0, <2>1, <2>5, <3>7, LowerNatural
      <4> QED BY <1>1, <2>1, <3>3, <4>2, <4>3, NoneLeft
    <3> QED BY <2>0, <3>4, <3>5, <3>6, <3>7
  <2> QED BY <2>3, <2>4, <2>5
<1> QED BY <1>1, IInvAlways, AlignedAlways, PairAlways, PTL
-----------------------------------------------------------------------------
(* What the callers rely on. *)

\* Between calls, when no list from order o on has a block, no block of order
\* o is vacant: a smaller one would be listed at its start, with a vacant buddy.
LEMMA NoneVacant ==
    ASSUME IInv, AlignedInv, NoPairs, pc = "idle", NEW o \in Order,
           \A i \in o .. MAX_ORDER - 1 : free_area[i] = {}, NEW f \in Nat
    PROVE  ~Vacant(f, o)
<1> SUFFICES ASSUME Vacant(f, o) PROVE FALSE
  OBVIOUS
<1>0. o \in Nat /\ MAX_ORDER \in Nat /\ PFN \subseteq Nat
  BY Pow2Facts DEF PFN, Order
<1>1. PICK g \in PFN, s \in Order : Listed(g, s) /\ Al(g, s) /\ g <= f /\ f < g + Pow2[s]
  BY Zenon, Covered
<1>2. s \in Nat /\ s <= MAX_ORDER - 1
  BY <1>0 DEF Order
<1>3. s < o
  <2>1. s \notin o .. MAX_ORDER - 1
    BY Zenon, <1>1 DEF Listed
  <2> QED BY <1>0, <1>2, <2>1
<1>4. Al(f, s)
  <2>1. Al(f, o)
    BY NaturalAl DEF Vacant
  <2> QED BY <1>0, <1>2, <1>3, <2>1, AlDown
<1>5. g = f
  BY <1>0, <1>1, <1>4, AlSame
<1>6. s < MAX_ORDER - 1 /\ Vacant(BuddyOf(f, s), s)
  BY Zenon, <1>3, LowerVacant DEF IInv
<1> QED BY Zenon, <1>1, <1>5, <1>6, NoneLeft

\* A block is vacant when it is available in the pool.
LEMMA VacantIs ==
    ASSUME NEW f \in Nat, NEW o \in Order PROVE Vacant(f, o) <=> Pool!Available(f, o)
<1>1. Pow2[o] <= NR_PAGES - f <=> f + Pow2[o] <= NR_PAGES
  BY Pow2Facts
<1> QED BY Zenon, <1>1 DEF Vacant, Natural, Fits, Apart, Pool!Available

\* The buddy system implements FramePool, for any memory size and any sequence
\* of calls: what buddy_alloc returns was available as a whole, and it panics
\* only when no aligned block of the order is, although it looks no further
\* than the lists.  Splits and merges do not change what is available.
THEOREM BuddyImplementsPool == Spec => ImplementsPool
<1>1. Init => Pool!Init
  BY DEF Init, Pool!Init
<1>2. IInv /\ AlignedInv /\ PairInv /\ [Next]_vars => [Pool!Next]_(Pool!vars)
  <2> SUFFICES ASSUME IInv, AlignedInv, PairInv, [Next]_vars PROVE [Pool!Next]_(Pool!vars)
    OBVIOUS
  <2>0. PFN = Pool!PFN /\ Order = Pool!Order /\ PFN \subseteq Nat
    BY Pow2Facts DEF PFN, Order, Pool!PFN, Pool!Order
  <2>1. CASE UNCHANGED vars \/ Carve \/ CarveDone \/ Split \/ Merge \/ MergeBeyond \/ MergeDone
    <3>1. held' = held /\ (pc' = "panic" <=> pc = "panic")
      BY Zenon, <2>1 DEF vars, Carve, CarveDone, Split, Merge, MergeBeyond, MergeDone
    <3> QED BY <3>1 DEF Pool!vars
  <2>2. ASSUME NEW o \in Order, Alloc(o) PROVE UNCHANGED Pool!vars
    BY <2>2 DEF Alloc, Pool!vars
  <2>3. ASSUME NEW o \in Order, AllocPanic(o) PROVE Pool!Next
    <3>1. /\ pc = "idle" /\ \A i \in o .. MAX_ORDER - 1 : free_area[i] = {}
          /\ pc' = "panic" /\ held' = held
      BY <2>3 DEF AllocPanic
    <3>2. NoPairs
      BY <3>1 DEF PairInv
    <3>3. \A f \in PFN : ~Pool!Available(f, o)
      BY Zenon, <2>0, <3>1, <3>2, NoneVacant, VacantIs
    <3>4. Pool!Fail(o)
      BY <2>0, <3>1, <3>3 DEF Pool!Fail
    <3> QED BY Zenon, <2>0, <3>4 DEF Pool!Next
  <2>4. CASE Pop
    <3>1. PICK f \in free_area[want] : held' = held \cup {<<f, want>>}
      BY Zenon, <2>4 DEF Pop
    <3>2. pc = "split" /\ pc' = "idle"
      BY <2>4 DEF Pop
    <3>3. want \in Order /\ f \in PFN /\ Block(f, want) /\ <<f, want>> \notin held
      BY Zenon, <3>1 DEF IInv, TypeOK, Block, Listed, NoOverlap
    <3>4. Natural(f, want)
      BY Zenon, <2>0, <3>3, NaturalAl DEF AlignedInv, IInv, Inside
    <3>5. ASSUME NEW b \in held PROVE Apart(f, want, b[1], b[2])
      <4>1. b[1] \in PFN /\ b[2] \in Order /\ b = <<b[1], b[2]>>
        BY DEF IInv, TypeOK
      <4>2. Block(b[1], b[2]) /\ <<f, want>> # <<b[1], b[2]>>
        BY Zenon, <3>3, <4>1 DEF Block
      <4> QED BY Zenon, <3>3, <4>1, <4>2 DEF IInv, NoOverlap
    <3>6. Pool!Available(f, want)
      BY Zenon, <2>0, <3>3, <3>4, <3>5, VacantIs DEF Vacant
    <3>7. Pool!Give(want)
      BY <2>0, <3>1, <3>2, <3>3, <3>6 DEF Pool!Give
    <3> QED BY Zenon, <2>0, <3>3, <3>7 DEF Pool!Next
  <2>5. ASSUME NEW b \in held, Free(b) PROVE Pool!Next
    <3>1. Pool!Return(b)
      BY <2>5 DEF Free, Pool!Return
    <3> QED BY Zenon, <3>1 DEF Pool!Next
  <2> QED BY Zenon, <2>1, <2>2, <2>3, <2>4, <2>5 DEF Next
<1> QED BY <1>1, <1>2, IInvAlways, AlignedAlways, PairAlways, PTL DEF Spec, ImplementsPool, Pool!Spec
-----------------------------------------------------------------------------
(* The test behind pages[]. *)

\* Where the kernel goes behind pages[], the buddy's entry is not in it.
WildInv == pc = "wild" => lvl < MAX_ORDER - 1 /\ BuddyOf(pfn, lvl) \notin PFN

\* The kernel goes no further behind pages[].
LEMMA WildStep == WildInv /\ [Next]_vars => WildInv'
<1> SUFFICES ASSUME WildInv, [Next]_vars, pc' = "wild"
             PROVE  lvl' < MAX_ORDER - 1 /\ BuddyOf(pfn, lvl)' \notin PFN
  BY Zenon DEF WildInv, PFN
<1>1. UNCHANGED <<pfn, lvl>>
  BY Zenon DEF Next, Carve, CarveDone, Alloc, AllocPanic, Split, Pop, Free, Merge, MergeBeyond,
         MergeDone, vars
<1>2. lvl < MAX_ORDER - 1 /\ BuddyOf(pfn, lvl) \notin PFN
  BY Zenon DEF Next, Carve, CarveDone, Alloc, AllocPanic, Split, Pop, Free, Merge, MergeBeyond,
         MergeDone, vars, WildInv
<1> QED BY <1>1, <1>2 DEF BuddyOf, IsUpper

\* Frames of one block of size p have one quotient.
LEMMA DivIn ==
    ASSUME NEW p \in Nat, p > 0, NEW k \in Nat, NEW x \in Nat, k * p <= x, x < k * p + p
    PROVE  x \div p = k
<1>1. x % p \in Nat /\ x % p < p /\ x \div p \in Nat /\ x = (x \div p) * p + (x % p)
  BY Division
<1>2. PICK m \in Nat : m = k * p
  OBVIOUS
<1>3. PICK r \in Nat : r = x - m /\ r < p
  BY <1>2
<1>4. k * p + r = (x \div p) * p + (x % p)
  BY <1>1, <1>2, <1>3
<1> QED BY <1>1, <1>3, <1>4, Unique

\* For any memory size, the merge test reads behind pages[] only inside the
\* largest block that holds the last frame.
THEOREM BuddyBeyondOnlyInLastBlock == Spec => []BeyondOnlyInLastBlock
<1>1. ASSUME IInv, AlignedInv, WildInv PROVE BeyondOnlyInLastBlock
  <2> DEFINE M == MAX_ORDER - 1
             top == Pow2[M]
  <2> SUFFICES ASSUME pc = "wild"
               PROVE  BuddyOf(pfn, lvl) \div top = (NR_PAGES - 1) \div top
    BY DEF BeyondOnlyInLastBlock
  <2>1. PICK f \in PFN, i \in Order : f = pfn /\ i = lvl
    BY Zenon, <1>1 DEF IInv, TypeOK, LoopInv
  <2>2. /\ f \in Nat /\ f < NR_PAGES /\ NR_PAGES \in Nat /\ M \in Order
        /\ i < MAX_ORDER - 1 /\ i + 1 \in Order /\ i + 1 <= M
        /\ Pow2[i + 1] = 2 * Pow2[i] /\ Pow2[i] \in Nat /\ Pow2[i] > 0
        /\ top \in Nat /\ top > 0
    BY <1>1, <2>1, Pow2Facts DEF WildInv, PFN, Order
  <2>3. Block(f, i) /\ BuddyOf(f, i) \notin PFN
    BY <1>1, <2>1 DEF Block, Carried, WildInv
  <2>4. Al(f, i) /\ f + Pow2[i] <= NR_PAGES
    BY <1>1, <2>3 DEF AlignedInv, IInv, Inside
  <2>5. ~(BuddyOf(f, i) = f - Pow2[i] /\ f >= Pow2[i])
    BY <2>2, <2>3 DEF PFN
  <2>6. BuddyOf(f, i) = f + Pow2[i] /\ Al(f, i + 1)
    BY <2>2, <2>4, <2>5, AlBuddy
  <2>7. f + Pow2[i] = NR_PAGES
    BY <2>2, <2>3, <2>4, <2>6 DEF PFN
  <2> HIDE DEF M, top
  <2>8. PICK k \in Nat : k * top <= f /\ f < k * top + top
    <3>1. f % top \in Nat /\ f % top < top /\ f \div top \in Nat
          /\ f = (f \div top) * top + (f % top)
      BY <2>2, Division
    <3>2. PICK k \in Nat : k = f \div top
      BY <3>1
    <3>3. k * top \in Nat
      BY <2>2
    <3>4. k * top <= f /\ f < k * top + top
      BY <2>2, <3>1, <3>2, <3>3
    <3> QED BY <3>4
  <2>9. PICK b \in Nat : b = k * top
    BY <2>2
  <2>10. Al(b, M)
    BY <2>9 DEF Al, Mult, top
  <2>11. b <= f /\ f < b + Pow2[M]
    BY Zenon, <2>8, <2>9 DEF top
  <2>12. f + Pow2[i + 1] <= b + Pow2[M]
    BY Zenon, <2>2, <2>6, <2>10, <2>11, AlIn
  <2>13. /\ k * top <= f + Pow2[i] /\ f + Pow2[i] < k * top + top /\ f + Pow2[i] \in Nat
         /\ k * top <= NR_PAGES - 1 /\ NR_PAGES - 1 < k * top + top /\ NR_PAGES - 1 \in Nat
    BY <2>2, <2>7, <2>9, <2>11, <2>12 DEF top
  <2>14. (f + Pow2[i]) \div top = k /\ (NR_PAGES - 1) \div top = k
    BY <2>2, <2>13, DivIn
  <2> QED BY <2>1, <2>6, <2>14
<1>2. Init => WildInv
  BY DEF Init, WildInv
<1> QED BY <1>1, <1>2, WildStep, IInvAlways, AlignedAlways, PTL DEF Spec
=============================================================================
