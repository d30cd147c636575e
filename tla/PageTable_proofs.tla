-------------------------- MODULE PageTable_proofs --------------------------
(***************************************************************************)
(* The page table of kernel/vmm.c on one hart, for any number of frames,   *)
(* any size of a table and any set of virtual pages.                       *)
(*                                                                         *)
(* The first part is about a store of tables as a mathematical object:     *)
(* what is reachable from the directory, and what becomes of it when a     *)
(* leaf entry is written or a cleared table is hung in.  The second part   *)
(* shows that every step of page_walk, map_pages and user_vm_unmap is one  *)
(* of these changes, seen through CleanMem: a table that waits for its     *)
(* memset counts as cleared.                                               *)
(***************************************************************************)
EXTENDS PageTable, FiniteSetTheorems, TLAPS

Table == Frame \cup {Root}
Val   == Frame \cup {Invalid}
Store == [Table -> [Index -> Val]]

Look(m, t, i) == IF t = Invalid THEN Invalid ELSE m[t][i]

\* The tables below the directory, by level, and all tables in use.
Mid(m) == {t \in Frame : \E i \in Index : m[Root][i] = t}
Low(m) == {t \in Frame : \E s \in Mid(m), i \in Index : m[s][i] = t}
InUse(m) == {Root} \cup Mid(m) \cup Low(m)

\* The frames some table in use points to.
Linked(m) == {f \in Frame : \E t \in InUse(m), i \in Index : m[t][i] = f}

\* No frame is linked twice.
LinkedOnce(m) ==
    \A t, s \in InUse(m), i, j \in Index :
        m[t][i] = m[s][j] /\ m[t][i] # Invalid => t = s /\ i = j

Find(m, v) == Look(m, Look(m, Look(m, Root, v[2]), v[1]), v[0])
-----------------------------------------------------------------------------
\* The levels of a table store in which nothing is linked twice are disjoint,
\* and what the lowest tables point to is no table.
LEMMA Levels ==
    ASSUME NEW m \in Store, LinkedOnce(m)
    PROVE  /\ InUse(m) \subseteq Table
           /\ Root \notin Mid(m) /\ Root \notin Low(m) /\ Mid(m) \cap Low(m) = {}
           /\ \A t \in InUse(m) : t # Root => t \in Linked(m)
           /\ \A s \in Low(m), j \in Index : m[s][j] \notin InUse(m)
<1> USE PageTableAssumption
<1>1. InUse(m) \subseteq Table /\ Root \notin Mid(m) /\ Root \notin Low(m)
  BY DEF InUse, Mid, Low, Table
<1>2. Mid(m) \cap Low(m) = {}
  BY <1>1 DEF LinkedOnce, InUse, Mid, Low
<1>3. \A t \in InUse(m) : t # Root => t \in Linked(m)
  BY DEF InUse, Mid, Low, Linked
<1>4. ASSUME NEW s \in Low(m), NEW j \in Index
      PROVE  m[s][j] \notin InUse(m)
  <2>1. m[s][j] \in Val
    BY <1>1 DEF InUse, Store
  <2>2. m[s][j] \notin Mid(m)
    BY <1>1 DEF LinkedOnce, InUse, Mid
  <2>3. m[s][j] \notin Low(m)
    BY <1>1, <1>2 DEF LinkedOnce, InUse, Low
  <2> QED
    BY <2>1, <2>2, <2>3 DEF InUse, Val
<1> QED
  BY <1>1, <1>2, <1>3, <1>4

\* The directory and the tables on a path are in use.
LEMMA PathInUse ==
    ASSUME NEW m \in Store, NEW v \in [0 .. 2 -> Index]
    PROVE  /\ v[0] \in Index /\ v[1] \in Index /\ v[2] \in Index
           /\ Look(m, Root, v[2]) = m[Root][v[2]]
           /\ Look(m, Root, v[2]) \in Mid(m) \cup {Invalid}
           /\ Look(m, Look(m, Root, v[2]), v[1]) \in Low(m) \cup {Invalid}
           /\ Find(m, v) \in Linked(m) \cup {Invalid}
<1> USE PageTableAssumption
<1>1. v[0] \in Index /\ v[1] \in Index /\ v[2] \in Index
  OBVIOUS
<1>2. Look(m, Root, v[2]) = m[Root][v[2]]
  BY DEF Look
<1>3. Look(m, Root, v[2]) \in Mid(m) \cup {Invalid}
  BY <1>1, <1>2 DEF Mid, Store, Table, Val
<1>4. \A t \in Mid(m), i \in Index : m[t][i] \in Val
  BY DEF Mid, Store, Table
<1>5. Look(m, Look(m, Root, v[2]), v[1]) \in Low(m) \cup {Invalid}
  BY <1>1, <1>3, <1>4 DEF Look, Low, Val
<1>6. \A t \in Low(m), i \in Index : m[t][i] \in Val
  BY Zenon DEF Low, Store, Table
<1>7. Find(m, v) \in Linked(m) \cup {Invalid}
  BY Zenon, <1>1, <1>5, <1>6 DEF Find, Look, Linked, InUse, Val
<1> QED
  BY <1>1, <1>2, <1>3, <1>5, <1>7

\* What is stored in a frame that is no table in use does not matter.
LEMMA OutsideChange ==
    ASSUME NEW m \in Store, NEW n \in Store, \A t \in InUse(m) : n[t] = m[t]
    PROVE  /\ Mid(n) = Mid(m) /\ Low(n) = Low(m) /\ InUse(n) = InUse(m)
           /\ Linked(n) = Linked(m) /\ (LinkedOnce(m) => LinkedOnce(n))
           /\ \A v \in [0 .. 2 -> Index] : Find(n, v) = Find(m, v)
<1>1. Mid(n) = Mid(m)
  BY DEF InUse, Mid
<1>2. Low(n) = Low(m)
  BY <1>1 DEF InUse, Low
<1>3. InUse(n) = InUse(m)
  BY <1>1, <1>2 DEF InUse
<1>4. Linked(n) = Linked(m) /\ (LinkedOnce(m) => LinkedOnce(n))
  BY <1>3 DEF Linked, LinkedOnce
<1>5. ASSUME NEW v \in [0 .. 2 -> Index] PROVE Find(n, v) = Find(m, v)
  <2>1. Look(n, Root, v[2]) = Look(m, Root, v[2])
    BY DEF Look, InUse
  <2>2. Look(n, Look(m, Root, v[2]), v[1]) = Look(m, Look(m, Root, v[2]), v[1])
    BY PathInUse DEF Look, InUse
  <2>3. \A t \in Low(m) \cup {Invalid} : Look(n, t, v[0]) = Look(m, t, v[0])
    BY DEF Look, InUse
  <2> QED
    BY <2>1, <2>2, <2>3, PathInUse DEF Find
<1> QED
  BY <1>1, <1>2, <1>3, <1>4, <1>5

\* The memory n is m with x in entry k of table p.
Differs(n, m, p, k, x) ==
    \A t \in Table : \A i \in Index : n[t][i] = IF t = p /\ i = k THEN x ELSE m[t][i]

\* A leaf entry is written or cleared.
LEMMA LeafChange ==
    ASSUME NEW m \in Store, LinkedOnce(m), NEW p \in Low(m), NEW k \in Index,
           NEW x \in Val, x \notin Linked(m), x = Invalid \/ m[p][k] = Invalid,
           NEW n \in Store,
           Differs(n, m, p, k, x)
    PROVE  /\ LinkedOnce(n) /\ InUse(n) = InUse(m)
           /\ Mid(n) = Mid(m) /\ Low(n) = Low(m)
           /\ Linked(n) = (Linked(m) \ {m[p][k]}) \cup ({x} \ {Invalid})
           /\ \A v \in [0 .. 2 -> Index] :
                 Find(n, v) = IF Look(m, Look(m, Root, v[2]), v[1]) = p /\ v[0] = k
                              THEN x ELSE Find(m, v)
<1> USE PageTableAssumption
<1>1. p \in Table /\ p # Root /\ p \notin Mid(m) /\ p \in InUse(m) /\ p # Invalid
  BY Levels DEF Low, InUse, Table
<1>3. \A t \in Table : \A i \in Index : n[t][i] = IF t = p /\ i = k THEN x ELSE m[t][i]
  BY DEF Differs
<1>4. Mid(n) = Mid(m)
  BY <1>1, <1>3 DEF Mid, Table
<1>5. Low(n) = Low(m)
  BY <1>1, <1>3, <1>4 DEF Low, Mid, Table
<1>6. InUse(n) = InUse(m) /\ InUse(m) \subseteq Table
  BY <1>4, <1>5, Levels DEF InUse
<1>7. \A t \in InUse(m), i \in Index : m[t][i] = x => x = Invalid
  BY DEF Linked, Val
<1>8. LinkedOnce(n)
  BY <1>3, <1>6, <1>7 DEF LinkedOnce
<1>9. Linked(n) = (Linked(m) \ {m[p][k]}) \cup ({x} \ {Invalid})
  <2>1. ASSUME NEW g \in Linked(n) PROVE g \in (Linked(m) \ {m[p][k]}) \cup ({x} \ {Invalid})
    <3>1. PICK t \in InUse(m), i \in Index : n[t][i] = g /\ g \in Frame
      BY <1>6 DEF Linked
    <3>2. CASE t = p /\ i = k
      BY <1>3, <1>6, <3>1, <3>2
    <3>3. CASE ~(t = p /\ i = k)
      BY <1>1, <1>3, <1>6, <3>1, <3>3 DEF Linked, LinkedOnce
    <3> QED
      BY <3>2, <3>3
  <2>2. ASSUME NEW g \in Linked(m), g # m[p][k] PROVE g \in Linked(n)
    BY <1>3, <1>6, <2>2 DEF Linked
  <2>3. x # Invalid => x \in Linked(n)
    BY <1>1, <1>3, <1>6 DEF Linked, Val
  <2> QED
    BY <2>1, <2>2, <2>3
<1>10. ASSUME NEW v \in [0 .. 2 -> Index]
       PROVE  Find(n, v) = IF Look(m, Look(m, Root, v[2]), v[1]) = p /\ v[0] = k
                           THEN x ELSE Find(m, v)
  <2> DEFINE a == Look(m, Root, v[2])
             b == Look(m, a, v[1])
  <2>1. /\ v[0] \in Index /\ v[1] \in Index /\ v[2] \in Index
        /\ a \in Mid(m) \cup {Invalid} /\ b \in Low(m) \cup {Invalid}
    BY PathInUse
  <2>2. Look(n, Root, v[2]) = a
    BY <1>1, <1>3, <2>1 DEF Look, Table
  <2>3. Look(n, a, v[1]) = b
    BY <1>1, <1>3, <2>1 DEF Look, Mid, Table
  <2>4. Look(n, b, v[0]) = IF b = p /\ v[0] = k THEN x ELSE Look(m, b, v[0])
    BY Zenon, <1>1, <1>3, <2>1 DEF Look, Low, Table
  <2> QED
    BY <2>2, <2>3, <2>4 DEF Find
<1> QED
  BY <1>4, <1>5, <1>6, <1>8, <1>9, <1>10

\* A cleared table is hung into an empty entry of the directory or of a table
\* of the middle level: no page is found that was not found before.
LEMMA TableAdded ==
    ASSUME NEW m \in Store, LinkedOnce(m), NEW p \in {Root} \cup Mid(m), NEW k \in Index,
           m[p][k] = Invalid, NEW x \in Frame, x \notin Linked(m),
           NEW n \in Store,
           \A t \in Table : t # x =>
              \A i \in Index : n[t][i] = IF t = p /\ i = k THEN x ELSE m[t][i],
           \A i \in Index : n[x][i] = Invalid
    PROVE  /\ LinkedOnce(n) /\ InUse(n) = InUse(m) \cup {x}
           /\ Mid(m) \subseteq Mid(n) /\ Low(m) \subseteq Low(n)
           /\ p = Root => x \in Mid(n)
           /\ p \in Mid(m) => x \in Low(n)
           /\ \A t \in InUse(m), i \in Index :
                 n[t][i] = IF t = p /\ i = k THEN x ELSE m[t][i]
           /\ Linked(n) = Linked(m) \cup {x}
           /\ \A v \in [0 .. 2 -> Index] : Find(n, v) = Find(m, v)
<1> USE PageTableAssumption
<1>1. /\ InUse(m) \subseteq Table /\ p \in InUse(m) /\ x \notin InUse(m) /\ x \in Table
      /\ x # Root /\ x # p /\ Root \notin Mid(m) /\ Root \notin Low(m)
      /\ Mid(m) \cap Low(m) = {} /\ x \notin Mid(m) /\ x \notin Low(m)
  BY Levels DEF InUse, Table
<1>4. /\ Mid(n) = IF p = Root THEN Mid(m) \cup {x} ELSE Mid(m)
      /\ \A t \in Mid(m) : t \in Table /\ t # x
  BY <1>1 DEF Mid, Table
<1>5. Low(n) = IF p = Root THEN Low(m) ELSE Low(m) \cup {x}
  <2>1. CASE p = Root
    BY <1>1, <1>4, <2>1 DEF Low
  <2>2. CASE p # Root
    <3>1. p \in Mid(m) /\ Mid(n) = Mid(m)
      BY <1>4, <2>2
    <3> QED
      BY <1>1, <1>4, <2>2, <3>1 DEF Low
  <2> QED
    BY <2>1, <2>2
<1>6. InUse(n) = InUse(m) \cup {x}
  BY <1>4, <1>5 DEF InUse
<1>7. \A t \in InUse(m) : t \in Table /\ t # x
  BY <1>1
<1>8. \A t \in InUse(m), i \in Index : n[t][i] = IF t = p /\ i = k THEN x ELSE m[t][i]
  BY <1>7
<1>9. \A t \in InUse(m), i \in Index : m[t][i] # x
  BY DEF Linked
<1>10. LinkedOnce(n)
  BY <1>6, <1>8, <1>9 DEF LinkedOnce
<1>11. Linked(n) = Linked(m) \cup {x}
  <2>1. ASSUME NEW g \in Linked(n) PROVE g \in Linked(m) \cup {x}
    <3>1. PICK t \in InUse(n), i \in Index : n[t][i] = g /\ g \in Frame
      BY DEF Linked
    <3> QED
      BY <1>6, <1>8, <3>1 DEF Linked
  <2>2. Linked(m) \subseteq Linked(n)
    BY <1>6, <1>8 DEF Linked
  <2>3. x \in Linked(n)
    BY <1>1, <1>6, <1>8 DEF Linked
  <2> QED
    BY <2>1, <2>2, <2>3
<1>12. ASSUME NEW v \in [0 .. 2 -> Index] PROVE Find(n, v) = Find(m, v)
  <2> DEFINE a == Look(m, Root, v[2])
             b == Look(m, a, v[1])
  <2>1. /\ v[0] \in Index /\ v[1] \in Index /\ v[2] \in Index
        /\ a \in Mid(m) \cup {Invalid} /\ b \in Low(m) \cup {Invalid}
    BY PathInUse
  <2>2. \A i \in Index : Look(n, x, i) = Invalid /\ Look(n, Invalid, i) = Invalid
                         /\ Look(m, Invalid, i) = Invalid
    BY <1>1 DEF Look
  <2>3. \A t \in InUse(m), i \in Index :
            Look(n, t, i) = IF t = p /\ i = k THEN x ELSE Look(m, t, i)
    BY <1>7, <1>8 DEF Look, Table
  <2>4. \A t \in InUse(m) : t = p => Look(m, t, k) = Invalid
    BY DEF Look
  <2>5. CASE p = Root /\ v[2] = k
    <3>1. a = Invalid
      BY <2>4, <2>5 DEF InUse
    <3>2. Look(n, Root, v[2]) = x
      BY <2>1, <2>3, <2>5 DEF InUse
    <3> QED
      BY <2>1, <2>2, <3>1, <3>2 DEF Find
  <2>6. CASE ~(p = Root /\ v[2] = k)
    <3>1. Look(n, Root, v[2]) = a
      BY <2>1, <2>3, <2>6 DEF InUse
    <3>2. CASE a = p /\ v[1] = k
      <4>1. a \in Mid(m) /\ b = Invalid
        BY <1>1, <2>1, <2>4, <3>2 DEF InUse
      <4>2. Look(n, a, v[1]) = x
        BY <2>1, <2>3, <3>2, <4>1 DEF InUse
      <4> QED
        BY <2>1, <2>2, <3>1, <4>1, <4>2 DEF Find
    <3>3. CASE ~(a = p /\ v[1] = k)
      <4>1. Look(n, a, v[1]) = b
        BY <2>1, <2>2, <2>3, <3>3 DEF InUse
      <4>2. Look(n, b, v[0]) = Look(m, b, v[0])
        BY <1>1, <2>1, <2>2, <2>3 DEF InUse
      <4> QED
        BY <3>1, <4>1, <4>2 DEF Find
    <3> QED
      BY <3>2, <3>3
  <2> QED
    BY <2>5, <2>6
<1> QED
  BY <1>1, <1>4, <1>5, <1>6, <1>8, <1>10, <1>11, <1>12
-----------------------------------------------------------------------------
\* The memory as the tables will be found: h is the only hart, and the table
\* it has installed and not yet cleared counts as cleared.
CleanMem(h) == [t \in Table |-> IF pc[h] = "clear" /\ new[h] = t THEN Blank ELSE mem[t]]

AnyVA == VA \cup {CHOOSE v \in VA : TRUE}

PtTypeOK ==
    /\ mem \in Store /\ free \in SUBSET Frame
    /\ pc \in [CPU -> {"idle", "walk", "cas", "clear", "oom", "panic"}]
    /\ op \in [CPU -> {"map", "unmap"}] /\ va \in [CPU -> AnyVA]
    /\ lvl \in [CPU -> 0 .. 2] /\ pt \in [CPU -> Table]
    /\ page \in [CPU -> Val] /\ new \in [CPU -> Val]
    /\ space \in [VA -> Val]

\* The table of level l on the way to v.
OnPath(m, v, l) ==
    IF l = 2 THEN Root
    ELSE IF l = 1 THEN Look(m, Root, v[2]) ELSE Look(m, Look(m, Root, v[2]), v[1])

\* Where a call is: its table is the one on the path to its page, the page to
\* map and the table to install are in its hands, and it installs a table only
\* where none is.
WalkInv(h) ==
    /\ pc[h] # "idle" => va[h] \in VA /\ pt[h] = OnPath(CleanMem(h), va[h], lvl[h])
    /\ pc[h] \in {"walk", "cas", "clear"} /\ op[h] = "map" => page[h] \in Frame
    /\ pc[h] = "idle" \/ op[h] = "unmap" => page[h] = Invalid
    /\ pc[h] = "cas" => lvl[h] > 0 /\ Entry(h) = Invalid
    /\ pc[h] \in {"cas", "clear"} => op[h] = "map" /\ new[h] \in Frame

\* The frame is a table that waits for its compare-and-swap.
Spare(h, f) == pc[h] = "cas" /\ new[h] = f

\* Every frame has exactly one use.
UseInv(h) ==
    /\ LinkedOnce(CleanMem(h))
    /\ \A f \in Frame :
         /\ f \in free \/ f \in Linked(CleanMem(h)) \/ page[h] = f \/ Spare(h, f)
         /\ f \in free => f \notin Linked(CleanMem(h)) /\ page[h] # f /\ ~Spare(h, f)
         /\ f \in Linked(CleanMem(h)) => page[h] # f /\ ~Spare(h, f)
         /\ page[h] = f => ~Spare(h, f)

FoundInv(h) == \A v \in VA : Find(CleanMem(h), v) = space[v]

PtInv(h) == PtTypeOK /\ WalkInv(h) /\ UseInv(h) /\ FoundInv(h) /\ PanicOnlyOnRemap
-----------------------------------------------------------------------------
\* The walk of the only hart is at a table in use, at a valid index; only a
\* table that waits for its memset makes CleanMem differ from the memory.
LEMMA Position ==
    ASSUME NEW h, CPU = {h}, PtInv(h)
    PROVE  /\ CleanMem(h) \in Store
           /\ pc[h] # "clear" => CleanMem(h) = mem
           /\ pc[h] # "idle" =>
                /\ va[h] \in [0 .. 2 -> Index] /\ va[h][lvl[h]] \in Index
                /\ lvl[h] = 2 => pt[h] = Root
                /\ lvl[h] = 1 => pt[h] \in Mid(CleanMem(h))
                /\ lvl[h] = 0 => pt[h] \in Low(CleanMem(h))
                /\ pt[h] \in InUse(CleanMem(h))
<1> USE PageTableAssumption
<1>1. CleanMem(h) \in Store
  BY DEF CleanMem, PtInv, PtTypeOK, Store, Blank, Val
<1>2. ASSUME pc[h] # "clear" PROVE CleanMem(h) = mem
  BY Zenon, <1>2 DEF CleanMem, PtInv, PtTypeOK, Store
<1>3. ASSUME pc[h] # "idle"
      PROVE /\ va[h] \in [0 .. 2 -> Index] /\ va[h][lvl[h]] \in Index
            /\ lvl[h] = 2 => pt[h] = Root
            /\ lvl[h] = 1 => pt[h] \in Mid(CleanMem(h))
            /\ lvl[h] = 0 => pt[h] \in Low(CleanMem(h))
            /\ pt[h] \in InUse(CleanMem(h))
  <2>1. va[h] \in VA /\ pt[h] = OnPath(CleanMem(h), va[h], lvl[h])
    BY <1>3 DEF PtInv, WalkInv
  <2>2. va[h] \in [0 .. 2 -> Index] /\ lvl[h] \in 0 .. 2 /\ pt[h] \in Table /\ pt[h] # Invalid
    BY <2>1 DEF PtInv, PtTypeOK, Table
  <2>3. /\ Look(CleanMem(h), Root, va[h][2]) \in Mid(CleanMem(h)) \cup {Invalid}
        /\ Look(CleanMem(h), Look(CleanMem(h), Root, va[h][2]), va[h][1])
              \in Low(CleanMem(h)) \cup {Invalid}
    BY <1>1, <2>2, PathInUse
  <2> QED
    BY <2>1, <2>2, <2>3 DEF OnPath, InUse
<1> QED
  BY <1>1, <1>2, <1>3

\* The path to a page depends on the tables in use only.
LEMMA PathOutside ==
    ASSUME NEW m \in Store, NEW n \in Store, \A t \in InUse(m) : n[t] = m[t],
           NEW v \in [0 .. 2 -> Index], NEW l
    PROVE  OnPath(n, v, l) = OnPath(m, v, l)
<1>1. Look(n, Root, v[2]) = Look(m, Root, v[2])
  BY DEF Look, InUse
<1>2. Look(n, Look(m, Root, v[2]), v[1]) = Look(m, Look(m, Root, v[2]), v[1])
  BY PathInUse DEF Look, InUse
<1> QED
  BY <1>1, <1>2 DEF OnPath

\* Two pages that end at the same entry of the same table are one page.
LEMMA PathUnique ==
    ASSUME NEW m \in Store, LinkedOnce(m),
           NEW v \in [0 .. 2 -> Index], NEW w \in [0 .. 2 -> Index],
           OnPath(m, v, 0) = OnPath(m, w, 0), OnPath(m, v, 0) # Invalid, v[0] = w[0]
    PROVE  v = w
<1> DEFINE a == Look(m, Root, v[2])
           b == Look(m, Root, w[2])
<1>1. /\ v[1] \in Index /\ v[2] \in Index /\ w[1] \in Index /\ w[2] \in Index
      /\ a = m[Root][v[2]] /\ b = m[Root][w[2]]
      /\ a \in Mid(m) \cup {Invalid} /\ b \in Mid(m) \cup {Invalid}
  BY PathInUse
<1>2. Look(m, a, v[1]) = Look(m, b, w[1]) /\ Look(m, a, v[1]) # Invalid
  BY DEF OnPath
<1>3. a \in Mid(m) /\ b \in Mid(m) /\ a # Invalid
  BY Zenon, <1>1, <1>2, PageTableAssumption DEF Look, Mid
<1>4. m[a][v[1]] = m[b][w[1]] /\ m[a][v[1]] # Invalid
  BY Zenon, <1>2, <1>3, PageTableAssumption DEF Look, Mid
<1> HIDE DEF a, b
<1>5. a = b /\ v[1] = w[1]
  BY <1>1, <1>3, <1>4 DEF LinkedOnce, InUse
<1>6. v[2] = w[2]
  BY ZenonT(60), <1>1, <1>3, <1>5 DEF LinkedOnce, InUse
<1> QED
  BY <1>5, <1>6

\* One level further down the path.
LEMMA PathDown ==
    ASSUME NEW m, NEW v, NEW l \in 1 .. 2, OnPath(m, v, l) # Invalid
    PROVE  OnPath(m, v, l - 1) = m[OnPath(m, v, l)][v[l]]
<1>1. l = 1 \/ l = 2
  OBVIOUS
<1>2. CASE l = 1
  <2>1. l - 1 = 0 /\ 0 # 2 /\ 0 # 1 /\ l # 2
    BY <1>2
  <2> QED
    BY Zenon, <1>2, <2>1 DEF OnPath, Look
<1>3. CASE l = 2
  <2>1. l - 1 = 1 /\ 1 # 2
    BY <1>3
  <2> QED
    BY Zenon, <1>3, <2>1, PageTableAssumption DEF OnPath, Look
<1> QED
  BY Zenon, <1>1, <1>2, <1>3

\* The end of the path: what is found is the leaf entry; nothing is found
\* below an empty entry.
LEMMA PathEnd ==
    ASSUME NEW m, NEW v
    PROVE  /\ Find(m, v) = Look(m, OnPath(m, v, 0), v[0])
           /\ \A l \in 0 .. 2 : OnPath(m, v, l) # Invalid /\ m[OnPath(m, v, l)][v[l]] = Invalid
                 => Find(m, v) = Invalid
<1>1. Find(m, v) = Look(m, OnPath(m, v, 0), v[0])
  BY DEF Find, OnPath
<1>2. ASSUME NEW l \in 0 .. 2, OnPath(m, v, l) # Invalid, m[OnPath(m, v, l)][v[l]] = Invalid
      PROVE  Find(m, v) = Invalid
  <2>1. CASE l = 0
    BY <1>1, <1>2, <2>1 DEF Look
  <2>2. CASE l = 1
    <3>1. OnPath(m, v, 0) = Invalid
      BY <1>2, <2>2 DEF Look, OnPath
    <3> QED
      BY <1>1, <3>1 DEF Look
  <2>3. CASE l = 2
    <3>1. OnPath(m, v, 1) = Invalid
      BY <1>2, <2>3 DEF Look, OnPath
    <3>2. OnPath(m, v, 0) = Invalid
      BY <3>1 DEF Look, OnPath
    <3> QED
      BY <1>1, <3>2 DEF Look
  <2> QED
    BY <2>1, <2>2, <2>3
<1> QED
  BY <1>1, <1>2

\* The start of a call, with the frame to map in its hands or without one.
LEMMA MapCallStep ==
    ASSUME NEW h, CPU = {h}, PtInv(h), NEW v \in VA, MapCall(h, v)
    PROVE  PtInv(h)'
<1> USE PageTableAssumption
<1>1. PICK f \in free : /\ page' = [page EXCEPT ![h] = f]
                        /\ free' = free \ {f}
  BY ZenonT(60) DEF MapCall
<1>2. /\ pc[h] = "idle" /\ pc'[h] = "walk" /\ op'[h] = "map" /\ va'[h] = v
      /\ lvl'[h] = 2 /\ pt'[h] = Root /\ page'[h] = f /\ f \in Frame
      /\ mem' = mem /\ new' = new /\ space' = space
  BY <1>1 DEF MapCall, StartWalk, Goto, PtInv, PtTypeOK
<1>3. PtTypeOK'
  BY <1>1 DEF MapCall, StartWalk, Goto, PtInv, PtTypeOK, Val, Table, AnyVA
<1>4. CleanMem(h)' = CleanMem(h)
  BY <1>2 DEF CleanMem
<1>5. WalkInv(h)'
  BY Zenon, <1>2 DEF WalkInv, OnPath
<1>6. UseInv(h)'
  BY Zenon, <1>1, <1>2, <1>4 DEF UseInv, Spare, PtInv, WalkInv
<1>7. FoundInv(h)' /\ PanicOnlyOnRemap'
  BY Zenon, <1>2, <1>4 DEF FoundInv, PanicOnlyOnRemap, PtInv
<1> QED
  BY <1>3, <1>5, <1>6, <1>7 DEF PtInv

\* The start of an unmap call: nothing changes hands.
LEMMA UnmapCallStep ==
    ASSUME NEW h, CPU = {h}, PtInv(h), NEW v \in VA, UnmapCall(h, v)
    PROVE  PtInv(h)'
<1> USE PageTableAssumption
<1>2. /\ pc[h] = "idle" /\ pc'[h] = "walk" /\ op'[h] = "unmap" /\ va'[h] = v
      /\ lvl'[h] = 2 /\ pt'[h] = Root /\ page' = page /\ free' = free
      /\ mem' = mem /\ new' = new /\ space' = space
  BY DEF UnmapCall, StartWalk, Goto, PtInv, PtTypeOK
<1>3. PtTypeOK'
  BY DEF UnmapCall, StartWalk, Goto, PtInv, PtTypeOK, Val, Table, AnyVA
<1>4. CleanMem(h)' = CleanMem(h)
  BY Zenon, <1>2 DEF CleanMem
<1>5. WalkInv(h)'
  BY Zenon, <1>2 DEF WalkInv, OnPath, PtInv
<1>6. UseInv(h)'
  BY Zenon, <1>2, <1>4 DEF UseInv, Spare, PtInv, WalkInv
<1>7. FoundInv(h)' /\ PanicOnlyOnRemap'
  BY <1>2, <1>4 DEF FoundInv, PanicOnlyOnRemap, PtInv
<1> QED
  BY <1>3, <1>5, <1>6, <1>7 DEF PtInv

\* A walk goes on below a table that is there.
LEMMA FollowStep ==
    ASSUME NEW h, CPU = {h}, PtInv(h), Follow(h)
    PROVE  PtInv(h)'
<1> USE PageTableAssumption
<1>1. /\ pc[h] = "walk" /\ lvl[h] \in 1 .. 2 /\ pt'[h] = Entry(h) /\ Entry(h) # Invalid
      /\ lvl'[h] = lvl[h] - 1
      /\ UNCHANGED <<mem, free, pc, op, va, page, new, space>>
  BY DEF Follow, Descend, PtInv, PtTypeOK
<1>2. CleanMem(h)' = CleanMem(h) /\ CleanMem(h) = mem
  BY Zenon, <1>1, Position DEF CleanMem
<1>3. pt[h] \in Table /\ va[h][lvl[h]] \in Index /\ pt[h] # Invalid
      /\ pt[h] = OnPath(CleanMem(h), va[h], lvl[h])
  BY Zenon, <1>1, Position DEF PtInv, PtTypeOK, Table, WalkInv
<1>4. Entry(h) \in Table
  <2>1. mem \in [Table -> [Index -> Val]]
    BY Zenon DEF PtInv, PtTypeOK, Store
  <2>2. mem[pt[h]][va[h][lvl[h]]] \in Val
    BY <1>3, <2>1
  <2> QED
    BY Zenon, <1>1, <2>2 DEF Entry, Val, Table
<1>5. PtTypeOK'
  BY <1>1, <1>4 DEF Follow, Descend, PtInv, PtTypeOK
<1>6. pt'[h] = OnPath(CleanMem(h), va[h], lvl'[h])
  BY <1>1, <1>2, <1>3, PathDown DEF Entry
<1>7. WalkInv(h)'
  BY Zenon, <1>1, <1>2, <1>6 DEF WalkInv, PtInv
<1>8. UseInv(h)'
  BY Zenon, <1>1, <1>2 DEF UseInv, Spare, PtInv
<1>9. FoundInv(h)' /\ PanicOnlyOnRemap'
  BY <1>1, <1>2 DEF FoundInv, PanicOnlyOnRemap, PtInv
<1> QED
  BY <1>5, <1>7, <1>8, <1>9 DEF PtInv

\* The page for a new table was free, so what is left in it is not looked at.
LEMMA AllocTableStep ==
    ASSUME NEW h, CPU = {h}, PtInv(h), AllocTable(h)
    PROVE  PtInv(h)'
<1> USE PageTableAssumption
<1>1. PICK f \in free, left \in Frame \cup {Invalid} :
         /\ free' = free \ {f}
         /\ mem' = [mem EXCEPT ![f] = [i \in Index |-> left]]
         /\ new' = [new EXCEPT ![h] = f]
  BY Zenon DEF AllocTable
<1>2. /\ pc[h] = "walk" /\ lvl[h] > 0 /\ op[h] = "map" /\ Entry(h) = Invalid
      /\ pc'[h] = "cas" /\ new'[h] = f /\ f \in Frame
      /\ UNCHANGED <<op, va, lvl, pt, page, space>>
  BY <1>1 DEF AllocTable, Goto, PtInv, PtTypeOK
<1>3. PtTypeOK'
  <2>1. mem' \in Store
    BY <1>1, <1>2 DEF PtInv, PtTypeOK, Store, Val, Table
  <2> QED
    BY Zenon, <1>1, <1>2, <2>1 DEF AllocTable, Goto, PtInv, PtTypeOK, Val
<1>4. CleanMem(h) = mem /\ CleanMem(h)' = mem' /\ mem \in Store /\ mem' \in Store
  <2>1. CleanMem(h)' = mem'
    BY <1>2, <1>3 DEF CleanMem, PtTypeOK, Store
  <2> QED
    BY <2>1, <1>2, <1>3, Position DEF PtTypeOK
<1>5. f \notin Linked(mem) /\ LinkedOnce(mem)
  BY Zenon, <1>1, <1>2, <1>4 DEF PtInv, UseInv
<1>6. f \notin InUse(mem)
  BY <1>2, <1>4, <1>5, Levels
<1>7. \A t \in InUse(mem) : mem'[t] = mem[t]
  BY <1>1, <1>4, <1>5, <1>6, Levels DEF Store
<1>8. /\ Linked(mem') = Linked(mem) /\ LinkedOnce(mem')
      /\ \A v \in [0 .. 2 -> Index] : Find(mem', v) = Find(mem, v)
  BY <1>4, <1>5, <1>7, OutsideChange
<1>9. pt[h] \in InUse(mem) /\ va[h] \in [0 .. 2 -> Index]
  BY <1>2, <1>4, Position
<1>10. OnPath(mem', va[h], lvl[h]) = OnPath(mem, va[h], lvl[h])
  BY <1>4, <1>7, <1>9, PathOutside
<1>11. WalkInv(h)'
  <2>1. Entry(h)' = Invalid
    BY Zenon, <1>2, <1>7, <1>9 DEF Entry
  <2> QED
    BY Zenon, <1>2, <1>4, <1>10, <2>1 DEF WalkInv, PtInv
<1>12. UseInv(h)'
  BY Zenon, <1>1, <1>2, <1>4, <1>8 DEF UseInv, Spare, PtInv
<1>13. FoundInv(h)' /\ PanicOnlyOnRemap'
  BY Zenon, <1>2, <1>4, <1>8 DEF FoundInv, PanicOnlyOnRemap, PtInv
<1> QED
  BY Zenon, <1>3, <1>11, <1>12, <1>13 DEF PtInv

\* A walk that ends with a panic leaves the tables as they are.
LEMMA PanicSteps ==
    ASSUME NEW h, CPU = {h}, PtInv(h), AllocPanic(h) \/ MapPanic(h)
    PROVE  PtInv(h)'
<1> USE PageTableAssumption
<1>1. /\ pc[h] = "walk" /\ pc'[h] \in {"oom", "panic"}
      /\ pc'[h] = "panic" => lvl[h] = 0 /\ Entry(h) # Invalid
      /\ UNCHANGED <<mem, free, op, va, lvl, pt, page, new, space>>
  BY DEF AllocPanic, MapPanic, MapAllowed, Goto, PtInv, PtTypeOK
<1>2. PtTypeOK'
  BY Zenon DEF AllocPanic, MapPanic, Goto, PtInv, PtTypeOK
<1>3. CleanMem(h)' = CleanMem(h) /\ CleanMem(h) = mem
  BY ZenonT(60), <1>1, Position DEF CleanMem
<1>4. WalkInv(h)' /\ UseInv(h)' /\ FoundInv(h)'
  BY Zenon, <1>1, <1>3 DEF WalkInv, UseInv, Spare, FoundInv, PtInv
<1>5. PanicOnlyOnRemap'
  <2>1. ASSUME pc'[h] = "panic" PROVE space[va[h]] # Invalid
    <3>1. va[h] \in VA /\ pt[h] = OnPath(mem, va[h], 0) /\ Entry(h) # Invalid
          /\ pt[h] # Invalid /\ lvl[h] = 0
      BY Zenon, <1>1, <1>3, <2>1 DEF PtInv, WalkInv, PtTypeOK, Table
    <3>2. Find(mem, va[h]) = Entry(h)
      BY <3>1, PathEnd DEF Look, Entry
    <3> QED
      BY Zenon, <1>3, <3>1, <3>2 DEF PtInv, FoundInv
  <2> QED
    BY Zenon, <1>1, <2>1 DEF PanicOnlyOnRemap
<1> QED
  BY <1>2, <1>4, <1>5 DEF PtInv

\* The compare-and-swap hangs in a table that counts as cleared.
LEMMA InstallStep ==
    ASSUME NEW h, CPU = {h}, PtInv(h), Install(h)
    PROVE  PtInv(h)'
<1> USE PageTableAssumption
<1> DEFINE m == CleanMem(h)
           n == CleanMem(h)'
           p == pt[h]
           k == va[h][lvl[h]]
           x == new[h]
<1>1. /\ pc[h] = "cas" /\ pc'[h] = "clear" /\ lvl[h] \in 1 .. 2 /\ op[h] = "map"
      /\ x \in Frame /\ Entry(h) = Invalid /\ va[h] \in VA
      /\ mem' = [mem EXCEPT ![p][k] = x] /\ pt'[h] = x /\ lvl'[h] = lvl[h] - 1
      /\ UNCHANGED <<free, op, va, page, new, space>>
  BY DEF Install, SetEntry, Descend, Goto, PtInv, PtTypeOK, WalkInv
<1>2. /\ m = mem /\ m \in Store /\ va[h] \in [0 .. 2 -> Index] /\ k \in Index
      /\ lvl[h] = 2 => p = Root
      /\ lvl[h] = 1 => p \in Mid(m)
      /\ p \in InUse(m)
  BY Zenon, <1>1, Position
<1>3. LinkedOnce(m) /\ x \notin Linked(m) /\ m[p][k] = Invalid /\ p = OnPath(m, va[h], lvl[h])
  BY Zenon, <1>1, <1>2 DEF PtInv, UseInv, Spare, WalkInv, Entry
<1>4. p \in Table /\ x \in Table /\ p # Invalid /\ x # p
  BY Zenon, <1>1, <1>2, <1>3, Levels DEF Table
<1>5. PtTypeOK'
  <2>1. mem' \in Store
    BY Zenon, <1>1, <1>2, <1>4 DEF Store, Val
  <2> QED
    BY <1>1, <1>4, <2>1 DEF Install, Descend, Goto, PtInv, PtTypeOK
<1>6. /\ n \in Store
      /\ \A t \in Table : t # x =>
            \A i \in Index : n[t][i] = IF t = p /\ i = k THEN x ELSE m[t][i]
      /\ \A i \in Index : n[x][i] = Invalid
  <2>1. \A t \in Table : \A i \in Index : mem'[t][i] = IF t = p /\ i = k THEN x ELSE mem[t][i]
    BY Zenon, <1>1, <1>2, <1>4 DEF Store
  <2>2. /\ \A t \in Table : t # x => n[t] = mem'[t]
        /\ n[x] = Blank
    BY <1>1, <1>4 DEF CleanMem
  <2>3. n \in Store
    BY <1>5 DEF CleanMem, PtTypeOK, Store, Blank, Val
  <2> QED
    BY <1>2, <2>1, <2>2, <2>3 DEF Blank
<1> HIDE DEF m, n, p, k, x
<1>7. p \in {Root} \cup Mid(m)
  BY <1>1, <1>2
<1>8. /\ LinkedOnce(n) /\ Linked(n) = Linked(m) \cup {x}
      /\ \A t \in InUse(m), i \in Index : n[t][i] = IF t = p /\ i = k THEN x ELSE m[t][i]
      /\ \A v \in [0 .. 2 -> Index] : Find(n, v) = Find(m, v)
  BY <1>1, <1>2, <1>3, <1>6, <1>7, TableAdded
<1>9. OnPath(n, va[h], lvl[h]) = p
  <2>1. CASE lvl[h] = 2
    BY Zenon, <1>2, <2>1 DEF OnPath
  <2>2. CASE lvl[h] = 1
    <3>1. p # Root
      BY <1>2, <2>2 DEF Mid
    <3>2. Look(n, Root, va[h][2]) = Look(m, Root, va[h][2])
      BY <1>2, <1>8, <3>1 DEF Look, InUse
    <3> QED
      BY <1>3, <2>2, <3>2 DEF OnPath
  <2> QED
    BY <1>1, <2>1, <2>2
<1>10. OnPath(n, va[h], lvl'[h]) = x
  <2>1. OnPath(n, va[h], lvl[h] - 1) = n[p][k]
    BY <1>1, <1>4, <1>9, PathDown DEF k
  <2> QED
    BY Zenon, <1>1, <1>2, <1>8, <2>1
<1>11. WalkInv(h)'
  BY Zenon, <1>1, <1>10 DEF WalkInv, PtInv, n, x
<1>12. UseInv(h)'
  BY Zenon, <1>1, <1>8 DEF UseInv, Spare, PtInv, m, n, x
<1>13. FoundInv(h)' /\ PanicOnlyOnRemap'
  BY <1>1, <1>8 DEF FoundInv, PanicOnlyOnRemap, PtInv, m, n
<1> QED
  BY <1>5, <1>11, <1>12, <1>13 DEF PtInv

\* The memset makes the table what it already counted as.
LEMMA ClearStep ==
    ASSUME NEW h, CPU = {h}, PtInv(h), Clear(h)
    PROVE  PtInv(h)'
<1> USE PageTableAssumption
<1>1. /\ pc[h] = "clear" /\ pc'[h] = "walk" /\ new[h] \in Frame /\ op[h] = "map"
      /\ mem' = [mem EXCEPT ![new[h]] = Blank] /\ new'[h] = Invalid
      /\ UNCHANGED <<free, op, va, lvl, pt, page, space>>
  BY DEF Clear, Cleared, Goto, PtInv, PtTypeOK, WalkInv
<1>2. PtTypeOK'
  <2>1. mem' \in Store
    BY Zenon, <1>1 DEF PtInv, PtTypeOK, Store, Val, Table, Blank
  <2> QED
    BY Zenon, <1>1, <2>1 DEF Clear, Goto, PtInv, PtTypeOK, Val
<1>3. CleanMem(h)' = CleanMem(h)
  BY Zenon, <1>1 DEF CleanMem, PtInv, PtTypeOK, Store
<1>4. WalkInv(h)' /\ UseInv(h)'
  BY Zenon, <1>1, <1>3 DEF WalkInv, UseInv, Spare, PtInv
<1>5. FoundInv(h)' /\ PanicOnlyOnRemap'
  BY Zenon, <1>1, <1>3 DEF FoundInv, PanicOnlyOnRemap, PtInv
<1> QED
  BY Zenon, <1>2, <1>4, <1>5 DEF PtInv

\* map_pages stores the leaf entry: exactly the page of the call is found.
LEMMA MapStoreStep ==
    ASSUME NEW h, CPU = {h}, PtInv(h), MapStore(h)
    PROVE  PtInv(h)'
<1> USE PageTableAssumption
<1> DEFINE p == pt[h]
           k == va[h][0]
           x == page[h]
<1>1. /\ pc[h] = "walk" /\ pc'[h] = "idle" /\ lvl[h] = 0 /\ op[h] = "map"
      /\ x \in Frame /\ Entry(h) = Invalid /\ va[h] \in VA /\ page'[h] = Invalid
      /\ mem' = [mem EXCEPT ![p][k] = x] /\ space' = [space EXCEPT ![va[h]] = x]
      /\ UNCHANGED <<free, op, va, lvl, pt, new>>
  BY DEF MapStore, MapAllowed, SetEntry, Finish, Goto, PtInv, PtTypeOK, WalkInv
<1>2. /\ CleanMem(h) = mem /\ mem \in Store /\ va[h] \in [0 .. 2 -> Index] /\ k \in Index
      /\ p \in Low(mem)
  BY Zenon, <1>1, Position
<1>3. LinkedOnce(mem) /\ x \notin Linked(mem) /\ mem[p][k] = Invalid
      /\ p = OnPath(mem, va[h], 0) /\ p # Invalid
  BY Zenon, <1>1, <1>2 DEF PtInv, UseInv, WalkInv, Entry, PtTypeOK, Table
<1>4. /\ mem' \in Store /\ LinkedOnce(mem')
      /\ Linked(mem') = (Linked(mem) \ {Invalid}) \cup ({x} \ {Invalid})
      /\ \A v \in [0 .. 2 -> Index] :
            Find(mem', v) = IF OnPath(mem, v, 0) = p /\ v[0] = k THEN x ELSE Find(mem, v)
  <2> HIDE DEF p, k, x
  <2>1. x \in Val /\ (x = Invalid \/ mem[p][k] = Invalid) /\ x \notin Linked(mem)
    BY Zenon, <1>1, <1>3 DEF Val
  <2>2. /\ mem' \in Store
        /\ \A t \in Table : \A i \in Index :
              mem'[t][i] = IF t = p /\ i = k THEN x ELSE mem[t][i]
    BY Zenon, <1>1, <1>2, <2>1 DEF Store, Low, Table
  <2>3. /\ LinkedOnce(mem')
        /\ Linked(mem') = (Linked(mem) \ {mem[p][k]}) \cup ({x} \ {Invalid})
        /\ \A v \in [0 .. 2 -> Index] :
              Find(mem', v) = IF Look(mem, Look(mem, Root, v[2]), v[1]) = p /\ v[0] = k
                              THEN x ELSE Find(mem, v)
    <3>1. mem \in Store /\ LinkedOnce(mem) /\ p \in Low(mem) /\ k \in Index
      BY Zenon, <1>2, <1>3
    <3>2. mem' \in Store /\ Differs(mem', mem, p, k, x)
      BY Zenon, <2>2 DEF Differs
    <3> QED
      BY <2>1, <3>1, <3>2, LeafChange
  <2>4. \A v : OnPath(mem, v, 0) = Look(mem, Look(mem, Root, v[2]), v[1])
    BY DEF OnPath
  <2> QED
    BY <1>3, <2>2, <2>3, <2>4
<1>5. PtTypeOK'
  BY <1>1, <1>4 DEF MapStore, Finish, Goto, PtInv, PtTypeOK, Val
<1>6. CleanMem(h)' = mem'
  BY Zenon, <1>1, <1>4 DEF CleanMem, Store
<1>7. WalkInv(h)'
  BY <1>1 DEF WalkInv
<1>8. UseInv(h)'
  BY Zenon, <1>1, <1>2, <1>4, <1>6 DEF UseInv, Spare, PtInv
<1>9. FoundInv(h)'
  <2>1. ASSUME NEW v \in VA PROVE Find(mem', v) = space'[v]
    <3>1. v \in [0 .. 2 -> Index] /\ Find(mem, v) = space[v]
      BY <1>2 DEF PtInv, FoundInv
    <3>2. OnPath(mem, v, 0) = p /\ v[0] = k => v = va[h]
      BY Zenon, <1>2, <1>3, <3>1, PathUnique
    <3> QED
      BY Zenon, <1>1, <1>3, <1>4, <3>1, <3>2 DEF PtInv, PtTypeOK
  <2> QED
    BY Zenon, <1>6, <2>1 DEF FoundInv
<1>10. PanicOnlyOnRemap'
  BY Zenon, <1>1 DEF PanicOnlyOnRemap
<1> QED
  BY Zenon, <1>5, <1>7, <1>8, <1>9, <1>10 DEF PtInv

\* user_vm_unmap frees the page and clears its entry: nothing else goes.
LEMMA UnmapStoreStep ==
    ASSUME NEW h, CPU = {h}, PtInv(h), UnmapStore(h)
    PROVE  PtInv(h)'
<1> USE PageTableAssumption
<1> DEFINE p == pt[h]
           k == va[h][0]
<1>1. /\ pc[h] = "walk" /\ pc'[h] = "idle" /\ lvl[h] = 0 /\ op[h] = "unmap"
      /\ Entry(h) # Invalid /\ va[h] \in VA /\ page[h] = Invalid /\ page'[h] = Invalid
      /\ mem' = [mem EXCEPT ![p][k] = Invalid] /\ space' = [space EXCEPT ![va[h]] = Invalid]
      /\ free' = free \cup {Entry(h)}
      /\ UNCHANGED <<op, va, lvl, pt, new>>
  BY DEF UnmapStore, UnmapEntry, SetEntry, Finish, Goto, PtInv, PtTypeOK, WalkInv
<1>2. /\ CleanMem(h) = mem /\ mem \in Store /\ va[h] \in [0 .. 2 -> Index] /\ k \in Index
      /\ p \in Low(mem) /\ p \in InUse(mem)
  BY Zenon, <1>1, Position
<1>3. LinkedOnce(mem) /\ Invalid \notin Linked(mem) /\ mem[p][k] = Entry(h)
      /\ p = OnPath(mem, va[h], 0) /\ p # Invalid /\ p \in Table
  BY Zenon, <1>1, <1>2 DEF PtInv, UseInv, WalkInv, Entry, PtTypeOK, Table, Linked
<1>4. /\ mem' \in Store /\ LinkedOnce(mem')
      /\ Linked(mem') = Linked(mem) \ {Entry(h)}
      /\ \A v \in [0 .. 2 -> Index] :
            Find(mem', v) = IF OnPath(mem, v, 0) = p /\ v[0] = k THEN Invalid ELSE Find(mem, v)
  <2> HIDE DEF p, k
  <2>1. Invalid \in Val /\ (Invalid = Invalid \/ mem[p][k] = Invalid) /\ Invalid \notin Linked(mem)
    BY Zenon, <1>1, <1>3 DEF Val
  <2>2. /\ mem' \in Store
        /\ \A t \in Table : \A i \in Index :
              mem'[t][i] = IF t = p /\ i = k THEN Invalid ELSE mem[t][i]
    BY Zenon, <1>1, <1>2, <2>1 DEF Store, Low, Table
  <2>3. /\ LinkedOnce(mem')
        /\ Linked(mem') = (Linked(mem) \ {mem[p][k]}) \cup ({Invalid} \ {Invalid})
        /\ \A v \in [0 .. 2 -> Index] :
              Find(mem', v) = IF Look(mem, Look(mem, Root, v[2]), v[1]) = p /\ v[0] = k
                              THEN Invalid ELSE Find(mem, v)
    <3>1. mem \in Store /\ LinkedOnce(mem) /\ p \in Low(mem) /\ k \in Index
      BY Zenon, <1>2, <1>3
    <3>2. mem' \in Store /\ Differs(mem', mem, p, k, Invalid)
      BY Zenon, <2>2 DEF Differs
    <3> QED
      BY <2>1, <3>1, <3>2, LeafChange
  <2>4. \A v : OnPath(mem, v, 0) = Look(mem, Look(mem, Root, v[2]), v[1])
    BY DEF OnPath
  <2> QED
    BY Zenon, <1>3, <2>2, <2>3, <2>4
<1>5. Entry(h) \in Frame /\ Entry(h) \in Linked(mem)
  <2>1. mem[p][k] \in Val
    BY Zenon, <1>2, <1>3 DEF Store
  <2>2. Entry(h) \in Frame
    BY Zenon, <1>1, <1>3, <2>1 DEF Val
  <2> QED
    BY Zenon, <1>2, <1>3, <2>2 DEF Linked
<1>6. PtTypeOK'
  BY Zenon, <1>1, <1>4, <1>5 DEF UnmapStore, Finish, Goto, PtInv, PtTypeOK, Val
<1>7. CleanMem(h)' = mem'
  BY Zenon, <1>1, <1>4 DEF CleanMem, Store
<1>8. WalkInv(h)'
  BY <1>1 DEF WalkInv
<1>9. UseInv(h)'
  BY Zenon, <1>1, <1>2, <1>4, <1>5, <1>7 DEF UseInv, Spare, PtInv
<1>10. FoundInv(h)'
  <2>1. ASSUME NEW v \in VA PROVE Find(mem', v) = space'[v]
    <3>1. v \in [0 .. 2 -> Index] /\ Find(mem, v) = space[v]
      BY Zenon, <1>2 DEF PtInv, FoundInv
    <3>2. OnPath(mem, v, 0) = p /\ v[0] = k => v = va[h]
      BY Zenon, <1>2, <1>3, <3>1, PathUnique
    <3> QED
      BY Zenon, <1>1, <1>3, <1>4, <3>1, <3>2 DEF PtInv, PtTypeOK
  <2> QED
    BY <1>7, <2>1 DEF FoundInv
<1>11. PanicOnlyOnRemap'
  BY Zenon, <1>1 DEF PanicOnlyOnRemap
<1> QED
  BY <1>6, <1>8, <1>9, <1>10, <1>11 DEF PtInv

\* user_vm_unmap skips a page only when nothing is mapped there.
LEMMA UnmapSkipStep ==
    ASSUME NEW h, CPU = {h}, PtInv(h), UnmapSkip(h)
    PROVE  PtInv(h)'
<1> USE PageTableAssumption
<1>1. /\ pc[h] = "walk" /\ pc'[h] = "idle" /\ op[h] = "unmap" /\ Entry(h) = Invalid
      /\ va[h] \in VA /\ page[h] = Invalid /\ page'[h] = Invalid
      /\ space' = [space EXCEPT ![va[h]] = Invalid] /\ lvl[h] \in 0 .. 2
      /\ UNCHANGED <<mem, free, op, va, lvl, pt, new>>
  BY Zenon DEF UnmapSkip, Finish, Goto, PtInv, PtTypeOK, WalkInv
<1>2. CleanMem(h)' = CleanMem(h) /\ CleanMem(h) = mem
  BY ZenonT(60), <1>1, Position DEF CleanMem
<1>3. space' = space
  <2>1. pt[h] = OnPath(mem, va[h], lvl[h]) /\ pt[h] # Invalid
    BY Zenon, <1>1, <1>2 DEF PtInv, WalkInv, PtTypeOK, Table
  <2>2. Find(mem, va[h]) = Invalid
    BY <1>1, <2>1, PathEnd DEF Entry
  <2>3. space[va[h]] = Invalid
    BY Zenon, <1>1, <1>2, <2>2 DEF PtInv, FoundInv
  <2> QED
    BY Zenon, <1>1, <2>3 DEF PtInv, PtTypeOK
<1>4. PtTypeOK'
  BY Zenon, <1>1, <1>3 DEF UnmapSkip, Finish, Goto, PtInv, PtTypeOK, Val
<1>5. WalkInv(h)' /\ UseInv(h)'
  BY ZenonT(60), <1>1, <1>2 DEF WalkInv, UseInv, Spare, PtInv
<1>6. FoundInv(h)' /\ PanicOnlyOnRemap'
  BY Zenon, <1>1, <1>2, <1>3 DEF FoundInv, PanicOnlyOnRemap, PtInv
<1> QED
  BY <1>4, <1>5, <1>6 DEF PtInv
-----------------------------------------------------------------------------
\* The invariant holds from the empty address space on, through every call.
LEMMA PtInvAlways ==
    ASSUME NEW h, CPU = {h}
    PROVE  SpecAlone => []PtInv(h)
<1> USE PageTableAssumption
<1>1. Init => PtInv(h)
  <2> SUFFICES ASSUME Init PROVE PtInv(h)
    OBVIOUS
  <2>1. PtTypeOK /\ pc[h] = "idle" /\ page[h] = Invalid
    BY DEF Init, PtTypeOK, Store, Table, Val, Blank, AnyVA
  <2>2. CleanMem(h) = mem /\ \A t \in Table, i \in Index : mem[t][i] = Invalid
    BY <2>1 DEF CleanMem, PtTypeOK, Store, Init, Table, Blank
  <2>3. Mid(mem) = {} /\ Linked(mem) = {} /\ InUse(mem) = {Root}
    BY <2>2 DEF Mid, Low, InUse, Linked, Table
  <2>4. WalkInv(h) /\ PanicOnlyOnRemap
    BY Zenon, <2>1 DEF WalkInv, PanicOnlyOnRemap
  <2>5. UseInv(h)
    BY <2>1, <2>2, <2>3 DEF UseInv, LinkedOnce, Init, Table, Spare
  <2>6. ASSUME NEW v \in VA PROVE Find(mem, v) = space[v]
    <3>1. v \in [0 .. 2 -> Index] /\ mem \in Store
      BY <2>1 DEF PtTypeOK
    <3>2. Find(mem, v) = Invalid
      BY <2>3, <3>1, PathInUse
    <3> QED
      BY <3>2 DEF Init
  <2> QED
    BY <2>1, <2>2, <2>4, <2>5, <2>6 DEF PtInv, FoundInv
<1>2. PtInv(h) /\ [NextAlone]_vars => PtInv(h)'
  <2> SUFFICES ASSUME PtInv(h), [NextAlone]_vars PROVE PtInv(h)'
    BY Zenon
  <2>1. CASE UNCHANGED vars
    BY ZenonT(60), <2>1 DEF vars, PtInv, PtTypeOK, WalkInv, UseInv, FoundInv, PanicOnlyOnRemap,
                CleanMem, Spare, Entry
  <2>2. CASE NextAlone
    <3>1. Step(h)
      BY <2>2 DEF NextAlone
    <3> QED
      BY <3>1, MapCallStep, UnmapCallStep, FollowStep, AllocTableStep, PanicSteps,
         InstallStep, ClearStep, MapStoreStep, UnmapStoreStep, UnmapSkipStep DEF Step
  <2> QED
    BY <2>1, <2>2
<1> QED
  BY <1>1, <1>2, PTL DEF SpecAlone

\* What the hardware reads in a table is what CleanMem holds.
LEMMA AtIsLook ==
    ASSUME NEW h, CPU = {h}, PtInv(h), NEW t \in Table \cup {Invalid}, NEW i \in Index
    PROVE  At(t, i) = Look(CleanMem(h), t, i)
<1> USE PageTableAssumption
<1>1. Dirty(t) <=> pc[h] = "clear" /\ new[h] = t
  BY DEF Dirty
<1> QED
  BY <1>1 DEF At, Look, CleanMem, Blank

\* The translation of the hardware is the one of CleanMem, and so are the
\* tables in use.
LEMMA HardwareView ==
    ASSUME NEW h, CPU = {h}, PtInv(h)
    PROVE  /\ \A v \in VA : Translate(v) = Find(CleanMem(h), v)
           /\ Tables = InUse(CleanMem(h))
           /\ \A t \in Tables, i \in Index : At(t, i) = CleanMem(h)[t][i]
<1> USE PageTableAssumption
<1> DEFINE m == CleanMem(h)
<1>1. m \in Store /\ LinkedOnce(m)
  BY Zenon, Position DEF PtInv, UseInv
<1>2. \A t \in Table \cup {Invalid}, i \in Index : At(t, i) = Look(m, t, i)
  BY AtIsLook
<1> HIDE DEF m
<1>3. ASSUME NEW v \in VA PROVE Translate(v) = Find(m, v)
  <2>1. v \in [0 .. 2 -> Index]
    OBVIOUS
  <2>2. /\ v[0] \in Index /\ v[1] \in Index /\ v[2] \in Index
        /\ Look(m, Root, v[2]) \in Table \cup {Invalid}
        /\ Look(m, Look(m, Root, v[2]), v[1]) \in Table \cup {Invalid}
    BY <1>1, <2>1, PathInUse DEF Mid, Low, Table
  <2>3. Root \in Table
    BY DEF Table
  <2> QED
    BY <1>2, <2>2, <2>3 DEF Translate, Find
<1>4. \A t \in Table, i \in Index : At(t, i) = m[t][i] /\ m[t][i] \in Frame \cup {Invalid}
  BY <1>1, <1>2 DEF Look, Table, Store, Val
<1>5. {At(t, i) : t \in {Root}, i \in Index} \ {Invalid} = Mid(m)
  BY <1>4 DEF Mid, Table
<1>6. {At(t, i) : t \in Mid(m), i \in Index} \ {Invalid} = Low(m)
  BY <1>4 DEF Mid, Low, Table
<1>7. Tables = InUse(m)
  BY <1>5, <1>6 DEF Tables, InUse
<1>8. \A t \in InUse(m) : t \in Table
  BY <1>1, Levels
<1> QED
  BY <1>3, <1>4, <1>7, <1>8 DEF m

\* Exactly one of four counts is one, in numbers.
LEMMA ExactlyOneUse ==
    ASSUME NEW h, CPU = {h}, PtInv(h)
    PROVE  OneUse
<1> USE PageTableAssumption
<1> SUFFICES ASSUME NEW f \in Frame
             PROVE  Cardinality({x \in Tables \X Index : At(x[1], x[2]) = f})
                    + Cardinality({c \in CPU : page[c] = f})
                    + Cardinality({c \in CPU : pc[c] = "cas" /\ new[c] = f})
                    + (IF f \in free THEN 1 ELSE 0) = 1
  BY DEF OneUse
<1> DEFINE m == CleanMem(h)
           links == {x \in Tables \X Index : At(x[1], x[2]) = f}
           hands == {c \in CPU : page[c] = f}
           tables == {c \in CPU : pc[c] = "cas" /\ new[c] = f}
<1>1. Cardinality({}) = 0 /\ \A x : Cardinality({x}) = 1
  BY FS_EmptySet, FS_Singleton
<1>2. Cardinality(hands) = IF page[h] = f THEN 1 ELSE 0
  <2>1. hands = IF page[h] = f THEN {h} ELSE {}
    OBVIOUS
  <2> QED
    BY Zenon, <1>1, <2>1
<1>3. Cardinality(tables) = IF Spare(h, f) THEN 1 ELSE 0
  <2>1. tables = IF Spare(h, f) THEN {h} ELSE {}
    BY DEF Spare
  <2> QED
    BY Zenon, <1>1, <2>1
<1>4. Cardinality(links) = IF f \in Linked(m) THEN 1 ELSE 0
  <2>1. /\ Tables = InUse(m)
        /\ \A t \in InUse(m), i \in Index : At(t, i) = m[t][i]
        /\ LinkedOnce(m)
    BY HardwareView DEF PtInv, UseInv
  <2> HIDE DEF m
  <2>2. links = {x \in InUse(m) \X Index : m[x[1]][x[2]] = f}
    BY <2>1
  <2>3. CASE f \in Linked(m)
    <3>1. PICK t \in InUse(m), i \in Index : m[t][i] = f
      BY <2>3 DEF Linked
    <3>2. \A s \in InUse(m), j \in Index : m[s][j] = f => s = t /\ j = i
      BY <2>1, <3>1 DEF LinkedOnce
    <3>3. links = {<<t, i>>}
      BY <2>2, <3>1, <3>2
    <3> QED
      BY Zenon, <1>1, <2>3, <3>3
  <2>4. CASE f \notin Linked(m)
    <3>1. links = {}
      BY <2>2, <2>4 DEF Linked
    <3> QED
      BY Zenon, <1>1, <2>4, <3>1
  <2> QED
    BY <2>3, <2>4
<1> HIDE DEF links, hands, tables
<1>5. Cardinality(links) + Cardinality(hands) + Cardinality(tables)
         + (IF f \in free THEN 1 ELSE 0) = 1
  BY <1>2, <1>3, <1>4 DEF PtInv, UseInv
<1> QED
  BY <1>5 DEF links, hands, tables

\* On one hart, page_walk, map_pages and user_vm_unmap keep the tables exact:
\* at every step, also between a table's installation and its memset, they
\* translate the pages that are mapped, to their own frames, and no others.
THEOREM PageTableTranslationExact ==
    ASSUME NEW h, CPU = {h}
    PROVE  SpecAlone => []TranslationExact
<1>1. PtInv(h) => TranslationExact
  BY HardwareView DEF PtInv, FoundInv, TranslationExact
<1> QED
  BY <1>1, PtInvAlways, PTL

\* On one hart, no frame has two uses and none is lost: free, linked from one
\* entry of one table, or in the hands of the running call.
THEOREM PageTableOneUse ==
    ASSUME NEW h, CPU = {h}
    PROVE  SpecAlone => []OneUse
<1>1. PtInv(h) => OneUse
  BY ExactlyOneUse
<1> QED
  BY <1>1, PtInvAlways, PTL

\* On one hart, map_pages panics only when the page was already mapped.
THEOREM PageTablePanicOnlyOnRemap ==
    ASSUME NEW h, CPU = {h}
    PROVE  SpecAlone => []PanicOnlyOnRemap
<1>1. PtInv(h) => PanicOnlyOnRemap
  BY DEF PtInv
<1> QED
  BY <1>1, PtInvAlways, PTL
=============================================================================
