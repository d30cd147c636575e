-------------------------- MODULE BootScan_proofs --------------------------
(***************************************************************************)
(* Booting, for any device tree: what the scan of the tree finds is what   *)
(* the kernel uses.  The steps of the scan are those of module DeviceTree; *)
(* every other step of the boot leaves what it found as it is.  With the   *)
(* size of the memory that it found, every page of the boot has one place. *)
(***************************************************************************)
EXTENDS Boot_proofs, DeviceTree_proofs

\* Steps of other parts, which leave the scan alone.
LEMMA ScanKept ==
    ASSUME ScanInv, HtifInv, UNCHANGED <<fdt, query, lex, stack, scan, htif>>, g_mem_size' \in Nat
    PROVE  ScanInv' /\ HtifInv'
<1>1. Place' <=> Place
  BY DEF Place, Top, CallsDone, IsNode, Token
<1>2. ScanInv'
  BY <1>1 DEF ScanInv, Scanning
<1>3. Nodes' = Nodes /\ \A n : Compatible(n)' <=> Compatible(n)
  BY Zenon, SameTree
<1>4. \A n : OpenAt(n)' <=> OpenAt(n)
  BY <1>3 DEF OpenAt
<1>5. CallsDone' <=> CallsDone
  BY DEF CallsDone, Top, IsNode
<1>6. HtifScan => HtifScan'
  BY Zenon, <1>3, <1>4, <1>5 DEF HtifScan
<1>7. HtifInv'
  BY <1>3, <1>6 DEF HtifInv
<1> QED
  BY Zenon, <1>2, <1>7

\* The invariants of the scan hold through the whole boot.
LEMMA ScanInvAlways == Spec => [](ScanInv /\ HtifInv)
<1>1. Init => ScanInv /\ HtifInv
  BY Zenon, ScanStart, HtifStart DEF Init
<1>2. ScanInv /\ HtifInv /\ [Next]_vars => (ScanInv /\ HtifInv)'
  <2> SUFFICES ASSUME ScanInv, HtifInv, [Next]_vars PROVE ScanInv' /\ HtifInv'
    BY Zenon
  <2>1. CASE UNCHANGED scanVars
    BY Zenon, <2>1, ScanKept DEF scanVars, ScanInv
  <2>2. CASE InitDtb
    BY <2>2, ScanStep, HtifStep DEF InitDtb
  <2>3. CASE MStart
    <3>1. query' = "used" /\ UNCHANGED <<stack, scan, htif, g_mem_size>>
      BY Zenon, <2>3 DEF MStart
    <3> QED
      BY <3>1 DEF ScanInv, HtifInv, Scanning
  <2>4. CASE PmmInit
    <3>1. g_mem_size' \in Nat
      BY <2>4, BootAssumption DEF PmmInit, ScanInv
    <3> QED
      BY <2>4, <3>1, ScanKept DEF PmmInit
  <2> QED
    BY <2>1, <2>2, <2>3, <2>4 DEF Next, vars, SetUpFiles, MTimer, FillCache, PmmInitDone,
       TakePage, KernVmInit, LoadUserProgram, LoadProgram, LoadStops, Paid
<1> QED
  BY <1>1, <1>2, PTL DEF Spec

\* query_htif finds the interface exactly when some node of the tree is
\* compatible with it, for every tree: the record that all nodes share is not
\* cleared too early, and not read too late.
THEOREM BootHtifFound == Spec => []HtifFound
<1>1. HtifInv => HtifFound
  BY DEF HtifInv, HtifFound, Compatible
<1> QED
  BY <1>1, ScanInvAlways, PTL

\* A state with the same tree, scan and size.
LEMMA MemKept ==
    ASSUME MemInv, UNCHANGED scanVars PROVE MemInv'
<1>1. /\ fdt' = fdt /\ query' = query /\ lex' = lex /\ stack' = stack /\ scan' = scan
      /\ g_mem_size' = g_mem_size
  BY DEF scanVars
<1>2. /\ Nodes' = Nodes /\ MemoryNodes' = MemoryNodes /\ TrueSizes' = TrueSizes
      /\ PlainCells' <=> PlainCells
      /\ PlainRanges' <=> PlainRanges
      /\ Malformed' <=> Malformed
      /\ \A n : Depth(n)' = Depth(n) /\ MemoryRanges(n)' = MemoryRanges(n)
  BY Zenon, <1>1, TreeSays
<1>3. \A n : OpenAt(n)' <=> OpenAt(n)
  BY <1>1, <1>2 DEF OpenAt
<1>4. Top' = Top /\ (CallsDone' <=> CallsDone) /\ Token' = Token /\ (Scanning' <=> Scanning)
  BY <1>1 DEF Top, CallsDone, IsNode, Token, Scanning
<1>5. Scanning => NoOpen'
  BY <1>3, <1>4 DEF MemInv, NoOpen
<1>6. Reported' = Reported
  BY <1>1, <1>2, <1>3, <1>4 DEF Reported
<1>7. \A S : SizeOver(S, g_mem_size)' <=> SizeOver(S, g_mem_size)
  BY <1>1, <1>2 DEF SizeOver
<1>8. MemSizeRight'
  BY <1>1, <1>2 DEF MemInv, MemSizeRight
<1>9. PathInv => PathInv'
  BY Zenon, <1>1, <1>4, TreeShape DEF PathInv
<1>10. CellsRight => CellsRight'
  BY Zenon, <1>1, <1>4, TreeShape DEF CellsRight
<1>11. \A b : RecordOf(b) => RecordOf(b)'
  BY Zenon, <1>1, <1>2, <1>3, <1>4, TreeShape DEF RecordOf
<1>12. (Plain => SizeOver(Reported, g_mem_size)) => (Plain => SizeOver(Reported, g_mem_size))'
  BY <1>1, <1>2, <1>6 DEF Plain, SizeOver
<1>13. MemScan => MemScan'
  BY <1>4, <1>9, <1>10, <1>11, <1>12 DEF MemScan
<1>14. (Plain => SizeOver(MemoryNodes, g_mem_size)) => (Plain => SizeOver(MemoryNodes, g_mem_size))'
  BY <1>1, <1>2 DEF Plain, SizeOver
<1> QED
  BY <1>1, <1>4, <1>5, <1>8, <1>13, <1>14 DEF MemInv

\* The kernel uses what the scan found only after the scan.
UsedLater == hart.mode # "M" => query = "used"

LEMMA MemInvAlways == Spec => [](MemInv /\ UsedLater)
<1>1. Init => MemInv /\ UsedLater
  BY MemStart DEF Init, HartInit, UsedLater
<1>2. ScanInv /\ HartInv /\ MemInv /\ UsedLater /\ [Next]_vars => (MemInv /\ UsedLater)'
  <2> SUFFICES ASSUME ScanInv, HartInv, MemInv, UsedLater, [Next]_vars PROVE MemInv' /\ UsedLater'
    BY Zenon
  <2>1. CASE UNCHANGED <<scanVars, hart>>
    <3>1. MemInv'
      BY Zenon, <2>1, MemKept
    <3> QED
      BY <2>1, <3>1 DEF UsedLater, scanVars
  <2>2. CASE InitDtb
    <3>1. MemInv'
      BY <2>2, MemStep DEF InitDtb
    <3>2. query # "used" /\ hart' = hart
      BY Zenon, <2>2 DEF InitDtb, ScanNext, Nop, Prop, BeginNode, EndNode, ScanPanic, QueryMem,
                 QueryDone, Scanning
    <3> QED
      BY <3>1, <3>2 DEF UsedLater
  <2>3. CASE MStart
    <3>1. query' = "used"
      BY Zenon, <2>3 DEF MStart
    <3> QED
      BY <3>1 DEF MemInv, MemSizeRight, Scanning, UsedLater
  <2>4. CASE MTimer
    <3>1. hart'.mode = hart.mode /\ UNCHANGED scanVars
      BY <2>4 DEF MTimer, HartInv, HartType
    <3>2. MemInv'
      BY Zenon, <3>1, MemKept
    <3> QED
      BY <3>1, <3>2 DEF UsedLater, scanVars
  <2>5. CASE PmmInit
    <3>1. query' = "used" /\ hart' = hart
      BY <2>5 DEF PmmInit, UsedLater
    <3> QED
      BY <3>1 DEF MemInv, MemSizeRight, Scanning, UsedLater
  <2> QED
    BY Zenon, <2>1, <2>2, <2>3, <2>4, <2>5 DEF Next, vars, SetUpFiles, FillCache, PmmInitDone,
       TakePage, KernVmInit, LoadUserProgram, LoadProgram, LoadStops, Paid
<1>3. Spec => Init /\ [][Next]_vars
  BY PTL DEF Spec
<1> QED
  BY <1>1, <1>2, <1>3, ScanInvAlways, HartInvAlways, PTL

\* query_mem finds the size of the memory that the kernel lies in, for every
\* tree whose counts and ranges are plain: the record and the cell counts that
\* the scan has at hand when a node is reported are those of the node and of
\* its parent.  The scan stops only over a malformed tree or one without such
\* memory.
THEOREM BootMemSizeRight == Spec => []MemSizeRight
<1>1. MemInv => MemSizeRight
  BY DEF MemInv
<1> QED
  BY <1>1, MemInvAlways, PTL

\* Every page has one place while the kernel boots, on a machine of any size
\* and with a cache of any size.
THEOREM BootOnePlace == Spec => []BootPagesInOnePlace
<1>1. Init => CacheInv
  BY Zenon, CacheInvInit
<1>2. CacheInv /\ ScanInv /\ [Next]_vars => CacheInv'
  <2>1. ScanInv => g_mem_size \in Nat
    BY Zenon DEF ScanInv
  <2> QED
    BY Zenon, <2>1, CacheInvStep
<1>3. CacheInv => BootPagesInOnePlace
  BY Zenon, CacheOnePlace
<1>4. Spec => Init /\ [][Next]_vars
  BY PTL DEF Spec
<1> QED
  BY <1>1, <1>2, <1>3, <1>4, ScanInvAlways, PTL
=============================================================================
