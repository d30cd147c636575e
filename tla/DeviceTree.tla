----------------------------- MODULE DeviceTree -----------------------------
(***************************************************************************)
(* The scan of the flattened device tree at boot (dts_parse.c), run twice: *)
(* by query_htif (spike_htif.c) and by query_mem (spike_memory.c).  The    *)
(* tree is a sequence of tokens; one step handles one token.               *)
(*                                                                         *)
(* fdt_scan_helper calls itself for every node.  stack holds its           *)
(* activations: the local last, and the two cell counts of the local child, *)
(* which is the node of the next activation.  The first activation has no  *)
(* node.                                                                   *)
(***************************************************************************)
EXTENDS Integers, Sequences, FiniteSets

CONSTANTS Trees,      \* token sequences; <<>> is a blob that is not understood
          Cell,       \* a cell holds 0 .. Cell - 1, an address two cells
          self        \* an address inside the kernel, (uint64)mem_done

\* The tokens of a kind among the first n.
Count(t, n, kind) == Cardinality({j \in 1 .. n : t[j].t = kind})

TokenSet == [t : {"BEGIN", "END_NODE", "PROP", "NOP", "END"}, is : STRING, val : Seq(Nat)]

\* A tree ends with its only END, never ends more nodes than it began, has an
\* address of at least one cell, and memory below the root only.
WellFormed(t) ==
    /\ t \in Seq(TokenSet)
    /\ \A k \in 1 .. Len(t) : t[k].t = "END" <=> k = Len(t)
    /\ \A k \in 1 .. Len(t) : Count(t, k, "END_NODE") <= Count(t, k, "BEGIN")
    /\ \A k \in 1 .. Len(t) : t[k].t = "PROP" =>
         /\ t[k].is \in {"#address-cells", "#size-cells"} => t[k].val # <<>>
         /\ t[k].is = "#address-cells" => t[k].val[1] > 0
         /\ t[k].is = "memory" => Count(t, k, "END_NODE") + 1 < Count(t, k, "BEGIN")

ASSUME DeviceTreeAssumption ==
    Cell \in Nat \ {0} /\ self \in Nat /\ \A t \in Trees : WellFormed(t)

VARIABLES fdt,        \* the tree
          query,      \* "htif", "mem", then "found", "used", or "panic"
          lex,        \* the next token
          stack,      \* activations of fdt_scan_helper
          scan,       \* htif_scan and mem_scan; reg = <<>> is a null pointer
          htif, g_mem_size

scanVars == <<fdt, query, lex, stack, scan, htif, g_mem_size>>

Cleared == [compat |-> FALSE, memory |-> FALSE, reg |-> <<>>]

\* A scan that starts without the default cell counts.
FreshSingle == [last |-> FALSE, ac |-> 1, sc |-> 1]

\* The locals of fdt_scan_helper.
Fresh == [last |-> FALSE, ac |-> 2, sc |-> 1]

\* fdt_scan enters the helper only for a blob it understands.
Entered(t) == IF t = <<>> THEN <<>> ELSE <<Fresh>>

ScanInit ==
    /\ fdt \in Trees
    /\ query = "htif" /\ lex = 1 /\ stack = Entered(fdt)
    /\ scan = Cleared /\ htif = 0 /\ g_mem_size = 0

Scanning == query \in {"htif", "mem"} /\ stack # <<>>
Token    == fdt[lex]
Top      == Len(stack)
IsNode   == Top >= 2
-----------------------------------------------------------------------------
\* fdt_get_address, fdt_get_size: 64 bits are two cells.
GetNumber(cells) ==
    LET r[k \in 0 .. Len(cells)] ==
          IF k = 0 THEN 0 ELSE (r[k - 1] * Cell + cells[k]) % (Cell * Cell)
    IN  r[Len(cells)]

\* The ranges in a reg property, for the given cell counts.
RangesOf(reg, ac, sc) ==
    LET w == ac + sc IN
    [k \in 1 .. Len(reg) \div w |->
        [base |-> GetNumber(SubSeq(reg, (k - 1) * w + 1, (k - 1) * w + ac)),
         size |-> GetNumber(SubSeq(reg, (k - 1) * w + ac + 1, k * w))]]

\* The assertions of mem_done: a reg property of whole ranges.
WholeRanges(reg, ac, sc) == reg # <<>> /\ Len(reg) % (ac + sc) = 0

\* The loop of mem_done: the last range around the kernel decides.
SizeAround(reg, ac, sc, old) ==
    LET rs == RangesOf(reg, ac, sc)
        In(r) == r.base <= self /\ self <= (r.base + r.size) % (Cell * Cell)
        g[k \in 0 .. Len(rs)] ==
          IF k = 0 THEN old ELSE IF In(rs[k]) THEN rs[k].size ELSE g[k - 1]
    IN  g[Len(rs)]

\* cb->done is called when the node is left or its first child begins.
CallsDone == ~stack[Top].last /\ IsNode

\* mem_done reads the cell counts of the parent of the node.
Parent  == stack[Top - 2]
MemDone == CallsDone /\ query = "mem" /\ scan.memory
DoneOK  == MemDone => WholeRanges(scan.reg, Parent.ac, Parent.sc)

CallDone ==
    /\ DoneOK
    /\ htif' = IF CallsDone /\ query = "htif" /\ scan.compat THEN 1 ELSE htif
    /\ g_mem_size' = IF MemDone THEN SizeAround(scan.reg, Parent.ac, Parent.sc, g_mem_size)
                     ELSE g_mem_size
-----------------------------------------------------------------------------
\* A turn of the loop that leaves lex where it is.
NopStays == Scanning /\ Token.t = "NOP" /\ UNCHANGED scanVars

Nop ==
    /\ Scanning /\ Token.t = "NOP"
    /\ lex' = lex + 1
    /\ UNCHANGED <<fdt, query, stack, scan, htif, g_mem_size>>

\* htif_prop, mem_prop.
SeenProp ==
    CASE query = "htif" /\ Token.is = "htif0"  -> [scan EXCEPT !.compat = TRUE]
      [] query = "mem"  /\ Token.is = "memory" -> [scan EXCEPT !.memory = TRUE]
      [] query = "mem"  /\ Token.is = "reg"    -> [scan EXCEPT !.reg = Token.val]
      [] OTHER -> scan

\* A property of a node: cell counts are stored in the node, which is the
\* child of the activation below.
Prop ==
    /\ Scanning /\ Token.t = "PROP" /\ ~stack[Top].last
    /\ stack' = CASE IsNode /\ Token.is = "#address-cells" ->
                       [stack EXCEPT ![Top - 1].ac = Token.val[1]]
                  [] IsNode /\ Token.is = "#size-cells" ->
                       [stack EXCEPT ![Top - 1].sc = Token.val[1]]
                  [] OTHER -> stack
    /\ scan' = SeenProp
    /\ lex' = lex + 1
    /\ UNCHANGED <<fdt, query, htif, g_mem_size>>

\* open clears the record that all nodes share.
BeginNode ==
    /\ Scanning /\ Token.t = "BEGIN"
    /\ CallDone
    /\ scan' = Cleared
    /\ stack' = Append([stack EXCEPT ![Top].last = TRUE], Fresh)
    /\ lex' = lex + 1
    /\ UNCHANGED <<fdt, query>>

\* A return that does not skip the token.
ReturnedAt(t) == lex

\* The position that fdt_scan_helper returns.
Returned(t) == IF t = "END_NODE" THEN lex + 1 ELSE lex

\* FDT_END_NODE returns behind the token, FDT_END at it.
EndNode ==
    /\ Scanning /\ Token.t \in {"END_NODE", "END"}
    /\ CallDone
    /\ stack' = SubSeq(stack, 1, Top - 1)
    /\ lex' = Returned(Token.t)
    /\ UNCHANGED <<fdt, query, scan>>

\* assert(!last), or an assertion of mem_done.
ScanPanic ==
    /\ Scanning
    /\ \/ Token.t = "PROP" /\ stack[Top].last
       \/ Token.t \in {"BEGIN", "END_NODE", "END"} /\ ~DoneOK
    /\ query' = "panic"
    /\ UNCHANGED <<fdt, lex, stack, scan, htif, g_mem_size>>

\* init_dtb: query_htif is followed by query_mem ...
QueryMem ==
    /\ query = "htif" /\ stack = <<>>
    /\ query' = "mem" /\ lex' = 1 /\ stack' = Entered(fdt)
    /\ scan' = Cleared /\ g_mem_size' = 0
    /\ UNCHANGED <<fdt, htif>>

\* ... which asserts that it found the memory.
QueryDone ==
    /\ query = "mem" /\ stack = <<>>
    /\ query' = IF g_mem_size > 0 THEN "found" ELSE "panic"
    /\ UNCHANGED <<fdt, lex, stack, scan, htif, g_mem_size>>

ScanNext ==
    Nop \/ Prop \/ BeginNode \/ EndNode \/ ScanPanic \/ QueryMem \/ QueryDone
-----------------------------------------------------------------------------
(***************************************************************************)
(* What the tree says, read from its structure and not by a scan.          *)
(***************************************************************************)
Nodes == {i \in DOMAIN fdt : fdt[i].t = "BEGIN"}

Depth(i) == Count(fdt, i, "BEGIN") - Count(fdt, i - 1, "END_NODE")

ParentOf(i) == CHOOSE j \in Nodes :
    /\ j < i /\ Depth(j) = Depth(i) - 1
    /\ \A k \in Nodes : k < i /\ Depth(k) = Depth(j) => k <= j

\* The properties of a node stand before its children.
Own(i, is) ==
    {j \in i + 1 .. Len(fdt) :
        /\ fdt[j].t = "PROP" /\ fdt[j].is = is
        /\ \A k \in i + 1 .. j : fdt[k].t \in {"PROP", "NOP"}}

\* Of several properties of one name the last counts.
LastOf(S) == CHOOSE j \in S : \A k \in S : k <= j

ValueOf(i, is, default) == IF Own(i, is) = {} THEN default ELSE fdt[LastOf(Own(i, is))].val

MemoryNodes == {i \in Nodes : Own(i, "memory") # {}}

ACells(i) == ValueOf(ParentOf(i), "#address-cells", <<2>>)[1]
SCells(i) == ValueOf(ParentOf(i), "#size-cells", <<1>>)[1]
Reg(i)    == ValueOf(i, "reg", <<>>)

RangesAt(i) == RangesOf(Reg(i), ACells(i), SCells(i))

MemoryRanges(i) ==
    {r \in {RangesAt(i)[k] : k \in DOMAIN RangesAt(i)} :
        r.base <= self /\ self < r.base + r.size}

\* Sizes of the ranges that the kernel lies in.
TrueSizes == {r.size : r \in UNION {MemoryRanges(i) : i \in MemoryNodes}}

\* A node without cell counts of its own finds those of an elder sibling in
\* place of the defaults, since fdt_scan_helper has one child for all of them.
\* The parent of a memory node is plain when that cannot happen.
PlainCells ==
    \A i \in MemoryNodes : \A is \in {"#address-cells", "#size-cells"} :
       LET p == ParentOf(i) IN
       \/ Own(p, is) # {}
       \/ \A j \in Nodes : j < p /\ Depth(j) = Depth(p)
                              /\ (Depth(p) > 1 => ParentOf(j) = ParentOf(p)) => Own(j, is) = {}

\* mem_done takes the end of a range for a part of it, and computes the end in
\* 64 bits: the kernel is not at the end of a range, and no range reaches
\* beyond the last address.
PlainRanges ==
    \A i \in MemoryNodes : \A k \in DOMAIN RangesAt(i) :
       LET r == RangesAt(i)[k] IN r.base + r.size # self /\ r.base + r.size < Cell * Cell

Malformed ==
    \/ \E i \in DOMAIN fdt : fdt[i].t = "PROP" /\ \A n \in Nodes : i \notin Own(n, fdt[i].is)
    \/ \E i \in MemoryNodes : ~WholeRanges(Reg(i), ACells(i), SCells(i))

\* query_htif finds the interface exactly when some node is compatible with
\* it, although all nodes share one record that every opened node clears.
HtifFound ==
    query \in {"mem", "found"} =>
       (htif = 1 <=> \E i \in Nodes : Own(i, "htif0") # {})

\* query_mem finds the size of the memory that the kernel lies in, read with
\* the cell counts of the node's parent, and stops only when the tree names no
\* such memory or is malformed.
MemSizeRight ==
    PlainCells /\ PlainRanges =>
       /\ query = "found" => g_mem_size \in TrueSizes
       /\ query = "panic" => Malformed \/ TrueSizes = {}
=============================================================================
