------------------------------- MODULE MCBoot -------------------------------
(***************************************************************************)
(* Small device trees and program headers for TLC.  A tree has a root with *)
(* up to two entries; an entry is a leaf, or a bus with one leaf.  Odd     *)
(* trees lack a reg property, have a property behind a node, do not end    *)
(* their nodes, or have two roots.                                         *)
(***************************************************************************)
EXTENDS Boot

T(t) == [t |-> t, is |-> "", val |-> <<>>]
Property(is, val) == [t |-> "PROP", is |-> is, val |-> val]
Node(props, kids) == <<T("BEGIN")>> \o props \o kids \o <<T("END_NODE")>>

MCCells == {<<>>, <<Property("#address-cells", <<1>>)>>,
            <<Property("#address-cells", <<1>>), Property("#size-cells", <<2>>)>>}
MCRegs == {<<1, 0, 2>>, <<1, 0, 1>>, <<3, 3>>, <<3, 1, 1>>, <<1, 0, 3, 0, 0, 2>>}
Memory(reg) == Node(<<Property("memory", <<>>), Property("reg", reg)>>, <<>>)

Leaves == {Memory(r) : r \in MCRegs} \cup
          {Node(<<Property("htif0", <<>>), T("NOP"), Property("reg", <<1, 0, 3>>)>>, <<>>)}
Buses   == {Node(c, leaf) : c \in MCCells, leaf \in Leaves}
Entries == Leaves \cup Buses
Roots   == {Node(c, a \o b) : c \in MCCells, a \in Entries, b \in Entries}
             \cup {Node(c, a) : c \in MCCells, a \in Entries}
Odd     == {<<>>,
            Node(<<>>, Node(<<Property("memory", <<>>)>>, <<>>)),
            Node(<<>>, Memory(<<1, 0, 3>>) \o <<Property("htif0", <<>>)>>),
            <<T("BEGIN"), T("BEGIN"), Property("memory", <<>>), Property("reg", <<1, 0, 2>>)>>}
           \cup {Node(c, <<>>) \o Node(d, Memory(<<1, 0, 2>>)) : c \in MCCells, d \in MCCells}

MCTrees == {t \o (IF t = <<>> THEN <<>> ELSE <<T("END")>>) : t \in Roots \cup Odd}

Header(load, size, va, mis, kind) ==
    [load |-> load, size |-> size, va |-> va, mis |-> mis, kind |-> kind]

MCHeaders ==
    {Header(TRUE, "ok", va, mis, kind) :
        va \in 0 .. 2, mis \in BOOLEAN, kind \in {"rx", "rw"}}
    \cup {Header(TRUE, "bad", 1, FALSE, "rx"), Header(TRUE, "ok", 2, FALSE, "rwx"),
          Header(FALSE, "ok", 1, FALSE, "rw")}
=============================================================================
