------------------------- MODULE DeviceTree_proofs -------------------------
(***************************************************************************)
(* The scan of the device tree, for any well-formed tree: where it stands, *)
(* what it computes, and what query_htif and query_mem have found.  The    *)
(* theorems about it are in BootScan_proofs, since the boot code runs it.  *)
(***************************************************************************)
EXTENDS DeviceTree, FiniteSetTheorems, TLAPS
-----------------------------------------------------------------------------
(* Loops over data, as recursive functions. *)

\* A relation that contains < has minimal elements: so has <.
LEMMA MinimumOf ==
    ASSUME NEW R, NEW T, T \subseteq Nat,
           \E x \in T : \A y \in T : ~ (<<y, x>> \in R),
           \A x, y \in Nat : x < y => <<x, y>> \in R
    PROVE  \E x \in T : \A y \in T : x <= y
<1>1. PICK x \in T : \A y \in T : ~ (<<y, x>> \in R)
  OBVIOUS
<1>2. \A y \in T : ~(y < x)
  BY <1>1, Zenon
<1>3. \A y \in T : y \in Nat /\ x \in Nat
  OBVIOUS
<1>4. \A y \in T : x <= y
  BY <1>2, <1>3, SMT
<1> QED
  BY <1>4

\* A set of numbers that is not empty has a least one.
LEMMA SmallestNat ==
    ASSUME NEW T, T \subseteq Nat, T # {}
    PROVE  \E x \in T : \A y \in T : x <= y
<1>1. \A x, y \in Nat : x < y => <<x, y>> \in OpToRel(<, Nat)
  BY DEF OpToRel
<1>2. \E x \in T : \A y \in T : ~ (<<y, x>> \in OpToRel(<, Nat))
  BY Zenon, WFMin, NatLessThanWellFounded
<1> QED
  BY Zenon, <1>1, <1>2, MinimumOf

\* A loop of n turns, turn k of which maps V into V, and the values it takes.
IsLoop(V, base, n, step) == n \in Nat /\ base \in V /\ step \in [1 .. n -> [V -> V]]
LoopValues(V, base, n, step) ==
    {r \in [0 .. n -> V] : r[0] = base /\ \A k \in 1 .. n : r[k] = step[k][r[k - 1]]}

\* A loop has a value after every turn.
LEMMA LoopExists ==
    ASSUME NEW V, NEW base, NEW n, NEW step, IsLoop(V, base, n, step)
    PROVE  \E r : r \in LoopValues(V, base, n, step)
<1> USE DEF IsLoop, LoopValues
<1> DEFINE Done(m) == \E r \in [0 .. m -> V] :
                         r[0] = base /\ \A k \in 1 .. m : r[k] = step[k][r[k - 1]]
           T == {m \in 0 .. n : ~Done(m)}
<1>0. Done(0)
  <2> DEFINE z == [x \in 0 .. 0 |-> base]
  <2>1. z \in [0 .. 0 -> V] /\ z[0] = base /\ 1 .. 0 = {}
    OBVIOUS
  <2> HIDE DEF z
  <2>2. \A k \in 1 .. 0 : z[k] = step[k][z[k - 1]]
    BY <2>1
  <2> QED
    BY <2>1, <2>2
<1> HIDE DEF Done
<1> SUFFICES ASSUME T # {} PROVE FALSE
  <2>1. n \in 0 .. n
    OBVIOUS
  <2>2. Done(n)
    BY <2>1
  <2> QED
    BY <2>2 DEF Done
<1>1. PICK m \in T : \A y \in T : m <= y
  <2>1. T \subseteq Nat
    OBVIOUS
  <2> HIDE DEF T
  <2> QED
    BY Zenon, <2>1, SmallestNat
<1>3. m \in 1 .. n
  BY <1>1, <1>0
<1>4. Done(m - 1)
  <2>1. m - 1 \in 0 .. n /\ ~(m <= m - 1)
    BY <1>3
  <2> QED
    BY <1>1, <2>1
<1>5. PICK r \in [0 .. m - 1 -> V] :
          r[0] = base /\ \A k \in 1 .. m - 1 : r[k] = step[k][r[k - 1]]
  BY Zenon, <1>4 DEF Done
<1> DEFINE s == [k \in 0 .. m |-> IF k = m THEN step[m][r[m - 1]] ELSE r[k]]
<1>6. r[m - 1] \in V /\ step[m] \in [V -> V]
  BY <1>3, <1>5
<1>7. s \in [0 .. m -> V]
  BY <1>3, <1>5, <1>6
<1>8. s[0] = base /\ \A k \in 1 .. m : s[k] = step[k][s[k - 1]]
  BY <1>3, <1>5
<1>9. Done(m)
  <2> HIDE DEF s
  <2> QED
    BY <1>7, <1>8 DEF Done
<1> QED
  BY <1>1, <1>9

\* Whatever satisfies the loop's equations has its values in V.
LEMMA LoopTyped ==
    ASSUME NEW V, NEW base \in V, NEW n \in Nat, NEW step \in [1 .. n -> [V -> V]],
           NEW r, r[0] = base, \A k \in 1 .. n : r[k - 1] \in V => r[k] = step[k][r[k - 1]]
    PROVE  r[n] \in V
<1> DEFINE T == {m \in 0 .. n : r[m] \notin V}
<1> SUFFICES ASSUME T # {} PROVE FALSE
  OBVIOUS
<1>1. PICK m \in T : \A y \in T : m <= y
  <2>1. T \subseteq Nat
    OBVIOUS
  <2> HIDE DEF T
  <2> QED
    BY Zenon, <2>1, SmallestNat
<1>2. m \in 1 .. n
  BY <1>1
<1>3. r[m - 1] \in V
  BY <1>1, <1>2
<1>4. step[m][r[m - 1]] \in V
  BY <1>2, <1>3
<1> QED
  BY <1>1, <1>2, <1>3, <1>4
-----------------------------------------------------------------------------
(* The scan of the device tree. *)

\* fdt_get_address and fdt_get_size return numbers.
LEMMA GetNumberNat ==
    ASSUME NEW cells \in Seq(Nat) PROVE GetNumber(cells) \in Nat
<1> DEFINE n == Len(cells)
           F(r) == [k \in 0 .. n |->
                      IF k = 0 THEN 0 ELSE (r[k - 1] * Cell + cells[k]) % (Cell * Cell)]
           step == [k \in 1 .. n |-> [x \in Nat |-> (x * Cell + cells[k]) % (Cell * Cell)]]
           g == CHOOSE r : r = F(r)
<1>1. GetNumber(cells) = g[n]
  BY DEF GetNumber
<1>2. step \in [1 .. n -> [Nat -> Nat]] /\ n \in Nat
  <2>1. \A k \in 1 .. n : cells[k] \in Nat
    OBVIOUS
  <2>2. \A a, b \in Nat : b > 0 => a % b \in Nat
    OBVIOUS
  <2>3. Cell \in Nat /\ Cell * Cell \in Nat /\ Cell * Cell > 0
    BY DeviceTreeAssumption
  <2>4. \A x \in Nat, k \in 1 .. n : x * Cell + cells[k] \in Nat
    BY <2>1, <2>3
  <2>5. \A x \in Nat, k \in 1 .. n : (x * Cell + cells[k]) % (Cell * Cell) \in Nat
    BY <2>2, <2>3, <2>4
  <2>6. n \in Nat
    OBVIOUS
  <2> HIDE DEF n
  <2> QED
    BY <2>5, <2>6
<1>3. \A k \in 1 .. n, x \in Nat : step[k][x] = (x * Cell + cells[k]) % (Cell * Cell)
  OBVIOUS
<1> HIDE DEF step, n
<1>0. n \in Nat /\ 0 \in Nat /\ step \in [1 .. n -> [Nat -> Nat]]
  BY <1>2
<1>4. \E r \in [0 .. n -> Nat] : r[0] = 0 /\ \A k \in 1 .. n : r[k] = step[k][r[k - 1]]
  <2>1. IsLoop(Nat, 0, n, step)
    BY <1>0 DEF IsLoop
  <2>2. \E r : r \in LoopValues(Nat, 0, n, step)
    BY <2>1, LoopExists
  <2> QED
    BY Zenon, <2>2 DEF LoopValues
<1>5. PICK r \in [0 .. n -> Nat] : r[0] = 0 /\ \A k \in 1 .. n : r[k] = step[k][r[k - 1]]
  BY Zenon, <1>4
<1>6. r = F(r)
  <2>1. \A k \in 1 .. n : k - 1 \in 0 .. n
    BY <1>0
  <2>2. \A k \in 1 .. n : r[k - 1] \in Nat
    BY <2>1, <1>5
  <2>3. \A k \in 1 .. n : r[k] = (r[k - 1] * Cell + cells[k]) % (Cell * Cell)
    BY <1>3, <1>5, <2>2
  <2>4. \A k \in 0 .. n : k = 0 \/ k \in 1 .. n
    BY <1>0
  <2>5. \A k \in 0 .. n : r[k] = F(r)[k]
    BY <1>5, <2>3, <2>4
  <2>6. DOMAIN F(r) = 0 .. n /\ F(r) = [k \in DOMAIN F(r) |-> F(r)[k]]
    OBVIOUS
  <2> HIDE DEF F
  <2> QED
    BY Zenon, <1>5, <2>5, <2>6
<1>7. g = F(g)
  <2> HIDE DEF F
  <2> QED
    BY <1>6
<1>8. g[0] = 0 /\ \A k \in 1 .. n : g[k - 1] \in Nat => g[k] = step[k][g[k - 1]]
  <2> HIDE DEF g
  <2>1. \A k \in 0 .. n : F(g)[k] = IF k = 0 THEN 0 ELSE (g[k - 1] * Cell + cells[k]) % (Cell * Cell)
    OBVIOUS
  <2>2. \A k \in 0 .. n : g[k] = F(g)[k]
    <3> HIDE DEF F
    <3> QED
      BY <1>7
  <2>3. 0 \in 0 .. n /\ \A k \in 1 .. n : k \in 0 .. n /\ k # 0
    BY <1>0
  <2>4. g[0] = 0 /\ \A k \in 1 .. n : g[k] = (g[k - 1] * Cell + cells[k]) % (Cell * Cell)
    <3> HIDE DEF F
    <3> QED
      BY <2>1, <2>2, <2>3
  <2> QED
    BY <1>3, <2>4
<1>9. g[n] \in Nat
  <2> HIDE DEF g
  <2> QED
    BY <1>0, <1>8, LoopTyped, Zenon
<1> QED
  BY <1>1, <1>9

\* The addresses and sizes in a reg property are numbers.
LEMMA RangeSizes ==
    ASSUME NEW reg \in Seq(Nat), NEW ac \in Nat \ {0}, NEW sc \in Nat
    PROVE  LET n == Len(reg) \div (ac + sc)
               rs == RangesOf(reg, ac, sc)
           IN  /\ n \in Nat /\ DOMAIN rs = 1 .. n /\ Len(rs) = n
               /\ \A k \in 1 .. n : rs[k].base \in Nat /\ rs[k].size \in Nat
<1> DEFINE w == ac + sc
           L == Len(reg)
           n == L \div w
           rs == RangesOf(reg, ac, sc)
<1>1. w \in Nat /\ w > 0 /\ L \in Nat /\ ac <= w
  OBVIOUS
<1>2. n \in Nat /\ n * w <= L
  <2> HIDE DEF w, L
  <2>1. \A a, b \in Nat : b > 0 => a \div b \in Nat /\ a = b * (a \div b) + (a % b) /\ a % b >= 0
    OBVIOUS
  <2> QED
    BY <1>1, <2>1
<1>3. rs = [k \in 1 .. n |->
              [base |-> GetNumber(SubSeq(reg, (k - 1) * w + 1, (k - 1) * w + ac)),
               size |-> GetNumber(SubSeq(reg, (k - 1) * w + ac + 1, k * w))]]
  BY DEF RangesOf
<1>4. ASSUME NEW x \in Nat, NEW y \in Nat, x >= 1, y <= L PROVE GetNumber(SubSeq(reg, x, y)) \in Nat
  <2>1. SubSeq(reg, x, y) \in Seq(Nat)
    BY <1>4
  <2> QED
    BY Zenon, <2>1, GetNumberNat
<1>5. ASSUME NEW k \in 1 .. n
      PROVE  /\ GetNumber(SubSeq(reg, (k - 1) * w + 1, (k - 1) * w + ac)) \in Nat
             /\ GetNumber(SubSeq(reg, (k - 1) * w + ac + 1, k * w)) \in Nat
  <2> HIDE DEF w, n, L
  <2>1. (k - 1) * w \in Nat /\ k * w \in Nat /\ k * w = (k - 1) * w + w
    BY <1>1, <1>2
  <2>2. k * w <= L
    <3>1. k * w <= n * w
      BY <1>1, <1>2
    <3> QED
      BY <1>1, <1>2, <2>1, <3>1
  <2> DEFINE x == (k - 1) * w
             y == k * w
  <2>3. x \in Nat /\ y \in Nat /\ y <= L /\ y = x + w
    BY <2>1, <2>2
  <2> HIDE DEF x, y
  <2>4. x + 1 \in Nat /\ x + 1 >= 1 /\ x + ac \in Nat /\ x + ac <= L
    BY <1>1, <2>3
  <2>5. x + ac + 1 \in Nat /\ x + ac + 1 >= 1
    BY <2>3
  <2>6. GetNumber(SubSeq(reg, x + 1, x + ac)) \in Nat /\ GetNumber(SubSeq(reg, x + ac + 1, y)) \in Nat
    BY Zenon, <1>4, <2>3, <2>4, <2>5
  <2> QED
    BY Zenon, <2>6 DEF x, y
<1>6. DOMAIN rs = 1 .. n /\ Len(rs) = n /\ \A k \in 1 .. n :
         /\ rs[k].base = GetNumber(SubSeq(reg, (k - 1) * w + 1, (k - 1) * w + ac))
         /\ rs[k].size = GetNumber(SubSeq(reg, (k - 1) * w + ac + 1, k * w))
  <2> HIDE DEF n, w, rs
  <2> QED
    BY <1>2, <1>3
<1> QED
  BY Zenon, <1>2, <1>5, <1>6

\* The test of mem_done, in 64 bits.
Around(r) == r.base <= self /\ self <= (r.base + r.size) % (Cell * Cell)

\* The equations of the loop of mem_done.
LEMMA SizeAroundLoop ==
    ASSUME NEW reg \in Seq(Nat), NEW ac \in Nat \ {0}, NEW sc \in Nat, NEW old \in Nat
    PROVE  LET rs == RangesOf(reg, ac, sc)
           IN  \E g : /\ SizeAround(reg, ac, sc, old) = g[Len(rs)] /\ g[0] = old
                      /\ \A k \in 1 .. Len(rs) :
                            g[k] = IF Around(rs[k]) THEN rs[k].size ELSE g[k - 1]
<1> DEFINE rs == RangesOf(reg, ac, sc)
           n == Len(rs)
           F(r) == [k \in 0 .. n |->
                      IF k = 0 THEN old ELSE IF Around(rs[k]) THEN rs[k].size ELSE r[k - 1]]
           step == [k \in 1 .. n |-> [x \in Nat |-> IF Around(rs[k]) THEN rs[k].size ELSE x]]
           g == CHOOSE r : r = F(r)
<1>1. SizeAround(reg, ac, sc, old) = g[n]
  BY DEF SizeAround, Around
<1>2. n \in Nat /\ \A k \in 1 .. n : rs[k].size \in Nat
  BY Zenon, RangeSizes
<1> HIDE DEF rs, n
<1>3. step \in [1 .. n -> [Nat -> Nat]]
  BY <1>2
<1>4. \A k \in 1 .. n, x \in Nat : step[k][x] = IF Around(rs[k]) THEN rs[k].size ELSE x
  OBVIOUS
<1> HIDE DEF step
<1>5. \E r \in [0 .. n -> Nat] : r[0] = old /\ \A k \in 1 .. n : r[k] = step[k][r[k - 1]]
  <2>1. IsLoop(Nat, old, n, step)
    BY Zenon, <1>2, <1>3 DEF IsLoop
  <2>2. \E r : r \in LoopValues(Nat, old, n, step)
    BY <2>1, LoopExists
  <2> QED
    BY Zenon, <2>2 DEF LoopValues
<1>6. PICK r \in [0 .. n -> Nat] : r[0] = old /\ \A k \in 1 .. n : r[k] = step[k][r[k - 1]]
  BY Zenon, <1>5
<1>7. r = F(r)
  <2>1. \A k \in 1 .. n : k - 1 \in 0 .. n
    BY <1>2
  <2>2. \A k \in 1 .. n : r[k - 1] \in Nat
    BY <1>6, <2>1
  <2>3. \A k \in 1 .. n : r[k] = IF Around(rs[k]) THEN rs[k].size ELSE r[k - 1]
    BY <1>4, <1>6, <2>2
  <2>4. \A k \in 0 .. n : k = 0 \/ k \in 1 .. n
    BY <1>2
  <2>5. \A k \in 0 .. n : r[k] = F(r)[k]
    BY <1>6, <2>3, <2>4
  <2>6. DOMAIN F(r) = 0 .. n /\ F(r) = [k \in DOMAIN F(r) |-> F(r)[k]]
    OBVIOUS
  <2> HIDE DEF F
  <2> QED
    BY Zenon, <1>6, <2>5, <2>6
<1>8. g = F(g)
  <2> HIDE DEF F
  <2> QED
    BY <1>7
<1>9. g[0] = old /\ \A k \in 1 .. n : g[k] = IF Around(rs[k]) THEN rs[k].size ELSE g[k - 1]
  <2> HIDE DEF g
  <2>1. \A k \in 0 .. n :
          F(g)[k] = IF k = 0 THEN old ELSE IF Around(rs[k]) THEN rs[k].size ELSE g[k - 1]
    OBVIOUS
  <2>2. \A k \in 0 .. n : g[k] = F(g)[k]
    <3> HIDE DEF F
    <3> QED
      BY <1>8
  <2>3. 0 \in 0 .. n /\ \A k \in 1 .. n : k \in 0 .. n /\ k # 0
    BY <1>2
  <2> QED
    <3> HIDE DEF F
    <3> QED
      BY <2>1, <2>2, <2>3
<1> HIDE DEF g
<1> QED
  BY Zenon, <1>1, <1>9 DEF rs, n

\* mem_done keeps the size it has, or takes that of a range it finds itself in;
\* it keeps it only when there is no such range.
LEMMA SizeAroundOf ==
    ASSUME NEW reg \in Seq(Nat), NEW ac \in Nat \ {0}, NEW sc \in Nat, NEW old \in Nat
    PROVE  LET rs == RangesOf(reg, ac, sc)
               v == SizeAround(reg, ac, sc, old)
           IN  \/ v = old /\ \A k \in DOMAIN rs : ~Around(rs[k])
               \/ \E k \in DOMAIN rs : Around(rs[k]) /\ v = rs[k].size
<1> DEFINE rs == RangesOf(reg, ac, sc)
           n == Len(rs)
<1>1. n \in Nat /\ DOMAIN rs = 1 .. n
  BY ZenonT(60), RangeSizes
<1>2. PICK g : /\ SizeAround(reg, ac, sc, old) = g[n] /\ g[0] = old
               /\ \A k \in 1 .. n : g[k] = IF Around(rs[k]) THEN rs[k].size ELSE g[k - 1]
  BY SizeAroundLoop
<1> HIDE DEF rs, n
<1> DEFINE P(m) == \/ g[m] = old /\ \A k \in 1 .. m : ~Around(rs[k])
                   \/ \E k \in 1 .. m : Around(rs[k]) /\ g[m] = rs[k].size
           T == {m \in 0 .. n : ~P(m)}
<1>3. P(0)
  BY <1>2
<1>4. ASSUME NEW m \in 1 .. n, P(m - 1) PROVE P(m)
  <2>1. \A k : k \in 1 .. m <=> k \in 1 .. m - 1 \/ k = m
    BY <1>1
  <2>2. g[m] = IF Around(rs[m]) THEN rs[m].size ELSE g[m - 1]
    BY <1>2
  <2> QED
    BY Zenon, <1>4, <2>1, <2>2
<1> HIDE DEF P
<1>5. T = {}
  <2> SUFFICES ASSUME T # {} PROVE FALSE
    OBVIOUS
  <2>1. T \subseteq Nat
    BY <1>1
  <2>2. PICK m \in T : \A y \in T : m <= y
    <3> HIDE DEF T
    <3> QED
      BY Zenon, <2>1, SmallestNat
  <2>3. m \in 1 .. n
    BY <1>1, <1>3, <2>2
  <2>4. m - 1 \in 0 .. n /\ ~(m <= m - 1)
    BY <1>1, <2>3
  <2>5. P(m - 1)
    BY <2>2, <2>4
  <2> QED
    BY <1>4, <2>2, <2>3, <2>5
<1>6. P(n)
  <2>1. n \in 0 .. n
    BY <1>1
  <2> QED
    BY <1>5, <2>1
<1> QED
  BY Zenon, <1>1, <1>2, <1>6 DEF P, rs, n

\* mem_done leaves a number in g_mem_size.
LEMMA SizeAroundNat ==
    ASSUME NEW reg \in Seq(Nat), NEW ac \in Nat \ {0}, NEW sc \in Nat, NEW old \in Nat
    PROVE  SizeAround(reg, ac, sc, old) \in Nat
<1> DEFINE rs == RangesOf(reg, ac, sc)
           v == SizeAround(reg, ac, sc, old)
<1>1. v = old \/ \E k \in DOMAIN rs : v = rs[k].size
  BY SizeAroundOf
<1>2. \A k \in DOMAIN rs : rs[k].size \in Nat
  BY Zenon, RangeSizes
<1> QED
  BY Zenon, <1>1, <1>2

\* One more token is counted, or none.
LEMMA CountNext ==
    ASSUME NEW t, NEW n \in Nat, NEW kind
    PROVE  /\ Count(t, n, kind) \in Nat /\ Count(t, 0, kind) = 0
           /\ t[n + 1].t = kind => Count(t, n + 1, kind) = Count(t, n, kind) + 1
           /\ t[n + 1].t # kind => Count(t, n + 1, kind) = Count(t, n, kind)
<1> DEFINE S(m) == {j \in 1 .. m : t[j].t = kind}
<1>1. IsFiniteSet(1 .. n)
  BY FS_Interval
<1>2. IsFiniteSet(S(n)) /\ Cardinality(S(n)) \in Nat
  BY <1>1, FS_Subset, FS_CardinalityType
<1>3. S(n + 1) = IF t[n + 1].t = kind THEN S(n) \cup {n + 1} ELSE S(n)
  <2>1. \A j : j \in 1 .. n + 1 <=> j \in 1 .. n \/ j = n + 1
    OBVIOUS
  <2> QED
    BY <2>1
<1>4. n + 1 \notin S(n)
  OBVIOUS
<1>5. Cardinality(S(n) \cup {n + 1}) = Cardinality(S(n)) + 1
  <2> HIDE DEF S
  <2> QED
    BY <1>2, <1>4, FS_AddElement
<1>6. S(0) = {} /\ Cardinality({}) = 0
  BY FS_EmptySet
<1>7. \A m : Count(t, m, kind) = Cardinality(S(m))
  BY DEF Count
<1> HIDE DEF S
<1> QED
  BY <1>2, <1>3, <1>5, <1>6, <1>7
-----------------------------------------------------------------------------
(* The scan of the device tree. *)

ActivationSet == [last : BOOLEAN, ac : Nat \ {0}, sc : Nat]
RecordSet     == [compat : BOOLEAN, memory : BOOLEAN, reg : Seq(Nat)]

\* Where the scan stands: the activations below the top one have seen a node;
\* there is one for every node that is open and one more, until the END; and a
\* record that says memory belongs to a node below the root.
Place ==
    /\ lex \in 1 .. Len(fdt)
    /\ \A k \in 1 .. Top - 1 : stack[k].last
    /\ Token.t # "END" =>
          Top = 1 + Count(fdt, lex - 1, "BEGIN") - Count(fdt, lex - 1, "END_NODE")
    /\ CallsDone /\ scan.memory => Top >= 3

ScanInv ==
    /\ query \in {"htif", "mem", "found", "used", "panic"}
    /\ query \in {"htif", "mem", "found"} => fdt \in Trees
    /\ stack \in Seq(ActivationSet) /\ scan \in RecordSet
    /\ htif \in {0, 1} /\ g_mem_size \in Nat
    /\ Scanning => Place

\* The token at hand, in a well-formed tree.
LEMMA TokenFacts ==
    ASSUME fdt \in Trees, lex \in 1 .. Len(fdt)
    PROVE  /\ fdt \in Seq(TokenSet) /\ Token.t \in {"BEGIN", "END_NODE", "PROP", "NOP", "END"}
           /\ Token.val \in Seq(Nat) /\ lex \in Nat /\ Len(fdt) \in Nat
           /\ Token.t = "END" <=> lex = Len(fdt)
           /\ Count(fdt, lex, "END_NODE") <= Count(fdt, lex, "BEGIN")
           /\ Token.t = "PROP" =>
                /\ Token.is \in {"#address-cells", "#size-cells"} => Token.val # <<>>
                /\ Token.is = "#address-cells" => Token.val[1] > 0
                /\ Token.is = "memory" => Count(fdt, lex, "END_NODE") + 1 < Count(fdt, lex, "BEGIN")
<1>1. WellFormed(fdt)
  BY DeviceTreeAssumption
<1>2. fdt \in Seq(TokenSet)
  BY <1>1 DEF WellFormed
<1>3. Token \in TokenSet /\ lex \in Nat /\ Len(fdt) \in Nat
  BY <1>2 DEF Token
<1>4. Token.t \in {"BEGIN", "END_NODE", "PROP", "NOP", "END"} /\ Token.val \in Seq(Nat)
  BY <1>3 DEF TokenSet
<1> QED
  BY <1>1, <1>2, <1>3, <1>4 DEF WellFormed, Token

\* The nodes that are open behind the token at hand.
LEMMA CountHere ==
    ASSUME fdt \in Trees, lex \in 1 .. Len(fdt), NEW kind
    PROVE  /\ Count(fdt, lex - 1, kind) \in Nat /\ Count(fdt, lex, kind) \in Nat
           /\ Count(fdt, lex, kind) = Count(fdt, lex - 1, kind) + (IF Token.t = kind THEN 1 ELSE 0)
<1> DEFINE m == lex - 1
<1>1. m \in Nat /\ m + 1 = lex
  BY TokenFacts
<1> HIDE DEF m
<1>2. /\ fdt[m + 1].t = kind => Count(fdt, m + 1, kind) = Count(fdt, m, kind) + 1
      /\ fdt[m + 1].t # kind => Count(fdt, m + 1, kind) = Count(fdt, m, kind)
  BY <1>1, CountNext, Zenon
<1>3. Count(fdt, m, kind) \in Nat
  BY <1>1, CountNext
<1> QED
  BY <1>1, <1>2, <1>3 DEF m, Token

\* fdt_scan enters the helper with an empty record.
Entering == fdt \in Trees /\ lex = 1 /\ stack = Entered(fdt) /\ scan = Cleared
AtEntry  == /\ stack \in Seq(ActivationSet) /\ scan \in RecordSet
            /\ stack # <<>> => Place /\ ~CallsDone
            /\ stack = <<>> => fdt = <<>>

LEMMA EnterPlace == Entering => AtEntry
<1> SUFFICES ASSUME Entering PROVE AtEntry
  OBVIOUS
<1> USE DEF Entering, AtEntry
<1>1. fdt \in Seq(TokenSet)
  BY DeviceTreeAssumption DEF WellFormed
<1>2. Fresh \in ActivationSet /\ Cleared \in RecordSet
  BY DEF Fresh, ActivationSet, Cleared, RecordSet
<1>3. stack \in Seq(ActivationSet) /\ (stack = <<>> => fdt = <<>>)
  BY <1>2 DEF Entered
<1>4. ASSUME stack # <<>> PROVE Place /\ ~CallsDone
  <2>1. stack = <<Fresh>> /\ fdt # <<>>
    BY <1>4 DEF Entered
  <2>2. Len(fdt) \in Nat /\ Len(fdt) >= 1 /\ Top = 1
    BY <1>1, <2>1 DEF Top
  <2>3. Count(fdt, 0, "BEGIN") = 0 /\ Count(fdt, 0, "END_NODE") = 0
    BY ZenonT(60), CountNext
  <2> QED
    BY <2>2, <2>3 DEF Place, CallsDone, IsNode
<1> QED
  BY <1>2, <1>3, <1>4

\* NOP tokens are passed.
LEMMA NopStep == ASSUME ScanInv, Nop PROVE ScanInv'
<1>1. Scanning /\ Token.t = "NOP" /\ fdt \in Trees /\ Place
  BY DEF ScanInv, Nop, Scanning
<1>2. lex \in 1 .. Len(fdt) /\ lex \in Nat /\ Len(fdt) \in Nat /\ lex # Len(fdt)
  BY <1>1, TokenFacts DEF Place
<1>3. lex' \in 1 .. Len(fdt) /\ lex' - 1 = lex
  BY <1>2 DEF Nop
<1>4. \A kind \in {"BEGIN", "END_NODE"} : Count(fdt, lex, kind) = Count(fdt, lex - 1, kind)
  BY <1>1, <1>2, CountHere
<1>5. Place'
  BY <1>1, <1>3, <1>4 DEF Nop, Place, Top, CallsDone, IsNode, Token
<1> QED
  BY <1>5 DEF ScanInv, Nop, Scanning

\* A property changes the record, and the cell counts of one activation.
LEMMA PropStep ==
    ASSUME ScanInv, Prop PROVE ScanInv' /\ (CallsDone' <=> CallsDone) /\ stack' # <<>>
<1>1. Scanning /\ Token.t = "PROP" /\ fdt \in Trees /\ Place /\ ~stack[Top].last
  BY DEF ScanInv, Prop, Scanning
<1>2. lex \in 1 .. Len(fdt) /\ lex \in Nat /\ Len(fdt) \in Nat /\ lex # Len(fdt)
  BY <1>1, TokenFacts DEF Place
<1>3. lex' \in 1 .. Len(fdt) /\ lex' - 1 = lex /\ fdt' = fdt /\ query' = query
  BY <1>2 DEF Prop
<1>4. \A kind \in {"BEGIN", "END_NODE"} :
         Count(fdt, lex, kind) = Count(fdt, lex - 1, kind) /\ Count(fdt, lex, kind) \in Nat
  BY <1>1, <1>2, CountHere
<1>5. stack \in Seq(ActivationSet) /\ Top \in Nat /\ Top >= 1
  BY <1>1 DEF ScanInv, Scanning, Top
<1>6. scan' \in RecordSet
  <2>1. Token.val \in Seq(Nat)
    BY <1>1, <1>2, TokenFacts
  <2>2. scan \in RecordSet /\ scan' = SeenProp
    BY DEF ScanInv, Prop
  <2> QED
    BY Zenon, <2>1, <2>2 DEF SeenProp, RecordSet
<1>7. scan'.memory => scan.memory \/ Token.is = "memory"
  <2>1. scan \in RecordSet /\ scan' = SeenProp
    BY DEF ScanInv, Prop
  <2> QED
    BY <2>1 DEF SeenProp, RecordSet
<1>8. /\ stack' \in Seq(ActivationSet) /\ Len(stack') = Len(stack)
      /\ \A k \in 1 .. Len(stack) : stack'[k].last = stack[k].last
  <2> DEFINE v == Token.val[1]
  <2>0. (Token.is = "#address-cells" => v \in Nat \ {0}) /\ (Token.is = "#size-cells" => v \in Nat)
    BY <1>1, <1>2, TokenFacts
  <2> HIDE DEF v
  <2>1. CASE IsNode /\ Token.is = "#address-cells"
    <3>1. stack' = [stack EXCEPT ![Top - 1].ac = v] /\ Top - 1 \in 1 .. Len(stack)
      BY <1>5, <2>1 DEF Prop, v, IsNode, Top
    <3>2. stack[Top - 1] \in ActivationSet
      BY <1>5, <3>1
    <3>3. [stack[Top - 1] EXCEPT !.ac = v] \in ActivationSet
      BY <2>0, <2>1, <3>2 DEF ActivationSet
    <3>4. [stack[Top - 1] EXCEPT !.ac = v].last = stack[Top - 1].last
      BY <3>2 DEF ActivationSet
    <3>5. stack' = [stack EXCEPT ![Top - 1] = [stack[Top - 1] EXCEPT !.ac = v]]
      BY <3>1
    <3> QED
      BY <1>5, <3>1, <3>3, <3>4, <3>5
  <2>2. CASE IsNode /\ Token.is = "#size-cells"
    <3>1. stack' = [stack EXCEPT ![Top - 1].sc = v] /\ Top - 1 \in 1 .. Len(stack)
      BY <1>5, <2>2 DEF Prop, v, IsNode, Top
    <3>2. stack[Top - 1] \in ActivationSet
      BY <1>5, <3>1
    <3>3. [stack[Top - 1] EXCEPT !.sc = v] \in ActivationSet
      BY <2>0, <2>2, <3>2 DEF ActivationSet
    <3>4. [stack[Top - 1] EXCEPT !.sc = v].last = stack[Top - 1].last
      BY <3>2 DEF ActivationSet
    <3>5. stack' = [stack EXCEPT ![Top - 1] = [stack[Top - 1] EXCEPT !.sc = v]]
      BY <3>1
    <3> QED
      BY <1>5, <3>1, <3>3, <3>4, <3>5
  <2>3. CASE ~(IsNode /\ Token.is \in {"#address-cells", "#size-cells"})
    <3>1. stack' = stack
      BY <2>3 DEF Prop
    <3> QED
      BY <1>5, <3>1
  <2> QED
    BY <2>1, <2>2, <2>3
<1>9. Top' = Top /\ CallsDone' = CallsDone
  BY <1>5, <1>8 DEF Top, CallsDone, IsNode
<1>10. Place'
  <2>1. \A k \in 1 .. Top' - 1 : stack'[k].last
    BY <1>1, <1>5, <1>8, <1>9 DEF Place, Top
  <2>2. Top = 1 + Count(fdt, lex, "BEGIN") - Count(fdt, lex, "END_NODE")
    BY <1>1, <1>4 DEF Place
  <2>3. scan'.memory /\ CallsDone => Top >= 3
    <3>1. CASE scan.memory
      BY <1>1, <3>1 DEF Place
    <3>2. CASE Token.is = "memory"
      <4>1. Count(fdt, lex, "END_NODE") + 1 < Count(fdt, lex, "BEGIN")
        BY <1>1, <1>2, <3>2, TokenFacts
      <4> QED
        BY <1>4, <2>2, <4>1
    <3> QED
      BY <1>7, <3>1, <3>2
  <2> QED
    BY <1>3, <1>9, <2>1, <2>2, <2>3 DEF Place, Token
<1>11. stack' # <<>>
  <2>1. Len(<<>>) = 0
    OBVIOUS
  <2>2. Len(stack') # 0
    BY <1>5, <1>8 DEF Top
  <2> QED
    BY <2>1, <2>2, Zenon
<1> QED
  BY <1>3, <1>6, <1>8, <1>9, <1>10, <1>11 DEF ScanInv, Prop, Scanning

\* The callback at the end of a node, or at its first child, leaves numbers.
LEMMA CallDoneStep ==
    ASSUME ScanInv, Scanning, CallDone PROVE htif' \in {0, 1} /\ g_mem_size' \in Nat
<1>1. htif' \in {0, 1}
  BY DEF ScanInv, CallDone
<1>2. CASE ~MemDone
  BY <1>1, <1>2 DEF ScanInv, CallDone
<1>3. CASE MemDone
  <2>1. Top >= 3 /\ stack \in Seq(ActivationSet) /\ Top \in Nat /\ Top = Len(stack)
    BY <1>3 DEF ScanInv, MemDone, Place, Top
  <2>2. Parent \in ActivationSet
    BY <2>1 DEF Parent
  <2>3. Parent.ac \in Nat \ {0} /\ Parent.sc \in Nat /\ scan.reg \in Seq(Nat)
    BY <2>2 DEF ActivationSet, RecordSet, ScanInv
  <2>4. SizeAround(scan.reg, Parent.ac, Parent.sc, g_mem_size) \in Nat
    BY Zenon, <2>3, SizeAroundNat DEF ScanInv
  <2> QED
    BY <1>1, <1>3, <2>4 DEF CallDone
<1> QED
  BY <1>2, <1>3

\* A node begins: its activation is the new top.
LEMMA BeginNodeStep == ASSUME ScanInv, BeginNode PROVE ScanInv' /\ CallsDone' /\ Scanning'
<1>1. Scanning /\ Token.t = "BEGIN" /\ fdt \in Trees /\ Place /\ CallDone
  BY DEF ScanInv, BeginNode, Scanning
<1>2. lex \in 1 .. Len(fdt) /\ lex \in Nat /\ Len(fdt) \in Nat /\ lex # Len(fdt)
  BY <1>1, TokenFacts DEF Place
<1>3. lex' \in 1 .. Len(fdt) /\ lex' - 1 = lex /\ fdt' = fdt /\ query' = query
  BY <1>2 DEF BeginNode
<1>4. /\ Count(fdt, lex, "BEGIN") = Count(fdt, lex - 1, "BEGIN") + 1
      /\ Count(fdt, lex, "END_NODE") = Count(fdt, lex - 1, "END_NODE")
      /\ Count(fdt, lex - 1, "BEGIN") \in Nat /\ Count(fdt, lex - 1, "END_NODE") \in Nat
  BY <1>1, <1>2, CountHere
<1>5. stack \in Seq(ActivationSet) /\ Top \in Nat /\ Top >= 1 /\ Top = Len(stack)
  BY <1>1 DEF ScanInv, Scanning, Top
<1>6. Fresh \in ActivationSet /\ Cleared \in RecordSet /\ ~Fresh.last /\ ~Cleared.memory
  BY DEF Fresh, ActivationSet, Cleared, RecordSet
<1> DEFINE below == [stack EXCEPT ![Top].last = TRUE]
<1>7. below \in Seq(ActivationSet) /\ Len(below) = Top /\ \A k \in 1 .. Top : below[k].last
  <2>1. stack[Top] \in ActivationSet /\ Top \in 1 .. Len(stack)
    BY <1>5
  <2>2. [stack[Top] EXCEPT !.last = TRUE] \in ActivationSet /\ [stack[Top] EXCEPT !.last = TRUE].last
    BY Zenon, <2>1 DEF ActivationSet
  <2>3. below = [stack EXCEPT ![Top] = [stack[Top] EXCEPT !.last = TRUE]]
    OBVIOUS
  <2>4. \A k \in 1 .. Top - 1 : stack[k].last
    BY <1>1 DEF Place
  <2>5. below \in Seq(ActivationSet) /\ Len(below) = Top
    BY <1>5, <2>1, <2>2, <2>3
  <2>6. ASSUME NEW k \in 1 .. Top PROVE below[k].last
    <3>1. CASE k = Top
      BY <1>5, <2>1, <2>2, <2>3, <3>1
    <3>2. CASE k # Top
      BY <1>5, <2>3, <2>4, <3>2
    <3> QED
      BY <3>1, <3>2
  <2> QED
    BY <2>5, <2>6
<1>8. stack' = Append(below, Fresh)
  BY DEF BeginNode
<1> HIDE DEF below
<1>9. /\ stack' \in Seq(ActivationSet) /\ Len(stack') = Top + 1
      /\ stack'[Top + 1] = Fresh /\ \A k \in 1 .. Top : stack'[k] = below[k]
  BY <1>5, <1>6, <1>7, <1>8
<1>10. Top' = Top + 1 /\ CallsDone' /\ Scanning' /\ scan' = Cleared
  <2>1. Top' = Top + 1
    BY Zenon, <1>9 DEF Top
  <2>2. Top + 1 >= 2
    BY <1>5
  <2>3. CallsDone'
    BY Zenon, <1>6, <1>9, <2>1, <2>2 DEF CallsDone, IsNode
  <2>4. stack' # <<>>
    <3>1. Len(stack') # 0
      BY <1>5, <1>9
    <3>2. Len(<<>>) = 0
      OBVIOUS
    <3> QED
      BY Zenon, <3>1, <3>2
  <2>5. query \in {"htif", "mem"} /\ scan' = Cleared
    BY Zenon, <1>1 DEF Scanning, BeginNode
  <2> QED
    BY Zenon, <1>3, <2>1, <2>3, <2>4, <2>5 DEF Scanning
<1>11. Place'
  <2>1. \A k \in 1 .. Top' - 1 : stack'[k].last
    BY <1>5, <1>7, <1>9, <1>10
  <2>2. Top' = 1 + Count(fdt, lex, "BEGIN") - Count(fdt, lex, "END_NODE")
    BY <1>1, <1>4, <1>5, <1>10 DEF Place
  <2> QED
    BY <1>3, <1>6, <1>10, <2>1, <2>2 DEF Place, Token
<1>12. htif' \in {0, 1} /\ g_mem_size' \in Nat
  BY <1>1, CallDoneStep
<1> QED
  BY <1>1, <1>3, <1>6, <1>9, <1>10, <1>11, <1>12 DEF ScanInv

\* A node ends: every activation that is left has seen a node.  The last one
\* returns at the END of the tree.
LEMMA EndNodeStep ==
    ASSUME ScanInv, EndNode
    PROVE  ScanInv' /\ ~CallsDone' /\ (stack' = <<>> => lex = Len(fdt))
<1>1. Scanning /\ Token.t \in {"END_NODE", "END"} /\ fdt \in Trees /\ Place /\ CallDone
  BY DEF ScanInv, EndNode, Scanning
<1>2. /\ lex \in 1 .. Len(fdt) /\ lex \in Nat /\ Len(fdt) \in Nat
      /\ Token.t = "END" <=> lex = Len(fdt)
      /\ Count(fdt, lex, "END_NODE") <= Count(fdt, lex, "BEGIN")
  BY <1>1, TokenFacts DEF Place
<1>3. /\ Token.t = "END_NODE" => lex' = lex + 1
      /\ Token.t = "END" => lex' = lex
      /\ fdt' = fdt /\ query' = query /\ scan' = scan
  BY <1>1 DEF EndNode, Returned
<1>4. Token.t = "END_NODE" =>
        /\ Count(fdt, lex, "BEGIN") = Count(fdt, lex - 1, "BEGIN")
        /\ Count(fdt, lex, "END_NODE") = Count(fdt, lex - 1, "END_NODE") + 1
        /\ Count(fdt, lex - 1, "BEGIN") \in Nat /\ Count(fdt, lex - 1, "END_NODE") \in Nat
  BY <1>1, <1>2, CountHere
<1>5. stack \in Seq(ActivationSet) /\ Top \in Nat /\ Top >= 1 /\ Top = Len(stack)
  BY <1>1 DEF ScanInv, Scanning, Top
<1>6. /\ stack' \in Seq(ActivationSet) /\ Len(stack') = Top - 1
      /\ \A k \in 1 .. Top - 1 : stack'[k] = stack[k]
  <2>1. stack' = SubSeq(stack, 1, Top - 1)
    BY DEF EndNode
  <2> QED
    BY <1>5, <2>1
<1>7. Token.t = "END_NODE" => Top >= 2
  BY <1>1, <1>2, <1>4, <1>5 DEF Place
<1>8. Top' = Top - 1 /\ \A k \in 1 .. Top' : stack'[k].last
  BY <1>1, <1>5, <1>6 DEF Top, Place
<1>9. ~CallsDone'
  <2>1. Top' \in Nat
    BY <1>5, <1>8
  <2> QED
    BY <1>8, <2>1 DEF CallsDone, IsNode
<1>10. Place'
  <2>1. lex' \in 1 .. Len(fdt)
    BY <1>1, <1>2, <1>3
  <2>2. fdt'[lex'].t # "END" =>
           Top' = 1 + Count(fdt, lex' - 1, "BEGIN") - Count(fdt, lex' - 1, "END_NODE")
    <3>1. CASE Token.t = "END"
      BY <1>3, <3>1 DEF Token
    <3>2. CASE Token.t = "END_NODE"
      <4>1. lex' - 1 = lex
        BY <1>2, <1>3, <3>2
      <4>2. Top = 1 + Count(fdt, lex - 1, "BEGIN") - Count(fdt, lex - 1, "END_NODE")
        BY <1>1, <3>2 DEF Place
      <4> QED
        BY <1>4, <1>5, <1>8, <3>2, <4>1, <4>2
    <3> QED
      BY <1>1, <3>1, <3>2
  <2>3. \A k \in 1 .. Top' - 1 : stack'[k].last
    BY <1>5, <1>8
  <2> QED
    BY <1>3, <1>9, <2>1, <2>2, <2>3 DEF Place, Token
<1>11. stack' = <<>> => lex = Len(fdt)
  <2>1. stack' = <<>> => Top = 1
    <3>1. Len(<<>>) = 0
      OBVIOUS
    <3>2. stack' = <<>> => Len(stack') = 0
      BY <3>1, Zenon
    <3>3. Len(stack') = Top - 1
      BY <1>6
    <3> QED
      BY <1>5, <3>2, <3>3
  <2>2. Top = 1 => Token.t = "END"
    BY <1>1, <1>7
  <2> QED
    BY <1>2, <2>1, <2>2
<1>12. htif' \in {0, 1} /\ g_mem_size' \in Nat
  BY <1>1, CallDoneStep
<1> QED
  BY <1>1, <1>3, <1>6, <1>9, <1>10, <1>11, <1>12 DEF ScanInv

\* The scan keeps to its place.
LEMMA ScanStep == ASSUME ScanInv, ScanNext PROVE ScanInv'
<1>1. CASE Nop
  BY <1>1, NopStep
<1>2. CASE Prop
  BY <1>2, PropStep
<1>3. CASE BeginNode
  BY <1>3, BeginNodeStep
<1>4. CASE EndNode
  BY <1>4, EndNodeStep
<1>5. CASE ScanPanic
  BY <1>5 DEF ScanInv, ScanPanic, Scanning
<1>6. CASE QueryMem
  <2>1. /\ fdt' \in Trees /\ lex' = 1 /\ stack' = Entered(fdt') /\ scan' = Cleared
        /\ query' = "mem" /\ htif' = htif /\ g_mem_size' = 0
    BY <1>6 DEF ScanInv, QueryMem
  <2>2. /\ stack' \in Seq(ActivationSet) /\ scan' \in RecordSet
        /\ stack' # <<>> => Place' /\ ~CallsDone'
    <3>1. Entering' => AtEntry'
      BY EnterPlace, PTL
    <3> QED
      BY <2>1, <3>1 DEF Entering, AtEntry
  <2> QED
    BY <2>1, <2>2 DEF ScanInv, Scanning
<1>7. CASE QueryDone
  BY <1>7 DEF ScanInv, QueryDone, Scanning
<1> QED
  BY <1>1, <1>2, <1>3, <1>4, <1>5, <1>6, <1>7 DEF ScanNext

LEMMA ScanStart == ASSUME ScanInit PROVE ScanInv
<1>1. /\ stack \in Seq(ActivationSet) /\ scan \in RecordSet
      /\ stack # <<>> => Place /\ ~CallsDone
  BY EnterPlace DEF ScanInit, Entering, AtEntry
<1> QED
  BY <1>1 DEF ScanInit, ScanInv, Scanning
-----------------------------------------------------------------------------
(* What query_htif has found. *)

Compatible(n) == Own(n, "htif0") # {}

\* The node whose properties the scan reads: nothing but properties so far.
OpenAt(b) == b \in Nodes /\ b < lex /\ \A k \in b + 1 .. lex - 1 : fdt[k].t \in {"PROP", "NOP"}

\* The record tells of the open node, htif of the nodes before it.
HtifScan ==
    /\ CallsDone => \E b : /\ OpenAt(b)
                           /\ scan.compat <=> \E j \in b + 1 .. lex - 1 :
                                                 fdt[j].t = "PROP" /\ fdt[j].is = "htif0"
    /\ htif = 1 <=> \E n \in Nodes : n < lex /\ Compatible(n) /\ ~(CallsDone /\ OpenAt(n))

HtifInv ==
    /\ query = "htif" /\ stack # <<>> => HtifScan
    /\ (query = "htif" /\ stack = <<>>) \/ query \in {"mem", "found"} =>
          (htif = 1 <=> \E n \in Nodes : Compatible(n))

\* A token that is not a property ends what can be said of the open node.
LEMMA DoneTells ==
    ASSUME ScanInv, HtifScan, Scanning, query = "htif", CallDone, Token.t \notin {"PROP", "NOP"}
    PROVE  htif' = 1 <=> \E n \in Nodes : n < lex /\ Compatible(n)
<1>1. fdt \in Trees /\ lex \in 1 .. Len(fdt) /\ htif \in {0, 1}
  BY DEF ScanInv, Scanning, Place
<1>2. lex \in Nat /\ Len(fdt) \in Nat /\ Nodes \subseteq Nat /\ fdt \in Seq(TokenSet)
  BY <1>1, TokenFacts DEF Nodes
<1>3. CASE ~CallsDone
  BY <1>3 DEF HtifScan, CallDone
<1>4. CASE CallsDone
  <2>1. PICK b : /\ OpenAt(b)
                 /\ scan.compat <=> \E j \in b + 1 .. lex - 1 :
                                       fdt[j].t = "PROP" /\ fdt[j].is = "htif0"
    BY <1>4 DEF HtifScan
  <2>2. b \in Nodes /\ b \in Nat /\ b < lex
    BY <1>2, <2>1 DEF OpenAt
  <2>3. ASSUME NEW n \in Nodes, OpenAt(n) PROVE n = b
    <3>1. n \in Nat /\ n < lex /\ fdt[n].t = "BEGIN" /\ fdt[b].t = "BEGIN"
      BY <1>2, <2>2, <2>3 DEF OpenAt, Nodes
    <3>2. ~(n < b)
      <4>1. n < b => b \in n + 1 .. lex - 1
        BY <1>2, <2>2, <3>1
      <4> QED
        BY <2>3, <3>1, <4>1 DEF OpenAt
    <3>3. ~(b < n)
      <4>1. b < n => n \in b + 1 .. lex - 1
        BY <1>2, <2>2, <3>1
      <4> QED
        BY <2>1, <3>1, <4>1 DEF OpenAt
    <3> QED
      BY <2>2, <3>1, <3>2, <3>3
  <2>4. Compatible(b) <=> scan.compat
    <3>1. ASSUME NEW j \in b + 1 .. lex - 1, fdt[j].t = "PROP", fdt[j].is = "htif0"
          PROVE  Compatible(b)
      <4>1. j \in b + 1 .. Len(fdt) /\ \A k \in b + 1 .. j : k \in b + 1 .. lex - 1
        BY <1>1, <1>2, <2>2
      <4>2. j \in Own(b, "htif0")
        BY <2>1, <3>1, <4>1 DEF Own, OpenAt
      <4> QED
        BY <4>2 DEF Compatible
    <3>2. ASSUME Compatible(b)
          PROVE  \E j \in b + 1 .. lex - 1 : fdt[j].t = "PROP" /\ fdt[j].is = "htif0"
      <4>1. PICK j \in b + 1 .. Len(fdt) :
               /\ fdt[j].t = "PROP" /\ fdt[j].is = "htif0"
               /\ \A k \in b + 1 .. j : fdt[k].t \in {"PROP", "NOP"}
        BY <3>2 DEF Compatible, Own
      <4>2. lex \notin b + 1 .. j
        BY <4>1 DEF Token
      <4>3. j \in b + 1 .. lex - 1
        BY <1>1, <1>2, <2>2, <4>1, <4>2
      <4> QED
        BY <4>1, <4>3
    <3> QED
      BY <2>1, <3>1, <3>2
  <2>5. htif = 1 <=> \E n \in Nodes : n < lex /\ Compatible(n) /\ n # b
    BY <1>4, <2>1, <2>3 DEF HtifScan
  <2>6. htif' = IF scan.compat THEN 1 ELSE htif
    BY <1>4 DEF CallDone
  <2> QED
    BY <2>2, <2>4, <2>5, <2>6
<1> QED
  BY <1>3, <1>4

\* What a tree says does not depend on the scan.
LEMMA SameTree ==
    ASSUME fdt' = fdt
    PROVE  Nodes' = Nodes /\ \A n : Compatible(n)' <=> Compatible(n)
BY DEF Nodes, Compatible, Own

\* The nodes before the next token, when the token at hand begins none.
LEMMA NoNodeHere ==
    ASSUME ScanInv, Scanning, Token.t # "BEGIN"
    PROVE  \A n \in Nodes : n < lex + 1 <=> n < lex
<1>1. fdt \in Trees /\ lex \in 1 .. Len(fdt)
  BY DEF ScanInv, Scanning, Place
<1>2. lex \in Nat /\ Nodes \subseteq Nat /\ lex \notin Nodes
  BY <1>1, TokenFacts DEF Nodes, Token
<1> QED
  BY <1>2

\* The open node stays open over a property.
LEMMA StaysOpen ==
    ASSUME ScanInv, Scanning, fdt' = fdt, lex' = lex + 1, Token.t \in {"PROP", "NOP"}
    PROVE  \A n : OpenAt(n)' <=> OpenAt(n)
<1>1. fdt \in Trees /\ lex \in 1 .. Len(fdt)
  BY DEF ScanInv, Scanning, Place
<1>2. lex \in Nat /\ Nodes \subseteq Nat /\ lex' - 1 = lex
  BY <1>1, TokenFacts DEF Nodes
<1>3. \A n \in Nodes : n < lex' <=> n < lex
  BY <1>1, NoNodeHere
<1>4. \A n \in Nodes : \A k : n < lex => (k \in n + 1 .. lex <=> k \in n + 1 .. lex - 1 \/ k = lex)
  BY <1>2
<1>5. Nodes' = Nodes
  BY SameTree
<1> QED
  BY Zenon, <1>2, <1>3, <1>4, <1>5 DEF OpenAt, Token

\* A property or a NOP is recorded for the open node.
LEMMA HtifPropStep ==
    ASSUME ScanInv, ScanInv', HtifScan, Scanning, query = "htif", query' = query, htif' = htif,
           fdt' = fdt, lex' = lex + 1, Token.t \in {"PROP", "NOP"}, CallsDone' <=> CallsDone,
           scan'.compat <=> scan.compat \/ (Token.t = "PROP" /\ Token.is = "htif0")
    PROVE  HtifScan'
<1>1. fdt \in Trees /\ lex \in 1 .. Len(fdt)
  BY DEF ScanInv, Scanning, Place
<1>2. lex \in Nat /\ Nodes \subseteq Nat /\ lex' - 1 = lex
  BY <1>1, TokenFacts DEF Nodes
<1>3. \A n : OpenAt(n)' <=> OpenAt(n)
  BY StaysOpen
<1>4. Nodes' = Nodes /\ \A n : Compatible(n)' <=> Compatible(n)
  BY SameTree
<1>5. \A n \in Nodes : n < lex' <=> n < lex
  BY NoNodeHere
<1>6. htif' = 1 <=> \E n \in Nodes' : n < lex' /\ Compatible(n)' /\ ~(CallsDone' /\ OpenAt(n)')
  BY <1>3, <1>4, <1>5 DEF HtifScan
<1>7. ASSUME CallsDone'
      PROVE  \E b : /\ OpenAt(b)'
                    /\ scan'.compat <=> \E j \in b + 1 .. lex' - 1 :
                                           fdt'[j].t = "PROP" /\ fdt'[j].is = "htif0"
  <2>1. PICK b : /\ OpenAt(b)
                 /\ scan.compat <=> \E j \in b + 1 .. lex - 1 :
                                       fdt[j].t = "PROP" /\ fdt[j].is = "htif0"
    BY <1>7 DEF HtifScan
  <2>2. \A j : j \in b + 1 .. lex <=> j \in b + 1 .. lex - 1 \/ j = lex
    <3>1. b \in Nat /\ b < lex
      BY <1>2, <2>1 DEF OpenAt
    <3> QED
      BY <1>2, <3>1
  <2>3. scan'.compat <=> \E j \in b + 1 .. lex : fdt[j].t = "PROP" /\ fdt[j].is = "htif0"
    BY <2>1, <2>2 DEF Token
  <2> QED
    BY <1>2, <1>3, <2>1, <2>3
<1> QED
  BY <1>6, <1>7 DEF HtifScan

\* A node begins, with nothing recorded.
LEMMA HtifBeginStep ==
    ASSUME ScanInv, HtifScan, BeginNode, query = "htif"
    PROVE  HtifScan'
<1>1. Scanning /\ fdt \in Trees /\ lex \in 1 .. Len(fdt) /\ CallDone /\ Token.t = "BEGIN"
  BY DEF ScanInv, Scanning, Place, BeginNode
<1>2. lex \in Nat /\ Nodes \subseteq Nat /\ lex \in Nodes
  BY <1>1, TokenFacts DEF Nodes, Token
<1> PICK here : here = lex
  OBVIOUS
<1>3. fdt' = fdt /\ lex' = lex + 1 /\ scan' = Cleared /\ lex' - 1 = lex
  BY <1>2 DEF BeginNode
<1>4. Nodes' = Nodes /\ \A n : Compatible(n)' <=> Compatible(n)
  BY <1>3, SameTree
<1>5. CallsDone'
  BY BeginNodeStep
<1>6. OpenAt(here)'
  <2>1. here < lex' /\ \A k : k \notin here + 1 .. lex' - 1
    BY <1>2, <1>3
  <2> QED
    BY <1>2, <1>4, <2>1 DEF OpenAt
<1>7. \A n \in Nodes : OpenAt(n)' => n = here
  <2> SUFFICES ASSUME NEW n \in Nodes, OpenAt(n)' PROVE n = here
    OBVIOUS
  <2>1. n \in Nat /\ n < lex'
    BY <1>2 DEF OpenAt
  <2>2. n < lex => lex \in n + 1 .. lex' - 1
    BY <1>2, <1>3, <2>1
  <2>3. n < lex => fdt'[lex].t \in {"PROP", "NOP"}
    BY <2>2 DEF OpenAt
  <2>4. ~(n < lex)
    BY <1>1, <1>3, <2>3 DEF Token
  <2> QED
    BY <1>2, <1>3, <2>1, <2>4
<1>8. htif' = 1 <=> \E n \in Nodes : n < lex /\ Compatible(n)
  BY <1>1, DoneTells
<1>9. \A n \in Nodes : n < lex' /\ ~OpenAt(n)' <=> n < lex
  <2>1. \A n \in Nodes : n < lex' <=> n < lex \/ n = lex
    BY <1>2, <1>3
  <2>2. ~(lex < lex)
    BY <1>2
  <2> QED
    BY <1>6, <1>7, <2>1, <2>2
<1>10. htif' = 1 <=> \E n \in Nodes' : n < lex' /\ Compatible(n)' /\ ~(CallsDone' /\ OpenAt(n)')
  BY <1>4, <1>5, <1>8, <1>9
<1>11. ~scan'.compat /\ \A j : j \notin here + 1 .. lex' - 1
  BY <1>2, <1>3 DEF Cleared
<1> QED
  BY <1>6, <1>10, <1>11 DEF HtifScan

\* A node ends, and no node is open.
LEMMA HtifEndStep ==
    ASSUME ScanInv, HtifScan, EndNode, query = "htif"
    PROVE  HtifInv'
<1>1. /\ Scanning /\ fdt \in Trees /\ lex \in 1 .. Len(fdt) /\ CallDone
      /\ Token.t \in {"END_NODE", "END"}
  BY DEF ScanInv, Scanning, Place, EndNode
<1>2. lex \in Nat /\ Nodes \subseteq 1 .. Len(fdt) /\ lex \notin Nodes /\ Len(fdt) \in Nat
  BY <1>1, TokenFacts DEF Nodes, Token
<1>3. fdt' = fdt /\ lex' \in {lex, lex + 1} /\ query' = "htif"
  BY DEF EndNode, Returned
<1>4. Nodes' = Nodes /\ \A n : Compatible(n)' <=> Compatible(n)
  BY <1>3, SameTree
<1>5. ~CallsDone' /\ (stack' = <<>> => lex = Len(fdt))
  BY EndNodeStep
<1>6. htif' = 1 <=> \E n \in Nodes : n < lex /\ Compatible(n)
  BY <1>1, DoneTells
<1>7. \A n \in Nodes : n < lex' <=> n < lex
  <2>1. \A n \in Nodes : n < lex + 1 <=> n < lex
    BY <1>1, NoNodeHere
  <2> QED
    BY <1>3, <2>1
<1>8. HtifScan'
  BY <1>4, <1>5, <1>6, <1>7 DEF HtifScan
<1>9. stack' = <<>> => \A n \in Nodes : n < lex
  BY <1>2, <1>5
<1>10. stack' = <<>> => (htif' = 1 <=> \E n \in Nodes' : Compatible(n)')
  BY <1>4, <1>6, <1>9
<1> QED
  BY <1>3, <1>8, <1>10 DEF HtifInv

\* After query_htif, what it found is kept.
LEMMA HtifKeptAfter ==
    ASSUME HtifInv, fdt' = fdt, htif' = htif, query' \in {"mem", "found"},
           query \in {"mem", "found"} \/ (query = "htif" /\ stack = <<>>)
    PROVE  HtifInv'
<1>1. Nodes' = Nodes /\ \A n : Compatible(n)' <=> Compatible(n)
  BY SameTree
<1> QED
  BY <1>1 DEF HtifInv

\* A scan that has stopped promises nothing.
LEMMA HtifKeptPanic == ASSUME query' = "panic" PROVE HtifInv'
BY DEF HtifInv

\* The scan of query_htif finds the interface, and nothing loses it.
LEMMA HtifStep == ASSUME ScanInv, HtifInv, ScanNext PROVE HtifInv'
<1>0. ScanInv'
  BY ScanStep
<1>1. CASE query = "htif" /\ stack # <<>>
  <2>1. Scanning /\ HtifScan
    BY <1>1 DEF Scanning, HtifInv
  <2>2. CASE Nop
    <3>1. CallsDone' <=> CallsDone
      BY <2>2 DEF Nop, CallsDone, Top, IsNode
    <3>2. HtifScan'
      BY <1>0, <1>1, <2>1, <2>2, <3>1, HtifPropStep DEF Nop
    <3> QED
      BY <1>1, <2>2, <3>2 DEF HtifInv, Nop
  <2>3. CASE Prop
    <3>1. CallsDone' <=> CallsDone
      BY <2>3, PropStep
    <3>2. scan'.compat <=> scan.compat \/ (Token.t = "PROP" /\ Token.is = "htif0")
      BY <1>1, <2>3 DEF Prop, SeenProp, ScanInv, RecordSet
    <3>3. HtifScan'
      BY <1>0, <1>1, <2>1, <2>3, <3>1, <3>2, HtifPropStep DEF Prop
    <3>4. stack' # <<>> /\ query' = "htif"
      BY <1>1, <2>3, PropStep DEF Prop
    <3> QED
      BY <3>3, <3>4 DEF HtifInv
  <2>4. CASE BeginNode
    <3>1. HtifScan'
      BY <1>1, <2>1, <2>4, HtifBeginStep
    <3>2. Scanning' /\ query' = "htif"
      BY <1>1, <2>4, BeginNodeStep DEF BeginNode
    <3> QED
      BY <3>1, <3>2 DEF HtifInv, Scanning
  <2>5. CASE EndNode
    BY <1>1, <2>1, <2>5, HtifEndStep
  <2>6. CASE ScanPanic
    BY <2>6, HtifKeptPanic DEF ScanPanic
  <2> QED
    BY <1>1, <2>2, <2>3, <2>4, <2>5, <2>6 DEF ScanNext, QueryMem, QueryDone
<1>2. CASE query = "htif" /\ stack = <<>>
  <2>1. QueryMem
    BY <1>2 DEF ScanNext, Nop, Prop, BeginNode, EndNode, ScanPanic, Scanning, QueryDone
  <2> QED
    BY <1>2, <2>1, HtifKeptAfter DEF QueryMem
<1>3. CASE query = "mem"
  <2>1. fdt' = fdt /\ htif' = htif /\ query' \in {"mem", "found", "panic"}
    BY <1>3 DEF ScanNext, Nop, Prop, BeginNode, EndNode, ScanPanic, QueryMem, QueryDone, CallDone
  <2> QED
    <3>1. query \in {"mem", "found"} /\ (query' = "panic" \/ query' \in {"mem", "found"})
      BY <1>3, <2>1
    <3> QED
      BY <2>1, <3>1, HtifKeptAfter, HtifKeptPanic
<1> QED
  BY <1>1, <1>2, <1>3 DEF ScanNext, Nop, Prop, BeginNode, EndNode, ScanPanic, QueryMem,
                          QueryDone, Scanning

LEMMA HtifStart == ASSUME ScanInit PROVE HtifInv
<1>1. Entering /\ query = "htif" /\ htif = 0 /\ lex = 1
  BY DEF ScanInit, Entering
<1>2. (stack # <<>> => Place /\ ~CallsDone) /\ (stack = <<>> => fdt = <<>>)
  BY <1>1, EnterPlace DEF AtEntry
<1>3. fdt = <<>> => Nodes = {}
  BY DEF Nodes
<1>4. \A n \in Nodes : ~(n < 1)
  <2>1. fdt \in Seq(TokenSet)
    BY <1>1, DeviceTreeAssumption DEF Entering, WellFormed
  <2>2. Nodes \subseteq 1 .. Len(fdt)
    BY <2>1 DEF Nodes
  <2> QED
    BY <2>1, <2>2
<1> QED
  BY <1>1, <1>2, <1>3, <1>4 DEF HtifInv, HtifScan
-----------------------------------------------------------------------------
(* The structure of the tree. *)

\* The nodes that are open behind token j.
At(j) == Count(fdt, j, "BEGIN") - Count(fdt, j, "END_NODE")

LEMMA AtNext ==
    ASSUME fdt \in Trees, NEW j \in 1 .. Len(fdt)
    PROVE  /\ At(j) \in Nat /\ At(j - 1) \in Int
           /\ fdt[j].t = "BEGIN" => At(j) = At(j - 1) + 1 /\ At(j) = Depth(j)
           /\ fdt[j].t = "END_NODE" => At(j) = At(j - 1) - 1
           /\ fdt[j].t \notin {"BEGIN", "END_NODE"} => At(j) = At(j - 1)
<1>1. fdt \in Seq(TokenSet) /\ Count(fdt, j, "END_NODE") <= Count(fdt, j, "BEGIN")
  BY DeviceTreeAssumption DEF WellFormed
<1> DEFINE m == j - 1
<1>2. m \in Nat /\ m + 1 = j
  BY <1>1
<1> HIDE DEF m
<1>3. ASSUME NEW kind
      PROVE  /\ Count(fdt, m, kind) \in Nat
             /\ fdt[m + 1].t = kind => Count(fdt, m + 1, kind) = Count(fdt, m, kind) + 1
             /\ fdt[m + 1].t # kind => Count(fdt, m + 1, kind) = Count(fdt, m, kind)
  BY <1>2, CountNext, Zenon
<1>4. /\ Count(fdt, m, "BEGIN") \in Nat
      /\ fdt[j].t = "BEGIN" => Count(fdt, j, "BEGIN") = Count(fdt, m, "BEGIN") + 1
      /\ fdt[j].t # "BEGIN" => Count(fdt, j, "BEGIN") = Count(fdt, m, "BEGIN")
  BY <1>2, <1>3, Zenon
<1>5. /\ Count(fdt, m, "END_NODE") \in Nat
      /\ fdt[j].t = "END_NODE" => Count(fdt, j, "END_NODE") = Count(fdt, m, "END_NODE") + 1
      /\ fdt[j].t # "END_NODE" => Count(fdt, j, "END_NODE") = Count(fdt, m, "END_NODE")
  BY <1>2, <1>3, Zenon
<1>6. Depth(j) = Count(fdt, j, "BEGIN") - Count(fdt, m, "END_NODE")
  BY DEF Depth, m
<1> QED
  BY <1>1, <1>4, <1>5, <1>6 DEF At, m

\* A node is one deeper than what was open before it.
LEMMA NodeDepth ==
    ASSUME fdt \in Trees, NEW n \in Nodes
    PROVE  /\ n \in 1 .. Len(fdt) /\ n \in Nat /\ Len(fdt) \in Nat /\ fdt[n].t = "BEGIN"
           /\ Depth(n) \in Nat /\ Depth(n) = At(n) /\ Depth(n) = At(n - 1) + 1 /\ At(n - 1) \in Int
<1>1. fdt \in Seq(TokenSet)
  BY DeviceTreeAssumption DEF WellFormed
<1>2. n \in 1 .. Len(fdt) /\ fdt[n].t = "BEGIN" /\ n \in Nat /\ Len(fdt) \in Nat
  BY <1>1 DEF Nodes
<1> QED
  BY <1>2, AtNext

\* Node b of depth d is still open before token m.
Opens(b, d, m) == b \in Nodes /\ b < m /\ Depth(b) = d /\ \A j \in b .. m - 1 : At(j) >= d

\* A token ends the open nodes that are deeper than what it leaves open, and
\* may begin one.
LEMMA OpensNext ==
    ASSUME fdt \in Trees, NEW m \in 1 .. Len(fdt), NEW b, NEW d
    PROVE  Opens(b, d, m + 1) <=> \/ Opens(b, d, m) /\ At(m) >= d
                                  \/ b = m /\ m \in Nodes /\ Depth(m) = d
<1>0. m \in Nat
  <2>1. Len(fdt) \in Nat
    BY DeviceTreeAssumption DEF WellFormed
  <2> QED
    BY <2>1
<1>1. CASE b \in Nodes
  <2>1. b \in Nat /\ Depth(b) = At(b) /\ Depth(b) \in Nat
    BY <1>1, NodeDepth
  <2>2. b < m => \A j : j \in b .. (m + 1) - 1 <=> j \in b .. m - 1 \/ j = m
    BY <1>0, <2>1
  <2>3. b < m + 1 <=> b < m \/ b = m
    BY <1>0, <2>1
  <2>4. \A j \in m .. (m + 1) - 1 : j = m
    BY <1>0
  <2>5. ~(m < m)
    BY <1>0
  <2>6. Depth(b) >= Depth(b)
    BY <2>1
  <2>7. CASE b < m
    <3>1. (\A j \in b .. (m + 1) - 1 : At(j) >= d) <=> (\A j \in b .. m - 1 : At(j) >= d) /\ At(m) >= d
      BY Zenon, <2>2, <2>7
    <3>2. b # m
      BY <2>5, <2>7
    <3> QED
      BY <1>1, <2>3, <2>7, <3>1, <3>2 DEF Opens
  <2>8. CASE ~(b < m)
    <3>1. b = m /\ Depth(b) = d => \A j \in b .. (m + 1) - 1 : At(j) >= d
      BY Zenon, <2>1, <2>4, <2>6
    <3> QED
      BY <1>1, <2>3, <2>8, <3>1 DEF Opens
  <2> QED
    BY <2>7, <2>8
<1>2. CASE b \notin Nodes
  BY <1>2 DEF Opens
<1> QED
  BY <1>1, <1>2

\* What begins inside an open node is deeper.
LEMMA DeeperInside ==
    ASSUME fdt \in Trees, NEW b, NEW d, NEW m \in Nat, Opens(b, d, m),
           NEW n \in Nodes, b < n, n < m
    PROVE  d \in Nat /\ Depth(n) > d
<1>1. b \in Nat /\ Depth(b) \in Nat /\ Depth(b) = d
  BY NodeDepth DEF Opens
<1>2. n \in Nat /\ Depth(n) = At(n - 1) + 1 /\ At(n - 1) \in Int
  BY NodeDepth
<1>3. n - 1 \in b .. m - 1
  BY <1>1, <1>2
<1>4. At(n - 1) >= d
  BY <1>3 DEF Opens
<1> QED
  BY <1>1, <1>2, <1>4

\* What begins one level below an open node is a child of it.
LEMMA ParentIs ==
    ASSUME fdt \in Trees, NEW q, NEW d, NEW m \in Nat, Opens(q, d, m),
           NEW n \in Nodes, q < n, n < m, Depth(n) = d + 1
    PROVE  ParentOf(n) = q
<1> DEFINE P(j) == /\ j < n /\ Depth(j) = Depth(n) - 1
                   /\ \A k \in Nodes : k < n /\ Depth(k) = Depth(j) => k <= j
<1>1. q \in Nodes /\ q \in Nat /\ Depth(q) = d /\ d \in Nat /\ n \in Nat
  BY NodeDepth DEF Opens
<1>2. ASSUME NEW k \in Nodes, k < n, Depth(k) = d PROVE k <= q
  <2>1. k \in Nat
    BY NodeDepth
  <2>2. q < k => Depth(k) > d
    BY <1>1, <1>2, <2>1, DeeperInside
  <2> QED
    BY <1>1, <1>2, <2>1, <2>2
<1>3. Depth(n) - 1 = d
  BY <1>1
<1>4. P(q)
  BY <1>1, <1>2, <1>3
<1>5. ASSUME NEW j \in Nodes, P(j) PROVE j = q
  <2>1. j \in Nat /\ Depth(j) = d
    BY <1>3, <1>5, NodeDepth
  <2>2. q <= j
    BY <1>1, <1>5, <2>1
  <2>3. j <= q
    BY <1>2, <1>5, <2>1
  <2> QED
    BY <1>1, <2>1, <2>2, <2>3
<1>6. ParentOf(n) = CHOOSE j \in Nodes : P(j)
  BY DEF ParentOf
<1> HIDE DEF P
<1> QED
  BY <1>1, <1>4, <1>5, <1>6
-----------------------------------------------------------------------------
(* The properties of a node, and which of several counts. *)

\* The last property in S has the value v; there is a default for none.
IsLast(S, default, v) ==
    (S = {} /\ v = default) \/ \E j \in S : (\A k \in S : k <= j) /\ v = fdt[j].val

\* The properties of the open node b before token m.
Seen(b, is, m) == {j \in b + 1 .. m - 1 : fdt[j].t = "PROP" /\ fdt[j].is = is}

LEMMA LastIsValue ==
    ASSUME fdt \in Trees, NEW n \in Nodes, NEW is, NEW default, NEW v,
           IsLast(Own(n, is), default, v)
    PROVE  v = ValueOf(n, is, default)
<1> DEFINE S == Own(n, is)
           Last(j) == \A k \in S : k <= j
<1>1. n \in Nat /\ Len(fdt) \in Nat
  BY NodeDepth
<1>2. S \subseteq Nat
  BY <1>1 DEF Own
<1>3. ValueOf(n, is, default) = IF S = {} THEN default ELSE fdt[CHOOSE j \in S : Last(j)].val
  BY DEF ValueOf, LastOf
<1>4. (S = {} /\ v = default) \/ \E j \in S : Last(j) /\ v = fdt[j].val
  BY DEF IsLast
<1>5. ASSUME NEW j \in S, NEW k \in S, Last(j), Last(k) PROVE j = k
  <2>1. j \in Nat /\ k \in Nat /\ j <= k /\ k <= j
    BY <1>2, <1>5
  <2> QED
    BY <2>1
<1> HIDE DEF S, Last
<1>6. CASE S = {}
  BY <1>3, <1>4, <1>6
<1>7. CASE S # {}
  <2>1. PICK j \in S : Last(j) /\ v = fdt[j].val
    BY <1>4, <1>7
  <2>2. (CHOOSE x \in S : Last(x)) = j
    BY <1>5, <2>1
  <2> QED
    BY Zenon, <1>3, <1>7, <2>1, <2>2
<1> QED
  BY <1>6, <1>7

\* A later property counts.
LEMMA LaterCounts ==
    ASSUME NEW m \in Nat, NEW S \in SUBSET (1 .. m - 1), NEW default
    PROVE  IsLast(S \cup {m}, default, fdt[m].val)
<1>1. \A k \in S \cup {m} : k <= m
  OBVIOUS
<1> QED
  BY <1>1 DEF IsLast

\* A node and its properties stand together.
LEMMA OwnBefore ==
    ASSUME fdt \in Trees, NEW n \in Nodes, NEW p \in Nodes, n < p, NEW is, NEW j \in Own(n, is)
    PROVE  j \in Nat /\ n < j /\ j < p
<1>1. n \in Nat /\ p \in Nat /\ Len(fdt) \in Nat /\ fdt[p].t = "BEGIN"
  BY NodeDepth
<1>2. j \in n + 1 .. Len(fdt) /\ \A k \in n + 1 .. j : fdt[k].t \in {"PROP", "NOP"}
  BY DEF Own
<1>3. p \notin n + 1 .. j
  BY <1>1, <1>2
<1> QED
  BY <1>1, <1>2, <1>3

\* One node is open for properties.
LEMMA OneOpen ==
    ASSUME fdt \in Trees, lex \in 1 .. Len(fdt), NEW b, NEW n, OpenAt(b), OpenAt(n)
    PROVE  n = b
<1>1. b \in Nodes /\ n \in Nodes /\ b < lex /\ n < lex
  BY DEF OpenAt
<1>2. b \in Nat /\ n \in Nat /\ Len(fdt) \in Nat /\ fdt[b].t = "BEGIN" /\ fdt[n].t = "BEGIN"
  BY <1>1, NodeDepth
<1>3. ~(n < b)
  <2>1. n < b => b \in n + 1 .. lex - 1
    BY <1>1, <1>2
  <2> QED
    BY <1>2, <2>1 DEF OpenAt
<1>4. ~(b < n)
  <2>1. b < n => n \in b + 1 .. lex - 1
    BY <1>1, <1>2
  <2> QED
    BY <1>2, <2>1 DEF OpenAt
<1> QED
  BY <1>2, <1>3, <1>4

\* The token at hand is a property of the open node.
LEMMA OwnHere ==
    ASSUME fdt \in Trees, lex \in 1 .. Len(fdt), NEW n \in Nodes, NEW is
    PROVE  lex \in Own(n, is) <=> OpenAt(n) /\ Token.t = "PROP" /\ Token.is = is
<1>1. n \in Nat /\ Len(fdt) \in Nat /\ lex \in Nat
  BY NodeDepth
<1>2. n < lex <=> lex \in n + 1 .. Len(fdt)
  BY <1>1
<1>3. n < lex => \A k : k \in n + 1 .. lex <=> k \in n + 1 .. lex - 1 \/ k = lex
  BY <1>1
<1>4. n < lex => ((\A k \in n + 1 .. lex : fdt[k].t \in {"PROP", "NOP"}) <=>
         (\A k \in n + 1 .. lex - 1 : fdt[k].t \in {"PROP", "NOP"}) /\ Token.t \in {"PROP", "NOP"})
  BY Zenon, <1>3 DEF Token
<1> QED
  BY <1>2, <1>4 DEF Own, OpenAt, Token

\* When another token follows, the node has all its properties.
LEMMA OwnSeen ==
    ASSUME fdt \in Trees, lex \in 1 .. Len(fdt), NEW b, OpenAt(b), NEW is,
           Token.t \notin {"PROP", "NOP"}
    PROVE  Own(b, is) = Seen(b, is, lex)
<1>1. b \in Nodes /\ b < lex
  BY DEF OpenAt
<1>2. b \in Nat /\ Len(fdt) \in Nat /\ lex \in Nat
  BY <1>1, NodeDepth
<1>3. ASSUME NEW j \in Own(b, is) PROVE j \in Seen(b, is, lex)
  <2>1. /\ j \in b + 1 .. Len(fdt) /\ fdt[j].t = "PROP" /\ fdt[j].is = is
        /\ \A k \in b + 1 .. j : fdt[k].t \in {"PROP", "NOP"}
    BY DEF Own
  <2>2. lex \notin b + 1 .. j
    BY <2>1 DEF Token
  <2>3. j \in b + 1 .. lex - 1
    BY <1>1, <1>2, <2>1, <2>2
  <2> QED
    BY <2>1, <2>3 DEF Seen
<1>4. ASSUME NEW j \in Seen(b, is, lex) PROVE j \in Own(b, is)
  <2>1. j \in b + 1 .. lex - 1 /\ fdt[j].t = "PROP" /\ fdt[j].is = is
    BY DEF Seen
  <2>2. j \in b + 1 .. Len(fdt) /\ \A k \in b + 1 .. j : k \in b + 1 .. lex - 1
    BY <1>1, <1>2, <2>1
  <2> QED
    BY <2>1, <2>2 DEF Own, OpenAt
<1> QED
  BY Zenon, <1>3, <1>4

\* One more token of the open node.
LEMMA SeenNext ==
    ASSUME NEW b \in Nat, NEW m \in Nat, b < m, NEW is
    PROVE  /\ Seen(b, is, m) \subseteq 1 .. m - 1
           /\ Seen(b, is, m + 1) = IF fdt[m].t = "PROP" /\ fdt[m].is = is
                                   THEN Seen(b, is, m) \cup {m} ELSE Seen(b, is, m)
<1>1. \A j : j \in b + 1 .. (m + 1) - 1 <=> j \in b + 1 .. m - 1 \/ j = m
  OBVIOUS
<1>2. \A j : j \in b + 1 .. m - 1 => j \in 1 .. m - 1
  OBVIOUS
<1> QED
  BY <1>1, <1>2 DEF Seen
-----------------------------------------------------------------------------
(* The cell counts in the activations. *)

\* The node of activation k, which is open before token m; the first has none.
Base(q, k, m) == IF k = 1 THEN q = 0 ELSE Opens(q, k - 1, m)

\* The properties, before token m, of the nodes of depth k that begin behind q.
KidProps(q, k, is, m) ==
    {j \in 1 .. m - 1 : \E n \in Nodes : q < n /\ Depth(n) = k /\ j \in Own(n, is)}

\* c is the first cell of the last of them.
CountIs(q, k, is, default, m, c) == \E v : IsLast(KidProps(q, k, is, m), default, v) /\ c = v[1]

\* A node is open at every level up to the top.
PathInv == \A d \in 1 .. Top - 1 : \E b : Opens(b, d, lex)

\* An activation holds the counts of the youngest child that has any.
CellsRight ==
    \A k \in 1 .. Top : \A q : Base(q, k, lex) =>
       /\ CountIs(q, k, "#address-cells", <<2>>, lex, stack[k].ac)
       /\ CountIs(q, k, "#size-cells", <<1>>, lex, stack[k].sc)

\* Node p has counts of its own, or no elder sibling has any.
PlainAt(p, is) ==
    \/ Own(p, is) # {}
    \/ \A j \in Nodes : j < p /\ Depth(j) = Depth(p)
                           /\ (Depth(p) > 1 => ParentOf(j) = ParentOf(p)) => Own(j, is) = {}

\* Below a plain parent these are the counts of the parent.
LEMMA ParentCells ==
    ASSUME fdt \in Trees, lex \in 1 .. Len(fdt), Top \in Nat, Top >= 3, PathInv,
           NEW b, OpenAt(b), Depth(b) = Top - 1, NEW is, NEW default, NEW c,
           \A q : Base(q, Top - 2, lex) => CountIs(q, Top - 2, is, default, lex, c),
           PlainAt(ParentOf(b), is)
    PROVE  c = ValueOf(ParentOf(b), is, default)[1]
<1>0. lex \in Nat /\ b \in Nodes /\ b < lex /\ b \in Nat
  BY NodeDepth DEF OpenAt
<1> DEFINE K == Top - 2
<1>1. K \in Nat /\ K >= 1 /\ K \in 1 .. Top - 1 /\ Depth(b) = K + 1
  OBVIOUS
<1>2. PICK p : Opens(p, K, lex)
  BY <1>1 DEF PathInv
<1>3. p \in Nodes /\ p \in Nat /\ p < lex /\ Depth(p) = K
  BY <1>2, NodeDepth DEF Opens
<1>4. p < b
  <2>1. p # b
    BY <1>1, <1>3
  <2>2. ~(b < p)
    <3>1. b < p => p \in b + 1 .. lex - 1
      BY <1>0, <1>3
    <3>2. fdt[p].t = "BEGIN"
      BY <1>3, NodeDepth
    <3> QED
      BY <3>1, <3>2 DEF OpenAt
  <2> QED
    BY <1>0, <1>3, <2>1, <2>2
<1>5. ParentOf(b) = p
  <2> HIDE DEF K
  <2> QED
    BY <1>0, <1>1, <1>2, <1>4, ParentIs
<1>6. \E q : Base(q, K, lex) /\ q \in Nat /\ q < p /\ (K > 1 => Opens(q, K - 1, lex))
  <2>1. CASE K = 1
    <3>1. Base(0, K, lex) /\ 0 < p
      BY <1>3, <2>1, NodeDepth DEF Base
    <3> QED
      BY <2>1, <3>1
  <2>2. CASE K # 1
    <3>1. K - 1 \in 1 .. Top - 1
      BY <1>1, <2>2
    <3>2. PICK q : Opens(q, K - 1, lex)
      BY <3>1 DEF PathInv
    <3>3. q \in Nodes /\ q \in Nat /\ q < lex /\ Depth(q) = K - 1
      BY <3>2, NodeDepth DEF Opens
    <3>4. ~(p < q)
      <4>1. p < q => Depth(q) > K
        BY <1>0, <1>2, <3>3, DeeperInside
      <4> QED
        BY <1>1, <3>3, <4>1
    <3>5. q < p
      BY <1>1, <1>3, <3>3, <3>4
    <3>6. Base(q, K, lex)
      BY <2>2, <3>2 DEF Base
    <3> QED
      BY <3>2, <3>3, <3>5, <3>6
  <2> QED
    BY <2>1, <2>2
<1>7. PICK q : Base(q, K, lex) /\ q \in Nat /\ q < p /\ (K > 1 => Opens(q, K - 1, lex))
  BY <1>6
<1>8. PICK v : IsLast(KidProps(q, K, is, lex), default, v) /\ c = v[1]
  BY <1>7 DEF CountIs
<1> DEFINE S == KidProps(q, K, is, lex)
<1>9. Own(p, is) \subseteq S
  <2> SUFFICES ASSUME NEW j \in Own(p, is) PROVE j \in S
    OBVIOUS
  <2>1. j \in Nat /\ p < j /\ j < b
    BY <1>0, <1>3, <1>4, OwnBefore
  <2>2. j \in 1 .. lex - 1
    BY <1>0, <1>3, <2>1
  <2> QED
    BY <1>3, <1>7, <2>2 DEF KidProps
<1>10. ASSUME NEW j \in S, NEW n \in Nodes, q < n, Depth(n) = K, j \in Own(n, is)
       PROVE  j \in Nat /\ (n = p \/ (n < p /\ j < p))
  <2>1. j \in Nat /\ j < lex /\ n \in Nat /\ n < j
    <3>1. j \in 1 .. lex - 1 /\ j \in n + 1 .. Len(fdt)
      BY Zenon, <1>10 DEF KidProps, Own
    <3>2. n \in Nat /\ Len(fdt) \in Nat
      BY NodeDepth
    <3> QED
      BY <1>0, <3>1, <3>2
  <2>2. ~(p < n)
    <3>1. p < n => Depth(n) > K
      <4>1. n < lex
        BY <1>0, <2>1
      <4> QED
        BY <1>0, <1>2, <4>1, DeeperInside
    <3> QED
      BY <1>1, <1>10, <3>1
  <2>3. n < p => j < p
    BY <1>3, <1>10, OwnBefore
  <2>4. n = p \/ n < p
    BY <1>3, <2>1, <2>2
  <2> QED
    BY Zenon, <2>1, <2>3, <2>4
<1> HIDE DEF K
<1>11. CASE Own(p, is) # {}
  <2>1. PICK j \in S : (\A k \in S : k <= j) /\ v = fdt[j].val
    BY Zenon, <1>8, <1>9, <1>11 DEF IsLast
  <2>2. PICK n \in Nodes : q < n /\ Depth(n) = K /\ j \in Own(n, is)
    BY <2>1 DEF KidProps
  <2>3. PICK x : x \in Own(p, is)
    BY <1>11
  <2>4. x \in Nat /\ p < x /\ x <= j
    BY <1>0, <1>3, <1>4, <1>9, <2>1, <2>3, OwnBefore
  <2>5. j \in Nat /\ (n = p \/ (n < p /\ j < p))
    BY <1>10, <2>1, <2>2
  <2>6. n = p
    BY <1>3, <2>4, <2>5
  <2>7. IsLast(Own(p, is), default, v)
    BY <1>9, <2>1, <2>2, <2>6 DEF IsLast
  <2>8. v = ValueOf(p, is, default)
    BY <1>3, <2>7, LastIsValue
  <2> QED
    BY <1>5, <1>8, <2>8
<1>12. CASE Own(p, is) = {}
  <2>1. \A j \in Nodes : j < p /\ Depth(j) = Depth(p)
           /\ (Depth(p) > 1 => ParentOf(j) = ParentOf(p)) => Own(j, is) = {}
    BY <1>5, <1>12 DEF PlainAt
  <2>2. ASSUME NEW j \in S PROVE FALSE
    <3>1. PICK n \in Nodes : q < n /\ Depth(n) = K /\ j \in Own(n, is)
      BY <2>2 DEF KidProps
    <3>2. n < p
      BY <1>10, <1>12, <2>2, <3>1
    <3>3. Depth(p) > 1 => ParentOf(n) = ParentOf(p)
      <4> SUFFICES ASSUME K > 1 PROVE ParentOf(n) = ParentOf(p)
        BY <1>3
      <4>1. Opens(q, K - 1, lex) /\ Depth(n) = (K - 1) + 1 /\ Depth(p) = (K - 1) + 1
        BY <1>1, <1>3, <1>7, <3>1
      <4>2. n < lex
        <5>1. n \in Nat
          BY NodeDepth
        <5> QED
          BY <1>0, <1>3, <3>2, <5>1
      <4>3. ParentOf(n) = q
        BY <1>0, <3>1, <4>1, <4>2, ParentIs
      <4>4. ParentOf(p) = q
        BY <1>0, <1>3, <1>7, <4>1, ParentIs
      <4> QED
        BY <4>3, <4>4
    <3>4. Own(n, is) = {}
      BY <1>3, <2>1, <3>1, <3>2, <3>3
    <3> QED
      BY <3>1, <3>4
  <2>3. v = default
    <3>1. S = {}
      BY <2>2
    <3> QED
      BY Zenon, <1>8, <3>1 DEF IsLast
  <2>4. ValueOf(p, is, default) = default
    BY <1>12 DEF ValueOf
  <2> QED
    BY <1>5, <1>8, <2>3, <2>4
<1> QED
  BY <1>11, <1>12
-----------------------------------------------------------------------------
(* What query_mem has found. *)

\* The record tells of the open node b.
RecordOf(b) ==
    /\ OpenAt(b) /\ Depth(b) = Top - 1
    /\ scan.memory <=> Seen(b, "memory", lex) # {}
    /\ IsLast(Seen(b, "reg", lex), <<>>, scan.reg)

\* Behind the end of a node, no node is open for properties.
NoOpen == ~CallsDone /\ Token.t # "END" => \A n : ~OpenAt(n)

Plain == PlainCells /\ PlainRanges

\* The nodes that mem_done was called for.
Reported == {n \in MemoryNodes : n < lex /\ ~(CallsDone /\ OpenAt(n))}

\* The size comes from the tree, and there is none only when none of the nodes
\* in S has a range around the kernel.
SizeOver(S, size) ==
    IF size = 0 THEN \A n \in S : MemoryRanges(n) = {} ELSE size \in TrueSizes

MemScan ==
    /\ PathInv /\ CellsRight
    /\ CallsDone => \E b : RecordOf(b)
    /\ Plain => SizeOver(Reported, g_mem_size)

MemInv ==
    /\ Scanning => NoOpen
    /\ query = "mem" /\ stack # <<>> => MemScan
    /\ query = "mem" /\ stack = <<>> /\ Plain => SizeOver(MemoryNodes, g_mem_size)
    /\ MemSizeRight

\* For plain ranges, mem_done finds exactly the ranges the kernel lies in.
LEMMA RangesTell ==
    ASSUME NEW n \in MemoryNodes, PlainRanges, Reg(n) \in Seq(Nat), ACells(n) \in Nat \ {0},
           SCells(n) \in Nat, NEW old \in Nat
    PROVE  LET v == SizeAround(Reg(n), ACells(n), SCells(n), old)
           IN  (v = old /\ MemoryRanges(n) = {}) \/ (v \in TrueSizes /\ v # 0)
<1> DEFINE rs == RangesOf(Reg(n), ACells(n), SCells(n))
           v == SizeAround(Reg(n), ACells(n), SCells(n), old)
           L == Len(Reg(n)) \div (ACells(n) + SCells(n))
<1>1. DOMAIN rs = 1 .. L /\ \A k \in 1 .. L : rs[k].base \in Nat /\ rs[k].size \in Nat
  BY Zenon, RangeSizes
<1>2. \/ v = old /\ \A k \in DOMAIN rs : ~Around(rs[k])
      \/ \E k \in DOMAIN rs : Around(rs[k]) /\ v = rs[k].size
  BY Zenon, SizeAroundOf
<1>3. rs = RangesAt(n)
  BY DEF RangesAt
<1> HIDE DEF rs, v, L
<1>4. ASSUME NEW k \in DOMAIN rs
      PROVE  /\ rs[k].size \in Nat
             /\ Around(rs[k]) <=> rs[k].base <= self /\ self < rs[k].base + rs[k].size
             /\ Around(rs[k]) => rs[k].size # 0
  <2>1. /\ rs[k].base \in Nat /\ rs[k].size \in Nat
        /\ rs[k].base + rs[k].size # self /\ rs[k].base + rs[k].size < Cell * Cell
    BY Zenon, <1>1, <1>3 DEF PlainRanges
  <2>2. \A x, w \in Nat : x < w => x % w = x
    OBVIOUS
  <2>3. Cell * Cell \in Nat /\ self \in Nat
    BY DeviceTreeAssumption
  <2>4. rs[k].base + rs[k].size \in Nat
    BY <2>1
  <2>5. (rs[k].base + rs[k].size) % (Cell * Cell) = rs[k].base + rs[k].size
    BY <2>1, <2>2, <2>3, <2>4
  <2>6. Around(rs[k]) <=> rs[k].base <= self /\ self <= rs[k].base + rs[k].size
    BY Zenon, <2>5 DEF Around
  <2> PICK x \in Nat, y \in Nat : x = rs[k].base /\ y = rs[k].size
    BY <2>1
  <2>7. x + y # self /\ self \in Nat
    BY Zenon, <2>1, <2>3
  <2>8. /\ x <= self /\ self <= x + y <=> x <= self /\ self < x + y
        /\ x <= self /\ self <= x + y => y # 0
    BY <2>7
  <2> QED
    BY <2>1, <2>6, <2>8
<1>5. MemoryRanges(n) = {r \in {rs[k] : k \in DOMAIN rs} : r.base <= self /\ self < r.base + r.size}
  BY Zenon, <1>3 DEF MemoryRanges
<1>6. CASE \A k \in DOMAIN rs : ~Around(rs[k])
  <2>1. v = old
    BY <1>2, <1>6
  <2>2. MemoryRanges(n) = {}
    BY <1>4, <1>5, <1>6
  <2> QED
    BY <2>1, <2>2 DEF v
<1>7. CASE \E k \in DOMAIN rs : Around(rs[k]) /\ v = rs[k].size
  <2>1. PICK k \in DOMAIN rs : Around(rs[k]) /\ v = rs[k].size
    BY <1>7
  <2>2. rs[k] \in MemoryRanges(n)
    BY <1>4, <1>5, <2>1
  <2>3. v \in TrueSizes
    BY Zenon, <2>1, <2>2 DEF TrueSizes
  <2> QED
    BY Zenon, <1>4, <2>1, <2>3 DEF v
<1> QED
  BY Zenon, <1>2, <1>6, <1>7

\* mem_done is called for a memory node, with its reg property and the cell
\* counts of its parent.
LEMMA DoneReads ==
    ASSUME ScanInv, MemScan, Scanning, query = "mem", CallsDone, PlainCells,
           Token.t \notin {"PROP", "NOP"}
    PROVE  \E b : /\ OpenAt(b) /\ (b \in MemoryNodes <=> scan.memory)
                  /\ scan.memory => /\ scan.reg = Reg(b) /\ Top >= 3
                                    /\ Parent.ac = ACells(b) /\ Parent.sc = SCells(b)
<1>1. fdt \in Trees /\ lex \in 1 .. Len(fdt) /\ stack \in Seq(ActivationSet)
  BY DEF ScanInv, Scanning, Place
<1>2. Top \in Nat /\ Top = Len(stack)
  BY <1>1 DEF Top
<1>3. PICK b : RecordOf(b)
  BY DEF MemScan
<1>4. /\ OpenAt(b) /\ Depth(b) = Top - 1 /\ b \in Nodes
      /\ scan.memory <=> Seen(b, "memory", lex) # {}
      /\ IsLast(Seen(b, "reg", lex), <<>>, scan.reg)
  BY <1>3 DEF RecordOf, OpenAt
<1>5. Own(b, "memory") = Seen(b, "memory", lex) /\ Own(b, "reg") = Seen(b, "reg", lex)
  BY <1>1, <1>4, OwnSeen
<1>6. b \in MemoryNodes <=> scan.memory
  BY <1>4, <1>5 DEF MemoryNodes
<1>7. scan.reg = Reg(b)
  <2>1. scan.reg = ValueOf(b, "reg", <<>>)
    BY <1>1, <1>4, <1>5, LastIsValue
  <2> QED
    BY <2>1 DEF Reg
<1>8. ASSUME scan.memory PROVE Top >= 3 /\ Parent.ac = ACells(b) /\ Parent.sc = SCells(b)
  <2>1. Top >= 3
    BY <1>8 DEF ScanInv, Place
  <2>2. Top - 2 \in 1 .. Top
    BY <1>2, <2>1
  <2>3. ASSUME NEW is \in {"#address-cells", "#size-cells"}
        PROVE  PlainAt(ParentOf(b), is)
    BY <1>6, <1>8 DEF PlainCells, PlainAt
  <2>4. /\ \A q : Base(q, Top - 2, lex) =>
              CountIs(q, Top - 2, "#address-cells", <<2>>, lex, stack[Top - 2].ac)
        /\ \A q : Base(q, Top - 2, lex) =>
              CountIs(q, Top - 2, "#size-cells", <<1>>, lex, stack[Top - 2].sc)
    BY Zenon, <2>2 DEF MemScan, CellsRight
  <2>5. PathInv
    BY DEF MemScan
  <2>6. stack[Top - 2].ac = ValueOf(ParentOf(b), "#address-cells", <<2>>)[1]
    BY Zenon, <1>1, <1>2, <1>4, <2>1, <2>3, <2>4, <2>5, ParentCells
  <2>7. stack[Top - 2].sc = ValueOf(ParentOf(b), "#size-cells", <<1>>)[1]
    BY Zenon, <1>1, <1>2, <1>4, <2>1, <2>3, <2>4, <2>5, ParentCells
  <2> QED
    BY <2>1, <2>6, <2>7 DEF Parent, ACells, SCells
<1> QED
  BY <1>4, <1>6, <1>7, <1>8

\* A token that is not a property ends what can be said of the open node.
LEMMA MemDoneTells ==
    ASSUME ScanInv, MemScan, Scanning, query = "mem", Plain, Token.t \notin {"PROP", "NOP"}
    PROVE  /\ ~DoneOK => Malformed
           /\ CallDone => SizeOver({n \in MemoryNodes : n < lex}, g_mem_size')
<1>1. fdt \in Trees /\ lex \in 1 .. Len(fdt) /\ stack \in Seq(ActivationSet) /\ scan \in RecordSet
  BY DEF ScanInv, Scanning, Place
<1>2. SizeOver(Reported, g_mem_size) /\ PlainCells /\ PlainRanges /\ g_mem_size \in Nat
  BY DEF MemScan, Plain, ScanInv
<1>3. CASE ~CallsDone
  <2>1. Reported = {n \in MemoryNodes : n < lex}
    BY <1>3 DEF Reported
  <2>2. ~MemDone
    BY <1>3 DEF MemDone
  <2> QED
    BY <1>2, <2>1, <2>2 DEF CallDone, DoneOK
<1>4. CASE CallsDone
  <2>1. PICK b : /\ OpenAt(b) /\ (b \in MemoryNodes <=> scan.memory)
                 /\ scan.memory => /\ scan.reg = Reg(b) /\ Top >= 3
                                   /\ Parent.ac = ACells(b) /\ Parent.sc = SCells(b)
    BY <1>2, <1>4, DoneReads
  <2>2. \A n \in MemoryNodes : n < lex => n \in Reported \/ n = b
    BY <1>1, <2>1, OneOpen DEF Reported
  <2>3. CASE ~scan.memory
    <3>1. ~MemDone
      BY <2>3 DEF MemDone
    <3>2. \A n \in {x \in MemoryNodes : x < lex} : n \in Reported
      BY <2>1, <2>2, <2>3
    <3>3. SizeOver({n \in MemoryNodes : n < lex}, g_mem_size)
      BY <1>2, <3>2 DEF SizeOver
    <3> QED
      BY <3>1, <3>3 DEF CallDone, DoneOK
  <2>4. CASE scan.memory
    <3>1. MemDone /\ b \in MemoryNodes
      BY <1>4, <2>1, <2>4 DEF MemDone
    <3>2. scan.reg = Reg(b) /\ Parent.ac = ACells(b) /\ Parent.sc = SCells(b) /\ Top >= 3
      BY <2>1, <2>4
    <3>3. ~DoneOK => Malformed
      BY <3>1, <3>2 DEF DoneOK, Malformed
    <3>4. Reg(b) \in Seq(Nat) /\ ACells(b) \in Nat \ {0} /\ SCells(b) \in Nat
      <4>1. Top \in Nat /\ Top = Len(stack)
        BY <1>1 DEF Top
      <4>2. stack[Top - 2] \in ActivationSet
        BY <1>1, <3>2, <4>1
      <4> QED
        BY <1>1, <3>2, <4>2 DEF ActivationSet, RecordSet, Parent
    <3> DEFINE v == SizeAround(Reg(b), ACells(b), SCells(b), g_mem_size)
    <3>5. (v = g_mem_size /\ MemoryRanges(b) = {}) \/ (v \in TrueSizes /\ v # 0)
      BY <1>2, <3>1, <3>4, RangesTell
    <3>6. CallDone => g_mem_size' = v
      BY <3>1, <3>2 DEF CallDone
    <3> HIDE DEF v
    <3>7. SizeOver({n \in MemoryNodes : n < lex}, v)
      BY <1>2, <2>2, <3>5 DEF SizeOver
    <3> QED
      BY Zenon, <3>3, <3>6, <3>7
  <2> QED
    BY <2>3, <2>4
<1> QED
  BY <1>3, <1>4

\* What a tree says does not depend on the scan.
LEMMA TreeSays ==
    ASSUME fdt' = fdt
    PROVE  /\ Nodes' = Nodes /\ MemoryNodes' = MemoryNodes /\ TrueSizes' = TrueSizes
           /\ PlainCells' <=> PlainCells
           /\ PlainRanges' <=> PlainRanges
           /\ Malformed' <=> Malformed
           /\ \A n : Depth(n)' = Depth(n) /\ MemoryRanges(n)' = MemoryRanges(n)
           /\ \A n, is : Own(n, is)' = Own(n, is)
<1>1. Nodes' = Nodes
  BY DEF Nodes
<1>2. \A n : Depth(n)' = Depth(n)
  BY DEF Depth, Count
<1>3. \A n, is : Own(n, is)' = Own(n, is)
  BY DEF Own
<1>4. \A n : ParentOf(n)' = ParentOf(n)
  BY <1>1, <1>2 DEF ParentOf
<1>5. \A n, is, default : ValueOf(n, is, default)' = ValueOf(n, is, default)
  BY <1>3 DEF ValueOf
<1>6. MemoryNodes' = MemoryNodes
  BY <1>1, <1>3 DEF MemoryNodes
<1>7. \A n : ACells(n)' = ACells(n) /\ SCells(n)' = SCells(n) /\ Reg(n)' = Reg(n)
  <2>1. \A n, is : Own(ParentOf(n), is)' = Own(ParentOf(n), is)
    BY <1>4 DEF Own
  <2>2. \A n, is, default : ValueOf(ParentOf(n), is, default)' = ValueOf(ParentOf(n), is, default)
    BY <2>1 DEF ValueOf
  <2> QED
    BY <1>5, <2>2 DEF ACells, SCells, Reg
<1>8. \A n : RangesAt(n)' = RangesAt(n)
  BY <1>7 DEF RangesAt, RangesOf
<1>9. \A n : MemoryRanges(n)' = MemoryRanges(n)
  BY <1>8 DEF MemoryRanges
<1>10. TrueSizes' = TrueSizes
  BY <1>6, <1>9 DEF TrueSizes
<1>11. PlainCells' <=> PlainCells
  BY <1>1, <1>2, <1>3, <1>4, <1>6 DEF PlainCells
<1>12. PlainRanges' <=> PlainRanges
  BY <1>6, <1>8 DEF PlainRanges
<1>13. Malformed' <=> Malformed
  BY <1>1, <1>3, <1>6, <1>7 DEF Malformed, WholeRanges
<1> QED
  BY <1>1, <1>2, <1>3, <1>6, <1>9, <1>10, <1>11, <1>12, <1>13

LEMMA TreeShape ==
    ASSUME fdt' = fdt
    PROVE  /\ \A b, d, m : Opens(b, d, m)' <=> Opens(b, d, m)
           /\ \A b, is, m : Seen(b, is, m)' = Seen(b, is, m)
           /\ \A S, default, v : IsLast(S, default, v)' <=> IsLast(S, default, v)
           /\ \A q, k, m : Base(q, k, m)' <=> Base(q, k, m)
           /\ \A q, k, is, m : KidProps(q, k, is, m)' = KidProps(q, k, is, m)
           /\ \A q, k, is, default, m, c :
                 CountIs(q, k, is, default, m, c)' <=> CountIs(q, k, is, default, m, c)
<1>1. Nodes' = Nodes /\ (\A n : Depth(n)' = Depth(n)) /\ (\A n, is : Own(n, is)' = Own(n, is))
  BY TreeSays
<1>2. \A j : At(j)' = At(j)
  BY DEF At, Count
<1>3. \A b, d, m : Opens(b, d, m)' <=> Opens(b, d, m)
  BY <1>1, <1>2 DEF Opens
<1>4. \A b, is, m : Seen(b, is, m)' = Seen(b, is, m)
  BY DEF Seen
<1>5. \A S, default, v : IsLast(S, default, v)' <=> IsLast(S, default, v)
  BY DEF IsLast
<1>6. \A q, k, m : Base(q, k, m)' <=> Base(q, k, m)
  BY <1>3 DEF Base
<1>7. \A q, k, is, m : KidProps(q, k, is, m)' = KidProps(q, k, is, m)
  BY <1>1 DEF KidProps
<1>8. \A q, k, is, default, m, c :
         CountIs(q, k, is, default, m, c)' <=> CountIs(q, k, is, default, m, c)
  BY <1>5, <1>7 DEF CountIs
<1> QED
  BY <1>3, <1>4, <1>5, <1>6, <1>7, <1>8

\* The place of the scan, in terms of open nodes.
LEMMA Here ==
    ASSUME ScanInv, Scanning
    PROVE  /\ fdt \in Trees /\ lex \in 1 .. Len(fdt) /\ lex \in Nat /\ Len(fdt) \in Nat
           /\ stack \in Seq(ActivationSet) /\ Top \in Nat /\ Top = Len(stack) /\ Top >= 1
           /\ Token.t # "END" => At(lex - 1) = Top - 1
           /\ At(lex) \in Nat /\ At(lex - 1) \in Int /\ Nodes \subseteq 1 .. Len(fdt)
<1>1. /\ fdt \in Trees /\ lex \in 1 .. Len(fdt) /\ stack \in Seq(ActivationSet) /\ stack # <<>>
      /\ Token.t # "END" =>
          Top = 1 + Count(fdt, lex - 1, "BEGIN") - Count(fdt, lex - 1, "END_NODE")
  BY DEF ScanInv, Scanning, Place
<1>2. lex \in Nat /\ Len(fdt) \in Nat /\ fdt \in Seq(TokenSet)
  BY <1>1, TokenFacts
<1>3. Top \in Nat /\ Top = Len(stack) /\ Top >= 1
  BY <1>1 DEF Top
<1>4. Count(fdt, lex - 1, "BEGIN") \in Nat /\ Count(fdt, lex - 1, "END_NODE") \in Nat
  BY <1>1, CountHere
<1>5. At(lex) \in Nat /\ At(lex - 1) \in Int
  BY <1>1, AtNext
<1>6. Nodes \subseteq 1 .. Len(fdt)
  BY <1>2 DEF Nodes
<1> QED
  BY <1>1, <1>2, <1>3, <1>4, <1>5, <1>6 DEF At

\* The path to the top, over one token.
LEMMA PathNext ==
    ASSUME ScanInv, Scanning, PathInv, fdt' = fdt, lex' = lex + 1, Token.t # "END",
           Top' = 1 + At(lex)
    PROVE  PathInv'
<1>1. /\ fdt \in Trees /\ lex \in 1 .. Len(fdt) /\ lex \in Nat /\ Top \in Nat
      /\ At(lex) \in Nat /\ At(lex - 1) = Top - 1
  BY Here
<1>2. SUFFICES ASSUME NEW d \in 1 .. At(lex) PROVE \E b : Opens(b, d, lex + 1)
  <2>1. \A d \in 1 .. Top' - 1 : d \in 1 .. At(lex)
    BY <1>1
  <2>2. \A b, d, m : Opens(b, d, m)' <=> Opens(b, d, m)
    BY TreeShape
  <2> QED
    BY <1>2, <2>1, <2>2 DEF PathInv
<1>3. CASE Token.t = "BEGIN" /\ d = At(lex)
  <2>1. lex \in Nodes /\ Depth(lex) = d
    BY <1>1, <1>3, AtNext, NodeDepth DEF Nodes, Token
  <2> QED
    BY Zenon, <1>1, <2>1, OpensNext
<1>4. CASE ~(Token.t = "BEGIN" /\ d = At(lex))
  <2>1. d \in 1 .. Top - 1
    <3>1. /\ Token.t = "BEGIN" => At(lex) = At(lex - 1) + 1
          /\ Token.t # "BEGIN" => At(lex) <= At(lex - 1)
      <4>1. /\ fdt[lex].t = "BEGIN" => At(lex) = At(lex - 1) + 1
            /\ fdt[lex].t = "END_NODE" => At(lex) = At(lex - 1) - 1
            /\ fdt[lex].t \notin {"BEGIN", "END_NODE"} => At(lex) = At(lex - 1)
        BY <1>1, AtNext
      <4> QED
        BY <1>1, <4>1 DEF Token
    <3> QED
      BY <1>1, <1>4, <3>1
  <2>2. PICK b : Opens(b, d, lex)
    BY <2>1 DEF PathInv
  <2>3. At(lex) >= d
    BY <1>1
  <2> QED
    BY <1>1, <2>2, <2>3, OpensNext
<1> QED
  BY <1>3, <1>4

\* The node of an activation, over one token.
LEMMA BaseNext ==
    ASSUME fdt \in Trees, lex \in 1 .. Len(fdt), NEW q, NEW k, Base(q, k, lex + 1)
    PROVE  Base(q, k, lex) \/ (q = lex /\ Token.t = "BEGIN" /\ k - 1 = Depth(lex))
<1>1. CASE k = 1
  BY <1>1 DEF Base
<1>2. CASE k # 1
  <2>1. Opens(q, k - 1, lex + 1)
    BY <1>2 DEF Base
  <2>2. Opens(q, k - 1, lex) \/ (q = lex /\ lex \in Nodes /\ Depth(lex) = k - 1)
    BY <2>1, OpensNext
  <2> QED
    BY <1>2, <2>2 DEF Base, Nodes, Token
<1> QED
  BY <1>1, <1>2

\* The properties of the children, over one token.
LEMMA KidNext ==
    ASSUME fdt \in Trees, lex \in 1 .. Len(fdt), NEW q, NEW k, NEW is
    PROVE  /\ KidProps(q, k, is, lex) \subseteq 1 .. lex - 1
           /\ KidProps(q, k, is, lex + 1) =
                IF \E n \in Nodes : q < n /\ Depth(n) = k /\ lex \in Own(n, is)
                THEN KidProps(q, k, is, lex) \cup {lex} ELSE KidProps(q, k, is, lex)
<1>1. lex \in Nat
  BY TokenFacts
<1>2. \A j : j \in 1 .. (lex + 1) - 1 <=> j \in 1 .. lex - 1 \/ j = lex
  BY <1>1
<1> QED
  BY <1>2 DEF KidProps

\* Only a property changes the counts.
LEMMA CountKept ==
    ASSUME fdt \in Trees, lex \in 1 .. Len(fdt), Token.t # "PROP",
           NEW q, NEW k, NEW is, NEW default, NEW c, CountIs(q, k, is, default, lex, c)
    PROVE  CountIs(q, k, is, default, lex + 1, c)
<1>1. \A n \in Nodes : lex \notin Own(n, is)
  BY OwnHere
<1>2. KidProps(q, k, is, lex + 1) = KidProps(q, k, is, lex)
  BY Zenon, <1>1, KidNext
<1> QED
  BY <1>2 DEF CountIs

\* A property is stored for the children of the node of the activation below.
LEMMA CountProp ==
    ASSUME ScanInv, Scanning, NoOpen, CallsDone => \E b : RecordOf(b), Token.t = "PROP",
           NEW q, NEW k \in 1 .. Top, Base(q, k, lex), NEW is, NEW default, NEW c,
           CountIs(q, k, is, default, lex, c)
    PROVE  CountIs(q, k, is, default, lex + 1,
                   IF CallsDone /\ Token.is = is /\ k = Top - 1 THEN Token.val[1] ELSE c)
<1>1. fdt \in Trees /\ lex \in 1 .. Len(fdt) /\ lex \in Nat /\ Top \in Nat /\ Top >= 1
  BY Here
<1>2. CASE CallsDone
  <2>1. PICK b : RecordOf(b)
    BY <1>2
  <2>2. OpenAt(b) /\ Depth(b) = Top - 1 /\ b \in Nodes /\ b < lex
    BY Zenon, <2>1 DEF RecordOf, OpenAt
  <2>3. \A n \in Nodes : lex \in Own(n, is) <=> n = b /\ Token.is = is
    BY <1>1, <2>2, OwnHere, OneOpen
  <2>4. CASE Token.is = is /\ k = Top - 1
    <3>1. q < b
      <4>1. b \in Nat /\ b >= 1
        BY <1>1, <2>2, NodeDepth
      <4>2. CASE k = 1
        BY <4>1, <4>2 DEF Base
      <4>3. CASE k # 1
        <5>1. q \in Nodes /\ q < lex /\ Depth(q) = k - 1
          BY <4>3 DEF Base, Opens
        <5>2. q \in Nat /\ fdt[q].t = "BEGIN"
          BY <1>1, <5>1, NodeDepth
        <5>3. q # b
          BY <1>1, <2>2, <2>4, <5>1
        <5>4. b < q => q \in b + 1 .. lex - 1
          BY <1>1, <4>1, <5>1, <5>2
        <5>5. ~(b < q)
          BY <2>2, <5>2, <5>4 DEF OpenAt
        <5> QED
          BY <4>1, <5>2, <5>3, <5>5
      <4> QED
        BY <4>2, <4>3
    <3>2. KidProps(q, k, is, lex + 1) = KidProps(q, k, is, lex) \cup {lex}
      BY Zenon, <1>1, <2>2, <2>3, <2>4, <3>1, KidNext
    <3>3. KidProps(q, k, is, lex) \subseteq 1 .. lex - 1
      BY Zenon, <1>1, KidNext
    <3>4. IsLast(KidProps(q, k, is, lex) \cup {lex}, default, fdt[lex].val)
      BY Zenon, <1>1, <3>3, LaterCounts
    <3> QED
      BY Zenon, <1>2, <2>4, <3>2, <3>4 DEF CountIs, Token
  <2>5. CASE ~(Token.is = is /\ k = Top - 1)
    <3>1. ~\E n \in Nodes : q < n /\ Depth(n) = k /\ lex \in Own(n, is)
      BY <2>2, <2>3, <2>5
    <3>2. KidProps(q, k, is, lex + 1) = KidProps(q, k, is, lex)
      BY Zenon, <1>1, <3>1, KidNext
    <3> QED
      BY Zenon, <2>5, <3>2 DEF CountIs
  <2> QED
    BY <2>4, <2>5
<1>3. CASE ~CallsDone
  <2>1. \A n \in Nodes : lex \notin Own(n, is)
    BY <1>1, <1>3, OwnHere DEF NoOpen
  <2>2. KidProps(q, k, is, lex + 1) = KidProps(q, k, is, lex)
    BY Zenon, <1>1, <2>1, KidNext
  <2> QED
    BY Zenon, <1>3, <2>2 DEF CountIs
<1> QED
  BY Zenon, <1>2, <1>3

\* The tokens that leave the top activation, and a step that moves on.
LEMMA MemMoves ==
    ASSUME fdt' = fdt, query' = query, NEW S, Reported' \subseteq S,
           Plain => SizeOver(S, g_mem_size')
    PROVE  (Plain => SizeOver(Reported, g_mem_size))'
<1>1. /\ TrueSizes' = TrueSizes /\ (PlainCells' <=> PlainCells) /\ (PlainRanges' <=> PlainRanges)
      /\ \A n : MemoryRanges(n)' = MemoryRanges(n)
  BY TreeSays
<1> QED
  BY <1>1 DEF Plain, SizeOver

\* NOP tokens are passed.
LEMMA MemNopStep ==
    ASSUME ScanInv, MemScan, NoOpen, Scanning, query = "mem", Nop
    PROVE  MemScan'
<1>1. /\ fdt \in Trees /\ lex \in 1 .. Len(fdt) /\ lex \in Nat /\ Top \in Nat
      /\ Token.t # "END" => At(lex - 1) = Top - 1
  BY Here
<1>2. /\ fdt' = fdt /\ lex' = lex + 1 /\ stack' = stack /\ scan' = scan /\ Token.t = "NOP"
      /\ g_mem_size' = g_mem_size /\ query' = query
  BY DEF Nop
<1>3. Top' = Top /\ (CallsDone' <=> CallsDone) /\ At(lex) = Top - 1
  <2>1. Top' = Top /\ (CallsDone' <=> CallsDone)
    BY <1>2 DEF Top, CallsDone, IsNode
  <2>2. At(lex) = At(lex - 1)
    BY Zenon, <1>1, <1>2, AtNext DEF Token
  <2> QED
    BY <1>1, <1>2, <2>1, <2>2
<1>4. PathInv'
  <2>1. \A x \in Nat : x = 1 + (x - 1) /\ x + 1 = 1 + x
    OBVIOUS
  <2>2. Token.t # "END"
    BY <1>2
  <2>3. Top' = 1 + At(lex)
    BY Zenon, <1>1, <1>3, <2>1
  <2> QED
    BY Zenon, <1>2, <2>2, <2>3, PathNext DEF MemScan
<1>5. CellsRight'
  <2>1. ASSUME NEW k \in 1 .. Top, NEW q, Base(q, k, lex + 1)
        PROVE  /\ CountIs(q, k, "#address-cells", <<2>>, lex + 1, stack[k].ac)
               /\ CountIs(q, k, "#size-cells", <<1>>, lex + 1, stack[k].sc)
    <3>1. Base(q, k, lex)
      BY <1>1, <1>2, <2>1, BaseNext
    <3>2. /\ CountIs(q, k, "#address-cells", <<2>>, lex, stack[k].ac)
          /\ CountIs(q, k, "#size-cells", <<1>>, lex, stack[k].sc)
      BY Zenon, <3>1 DEF MemScan, CellsRight
    <3> QED
      BY Zenon, <1>1, <1>2, <3>2, CountKept
  <2> QED
    BY Zenon, <1>2, <1>3, <2>1, TreeShape DEF CellsRight
<1>6. \A n : OpenAt(n)' <=> OpenAt(n)
  BY <1>2, StaysOpen
<1>7. CallsDone' => \E b : RecordOf(b)'
  <2> SUFFICES ASSUME CallsDone PROVE \E b : RecordOf(b)'
    BY <1>3
  <2>1. PICK b : RecordOf(b)
    BY DEF MemScan
  <2>2. b \in Nodes /\ b < lex /\ b \in Nat
    BY <1>1, <2>1, NodeDepth DEF RecordOf, OpenAt
  <2>3. \A is : Seen(b, is, lex + 1) = Seen(b, is, lex)
    BY Zenon, <1>1, <1>2, <2>2, SeenNext DEF Token
  <2>4. Depth(b)' = Depth(b)
    BY <1>2, TreeSays
  <2>5. RecordOf(b)'
    BY Zenon, <1>2, <1>3, <1>6, <2>1, <2>3, <2>4, TreeShape DEF RecordOf
  <2> QED
    BY <2>5
<1>8. Reported' \subseteq Reported
  BY <1>2, <1>3, <1>6, NoNodeHere, TreeSays DEF Reported, MemoryNodes
<1>9. (Plain => SizeOver(Reported, g_mem_size))'
  BY <1>2, <1>8, MemMoves DEF MemScan
<1> QED
  BY <1>4, <1>5, <1>7, <1>9 DEF MemScan

\* What a property does to the activations.
LEMMA PropStack ==
    ASSUME ScanInv, Prop
    PROVE  /\ Len(stack') = Len(stack)
           /\ \A k \in 1 .. Len(stack) :
                /\ stack'[k].ac = IF IsNode /\ Token.is = "#address-cells" /\ k = Top - 1
                                  THEN Token.val[1] ELSE stack[k].ac
                /\ stack'[k].sc = IF IsNode /\ Token.is = "#size-cells" /\ k = Top - 1
                                  THEN Token.val[1] ELSE stack[k].sc
<1>1. stack \in Seq(ActivationSet) /\ Top \in Nat /\ Top = Len(stack)
  BY DEF ScanInv, Top
<1>2. \A k \in 1 .. Len(stack) : stack[k] \in ActivationSet
  BY <1>1
<1> DEFINE v == Token.val[1]
<1>3. CASE IsNode /\ Token.is = "#address-cells"
  <2>1. stack' = [stack EXCEPT ![Top - 1] = [stack[Top - 1] EXCEPT !.ac = v]]
    BY <1>3 DEF Prop
  <2>2. Top - 1 \in 1 .. Len(stack)
    BY <1>1, <1>3 DEF IsNode
  <2> HIDE DEF v
  <2>3. [stack[Top - 1] EXCEPT !.ac = v].ac = v /\ [stack[Top - 1] EXCEPT !.ac = v].sc = stack[Top - 1].sc
    BY <1>2, <2>2 DEF ActivationSet
  <2>4. Len(stack') = Len(stack) /\ \A k \in 1 .. Len(stack) :
           stack'[k] = IF k = Top - 1 THEN [stack[Top - 1] EXCEPT !.ac = v] ELSE stack[k]
    BY <1>1, <2>1, <2>2
  <2> QED
    BY Zenon, <1>3, <2>3, <2>4 DEF v
<1>4. CASE IsNode /\ Token.is = "#size-cells"
  <2>1. stack' = [stack EXCEPT ![Top - 1] = [stack[Top - 1] EXCEPT !.sc = v]]
    BY <1>4 DEF Prop
  <2>2. Top - 1 \in 1 .. Len(stack)
    BY <1>1, <1>4 DEF IsNode
  <2> HIDE DEF v
  <2>3. [stack[Top - 1] EXCEPT !.sc = v].sc = v /\ [stack[Top - 1] EXCEPT !.sc = v].ac = stack[Top - 1].ac
    BY <1>2, <2>2 DEF ActivationSet
  <2>4. Len(stack') = Len(stack) /\ \A k \in 1 .. Len(stack) :
           stack'[k] = IF k = Top - 1 THEN [stack[Top - 1] EXCEPT !.sc = v] ELSE stack[k]
    BY <1>1, <2>1, <2>2
  <2> QED
    BY Zenon, <1>4, <2>3, <2>4 DEF v
<1>5. CASE ~(IsNode /\ Token.is \in {"#address-cells", "#size-cells"})
  <2>1. stack' = stack
    BY <1>5 DEF Prop
  <2> QED
    BY <1>5, <2>1
<1> QED
  BY Zenon, <1>3, <1>4, <1>5

\* A property is recorded for the open node.
LEMMA MemPropStep ==
    ASSUME ScanInv, MemScan, NoOpen, Scanning, query = "mem", Prop
    PROVE  MemScan'
<1>1. /\ fdt \in Trees /\ lex \in 1 .. Len(fdt) /\ lex \in Nat /\ Top \in Nat /\ Top = Len(stack)
      /\ Token.t # "END" => At(lex - 1) = Top - 1
  BY Here
<1>2. /\ fdt' = fdt /\ lex' = lex + 1 /\ Token.t = "PROP" /\ scan' = SeenProp
      /\ g_mem_size' = g_mem_size /\ query' = query /\ ~stack[Top].last
  BY DEF Prop
<1>3. Top' = Top /\ (CallsDone' <=> CallsDone) /\ At(lex) = Top - 1
  <2>1. Top' = Top
    BY <1>1, PropStack DEF Top
  <2>2. CallsDone' <=> CallsDone
    BY PropStep
  <2>3. At(lex) = At(lex - 1)
    BY Zenon, <1>1, <1>2, AtNext DEF Token
  <2> QED
    BY <1>1, <1>2, <2>1, <2>2, <2>3
<1>4. PathInv'
  <2>1. \A x \in Nat : x = 1 + (x - 1) /\ x + 1 = 1 + x
    OBVIOUS
  <2>2. Token.t # "END"
    BY <1>2
  <2>3. Top' = 1 + At(lex)
    BY Zenon, <1>1, <1>3, <2>1
  <2> QED
    BY Zenon, <1>2, <2>2, <2>3, PathNext DEF MemScan
<1>5. CellsRight'
  <2>1. ASSUME NEW k \in 1 .. Top, NEW q, Base(q, k, lex + 1)
        PROVE  /\ CountIs(q, k, "#address-cells", <<2>>, lex + 1, stack'[k].ac)
               /\ CountIs(q, k, "#size-cells", <<1>>, lex + 1, stack'[k].sc)
    <3>1. Base(q, k, lex)
      BY <1>1, <1>2, <2>1, BaseNext
    <3>2. /\ CountIs(q, k, "#address-cells", <<2>>, lex, stack[k].ac)
          /\ CountIs(q, k, "#size-cells", <<1>>, lex, stack[k].sc)
          /\ CallsDone => \E b : RecordOf(b)
      BY Zenon, <3>1 DEF MemScan, CellsRight
    <3>3. CallsDone <=> IsNode
      BY <1>2 DEF CallsDone
    <3>4. CountIs(q, k, "#address-cells", <<2>>, lex + 1,
             IF CallsDone /\ Token.is = "#address-cells" /\ k = Top - 1 THEN Token.val[1] ELSE stack[k].ac)
      BY Zenon, <1>2, <3>1, <3>2, CountProp
    <3>5. CountIs(q, k, "#size-cells", <<1>>, lex + 1,
             IF CallsDone /\ Token.is = "#size-cells" /\ k = Top - 1 THEN Token.val[1] ELSE stack[k].sc)
      BY Zenon, <1>2, <3>1, <3>2, CountProp
    <3>6. /\ stack'[k].ac = IF CallsDone /\ Token.is = "#address-cells" /\ k = Top - 1
                            THEN Token.val[1] ELSE stack[k].ac
          /\ stack'[k].sc = IF CallsDone /\ Token.is = "#size-cells" /\ k = Top - 1
                            THEN Token.val[1] ELSE stack[k].sc
      BY <1>1, <3>3, PropStack
    <3> QED
      BY Zenon, <3>4, <3>5, <3>6
  <2> QED
    BY Zenon, <1>2, <1>3, <2>1, TreeShape DEF CellsRight
<1>6. \A n : OpenAt(n)' <=> OpenAt(n)
  BY <1>2, StaysOpen
<1>7. CallsDone' => \E b : RecordOf(b)'
  <2> SUFFICES ASSUME CallsDone PROVE \E b : RecordOf(b)'
    BY <1>3
  <2>1. PICK b : RecordOf(b)
    BY DEF MemScan
  <2>2. b \in Nodes /\ b < lex /\ b \in Nat
    BY <1>1, <2>1, NodeDepth DEF RecordOf, OpenAt
  <2>3. ASSUME NEW is
        PROVE  /\ Seen(b, is, lex) \subseteq 1 .. lex - 1
               /\ Seen(b, is, lex + 1) = IF Token.is = is THEN Seen(b, is, lex) \cup {lex}
                                         ELSE Seen(b, is, lex)
    <3>1. /\ Seen(b, is, lex) \subseteq 1 .. lex - 1
          /\ Seen(b, is, lex + 1) = IF fdt[lex].t = "PROP" /\ fdt[lex].is = is
                                    THEN Seen(b, is, lex) \cup {lex} ELSE Seen(b, is, lex)
      BY Zenon, <1>1, <2>2, SeenNext
    <3> QED
      BY Zenon, <1>2, <3>1 DEF Token
  <2>4. Depth(b)' = Depth(b)
    BY <1>2, TreeSays
  <2>5. /\ scan'.memory <=> scan.memory \/ Token.is = "memory"
        /\ scan'.reg = IF Token.is = "reg" THEN Token.val ELSE scan.reg
    <3>1. scan \in RecordSet
      BY DEF ScanInv
    <3> QED
      BY <1>2, <3>1 DEF SeenProp, RecordSet
  <2>6. scan'.memory <=> Seen(b, "memory", lex + 1) # {}
    BY Zenon, <2>1, <2>3, <2>5 DEF RecordOf
  <2>7. IsLast(Seen(b, "reg", lex + 1), <<>>, scan'.reg)
    <3>1. CASE Token.is = "reg"
      <4>1. IsLast(Seen(b, "reg", lex) \cup {lex}, <<>>, fdt[lex].val)
        BY Zenon, <1>1, <2>3, LaterCounts
      <4> QED
        BY Zenon, <2>3, <2>5, <3>1, <4>1 DEF Token
    <3>2. CASE Token.is # "reg"
      BY Zenon, <2>1, <2>3, <2>5, <3>2 DEF RecordOf
    <3> QED
      BY <3>1, <3>2
  <2>8. RecordOf(b)'
    BY Zenon, <1>2, <1>3, <1>6, <2>1, <2>4, <2>6, <2>7, TreeShape DEF RecordOf
  <2> QED
    BY <2>8
<1>8. Reported' \subseteq Reported
  BY <1>2, <1>3, <1>6, NoNodeHere, TreeSays DEF Reported, MemoryNodes
<1>9. (Plain => SizeOver(Reported, g_mem_size))'
  BY <1>2, <1>8, MemMoves DEF MemScan
<1> QED
  BY <1>4, <1>5, <1>7, <1>9 DEF MemScan

\* What the beginning of a node does to the activations.
LEMMA BeginStack ==
    ASSUME ScanInv, BeginNode
    PROVE  /\ Len(stack') = Len(stack) + 1 /\ stack'[Len(stack) + 1] = Fresh
           /\ \A k \in 1 .. Len(stack) : stack'[k].ac = stack[k].ac /\ stack'[k].sc = stack[k].sc
<1>1. Scanning /\ stack \in Seq(ActivationSet)
  BY DEF ScanInv, BeginNode
<1>2. Top \in Nat /\ Top = Len(stack) /\ Top \in 1 .. Len(stack)
  BY <1>1, Here
<1> DEFINE below == [stack EXCEPT ![Top] = [stack[Top] EXCEPT !.last = TRUE]]
<1>3. stack' = Append(below, Fresh)
  BY DEF BeginNode
<1>4. stack[Top] \in ActivationSet
  BY <1>1, <1>2
<1>5. [stack[Top] EXCEPT !.last = TRUE] \in ActivationSet
  BY Zenon, <1>4 DEF ActivationSet
<1>6. below \in Seq(ActivationSet) /\ Len(below) = Len(stack)
  BY <1>1, <1>2, <1>5
<1>7. \A k \in 1 .. Len(stack) : below[k].ac = stack[k].ac /\ below[k].sc = stack[k].sc
  <2>1. /\ [stack[Top] EXCEPT !.last = TRUE].ac = stack[Top].ac
        /\ [stack[Top] EXCEPT !.last = TRUE].sc = stack[Top].sc
    BY <1>4 DEF ActivationSet
  <2>2. \A k \in 1 .. Len(stack) :
           below[k] = IF k = Top THEN [stack[Top] EXCEPT !.last = TRUE] ELSE stack[k]
    BY <1>1, <1>2
  <2> HIDE DEF below
  <2> QED
    BY Zenon, <2>1, <2>2
<1> HIDE DEF below
<1>8. Fresh \in ActivationSet
  BY DEF Fresh, ActivationSet
<1>9. /\ Len(stack') = Len(stack) + 1 /\ stack'[Len(stack) + 1] = Fresh
      /\ \A k \in 1 .. Len(stack) : stack'[k] = below[k]
  BY <1>2, <1>3, <1>6, <1>8
<1> QED
  BY <1>7, <1>9

\* A node begins, without properties so far.
LEMMA MemBeginStep ==
    ASSUME ScanInv, MemScan, Scanning, query = "mem", BeginNode
    PROVE  MemScan'
<1>1. /\ fdt \in Trees /\ lex \in 1 .. Len(fdt) /\ lex \in Nat /\ Top \in Nat /\ Top = Len(stack)
      /\ Token.t # "END" => At(lex - 1) = Top - 1
  BY Here
<1>2. /\ fdt' = fdt /\ lex' = lex + 1 /\ Token.t = "BEGIN" /\ scan' = Cleared /\ CallDone
      /\ query' = query
  BY DEF BeginNode
<1>3. lex \in Nodes /\ Top' = Top + 1 /\ At(lex) = Top /\ Depth(lex) = Top /\ CallsDone'
  <2>1. Top' = Top + 1
    BY <1>1, BeginStack DEF Top
  <2>2. At(lex) = At(lex - 1) + 1 /\ At(lex) = Depth(lex)
    BY <1>1, <1>2, AtNext DEF Token
  <2>3. CallsDone'
    BY BeginNodeStep
  <2>4. lex \in Nodes
    BY <1>1, <1>2, TokenFacts DEF Nodes, Token
  <2> QED
    BY <1>1, <1>2, <2>1, <2>2, <2>3, <2>4
<1> PICK here : here = lex
  OBVIOUS
<1>4. PathInv'
  <2>1. \A x \in Nat : x = 1 + (x - 1) /\ x + 1 = 1 + x
    OBVIOUS
  <2>2. Token.t # "END"
    BY <1>2
  <2>3. Top' = 1 + At(lex)
    BY Zenon, <1>1, <1>3, <2>1
  <2> QED
    BY Zenon, <1>2, <2>2, <2>3, PathNext DEF MemScan
<1>5. CellsRight'
  <2>1. ASSUME NEW k \in 1 .. Top + 1, NEW q, Base(q, k, lex + 1)
        PROVE  /\ CountIs(q, k, "#address-cells", <<2>>, lex + 1, stack'[k].ac)
               /\ CountIs(q, k, "#size-cells", <<1>>, lex + 1, stack'[k].sc)
    <3>1. CASE k \in 1 .. Top /\ Base(q, k, lex)
      <4>1. /\ CountIs(q, k, "#address-cells", <<2>>, lex, stack[k].ac)
            /\ CountIs(q, k, "#size-cells", <<1>>, lex, stack[k].sc)
        BY Zenon, <3>1 DEF MemScan, CellsRight
      <4>2. /\ CountIs(q, k, "#address-cells", <<2>>, lex + 1, stack[k].ac)
            /\ CountIs(q, k, "#size-cells", <<1>>, lex + 1, stack[k].sc)
        BY Zenon, <1>1, <1>2, <4>1, CountKept
      <4>3. stack'[k].ac = stack[k].ac /\ stack'[k].sc = stack[k].sc
        BY <1>1, <3>1, BeginStack
      <4> QED
        BY Zenon, <4>2, <4>3
    <3>2. ~(k = Top + 1 /\ Base(q, k, lex))
      <4> SUFFICES ASSUME k = Top + 1, Base(q, k, lex) PROVE FALSE
        OBVIOUS
      <4>1. k # 1 /\ k - 1 = Top
        BY <1>1, <1>3, NodeDepth, Here
      <4>2. Opens(q, Top, lex)
        BY <4>1 DEF Base
      <4>3. q \in Nat /\ q < lex /\ lex - 1 \in q .. lex - 1
        BY <1>1, <4>2, NodeDepth DEF Opens
      <4>4. At(lex - 1) >= Top
        BY <4>2, <4>3 DEF Opens
      <4> QED
        BY <1>1, <1>2, <4>4
    <3>3. CASE q = lex /\ k - 1 = Depth(lex)
      <4>1. k = Top + 1
        BY <1>1, <1>3, <3>3
      <4>2. stack'[k] = Fresh
        BY <1>1, <4>1, BeginStack
      <4>3. \A is : KidProps(lex, k, is, lex + 1) = {}
        <5> SUFFICES ASSUME NEW is, NEW j \in KidProps(lex, k, is, lex + 1) PROVE FALSE
          OBVIOUS
        <5>1. PICK n \in Nodes : lex < n /\ j \in 1 .. (lex + 1) - 1 /\ j \in Own(n, is)
          BY Zenon DEF KidProps
        <5>2. n \in Nat /\ Len(fdt) \in Nat /\ j \in n + 1 .. Len(fdt)
          BY <1>1, <5>1, NodeDepth DEF Own
        <5> QED
          BY <1>1, <5>1, <5>2
      <4>4. /\ CountIs(lex, k, "#address-cells", <<2>>, lex + 1, 2)
            /\ CountIs(lex, k, "#size-cells", <<1>>, lex + 1, 1)
        <5>1. IsLast({}, <<2>>, <<2>>) /\ 2 = <<2>>[1] /\ IsLast({}, <<1>>, <<1>>) /\ 1 = <<1>>[1]
          BY DEF IsLast
        <5> QED
          BY Zenon, <4>3, <5>1 DEF CountIs
      <4> QED
        <5>1. Fresh.ac = 2 /\ Fresh.sc = 1
          BY DEF Fresh
        <5> QED
          BY Zenon, <3>3, <4>2, <4>4, <5>1
    <3>4. k \in 1 .. Top \/ k = Top + 1
      BY <1>1
    <3>5. Base(q, k, lex) \/ (q = lex /\ k - 1 = Depth(lex))
      BY <1>1, <2>1, BaseNext
    <3> QED
      BY Zenon, <3>1, <3>2, <3>3, <3>4, <3>5
  <2> QED
    BY Zenon, <1>2, <1>3, <2>1, TreeShape DEF CellsRight
<1>6. OpenAt(here)'
  <2>0. \A k : k \notin here + 1 .. (here + 1) - 1
    BY <1>1
  <2>1. here < lex' /\ \A k : k \notin here + 1 .. lex' - 1
    BY <1>1, <1>2, <2>0
  <2> QED
    BY Zenon, <1>2, <1>3, <2>1, TreeSays DEF OpenAt
<1>7. RecordOf(here)'
  <2>1. \A is : Seen(here, is, lex + 1) = {}
    <3>1. \A k : k \notin here + 1 .. (lex + 1) - 1
      BY <1>1
    <3> QED
      BY Zenon, <3>1 DEF Seen
  <2>2. Depth(here)' = Top' - 1
    BY <1>1, <1>2, <1>3, TreeSays
  <2>3. IsLast({}, <<>>, <<>>)
    BY DEF IsLast
  <2>4. ~scan'.memory /\ scan'.reg = <<>>
    BY <1>2 DEF Cleared
  <2> QED
    BY Zenon, <1>2, <1>6, <2>1, <2>2, <2>3, <2>4, TreeShape DEF RecordOf
<1>8. Reported' \subseteq {n \in MemoryNodes : n < lex}
  <2> SUFFICES ASSUME NEW n \in Reported' PROVE n \in MemoryNodes /\ n < lex
    OBVIOUS
  <2>1. n \in MemoryNodes /\ n < lex + 1 /\ ~OpenAt(n)'
    BY <1>2, <1>3, TreeSays DEF Reported
  <2>2. n \in Nat /\ n # lex
    BY <1>1, <1>6, <2>1, NodeDepth DEF MemoryNodes
  <2> QED
    BY <1>1, <2>1, <2>2
<1>9. (Plain => SizeOver(Reported, g_mem_size))'
  <2>1. Plain => SizeOver({n \in MemoryNodes : n < lex}, g_mem_size')
    BY <1>2, MemDoneTells
  <2> QED
    BY <1>2, <1>8, <2>1, MemMoves
<1> QED
  BY <1>4, <1>5, <1>7, <1>9 DEF MemScan

\* A node ends, or the tree.
LEMMA MemEndStep ==
    ASSUME ScanInv, MemScan, Scanning, query = "mem", EndNode
    PROVE  /\ stack' # <<>> => MemScan'
           /\ stack' = <<>> /\ Plain => SizeOver(MemoryNodes, g_mem_size')
<1>1. /\ fdt \in Trees /\ lex \in 1 .. Len(fdt) /\ lex \in Nat /\ Top \in Nat /\ Top = Len(stack)
      /\ Token.t # "END" => At(lex - 1) = Top - 1
      /\ Nodes \subseteq 1 .. Len(fdt) /\ Len(fdt) \in Nat /\ Top >= 1 /\ stack \in Seq(ActivationSet)
  BY Here
<1>2. /\ fdt' = fdt /\ Token.t \in {"END_NODE", "END"} /\ scan' = scan /\ CallDone
      /\ query' = query /\ stack' = SubSeq(stack, 1, Top - 1)
      /\ Token.t = "END_NODE" => lex' = lex + 1
      /\ Token.t = "END" => lex' = lex
  BY DEF EndNode, Returned
<1>3. Top' = Top - 1 /\ \A k \in 1 .. Top - 1 : stack'[k] = stack[k]
  <2>1. Len(stack') = Top - 1 /\ \A k \in 1 .. Top - 1 : stack'[k] = stack[k]
    BY <1>1, <1>2
  <2> QED
    BY <2>1 DEF Top
<1>4. ~CallsDone' /\ (stack' = <<>> => lex = Len(fdt))
  BY EndNodeStep
<1>5. lex \notin Nodes
  BY <1>2 DEF Nodes, Token
<1>6. Plain => SizeOver({n \in MemoryNodes : n < lex}, g_mem_size')
  BY <1>2, MemDoneTells
<1>7. ASSUME stack' = <<>>, Plain PROVE SizeOver(MemoryNodes, g_mem_size')
  <2>1. \A n \in MemoryNodes : n < lex
    BY <1>1, <1>4, <1>5, <1>7 DEF MemoryNodes
  <2>2. {n \in MemoryNodes : n < lex} = MemoryNodes
    BY Zenon, <2>1
  <2> QED
    BY Zenon, <1>6, <1>7, <2>2
<1>8. PathInv'
  <2>1. CASE Token.t = "END_NODE"
    <3>1. At(lex) = At(lex - 1) - 1
      BY <1>1, <2>1, AtNext DEF Token
    <3>2. Top' = 1 + At(lex)
      BY <1>1, <1>3, <2>1, <3>1
    <3> QED
      BY Zenon, <1>2, <2>1, <3>2, PathNext DEF MemScan
  <2>2. CASE Token.t = "END"
    <3>1. \A x, y \in Nat : x <= y => \A d \in 1 .. x - 1 : d \in 1 .. y - 1
      OBVIOUS
    <3>2. Top' \in Nat /\ Top' <= Top
      BY <1>1, <1>3
    <3>3. \A d \in 1 .. Top' - 1 : d \in 1 .. Top - 1
      BY Zenon, <1>1, <3>1, <3>2
    <3> QED
      BY <1>2, <2>2, <3>3, TreeShape DEF PathInv, MemScan
  <2> QED
    BY <1>2, <2>1, <2>2
<1>9. CellsRight'
  <2>1. ASSUME NEW k \in 1 .. Top - 1, NEW q, Base(q, k, lex')
        PROVE  /\ CountIs(q, k, "#address-cells", <<2>>, lex', stack[k].ac)
               /\ CountIs(q, k, "#size-cells", <<1>>, lex', stack[k].sc)
    <3>1. Base(q, k, lex)
      <4>1. CASE Token.t = "END"
        BY <1>2, <2>1, <4>1
      <4>2. CASE Token.t = "END_NODE"
        BY <1>1, <1>2, <2>1, <4>2, BaseNext
      <4> QED
        BY <1>2, <4>1, <4>2
    <3>2. k \in 1 .. Top
      BY <1>1
    <3>3. /\ CountIs(q, k, "#address-cells", <<2>>, lex, stack[k].ac)
          /\ CountIs(q, k, "#size-cells", <<1>>, lex, stack[k].sc)
      BY Zenon, <3>1, <3>2 DEF MemScan, CellsRight
    <3>4. /\ CountIs(q, k, "#address-cells", <<2>>, lex + 1, stack[k].ac)
          /\ CountIs(q, k, "#size-cells", <<1>>, lex + 1, stack[k].sc)
      BY Zenon, <1>1, <1>2, <3>3, CountKept
    <3> QED
      BY Zenon, <1>2, <3>3, <3>4
  <2> QED
    BY Zenon, <1>2, <1>3, <2>1, TreeShape DEF CellsRight
<1>10. Reported' \subseteq {n \in MemoryNodes : n < lex}
  <2> SUFFICES ASSUME NEW n \in Reported' PROVE n \in MemoryNodes /\ n < lex
    OBVIOUS
  <2>1. n \in MemoryNodes /\ n < lex'
    BY <1>2, TreeSays DEF Reported
  <2>2. n \in Nat /\ n # lex
    BY Zenon, <1>1, <1>5, <2>1, NodeDepth DEF MemoryNodes
  <2> QED
    BY <1>1, <1>2, <2>1, <2>2
<1>11. (Plain => SizeOver(Reported, g_mem_size))'
  BY <1>2, <1>6, <1>10, MemMoves
<1>12. MemScan'
  BY <1>4, <1>8, <1>9, <1>11 DEF MemScan
<1> QED
  BY <1>7, <1>12

\* Either scan: a node is open for properties only while done is to be called.
LEMMA NoOpenStep ==
    ASSUME ScanInv, Scanning, NoOpen, Nop \/ Prop \/ BeginNode \/ EndNode
    PROVE  Scanning' => NoOpen'
<1>1. /\ fdt \in Trees /\ lex \in 1 .. Len(fdt) /\ lex \in Nat /\ Nodes \subseteq 1 .. Len(fdt)
      /\ Len(fdt) \in Nat
  BY Here
<1>2. CASE Nop \/ Prop
  <2>1. fdt' = fdt /\ lex' = lex + 1 /\ Token.t \in {"PROP", "NOP"}
    BY <1>2 DEF Nop, Prop
  <2>2. CallsDone' <=> CallsDone
    BY <1>2, PropStep DEF Nop, CallsDone, Top, IsNode
  <2>3. \A n : OpenAt(n)' <=> OpenAt(n)
    BY <2>1, StaysOpen
  <2> QED
    BY <2>1, <2>2, <2>3 DEF NoOpen
<1>3. CASE BeginNode
  BY <1>3, BeginNodeStep DEF NoOpen
<1>4. CASE EndNode
  <2>1. /\ fdt' = fdt /\ Token.t \in {"END_NODE", "END"}
        /\ Token.t = "END_NODE" => lex' = lex + 1
        /\ Token.t = "END" => lex' = lex
    BY <1>4 DEF EndNode, Returned
  <2>2. CASE Token.t = "END"
    <3>1. Token' = Token
      BY <2>1, <2>2 DEF Token
    <3> QED
      BY <2>2, <3>1 DEF NoOpen
  <2>3. CASE Token.t = "END_NODE"
    <3>1. ASSUME NEW n, OpenAt(n)' PROVE FALSE
      <4>1. n \in Nodes /\ n < lex' /\ \A k \in n + 1 .. lex' - 1 : fdt[k].t \in {"PROP", "NOP"}
        BY Zenon, <2>1, <3>1, TreeSays DEF OpenAt
      <4>2. n \in Nat /\ n # lex
        BY <1>1, <2>3, <4>1 DEF Nodes, Token
      <4>3. lex \in n + 1 .. lex' - 1
        BY <1>1, <2>1, <2>3, <4>1, <4>2
      <4> QED
        BY <2>3, <4>1, <4>3 DEF Token
    <3> QED
      BY <3>1 DEF NoOpen
  <2> QED
    BY <2>1, <2>2, <2>3
<1> QED
  BY <1>2, <1>3, <1>4

\* The scan begins with the default cell counts and has reported nothing.
LEMMA EnterMem ==
    Entering => /\ stack # <<>> => NoOpen /\ (g_mem_size = 0 => MemScan)
                /\ stack = <<>> /\ g_mem_size = 0 => SizeOver(MemoryNodes, g_mem_size)
<1> SUFFICES ASSUME Entering
             PROVE  /\ stack # <<>> => NoOpen /\ (g_mem_size = 0 => MemScan)
                    /\ stack = <<>> /\ g_mem_size = 0 => SizeOver(MemoryNodes, g_mem_size)
  OBVIOUS
<1>1. fdt \in Seq(TokenSet) /\ lex = 1 /\ stack = Entered(fdt)
  BY Zenon, DeviceTreeAssumption DEF Entering, WellFormed
<1>2. (stack # <<>> => ~CallsDone) /\ (stack = <<>> => fdt = <<>>)
  BY EnterPlace DEF AtEntry
<1>3. \A n \in Nodes : n \in Nat /\ ~(n < 1)
  BY <1>1 DEF Nodes
<1>4. NoOpen
  BY <1>1, <1>3 DEF NoOpen, OpenAt
<1>5. ASSUME stack # <<>>, g_mem_size = 0 PROVE MemScan
  <2>1. stack = <<Fresh>> /\ Top = 1
    BY <1>1, <1>5 DEF Entered, Top
  <2>2. PathInv
    BY <2>1 DEF PathInv
  <2>3. CellsRight
    <3>1. \A q, k, is : KidProps(q, k, is, 1) = {}
      BY DEF KidProps
    <3>2. IsLast({}, <<2>>, <<2>>) /\ 2 = <<2>>[1] /\ IsLast({}, <<1>>, <<1>>) /\ 1 = <<1>>[1]
      BY DEF IsLast
    <3>3. \A q, k : /\ CountIs(q, k, "#address-cells", <<2>>, 1, 2)
                    /\ CountIs(q, k, "#size-cells", <<1>>, 1, 1)
      BY Zenon, <3>1, <3>2 DEF CountIs
    <3>4. \A k \in 1 .. Top : stack[k].ac = 2 /\ stack[k].sc = 1
      BY <2>1 DEF Fresh
    <3> QED
      BY Zenon, <1>1, <3>3, <3>4 DEF CellsRight
  <2>4. Reported = {}
    BY <1>1, <1>3 DEF Reported, MemoryNodes
  <2> QED
    BY <1>2, <1>5, <2>2, <2>3, <2>4 DEF MemScan, SizeOver
<1>6. ASSUME stack = <<>>, g_mem_size = 0 PROVE SizeOver(MemoryNodes, g_mem_size)
  <2>1. MemoryNodes = {}
    BY <1>2, <1>6 DEF MemoryNodes, Nodes
  <2> QED
    BY <1>6, <2>1 DEF SizeOver
<1> QED
  BY <1>4, <1>5, <1>6

\* The scan stops over a property that belongs to no node, or over memory whose
\* reg property is not made of whole ranges.
LEMMA PanicTells ==
    ASSUME ScanInv, MemInv, ScanPanic, Plain PROVE Malformed
<1>1. Scanning /\ NoOpen
  BY DEF ScanPanic, MemInv
<1>2. fdt \in Trees /\ lex \in 1 .. Len(fdt) /\ fdt \in Seq(TokenSet)
  BY Zenon, <1>1, Here, DeviceTreeAssumption DEF WellFormed
<1>3. CASE Token.t = "PROP" /\ stack[Top].last
  <2>1. \A n : ~OpenAt(n)
    BY <1>1, <1>3 DEF NoOpen, CallsDone
  <2>2. \A n \in Nodes : lex \notin Own(n, Token.is)
    BY <1>2, <2>1, OwnHere
  <2>3. lex \in DOMAIN fdt
    BY <1>2
  <2> QED
    BY Zenon, <1>3, <2>2, <2>3 DEF Malformed, Token
<1>4. CASE Token.t \in {"BEGIN", "END_NODE", "END"} /\ ~DoneOK
  <2>1. query = "mem" /\ Token.t \notin {"PROP", "NOP"}
    BY <1>4 DEF DoneOK, MemDone
  <2>2. MemScan
    BY <1>1, <2>1 DEF MemInv, Scanning
  <2> QED
    BY <1>1, <1>4, <2>1, <2>2, MemDoneTells
<1> QED
  BY <1>3, <1>4 DEF ScanPanic

\* The scan of query_mem finds the memory.
LEMMA MemStep == ASSUME ScanInv, MemInv, ScanNext PROVE MemInv'
<1>1. CASE Nop \/ Prop \/ BeginNode \/ EndNode
  <2>1. Scanning /\ NoOpen /\ query' = query /\ fdt' = fdt /\ query \in {"htif", "mem"}
    BY <1>1 DEF Nop, Prop, BeginNode, EndNode, MemInv, Scanning
  <2>2. Scanning' => NoOpen'
    BY <1>1, <2>1, NoOpenStep
  <2>3. MemSizeRight'
    BY <2>1 DEF MemSizeRight
  <2>4. CASE query = "htif"
    BY <2>1, <2>2, <2>3, <2>4 DEF MemInv
  <2>5. CASE query = "mem"
    <3>1. MemScan
      BY <2>1, <2>5 DEF MemInv, Scanning
    <3>2. CASE Nop
      <4>1. MemScan' /\ stack' # <<>>
        BY <2>1, <2>5, <3>1, <3>2, MemNopStep DEF Nop, Scanning
      <4> QED
        BY <2>2, <2>3, <4>1 DEF MemInv
    <3>3. CASE Prop
      <4>1. MemScan' /\ stack' # <<>>
        BY Zenon, <2>1, <2>5, <3>1, <3>3, MemPropStep, PropStep
      <4> QED
        BY <2>2, <2>3, <4>1 DEF MemInv
    <3>4. CASE BeginNode
      <4>1. MemScan' /\ stack' # <<>>
        BY <2>1, <2>5, <3>1, <3>4, MemBeginStep, BeginNodeStep DEF Scanning
      <4> QED
        BY <2>2, <2>3, <4>1 DEF MemInv
    <3>5. CASE EndNode
      <4>1. /\ stack' # <<>> => MemScan'
            /\ stack' = <<>> /\ Plain => SizeOver(MemoryNodes, g_mem_size')
        BY <2>1, <2>5, <3>1, <3>5, MemEndStep
      <4>2. (stack = <<>> /\ Plain => SizeOver(MemoryNodes, g_mem_size))'
        BY <2>1, <4>1, TreeSays DEF Plain, SizeOver
      <4> QED
        BY <2>2, <2>3, <4>1, <4>2 DEF MemInv
    <3> QED
      BY <1>1, <3>2, <3>3, <3>4, <3>5
  <2> QED
    BY <2>1, <2>4, <2>5
<1>2. CASE ScanPanic
  <2>1. query' = "panic" /\ fdt' = fdt
    BY <1>2 DEF ScanPanic
  <2>2. Plain => Malformed
    BY <1>2, PanicTells
  <2> QED
    BY <2>1, <2>2, TreeSays DEF MemInv, MemSizeRight, Scanning, Plain
<1>3. CASE QueryMem
  <2>1. /\ fdt' \in Trees /\ lex' = 1 /\ stack' = Entered(fdt') /\ scan' = Cleared
        /\ query' = "mem" /\ g_mem_size' = 0
    BY <1>3 DEF ScanInv, QueryMem
  <2>2. Entering' => (/\ stack # <<>> => NoOpen /\ (g_mem_size = 0 => MemScan)
                      /\ stack = <<>> /\ g_mem_size = 0 => SizeOver(MemoryNodes, g_mem_size))'
    BY EnterMem, PTL
  <2> QED
    BY <2>1, <2>2 DEF Entering, MemInv, MemSizeRight, Scanning
<1>4. CASE QueryDone
  <2>1. /\ fdt' = fdt /\ g_mem_size' = g_mem_size
        /\ query' = (IF g_mem_size > 0 THEN "found" ELSE "panic") /\ g_mem_size \in Nat
    BY <1>4 DEF QueryDone, ScanInv
  <2>2. Plain => SizeOver(MemoryNodes, g_mem_size)
    BY <1>4 DEF QueryDone, MemInv
  <2>3. Plain /\ g_mem_size > 0 => g_mem_size \in TrueSizes
    BY <2>1, <2>2 DEF SizeOver
  <2>4. Plain /\ ~(g_mem_size > 0) => TrueSizes = {}
    <3> SUFFICES ASSUME Plain, ~(g_mem_size > 0) PROVE TrueSizes = {}
      OBVIOUS
    <3>1. \A n \in MemoryNodes : MemoryRanges(n) = {}
      BY <2>1, <2>2 DEF SizeOver
    <3> QED
      BY <3>1 DEF TrueSizes
  <2> QED
    BY Zenon, <2>1, <2>3, <2>4, TreeSays DEF MemInv, MemSizeRight, Scanning, Plain
<1> QED
  BY <1>1, <1>2, <1>3, <1>4 DEF ScanNext

LEMMA MemStart == ASSUME ScanInit PROVE MemInv
<1>1. Entering
  BY DEF ScanInit, Entering
<1>2. stack # <<>> => NoOpen
  BY <1>1, EnterMem
<1> QED
  BY <1>2 DEF ScanInit, MemInv, MemSizeRight, Scanning
=============================================================================
