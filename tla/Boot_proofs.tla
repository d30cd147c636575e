---------------------------- MODULE Boot_proofs ----------------------------
(***************************************************************************)
(* Booting, for any program file and any sizes: the entry into supervisor  *)
(* mode, the files of the host, the loader's table and regions, and the    *)
(* pages of the boot.  Each part has an invariant of its own, over the     *)
(* variables it is about; a step of another part leaves those as they are. *)
(***************************************************************************)
EXTENDS Boot, FiniteSetTheorems, TLAPS
-----------------------------------------------------------------------------
(* The hart in m_start. *)

HartType ==
    [mode : {"M", "S"}, stmt : 1 .. 10, mepc : {"none", "s_start", "interrupted"},
     MPP : {"M", "S", "U"}, mtvec : {"none", "mtrapvec"},
     MIE : BOOLEAN, MTIE : BOOLEAN, deleg : BOOLEAN, sie : BOOLEAN,
     togo : Nat, SSIP : BOOLEAN]

\* What the statements before the next one have done.  The timer is set up
\* last, and too late for a tick before mret.
HartInv ==
    /\ hart \in HartType
    /\ hart.stmt > 1 /\ hart.mode = "M" => hart.MPP = "S"
    /\ hart.stmt > 3 => hart.mtvec = "mtrapvec"
    /\ hart.stmt > 5 => hart.deleg
    /\ hart.stmt > 6 => hart.sie
    /\ hart.stmt < 9 => ~hart.MTIE
    /\ hart.stmt > 7 /\ hart.mode = "M" => hart.togo + hart.stmt > 9
    /\ hart.mode = "M" <=> hart.stmt < 10

\* The time to the next tick is set, and nothing else.
LEMMA TogoSet ==
    ASSUME NEW g \in HartType, NEW w \in Nat
    PROVE  LET n == [g EXCEPT !.togo = w] IN
           /\ n \in HartType /\ n.stmt = g.stmt /\ n.togo = w
           /\ n.mode = g.mode /\ n.MPP = g.MPP /\ n.mtvec = g.mtvec
           /\ n.deleg = g.deleg /\ n.sie = g.sie /\ n.MTIE = g.MTIE
BY DEF HartType

\* The next statement is up.
LEMMA StmtSet ==
    ASSUME NEW g \in HartType, NEW k \in 1 .. 10
    PROVE  LET n == [g EXCEPT !.stmt = k] IN
           /\ n \in HartType /\ n.stmt = k /\ n.togo = g.togo
           /\ n.mode = g.mode /\ n.MPP = g.MPP /\ n.mtvec = g.mtvec
           /\ n.deleg = g.deleg /\ n.sie = g.sie /\ n.MTIE = g.MTIE
BY DEF HartType

\* Time passes during a statement, and the next one is up.
LEMMA TimePasses ==
    ASSUME NEW g \in HartType, g.stmt < 10, NEW t \in {0, 1}
    PROVE  LET n == [g EXCEPT !.stmt = @ + 1, !.togo = IF t < @ THEN @ - t ELSE 0] IN
           /\ n \in HartType /\ n.stmt = g.stmt + 1 /\ n.togo >= g.togo - 1
           /\ n.mode = g.mode /\ n.MPP = g.MPP /\ n.mtvec = g.mtvec
           /\ n.deleg = g.deleg /\ n.sie = g.sie /\ n.MTIE = g.MTIE
<1> DEFINE w == IF t < g.togo THEN g.togo - t ELSE 0
           k == g.stmt + 1
           a == [g EXCEPT !.stmt = k]
           n == [a EXCEPT !.togo = w]
<1>1. g.togo \in Nat /\ k \in 1 .. 10
  BY DEF HartType
<1>2. w \in Nat /\ w >= g.togo - 1
  BY <1>1
<1> HIDE DEF w, k
<1>3. /\ a \in HartType /\ a.stmt = k /\ a.togo = g.togo
      /\ a.mode = g.mode /\ a.MPP = g.MPP /\ a.mtvec = g.mtvec
      /\ a.deleg = g.deleg /\ a.sie = g.sie /\ a.MTIE = g.MTIE
  BY Zenon, <1>1, StmtSet
<1> HIDE DEF a
<1>4. /\ n \in HartType /\ n.stmt = a.stmt /\ n.togo = w
      /\ n.mode = a.mode /\ n.MPP = a.MPP /\ n.mtvec = a.mtvec
      /\ n.deleg = a.deleg /\ n.sie = a.sie /\ n.MTIE = a.MTIE
  BY Zenon, <1>2, <1>3, TogoSet
<1> HIDE DEF n
<1>5. /\ n \in HartType /\ n.stmt = g.stmt + 1 /\ n.togo >= g.togo - 1
      /\ n.mode = g.mode /\ n.MPP = g.MPP /\ n.mtvec = g.mtvec
      /\ n.deleg = g.deleg /\ n.sie = g.sie /\ n.MTIE = g.MTIE
  BY <1>2, <1>3, <1>4 DEF k
<1> QED
  BY <1>5 DEF n, a, w, k

\* One statement of m_start.
LEMMA MStartStep ==
    ASSUME HartInv, MStart PROVE HartInv'
<1> USE BootAssumption
<1> DEFINE g == Statements(hart)[hart.stmt]
<1>1. PICK t \in {0, 1} :
         hart' = [g EXCEPT !.stmt = @ + 1, !.togo = IF t < @ THEN @ - t ELSE 0]
  BY Zenon DEF MStart
<1>2. hart.mode = "M" /\ hart \in HartType /\ hart.stmt \in 1 .. 9
  BY DEF MStart, HartInv, HartType
<1>0. ASSUME g \in HartType, g.stmt = hart.stmt
      PROVE  /\ hart' \in HartType /\ hart'.stmt = hart.stmt + 1 /\ hart'.togo >= g.togo - 1
             /\ hart'.mode = g.mode /\ hart'.MPP = g.MPP /\ hart'.mtvec = g.mtvec
             /\ hart'.deleg = g.deleg /\ hart'.sie = g.sie /\ hart'.MTIE = g.MTIE
  <2> HIDE DEF g
  <2> DEFINE n == [g EXCEPT !.stmt = @ + 1, !.togo = IF t < @ THEN @ - t ELSE 0]
  <2>1. /\ n \in HartType /\ n.stmt = g.stmt + 1 /\ n.togo >= g.togo - 1
        /\ n.mode = g.mode /\ n.MPP = g.MPP /\ n.mtvec = g.mtvec
        /\ n.deleg = g.deleg /\ n.sie = g.sie /\ n.MTIE = g.MTIE
    <3>1. g \in HartType /\ g.stmt < 10
      BY <1>2, <1>0
    <3> QED
      BY <3>1, TimePasses, Zenon
  <2>2. hart' = n
    BY <1>1
  <2> HIDE DEF n
  <2> QED
    BY <1>0, <2>1, <2>2
<1> DEFINE Changed(x) ==
      /\ g \in HartType /\ g.stmt = hart.stmt
      /\ x # "mode" => g.mode = "M"
      /\ x # "MPP" => g.MPP = hart.MPP
      /\ x # "mtvec" => g.mtvec = hart.mtvec
      /\ x # "deleg" => g.deleg = hart.deleg
      /\ x # "sie" => g.sie = hart.sie
      /\ x # "MTIE" => g.MTIE = hart.MTIE
      /\ x # "togo" => g.togo = hart.togo
<1>3. CASE hart.stmt = 1
  <2>1. g = [hart EXCEPT !.MPP = "S"]
    BY <1>3 DEF Statements
  <2>2. Changed("MPP") /\ g.MPP = "S"
    BY Zenon, <1>2, <2>1 DEF HartType
  <2> HIDE DEF g
  <2>3. /\ hart' \in HartType /\ hart'.stmt = 2 /\ hart'.togo >= g.togo - 1
        /\ hart'.mode = g.mode /\ hart'.MPP = g.MPP /\ hart'.mtvec = g.mtvec
        /\ hart'.deleg = g.deleg /\ hart'.sie = g.sie /\ hart'.MTIE = g.MTIE
    BY <1>3, <2>2, <1>0
  <2> QED
    BY <1>2, <1>3, <2>2, <2>3 DEF HartInv, HartType
<1>4. CASE hart.stmt = 2
  <2>1. g = [hart EXCEPT !.mepc = "s_start"]
    BY <1>4 DEF Statements
  <2>2. Changed("mepc") /\ g.mepc = "s_start"
    BY Zenon, <1>2, <2>1 DEF HartType
  <2> HIDE DEF g
  <2>3. /\ hart' \in HartType /\ hart'.stmt = 3 /\ hart'.togo >= g.togo - 1
        /\ hart'.mode = g.mode /\ hart'.MPP = g.MPP /\ hart'.mtvec = g.mtvec
        /\ hart'.deleg = g.deleg /\ hart'.sie = g.sie /\ hart'.MTIE = g.MTIE
    BY <1>4, <2>2, <1>0
  <2> QED
    BY <1>2, <1>4, <2>2, <2>3 DEF HartInv, HartType
<1>5. CASE hart.stmt = 3
  <2>1. g = [hart EXCEPT !.mtvec = "mtrapvec"]
    BY <1>5 DEF Statements
  <2>2. Changed("mtvec") /\ g.mtvec = "mtrapvec"
    BY <1>2, <2>1 DEF HartType
  <2> HIDE DEF g
  <2>3. /\ hart' \in HartType /\ hart'.stmt = 4 /\ hart'.togo >= g.togo - 1
        /\ hart'.mode = g.mode /\ hart'.MPP = g.MPP /\ hart'.mtvec = g.mtvec
        /\ hart'.deleg = g.deleg /\ hart'.sie = g.sie /\ hart'.MTIE = g.MTIE
    BY <1>5, <2>2, <1>0
  <2> QED
    BY <1>2, <1>5, <2>2, <2>3 DEF HartInv, HartType
<1>6. CASE hart.stmt = 4
  <2>1. g = [hart EXCEPT !.MIE = TRUE]
    BY <1>6 DEF Statements
  <2>2. Changed("MIE") /\ g.MIE = TRUE
    BY Zenon, <1>2, <2>1 DEF HartType
  <2> HIDE DEF g
  <2>3. /\ hart' \in HartType /\ hart'.stmt = 5 /\ hart'.togo >= g.togo - 1
        /\ hart'.mode = g.mode /\ hart'.MPP = g.MPP /\ hart'.mtvec = g.mtvec
        /\ hart'.deleg = g.deleg /\ hart'.sie = g.sie /\ hart'.MTIE = g.MTIE
    BY <1>6, <2>2, <1>0
  <2> QED
    BY <1>2, <1>6, <2>2, <2>3 DEF HartInv, HartType
<1>7. CASE hart.stmt = 5
  <2>1. g = [hart EXCEPT !.deleg = TRUE]
    BY <1>7 DEF Statements
  <2>2. Changed("deleg") /\ g.deleg = TRUE
    BY Zenon, <1>2, <2>1 DEF HartType
  <2> HIDE DEF g
  <2>3. /\ hart' \in HartType /\ hart'.stmt = 6 /\ hart'.togo >= g.togo - 1
        /\ hart'.mode = g.mode /\ hart'.MPP = g.MPP /\ hart'.mtvec = g.mtvec
        /\ hart'.deleg = g.deleg /\ hart'.sie = g.sie /\ hart'.MTIE = g.MTIE
    BY <1>7, <2>2, <1>0
  <2> QED
    BY <1>2, <1>7, <2>2, <2>3 DEF HartInv, HartType
<1>8. CASE hart.stmt = 6
  <2>1. g = [hart EXCEPT !.sie = TRUE]
    BY <1>8 DEF Statements
  <2>2. Changed("sie") /\ g.sie = TRUE
    BY Zenon, <1>2, <2>1 DEF HartType
  <2> HIDE DEF g
  <2>3. /\ hart' \in HartType /\ hart'.stmt = 7 /\ hart'.togo >= g.togo - 1
        /\ hart'.mode = g.mode /\ hart'.MPP = g.MPP /\ hart'.mtvec = g.mtvec
        /\ hart'.deleg = g.deleg /\ hart'.sie = g.sie /\ hart'.MTIE = g.MTIE
    BY <1>8, <2>2, <1>0
  <2> QED
    BY <1>2, <1>8, <2>2, <2>3 DEF HartInv, HartType
<1>9. CASE hart.stmt = 7
  <2>1. g = Due(hart)
    BY <1>9 DEF Statements
  <2>2. Changed("togo") /\ g.togo = TIMER_INTERVAL
    BY Zenon, <1>2, <2>1 DEF HartType, Due
  <2> HIDE DEF g
  <2>3. /\ hart' \in HartType /\ hart'.stmt = 8 /\ hart'.togo >= g.togo - 1
        /\ hart'.mode = g.mode /\ hart'.MPP = g.MPP /\ hart'.mtvec = g.mtvec
        /\ hart'.deleg = g.deleg /\ hart'.sie = g.sie /\ hart'.MTIE = g.MTIE
    BY <1>9, <2>2, <1>0
  <2> QED
    BY <1>2, <1>9, <2>2, <2>3 DEF HartInv, HartType
<1>10. CASE hart.stmt = 8
  <2>1. g = [hart EXCEPT !.MTIE = TRUE]
    BY <1>10 DEF Statements
  <2>2. Changed("MTIE") /\ g.MTIE = TRUE
    BY Zenon, <1>2, <2>1 DEF HartType
  <2> HIDE DEF g
  <2>3. /\ hart' \in HartType /\ hart'.stmt = 9 /\ hart'.togo >= g.togo - 1
        /\ hart'.mode = g.mode /\ hart'.MPP = g.MPP /\ hart'.mtvec = g.mtvec
        /\ hart'.deleg = g.deleg /\ hart'.sie = g.sie /\ hart'.MTIE = g.MTIE
    BY <1>10, <2>2, <1>0
  <2> QED
    BY <1>2, <1>10, <2>2, <2>3 DEF HartInv, HartType
<1>11. CASE hart.stmt = 9
  <2>1. g = [hart EXCEPT !.mode = hart.MPP]
    BY <1>11 DEF Statements
  <2>2. Changed("mode") /\ g.mode = hart.MPP
    BY <1>2, <1>11, <2>1 DEF HartType, HartInv
  <2> HIDE DEF g
  <2>3. /\ hart' \in HartType /\ hart'.stmt = 10 /\ hart'.togo >= g.togo - 1
        /\ hart'.mode = g.mode /\ hart'.MPP = g.MPP /\ hart'.mtvec = g.mtvec
        /\ hart'.deleg = g.deleg /\ hart'.sie = g.sie /\ hart'.MTIE = g.MTIE
    BY <1>11, <2>2, <1>0
  <2> QED
    BY <1>2, <1>11, <2>2, <2>3 DEF HartInv, HartType
<1> QED
  BY <1>2, <1>3, <1>4, <1>5, <1>6, <1>7, <1>8, <1>9, <1>10, <1>11

LEMMA HartInvAlways == Spec => []HartInv
<1> USE BootAssumption
<1>1. Init => HartInv
  BY DEF Init, HartInit, HartInv, HartType
<1>2. HartInv /\ [Next]_vars => HartInv'
  <2> SUFFICES ASSUME HartInv, [Next]_vars PROVE HartInv'
    OBVIOUS
  <2>1. CASE UNCHANGED hart
    BY <2>1 DEF HartInv
  <2>2. CASE MStart
    BY <2>2, MStartStep
  <2>3. CASE MTimer
    <3>1. hart.mode # "M"
      BY <2>3 DEF MTimer, Pending, HartInv, HartType
    <3> QED
      BY Zenon, <2>3, <3>1 DEF MTimer, HartInv, HartType
  <2> QED
    BY <2>1, <2>2, <2>3 DEF Next, vars, SetUpFiles, InitDtb, PmmInit, FillCache, PmmInitDone,
       TakePage, KernVmInit, LoadUserProgram, LoadProgram, LoadStops, Paid
<1> QED
  BY <1>1, <1>2, PTL DEF Spec

\* mret leaves machine mode for s_start in supervisor mode, with the machine
\* trap vector set and traps delegated, whenever time passes in m_start.
THEOREM BootEntersSupervisor == Spec => []EntersSupervisor
<1>1. HartInv => EntersSupervisor
  BY DEF HartInv, HartType, EntersSupervisor
<1> QED
  BY <1>1, HartInvAlways, PTL
-----------------------------------------------------------------------------
(* The files of the host. *)

\* While spike_file_init runs, the slots and descriptors below i are set up
\* and the others free; afterwards no descriptor but the three is in use, and
\* the file of the program is in a slot behind them.
FilesInv ==
    /\ kfd \in [File -> Int] /\ refcnt \in [File -> Int]
    /\ spike_fds \in [File -> File \cup {NoFile}]
    /\ pc = "m_start" =>
         /\ i \in Std
         /\ \A x \in File : x < i => kfd[x] = x /\ refcnt[x] > 0 /\ spike_fds[x] = x
         /\ \A x \in File : x >= i => refcnt[x] = 0 /\ spike_fds[x] = NoFile
    /\ pc # "m_start" =>
         /\ Std \subseteq File
         /\ \A x \in Std : kfd[x] = x /\ refcnt[x] > 0 /\ spike_fds[x] = x
         /\ \A x \in File : x > 2 => spike_fds[x] = NoFile
    /\ pc \in {"elf_init", "elf_load"} => f \in File /\ f > 2 /\ kfd[f] = 3

\* One turn of the loop of spike_file_init.
LEMMA SpikeFileInitStep ==
    ASSUME FilesInv, SpikeFileInit PROVE FilesInv'
<1> USE LoaderAssumption DEF File, Std, NoFile
<1>1. PICK g \in File, d \in File :
         /\ GetFree(g) /\ FirstFd(d)
         /\ kfd' = [kfd EXCEPT ![g] = i]
         /\ spike_fds' = [spike_fds EXCEPT ![d] = g]
         /\ refcnt' = [refcnt EXCEPT ![g] = INIT_FILE_REF + 1]
  BY Zenon DEF SpikeFileInit
<1>2. pc = "m_start" /\ i \in 0 .. 2 /\ i' = i + 1 /\ pc' = IF i = 2 THEN "booting" ELSE pc
  BY DEF SpikeFileInit, FilesInv
<1>3. g = i
  <2>1. /\ \A x \in File : x < i => refcnt[x] # 0
        /\ \A x \in File : x >= i => refcnt[x] = 0
    BY <1>2 DEF FilesInv
  <2>2. /\ ~(g < i) /\ g \in Nat
        /\ \A x \in File : x < g => refcnt[x] # 0
    BY <1>1, <2>1 DEF GetFree
  <2>3. i \in File /\ refcnt[i] = 0
    BY <1>2, <2>1, <2>2
  <2> QED
    BY <1>2, <2>2, <2>3
<1>4. d = i
  <2>1. /\ \A x \in File : x < i => spike_fds[x] # NoFile
        /\ \A x \in File : x >= i => spike_fds[x] = NoFile
    BY <1>2 DEF FilesInv
  <2>2. spike_fds[d] = NoFile /\ \A x \in File : x < d => spike_fds[x] # NoFile
    BY Zenon, <1>1 DEF FirstFd
  <2> QED
    BY <1>2, <2>1, <2>2
<1>5. /\ kfd' \in [File -> Int] /\ refcnt' \in [File -> Int]
      /\ spike_fds' \in [File -> File \cup {NoFile}]
      /\ \A x \in File : x < i + 1 => kfd'[x] = x /\ refcnt'[x] > 0 /\ spike_fds'[x] = x
      /\ \A x \in File : x >= i + 1 => refcnt'[x] = 0 /\ spike_fds'[x] = NoFile
  <2>1. /\ kfd \in [File -> Int] /\ refcnt \in [File -> Int]
        /\ spike_fds \in [File -> File \cup {NoFile}]
        /\ \A x \in File : x < i => kfd[x] = x /\ refcnt[x] > 0 /\ spike_fds[x] = x
        /\ \A x \in File : x >= i => refcnt[x] = 0 /\ spike_fds[x] = NoFile
    BY <1>2 DEF FilesInv
  <2>2. i \in File /\ i \in Int /\ INIT_FILE_REF + 1 \in Int /\ INIT_FILE_REF + 1 > 0
    BY <1>1, <1>2, <1>3 DEF INIT_FILE_REF
  <2> HIDE DEF File, NoFile, INIT_FILE_REF
  <2>3. /\ kfd' \in [File -> Int]
        /\ \A x \in File : kfd'[x] = IF x = i THEN i ELSE kfd[x]
    BY Zenon, <1>1, <1>3, <2>1, <2>2
  <2>4. /\ refcnt' \in [File -> Int]
        /\ \A x \in File : refcnt'[x] = IF x = i THEN INIT_FILE_REF + 1 ELSE refcnt[x]
    BY Zenon, <1>1, <1>3, <2>1, <2>2
  <2>5. /\ spike_fds' \in [File -> File \cup {NoFile}]
        /\ \A x \in File : spike_fds'[x] = IF x = i THEN i ELSE spike_fds[x]
    BY Zenon, <1>1, <1>3, <1>4, <2>1, <2>2
  <2>6. ASSUME NEW x \in File, x < i + 1
        PROVE  kfd'[x] = x /\ refcnt'[x] > 0 /\ spike_fds'[x] = x
    <3>1. CASE x = i
      BY Zenon, <2>2, <2>3, <2>4, <2>5, <3>1
    <3>2. CASE x # i
      <4>1. x < i
        BY <1>2, <2>6, <3>2 DEF File
      <4>2. kfd[x] = x /\ refcnt[x] > 0 /\ spike_fds[x] = x
        BY Zenon, <2>1, <4>1
      <4>3. kfd'[x] = kfd[x] /\ refcnt'[x] = refcnt[x] /\ spike_fds'[x] = spike_fds[x]
        BY Zenon, <2>3, <2>4, <2>5, <3>2
      <4> QED
        BY Zenon, <4>2, <4>3
    <3> QED
      BY Zenon, <3>1, <3>2
  <2>7. ASSUME NEW x \in File, x >= i + 1
        PROVE  refcnt'[x] = 0 /\ spike_fds'[x] = NoFile
    <3>1. x >= i /\ x # i
      BY <1>2, <2>7 DEF File
    <3>2. refcnt[x] = 0 /\ spike_fds[x] = NoFile
      BY Zenon, <2>1, <3>1
    <3>3. refcnt'[x] = refcnt[x] /\ spike_fds'[x] = spike_fds[x]
      BY Zenon, <2>4, <2>5, <3>1
    <3> QED
      BY Zenon, <3>2, <3>3
  <2> QED
    BY Zenon, <2>3, <2>4, <2>5, <2>6, <2>7
<1>6. CASE i = 2
  BY <1>1, <1>2, <1>3, <1>5, <1>6 DEF FilesInv
<1>7. CASE i < 2
  BY <1>2, <1>5, <1>7 DEF FilesInv
<1> QED
  BY <1>2, <1>6, <1>7

\* The program is opened in a free slot, or a slot is given back.
LEMMA OpenSteps ==
    ASSUME FilesInv, Open \/ OpenFails PROVE FilesInv'
<1> USE LoaderAssumption DEF File, Std, NoFile
<1>1. PICK g \in File, r \in {INIT_FILE_REF, Decref(INIT_FILE_REF)} :
         /\ GetFree(g) /\ refcnt' = [refcnt EXCEPT ![g] = r]
         /\ \/ kfd' = [kfd EXCEPT ![g] = 3] /\ f' = g
            \/ kfd' = kfd /\ f' = f /\ pc' = "panic"
  BY DEF Open, OpenFails
<1>2. pc = "load_program" /\ pc' \in {"elf_init", "panic"} /\ spike_fds' = spike_fds
      /\ r \in Int
  BY <1>1 DEF Open, OpenFails, Decref, INIT_FILE_REF
<1>3. g > 2
  BY <1>1, <1>2 DEF GetFree, FilesInv
<1>4. /\ kfd' \in [File -> Int] /\ refcnt' \in [File -> Int]
      /\ \A x \in Std : kfd'[x] = kfd[x] /\ refcnt'[x] = refcnt[x]
  <2>1. Std \subseteq File
    BY <1>2 DEF FilesInv
  <2>2. \A x \in Std : x # g
    BY <1>3
  <2>3. kfd \in [File -> Int] /\ refcnt \in [File -> Int]
    BY DEF FilesInv
  <2> HIDE DEF File, Std
  <2>4. refcnt' \in [File -> Int] /\ \A x \in Std : refcnt'[x] = refcnt[x]
    BY Zenon, <1>1, <1>2, <2>1, <2>2, <2>3
  <2>5. kfd' \in [File -> Int] /\ \A x \in Std : kfd'[x] = kfd[x]
    BY <1>1, <2>1, <2>2, <2>3
  <2> QED
    BY <2>4, <2>5
<1>5. pc' = "elf_init" => f' \in File /\ f' > 2 /\ kfd'[f'] = 3
  BY <1>1, <1>2, <1>3 DEF FilesInv
<1> HIDE DEF File, Std
<1> QED
  BY Zenon, <1>2, <1>4, <1>5 DEF FilesInv

\* spike_file_close finds no descriptor of the program.
LEMMA LoadDoneStep ==
    ASSUME FilesInv, LoadDone PROVE FilesInv'
<1> USE LoaderAssumption DEF File, Std, NoFile
<1>1. /\ pc = "elf_load" /\ pc' = "loaded" /\ kfd' = kfd
      /\ f \in File /\ f > 2 /\ kfd[f] = 3 /\ 3 \in File
  BY DEF LoadDone, FilesInv
<1>2. spike_fds' = spike_fds
  BY <1>1 DEF LoadDone, FilesInv
<1>3. refcnt' = [refcnt EXCEPT ![f] = Decref(refcnt[f])]
  <2>1. spike_fds[3] = NoFile /\ NoFile # f
    BY <1>1 DEF FilesInv
  <2> HIDE DEF File, NoFile
  <2>2. spike_fds[kfd[f]] # f
    BY <1>1, <2>1
  <2>3. refcnt' = [refcnt EXCEPT ![f] =
          IF spike_fds[kfd[f]] = f THEN Decref(Decref(refcnt[f])) ELSE Decref(refcnt[f])]
    BY DEF LoadDone
  <2> QED
    BY <2>2, <2>3
<1>4. Decref(refcnt[f]) \in Int
  <2>1. refcnt[f] \in Int
    BY Zenon, <1>1 DEF FilesInv
  <2>2. \A m \in Int : Decref(m) \in Int
    BY DEF Decref
  <2> QED
    BY Zenon, <2>1, <2>2
<1>5. \A x \in Std : x # f
  BY <1>1
<1>6. refcnt \in [File -> Int] /\ Std \subseteq File
  BY <1>1 DEF FilesInv
<1> HIDE DEF File, Std
<1>7. refcnt' \in [File -> Int] /\ \A x \in Std : refcnt'[x] = refcnt[x]
  BY <1>1, <1>3, <1>4, <1>5, <1>6
<1> QED
  BY Zenon, <1>1, <1>2, <1>6, <1>7 DEF FilesInv

\* From spike_file_init on, stdin, stdout and stderr stay live in the slots
\* that their macros name, whatever is opened and closed.
THEOREM BootStdFilesKept == Spec => []StdFilesKept
<1> USE LoaderAssumption
<1>1. Init => FilesInv
  BY DEF Init, LoadInit, FilesInv, File, Std, NoFile
<1>2. FilesInv /\ [Next]_vars => FilesInv'
  <2> SUFFICES ASSUME FilesInv, [Next]_vars PROVE FilesInv'
    OBVIOUS
  <2>1. CASE SetUpFiles
    BY <2>1, SpikeFileInitStep DEF SetUpFiles
  <2>2. CASE Open \/ OpenFails
    BY <2>2, OpenSteps
  <2>3. CASE LoadDone
    BY Zenon, <2>3, LoadDoneStep
  <2>4. CASE UNCHANGED <<kfd, refcnt, spike_fds, f, i, pc>>
    BY Zenon, <2>4 DEF FilesInv
  <2>5. CASE /\ UNCHANGED <<kfd, refcnt, spike_fds, f>>
             /\ pc # "m_start" /\ pc' # "m_start"
             /\ pc' \in {"elf_init", "elf_load"} => pc \in {"elf_init", "elf_load"}
    BY Zenon, <2>5 DEF FilesInv
  <2>6. LoadNext => \/ Open \/ OpenFails \/ LoadDone
                    \/ /\ UNCHANGED <<kfd, refcnt, spike_fds, f>>
                       /\ pc # "m_start" /\ pc' # "m_start"
                       /\ pc' \in {"elf_init", "elf_load"} => pc \in {"elf_init", "elf_load"}
    BY DEF LoadNext, NoArgument, ElfInit, LoadPanic, SkipHeader, LoadSegment, SegmentPanic
  <2>7. CASE LoadProgram \/ LoadStops
    BY <2>7, <2>2, <2>3, <2>5, <2>6 DEF LoadProgram, LoadStops, LoadNext
  <2>8. CASE PmmInit \/ PmmInitDone \/ KernVmInit \/ LoadUserProgram
    BY Zenon, <2>8, <2>5 DEF PmmInit, LoadPanic, Goes, PmmInitDone, KernVmInit, LoadUserProgram
  <2> QED
    BY Zenon, <2>1, <2>4, <2>7, <2>8
       DEF Next, vars, loadVars, InitDtb, MStart, MTimer, FillCache, TakePage
<1>3. FilesInv => StdFilesKept
  BY Zenon DEF FilesInv, StdFilesKept
<1> QED
  BY <1>1, <1>2, <1>3, PTL DEF Spec
-----------------------------------------------------------------------------
(* The first process: its page table and its regions. *)

Early   == {"m_start", "booting", "pmm_init", "kern_vm_init", "alloc_process"}
Loading == {"load_program", "elf_init", "elf_load", "loaded"}

RegionSet == [va : Int, npages : Int,
              seg_type : {"STACK", "CONTEXT", "SYSTEM", "HEAP", "CODE", "DATA"}]

\* No page has two regions, and the page of a region is mapped.
RegionsOK(info, table) ==
    /\ info \in Seq(RegionSet)
    /\ \A j, k \in 1 .. Len(info) : info[j].va = info[k].va => j = k
    /\ \A k \in 1 .. Len(info) : info[k].va \in Pages => table[info[k].va] # NoFrame

\* Every mapped page has a region.
AllRecorded(info, table) ==
    \A v \in Pages : table[v] # NoFrame => \E k \in 1 .. Len(info) : info[k].va = v

\* Header k is loaded into frame k, and its region is recorded.
IsLoaded(k, info, table) ==
    /\ table[elf[k].va] = k
    /\ \E r \in 1 .. Len(info) :
         info[r] = Region(elf[k].va, 1, IF elf[k].kind = "rx" THEN "CODE" ELSE "DATA")

\* mapped_info has room for the regions of the headers to come.
RoomInv ==
    /\ Len(elf) <= PhBound
    /\ pc \in {"load_program", "elf_init"} => Len(mapped_info) = 4
    /\ pc = "elf_load" => /\ i \in Nat /\ i > 0
                          /\ Len(mapped_info) \in Nat /\ Len(mapped_info) <= i + 3

LEMMA RoomStep == RoomInv /\ [Next]_vars => RoomInv'
<1> SUFFICES ASSUME RoomInv, [Next]_vars PROVE RoomInv'
  OBVIOUS
<1> USE LoaderAssumption
<1>1. CASE UNCHANGED loadVars
  BY <1>1 DEF loadVars, RoomInv
<1>2. CASE NoArgument \/ OpenFails \/ SegmentPanic \/ LoadDone \/ (ElfInit /\ LoadPanic)
  BY <1>2 DEF NoArgument, OpenFails, SegmentPanic, LoadDone, LoadPanic, RoomInv
<1>3. CASE Open
  <2>1. PICK n \in 0 .. PhBound : elf' \in [1 .. n -> Headers]
    BY Zenon, <1>3 DEF Open
  <2>2. Len(elf') = n
    BY <2>1
  <2> QED
    BY <1>3, <2>2 DEF Open, RoomInv
<1>4. CASE ElfInit /\ ~LoadPanic
  <2>1. /\ pc = "elf_init" /\ pc' = "elf_load" /\ i' = 1
        /\ elf' = elf /\ mapped_info' = mapped_info
    BY Zenon, <1>4 DEF ElfInit
  <2>2. Len(mapped_info') = 4
    BY Zenon, <2>1 DEF RoomInv
  <2>3. Len(elf') <= PhBound
    BY Zenon, <2>1 DEF RoomInv
  <2> QED
    BY <2>1, <2>2, <2>3 DEF RoomInv
<1>5. CASE SkipHeader
  BY <1>5 DEF SkipHeader, RoomInv
<1>6. CASE LoadSegment
  <2>1. /\ pc = "elf_load" /\ pc' = pc /\ i' = i + 1 /\ elf' = elf
        /\ i \in Nat /\ i > 0 /\ Len(mapped_info) \in Nat /\ Len(mapped_info) <= i + 3
    BY <1>6 DEF LoadSegment, RoomInv
  <2>2. SeekRegion \in Nat /\ SeekRegion <= Len(mapped_info) + 1
    BY <2>1 DEF SeekRegion
  <2>3. PICK info : mapped_info' = [k \in 1 .. SeekRegion |-> info[k]]
    <3>1. mapped_info' = [k \in 1 .. SeekRegion |->
                             IF k = SeekRegion THEN Region(Ph.va, 1, SegType(Ph))
                             ELSE mapped_info[k]]
      BY Zenon, <1>6 DEF LoadSegment
    <3>2. mapped_info' = [k \in 1 .. SeekRegion |-> mapped_info'[k]]
      BY Zenon, <3>1
    <3> QED
      BY Zenon, <3>2
  <2>4. Len(mapped_info') = SeekRegion
    BY <2>2, <2>3
  <2> QED
    BY <2>1, <2>2, <2>4 DEF RoomInv
<1>7. CASE LoadUserProgram
  <2>1. pc' = "load_program" /\ elf' = elf /\ Len(mapped_info') = 4
    BY <1>7 DEF LoadUserProgram, AllocProcess, FirstRegions
  <2> QED
    BY <2>1 DEF RoomInv
<1>8. CASE SetUpFiles \/ PmmInit \/ PmmInitDone \/ KernVmInit
  <2>1. elf' = elf /\ pc' \notin {"load_program", "elf_init", "elf_load"}
    BY Zenon, <1>8 DEF SetUpFiles, SpikeFileInit, PmmInit, LoadPanic, Goes, PmmInitDone, KernVmInit
  <2> QED
    BY <2>1 DEF RoomInv
<1>9. CASE InitDtb \/ MStart \/ MTimer \/ FillCache \/ TakePage \/ UNCHANGED vars
  <2>1. UNCHANGED loadVars
    BY <1>9 DEF vars, InitDtb, MStart, MTimer, FillCache, TakePage
  <2> QED
    BY Zenon, <1>1, <2>1
<1>10. LoadNext => RoomInv'
  BY Zenon, <1>2, <1>3, <1>4, <1>5, <1>6 DEF LoadNext
<1>11. CASE LoadProgram \/ LoadStops
  BY <1>10, <1>11 DEF LoadProgram, LoadStops, LoadNext
<1> QED
  BY Zenon, <1>7, <1>8, <1>9, <1>11 DEF Next

LoadInv ==
    /\ pt \in [Pages -> Int] /\ elf \in Seq(Headers)
    /\ pc \in Early => \A v \in Pages : pt[v] = NoFrame
    /\ pc \in Loading =>
         /\ RegionsOK(mapped_info, pt)
         /\ total_mapped_region = Len(mapped_info)
         /\ pc \in {"load_program", "elf_init"} \/ Aligned => AllRecorded(mapped_info, pt)
    /\ pc \in {"elf_load", "loaded"} =>
         /\ i \in Nat /\ i > 0
         /\ \A k \in 1 .. Len(elf) : k < i /\ elf[k].load => IsLoaded(k, mapped_info, pt)
    /\ pc = "loaded" => i > Len(elf)

\* alloc_process maps the stack and records it with the three other regions.
LEMMA AllocProcessStep ==
    ASSUME LoadInv, LoadUserProgram PROVE LoadInv'
<1> USE LoaderAssumption
<1>1. /\ pc = "alloc_process" /\ pc' = "load_program" /\ elf' = elf
      /\ mapped_info' = FirstRegions /\ total_mapped_region' = 4
      /\ pt' = [pt EXCEPT ![StackPage] = 0]
  BY DEF LoadUserProgram, AllocProcess
<1>2. /\ FirstRegions \in Seq(RegionSet) /\ Len(FirstRegions) = 4
      /\ FirstRegions[1].va = StackPage /\ FirstRegions[2].va = LastPage + 1
      /\ FirstRegions[3].va = LastPage + 2 /\ FirstRegions[4].va = LastPage + 3
  BY DEF FirstRegions, Region, RegionSet
<1>3. /\ pt' \in [Pages -> Int] /\ pt'[StackPage] = 0 /\ StackPage \in Pages
      /\ \A v \in Pages : v # StackPage => pt'[v] = NoFrame
  BY <1>1 DEF LoadInv, Early, Pages
<1>4. \A k \in 1 .. 4 : k = 1 \/ k = 2 \/ k = 3 \/ k = 4
  OBVIOUS
<1>5. RegionsOK(FirstRegions, pt') /\ AllRecorded(FirstRegions, pt')
  <2> DEFINE R == FirstRegions
  <2>1. /\ R[1].va \in Pages /\ R[2].va \notin Pages
        /\ R[3].va \notin Pages /\ R[4].va \notin Pages
    BY <1>2 DEF Pages
  <2>2. /\ R[1].va # R[2].va /\ R[1].va # R[3].va /\ R[1].va # R[4].va
        /\ R[2].va # R[3].va /\ R[2].va # R[4].va /\ R[3].va # R[4].va
    BY <1>2
  <2>3. 0 # NoFrame /\ 1 \in 1 .. 4
    BY DEF NoFrame
  <2>4. \A j, k \in 1 .. 4 : R[j].va = R[k].va => j = k
    <3> SUFFICES ASSUME NEW j \in 1 .. 4, NEW k \in 1 .. 4, R[j].va = R[k].va
                 PROVE  j = k
      BY Zenon
    <3>1. k = 1 \/ k = 2 \/ k = 3 \/ k = 4
      BY Zenon, <1>4
    <3>2. CASE j = 1
      BY Zenon, <2>2, <3>1, <3>2
    <3>3. CASE j = 2
      BY Zenon, <2>2, <3>1, <3>3
    <3>4. CASE j = 3
      BY Zenon, <2>2, <3>1, <3>4
    <3>5. CASE j = 4
      BY Zenon, <2>2, <3>1, <3>5
    <3> QED
      BY Zenon, <1>4, <3>2, <3>3, <3>4, <3>5
  <2>5. \A k \in 1 .. 4 : R[k].va \in Pages => pt'[R[k].va] # NoFrame
    <3>1. pt'[R[1].va] # NoFrame
      BY Zenon, <1>2, <1>3, <2>3
    <3> QED
      BY Zenon, <1>4, <2>1, <3>1
  <2>6. \A v \in Pages : pt'[v] # NoFrame => R[1].va = v
    BY Zenon, <1>2, <1>3
  <2> HIDE DEF R
  <2> QED
    BY Zenon, <1>2, <2>3, <2>4, <2>5, <2>6 DEF RegionsOK, AllRecorded, R
<1> QED
  BY Zenon, <1>1, <1>2, <1>3, <1>5 DEF LoadInv, Early, Loading

\* A segment is mapped over free pages and recorded behind the last region.
LEMMA LoadSegmentStep ==
    ASSUME LoadInv, RoomInv, LoadSegment PROVE LoadInv'
<1> USE LoaderAssumption
<1> DEFINE n == Len(mapped_info)
           r == Region(Ph.va, 1, SegType(Ph))
           a == Ph.va
<1>1. /\ pc = "elf_load" /\ pc' = pc /\ elf' = elf /\ i' = i + 1
      /\ i \in Nat /\ i > 0 /\ i <= Len(elf) /\ Ph.load /\ Mappable(Ph)
      /\ Ph.kind \in {"rx", "rw"}
      /\ mapped_info \in Seq(RegionSet) /\ n \in Nat /\ total_mapped_region = n
      /\ total_mapped_region' = n + 1
  BY DEF LoadSegment, LoadInv, Loading, RegionsOK
<1>2. Ph \in Headers /\ a \in Pages /\ a + 1 \in Pages /\ a \in PagesOf(Ph)
      /\ PagesOf(Ph) \subseteq {a, a + 1} /\ (~Ph.mis => PagesOf(Ph) = {a})
  <2>1. Ph \in Headers
    <3>1. elf \in Seq(Headers) /\ i \in 1 .. Len(elf)
      BY <1>1 DEF LoadInv
    <3> QED
      BY <3>1 DEF Ph
  <2>2. a \in Nat /\ a < LastPage /\ LastPage \in Nat
    BY Zenon, <2>1
  <2>3. a \in Pages /\ a + 1 \in Pages
    BY <2>2 DEF Pages
  <2>4. a \in PagesOf(Ph) /\ PagesOf(Ph) \subseteq {a, a + 1} /\ (~Ph.mis => PagesOf(Ph) = {a})
    BY Zenon DEF PagesOf
  <2> QED
    BY Zenon, <2>1, <2>3, <2>4
<1>3. /\ pt' = [v \in Pages |-> IF v = a THEN i
                                ELSE IF v \in PagesOf(Ph) THEN Behind ELSE pt[v]]
      /\ mapped_info' = [k \in 1 .. n + 1 |-> IF k = n + 1 THEN r ELSE mapped_info[k]]
  <2>1. Len(elf) \in Nat
    BY DEF LoadInv
  <2>2. SeekRegion = n + 1
    <3>1. Len(elf) <= PhBound /\ n <= i + 3
      BY Zenon, <1>1 DEF RoomInv
    <3>2. n < MAX_REGIONS
      <4> HIDE DEF LoadInv, RoomInv, n
      <4> QED
        BY <1>1, <2>1, <3>1
    <3> QED
      BY Zenon, <3>2 DEF SeekRegion
  <2> QED
    BY Zenon, <2>2 DEF LoadSegment
<1>4. r \in RegionSet /\ r.va = a
  BY <1>2 DEF Region, RegionSet, SegType, Pages
<1> HIDE DEF r
<1>5. /\ mapped_info' \in Seq(RegionSet) /\ Len(mapped_info') = n + 1
      /\ mapped_info'[n + 1] = r
      /\ \A k \in 1 .. n : mapped_info'[k] = mapped_info[k]
  BY <1>1, <1>3, <1>4
<1>6. pt' \in [Pages -> Int] /\ \A v \in Pages : pt'[v] # NoFrame <=> v \in PagesOf(Ph) \/ pt[v] # NoFrame
  BY <1>1, <1>2, <1>3 DEF LoadInv, NoFrame, Behind
<1>7. pt[a] = NoFrame /\ \A v \in PagesOf(Ph) : pt[v] = NoFrame
  BY Zenon, <1>1, <1>2 DEF Mappable
<1>8. \A k \in 1 .. n : mapped_info[k].va # a
  BY Zenon, <1>1, <1>2, <1>7 DEF LoadInv, Loading, RegionsOK
<1>9. RegionsOK(mapped_info', pt')
  <2>1. \A j, k \in 1 .. n + 1 : mapped_info'[j].va = mapped_info'[k].va => j = k
    <3>1. \A j, k \in 1 .. n : mapped_info[j].va = mapped_info[k].va => j = k
      BY <1>1 DEF LoadInv, Loading, RegionsOK
    <3>2. \A k \in 1 .. n + 1 : k = n + 1 \/ k \in 1 .. n
      BY <1>1
    <3> SUFFICES ASSUME NEW j \in 1 .. n + 1, NEW k \in 1 .. n + 1,
                        mapped_info'[j].va = mapped_info'[k].va
                 PROVE  j = k
      OBVIOUS
    <3> HIDE DEF n, a
    <3>3. CASE j \in 1 .. n /\ k \in 1 .. n
      BY Zenon, <1>5, <3>1, <3>3
    <3>4. CASE j = n + 1 /\ k \in 1 .. n
      BY <1>4, <1>5, <1>8, <3>4
    <3>5. CASE j \in 1 .. n /\ k = n + 1
      BY <1>4, <1>5, <1>8, <3>5
    <3> QED
      BY Zenon, <3>2, <3>3, <3>4, <3>5
  <2>2. \A k \in 1 .. n + 1 : mapped_info'[k].va \in Pages => pt'[mapped_info'[k].va] # NoFrame
    <3>1. \A k \in 1 .. n : mapped_info[k].va \in Pages => pt[mapped_info[k].va] # NoFrame
      BY <1>1 DEF LoadInv, Loading, RegionsOK
    <3> SUFFICES ASSUME NEW k \in 1 .. n + 1, mapped_info'[k].va \in Pages
                 PROVE  pt'[mapped_info'[k].va] # NoFrame
      OBVIOUS
    <3>2. k = n + 1 \/ k \in 1 .. n
      BY <1>1
    <3> HIDE DEF n, a
    <3>3. CASE k = n + 1
      BY Zenon, <1>2, <1>4, <1>5, <1>6, <3>3
    <3>4. CASE k \in 1 .. n
      BY Zenon, <1>5, <1>6, <3>1, <3>4
    <3> QED
      BY <3>2, <3>3, <3>4
  <2> QED
    BY <1>5, <2>1, <2>2 DEF RegionsOK
<1>10. ASSUME Aligned' PROVE AllRecorded(mapped_info', pt')
  <2>1. Aligned /\ ~Ph.mis
    BY <1>1, <1>10 DEF Aligned, Ph, LoadInv
  <2>2. PagesOf(Ph) = {a} /\ AllRecorded(mapped_info, pt)
    BY Zenon, <1>1, <1>2, <2>1 DEF LoadInv, Loading
  <2>3. ASSUME NEW v \in Pages, pt'[v] # NoFrame
        PROVE  \E k \in 1 .. n + 1 : mapped_info'[k].va = v
    <3>1. CASE v = a
      BY <1>1, <1>4, <1>5, <3>1
    <3>2. CASE v # a
      <4>1. PICK k \in 1 .. n : mapped_info[k].va = v
        BY Zenon, <1>6, <2>2, <2>3, <3>2 DEF AllRecorded
      <4> QED
        BY <1>1, <1>5, <4>1
    <3> QED
      BY Zenon, <3>1, <3>2
  <2> QED
    BY Zenon, <1>5, <2>3 DEF AllRecorded
<1>11. ASSUME NEW k \in 1 .. Len(elf), k < i + 1, elf[k].load
       PROVE  IsLoaded(k, mapped_info', pt')
  <2>1. CASE k = i
    <3>1. pt'[elf[k].va] = k
      BY Zenon, <1>2, <1>3, <2>1 DEF Ph
    <3>2. r = Region(elf[k].va, 1, IF elf[k].kind = "rx" THEN "CODE" ELSE "DATA")
      BY Zenon, <2>1 DEF r, SegType, Ph
    <3> QED
      BY <1>1, <1>5, <3>1, <3>2 DEF IsLoaded
  <2>2. CASE k < i
    <3>1. IsLoaded(k, mapped_info, pt)
      BY Zenon, <1>1, <1>11, <2>2 DEF LoadInv
    <3>2. elf[k].va \in Pages /\ pt[elf[k].va] = k /\ k # NoFrame
      BY <3>1 DEF IsLoaded, LoadInv, Pages, NoFrame
    <3>3. pt'[elf[k].va] = k
      BY Zenon, <1>2, <1>3, <1>7, <3>2
    <3>4. PICK q \in 1 .. n :
            mapped_info[q] = Region(elf[k].va, 1, IF elf[k].kind = "rx" THEN "CODE" ELSE "DATA")
      BY Zenon, <3>1 DEF IsLoaded
    <3> QED
      BY <1>1, <1>5, <3>3, <3>4 DEF IsLoaded
  <2> QED
    BY <1>1, <1>11, <2>1, <2>2
<1>12. \A k \in 1 .. Len(elf') : k < i' /\ elf'[k].load => IsLoaded(k, mapped_info, pt)'
  BY ZenonT(60), <1>1, <1>11 DEF IsLoaded
<1> HIDE DEF n
<1>13. pc' \notin Early /\ pc' # "loaded" /\ i' \in Nat /\ i' > 0
  BY <1>1 DEF Early
<1>14. elf' \in Seq(Headers) /\ total_mapped_region' = Len(mapped_info')
  BY Zenon, <1>1, <1>5 DEF LoadInv
<1>15. pc' \in {"load_program", "elf_init"} \/ Aligned' => AllRecorded(mapped_info', pt')
  BY <1>1, <1>10 DEF Aligned
<1> QED
  BY Zenon, <1>6, <1>9, <1>12, <1>13, <1>14, <1>15 DEF LoadInv

\* The other steps of the loader leave the table and the regions alone.
LEMMA LoaderSteps ==
    ASSUME LoadInv, RoomInv, LoadNext PROVE LoadInv'
<1> USE LoaderAssumption
<1>1. CASE NoArgument \/ OpenFails \/ SegmentPanic \/ (ElfInit /\ LoadPanic)
  BY <1>1 DEF NoArgument, OpenFails, SegmentPanic, LoadPanic, LoadInv, Loading, Early
<1>2. CASE Open
  <2>1. elf' \in Seq(Headers)
    BY <1>2 DEF Open
  <2> QED
    BY <1>2, <2>1 DEF Open, LoadInv, Loading, Early
<1>3. CASE ElfInit /\ ~LoadPanic
  BY <1>3 DEF ElfInit, LoadInv, Loading, Early, Aligned, IsLoaded
<1>4. CASE SkipHeader
  <2>1. /\ pc = "elf_load" /\ i' = i + 1 /\ i \in Nat /\ ~elf[i].load
        /\ UNCHANGED <<pc, elf, mapped_info, total_mapped_region, pt>>
    BY <1>4 DEF SkipHeader, LoadInv, Ph
  <2> QED
    BY <2>1 DEF LoadInv, Loading, Early, Aligned, IsLoaded
<1>5. CASE LoadSegment
  BY <1>5, LoadSegmentStep
<1>6. CASE LoadDone
  BY ZenonT(60), <1>6 DEF LoadDone, LoadInv, Loading, Early, Aligned, IsLoaded
<1> QED
  BY Zenon, <1>1, <1>2, <1>3, <1>4, <1>5, <1>6 DEF LoadNext

\* The invariant of the loader holds through the whole boot.
LEMMA LoadInvAlways == Spec => []LoadInv
<1> USE LoaderAssumption
<1>1. Init => LoadInv
  BY DEF Init, LoadInit, LoadInv, Early, Loading, NoFrame
<1>2. LoadInv /\ RoomInv /\ [Next]_vars => LoadInv'
  <2> SUFFICES ASSUME LoadInv, RoomInv, [Next]_vars PROVE LoadInv'
    OBVIOUS
  <2>1. CASE UNCHANGED loadVars
    BY Zenon, <2>1 DEF loadVars, LoadInv, Aligned, IsLoaded
  <2>2. CASE LoadProgram \/ LoadStops
    BY <2>2, LoaderSteps DEF LoadProgram, LoadStops, LoadNext
  <2>3. CASE LoadUserProgram
    BY Zenon, <2>3, AllocProcessStep
  <2>4. CASE SetUpFiles \/ PmmInit \/ PmmInitDone \/ KernVmInit
    <3>1. UNCHANGED <<pt, elf>> /\ pc \in Early /\ pc' \in Early \cup {"panic"}
      BY Zenon, <2>4 DEF SetUpFiles, SpikeFileInit, PmmInit, LoadPanic, Goes, PmmInitDone, KernVmInit, Early
    <3> QED
      BY <3>1 DEF LoadInv, Early, Loading
  <2>5. CASE InitDtb \/ MStart \/ MTimer \/ FillCache \/ TakePage \/ UNCHANGED vars
    <3>1. UNCHANGED loadVars
      BY <2>5 DEF vars, InitDtb, MStart, MTimer, FillCache, TakePage
    <3> QED
      BY Zenon, <2>1, <3>1
  <2> QED
    BY Zenon, <2>2, <2>3, <2>4, <2>5 DEF Next
<1>3. Init => RoomInv
  BY DEF Init, LoadInit, RoomInv
<1> QED
  BY <1>1, <1>2, <1>3, RoomStep, PTL DEF Spec

\* The regions recorded for a program whose segments begin at pages are what
\* its page table maps, at every turn of elf_load.
THEOREM BootTableMatchesRegions == Spec => []TableMatchesRegions
<1>1. LoadInv => TableMatchesRegions
  <2> SUFFICES ASSUME LoadInv, pc \in Loading, Aligned
               PROVE  /\ total_mapped_region = Len(mapped_info)
                      /\ \A v \in Pages : pt[v] # NoFrame <=>
                            Cardinality({k \in DOMAIN mapped_info : mapped_info[k].va = v}) = 1
    BY Zenon DEF TableMatchesRegions, Loading
  <2>1. /\ RegionsOK(mapped_info, pt) /\ AllRecorded(mapped_info, pt)
        /\ total_mapped_region = Len(mapped_info)
        /\ DOMAIN mapped_info = 1 .. Len(mapped_info)
    BY DEF LoadInv, RegionsOK
  <2>2. ASSUME NEW v \in Pages
        PROVE  pt[v] # NoFrame <=>
                 Cardinality({k \in DOMAIN mapped_info : mapped_info[k].va = v}) = 1
    <3> DEFINE ks == {k \in DOMAIN mapped_info : mapped_info[k].va = v}
    <3>1. CASE pt[v] # NoFrame
      <4>1. PICK k \in 1 .. Len(mapped_info) : mapped_info[k].va = v
        BY Zenon, <2>1, <3>1 DEF AllRecorded
      <4>2. ks = {k}
        BY Zenon, <2>1, <4>1 DEF RegionsOK
      <4> QED
        BY Zenon, <3>1, <4>2, FS_Singleton
    <3>2. CASE pt[v] = NoFrame
      <4>1. ks = {}
        BY Zenon, <2>1, <3>2 DEF RegionsOK
      <4> QED
        BY <3>2, <4>1, FS_EmptySet
    <3> QED
      BY <3>1, <3>2
  <2> QED
    BY Zenon, <2>1, <2>2
<1> QED
  BY <1>1, LoadInvAlways, PTL

\* A program that was loaded has every LOAD segment of its file, each in a
\* frame of its own and with the right type, and no page twice.
THEOREM BootEverySegmentLoaded == Spec => []EverySegmentLoaded
<1>1. LoadInv => EverySegmentLoaded
  <2> SUFFICES ASSUME LoadInv, pc = "loaded", NEW k \in DOMAIN elf, elf[k].load
               PROVE  /\ pt[elf[k].va] = k
                      /\ \E r \in DOMAIN mapped_info : mapped_info[r] =
                           Region(elf[k].va, 1, IF elf[k].kind = "rx" THEN "CODE" ELSE "DATA")
    BY Zenon DEF EverySegmentLoaded
  <2>1. k \in 1 .. Len(elf) /\ k < i /\ mapped_info \in Seq(RegionSet)
    BY DEF LoadInv, Loading, RegionsOK
  <2> QED
    BY <2>1 DEF LoadInv, IsLoaded
<1> QED
  BY <1>1, LoadInvAlways, PTL
-----------------------------------------------------------------------------
(* The pages that the kernel takes while it boots. *)

\* The slots that hold pages for alloc_page: those filled so far, and those
\* below the count once pmm_init is done.
LiveSlot(s) == IF fill < PCPU_CACHE_SIZE THEN s < fill ELSE s < count[0]
Slots       == 0 .. PCPU_CACHE_SIZE - 1
InSlot(p)   == \E s \in Slots : LiveSlot(s) /\ objs[0][s] = p

CacheType ==
    /\ objs \in [{0} -> [Slots -> Nat \cup {NoFrame}]]
    /\ count \in [{0} -> 0 .. PCPU_CACHE_SIZE] /\ fill \in 0 .. PCPU_CACHE_SIZE
    /\ got \in [{0} -> Nat \cup {NoFrame}]
    /\ cpu \in [{0} -> {"off", "call", "pop", "store", "idle", "wholesale", "retail", "panic"}]
    /\ out \in [DOMAIN out -> {0, 1}] /\ DOMAIN out \subseteq Nat /\ buddy \subseteq DOMAIN out

\* Every page is in one place, and no two live slots hold the same page.
PlacesInv ==
    /\ \A s \in Slots : LiveSlot(s) => objs[0][s] \in DOMAIN out
    /\ \A s, r \in Slots : LiveSlot(s) /\ LiveSlot(r) /\ objs[0][s] = objs[0][r] => s = r
    /\ \A p \in DOMAIN out :
         /\ p \in buddy \/ got[0] = p \/ InSlot(p) \/ out[p] = 1
         /\ p \in buddy => got[0] # p /\ ~InSlot(p) /\ out[p] = 0
         /\ got[0] = p => ~InSlot(p) /\ out[p] = 0
         /\ InSlot(p) => out[p] = 0

\* Nothing is handed out before the cache is full, and nothing is there
\* before pmm_init.
PhaseInv ==
    /\ pc \in {"m_start", "booting"} =>
         fill = 0 /\ got[0] = NoFrame /\ count[0] = 0 /\ cpu[0] = "off"
    /\ fill < PCPU_CACHE_SIZE =>
         /\ cpu[0] \in {"off", "call", "pop", "store", "panic"} /\ count[0] = 0
         /\ \A p \in DOMAIN out : out[p] = 0
    /\ cpu[0] = "store" <=> got[0] # NoFrame
    /\ got[0] # NoFrame => got[0] \in DOMAIN out

CacheInv == CacheType /\ PlacesInv /\ PhaseInv

\* Nothing is there before pmm_init.
LEMMA CacheInvInit == Init => CacheInv
  BY BootAssumption
  DEF Init, LoadInit, CacheInit, CacheInv, CacheType, PlacesInv, PhaseInv, InSlot, LiveSlot,
      Slots, NoFrame

\* pmm_init gives what lies behind the kernel to the buddy system.
LEMMA PmmInitStep ==
    ASSUME CacheInv, g_mem_size \in Nat, PmmInit PROVE CacheInv'
<1> USE BootAssumption
<1> DEFINE m == IF PKE_MAX_ALLOWABLE_RAM < g_mem_size THEN PKE_MAX_ALLOWABLE_RAM ELSE g_mem_size
<1>1. m \in Nat
  BY Zenon
<1>2. CASE m < KernelSize
  <2>1. UNCHANGED cacheVars /\ pc' = "panic"
    BY Zenon, <1>2 DEF PmmInit, LoadPanic, cacheVars
  <2> QED
    BY Zenon, <2>1 DEF cacheVars, CacheInv, CacheType, PlacesInv, PhaseInv, InSlot, LiveSlot
<1>3. CASE ~(m < KernelSize)
  <2>1. /\ buddy' = 1 .. (m - KernelSize) * UNIT /\ out' = [p \in buddy' |-> 0]
        /\ cpu' = [cpu EXCEPT ![0] = "call"] /\ pc = "booting" /\ pc' = "pmm_init"
        /\ UNCHANGED <<objs, count, locked, got, left, fill>>
    BY Zenon, <1>3 DEF PmmInit, Goes
  <2>2. buddy' \subseteq Nat /\ DOMAIN out' = buddy' /\ \A p \in buddy' : out'[p] = 0
    BY <1>1, <2>1
  <2>3. fill = 0 /\ got[0] = NoFrame /\ count[0] = 0 /\ cpu'[0] = "call"
    BY Zenon, <2>1 DEF CacheInv, PhaseInv, CacheType
  <2>4. CacheType'
    BY Zenon, <2>1, <2>2 DEF CacheInv, CacheType
  <2>5. \A s \in Slots : ~LiveSlot(s)'
    <3>1. \A s \in Slots : ~(s < 0)
      BY DEF Slots
    <3>2. fill' = 0 /\ count'[0] = 0
      BY Zenon, <2>1, <2>3
    <3> QED
      BY Zenon, <3>1, <3>2 DEF LiveSlot
  <2>6. PlacesInv'
    <3>1. NoFrame \notin Nat
      BY DEF NoFrame
    <3>2. \A p : ~InSlot(p)'
      BY Zenon, <2>5 DEF InSlot
    <3>3. \A p \in DOMAIN out' : p \in buddy' /\ got'[0] # p /\ out'[p] = 0
      BY Zenon, <2>1, <2>2, <2>3, <3>1
    <3> QED
      BY Zenon, <2>5, <3>2, <3>3 DEF PlacesInv
  <2>7. PhaseInv'
    BY Zenon, <2>1, <2>2, <2>3 DEF PhaseInv
  <2> QED
    BY Zenon, <2>4, <2>6, <2>7 DEF CacheInv
<1> QED
  BY <1>2, <1>3

\* Steps that move no page.
LEMMA QuietCacheStep ==
    ASSUME CacheInv, UNCHANGED <<objs, count, buddy, fill, out, got>>,
           cpu' = [cpu EXCEPT ![0] = cpu'[0]],
           cpu'[0] \in {"call", "pop", "idle", "wholesale", "retail", "panic"},
           cpu[0] # "store",
           cpu'[0] \in {"wholesale", "retail", "idle"} => fill = PCPU_CACHE_SIZE,
           pc \notin {"m_start", "booting"}, pc' = pc
    PROVE  CacheInv'
<1>1. CacheType'
  BY Zenon DEF CacheInv, CacheType
<1>2. PlacesInv'
  BY Zenon DEF CacheInv, PlacesInv, InSlot, LiveSlot
<1>3. PhaseInv'
  BY BootAssumption DEF CacheInv, PhaseInv, CacheType
<1> QED
  BY Zenon, <1>1, <1>2, <1>3 DEF CacheInv

\* buddy_alloc(0) takes a page out of the buddy system.
LEMMA PopCacheStep ==
    ASSUME CacheInv, Cache!BuddyPop(0), pc' = pc, pc = "pmm_init"
    PROVE  CacheInv'
<1> USE BootAssumption
<1>1. PICK p \in buddy : buddy' = buddy \ {p} /\ got' = [got EXCEPT ![0] = p]
  BY ZenonT(60) DEF Cache!BuddyPop, Cache!ListPop
<1>2. /\ cpu[0] = "pop" /\ cpu' = [cpu EXCEPT ![0] = "store"]
      /\ UNCHANGED <<objs, count, left, fill, out>>
  BY Zenon DEF Cache!BuddyPop, Cache!Goto
<1>3. p \in DOMAIN out /\ p \in Nat /\ p # NoFrame /\ got[0] = NoFrame /\ got'[0] = p
      /\ cpu'[0] = "store"
  BY <1>1, <1>2 DEF CacheInv, CacheType, PhaseInv, NoFrame
<1>4. CacheType'
  BY Zenon, <1>1, <1>2, <1>3 DEF CacheInv, CacheType
<1>5. PlacesInv'
  <2>1. \A q : InSlot(q)' <=> InSlot(q)
    BY Zenon, <1>2 DEF InSlot, LiveSlot
  <2>2. /\ \A s \in Slots : LiveSlot(s)' => objs'[0][s] \in DOMAIN out'
        /\ \A s, r \in Slots :
              LiveSlot(s)' /\ LiveSlot(r)' /\ objs'[0][s] = objs'[0][r] => s = r
    BY Zenon, <1>2 DEF CacheInv, PlacesInv, LiveSlot
  <2>3. ASSUME NEW q \in DOMAIN out
        PROVE  /\ q \in buddy' \/ got'[0] = q \/ InSlot(q)' \/ out'[q] = 1
               /\ q \in buddy' => got'[0] # q /\ ~InSlot(q)' /\ out'[q] = 0
               /\ got'[0] = q => ~InSlot(q)' /\ out'[q] = 0
               /\ InSlot(q)' => out'[q] = 0
    <3>1. q # NoFrame
      BY DEF CacheInv, CacheType, NoFrame
    <3> QED
      BY Zenon, <1>1, <1>2, <1>3, <2>1, <3>1 DEF CacheInv, PlacesInv
  <2> QED
    BY Zenon, <1>2, <2>2, <2>3 DEF PlacesInv
<1>6. PhaseInv'
  BY Zenon, <1>2, <1>3 DEF CacheInv, PhaseInv
<1> QED
  BY Zenon, <1>4, <1>5, <1>6 DEF CacheInv

\* pmm_init stores the page in the next slot.
LEMMA StoreCacheStep ==
    ASSUME CacheInv, Cache!BootStore(0), pc' = pc, pc = "pmm_init"
    PROVE  CacheInv'
<1> USE BootAssumption
<1> DEFINE C == PCPU_CACHE_SIZE
           g == got[0]
<1>1. /\ cpu[0] = "store" /\ fill \in 0 .. C - 1 /\ fill \in Slots
      /\ g \in DOMAIN out /\ g # NoFrame /\ g \in Nat /\ count[0] = 0
  BY DEF Cache!BootStore, Cache!Booting, Cache!Total, CacheInv, PhaseInv, CacheType, Slots
<1>2. fill \div C = 0 /\ fill % C = fill
  BY <1>1
<1>3. /\ objs' = [objs EXCEPT ![0][fill] = g]
      /\ count' = [count EXCEPT ![0] = IF fill = C - 1 THEN C ELSE @]
      /\ fill' = fill + 1 /\ got' = [got EXCEPT ![0] = NoFrame]
      /\ UNCHANGED <<buddy, locked, left, out>>
  BY Zenon, <1>2 DEF Cache!BootStore
<1>4. cpu' = IF fill + 1 < C THEN [cpu EXCEPT ![0] = "call"] ELSE [d \in 0 .. 0 |-> "idle"]
  BY DEF Cache!BootStore, Cache!Total, Cache!CPU
<1>5. /\ cpu' \in [{0} -> {"call", "idle"}] /\ (cpu'[0] = "idle" => fill + 1 = C)
      /\ got'[0] = NoFrame
  BY <1>1, <1>3, <1>4 DEF CacheInv, CacheType
<1>6. /\ count' \in [{0} -> 0 .. C] /\ count'[0] = (IF fill = C - 1 THEN C ELSE 0)
  BY <1>1, <1>3 DEF CacheInv, CacheType
<1>7. /\ objs' \in [{0} -> [Slots -> Nat \cup {NoFrame}]]
      /\ \A s \in Slots : objs'[0][s] = IF s = fill THEN g ELSE objs[0][s]
  BY Zenon, <1>1, <1>3 DEF CacheInv, CacheType
<1>8. \A s \in Slots : LiveSlot(s)' <=> LiveSlot(s) \/ s = fill
  BY <1>1, <1>3, <1>6 DEF LiveSlot, Slots
<1>9. \A s \in Slots : LiveSlot(s) => s # fill
  BY <1>1 DEF LiveSlot
<1>10. CacheType'
  BY <1>1, <1>3, <1>5, <1>6, <1>7 DEF CacheInv, CacheType
<1>11. \A p : InSlot(p)' <=> InSlot(p) \/ p = g
  BY Zenon, <1>1, <1>7, <1>8, <1>9 DEF InSlot
<1>12. ~InSlot(g)
  BY Zenon, <1>1 DEF CacheInv, PlacesInv
<1>13. PlacesInv'
  <2>1. \A s \in Slots : LiveSlot(s)' => objs'[0][s] \in DOMAIN out'
    BY Zenon, <1>1, <1>3, <1>7, <1>8 DEF CacheInv, PlacesInv
  <2>2. \A s, r \in Slots :
           LiveSlot(s)' /\ LiveSlot(r)' /\ objs'[0][s] = objs'[0][r] => s = r
    <3>1. \A s \in Slots : LiveSlot(s) => objs[0][s] # g
      BY Zenon, <1>12 DEF InSlot
    <3>2. \A s, r \in Slots :
             LiveSlot(s) /\ LiveSlot(r) /\ objs[0][s] = objs[0][r] => s = r
      BY Zenon DEF CacheInv, PlacesInv
    <3> SUFFICES ASSUME NEW s \in Slots, NEW r \in Slots, LiveSlot(s)', LiveSlot(r)',
                        objs'[0][s] = objs'[0][r]
                 PROVE  s = r
      BY Zenon
    <3>3. /\ LiveSlot(s) \/ s = fill
          /\ LiveSlot(r) \/ r = fill
      BY Zenon, <1>8
    <3>4. \A x \in Slots : x # fill => objs'[0][x] = objs[0][x]
      BY Zenon, <1>7
    <3>5. objs'[0][fill] = g
      BY Zenon, <1>1, <1>7
    <3>6. CASE s = fill
      BY Zenon, <3>1, <3>3, <3>4, <3>5, <3>6
    <3>7. CASE r = fill
      BY Zenon, <3>1, <3>3, <3>4, <3>5, <3>7
    <3>8. CASE s # fill /\ r # fill
      BY Zenon, <3>2, <3>3, <3>4, <3>8
    <3> QED
      BY Zenon, <3>6, <3>7, <3>8
  <2>3. \A p \in DOMAIN out' :
         /\ p \in buddy' \/ got'[0] = p \/ InSlot(p)' \/ out'[p] = 1
         /\ p \in buddy' => got'[0] # p /\ ~InSlot(p)' /\ out'[p] = 0
         /\ got'[0] = p => ~InSlot(p)' /\ out'[p] = 0
         /\ InSlot(p)' => out'[p] = 0
    <3>1. \A p \in DOMAIN out : p # NoFrame
      BY DEF CacheInv, CacheType, NoFrame
    <3> QED
      BY Zenon, <1>1, <1>3, <1>5, <1>11, <3>1 DEF CacheInv, PlacesInv
  <2> QED
    BY Zenon, <2>1, <2>2, <2>3 DEF PlacesInv
<1>14. PhaseInv'
  BY <1>1, <1>3, <1>5, <1>6 DEF CacheInv, PhaseInv
<1> QED
  BY Zenon, <1>10, <1>13, <1>14 DEF CacheInv

\* alloc_page hands out the page of the top slot.
LEMMA RetailCacheStep ==
    ASSUME CacheInv, Cache!Retail(0), pc' = pc, pc \notin {"m_start", "booting"}
    PROVE  CacheInv'
<1> USE BootAssumption
<1> DEFINE top == count[0] - 1
           p == objs[0][top]
<1>1. /\ cpu[0] = "retail" /\ count[0] \in 1 .. PCPU_CACHE_SIZE /\ top \in Slots
      /\ fill = PCPU_CACHE_SIZE /\ got[0] = NoFrame
  <2>1. cpu[0] = "retail" /\ count[0] \in 1 .. PCPU_CACHE_SIZE
    BY Zenon DEF Cache!Retail
  <2>2. fill \in 0 .. PCPU_CACHE_SIZE /\ ~(fill < PCPU_CACHE_SIZE) /\ got[0] = NoFrame
    BY Zenon, <2>1 DEF CacheInv, PhaseInv, CacheType
  <2> QED
    BY <2>1, <2>2 DEF Slots
<1>2. /\ out' = [out EXCEPT ![p] = @ + 1] /\ count' = [count EXCEPT ![0] = top]
      /\ cpu' = [cpu EXCEPT ![0] = "idle"]
      /\ UNCHANGED <<objs, buddy, locked, got, left, fill>>
  BY Zenon DEF Cache!Retail, Cache!Goto
<1>3. \A s \in Slots : LiveSlot(s) <=> s < count[0]
  BY <1>1 DEF LiveSlot
<1>4. count'[0] = top /\ \A s \in Slots : LiveSlot(s)' <=> s < top
  BY <1>1, <1>2 DEF LiveSlot, CacheInv, CacheType
<1>5. p \in DOMAIN out /\ InSlot(p) /\ out[p] = 0 /\ p \notin buddy /\ p # NoFrame
  BY <1>1, <1>3 DEF CacheInv, PlacesInv, InSlot, CacheType, NoFrame
<1> HIDE DEF p
<1>6. /\ DOMAIN out' = DOMAIN out /\ out'[p] = 1
      /\ \A q \in DOMAIN out : q # p => out'[q] = out[q]
  BY <1>2, <1>5 DEF CacheInv, CacheType
<1>7. CacheType'
  <2>1. out' \in [DOMAIN out' -> {0, 1}] /\ DOMAIN out' \subseteq Nat /\ buddy' \subseteq DOMAIN out'
    BY ZenonT(60), <1>2, <1>6 DEF CacheInv, CacheType
  <2>2. count' \in [{0} -> 0 .. PCPU_CACHE_SIZE]
    BY <1>1, <1>2 DEF CacheInv, CacheType
  <2> QED
    BY Zenon, <1>2, <2>1, <2>2 DEF CacheInv, CacheType
<1>8. \A q : InSlot(q)' <=> InSlot(q) /\ q # p
  <2>0. \A s \in Slots : s < top <=> s < count[0] /\ s # top
    BY <1>1 DEF Slots
  <2>1. \A s \in Slots : LiveSlot(s)' <=> LiveSlot(s) /\ s # top
    BY Zenon, <1>3, <1>4, <2>0
  <2>2. \A s \in Slots : LiveSlot(s) /\ objs[0][s] = p => s = top
    BY <1>1, <1>3 DEF CacheInv, PlacesInv, p
  <2>3. objs[0][top] = p
    BY Zenon DEF p
  <2> QED
    BY Zenon, <1>2, <2>1, <2>2, <2>3 DEF InSlot
<1>9. PlacesInv'
  <2>1. \A s \in Slots : LiveSlot(s)' => LiveSlot(s)
    BY <1>1, <1>3, <1>4 DEF Slots
  <2>2. \A s \in Slots : LiveSlot(s)' => objs'[0][s] \in DOMAIN out'
    BY Zenon, <1>2, <1>6, <2>1 DEF CacheInv, PlacesInv
  <2>3. \A s, r \in Slots :
           LiveSlot(s)' /\ LiveSlot(r)' /\ objs'[0][s] = objs'[0][r] => s = r
    BY Zenon, <1>2, <2>1 DEF CacheInv, PlacesInv
  <2>4. ASSUME NEW q \in DOMAIN out
        PROVE  /\ q \in buddy' \/ got'[0] = q \/ InSlot(q)' \/ out'[q] = 1
               /\ q \in buddy' => got'[0] # q /\ ~InSlot(q)' /\ out'[q] = 0
               /\ got'[0] = q => ~InSlot(q)' /\ out'[q] = 0
               /\ InSlot(q)' => out'[q] = 0
    <3>1. q # NoFrame
      BY DEF CacheInv, CacheType, NoFrame
    <3> QED
      BY Zenon, <1>1, <1>2, <1>5, <1>6, <1>8, <3>1 DEF CacheInv, PlacesInv
  <2> QED
    BY Zenon, <1>6, <2>2, <2>3, <2>4 DEF PlacesInv
<1>10. PhaseInv'
  BY Zenon, <1>1, <1>2 DEF CacheInv, PhaseInv, CacheType
<1> QED
  BY Zenon, <1>7, <1>9, <1>10 DEF CacheInv

\* One place, in numbers.
LEMMA CacheOnePlace ==
    ASSUME CacheInv PROVE BootPagesInOnePlace
<1> USE BootAssumption
<1>1. Cache!CPU = {0} /\ Cache!Slot = Slots
  BY DEF Cache!CPU, Cache!Slot, Slots
<1>2. \A s \in Slots : Cache!Cached(0, s) <=> LiveSlot(s)
  BY DEF Cache!Cached, Cache!Booting, Cache!Total, LiveSlot, Slots, CacheInv, CacheType
<1>3. ASSUME NEW p \in DOMAIN out
      PROVE  Cardinality({x \in Cache!CPU \X Cache!Slot :
                             Cache!Cached(x[1], x[2]) /\ objs[x[1]][x[2]] = p})
             + Cardinality({c \in Cache!CPU : got[c] = p}) + out[p]
             + (IF p \in buddy THEN 1 ELSE 0) = 1
  <2> DEFINE slots == {x \in Cache!CPU \X Cache!Slot :
                             Cache!Cached(x[1], x[2]) /\ objs[x[1]][x[2]] = p}
             moving == {c \in Cache!CPU : got[c] = p}
  <2>1. Cardinality({}) = 0 /\ \A x : Cardinality({x}) = 1
    BY ZenonT(60), FS_EmptySet, FS_Singleton
  <2>2. Cardinality(moving) = IF got[0] = p THEN 1 ELSE 0
    <3>1. moving = IF got[0] = p THEN {0} ELSE {}
      BY Zenon, <1>1
    <3> QED
      BY Zenon, <2>1, <3>1
  <2>3. Cardinality(slots) = IF InSlot(p) THEN 1 ELSE 0
    <3>0. slots = {x \in {0} \X Slots : LiveSlot(x[2]) /\ objs[0][x[2]] = p}
      BY Zenon, <1>1, <1>2
    <3>1. CASE InSlot(p)
      <4>1. PICK s \in Slots : LiveSlot(s) /\ objs[0][s] = p
        BY Zenon, <3>1 DEF InSlot
      <4>2. \A r \in Slots : LiveSlot(r) /\ objs[0][r] = p => r = s
        BY Zenon, <4>1 DEF CacheInv, PlacesInv
      <4>3. slots = {<<0, s>>}
        BY <3>0, <4>1, <4>2
      <4> QED
        BY ZenonT(60), <2>1, <3>1, <4>3
    <3>2. CASE ~InSlot(p)
      <4>1. slots = {}
        BY Zenon, <3>0, <3>2 DEF InSlot
      <4> QED
        BY Zenon, <2>1, <3>2, <4>1
    <3> QED
      BY Zenon, <3>1, <3>2
  <2>4. out[p] \in {0, 1}
    BY Zenon DEF CacheInv, CacheType
  <2> HIDE DEF slots, moving
  <2>5. Cardinality(slots) + Cardinality(moving) + out[p] + (IF p \in buddy THEN 1 ELSE 0) = 1
    <3>1. /\ p \in buddy \/ got[0] = p \/ InSlot(p) \/ out[p] = 1
          /\ p \in buddy => got[0] # p /\ ~InSlot(p) /\ out[p] = 0
          /\ got[0] = p => ~InSlot(p) /\ out[p] = 0
          /\ InSlot(p) => out[p] = 0
      BY Zenon DEF CacheInv, PlacesInv
    <3> DEFINE u == Cardinality(slots)
               v == Cardinality(moving)
               w == IF p \in buddy THEN 1 ELSE 0
    <3>2. \/ u = 0 /\ v = 0 /\ out[p] = 0 /\ w = 1
          \/ u = 0 /\ v = 1 /\ out[p] = 0 /\ w = 0
          \/ u = 1 /\ v = 0 /\ out[p] = 0 /\ w = 0
          \/ u = 0 /\ v = 0 /\ out[p] = 1 /\ w = 0
      BY Zenon, <2>2, <2>3, <2>4, <3>1
    <3> HIDE DEF u, v, w
    <3>3. u + v + out[p] + w = 1
      BY <3>2
    <3> QED
      BY <3>3 DEF u, v, w
  <2> QED
    BY <2>5 DEF slots, moving
<1>4. \A S : Cache!Cardinality(S) = Cardinality(S)
  BY Zenon DEF Cache!Cardinality, Cardinality
<1> QED
  BY Zenon, <1>3, <1>4 DEF BootPagesInOnePlace, Cache!OnePlace, Cache!Ram

\* Steps that leave the cache alone; none returns to the boot before pmm_init.
LEMMA CacheKept ==
    ASSUME CacheInv, UNCHANGED cacheVars,
           pc' \in {"m_start", "booting"} => pc \in {"m_start", "booting"}
    PROVE  CacheInv'
BY Zenon DEF cacheVars, CacheInv, CacheType, PlacesInv, PhaseInv, InSlot, LiveSlot

\* The places are kept by every step, with any size of memory that was found.
LEMMA CacheInvStep ==
    ASSUME CacheInv, g_mem_size \in Nat, [Next]_vars
    PROVE  CacheInv'
<1> USE BootAssumption
<1>1. CASE PmmInit
  BY Zenon, <1>1, PmmInitStep
<1>2. CASE FillCache
  <2>0. pc = "pmm_init" /\ pc' = pc
    BY <1>2 DEF FillCache, loadVars
  <2>1. CASE Cache!BuddyAlloc(0) \/ Cache!BuddyPanic(0)
    BY Zenon, <2>0, <2>1, QuietCacheStep DEF Cache!BuddyAlloc, Cache!BuddyPanic, Cache!Goto, CacheInv, CacheType
  <2>2. CASE Cache!BootStore(0)
    BY Zenon, <2>0, <2>2, StoreCacheStep
  <2>3. CASE Cache!BuddyPop(0)
    BY Zenon, <2>0, <2>3, PopCacheStep
  <2> QED
    BY Zenon, <1>2, <2>1, <2>2, <2>3 DEF FillCache
<1>3. CASE TakePage
  <2>0. pc \notin {"m_start", "booting"} /\ pc' = pc
    <3>1. pc' = pc /\ (Cache!AllocPage(0) \/ Cache!Wholesale(0) \/ Cache!Retail(0))
      BY Zenon, <1>3 DEF TakePage, loadVars
    <3>2. cpu[0] # "off"
      BY Zenon, <3>1 DEF Cache!AllocPage, Cache!Wholesale, Cache!Retail
    <3> QED
      BY Zenon, <3>1, <3>2 DEF CacheInv, PhaseInv
  <2>1. CASE Cache!AllocPage(0) \/ Cache!Wholesale(0)
    <3>1. cpu[0] \in {"idle", "wholesale"} /\ UNCHANGED <<objs, count, buddy, fill, out, got>>
      BY Zenon, <2>1 DEF Cache!AllocPage, Cache!Wholesale
    <3>2. fill = PCPU_CACHE_SIZE
      BY <3>1 DEF CacheInv, PhaseInv, CacheType
    <3>3. /\ cpu' = [cpu EXCEPT ![0] = cpu'[0]]
          /\ cpu'[0] \in {"call", "wholesale", "retail"}
      BY Zenon, <2>1 DEF Cache!AllocPage, Cache!Wholesale, Cache!Goto, CacheInv, CacheType
    <3> QED
      BY Zenon, <2>0, <3>1, <3>2, <3>3, QuietCacheStep
  <2>2. CASE Cache!Retail(0)
    BY Zenon, <2>0, <2>2, RetailCacheStep
  <2> QED
    BY Zenon, <1>3, <2>1, <2>2 DEF TakePage
<1>4. CASE UNCHANGED <<cacheVars, pc>>
  BY Zenon, <1>4, CacheKept
<1>5. CASE SetUpFiles \/ PmmInitDone \/ KernVmInit \/ LoadUserProgram
  <2>1. UNCHANGED cacheVars /\ (pc' \in {"m_start", "booting"} => pc \in {"m_start", "booting"})
    BY Zenon, <1>5 DEF SetUpFiles, SpikeFileInit, PmmInitDone, Goes, KernVmInit, LoadUserProgram, Paid
  <2> QED
    BY Zenon, <2>1, CacheKept
<1>6. CASE LoadProgram \/ LoadStops
  <2>1. UNCHANGED cacheVars /\ (LoadNext \/ SegmentPanic)
    BY Zenon, <1>6 DEF LoadProgram, LoadStops, Paid
  <2>2. pc' \notin {"m_start", "booting"}
    BY Zenon, <2>1 DEF LoadNext, Open, OpenFails, LoadDone, NoArgument, ElfInit, LoadPanic, SkipHeader,
                LoadSegment, SegmentPanic
  <2> QED
    BY Zenon, <2>1, <2>2, CacheKept
<1> QED
  BY Zenon, <1>1, <1>2, <1>3, <1>4, <1>5, <1>6
     DEF Next, vars, loadVars, InitDtb, MStart, MTimer
=============================================================================
