--------------------------- MODULE CommandsProofs ---------------------------
(***************************************************************************)
(* The shell's commands `pmm', `heap' and `vma', proved right about their  *)
(* own books for every number of pages, every list of sizes and areas,     *)
(* every capacity of the registry and every sequence of commands.          *)
(*                                                                         *)
(* RestInv       outside a self test, its variables are at rest            *)
(* PmmInv        every page is free, the kernel's, tracked or a test's     *)
(* HeapInv       every piece is on the stack, a test's or lost             *)
(* RegistryInv   the registry is the kernel's areas and the test's         *)
(* VmaInv        and the areas are apart, so that look-ups find one        *)
(*                                                                         *)
(* Each is inductive on top of RestInv: a command of one module leaves the *)
(* other two alone.  The first part is about the slots of a self test,     *)
(* which the three of them share.                                          *)
(***************************************************************************)
EXTENDS Commands, FiniteSetTheorems, WellFoundedInduction, TLAPS

\* The empty array of a self test has no slots and holds nothing.
LEMMA NothingIsEmpty == DOMAIN Nothing = {} /\ Range(Nothing) = {}
<1>1. DOMAIN << >> = {}
  OBVIOUS
<1> QED BY <1>1 DEF Nothing, Range

\* What an array without slots holds.
LEMMA EmptyRange == ASSUME NEW f, DOMAIN f = {} PROVE Range(f) = {}
  BY DEF Range

-----------------------------------------------------------------------------
(* The slots of a test's array *)

\* The shortest intervals of slots.
LEMMA Ones ==
    1 .. 1 = {1} /\ 1 .. 0 = {} /\ \A n \in Nat \ {0} : 1 \in 1 .. n /\ 1 .. n # {}
  OBVIOUS

\* FreeSlot and GiveSlot are the lowest of some slots.
LEMMA LeastExists ==
    ASSUME NEW S \in SUBSET Nat, S # {}
    PROVE  Min(S) \in S
<1> DEFINE T == {0 .. k : k \in S}
<1>1. \A k \in S : 0 .. k \in FiniteSubsetsOf(Nat)
  <2>1. \A k \in S : IsFiniteSet(0 .. k) /\ 0 .. k \in SUBSET Nat
    BY FS_Interval
  <2> QED BY <2>1 DEF FiniteSubsetsOf
<1>2. T \subseteq FiniteSubsetsOf(Nat) /\ T # {}
  BY <1>1
<1>3. PICK x \in T : \A y \in T : <<y, x>> \notin StrictSubsetOrdering(Nat)
  BY <1>2, FS_StrictSubsetOrderingWellFounded, WFMin
<1>4. PICK m \in S : x = 0 .. m
  OBVIOUS
<1>5. ASSUME NEW k \in S, k < m PROVE FALSE
  <2>1. 0 .. k \in T /\ 0 .. k \in SUBSET Nat /\ 0 .. m \in SUBSET Nat
    OBVIOUS
  <2>2. 0 .. k \subseteq 0 .. m /\ 0 .. k # 0 .. m
    BY <1>5
  <2>3. <<0 .. k, 0 .. m>> \in StrictSubsetOrdering(Nat)
    BY <2>1, <2>2 DEF StrictSubsetOrdering
  <2> QED BY <1>3, <1>4, <2>1, <2>3
<1>6. \A k \in S : m =< k
  BY <1>5
<1> QED BY <1>6 DEF Min

\* What is granted goes into a slot that is not in use.
LEMMA TookFacts ==
    ASSUME NEW t, NEW thing, DOMAIN mine \subseteq 1 .. Len(t.wants),
           DOMAIN mine # 1 .. Len(t.wants), Took(t, thing)
    PROVE  /\ FreeSlot(t) \in (1 .. Len(t.wants)) \ DOMAIN mine
           /\ DOMAIN mine' = DOMAIN mine \cup {FreeSlot(t)}
           /\ mine'[FreeSlot(t)] = thing
           /\ \A s \in DOMAIN mine : mine'[s] = mine[s]
           /\ Range(mine') = Range(mine) \cup {thing}
<1> DEFINE k == FreeSlot(t)
<1>1. k \in (1 .. Len(t.wants)) \ DOMAIN mine
  <2>1. (1 .. Len(t.wants)) \ DOMAIN mine \in SUBSET Nat
    OBVIOUS
  <2>2. (1 .. Len(t.wants)) \ DOMAIN mine # {}
    OBVIOUS
  <2> QED BY <2>1, <2>2, LeastExists DEF FreeSlot
<1>2. mine' = [s \in DOMAIN mine \cup {k} |-> IF s \in DOMAIN mine THEN mine[s] ELSE thing]
  BY DEF Took
<1> HIDE DEF k
<1>3. /\ DOMAIN mine' = DOMAIN mine \cup {k} /\ mine'[k] = thing
      /\ \A s \in DOMAIN mine : mine'[s] = mine[s]
  BY <1>1, <1>2
<1>4. Range(mine') = Range(mine) \cup {thing}
  BY <1>3 DEF Range
<1> QED BY <1>1, <1>3, <1>4 DEF k

\* What is given back leaves its slot, and is in no other.
LEMMA GaveFacts ==
    ASSUME NEW n, DOMAIN mine \subseteq 1 .. n, DOMAIN mine # {}, IsInjective(mine),
           loop = "holes" => \E s \in DOMAIN mine : s % 2 = 1, Gave
    PROVE  /\ GiveSlot \in DOMAIN mine
           /\ DOMAIN mine' = DOMAIN mine \ {GiveSlot}
           /\ \A s \in DOMAIN mine' : mine'[s] = mine[s]
           /\ Range(mine') = Range(mine) \ {mine[GiveSlot]}
<1> DEFINE k == GiveSlot
<1>1. k \in DOMAIN mine
  <2> DEFINE S == IF loop = "holes" THEN {s \in DOMAIN mine : s % 2 = 1} ELSE DOMAIN mine
  <2>1. S \in SUBSET Nat /\ S \subseteq DOMAIN mine
    OBVIOUS
  <2>2. S # {}
    OBVIOUS
  <2> HIDE DEF S
  <2>3. Min(S) \in S
    BY <2>1, <2>2, LeastExists
  <2> QED BY <2>1, <2>3 DEF S, GiveSlot
<1>2. mine' = [s \in DOMAIN mine \ {k} |-> mine[s]]
  BY DEF Gave, Restrict
<1> HIDE DEF k
<1>3. DOMAIN mine' = DOMAIN mine \ {k} /\ \A s \in DOMAIN mine' : mine'[s] = mine[s]
  BY <1>2
<1>4. Range(mine') = Range(mine) \ {mine[k]}
  BY <1>1, <1>3 DEF Range, IsInjective
<1> QED BY <1>1, <1>3, <1>4 DEF k

\* The slots in use are finitely many.
LEMMA SlotCount ==
    ASSUME NEW n \in Nat, DOMAIN mine \subseteq 1 .. n
    PROVE  /\ IsFiniteSet(DOMAIN mine) /\ Cardinality(DOMAIN mine) \in Nat
           /\ \A k : k \notin DOMAIN mine =>
                 Cardinality(DOMAIN mine \cup {k}) = Cardinality(DOMAIN mine) + 1
           /\ \A k \in DOMAIN mine :
                 Cardinality(DOMAIN mine \ {k}) = Cardinality(DOMAIN mine) - 1
<1>1. IsFiniteSet(DOMAIN mine)
  <2>1. IsFiniteSet(1 .. n)
    BY FS_Interval
  <2> QED BY <2>1, FS_Subset
<1> QED BY <1>1, FS_CardinalityType, FS_AddElement, FS_RemoveElement

\* A finite set listed without repetition has as many members as the list.
LEMMA Listed ==
    ASSUME NEW e, NEW f, IsFiniteSet(e), \A i, j \in e : f[i] = f[j] => i = j
    PROVE  /\ IsFiniteSet({f[i] : i \in e})
           /\ Cardinality({f[i] : i \in e}) = Cardinality(e)
<1> DEFINE S == {f[i] : i \in e}
           m == [i \in e |-> f[i]]
<1>1. m \in Bijection(e, S)
  BY DEF Bijection, Injection, Surjection, IsInjective
<1>2. ExistsBijection(e, S)
  BY <1>1 DEF ExistsBijection
<1> HIDE DEF S
<1>3. IsFiniteSet(S) /\ Cardinality(S) = Cardinality(e)
  BY <1>2, FS_Bijection
<1> QED BY <1>3 DEF S

\* What is in three places is as much as there is in each of them.
LEMMA ThreePlaces ==
    ASSUME NEW S, NEW T, NEW U, NEW A, IsFiniteSet(S), IsFiniteSet(T), IsFiniteSet(U),
           S \cap T = {}, S \cap U = {}, T \cap U = {}, A = S \cup T \cup U
    PROVE  Cardinality(A) = Cardinality(S) + Cardinality(T) + Cardinality(U)
<1>1. Cardinality(S) \in Nat /\ Cardinality(T) \in Nat /\ Cardinality(U) \in Nat
  BY FS_CardinalityType
<1>2. Cardinality(S \cap T) = 0 /\ Cardinality((S \cup T) \cap U) = 0
  <2>1. (S \cup T) \cap U = {}
    OBVIOUS
  <2> QED BY <2>1, FS_EmptySet
<1>3. /\ IsFiniteSet(S \cup T)
      /\ Cardinality(S \cup T) = Cardinality(S) + Cardinality(T) - Cardinality(S \cap T)
  BY FS_Union
<1>4. Cardinality(A) = Cardinality(S \cup T) + Cardinality(U) - Cardinality((S \cup T) \cap U)
  BY <1>3, FS_Union
<1>5. Cardinality(S \cup T) = Cardinality(S) + Cardinality(T)
  BY <1>1, <1>2, <1>3
<1> QED BY <1>1, <1>2, <1>4, <1>5

-----------------------------------------------------------------------------
(* Which commands the actions belong to *)

PmmCommands == {"pmm alloc", "pmm freeall", "pmm test"}

\* Outside a self test, its variables are at rest.
RestInv ==
    /\ cmd \in {"idle", "heap test", "vma test"} \cup PmmCommands
    /\ cmd \in {"idle", "pmm alloc", "pmm freeall"} =>
          loop = "none" /\ DOMAIN mine = {} /\ pass = TRUE /\ denied = FALSE

\* An action of one command module starts from that command or from idle.
LEMMA PmmIsPmm ==
    ASSUME PmmNext, RestInv
    PROVE  cmd \in {"idle"} \cup PmmCommands /\ cmd' \in {"idle"} \cup PmmCommands /\ RestInv'
<1> USE DEF testVars, Return, RestInv, PmmCommands
<1>n. DOMAIN Nothing = {}
  BY NothingIsEmpty
<1>1. CASE KernelTakes
  BY <1>1 DEF KernelTakes
<1>2. CASE \E p \in Page : KernelGives(p)
  BY <1>2 DEF KernelGives
<1>3. CASE \E n \in Counts : cmd_pmm_alloc(n)
  BY <1>3 DEF cmd_pmm_alloc, Loop
<1>4. CASE \E p \in Page : cmd_pmm_free(p)
  BY <1>4 DEF cmd_pmm_free
<1>5. CASE cmd_pmm_freeall
  BY <1>5 DEF cmd_pmm_freeall, Loop
<1>6. CASE cmd_pmm_test
  BY <1>6 DEF cmd_pmm_test, Begin
<1>7. CASE pmm_alloc_round
  BY <1>7, <1>n DEF pmm_alloc_round
<1>8. CASE pmm_freeall_round
  BY <1>8, <1>n DEF pmm_freeall_round
<1>9. CASE pmm_test_take
  BY <1>9, <1>n DEF pmm_test_take, Taking, Took, Refused
<1>10. CASE pmm_test_check
  BY <1>10 DEF pmm_test_check, Checks
<1>11. CASE pmm_test_give
  BY <1>11 DEF pmm_test_give, Giving, Gave
<1>12. CASE pmm_test_over
  BY <1>12, <1>n DEF pmm_test_over, Over
<1>13. CASE pmm_test_skip
  BY <1>13 DEF pmm_test_skip
<1> QED
  BY <1>1, <1>2, <1>3, <1>4, <1>5, <1>6, <1>7, <1>8, <1>9, <1>10, <1>11,
     <1>12, <1>13 DEF PmmNext

\* The same of the heap commands (cmd_heap.c).
LEMMA HeapIsHeap ==
    ASSUME HeapNext, RestInv
    PROVE  cmd \in {"idle", "heap test"} /\ cmd' \in {"idle", "heap test"} /\ RestInv'
<1> USE DEF testVars, Return, RestInv, PmmCommands
<1>n. DOMAIN Nothing = {}
  BY NothingIsEmpty
<1>1. CASE \E n \in Sizes : do_alloc(n)
  BY <1>1 DEF do_alloc
<1>2. CASE do_free
  BY <1>2 DEF do_free
<1>3. CASE do_test
  BY <1>3 DEF do_test, Begin
<1>4. CASE heap_test_clean
  BY <1>4 DEF heap_test_clean
<1>5. CASE heap_test_take
  BY <1>5, <1>n DEF heap_test_take, Taking, Took, Refused
<1>6. CASE heap_test_check
  BY <1>6 DEF heap_test_check, Checks
<1>7. CASE heap_test_give
  BY <1>7 DEF heap_test_give, Giving, Gave
<1>8. CASE heap_test_over
  BY <1>8, <1>n DEF heap_test_over, Over
<1> QED
  BY <1>1, <1>2, <1>3, <1>4, <1>5, <1>6, <1>7, <1>8 DEF HeapNext

\* The same of the vma commands (cmd_vma.c), and of the kernel's own calls of
\* the registry, which come between commands.
LEMMA VmaIsVma ==
    ASSUME VmaNext, RestInv
    PROVE  cmd \in {"idle", "vma test"} /\ cmd' \in {"idle", "vma test"} /\ RestInv'
<1> USE DEF testVars, Return, RestInv, PmmCommands
<1>n. DOMAIN Nothing = {}
  BY NothingIsEmpty
<1>1. CASE \E a \in KernelAreas : KernelAdds(a) \/ KernelRemoves(a)
  BY <1>1 DEF KernelAdds, KernelRemoves
<1>2. CASE cmd_vma_test
  BY <1>2 DEF cmd_vma_test, Begin
<1>3. CASE vma_test_take
  BY <1>3, <1>n DEF vma_test_take, Taking, Took, Refused
<1>4. CASE vma_test_check
  BY <1>4 DEF vma_test_check, Checks
<1>5. CASE vma_test_give
  BY <1>5 DEF vma_test_give, Giving, Gave
<1>6. CASE vma_test_over
  BY <1>6, <1>n DEF vma_test_over, Over
<1> QED
  BY <1>1, <1>2, <1>3, <1>4, <1>5, <1>6 DEF VmaNext

\* The shell starts with no command running.
LEMMA RestInit == Init => RestInv
  BY NothingIsEmpty DEF Init, Idle, RestInv

\* When a command returns, the self test's variables are at rest again.
LEMMA RestStep == RestInv /\ [Next]_vars => RestInv'
<1> SUFFICES ASSUME RestInv, [Next]_vars PROVE RestInv'
  OBVIOUS
<1>1. CASE Verdict /\ UNCHANGED <<ret, pmmVars, heapVars, vmaVars>>
  BY <1>1, NothingIsEmpty DEF Verdict, Return, RestInv
<1>2. CASE UNCHANGED vars
  BY <1>2 DEF vars, testVars, RestInv
<1> QED
  BY <1>1, <1>2, PmmIsPmm, HeapIsHeap, VmaIsVma DEF Next, shell_run_command

-----------------------------------------------------------------------------
(* `pmm' *)

\* Where a test stands: it takes while there is a slot left, and the verdict
\* comes when all is given back.
SlotsOf(tests) ==
    /\ test \in 1 .. Len(tests)
    /\ DOMAIN mine \subseteq 1 .. Len(tests[test].wants)
    /\ loop \in {"take", "refill"} => DOMAIN mine # 1 .. Len(tests[test].wants)
    /\ loop = "verdict" => DOMAIN mine = {}

\* The entries of the tracking array that hold a page, and the pages of the
\* running test.
Entries ==
    IF cmd = "pmm freeall"
    THEN Len(g_pmm_cmd_allocs) - left + 1 .. Len(g_pmm_cmd_allocs)
    ELSE 1 .. Len(g_pmm_cmd_allocs)
PmmTested == IF cmd = "pmm test" THEN Range(mine) ELSE {}

\* Every page is in one place: free, held by the kernel, in the tracking array
\* or in the array of the running test.
PagesOf(free, used, kern, tracked, entries, tested) ==
    /\ free \subseteq Page /\ used \subseteq Page /\ free \cap used = {}
    /\ tracked \in Seq(Page)
    /\ entries \subseteq 1 .. Len(tracked)
    /\ used = kern \cup {tracked[i] : i \in entries} \cup tested
    /\ \A i \in entries : tracked[i] \notin kern \cup tested
    /\ \A i, j \in entries : tracked[i] = tracked[j] => i = j
    /\ kern \cap tested = {}

PagesInv ==
    /\ PagesOf(avail, held, kernel, g_pmm_cmd_allocs, Entries, PmmTested)
    /\ cmd = "pmm freeall" => left \in 0 .. Len(g_pmm_cmd_allocs)

\* The test passes so far, or undoes what it did in order to return; what is
\* free and what the test has taken is what was free when it began.
PmmTestInv ==
    cmd = "pmm test" =>
       /\ SlotsOf(PmmTests) /\ loop \in {"take", "check", "give", "undo", "verdict"}
       /\ IsInjective(mine)
       /\ pass \/ loop = "undo"
       /\ start = Cardinality(avail) + Cardinality(DOMAIN mine)

PmmInv == RestInv /\ PagesInv /\ PmmTestInv

\* The tests of cmd_pmm_test.
LEMMA PmmTestFacts ==
    /\ Len(PmmTests) = 5
    /\ \A t \in 1 .. 5 :
          /\ Len(PmmTests[t].wants) \in Nat
          /\ PmmTests[t].wants # << >> => Len(PmmTests[t].wants) # 0
          /\ PmmTests[t].holes = FALSE
          /\ PmmTests[t].refused \in {"return", "undo", "keep"}
          /\ PmmTests[t].refused = "return" => Len(PmmTests[t].wants) = 1
          /\ PmmTests[t].fails => PmmTests[t].refused # "keep"
    /\ Len(PmmTests[1].wants) = 1
<1>1. \A n \in Nat : Pages(n) \in Seq({"page"}) /\ Len(Pages(n)) = n
  BY DEF Pages
<1>2. Len(PmmTests) = 5
  BY DEF PmmTests
<1>3. ASSUME NEW t \in 1 .. 5
      PROVE  \E n \in Nat : \E r \in {"return", "undo", "keep"} : \E f \in BOOLEAN :
                /\ PmmTests[t] = Test(Pages(n), r, f, FALSE)
                /\ r = "return" => n = 1
                /\ f => r # "keep"
                /\ t = 1 => n = 1
  <2>1. ALIGN_N \in Nat /\ UNIQUE_N \in Nat /\ BATCH_N \in Nat /\ 1 \in Nat
    BY CmdPmmAssumption
  <2>2. /\ PmmTests[1] = Test(Pages(1), "return", TRUE, FALSE)
        /\ PmmTests[2] = Test(Pages(ALIGN_N), "undo", TRUE, FALSE)
        /\ PmmTests[3] = Test(Pages(UNIQUE_N), "undo", TRUE, FALSE)
        /\ PmmTests[4] = Test(Pages(BATCH_N), "keep", FALSE, FALSE)
        /\ PmmTests[5] = Test(Pages(1), "keep", FALSE, FALSE)
    BY DEF PmmTests
  <2>3. CASE t = 1
    BY <2>1, <2>2, <2>3
  <2>4. CASE t = 2
    BY <2>1, <2>2, <2>4
  <2>5. CASE t = 3
    BY <2>1, <2>2, <2>5
  <2>6. CASE t = 4
    BY <2>1, <2>2, <2>6
  <2>7. CASE t = 5
    BY <2>1, <2>2, <2>7
  <2>8. t = 1 \/ t = 2 \/ t = 3 \/ t = 4 \/ t = 5
    OBVIOUS
  <2> QED BY <2>3, <2>4, <2>5, <2>6, <2>7, <2>8
<1>4. ASSUME NEW t \in 1 .. 5
      PROVE  /\ Len(PmmTests[t].wants) \in Nat
             /\ PmmTests[t].wants # << >> => Len(PmmTests[t].wants) # 0
             /\ PmmTests[t].holes = FALSE
             /\ PmmTests[t].refused \in {"return", "undo", "keep"}
             /\ PmmTests[t].refused = "return" => Len(PmmTests[t].wants) = 1
             /\ PmmTests[t].fails => PmmTests[t].refused # "keep"
             /\ t = 1 => Len(PmmTests[t].wants) = 1
  <2>1. PICK n \in Nat, r \in {"return", "undo", "keep"}, f \in BOOLEAN :
                /\ PmmTests[t] = Test(Pages(n), r, f, FALSE)
                /\ r = "return" => n = 1
                /\ f => r # "keep"
                /\ t = 1 => n = 1
    BY <1>3
  <2>2. /\ PmmTests[t].wants = Pages(n) /\ PmmTests[t].holes = FALSE
        /\ PmmTests[t].refused = r /\ PmmTests[t].fails = f
    BY <2>1 DEF Test
  <2>3. Pages(n) # << >> => n # 0
    BY <1>1
  <2> QED BY <1>1, <2>1, <2>2, <2>3
<1>5. 1 \in 1 .. 5
  OBVIOUS
<1> QED BY <1>2, <1>4, <1>5

\* pmm_cmd_track_remove takes out the entry of one page.
LEMMA TrackRemove ==
    ASSUME NEW s \in Seq(Page), \A i, j \in DOMAIN s : s[i] = s[j] => i = j, NEW addr,
           NEW o, o = pmm_cmd_track_remove(s, addr)
    PROVE  /\ o \in Seq(Page)
           /\ (\A i, j \in DOMAIN o : o[i] = o[j] => i = j)
           /\ \A i \in 1 .. Len(o) : o[i] # addr /\ \E j \in 1 .. Len(s) : o[i] = s[j]
           /\ \A j \in 1 .. Len(s) : s[j] # addr => \E i \in 1 .. Len(o) : o[i] = s[j]
<1> DEFINE hits == {i \in DOMAIN s : s[i] = addr}
           n == Len(s)
<1>1. n \in Nat /\ DOMAIN s = 1 .. n
  OBVIOUS
<1>2. CASE hits = {}
  <2>1. o = s
    BY <1>2 DEF pmm_cmd_track_remove
  <2> QED BY <1>1, <1>2, <2>1
<1>3. CASE hits # {}
  <2> DEFINE k == Min(hits)
             t == [s EXCEPT ![k] = s[n]]
             r == SubSeq(t, 1, n - 1)
  <2>1. k \in 1 .. n /\ s[k] = addr
    <3>1. hits \in SUBSET Nat
      BY <1>1
    <3>2. k \in hits
      BY <1>3, <3>1, LeastExists
    <3> QED BY <1>1, <3>2
  <2>2. o = r
    BY <1>3 DEF pmm_cmd_track_remove
  <2> HIDE DEF k, hits
  <2>3. t \in Seq(Page) /\ Len(t) = n
    BY <1>1, <2>1
  <2>4. r \in Seq(Page) /\ Len(r) = n - 1 /\ \A i \in 1 .. n - 1 : r[i] = t[i]
    BY <1>1, <2>1, <2>3
  <2>5. \A i \in 1 .. n - 1 : r[i] = IF i = k THEN s[n] ELSE s[i]
    BY <1>1, <2>1, <2>4
  <2> HIDE DEF r, t, n
  <2>6. \A i, j \in 1 .. n - 1 : r[i] = r[j] => i = j
    BY <1>1, <2>1, <2>5
  <2>7. /\ \A i \in 1 .. n - 1 : r[i] # addr /\ \E j \in 1 .. n : r[i] = s[j]
        /\ \A j \in 1 .. n : s[j] # addr => \E i \in 1 .. n - 1 : r[i] = s[j]
    <3>1. ASSUME NEW i \in 1 .. n - 1 PROVE r[i] # addr /\ \E j \in 1 .. n : r[i] = s[j]
      BY <1>1, <2>1, <2>5
    <3>2. ASSUME NEW j \in 1 .. n, s[j] # addr PROVE \E i \in 1 .. n - 1 : r[i] = s[j]
      <4>1. CASE j = n
        <5>1. k # n
          BY <2>1, <3>2, <4>1
        <5>2. k \in 1 .. n - 1
          BY <1>1, <2>1, <5>1
        <5> QED BY <2>5, <4>1, <5>2
      <4>2. CASE j # n
        BY <1>1, <2>1, <2>5, <3>2, <4>2
      <4> QED BY <4>1, <4>2
    <3> QED BY <3>1, <3>2
  <2>8. DOMAIN r = 1 .. n - 1
    BY <1>1, <2>1, <2>4
  <2>9. /\ \A i \in 1 .. Len(r) : r[i] # addr /\ \E j \in 1 .. Len(s) : r[i] = s[j]
        /\ \A j \in 1 .. Len(s) : s[j] # addr => \E i \in 1 .. Len(r) : r[i] = s[j]
    BY <2>4, <2>7 DEF n
  <2> QED BY <2>2, <2>4, <2>6, <2>8, <2>9
<1> QED BY <1>2, <1>3

-----------------------------------------------------------------------------
(* What the calls of the page allocator do to the places pages are in *)

\* The rest of the kernel takes a page.
LEMMA ToKernel ==
    ASSUME NEW a, NEW h, NEW k, NEW g, NEW e, NEW t, PagesOf(a, h, k, g, e, t), NEW p \in a
    PROVE  PagesOf(a \ {p}, h \cup {p}, k \cup {p}, g, e, t)
<1>1. p \in Page /\ p \notin h
  BY DEF PagesOf
<1> QED BY <1>1 DEF PagesOf

\* The rest of the kernel gives one back.
LEMMA FromKernel ==
    ASSUME NEW a, NEW h, NEW k, NEW g, NEW e, NEW t, PagesOf(a, h, k, g, e, t), NEW p \in k
    PROVE  PagesOf(a \cup {p}, h \ {p}, k \ {p}, g, e, t)
<1>1. p \in Page /\ p \in h /\ p \notin t /\ \A i \in e : g[i] # p
  BY DEF PagesOf
<1> QED BY <1>1 DEF PagesOf

\* `pmm test' takes a page.
LEMMA ToTest ==
    ASSUME NEW a, NEW h, NEW k, NEW g, NEW e, NEW t, PagesOf(a, h, k, g, e, t), NEW p \in a
    PROVE  PagesOf(a \ {p}, h \cup {p}, k, g, e, t \cup {p})
<1>1. p \in Page /\ p \notin h
  BY DEF PagesOf
<1> QED BY <1>1 DEF PagesOf

\* `pmm test' gives one back.
LEMMA FromTest ==
    ASSUME NEW a, NEW h, NEW k, NEW g, NEW e, NEW t, PagesOf(a, h, k, g, e, t), NEW p \in t
    PROVE  PagesOf(a \cup {p}, h \ {p}, k, g, e, t \ {p})
<1>1. p \in Page /\ p \in h /\ p \notin k /\ \A i \in e : g[i] # p
  BY DEF PagesOf
<1> QED BY <1>1 DEF PagesOf

\* The page goes to the end of the tracking array.
LEMMA ToArray ==
    ASSUME NEW a, NEW h, NEW k, NEW g, PagesOf(a, h, k, g, 1 .. Len(g), {}), NEW p \in a
    PROVE  PagesOf(a \ {p}, h \cup {p}, k, Append(g, p), 1 .. Len(Append(g, p)), {})
<1> DEFINE s == Append(g, p)
<1>1. g \in Seq(Page) /\ p \in Page /\ p \notin h
  BY DEF PagesOf
<1>2. /\ s \in Seq(Page) /\ Len(s) = Len(g) + 1 /\ s[Len(g) + 1] = p
      /\ \A i \in 1 .. Len(g) : s[i] = g[i]
  BY <1>1
<1>3. Len(g) \in Nat
  BY <1>1
<1>4. 1 .. Len(s) = 1 .. Len(g) \cup {Len(g) + 1} /\ Len(g) + 1 \notin 1 .. Len(g)
  BY <1>2, <1>3
<1> HIDE DEF s
<1>5. {s[i] : i \in 1 .. Len(s)} = {g[i] : i \in 1 .. Len(g)} \cup {p}
  BY <1>2, <1>4
<1>6. \A i \in 1 .. Len(g) : g[i] # p
  BY <1>1 DEF PagesOf
<1>7. \A i, j \in 1 .. Len(s) : s[i] = s[j] => i = j
  BY <1>2, <1>4, <1>6 DEF PagesOf
<1>8. \A i \in 1 .. Len(s) : s[i] \notin k
  BY <1>1, <1>2, <1>4 DEF PagesOf
<1> QED BY <1>1, <1>2, <1>5, <1>7, <1>8 DEF PagesOf, s

\* One page leaves the array, if it is in it, and goes back.
LEMMA FromArray ==
    ASSUME NEW a, NEW h, NEW k, NEW g, PagesOf(a, h, k, g, 1 .. Len(g), {}),
           NEW p \in Page, p \notin k, NEW s, s = pmm_cmd_track_remove(g, p)
    PROVE  /\ PagesOf(a, h \ {p}, k, s, 1 .. Len(s), {})
           /\ PagesOf(a \cup {p}, h \ {p}, k, s, 1 .. Len(s), {})
<1>1. g \in Seq(Page) /\ \A i, j \in 1 .. Len(g) : g[i] = g[j] => i = j
  BY DEF PagesOf
<1>2. DOMAIN g = 1 .. Len(g)
  BY <1>1
<1>3. /\ s \in Seq(Page) /\ \A i, j \in DOMAIN s : s[i] = s[j] => i = j
      /\ \A i \in 1 .. Len(s) : s[i] # p /\ \E j \in 1 .. Len(g) : s[i] = g[j]
      /\ \A j \in 1 .. Len(g) : g[j] # p => \E i \in 1 .. Len(s) : s[i] = g[j]
  <2>1. \A i, j \in DOMAIN g : g[i] = g[j] => i = j
    BY <1>1, <1>2
  <2>2. g \in Seq(Page) /\ s = pmm_cmd_track_remove(g, p)
    BY <1>1
  <2> QED BY <2>1, <2>2, TrackRemove
<1>4. DOMAIN s = 1 .. Len(s)
  BY <1>3
<1>5. \A i \in 1 .. Len(s) : \E j \in 1 .. Len(g) : s[i] = g[j]
  BY <1>3
<1>6. \A i \in 1 .. Len(s) : s[i] \notin k
  BY <1>5 DEF PagesOf
<1>7. h \ {p} = k \cup {s[i] : i \in 1 .. Len(s)}
  <2>1. h = k \cup {g[i] : i \in 1 .. Len(g)}
    BY DEF PagesOf
  <2>2. ASSUME NEW x \in h \ {p} PROVE x \in k \cup {s[i] : i \in 1 .. Len(s)}
    BY <1>3, <2>1
  <2>3. ASSUME NEW x \in k PROVE x \in h \ {p}
    BY <2>1
  <2>4. ASSUME NEW i \in 1 .. Len(s) PROVE s[i] \in h \ {p}
    BY <1>3, <2>1
  <2> QED BY <2>2, <2>3, <2>4
<1> QED BY <1>3, <1>4, <1>6, <1>7 DEF PagesOf

\* The page of one entry goes back.
LEMMA FromEntry ==
    ASSUME NEW a, NEW h, NEW k, NEW g, NEW e, NEW t, PagesOf(a, h, k, g, e, t), NEW n \in e
    PROVE  PagesOf(a \cup {g[n]}, h \ {g[n]}, k, g, e \ {n}, t)
<1>1. g[n] \in h /\ g[n] \in Page /\ g[n] \notin k \cup t
  BY DEF PagesOf
<1>2. {g[i] : i \in e \ {n}} = {g[i] : i \in e} \ {g[n]}
  BY DEF PagesOf
<1> QED BY <1>1, <1>2 DEF PagesOf

\* No entry is left, and the array is cleared.
LEMMA ClearArray ==
    ASSUME NEW a, NEW h, NEW k, NEW g, PagesOf(a, h, k, g, {}, {})
    PROVE  PagesOf(a, h, k, << >>, 1 .. Len(<< >>), {})
<1>1. << >> \in Seq(Page) /\ Len(<< >>) = 0 /\ 1 .. 0 = {}
  OBVIOUS
<1> QED BY <1>1 DEF PagesOf

-----------------------------------------------------------------------------
(* The actions of `pmm' *)

\* Every page is in one place, and the tracking array holds pages.
LEMMA PmmFacts ==
    ASSUME PmmInv
    PROVE  /\ PagesOf(avail, held, kernel, g_pmm_cmd_allocs, Entries, PmmTested)
           /\ g_pmm_cmd_allocs \in Seq(Page) /\ Len(g_pmm_cmd_allocs) \in Nat
<1>1. PagesOf(avail, held, kernel, g_pmm_cmd_allocs, Entries, PmmTested)
  BY DEF PmmInv, PagesInv
<1>2. g_pmm_cmd_allocs \in Seq(Page)
  BY <1>1 DEF PagesOf
<1> QED BY <1>1, <1>2

\* The other commands leave the pages alone.
LEMMA PmmOther ==
    ASSUME PmmInv, RestInv', UNCHANGED pmmVars,
           cmd \notin {"pmm freeall", "pmm test"}, cmd' \notin {"pmm freeall", "pmm test"}
    PROVE  PmmInv'
<1>1. /\ UNCHANGED <<avail, held, kernel, g_pmm_cmd_allocs, left>>
      /\ Entries' = Entries /\ PmmTested' = PmmTested
  BY DEF pmmVars, Entries, PmmTested
<1>2. PagesInv'
  BY <1>1 DEF PmmInv, PagesInv
<1> QED BY <1>2 DEF PmmInv, PmmTestInv

\* pmm_alloc_page and pmm_free_page, seen from a caller.
LEMMA AllocFacts ==
    ASSUME PA!Alloc
    PROVE  \E p \in avail : /\ avail' = avail \ {p} /\ held' = held \cup {p}
                            /\ ret'.page = p
  BY DEF PA!Alloc, PA!Answer

\* A free of a page in use puts it among the free ones.
LEMMA FreeFacts ==
    ASSUME NEW p \in held, PA!Free(p) \/ PA!FreeIgnored(p)
    PROVE  avail' = avail \cup {p} /\ held' = held \ {p}
  BY DEF PA!Free, PA!FreeIgnored

\* Pages change hands between the pool and the rest of the kernel.
LEMMA PmmKernelStep ==
    ASSUME PmmInv, RestInv', KernelTakes \/ \E p \in Page : KernelGives(p)
    PROVE  PmmInv'
<1>1. /\ cmd = "idle" /\ cmd' = cmd /\ g_pmm_cmd_allocs' = g_pmm_cmd_allocs
  BY DEF KernelTakes, KernelGives, testVars
<1>2. Entries' = Entries /\ PmmTested' = PmmTested
  BY <1>1 DEF Entries, PmmTested
<1>3. PagesInv'
  <2>1. CASE KernelTakes
    <3>1. \E p \in avail : /\ avail' = avail \ {p} /\ held' = held \cup {p}
                           /\ kernel' = kernel \cup {p}
      BY <2>1, AllocFacts DEF KernelTakes
    <3> QED BY <1>1, <1>2, <3>1, PmmFacts, ToKernel DEF PagesInv
  <2>2. CASE \E p \in Page : KernelGives(p)
    <3>1. PICK p \in Page : KernelGives(p)
      BY <2>2
    <3>2. p \in kernel /\ kernel' = kernel \ {p}
      BY <3>1 DEF KernelGives
    <3>3. avail' = avail \cup {p} /\ held' = held \ {p}
      BY <3>1 DEF KernelGives, PA!Free
    <3> QED BY <1>1, <1>2, <3>2, <3>3, PmmFacts, FromKernel DEF PagesInv
  <2> QED BY <2>1, <2>2
<1> QED BY <1>1, <1>3 DEF PmmInv, PmmTestInv

\* `pmm alloc' and `pmm freeall' begin.
LEMMA PmmLoopStep ==
    ASSUME PmmInv, RestInv', (\E n \in Counts : cmd_pmm_alloc(n)) \/ cmd_pmm_freeall
    PROVE  PmmInv'
<1>1. /\ cmd = "idle" /\ cmd' # "pmm test" /\ UNCHANGED <<avail, held, kernel, g_pmm_cmd_allocs>>
      /\ cmd' = "pmm freeall" => left' = Len(g_pmm_cmd_allocs)
  BY DEF cmd_pmm_alloc, cmd_pmm_freeall, Loop
<1>2. Entries' = Entries /\ PmmTested' = PmmTested
  <2>1. Len(g_pmm_cmd_allocs) - Len(g_pmm_cmd_allocs) + 1 = 1
    BY PmmFacts
  <2> QED BY <1>1, <2>1 DEF Entries, PmmTested
<1>3. cmd' = "pmm freeall" => left' \in 0 .. Len(g_pmm_cmd_allocs')
  <2>1. Len(g_pmm_cmd_allocs) \in 0 .. Len(g_pmm_cmd_allocs)
    BY PmmFacts
  <2> QED BY <1>1, <2>1
<1>4. PagesInv'
  BY <1>1, <1>2, <1>3, PmmFacts DEF PagesInv
<1> QED BY <1>1, <1>4 DEF PmmInv, PmmTestInv

\* A page is allocated and tracked, or the command ends.
LEMMA PmmAllocRoundStep ==
    ASSUME PmmInv, RestInv', pmm_alloc_round
    PROVE  PmmInv'
<1>1. cmd = "pmm alloc" /\ cmd' \in {"idle", "pmm alloc"} /\ kernel' = kernel
  BY DEF pmm_alloc_round, Return, testVars
<1>2. /\ PmmTested = {} /\ PmmTested' = {}
      /\ Entries = 1 .. Len(g_pmm_cmd_allocs) /\ Entries' = 1 .. Len(g_pmm_cmd_allocs')
  BY <1>1 DEF PmmTested, Entries
<1>3. PagesInv'
  <2>1. CASE UNCHANGED <<avail, held, g_pmm_cmd_allocs>>
    BY <1>1, <1>2, <2>1, PmmFacts DEF PagesInv
  <2>2. CASE PA!Alloc /\ g_pmm_cmd_allocs' = Append(g_pmm_cmd_allocs, ret'.page)
    <3>1. PICK p \in avail : /\ avail' = avail \ {p} /\ held' = held \cup {p}
                             /\ g_pmm_cmd_allocs' = Append(g_pmm_cmd_allocs, p)
      BY <2>2, AllocFacts
    <3>2. PagesOf(avail, held, kernel, g_pmm_cmd_allocs, 1 .. Len(g_pmm_cmd_allocs), {})
      BY <1>2, PmmFacts
    <3>3. PagesOf(avail \ {p}, held \cup {p}, kernel, Append(g_pmm_cmd_allocs, p),
                  1 .. Len(Append(g_pmm_cmd_allocs, p)), {})
      BY <3>2, ToArray
    <3> QED BY <1>1, <1>2, <3>1, <3>3 DEF PagesInv
  <2> QED BY <2>1, <2>2 DEF pmm_alloc_round, PA!AllocFails
<1> QED BY <1>1, <1>3 DEF PmmInv, PmmTestInv

\* `pmm free' of an address the kernel does not hold.
LEMMA PmmFreeStep ==
    ASSUME PmmInv, RestInv', NEW addr \in Page, cmd_pmm_free(addr)
    PROVE  PmmInv'
<1>1. /\ cmd = "idle" /\ cmd' = cmd /\ kernel' = kernel /\ addr \notin kernel
      /\ g_pmm_cmd_allocs' = pmm_cmd_track_remove(g_pmm_cmd_allocs, addr)
      /\ avail' \in {avail, avail \cup {addr}} /\ held' = held \ {addr}
  <2>1. CASE PA!Free(addr)
    BY <2>1 DEF cmd_pmm_free, testVars, PA!Free
  <2>2. CASE PA!FreeIgnored(addr)
    <3>1. addr \notin held /\ UNCHANGED <<avail, held>>
      BY <2>2 DEF PA!FreeIgnored
    <3>2. held = held \ {addr}
      BY <3>1
    <3> QED BY <3>1, <3>2 DEF cmd_pmm_free, testVars
  <2> QED BY <2>1, <2>2 DEF cmd_pmm_free
<1>2. /\ PmmTested = {} /\ PmmTested' = {}
      /\ Entries = 1 .. Len(g_pmm_cmd_allocs) /\ Entries' = 1 .. Len(g_pmm_cmd_allocs')
  BY <1>1 DEF PmmTested, Entries
<1>3. PagesOf(avail, held, kernel, g_pmm_cmd_allocs, 1 .. Len(g_pmm_cmd_allocs), {})
  BY <1>2, PmmFacts
<1>4. PagesInv'
  <2>1. /\ PagesOf(avail, held \ {addr}, kernel, g_pmm_cmd_allocs',
                   1 .. Len(g_pmm_cmd_allocs'), {})
        /\ PagesOf(avail \cup {addr}, held \ {addr}, kernel, g_pmm_cmd_allocs',
                   1 .. Len(g_pmm_cmd_allocs'), {})
    BY <1>1, <1>3, FromArray
  <2> QED BY <1>1, <1>2, <2>1 DEF PagesInv
<1> QED BY <1>1, <1>4 DEF PmmInv, PmmTestInv

\* freeall gives the tracked pages back one after the other.
LEMMA PmmFreeallRoundStep ==
    ASSUME PmmInv, RestInv', pmm_freeall_round
    PROVE  PmmInv'
<1> DEFINE n == Len(g_pmm_cmd_allocs)
           k == n - left + 1
<1>1. cmd = "pmm freeall" /\ kernel' = kernel /\ PmmTested = {}
  BY DEF pmm_freeall_round, PmmTested
<1>2. n \in Nat /\ left \in 0 .. n /\ Entries = n - left + 1 .. n
  BY <1>1, PmmFacts DEF PmmInv, PagesInv, Entries
<1>3. CASE left = 0
  <2>1. /\ g_pmm_cmd_allocs' = << >> /\ cmd' = "idle" /\ UNCHANGED <<avail, held>>
    BY <1>3 DEF pmm_freeall_round, Return
  <2>2. Entries = {}
    <3> HIDE DEF n
    <3> QED BY <1>2, <1>3
  <2>3. PagesOf(avail, held, kernel, << >>, 1 .. Len(<< >>), {})
    BY <1>1, <2>2, PmmFacts, ClearArray
  <2>4. Entries' = 1 .. Len(<< >>) /\ PmmTested' = {}
    BY <2>1 DEF Entries, PmmTested
  <2>5. PagesInv'
    BY <1>1, <2>1, <2>3, <2>4 DEF PagesInv
  <2> QED BY <2>1, <2>5 DEF PmmInv, PmmTestInv
<1>4. CASE left # 0
  <2>1. /\ PA!Free(g_pmm_cmd_allocs[k]) \/ PA!FreeIgnored(g_pmm_cmd_allocs[k])
        /\ left' = left - 1 /\ UNCHANGED <<g_pmm_cmd_allocs, cmd>>
    BY <1>4 DEF pmm_freeall_round, testVars
  <2>2. /\ k \in Entries /\ left' \in 0 .. n
        /\ n - (left - 1) + 1 .. n = Entries \ {k}
    <3> HIDE DEF n
    <3> QED BY <1>2, <1>4, <2>1
  <2>3. Entries' = Entries \ {k} /\ PmmTested' = {}
    BY <1>1, <2>1, <2>2 DEF Entries, PmmTested
  <2> HIDE DEF k
  <2>4. g_pmm_cmd_allocs[k] \in held
    BY <2>2, PmmFacts DEF PagesOf
  <2>5. avail' = avail \cup {g_pmm_cmd_allocs[k]} /\ held' = held \ {g_pmm_cmd_allocs[k]}
    BY <2>1, <2>4, FreeFacts
  <2>6. PagesOf(avail', held', kernel, g_pmm_cmd_allocs, Entries \ {k}, {})
    BY <1>1, <2>2, <2>5, PmmFacts, FromEntry
  <2>7. PagesInv'
    BY <1>1, <2>1, <2>2, <2>3, <2>6 DEF PagesInv
  <2> QED BY <1>1, <2>1, <2>7 DEF PmmInv, PmmTestInv
<1> QED BY <1>3, <1>4

\* The self test begins with what is free.
LEMMA PmmTestBegins ==
    ASSUME PmmInv, RestInv', cmd_pmm_test
    PROVE  PmmInv'
<1>1. /\ cmd = "idle" /\ cmd' = "pmm test" /\ test' = 1 /\ loop' = "take"
      /\ start' = Cardinality(avail) /\ mine' = mine /\ pass' = pass
      /\ UNCHANGED <<avail, held, kernel, g_pmm_cmd_allocs, left>>
  BY DEF cmd_pmm_test, Begin, pmmVars
<1>2. DOMAIN mine = {} /\ pass = TRUE
  BY <1>1 DEF PmmInv, RestInv
<1>3. Entries' = Entries /\ PmmTested = {} /\ PmmTested' = {}
  BY <1>1, <1>2, EmptyRange DEF Entries, PmmTested
<1>4. PagesInv'
  BY <1>1, <1>3, PmmFacts DEF PagesInv
<1>5. SlotsOf(PmmTests)'
  <2>1. 1 .. 1 # {} /\ 1 \in 1 .. 5
    OBVIOUS
  <2>2. test' \in 1 .. Len(PmmTests) /\ Len(PmmTests[test'].wants) = 1
    BY <1>1, <2>1, PmmTestFacts
  <2> QED BY <1>1, <1>2, <2>1, <2>2 DEF SlotsOf
<1>6. start' = Cardinality(avail') + Cardinality(DOMAIN mine')
  <2>1. Cardinality(avail) \in Nat
    <3>1. IsFiniteSet(avail)
      BY PmmFacts, CmdPmmAssumption, FS_Subset DEF PagesOf
    <3> QED BY <3>1, FS_CardinalityType
  <2>2. Cardinality(DOMAIN mine) = 0
    BY <1>2, FS_EmptySet
  <2>3. Cardinality(avail) = Cardinality(avail) + Cardinality(DOMAIN mine)
    BY <2>1, <2>2
  <2> QED BY <1>1, <2>3
<1>7. IsInjective(mine')
  BY <1>1, <1>2 DEF IsInjective
<1> QED BY <1>1, <1>2, <1>4, <1>5, <1>6, <1>7 DEF PmmInv, PmmTestInv

\* What is common to the steps of the self test.
LEMMA PmmTestSteps ==
    ASSUME PmmInv, cmd = "pmm test"
    PROVE  /\ test \in 1 .. 5 /\ Len(PmmTests[test].wants) \in Nat
           /\ DOMAIN mine \subseteq 1 .. Len(PmmTests[test].wants)
           /\ Cardinality(avail) \in Nat /\ IsFiniteSet(avail)
           /\ Cardinality(DOMAIN mine) \in Nat
           /\ PmmTested = Range(mine)
<1>1. IsFiniteSet(avail)
  BY PmmFacts, CmdPmmAssumption, FS_Subset DEF PagesOf
<1>2. test \in 1 .. 5 /\ DOMAIN mine \subseteq 1 .. Len(PmmTests[test].wants)
  BY PmmTestFacts DEF PmmInv, PmmTestInv, SlotsOf
<1>3. Len(PmmTests[test].wants) \in Nat
  BY <1>2, PmmTestFacts
<1> QED BY <1>1, <1>2, <1>3, SlotCount, FS_CardinalityType DEF PmmTested

\* A page is granted, or refused.
LEMMA PmmTestTakes ==
    ASSUME PmmInv, RestInv', pmm_test_take
    PROVE  PmmInv'
<1>1. /\ cmd = "pmm test" /\ loop = "take"
      /\ UNCHANGED <<kernel, g_pmm_cmd_allocs>>
  BY DEF pmm_test_take, Taking, PmmInv, PmmTestInv
<1>2. Entries = 1 .. Len(g_pmm_cmd_allocs) /\ PmmTested = Range(mine)
  BY <1>1 DEF Entries, PmmTested
<1>3. CASE PA!Alloc /\ Took(PmmTests[test], ret'.page)
  <2> DEFINE k == FreeSlot(PmmTests[test])
  <2>1. PICK p \in avail : avail' = avail \ {p} /\ held' = held \cup {p} /\ ret'.page = p
    BY <1>3, AllocFacts
  <2>2. /\ UNCHANGED <<cmd, test, start, pass>>
        /\ loop' = IF DOMAIN mine' # 1 .. Len(PmmTests[test].wants) THEN "take" ELSE "check"
    BY <1>1, <1>3 DEF Took
  <2>3. /\ DOMAIN mine \subseteq 1 .. Len(PmmTests[test].wants)
        /\ DOMAIN mine # 1 .. Len(PmmTests[test].wants)
    BY <1>1, PmmTestSteps DEF PmmInv, PmmTestInv, SlotsOf
  <2>4. /\ k \in (1 .. Len(PmmTests[test].wants)) \ DOMAIN mine
        /\ DOMAIN mine' = DOMAIN mine \cup {k} /\ mine'[k] = p
        /\ \A s \in DOMAIN mine : mine'[s] = mine[s]
        /\ Range(mine') = Range(mine) \cup {p}
    BY <1>3, <2>1, <2>3, TookFacts
  <2> HIDE DEF k
  <2>5. Entries' = Entries /\ PmmTested' = PmmTested \cup {p}
    BY <1>1, <1>2, <2>2, <2>4 DEF Entries, PmmTested
  <2>6. PagesInv'
    BY <1>1, <2>1, <2>2, <2>5, PmmFacts, ToTest DEF PagesInv
  <2>7. SlotsOf(PmmTests)'
    <3>1. test \in 1 .. Len(PmmTests)
      BY <1>1 DEF PmmInv, PmmTestInv, SlotsOf
    <3>2. DOMAIN mine' \subseteq 1 .. Len(PmmTests[test].wants)
      BY <2>3, <2>4
    <3> QED BY <2>2, <3>1, <3>2 DEF SlotsOf
  <2>8. IsInjective(mine')
    <3>1. p \notin Range(mine)
      BY <1>2, PmmFacts DEF PagesOf
    <3>2. IsInjective(mine)
      BY <1>1 DEF PmmInv, PmmTestInv
    <3> QED BY <2>4, <3>1, <3>2 DEF IsInjective, Range
  <2>9. start' = Cardinality(avail') + Cardinality(DOMAIN mine')
    <3>1. Cardinality(DOMAIN mine') = Cardinality(DOMAIN mine) + 1
      BY <1>1, <2>4, SlotCount, PmmTestSteps
    <3>2. Cardinality(avail') = Cardinality(avail) - 1
      BY <1>1, <2>1, FS_RemoveElement, PmmTestSteps
    <3>3. start = Cardinality(avail) + Cardinality(DOMAIN mine)
      BY <1>1 DEF PmmInv, PmmTestInv
    <3>4. Cardinality(avail) \in Nat /\ Cardinality(DOMAIN mine) \in Nat
      BY <1>1, PmmTestSteps
    <3>5. start = Cardinality(avail) - 1 + (Cardinality(DOMAIN mine) + 1)
      BY <3>3, <3>4
    <3> QED BY <2>2, <3>1, <3>2, <3>5
  <2>10. pass' = TRUE
    <3>1. pass \in BOOLEAN /\ pass
      BY <1>1 DEF PmmInv, PmmTestInv, RestInv
    <3> QED BY <2>2, <3>1
  <2> QED BY <1>1, <2>2, <2>6, <2>7, <2>8, <2>9, <2>10 DEF PmmInv, PmmTestInv
<1>4. CASE PA!AllocFails /\ Refused(PmmTests)
  <2>1. UNCHANGED <<avail, held>>
    BY <1>4 DEF PA!AllocFails
  <2> DEFINE t == PmmTests[test]
  <2>2. CASE t.refused = "return"
    <3>1. cmd' = "idle"
      BY <1>1, <1>4, <2>2 DEF Refused, Return
    <3>2. DOMAIN mine = {}
      <4>1. DOMAIN mine \subseteq 1 .. Len(t.wants) /\ DOMAIN mine # 1 .. Len(t.wants)
        BY <1>1, PmmTestSteps DEF PmmInv, PmmTestInv, SlotsOf
      <4>2. Len(t.wants) = 1
        BY <1>1, <2>2, PmmTestFacts, PmmTestSteps
      <4>3. 1 .. 1 = {1}
        OBVIOUS
      <4> HIDE DEF t
      <4> QED BY <4>1, <4>2, <4>3
    <3>3. Entries' = Entries /\ PmmTested' = PmmTested
      BY <1>1, <1>2, <3>1, <3>2, EmptyRange DEF Entries, PmmTested
    <3>4. PagesInv'
      BY <1>1, <2>1, <3>1, <3>3, PmmFacts DEF PagesInv
    <3> QED BY <3>1, <3>4 DEF PmmInv, PmmTestInv
  <2>3. CASE t.refused # "return"
    <3>1. t.refused \in {"undo", "keep"} /\ (t.fails => t.refused # "keep")
      BY <1>1, <2>3, PmmTestFacts, PmmTestSteps
    <3>2. /\ UNCHANGED <<cmd, mine, start, test>>
          /\ pass' = (pass /\ ~t.fails)
          /\ t.refused = "undo" => loop' = "undo"
          /\ t.refused = "keep" => loop' = "check"
      BY <1>1, <1>4, <2>3, <3>1 DEF Refused
    <3>3. Entries' = Entries /\ PmmTested' = PmmTested
      BY <1>1, <1>2, <3>2 DEF Entries, PmmTested
    <3>4. PagesInv'
      BY <1>1, <2>1, <3>2, <3>3, PmmFacts DEF PagesInv
    <3>5. pass' \/ loop' = "undo"
      BY <1>1, <3>1, <3>2 DEF PmmInv, PmmTestInv
    <3>6. SlotsOf(PmmTests)' /\ loop' \in {"undo", "check"}
      BY <1>1, <3>1, <3>2 DEF PmmInv, PmmTestInv, SlotsOf
    <3> QED BY <1>1, <2>1, <3>2, <3>4, <3>5, <3>6 DEF PmmInv, PmmTestInv
  <2> QED BY <2>2, <2>3
<1> QED BY <1>3, <1>4 DEF pmm_test_take

\* The test looks at what it has taken: as it expects.
LEMMA PmmTestChecks ==
    ASSUME PmmInv, RestInv', pmm_test_check
    PROVE  PmmInv'
<1>1. /\ cmd = "pmm test" /\ loop = "check" /\ pass' = (pass /\ PmmExpects)
      /\ loop' = IF PmmTests[test].holes THEN "holes" ELSE "give"
      /\ UNCHANGED <<cmd, test, mine, start, avail, held, kernel, g_pmm_cmd_allocs, left>>
  BY DEF pmm_test_check, Checks, pmmVars
<1>2. loop' = "give"
  BY <1>1, PmmTestFacts, PmmTestSteps
<1>3. Entries' = Entries /\ PmmTested' = PmmTested
  BY <1>1 DEF Entries, PmmTested
<1>4. PagesInv'
  BY <1>1, <1>3 DEF PmmInv, PagesInv
<1>5. PmmExpects
  <2>1. start = Cardinality(avail) + Cardinality(DOMAIN mine) /\ IsInjective(mine)
    BY <1>1 DEF PmmInv, PmmTestInv
  <2>2. Cardinality(avail) \in Nat /\ Cardinality(DOMAIN mine) \in Nat
    BY <1>1, PmmTestSteps
  <2>3. Cardinality(avail) = start - Cardinality(DOMAIN mine)
    BY <2>1, <2>2
  <2> QED BY <2>1, <2>3 DEF PmmExpects
<1>6. pass'
  BY <1>1, <1>5 DEF PmmInv, PmmTestInv
<1>7. SlotsOf(PmmTests)'
  BY <1>1, <1>2 DEF PmmInv, PmmTestInv, SlotsOf
<1> QED BY <1>1, <1>2, <1>4, <1>6, <1>7 DEF PmmInv, PmmTestInv

\* A page goes back.
LEMMA PmmTestGives ==
    ASSUME PmmInv, RestInv', pmm_test_give
    PROVE  PmmInv'
<1> DEFINE k == GiveSlot
<1>1. /\ cmd = "pmm test" /\ loop \in {"give", "undo"} /\ DOMAIN mine # {}
      /\ PA!Free(mine[k]) \/ PA!FreeIgnored(mine[k])
      /\ Gave /\ UNCHANGED <<kernel, g_pmm_cmd_allocs, left>>
  BY DEF pmm_test_give, Giving, PmmInv, PmmTestInv
<1>2. UNCHANGED <<cmd, test, start, pass, loop>>
  BY <1>1 DEF Gave
<1>3. IsInjective(mine)
  BY <1>1 DEF PmmInv, PmmTestInv
<1>4. /\ k \in DOMAIN mine /\ DOMAIN mine' = DOMAIN mine \ {k}
      /\ \A s \in DOMAIN mine' : mine'[s] = mine[s]
      /\ Range(mine') = Range(mine) \ {mine[k]}
  BY <1>1, <1>3, PmmTestSteps, GaveFacts
<1> HIDE DEF k
<1>5. mine[k] \in PmmTested /\ mine[k] \in held /\ mine[k] \notin avail
  <2>1. mine[k] \in PmmTested
    BY <1>1, <1>4, PmmTestSteps DEF Range
  <2> QED BY <2>1, PmmFacts DEF PagesOf
<1>6. avail' = avail \cup {mine[k]} /\ held' = held \ {mine[k]}
  BY <1>1, <1>5, FreeFacts
<1>7. Entries' = Entries /\ PmmTested' = PmmTested \ {mine[k]}
  BY <1>1, <1>2, <1>4 DEF Entries, PmmTested
<1>8. PagesInv'
  BY <1>1, <1>2, <1>5, <1>6, <1>7, PmmFacts, FromTest DEF PagesInv
<1>9. SlotsOf(PmmTests)'
  BY <1>1, <1>2, <1>4 DEF PmmInv, PmmTestInv, SlotsOf
<1>10. IsInjective(mine')
  BY <1>3, <1>4 DEF IsInjective
<1>11. start' = Cardinality(avail') + Cardinality(DOMAIN mine')
  <2>1. Cardinality(DOMAIN mine') = Cardinality(DOMAIN mine) - 1
    BY <1>1, <1>4, SlotCount, PmmTestSteps
  <2>2. Cardinality(avail') = Cardinality(avail) + 1
    BY <1>1, <1>5, <1>6, FS_AddElement, PmmTestSteps
  <2>3. start = Cardinality(avail) + Cardinality(DOMAIN mine)
    BY <1>1 DEF PmmInv, PmmTestInv
  <2>4. Cardinality(avail) \in Nat /\ Cardinality(DOMAIN mine) \in Nat
    BY <1>1, PmmTestSteps
  <2>5. start = Cardinality(avail) + 1 + (Cardinality(DOMAIN mine) - 1)
    BY <2>3, <2>4
  <2> QED BY <1>2, <2>1, <2>2, <2>5
<1>12. (pass' \/ loop' = "undo") /\ loop' \in {"give", "undo"}
  BY <1>1, <1>2 DEF PmmInv, PmmTestInv
<1> QED BY <1>1, <1>2, <1>8, <1>9, <1>10, <1>11, <1>12 DEF PmmInv, PmmTestInv

\* One test is over and the next begins, or the verdict comes.
LEMMA PmmTestEnds ==
    ASSUME PmmInv, RestInv', pmm_test_over
    PROVE  PmmInv'
<1>1. /\ cmd = "pmm test" /\ loop \in {"give", "undo"} /\ mine = Nothing
      /\ UNCHANGED <<avail, held, kernel, g_pmm_cmd_allocs, left>>
  BY DEF pmm_test_over, Over, pmmVars
<1>2. DOMAIN mine = {} /\ PmmTested = {} /\ Entries = 1 .. Len(g_pmm_cmd_allocs)
  BY <1>1, NothingIsEmpty DEF PmmTested, Entries
<1>3. cmd' \in {"idle", "pmm test"} /\ DOMAIN mine' = {}
  BY <1>1, <1>2, NothingIsEmpty DEF pmm_test_over, Over, Return
<1>4. Entries' = Entries /\ PmmTested' = {}
  BY <1>1, <1>2, <1>3, EmptyRange DEF Entries, PmmTested
<1>5. PagesInv'
  BY <1>1, <1>2, <1>3, <1>4, PmmFacts DEF PagesInv
<1>6. CASE loop = "undo"
  BY <1>5, <1>6 DEF pmm_test_over, Over, Return, PmmInv, PmmTestInv
<1>7. CASE loop = "give"
  <2>1. /\ pass' = (pass /\ (test \in {1, 4} => Cardinality(avail) = start))
        /\ start' = Cardinality(avail) /\ UNCHANGED <<cmd, mine>>
        /\ IF test = 5 THEN loop' = "verdict" /\ UNCHANGED test
           ELSE /\ test' = test + 1
                /\ loop' = IF PmmTests[test + 1].wants = << >> THEN "check" ELSE "take"
    BY <1>1, <1>7, PmmTestFacts DEF pmm_test_over, Over
  <2>2. Cardinality(DOMAIN mine) = 0
    BY <1>2, FS_EmptySet
  <2>3. /\ Cardinality(avail) = Cardinality(avail) + Cardinality(DOMAIN mine)
        /\ start = Cardinality(avail)
    <3>1. start = Cardinality(avail) + Cardinality(DOMAIN mine)
      BY <1>1 DEF PmmInv, PmmTestInv
    <3>2. Cardinality(avail) \in Nat
      BY <1>1, PmmTestSteps
    <3> QED BY <2>2, <3>1, <3>2
  <2>4. pass'
    BY <1>1, <1>7, <2>1, <2>3 DEF PmmInv, PmmTestInv
  <2>5. SlotsOf(PmmTests)' /\ loop' \in {"verdict", "check", "take"}
    <3>1. CASE test = 5
      BY <1>1, <1>2, <2>1, <3>1 DEF PmmInv, PmmTestInv, SlotsOf
    <3>2. CASE test # 5
      <4>1. test + 1 \in 1 .. 5
        <5>1. test \in 1 .. 5
          BY <1>1, PmmTestSteps
        <5> QED BY <3>2, <5>1
      <4>2. PmmTests[test + 1].wants # << >> => 1 .. Len(PmmTests[test + 1].wants) # {}
        <5>1. PmmTests[test + 1].wants # << >> => Len(PmmTests[test + 1].wants) \in Nat \ {0}
          BY <4>1, PmmTestFacts
        <5>2. \A n \in Nat \ {0} : 1 .. n # {}
          OBVIOUS
        <5> QED BY <5>1, <5>2
      <4> QED BY <1>2, <1>3, <2>1, <3>2, <4>1, <4>2, PmmTestFacts DEF SlotsOf
    <3> QED BY <3>1, <3>2
  <2>6. IsInjective(mine')
    BY <1>3 DEF IsInjective
  <2> QED BY <1>1, <1>5, <2>1, <2>3, <2>4, <2>5, <2>6 DEF PmmInv, PmmTestInv
<1> QED BY <1>1, <1>6, <1>7

\* The VMM is not there, and the last test is left out.
LEMMA PmmTestSkips ==
    ASSUME PmmInv, RestInv', pmm_test_skip
    PROVE  PmmInv'
<1>1. /\ cmd = "pmm test" /\ test = 5 /\ loop = "take" /\ loop' = "verdict"
      /\ UNCHANGED <<cmd, test, mine, start, pass, avail, held, kernel, g_pmm_cmd_allocs, left>>
  BY DEF pmm_test_skip, pmmVars
<1>2. Entries' = Entries /\ PmmTested' = PmmTested
  BY <1>1 DEF Entries, PmmTested
<1>3. PagesInv'
  BY <1>1, <1>2 DEF PmmInv, PagesInv
<1>4. SlotsOf(PmmTests)'
  <2>1. DOMAIN mine \subseteq 1 .. Len(PmmTests[5].wants) /\ DOMAIN mine # 1 .. Len(PmmTests[5].wants)
    BY <1>1 DEF PmmInv, PmmTestInv, SlotsOf
  <2>2. Len(PmmTests[5].wants) = 1
    <3>1. PmmTests[5].wants = Pages(1)
      BY DEF PmmTests, Test
    <3> QED BY <3>1 DEF Pages
  <2>3. 1 .. 1 = {1}
    OBVIOUS
  <2>4. DOMAIN mine = {}
    BY <2>1, <2>2, <2>3
  <2> QED BY <1>1, <2>4 DEF PmmInv, PmmTestInv, SlotsOf
<1> QED BY <1>1, <1>3, <1>4 DEF PmmInv, PmmTestInv

\* At the start every page is free.
LEMMA PmmInitially == Init => PmmInv
<1> SUFFICES ASSUME Init PROVE PmmInv
  OBVIOUS
<1>1. /\ cmd = "idle" /\ avail = Page /\ held = {} /\ kernel = {}
      /\ g_pmm_cmd_allocs = << >>
  BY DEF Init, Idle, PmmInit
<1>2. Entries = {} /\ PmmTested = {}
  <2>1. Len(<< >>) = 0 /\ 1 .. 0 = {}
    OBVIOUS
  <2> QED BY <1>1, <2>1 DEF Entries, PmmTested
<1>3. PagesInv
  <2>1. << >> \in Seq(Page)
    OBVIOUS
  <2> QED BY <1>1, <1>2, <2>1 DEF PagesInv, PagesOf
<1> QED BY <1>1, <1>3, RestInit DEF PmmInv, PmmTestInv

\* Every step of the shell keeps the account of the pages.
LEMMA PmmStep ==
    ASSUME PmmInv, [Next]_vars
    PROVE  PmmInv'
<1>1. RestInv /\ RestInv'
  BY RestStep DEF PmmInv
<1>2. CASE PmmNext
  BY <1>1, <1>2, PmmKernelStep, PmmLoopStep, PmmAllocRoundStep, PmmFreeStep,
     PmmFreeallRoundStep, PmmTestBegins, PmmTestTakes, PmmTestChecks, PmmTestGives,
     PmmTestEnds, PmmTestSkips DEF PmmNext
<1>3. CASE UNCHANGED pmmVars /\ (HeapNext \/ VmaNext)
  <2>1. /\ cmd \notin {"pmm freeall", "pmm test"}
        /\ cmd' \notin {"pmm freeall", "pmm test"}
    BY <1>1, <1>3, HeapIsHeap, VmaIsVma
  <2> QED BY <1>1, <1>3, <2>1, PmmOther
<1>4. CASE Verdict /\ UNCHANGED pmmVars
  <2>1. cmd' = "idle" /\ UNCHANGED <<avail, held, kernel, g_pmm_cmd_allocs, left>>
    BY <1>4 DEF Verdict, Return, pmmVars
  <2>2. PmmTested = {} /\ PmmTested' = {} /\ Entries' = Entries
    <3>1. cmd = "pmm test" => DOMAIN mine = {}
      BY <1>4 DEF PmmInv, PmmTestInv, SlotsOf, Verdict
    <3>2. cmd # "pmm freeall"
      BY <1>1, <1>4 DEF Verdict, RestInv
    <3> QED BY <2>1, <3>1, <3>2, EmptyRange DEF PmmTested, Entries
  <2>3. PagesInv'
    BY <2>1, <2>2, PmmFacts DEF PagesInv
  <2> QED BY <1>1, <2>1, <2>3 DEF PmmInv, PmmTestInv
<1>5. CASE UNCHANGED vars
  <2>1. /\ UNCHANGED <<cmd, test, loop, mine, start, pass, denied>>
        /\ UNCHANGED <<avail, held, kernel, g_pmm_cmd_allocs, left>>
    BY <1>5 DEF vars, testVars, pmmVars
  <2>2. Entries' = Entries /\ PmmTested' = PmmTested
    BY <2>1 DEF Entries, PmmTested
  <2> QED BY <1>1, <2>1, <2>2 DEF PmmInv, PagesInv, PmmTestInv, SlotsOf
<1> QED BY <1>2, <1>3, <1>4, <1>5 DEF Next, shell_run_command

\* The pages in use are as many as the places that hold one.
LEMMA Placed ==
    ASSUME NEW a, NEW h, NEW k, NEW g, NEW e, NEW t, PagesOf(a, h, k, g, e, t),
           IsFiniteSet(Page), IsFiniteSet(e)
    PROVE  Cardinality(h) = Cardinality(k) + Cardinality(e) + Cardinality(t)
<1> DEFINE S == {g[i] : i \in e}
<1>1. IsFiniteSet(S) /\ Cardinality(S) = Cardinality(e)
  <2>1. \A i, j \in e : g[i] = g[j] => i = j
    BY DEF PagesOf
  <2> QED BY <2>1, Listed
<1>2. IsFiniteSet(k) /\ IsFiniteSet(t)
  <2>1. k \subseteq Page /\ t \subseteq Page
    BY DEF PagesOf
  <2> QED BY <2>1, FS_Subset
<1>3. /\ k \cap S = {} /\ k \cap t = {} /\ S \cap t = {} /\ h = k \cup S \cup t
  BY DEF PagesOf
<1> HIDE DEF S
<1> QED BY <1>1, <1>2, <1>3, ThreePlaces

\* The account gives the property the run checks.
LEMMA PmmInvImplies ==
    ASSUME PmmInv
    PROVE  PagesAccountedFor
<1> DEFINE n == Len(g_pmm_cmd_allocs)
           tested == IF cmd = "pmm test" THEN mine ELSE Nothing
           tracked == IF cmd = "pmm freeall" THEN ToFree ELSE Range(g_pmm_cmd_allocs)
           entries == IF cmd = "pmm freeall" THEN left ELSE n
<1>1. n \in Nat /\ DOMAIN g_pmm_cmd_allocs = 1 .. n
  BY PmmFacts
<1>2. Range(tested) = PmmTested
  BY NothingIsEmpty DEF PmmTested
<1>3. tracked = {g_pmm_cmd_allocs[i] : i \in Entries}
  BY <1>1 DEF ToFree, Entries, Range
<1>4. IsFiniteSet(Entries) /\ Cardinality(Entries) = entries
  <2>1. CASE cmd = "pmm freeall"
    <3>1. left \in 0 .. n /\ Entries = n - left + 1 .. n
      BY <2>1 DEF PmmInv, PagesInv, Entries
    <3> HIDE DEF n
    <3>2. /\ n - left + 1 \in Int /\ n \in Int
          /\ n - left + 1 =< n => n - (n - left + 1) + 1 = left
          /\ ~(n - left + 1 =< n) => left = 0
      BY <1>1, <3>1
    <3>3. /\ IsFiniteSet(n - left + 1 .. n)
          /\ Cardinality(n - left + 1 .. n) = IF n - left + 1 > n THEN 0 ELSE n - (n - left + 1) + 1
      BY <3>2, FS_Interval
    <3>4. Cardinality(n - left + 1 .. n) = left
      BY <1>1, <3>1, <3>3
    <3> QED BY <2>1, <3>1, <3>3, <3>4
  <2>2. CASE cmd # "pmm freeall"
    <3>1. Entries = 1 .. n
      BY <2>2 DEF Entries
    <3> HIDE DEF n
    <3>2. IsFiniteSet(1 .. n) /\ Cardinality(1 .. n) = IF 1 > n THEN 0 ELSE n - 1 + 1
      BY <1>1, FS_Interval
    <3>3. Cardinality(1 .. n) = n
      BY <1>1, <3>2
    <3> QED BY <2>2, <3>1, <3>2, <3>3
  <2> QED BY <2>1, <2>2
<1>5. Cardinality(DOMAIN tested) = Cardinality(PmmTested)
  <2>1. CASE cmd = "pmm test"
    <3>1. IsFiniteSet(DOMAIN mine) /\ \A i, j \in DOMAIN mine : mine[i] = mine[j] => i = j
      BY <2>1, PmmTestSteps, SlotCount DEF PmmInv, PmmTestInv, IsInjective
    <3>2. Cardinality({mine[i] : i \in DOMAIN mine}) = Cardinality(DOMAIN mine)
      BY <3>1, Listed
    <3> QED BY <2>1, <3>2 DEF PmmTested, Range
  <2>2. CASE cmd # "pmm test"
    BY <2>2, NothingIsEmpty DEF PmmTested
  <2> QED BY <2>1, <2>2
<1> HIDE DEF entries, tracked, tested
<1>6. Cardinality(held) = Cardinality(kernel) + entries + Cardinality(DOMAIN tested)
  BY <1>4, <1>5, Placed, PmmFacts, CmdPmmAssumption
<1>7. held = kernel \cup tracked \cup Range(tested)
  BY <1>2, <1>3, PmmFacts DEF PagesOf
<1> QED BY <1>6, <1>7 DEF PagesAccountedFor, entries, tracked, tested

\* Whatever commands the user enters, however long the tracking array gets and
\* whichever requests are refused, every page in use is one the kernel, the
\* tracking array of `pmm alloc' or the running self test holds, and none of
\* them is counted twice (cmd_pmm.c: pmm_cmd_track_add, pmm_cmd_track_remove,
\* pmm freeall and cmd_pmm_test).
THEOREM PagesAlwaysAccountedFor == Spec => []PagesAccountedFor
<1> QED BY PmmInitially, PmmStep, PmmInvImplies, PTL DEF Spec

-----------------------------------------------------------------------------
(* `heap' *)

HeapTested == IF cmd = "heap test" THEN Range(mine) ELSE {}

\* No two pieces have an address or a byte in common.
Separate(pieces) ==
    /\ \A q \in pieces : q.ptr % ALIGN = 0
    /\ \A q, r \in pieces :
          q # r => q.ptr # r.ptr /\ BA!Bytes(q) \cap BA!Bytes(r) = {}

\* Every piece is in one place: on the stack, in the array of the running
\* test, or lost.
PiecesOf(granted, stack, tested, gone) ==
    /\ Separate(granted)
    /\ stack \in Seq(granted)
    /\ \A i, j \in 1 .. Len(stack) : stack[i] = stack[j] => i = j
    /\ granted = {stack[i] : i \in 1 .. Len(stack)} \cup tested \cup gone
    /\ \A i \in 1 .. Len(stack) : stack[i] \notin tested \cup gone
    /\ tested \cap gone = {}
    /\ IsFiniteSet(gone)

PiecesInv == PiecesOf(live, s_slots, HeapTested, lost)

\* Where a test stands that refills the holes it makes, and what it can have
\* found wrong.
HeapTestInv ==
    cmd = "heap test" =>
       /\ SlotsOf(HeapTests)
       /\ loop \in {"clean", "take", "check", "holes", "refill", "give", "undo", "verdict"}
       /\ IsInjective(mine)
       /\ loop = "clean" => test = 1 /\ DOMAIN mine = {}
       /\ loop # "clean" => s_slots = << >>
       /\ loop \in {"holes", "refill"} => HeapTests[test].holes
       /\ loop = "holes" => \E s \in DOMAIN mine : s % 2 = 1
       /\ loop = "check" /\ HeapTests[test].holes => 1 \in DOMAIN mine
       /\ pass \in BOOLEAN
       /\ pass \/ denied \/ lost # {}

HeapInv == RestInv /\ PiecesInv /\ HeapTestInv

\* What `heap test' relies on in one of its tests.
GoodTest(t) ==
    /\ Len(t.wants) \in Nat
    /\ t.wants # << >> => Len(t.wants) # 0
    /\ t.refused \in {"return", "undo", "keep", "skip"}
    /\ t.refused = "skip" => Len(t.wants) = 1
    /\ t.holes \in BOOLEAN
    /\ t.holes => t.refused = "undo" /\ Len(t.wants) # 0

\* Two lists, one after the other.
LEMMA Concatenated ==
    ASSUME NEW X, NEW a \in Seq(X), NEW b \in Seq(X)
    PROVE  /\ a \o b \in Seq(X) /\ Len(a \o b) = Len(a) + Len(b)
           /\ \A i \in 1 .. Len(a) : (a \o b)[i] = a[i]
           /\ \A i \in 1 .. Len(a) + Len(b) :
                 i \notin 1 .. Len(a) => (a \o b)[i] = b[i - Len(a)] /\ i - Len(a) \in 1 .. Len(b)
  OBVIOUS

\* A test built from its parts is one `heap test' can run.
LEMMA TestIs ==
    ASSUME NEW w, Len(w) \in Nat, w # << >> => Len(w) # 0,
           NEW r \in {"return", "undo", "keep", "skip"}, NEW h \in BOOLEAN,
           r = "skip" => Len(w) = 1, h => r = "undo" /\ Len(w) # 0
    PROVE  /\ GoodTest(Test(w, r, TRUE, h))
           /\ Test(w, r, TRUE, h).refused = r /\ Test(w, r, TRUE, h).wants = w
<1>1. /\ Test(w, r, TRUE, h).refused = r /\ Test(w, r, TRUE, h).wants = w
      /\ Test(w, r, TRUE, h).holes = h
  BY DEF Test
<1> QED BY <1>1 DEF GoodTest

\* So is a test of one request.
LEMMA TestOfOne ==
    ASSUME NEW x, NEW r \in {"return", "skip", "keep"}
    PROVE  GoodTest(Test(<<x>>, r, TRUE, FALSE)) /\ Len(Test(<<x>>, r, TRUE, FALSE).wants) = 1
<1> DEFINE w == <<x>>
<1>1. Len(w) = 1 /\ 1 \in Nat /\ 1 # 0
  OBVIOUS
<1>2. r \in {"return", "undo", "keep", "skip"} /\ FALSE \in BOOLEAN
  OBVIOUS
<1> HIDE DEF w
<1>3. GoodTest(Test(w, r, TRUE, FALSE)) /\ Test(w, r, TRUE, FALSE).wants = w
  BY <1>1, <1>2, TestIs
<1> QED BY <1>1, <1>3 DEF w

\* The tests of do_test.
HeapTest(t) ==
    /\ t \in {1, 3} => HeapTests[t] = Test(<<SMALL>>, "return", TRUE, FALSE)
    /\ t = 2 => HeapTests[t] = Test(Mixed, "return", TRUE, FALSE)
    /\ t = 4 => HeapTests[t] = Test(Odd, "undo", TRUE, FALSE)
    /\ t = 5 => HeapTests[t] = FragmentationTest
    /\ t \in 6 .. 5 + Len(Increasing) =>
          \E i \in 1 .. Len(Increasing) : HeapTests[t] = IncreasingTests[i]
    /\ t = 6 + Len(Increasing) => HeapTests[t] = LargeTest

\* The list of tests is what do_test runs, the loop over growing sizes unrolled.
LEMMA HeapTestsAre ==
    /\ Len(HeapTests) = 6 + Len(Increasing)
    /\ \A t \in 1 .. Len(HeapTests) : HeapTest(t)
<1> DEFINE A == << Test(<<SMALL>>, "return", TRUE, FALSE), Test(Mixed, "return", TRUE, FALSE),
                   Test(<<SMALL>>, "return", TRUE, FALSE), Test(Odd, "undo", TRUE, FALSE),
                   FragmentationTest >>
           X == {A[i] : i \in 1 .. 5} \cup {IncreasingTests[i] : i \in 1 .. Len(Increasing)}
                \cup {LargeTest}
           n == Len(Increasing)
           B == A \o IncreasingTests
           C == <<LargeTest>>
<1>1. n \in Nat /\ DOMAIN Increasing = 1 .. n
  BY CmdHeapAssumption
<1>2. Len(A) = 5 /\ A = [i \in 1 .. 5 |-> A[i]]
  OBVIOUS
<1>3. /\ A[1] = Test(<<SMALL>>, "return", TRUE, FALSE) /\ A[2] = Test(Mixed, "return", TRUE, FALSE)
      /\ A[3] = Test(<<SMALL>>, "return", TRUE, FALSE) /\ A[4] = Test(Odd, "undo", TRUE, FALSE)
      /\ A[5] = FragmentationTest
  OBVIOUS
<1>4. HeapTests = B \o C
  BY DEF HeapTests
<1>5. C \in Seq(X) /\ Len(C) = 1 /\ C[1] = LargeTest
  <2> HIDE DEF A
  <2> QED OBVIOUS
<1>6. A \in Seq(X)
  <2> HIDE DEF A
  <2>1. \A i \in 1 .. 5 : A[i] \in X
    OBVIOUS
  <2> HIDE DEF X
  <2> QED BY <1>2, <2>1
<1>7. IncreasingTests \in Seq(X) /\ Len(IncreasingTests) = n
  <2>1. DOMAIN IncreasingTests = 1 .. n /\ IncreasingTests = [i \in 1 .. n |-> IncreasingTests[i]]
    BY <1>1 DEF IncreasingTests
  <2> HIDE DEF A
  <2>2. \A i \in 1 .. n : IncreasingTests[i] \in X
    OBVIOUS
  <2> HIDE DEF X
  <2> QED BY <1>1, <2>1, <2>2
<1> HIDE DEF A, X, C, n
<1>8. /\ B \in Seq(X) /\ Len(B) = 5 + n
      /\ \A t \in 1 .. 5 : B[t] = A[t]
      /\ \A t \in 1 .. 5 + n : t \notin 1 .. 5 => B[t] = IncreasingTests[t - 5] /\ t - 5 \in 1 .. n
  BY <1>2, <1>6, <1>7, Concatenated
<1> HIDE DEF B
<1>9. /\ Len(HeapTests) = 5 + n + 1
      /\ \A t \in 1 .. 5 + n : HeapTests[t] = B[t]
      /\ \A t \in 1 .. 5 + n + 1 : t \notin 1 .. 5 + n => HeapTests[t] = C[t - (5 + n)]
  <2>1. /\ Len(HeapTests) = Len(B) + Len(C)
        /\ \A t \in 1 .. Len(B) : HeapTests[t] = B[t]
        /\ \A t \in 1 .. Len(B) + Len(C) : t \notin 1 .. Len(B) => HeapTests[t] = C[t - Len(B)]
    BY <1>4, <1>5, <1>8, Concatenated
  <2> QED BY <1>5, <1>8, <2>1
<1>10. \A t \in 1 .. 5 : HeapTests[t] = A[t]
  <2>1. \A t \in 1 .. 5 : t \in 1 .. 5 + n
    BY <1>1
  <2> QED BY <1>8, <1>9, <2>1
<1>11. \A t \in 6 .. 5 + n : \E i \in 1 .. n : HeapTests[t] = IncreasingTests[i]
  <2>1. \A t \in 6 .. 5 + n : t \in 1 .. 5 + n /\ t \notin 1 .. 5
    BY <1>1
  <2> QED BY <1>8, <1>9, <2>1
<1>12. HeapTests[6 + n] = LargeTest
  <2>1. ASSUME NEW m, m = 6 + n PROVE HeapTests[m] = LargeTest
    <3>1. m \in 1 .. 5 + n + 1 /\ m \notin 1 .. 5 + n /\ m - (5 + n) = 1
      BY <1>1, <2>1
    <3>2. HeapTests[m] = C[m - (5 + n)]
      BY <1>9, <3>1
    <3> QED BY <1>5, <3>1, <3>2
  <2> QED BY <2>1
<1>13. 1 \in 1 .. 5 /\ 2 \in 1 .. 5 /\ 3 \in 1 .. 5 /\ 4 \in 1 .. 5 /\ 5 \in 1 .. 5 /\ 5 + n + 1 = 6 + n
  BY <1>1
<1> QED BY <1>3, <1>9, <1>10, <1>11, <1>12, <1>13 DEF HeapTest, n

\* What the proofs use of that list: only a test of several requests may give
\* up half way, and that is the second.
LEMMA HeapTestFacts ==
    /\ Len(HeapTests) \in Nat /\ Len(HeapTests) >= 6
    /\ 1 \in 1 .. Len(HeapTests) /\ Len(HeapTests) \in 1 .. Len(HeapTests)
    /\ \A t \in 1 .. Len(HeapTests) :
          /\ GoodTest(HeapTests[t])
          /\ t = 2 => HeapTests[t].refused = "return"
          /\ HeapTests[t].refused = "return" => t = 2 \/ Len(HeapTests[t].wants) = 1
    /\ Len(HeapTests[1].wants) = 1
    /\ Len(HeapTests[Len(HeapTests)].wants) = 1
<1> DEFINE n == Len(Increasing)
           F == [i \in 1 .. FRAG_N |-> SMALL]
<1>1. /\ \A w \in Seq(Nat) : Len(w) \in Nat /\ (w # << >> => Len(w) # 0)
      /\ \A w : w \in Seq(Nat) => w \in Seq(Nat)
  OBVIOUS
<1>2. Mixed \in Seq(Nat) /\ Odd \in Seq(Nat) /\ n \in Nat /\ DOMAIN Increasing = 1 .. n
  BY CmdHeapAssumption
<1>3. /\ Len(F) \in Nat /\ Len(F) # 0
  BY CmdHeapAssumption
<1>4. /\ GoodTest(Test(<<SMALL>>, "return", TRUE, FALSE))
      /\ Len(Test(<<SMALL>>, "return", TRUE, FALSE).wants) = 1
  BY TestOfOne
<1>5. GoodTest(Test(Mixed, "return", TRUE, FALSE)) /\ GoodTest(Test(Odd, "undo", TRUE, FALSE))
  BY <1>1, <1>2, TestIs
<1>6. GoodTest(FragmentationTest)
  BY <1>3, TestIs DEF FragmentationTest
<1>7. \A i \in 1 .. n : GoodTest(IncreasingTests[i])
  BY <1>2, TestOfOne DEF IncreasingTests
<1>8. GoodTest(LargeTest) /\ Len(LargeTest.wants) = 1
  BY TestOfOne DEF LargeTest
<1>9. /\ Test(Mixed, "return", TRUE, FALSE).refused = "return"
      /\ Test(Odd, "undo", TRUE, FALSE).refused = "undo"
      /\ FragmentationTest.refused = "undo"
      /\ \A i \in 1 .. n : IncreasingTests[i].refused = "skip"
      /\ LargeTest.refused = "keep"
  BY <1>2 DEF Test, FragmentationTest, IncreasingTests, LargeTest
<1>10. ASSUME NEW t \in 1 .. Len(HeapTests)
       PROVE  /\ GoodTest(HeapTests[t])
              /\ t = 2 => HeapTests[t].refused = "return"
              /\ HeapTests[t].refused = "return" => t = 2 \/ Len(HeapTests[t].wants) = 1
  <2>1. HeapTest(t) /\ Len(HeapTests) = 6 + n
    BY HeapTestsAre
  <2>2. t \in {1, 3} \/ t = 2 \/ t = 4 \/ t = 5 \/ t \in 6 .. 5 + n \/ t = 6 + n
    <3> HIDE DEF n
    <3> QED BY <1>2, <2>1
  <2>3. t \in {1, 3} \/ t = 4 \/ t = 5 \/ t \in 6 .. 5 + n \/ t = 6 + n => t # 2
    <3> HIDE DEF n
    <3> QED BY <1>2
  <2>4. CASE t \in {1, 3}
    <3>1. HeapTests[t] = Test(<<SMALL>>, "return", TRUE, FALSE)
      BY <2>1, <2>4 DEF HeapTest
    <3> QED BY <1>4, <2>3, <2>4, <3>1
  <2>5. CASE t = 2
    BY <1>5, <1>9, <2>1, <2>5 DEF HeapTest
  <2>6. CASE t = 4
    BY <1>5, <1>9, <2>1, <2>3, <2>6 DEF HeapTest
  <2>7. CASE t = 5
    BY <1>6, <1>9, <2>1, <2>3, <2>7 DEF HeapTest
  <2>8. CASE t \in 6 .. 5 + n
    BY <1>7, <1>9, <2>1, <2>3, <2>8 DEF HeapTest
  <2>9. CASE t = 6 + n
    BY <1>8, <1>9, <2>1, <2>3, <2>9 DEF HeapTest
  <2> QED BY <2>2, <2>4, <2>5, <2>6, <2>7, <2>8, <2>9
<1>11. /\ Len(HeapTests) \in Nat /\ Len(HeapTests) >= 6
       /\ 1 \in 1 .. Len(HeapTests) /\ Len(HeapTests) \in 1 .. Len(HeapTests)
  <2> HIDE DEF n
  <2>1. Len(HeapTests) = 6 + n
    BY HeapTestsAre DEF n
  <2> QED BY <1>2, <2>1
<1>12. Len(HeapTests[1].wants) = 1
  BY <1>4, <1>11, HeapTestsAre DEF HeapTest
<1>13. Len(HeapTests[Len(HeapTests)].wants) = 1
  BY <1>8, <1>11, HeapTestsAre DEF HeapTest
<1> QED BY <1>10, <1>11, <1>12, <1>13

-----------------------------------------------------------------------------
(* What the calls of the heap do to the places pieces are in *)

\* A list of members of one set is a list over any set that has them all.
LEMMA InLarger ==
    ASSUME NEW S, NEW T, NEW s \in Seq(S), \A i \in 1 .. Len(s) : s[i] \in T
    PROVE  s \in Seq(T)
  OBVIOUS

\* q can be added to the pieces.
New(pieces, q) ==
    /\ q.ptr % ALIGN = 0
    /\ \A r \in pieces : r.ptr # q.ptr /\ BA!Bytes(r) \cap BA!Bytes(q) = {}

\* kmalloc and kfree, seen from a caller.
LEMMA Granted ==
    ASSUME NEW n, BA!Alloc(n)
    PROVE  \E q : q = BA!Piece(ret'.ptr, n) /\ New(live, q) /\ live' = live \cup {q}
<1>1. PICK p : /\ ret'.ptr = p /\ p % ALIGN = 0
               /\ \A r \in live : r.ptr # p /\ BA!Bytes(r) \cap BA!Bytes(BA!Piece(p, n)) = {}
               /\ live' = live \cup {BA!Piece(p, n)}
  BY DEF BA!Alloc, BA!Answer
<1>2. BA!Piece(p, n).ptr = p
  BY DEF BA!Piece
<1> QED BY <1>1, <1>2 DEF New

\* Freeing a piece that is live takes out that piece and no other.
LEMMA Freed ==
    ASSUME NEW s, NEW t, NEW o, PiecesOf(live, s, t, o), NEW q \in live,
           BA!Free(q.ptr) \/ BA!FreeIgnored(q.ptr)
    PROVE  live' = live \ {q}
  BY DEF BA!Free, BA!FreeIgnored, PiecesOf, Separate

\* A piece that is apart from all others was not among them.
LEMMA Fresh ==
    ASSUME NEW l, NEW s, NEW t, NEW o, PiecesOf(l, s, t, o), NEW q, New(l, q)
    PROVE  q \notin l /\ Separate(l \cup {q}) /\ s \in Seq(l \cup {q})
<1>1. s \in Seq(l) /\ \A i \in 1 .. Len(s) : s[i] \in l \cup {q}
  BY DEF PiecesOf
<1>2. s \in Seq(l \cup {q})
  BY <1>1, InLarger
<1>3. q \notin l
  BY DEF New
<1>4. Separate(l \cup {q})
  BY DEF PiecesOf, Separate, New
<1> QED BY <1>2, <1>3, <1>4

\* A piece is put on the stack.
LEMMA Pushed ==
    ASSUME NEW l, NEW s, NEW t, NEW o, PiecesOf(l, s, t, o), NEW q, New(l, q)
    PROVE  PiecesOf(l \cup {q}, Append(s, q), t, o)
<1> DEFINE a == Append(s, q)
<1>1. s \in Seq(l \cup {q}) /\ q \notin l /\ Separate(l \cup {q})
  BY Fresh
<1>2. Len(s) \in Nat /\ a \in Seq(l \cup {q}) /\ Len(a) = Len(s) + 1
      /\ a[Len(s) + 1] = q /\ \A i \in 1 .. Len(s) : a[i] = s[i]
  BY <1>1
<1>3. 1 .. Len(a) = 1 .. Len(s) \cup {Len(s) + 1} /\ Len(s) + 1 \notin 1 .. Len(s)
  BY <1>2
<1> HIDE DEF a
<1>4. {a[i] : i \in 1 .. Len(a)} = {s[i] : i \in 1 .. Len(s)} \cup {q}
  BY <1>2, <1>3
<1>5. \A i \in 1 .. Len(s) : s[i] \in l
  BY DEF PiecesOf
<1>6. \A i, j \in 1 .. Len(a) : a[i] = a[j] => i = j
  BY <1>1, <1>2, <1>3, <1>5 DEF PiecesOf
<1>7. \A i \in 1 .. Len(a) : a[i] \notin t \cup o
  BY <1>1, <1>2, <1>3 DEF PiecesOf
<1>8. l \cup {q} = {a[i] : i \in 1 .. Len(a)} \cup t \cup o
  BY <1>4 DEF PiecesOf
<1> QED BY <1>1, <1>2, <1>6, <1>7, <1>8 DEF PiecesOf, a

\* The last piece of the stack is freed.
LEMMA Popped ==
    ASSUME NEW l, NEW s, NEW t, NEW o, PiecesOf(l, s, t, o), s # << >>
    PROVE  /\ s[Len(s)] \in l
           /\ PiecesOf(l \ {s[Len(s)]}, SubSeq(s, 1, Len(s) - 1), t, o)
<1> DEFINE n == Len(s)
           a == SubSeq(s, 1, n - 1)
<1>1. s \in Seq(l) /\ n \in Nat \ {0}
  <2>1. s \in Seq(l)
    BY DEF PiecesOf
  <2> QED BY <2>1
<1> HIDE DEF n
<1>2. a \in Seq(l) /\ Len(a) = n - 1 /\ \A i \in 1 .. n - 1 : a[i] = s[i]
  <2>1. n = Len(s)
    BY DEF n
  <2> QED BY <1>1, <2>1
<1>3. 1 .. n = 1 .. Len(a) \cup {n} /\ n \notin 1 .. Len(a) /\ \A i \in 1 .. Len(a) : a[i] = s[i]
  BY <1>1, <1>2
<1>4. /\ \A i, j \in 1 .. n : s[i] = s[j] => i = j
      /\ \A i \in 1 .. n : s[i] \notin t \cup o
      /\ l = {s[i] : i \in 1 .. n} \cup t \cup o
  BY DEF PiecesOf, n
<1> HIDE DEF a
<1>5. \A i \in 1 .. Len(a) : a[i] \in l \ {s[n]}
  BY <1>3, <1>4
<1>6. a \in Seq(l \ {s[n]})
  BY <1>2, <1>5, InLarger
<1>7. l \ {s[n]} = {a[i] : i \in 1 .. Len(a)} \cup t \cup o
  <2>1. ASSUME NEW x \in l \ {s[n]} PROVE x \in {a[i] : i \in 1 .. Len(a)} \cup t \cup o
    BY <1>3, <1>4
  <2>2. t \cup o \subseteq l \ {s[n]}
    BY <1>3, <1>4
  <2> QED BY <1>5, <2>1, <2>2
<1>8. /\ \A i, j \in 1 .. Len(a) : a[i] = a[j] => i = j
      /\ \A i \in 1 .. Len(a) : a[i] \notin t \cup o
  BY <1>3, <1>4
<1>9. s[n] \in l
  BY <1>3, <1>4
<1>10. PiecesOf(l \ {s[n]}, a, t, o)
  BY <1>6, <1>7, <1>8 DEF PiecesOf, Separate
<1> QED BY <1>9, <1>10 DEF n, a

\* The self test takes a piece and frees it.
LEMMA Taken ==
    ASSUME NEW l, NEW s, NEW t, NEW o, PiecesOf(l, s, t, o), NEW q, New(l, q)
    PROVE  PiecesOf(l \cup {q}, s, t \cup {q}, o)
<1>1. q \notin l /\ s \in Seq(l \cup {q}) /\ Separate(l \cup {q})
  BY Fresh
<1> QED BY <1>1 DEF PiecesOf

\* The self test frees a piece it has.
LEMMA Given ==
    ASSUME NEW l, NEW s, NEW t, NEW o, PiecesOf(l, s, t, o), NEW q \in t
    PROVE  q \in l /\ PiecesOf(l \ {q}, s, t \ {q}, o)
<1>1. q \in l /\ s \in Seq(l) /\ \A i \in 1 .. Len(s) : s[i] \in l \ {q}
  BY DEF PiecesOf
<1>2. s \in Seq(l \ {q})
  BY <1>1, InLarger
<1>3. Separate(l \ {q})
  BY DEF PiecesOf, Separate
<1> QED BY <1>1, <1>2, <1>3 DEF PiecesOf

\* The self test returns without freeing what it has.
LEMMA Lost ==
    ASSUME NEW l, NEW s, NEW t, NEW o, PiecesOf(l, s, t, o), IsFiniteSet(t)
    PROVE  PiecesOf(l, s, {}, o \cup t)
<1>1. IsFiniteSet(o \cup t)
  BY FS_Union DEF PiecesOf
<1> QED BY <1>1 DEF PiecesOf

-----------------------------------------------------------------------------
(* The actions of `heap' *)

\* Every piece is in one place, and the stack holds live pieces.
LEMMA HeapFacts ==
    ASSUME HeapInv
    PROVE  /\ PiecesOf(live, s_slots, HeapTested, lost)
           /\ s_slots \in Seq(live) /\ Len(s_slots) \in Nat
<1>1. PiecesOf(live, s_slots, HeapTested, lost)
  BY DEF HeapInv, PiecesInv
<1>2. s_slots \in Seq(live)
  BY <1>1 DEF PiecesOf
<1> QED BY <1>1, <1>2

\* The other commands leave the pieces alone.
LEMMA HeapOther ==
    ASSUME HeapInv, RestInv', UNCHANGED heapVars, cmd # "heap test", cmd' # "heap test"
    PROVE  HeapInv'
<1>1. UNCHANGED <<live, s_slots, lost>> /\ HeapTested' = HeapTested
  BY DEF heapVars, HeapTested
<1>2. PiecesInv'
  BY <1>1 DEF HeapInv, PiecesInv
<1> QED BY <1>2 DEF HeapInv, HeapTestInv

\* `heap alloc'.
LEMMA HeapAllocStep ==
    ASSUME HeapInv, RestInv', NEW n \in Sizes, do_alloc(n)
    PROVE  HeapInv'
<1>1. cmd = "idle" /\ cmd' = "idle" /\ lost' = lost
  BY DEF do_alloc, testVars
<1>2. HeapTested' = HeapTested
  BY <1>1 DEF HeapTested
<1>3. CASE BA!Alloc(n) /\ s_slots' = Append(s_slots, BA!Piece(ret'.ptr, n))
  <2>1. PICK q : /\ q = BA!Piece(ret'.ptr, n) /\ New(live, q) /\ live' = live \cup {q}
    BY <1>3, Granted
  <2>2. PiecesOf(live \cup {q}, Append(s_slots, q), HeapTested, lost)
    BY <2>1, HeapFacts, Pushed
  <2>3. PiecesInv'
    BY <1>1, <1>2, <1>3, <2>1, <2>2 DEF PiecesInv
  <2> QED BY <1>1, <2>3 DEF HeapInv, HeapTestInv
<1>4. CASE BA!AllocFails(n) /\ UNCHANGED s_slots
  <2>1. live' = live
    BY <1>4 DEF BA!AllocFails
  <2>2. PiecesInv'
    BY <1>1, <1>2, <1>4, <2>1, HeapFacts DEF PiecesInv
  <2> QED BY <1>1, <2>2 DEF HeapInv, HeapTestInv
<1> QED BY <1>3, <1>4 DEF do_alloc

\* `heap free' and the first loop of the self test.
LEMMA FreeLastKeeps ==
    ASSUME HeapInv, FreeLast, HeapTested' = HeapTested
    PROVE  PiecesInv'
<1>1. /\ s_slots # << >> /\ lost' = lost
      /\ BA!Free(s_slots[Len(s_slots)].ptr) \/ BA!FreeIgnored(s_slots[Len(s_slots)].ptr)
      /\ s_slots' = SubSeq(s_slots, 1, Len(s_slots) - 1)
  BY DEF FreeLast
<1>2. /\ s_slots[Len(s_slots)] \in live
      /\ PiecesOf(live \ {s_slots[Len(s_slots)]}, SubSeq(s_slots, 1, Len(s_slots) - 1),
                  HeapTested, lost)
  BY <1>1, HeapFacts, Popped
<1>3. live' = live \ {s_slots[Len(s_slots)]}
  BY <1>1, <1>2, HeapFacts, Freed
<1> QED BY <1>1, <1>2, <1>3 DEF PiecesInv

\* `heap free'.
LEMMA HeapFreeStep ==
    ASSUME HeapInv, RestInv', do_free
    PROVE  HeapInv'
<1>1. cmd = "idle" /\ cmd' = "idle" /\ mine' = mine /\ FreeLast
  BY DEF do_free, testVars
<1>2. HeapTested' = HeapTested
  BY <1>1 DEF HeapTested
<1> QED BY <1>1, <1>2, FreeLastKeeps DEF HeapInv, HeapTestInv

\* The self test begins, and empties the stack.
LEMMA HeapTestBegins ==
    ASSUME HeapInv, RestInv', do_test
    PROVE  HeapInv'
<1>1. /\ cmd = "idle" /\ cmd' = "heap test" /\ test' = 1 /\ loop' = "clean"
      /\ mine' = mine /\ pass' = pass /\ UNCHANGED <<live, s_slots, lost>>
  BY DEF do_test, Begin, heapVars
<1>2. DOMAIN mine = {} /\ pass = TRUE
  BY <1>1 DEF HeapInv, RestInv
<1>3. HeapTested' = HeapTested
  BY <1>1, <1>2, EmptyRange DEF HeapTested
<1>4. PiecesInv'
  BY <1>1, <1>3, HeapFacts DEF PiecesInv
<1>5. SlotsOf(HeapTests)'
  <2>1. 1 \in 1 .. Len(HeapTests)
    BY HeapTestFacts
  <2> QED BY <1>1, <1>2, <2>1 DEF SlotsOf
<1> QED BY <1>1, <1>2, <1>4, <1>5 DEF HeapInv, HeapTestInv, IsInjective

\* The stack is emptied, piece by piece, before the first test.
LEMMA HeapTestCleans ==
    ASSUME HeapInv, RestInv', heap_test_clean
    PROVE  HeapInv'
<1>1. cmd = "heap test" /\ loop = "clean"
  BY DEF heap_test_clean
<1>2. CASE FreeLast /\ UNCHANGED testVars
  <2>1. UNCHANGED <<cmd, test, loop, mine, pass, denied>> /\ lost' = lost
    BY <1>2 DEF testVars, FreeLast
  <2>2. HeapTested' = HeapTested
    BY <2>1 DEF HeapTested
  <2>3. PiecesInv'
    BY <1>2, <2>2, FreeLastKeeps
  <2>4. SlotsOf(HeapTests)'
    BY <1>1, <2>1 DEF HeapInv, HeapTestInv, SlotsOf
  <2> QED BY <1>1, <2>1, <2>3, <2>4 DEF HeapInv, HeapTestInv
<1>3. CASE s_slots = << >> /\ loop' = "take" /\ UNCHANGED <<cmd, test, mine, pass, denied, heapVars>>
  <2>1. UNCHANGED <<live, s_slots, lost>>
    BY <1>3 DEF heapVars
  <2>2. HeapTested' = HeapTested
    BY <1>3 DEF HeapTested
  <2>3. PiecesInv'
    BY <2>1, <2>2, HeapFacts DEF PiecesInv
  <2>4. test = 1 /\ DOMAIN mine = {}
    BY <1>1 DEF HeapInv, HeapTestInv
  <2>5. DOMAIN mine # 1 .. Len(HeapTests[test].wants)
    <3>1. Len(HeapTests[test].wants) = 1
      BY <2>4, HeapTestFacts
    <3>2. 1 .. 1 # {}
      OBVIOUS
    <3> QED BY <2>4, <3>1, <3>2
  <2>6. SlotsOf(HeapTests)'
    BY <1>1, <1>3, <2>5 DEF HeapInv, HeapTestInv, SlotsOf
  <2> QED BY <1>1, <1>3, <2>1, <2>3, <2>6 DEF HeapInv, HeapTestInv
<1> QED BY <1>2, <1>3 DEF heap_test_clean

\* What is common to the steps of the self test.
LEMMA HeapTestSteps ==
    ASSUME HeapInv, cmd = "heap test"
    PROVE  /\ test \in 1 .. Len(HeapTests) /\ Len(HeapTests[test].wants) \in Nat
           /\ DOMAIN mine \subseteq 1 .. Len(HeapTests[test].wants)
           /\ IsInjective(mine) /\ HeapTested = Range(mine)
           /\ IsFiniteSet(DOMAIN mine) /\ IsFiniteSet(HeapTested)
<1>1. /\ test \in 1 .. Len(HeapTests) /\ IsInjective(mine)
      /\ DOMAIN mine \subseteq 1 .. Len(HeapTests[test].wants)
  BY DEF HeapInv, HeapTestInv, SlotsOf
<1>2. Len(HeapTests[test].wants) \in Nat
  BY <1>1, HeapTestFacts DEF GoodTest
<1>3. HeapTested = {mine[s] : s \in DOMAIN mine}
  BY DEF HeapTested, Range
<1>4. IsFiniteSet(DOMAIN mine)
  BY <1>1, <1>2, SlotCount
<1>5. IsFiniteSet({mine[s] : s \in DOMAIN mine})
  BY <1>1, <1>4, Listed DEF IsInjective
<1> QED BY <1>1, <1>2, <1>3, <1>4, <1>5 DEF Range

\* A piece is granted.
LEMMA HeapTestGranted ==
    ASSUME HeapInv, RestInv', cmd = "heap test", loop \in {"take", "refill"}, NEW n, BA!Alloc(n),
           Took(HeapTests[test], BA!Piece(ret'.ptr, n)), UNCHANGED <<s_slots, lost>>
    PROVE  HeapInv'
<1> DEFINE t == HeapTests[test]
           k == FreeSlot(t)
<1>1. PICK q : q = BA!Piece(ret'.ptr, n) /\ New(live, q) /\ live' = live \cup {q}
  BY Granted
<1>2. /\ UNCHANGED <<cmd, test, pass, denied>>
      /\ loop' = IF DOMAIN mine' # 1 .. Len(t.wants) THEN loop
                 ELSE IF loop = "take" THEN "check" ELSE "give"
  BY DEF Took
<1>3. DOMAIN mine \subseteq 1 .. Len(t.wants) /\ DOMAIN mine # 1 .. Len(t.wants)
  BY DEF HeapInv, HeapTestInv, SlotsOf
<1>4. /\ k \in (1 .. Len(t.wants)) \ DOMAIN mine
      /\ DOMAIN mine' = DOMAIN mine \cup {k} /\ mine'[k] = q
      /\ \A s \in DOMAIN mine : mine'[s] = mine[s]
      /\ Range(mine') = Range(mine) \cup {q}
  BY <1>1, <1>3, TookFacts
<1> HIDE DEF k
<1>5. HeapTested' = HeapTested \cup {q}
  BY <1>2, <1>4 DEF HeapTested
<1>6. PiecesInv'
  BY <1>1, <1>5, HeapFacts, Taken DEF PiecesInv
<1>7. SlotsOf(HeapTests)'
  <2>1. DOMAIN mine' \subseteq 1 .. Len(t.wants)
    BY <1>3, <1>4
  <2> QED BY <1>2, <2>1, HeapTestSteps DEF SlotsOf
<1>8. IsInjective(mine')
  <2>1. q \notin Range(mine)
    <3>1. q \notin live
      BY <1>1, HeapFacts, Fresh
    <3> QED BY <3>1, HeapFacts, HeapTestSteps DEF PiecesOf
  <2> QED BY <1>4, <2>1, HeapTestSteps DEF IsInjective, Range
<1>9. loop' \in {"take", "check", "refill", "give"}
  BY <1>2
<1>10. loop' = "refill" => t.holes
  BY <1>2 DEF HeapInv, HeapTestInv
<1>11. loop' = "check" /\ t.holes => 1 \in DOMAIN mine'
  <2> SUFFICES ASSUME loop' = "check", t.holes PROVE 1 \in DOMAIN mine'
    OBVIOUS
  <2>1. Len(t.wants) \in Nat \ {0}
    BY HeapTestFacts, HeapTestSteps DEF GoodTest
  <2>2. DOMAIN mine' = 1 .. Len(t.wants)
    BY <1>2
  <2>3. 1 \in 1 .. Len(t.wants)
    BY <2>1, Ones
  <2> QED BY <2>2, <2>3
<1>12. s_slots' = << >> /\ (pass' \/ denied' \/ lost' # {}) /\ pass' \in BOOLEAN
  BY <1>2 DEF HeapInv, HeapTestInv
<1> QED BY <1>2, <1>6, <1>7, <1>8, <1>9, <1>10, <1>11, <1>12 DEF HeapInv, HeapTestInv

\* A request is refused.
LEMMA HeapTestRefused ==
    ASSUME HeapInv, RestInv', cmd = "heap test", loop \in {"take", "refill"},
           UNCHANGED <<live, s_slots>>, Refused(HeapTests),
           lost' = IF test = 2 THEN lost \cup Range(mine) ELSE lost
    PROVE  HeapInv'
<1> DEFINE t == HeapTests[test]
<1>1. /\ DOMAIN mine \subseteq 1 .. Len(t.wants) /\ DOMAIN mine # 1 .. Len(t.wants)
      /\ s_slots = << >> /\ (loop = "refill" => t.holes)
  BY DEF HeapInv, HeapTestInv, SlotsOf
<1>2. /\ GoodTest(t) /\ (t.refused = "return" => test = 2 \/ Len(t.wants) = 1)
      /\ test = 2 => t.refused = "return"
  BY HeapTestFacts, HeapTestSteps
<1>3. Len(t.wants) = 1 => DOMAIN mine = {}
  <2> HIDE DEF t
  <2> QED BY <1>1, Ones
<1>4. CASE loop = "take" /\ t.refused = "return"
  <2>1. cmd' = "idle"
    BY <1>4 DEF Refused, Return
  <2>2. PiecesOf(live, s_slots, {}, lost')
    <3>1. CASE test = 2
      BY <3>1, HeapFacts, HeapTestSteps, Lost
    <3>2. CASE test # 2
      <4>1. HeapTested = {}
        BY <1>2, <1>3, <1>4, <3>2, EmptyRange, HeapTestSteps
      <4> QED BY <3>2, <4>1, HeapFacts
    <3> QED BY <3>1, <3>2
  <2>3. PiecesInv'
    BY <2>1, <2>2 DEF PiecesInv, HeapTested
  <2> QED BY <2>1, <2>3 DEF HeapInv, HeapTestInv
<1>5. CASE ~(loop = "take" /\ t.refused = "return")
  <2>1. test # 2 /\ lost' = lost
    <3>1. test = 2 => loop = "take"
      BY <1>1, <1>2 DEF GoodTest
    <3> QED BY <1>2, <1>5, <3>1
  <2>2. UNCHANGED <<cmd, mine>> /\ denied' = TRUE /\ pass' = (pass /\ ~t.fails)
    BY <1>5 DEF Refused
  <2>3. HeapTested' = HeapTested
    BY <2>2 DEF HeapTested
  <2>4. PiecesInv'
    BY <2>1, <2>3, HeapFacts DEF PiecesInv
  <2>5. IsInjective(mine') /\ pass' \in BOOLEAN
    BY <2>2, HeapTestSteps
  <2>6. CASE loop = "take" /\ t.refused = "skip"
    <3>1. test' = Len(HeapTests) /\ loop' = "take"
      BY <1>5, <2>6 DEF Refused
    <3>2. DOMAIN mine = {}
      BY <1>2, <1>3, <2>6 DEF GoodTest
    <3>3. 1 .. Len(HeapTests[test'].wants) # {} /\ test' \in 1 .. Len(HeapTests)
      <4>1. Len(HeapTests[test'].wants) = 1
        BY <3>1, HeapTestFacts
      <4>2. Len(HeapTests) \in 1 .. Len(HeapTests)
        BY HeapTestFacts
      <4> QED BY <3>1, <4>1, <4>2, Ones
    <3>4. SlotsOf(HeapTests)'
      BY <2>2, <3>1, <3>2, <3>3 DEF SlotsOf
    <3> QED BY <1>1, <2>2, <2>4, <2>5, <3>1, <3>4 DEF HeapInv, HeapTestInv
  <2>7. CASE ~(loop = "take" /\ t.refused = "skip")
    <3>1. test' = test /\ loop' = CASE loop = "refill" -> "give"
                                    [] t.refused = "undo" -> "undo"
                                    [] t.refused = "keep" -> "check"
      BY <1>5, <2>7 DEF Refused
    <3>2. loop' \in {"give", "undo", "check"} /\ (loop' = "check" => ~t.holes)
      <4>1. t.holes => t.refused = "undo"
        BY <1>2 DEF GoodTest
      <4>2. CASE loop = "refill"
        <5>1. t.refused = "undo"
          BY <1>1, <4>1, <4>2
        <5> QED BY <3>1, <4>2, <5>1
      <4>3. CASE loop = "take"
        <5>1. t.refused \in {"undo", "keep"}
          BY <1>2, <1>5, <2>7, <4>3 DEF GoodTest
        <5> QED BY <3>1, <4>1, <4>3, <5>1
      <4> QED BY <4>2, <4>3
    <3>3. SlotsOf(HeapTests)'
      BY <1>1, <2>2, <3>1, <3>2, HeapTestSteps DEF SlotsOf
    <3> QED BY <1>1, <2>2, <2>4, <2>5, <3>1, <3>2, <3>3 DEF HeapInv, HeapTestInv
  <2> QED BY <2>6, <2>7
<1> QED BY <1>4, <1>5

\* A piece is granted or refused; the second test, refused half way, loses what
\* it has.
LEMMA HeapTestTakes ==
    ASSUME HeapInv, RestInv', heap_test_take
    PROVE  HeapInv'
  BY HeapTestGranted, HeapTestRefused DEF heap_test_take, Taking, BA!AllocFails

\* The test looks at what it has taken: as it expects.
LEMMA HeapTestChecks ==
    ASSUME HeapInv, RestInv', heap_test_check
    PROVE  HeapInv'
<1> DEFINE t == HeapTests[test]
           ok == \A i, j \in DOMAIN mine :
                    /\ i # j => BA!Bytes(mine[i]) \cap BA!Bytes(mine[j]) = {}
                    /\ mine[i].ptr % ALIGN = 0
<1>1. /\ cmd = "heap test" /\ loop = "check" /\ pass' = (pass /\ ok)
      /\ loop' = IF t.holes THEN "holes" ELSE "give"
      /\ UNCHANGED <<cmd, test, mine, denied, live, s_slots, lost>>
  BY DEF heap_test_check, Checks, heapVars
<1>2. ok
  <2>1. \A i \in DOMAIN mine : mine[i] \in live
    BY <1>1, HeapFacts, HeapTestSteps DEF PiecesOf, Range
  <2>2. \A i, j \in DOMAIN mine : i # j => mine[i] # mine[j]
    BY <1>1, HeapTestSteps DEF IsInjective
  <2>3. Separate(live)
    BY HeapFacts DEF PiecesOf
  <2> QED BY <2>1, <2>2, <2>3 DEF Separate
<1> HIDE DEF ok
<1>3. pass' = pass
  <2>1. pass \in BOOLEAN
    BY <1>1 DEF HeapInv, HeapTestInv
  <2> QED BY <1>1, <1>2, <2>1
<1>4. HeapTested' = HeapTested
  BY <1>1 DEF HeapTested
<1>5. PiecesInv'
  BY <1>1, <1>4, HeapFacts DEF PiecesInv
<1>6. SlotsOf(HeapTests)'
  BY <1>1 DEF HeapInv, HeapTestInv, SlotsOf
<1>7. loop' = "holes" => t.holes /\ \E s \in DOMAIN mine : s % 2 = 1
  <2>1. 1 % 2 = 1
    OBVIOUS
  <2>2. t.holes => 1 \in DOMAIN mine
    BY <1>1 DEF HeapInv, HeapTestInv
  <2> QED BY <1>1, <2>1, <2>2
<1>8. s_slots = << >> /\ IsInjective(mine) /\ (pass \/ denied \/ lost # {}) /\ pass \in BOOLEAN
  BY <1>1 DEF HeapInv, HeapTestInv
<1>9. /\ loop' \in {"holes", "give"} /\ IsInjective(mine')
      /\ test' = test /\ mine' = mine
  BY <1>1, <1>8
<1>10. s_slots' = << >> /\ pass' \in BOOLEAN /\ (pass' \/ denied' \/ lost' # {})
  <2>1. s_slots' = s_slots /\ denied' = denied /\ lost' = lost
    BY <1>1
  <2> QED BY <1>3, <1>8, <2>1
<1> QED BY <1>5, <1>6, <1>7, <1>9, <1>10 DEF HeapInv, HeapTestInv

\* A piece goes back.
LEMMA HeapTestGives ==
    ASSUME HeapInv, RestInv', heap_test_give
    PROVE  HeapInv'
<1> DEFINE t == HeapTests[test]
           k == GiveSlot
<1>1. /\ cmd = "heap test" /\ loop \in {"holes", "give", "undo"} /\ DOMAIN mine # {}
      /\ BA!Free(mine[k].ptr) \/ BA!FreeIgnored(mine[k].ptr)
      /\ Gave /\ UNCHANGED <<s_slots, lost>>
  BY DEF heap_test_give, Giving
<1>2. /\ UNCHANGED <<cmd, test, pass, denied>>
      /\ loop' = IF loop = "holes" /\ \A s \in DOMAIN mine' : s % 2 = 0
                 THEN "refill" ELSE loop
  BY <1>1 DEF Gave
<1>3. /\ IsInjective(mine) /\ (loop = "holes" => \E s \in DOMAIN mine : s % 2 = 1)
      /\ (loop = "holes" => t.holes) /\ s_slots = << >>
      /\ (pass \/ denied \/ lost # {}) /\ pass \in BOOLEAN
  BY <1>1 DEF HeapInv, HeapTestInv
<1>4. /\ k \in DOMAIN mine /\ DOMAIN mine' = DOMAIN mine \ {k}
      /\ \A s \in DOMAIN mine' : mine'[s] = mine[s]
      /\ Range(mine') = Range(mine) \ {mine[k]}
  BY <1>1, <1>3, HeapTestSteps, GaveFacts
<1> HIDE DEF k
<1>5. mine[k] \in HeapTested
  BY <1>1, <1>4, HeapTestSteps DEF Range
<1>6. mine[k] \in live /\ PiecesOf(live \ {mine[k]}, s_slots, HeapTested \ {mine[k]}, lost)
  BY <1>5, HeapFacts, Given
<1>7. live' = live \ {mine[k]}
  BY <1>1, <1>6, HeapFacts, Freed
<1>8. HeapTested' = HeapTested \ {mine[k]}
  BY <1>1, <1>2, <1>4 DEF HeapTested
<1>9. PiecesInv'
  BY <1>1, <1>6, <1>7, <1>8 DEF PiecesInv
<1>10. DOMAIN mine' \subseteq 1 .. Len(t.wants) /\ DOMAIN mine' # 1 .. Len(t.wants)
  BY <1>1, <1>4, HeapTestSteps
<1>11. loop' \in {"holes", "refill", "give", "undo"}
  BY <1>1, <1>2
<1>12. SlotsOf(HeapTests)'
  BY <1>1, <1>2, <1>10, <1>11, HeapTestSteps DEF SlotsOf
<1>13. loop' = "holes" => \E s \in DOMAIN mine' : s % 2 = 1
  <2>1. \A s \in DOMAIN mine' : s % 2 = 0 \/ s % 2 = 1
    <3>1. DOMAIN mine' \subseteq Nat
      BY <1>10
    <3>2. \A s \in Nat : s % 2 = 0 \/ s % 2 = 1
      OBVIOUS
    <3> QED BY <3>1, <3>2
  <2> QED BY <1>2, <2>1
<1>14. loop' \in {"holes", "refill"} => t.holes
  BY <1>1, <1>2, <1>3
<1>15. IsInjective(mine')
  BY <1>3, <1>4 DEF IsInjective
<1> QED BY <1>1, <1>2, <1>3, <1>9, <1>11, <1>12, <1>13, <1>14, <1>15 DEF HeapInv, HeapTestInv

\* One test is over and the next begins, or the verdict comes.
LEMMA HeapTestEnds ==
    ASSUME HeapInv, RestInv', heap_test_over
    PROVE  HeapInv'
<1>1. /\ cmd = "heap test" /\ loop \in {"give", "undo"} /\ mine = Nothing
      /\ UNCHANGED <<live, s_slots, lost>>
  BY DEF heap_test_over, Over, heapVars
<1>2. DOMAIN mine = {} /\ HeapTested = {}
  BY <1>1, NothingIsEmpty DEF HeapTested
<1>3. HeapTested' = {}
  BY <1>1, NothingIsEmpty DEF heap_test_over, Over, Return, HeapTested
<1>4. PiecesInv'
  BY <1>1, <1>2, <1>3, HeapFacts DEF PiecesInv
<1>5. CASE loop = "undo"
  BY <1>4, <1>5 DEF heap_test_over, Over, Return, HeapInv, HeapTestInv
<1>6. CASE loop = "give"
  <2>1. /\ pass' = (pass /\ (test = 2 => live = {})) /\ UNCHANGED <<cmd, mine, denied>>
        /\ IF test = Len(HeapTests) THEN loop' = "verdict" /\ UNCHANGED test
           ELSE /\ test' = test + 1
                /\ loop' = IF HeapTests[test + 1].wants = << >> THEN "check" ELSE "take"
    BY <1>1, <1>6 DEF heap_test_over, Over
  <2>2. s_slots = << >> /\ (pass \/ denied \/ lost # {}) /\ pass \in BOOLEAN
    BY <1>1, <1>6 DEF HeapInv, HeapTestInv
  <2>3. lost = {} => live = {}
    <3>1. Len(<< >>) = 0 /\ 1 .. 0 = {}
      OBVIOUS
    <3> QED BY <1>2, <2>2, <3>1, HeapFacts DEF PiecesOf
  <2>4. (pass' \/ denied' \/ lost' # {}) /\ pass' \in BOOLEAN
    BY <1>1, <2>1, <2>2, <2>3
  <2>5. IsInjective(mine')
    BY <1>2, <2>1 DEF IsInjective
  <2>6. CASE test = Len(HeapTests)
    <3>1. SlotsOf(HeapTests)'
      BY <1>1, <1>2, <2>1, <2>6, HeapTestSteps DEF SlotsOf
    <3> QED BY <1>1, <1>4, <2>1, <2>2, <2>4, <2>5, <2>6, <3>1 DEF HeapInv, HeapTestInv
  <2>7. CASE test # Len(HeapTests)
    <3>1. test + 1 \in 1 .. Len(HeapTests)
      <4>1. test \in 1 .. Len(HeapTests) /\ Len(HeapTests) \in Nat
        BY <1>1, HeapTestFacts, HeapTestSteps
      <4> QED BY <2>7, <4>1
    <3>2. GoodTest(HeapTests[test + 1])
      BY <3>1, HeapTestFacts
    <3>3. HeapTests[test + 1].wants # << >> => 1 .. Len(HeapTests[test + 1].wants) # {}
      <4>1. HeapTests[test + 1].wants # << >> => Len(HeapTests[test + 1].wants) \in Nat \ {0}
        BY <3>2 DEF GoodTest
      <4>2. \A n \in Nat \ {0} : 1 .. n # {}
        OBVIOUS
      <4> QED BY <4>1, <4>2
    <3>4. loop' = "check" => ~HeapTests[test + 1].holes
      <4>1. Len(<< >>) = 0
        OBVIOUS
      <4> QED BY <2>1, <2>7, <3>2, <4>1 DEF GoodTest
    <3>5. SlotsOf(HeapTests)'
      BY <1>2, <2>1, <2>7, <3>1, <3>3 DEF SlotsOf
    <3> QED BY <1>1, <1>4, <2>1, <2>2, <2>4, <2>5, <2>7, <3>4, <3>5 DEF HeapInv, HeapTestInv
  <2> QED BY <2>6, <2>7
<1> QED BY <1>1, <1>5, <1>6

\* At the start no piece is live.
LEMMA HeapInitially == Init => HeapInv
<1> SUFFICES ASSUME Init PROVE HeapInv
  OBVIOUS
<1>1. cmd = "idle" /\ live = {} /\ s_slots = << >> /\ lost = {}
  BY DEF Init, Idle, HeapInit
<1>2. HeapTested = {}
  BY <1>1 DEF HeapTested
<1>3. << >> \in Seq({}) /\ Len(<< >>) = 0 /\ 1 .. 0 = {}
  OBVIOUS
<1>4. PiecesInv
  BY <1>1, <1>2, <1>3, FS_EmptySet DEF PiecesInv, PiecesOf, Separate
<1> QED BY <1>1, <1>4, RestInit DEF HeapInv, HeapTestInv

\* Every step of the shell keeps the account of the pieces.
LEMMA HeapStep ==
    ASSUME HeapInv, [Next]_vars
    PROVE  HeapInv'
<1>1. RestInv /\ RestInv'
  BY RestStep DEF HeapInv
<1>2. CASE HeapNext
  BY <1>1, <1>2, HeapAllocStep, HeapFreeStep, HeapTestBegins, HeapTestCleans, HeapTestTakes,
     HeapTestChecks, HeapTestGives, HeapTestEnds DEF HeapNext
<1>3. CASE UNCHANGED heapVars /\ (PmmNext \/ VmaNext)
  <2>1. cmd # "heap test" /\ cmd' # "heap test"
    BY <1>1, <1>3, PmmIsPmm, VmaIsVma DEF PmmCommands
  <2> QED BY <1>1, <1>3, <2>1, HeapOther
<1>4. CASE Verdict /\ UNCHANGED heapVars
  <2>1. cmd' = "idle" /\ UNCHANGED <<live, s_slots, lost>>
    BY <1>4 DEF Verdict, Return, heapVars
  <2>2. HeapTested = {} /\ HeapTested' = {}
    <3>1. cmd = "heap test" => DOMAIN mine = {}
      BY <1>4 DEF HeapInv, HeapTestInv, SlotsOf, Verdict
    <3> QED BY <2>1, <3>1, EmptyRange DEF HeapTested
  <2>3. PiecesInv'
    BY <2>1, <2>2, HeapFacts DEF PiecesInv
  <2> QED BY <1>1, <2>1, <2>3 DEF HeapInv, HeapTestInv
<1>5. CASE UNCHANGED vars
  <2>1. /\ UNCHANGED <<cmd, test, loop, mine, start, pass, denied>>
        /\ UNCHANGED <<live, s_slots, lost>>
    BY <1>5 DEF vars, testVars, heapVars
  <2>2. HeapTested' = HeapTested
    BY <2>1 DEF HeapTested
  <2> QED BY <1>1, <2>1, <2>2 DEF HeapInv, PiecesInv, HeapTestInv, SlotsOf
<1> QED BY <1>2, <1>3, <1>4, <1>5 DEF Next, shell_run_command

\* The account gives the property the run checks.
LEMMA HeapInvImplies ==
    ASSUME HeapInv
    PROVE  PiecesAccountedFor
<1> DEFINE n == Len(s_slots)
           S == {s_slots[i] : i \in 1 .. n}
           tested == IF cmd = "heap test" THEN mine ELSE Nothing
<1>1. n \in Nat /\ DOMAIN s_slots = 1 .. n
  BY HeapFacts
<1>2. Range(tested) = HeapTested
  BY NothingIsEmpty DEF HeapTested
<1>3. IsFiniteSet(HeapTested) /\ Cardinality(DOMAIN tested) = Cardinality(HeapTested)
  <2>1. CASE cmd = "heap test"
    <3>1. IsFiniteSet(DOMAIN mine) /\ \A i, j \in DOMAIN mine : mine[i] = mine[j] => i = j
      BY <2>1, HeapTestSteps DEF IsInjective
    <3>2. /\ Cardinality({mine[i] : i \in DOMAIN mine}) = Cardinality(DOMAIN mine)
          /\ IsFiniteSet({mine[i] : i \in DOMAIN mine})
      BY <3>1, Listed
    <3> QED BY <2>1, <3>2 DEF HeapTested, Range
  <2>2. CASE cmd # "heap test"
    BY <2>2, NothingIsEmpty, FS_EmptySet DEF HeapTested
  <2> QED BY <2>1, <2>2
<1>4. IsFiniteSet(S) /\ Cardinality(S) = n
  <2>1. \A i, j \in 1 .. n : s_slots[i] = s_slots[j] => i = j
    BY HeapFacts DEF PiecesOf
  <2> HIDE DEF n
  <2>2. IsFiniteSet(1 .. n) /\ Cardinality(1 .. n) = n
    <3>1. IsFiniteSet(1 .. n) /\ Cardinality(1 .. n) = IF 1 > n THEN 0 ELSE n - 1 + 1
      BY <1>1, FS_Interval
    <3> QED BY <1>1, <3>1
  <2> DEFINE e == 1 .. n
  <2>3. IsFiniteSet(e) /\ Cardinality(e) = n /\ \A i, j \in e : s_slots[i] = s_slots[j] => i = j
    BY <2>1, <2>2
  <2>4. S = {s_slots[i] : i \in e}
    BY DEF n
  <2> HIDE DEF e, S
  <2>5. /\ IsFiniteSet({s_slots[i] : i \in e})
        /\ Cardinality({s_slots[i] : i \in e}) = Cardinality(e)
    BY <2>3, Listed
  <2> QED BY <2>3, <2>4, <2>5
<1>5. /\ live = S \cup HeapTested \cup lost /\ S \cap HeapTested = {} /\ S \cap lost = {}
      /\ HeapTested \cap lost = {} /\ IsFiniteSet(lost)
  BY HeapFacts DEF PiecesOf
<1>6. S = Range(s_slots)
  BY <1>1 DEF Range
<1> HIDE DEF S, n, tested
<1>7. Cardinality(live) = n + Cardinality(DOMAIN tested) + Cardinality(lost)
  BY <1>3, <1>4, <1>5, ThreePlaces
<1> QED BY <1>2, <1>5, <1>6, <1>7 DEF PiecesAccountedFor, n, tested

\* Every piece of heap memory is on the stack of `heap alloc', in the array of
\* the running self test, or was lost when its second test returned half way;
\* none is in two of these places (cmd_heap.c: do_alloc, do_free, do_test).
THEOREM PiecesAlwaysAccountedFor == Spec => []PiecesAccountedFor
<1> QED BY HeapInitially, HeapStep, HeapInvImplies, PTL DEF Spec

-----------------------------------------------------------------------------
(* `vma' *)

\* Areas are not empty, and no two begin at the same address.
AreasInv ==
    /\ areas \subseteq VS!Area
    /\ \A a \in areas : a.start < a.end
    /\ \A a, b \in areas : a.start = b.start => a = b

\* The slots in use are an interval, which grows at its end while the test
\* takes areas and shrinks at its start while it gives them back.
SlotsInv ==
    /\ test \in 1 .. 6 /\ loop \in {"take", "check", "give", "verdict"}
    /\ \E j, k \in Int : DOMAIN mine = j .. k
    /\ loop = "take" =>
          \E k \in 0 .. Len(VmaTests[test].wants) - 1 : DOMAIN mine = 1 .. k
    /\ loop = "verdict" => DOMAIN mine = {}

MineInv ==
    /\ \A i, j \in DOMAIN mine : mine[i] = mine[j] => i = j
    /\ \A i \in DOMAIN mine : mine[i] \notin registered

RegistryInv ==
    /\ RegistryRestored
    /\ AreasInv
    /\ cmd = "idle" => DOMAIN mine = {}
    /\ cmd = "vma test" => SlotsInv /\ MineInv

\* Every test asks for areas only; the first gives up when refused, the
\* others carry on with what they have (cmd_vma.c).
LEMMA WantsAreas ==
    ASSUME NEW t \in 1 .. 6
    PROVE  /\ VmaTests[t].wants \in Seq(VS!Area)
           /\ VmaTests[t].holes = FALSE
           /\ t = 1 => VmaTests[t].refused = "return" /\ Len(VmaTests[t].wants) = 1
           /\ t # 1 => VmaTests[t].refused = "keep"
<1>1. /\ <<TestArea>> \in Seq(VS!Area) /\ <<AreaA, AreaB>> \in Seq(VS!Area)
      /\ << >> \in Seq(VS!Area) /\ Batch \in Seq(VS!Area) /\ Len(<<TestArea>>) = 1
  BY CmdVmaAssumption
<1>2. /\ VmaTests[1] = Test(<<TestArea>>, "return", TRUE, FALSE)
      /\ VmaTests[2] = Test(<<TestArea>>, "keep", TRUE, FALSE)
      /\ VmaTests[3] = Test(<<AreaA, AreaB>>, "keep", TRUE, FALSE)
      /\ VmaTests[4] = Test(Batch, "keep", TRUE, FALSE)
      /\ VmaTests[5] = Test(<< >>, "keep", TRUE, FALSE)
      /\ VmaTests[6] = Test(<<TestArea>>, "keep", TRUE, FALSE)
  BY DEF VmaTests
<1>3. CASE t = 1
  <2>1. VmaTests[t] = Test(<<TestArea>>, "return", TRUE, FALSE)
    BY <1>2, <1>3
  <2> QED BY <1>1, <1>3, <2>1 DEF Test
<1>4. CASE t # 1
  <2>1. \E w \in Seq(VS!Area) : VmaTests[t] = Test(w, "keep", TRUE, FALSE)
    <3>1. t = 2 \/ t = 3 \/ t = 4 \/ t = 5 \/ t = 6
      BY <1>4
    <3> QED BY <1>1, <1>2, <3>1
  <2> QED BY <1>4, <2>1 DEF Test
<1> QED BY <1>3, <1>4

\* The tests of cmd_vma_test, as many entries as the model lists.
LEMMA LenVmaTests == Len(VmaTests) = 6
  BY DEF VmaTests

\* A granted area is none of those registered, and begins at none of them.
LEMMA AddIsNew ==
    ASSUME AreasInv, NEW a \in VS!Area, VS!Add(a)
    PROVE  /\ AreasInv' /\ areas' = areas \cup {a} /\ a \notin areas
<1>1. /\ a.start < a.end /\ \A b \in areas : ~VS!Overlap(a, b)
      /\ areas' = areas \cup {a}
  BY DEF VS!Add, VS!Valid
<1>2. \A b \in VS!Area : b.start \in Int /\ b.end \in Int
  BY CmdVmaAssumption DEF VS!Area
<1>3. \A b \in areas : b.start # a.start
  BY <1>1, <1>2 DEF AreasInv, VS!Overlap
<1> QED BY <1>1, <1>3 DEF AreasInv

\* Removing by the start address of an area removes that area and no other.
LEMMA RemoveOne ==
    ASSUME AreasInv, NEW a \in areas, VS!Remove(a.start)
    PROVE  AreasInv' /\ areas' = areas \ {a}
  BY DEF AreasInv, VS!Remove

\* The other commands leave the registry alone and never become `vma test'.
LEMMA OtherCommands ==
    ASSUME RegistryInv, RestInv', UNCHANGED vmaVars, cmd # "vma test", cmd' # "vma test"
    PROVE  RegistryInv'
<1>1. areas' = areas /\ registered' = registered
  BY DEF vmaVars
<1>2. RegistryRestored' /\ AreasInv'
  BY <1>1 DEF RegistryInv, RegistryRestored, AreasInv
<1>3. cmd' = "idle" => DOMAIN mine' = {}
  BY DEF RestInv
<1> QED BY <1>2, <1>3 DEF RegistryInv

\* The actions of the test itself, and what each of them has to show.
LEMMA Disturbed ==
    ASSUME RegistryInv, cmd = "vma test", AreasInv', cmd' = cmd, SlotsInv', MineInv',
           areas' = registered' \cup Range(mine)'
    PROVE  RegistryInv'
  BY DEF RegistryInv, RegistryRestored

\* Arithmetic of slots.
LEMMA NoSlots == 1 .. 0 = {} /\ 1 \in 1 .. 6 /\ 0 \in Int /\ 1 \in Int
  OBVIOUS

\* The slots when a test starts to take.
LEMMA FirstSlots ==
    ASSUME test' \in 1 .. 6, loop' = "take", DOMAIN mine' = {},
           VmaTests[test'].wants # << >>
    PROVE  SlotsInv'
<1>1. DOMAIN mine' = 1 .. 0
  BY NoSlots
<1>2. \E j, k \in Int : DOMAIN mine' = j .. k
  BY <1>1, NoSlots
<1>3. VmaTests[test'].wants \in Seq(VS!Area)
  BY WantsAreas
<1>4. 0 \in 0 .. Len(VmaTests[test'].wants) - 1
  BY <1>3
<1> QED BY <1>1, <1>2, <1>4 DEF SlotsInv

\* The self test begins with the registry as the kernel left it.
LEMMA BeginKeeps == RegistryInv /\ cmd_vma_test => RegistryInv'
<1> SUFFICES ASSUME RegistryInv, cmd_vma_test PROVE RegistryInv'
  OBVIOUS
<1>1. cmd = "idle" /\ cmd' = "vma test"
  BY DEF cmd_vma_test, Begin
<1>2. test' = 1
  BY DEF cmd_vma_test, Begin
<1>3. loop' = "take"
  BY DEF cmd_vma_test, Begin
<1>4. mine' = mine /\ areas' = areas /\ registered' = registered
  BY DEF cmd_vma_test, Begin, vmaVars
<1>5. DOMAIN mine = {} /\ areas = registered
  BY <1>1 DEF RegistryInv, RegistryRestored
<1>6. RegistryRestored' /\ AreasInv'
  BY <1>1, <1>4, <1>5, EmptyRange DEF RegistryInv, RegistryRestored, AreasInv
<1>7. test' \in 1 .. 6 /\ VmaTests[test'].wants # << >>
  <2>1. VmaTests[1].wants \in Seq(VS!Area) /\ Len(VmaTests[1].wants) = 1
    BY NoSlots, WantsAreas
  <2>2. VmaTests[1].wants # << >>
    BY <2>1
  <2> QED BY <1>2, <2>2, NoSlots
<1>8. SlotsInv'
  BY <1>3, <1>4, <1>5, <1>7, FirstSlots
<1>9. MineInv'
  BY <1>4, <1>5 DEF MineInv
<1> QED BY <1>1, <1>6, <1>8, <1>9 DEF RegistryInv

\* An add that is refused leaves the registry as it was, one that is granted
\* puts the area into the next slot.
LEMMA TakeKeeps == RegistryInv /\ vma_test_take => RegistryInv'
<1> SUFFICES ASSUME RegistryInv, vma_test_take PROVE RegistryInv'
  OBVIOUS
<1> DEFINE t == VmaTests[test]
           n == Len(t.wants)
           a == Wanted(t)
<1>1. /\ cmd = "vma test" /\ loop \in {"take", "refill"} /\ registered' = registered
      /\ \/ VS!Add(a) /\ Took(t, a)
         \/ VS!AddFails(a) /\ Refused(VmaTests)
  BY DEF vma_test_take, Taking
<1>2. SlotsInv /\ MineInv /\ AreasInv /\ loop = "take" /\ areas = registered \cup Range(mine)
  BY <1>1 DEF RegistryInv, SlotsInv, RegistryRestored
<1>3. t.wants \in Seq(VS!Area) /\ n \in Nat
  <2>1. test \in 1 .. 6
    BY <1>2 DEF SlotsInv
  <2>2. t.wants \in Seq(VS!Area)
    BY <2>1, WantsAreas
  <2> QED BY <2>2
<1>4. PICK k \in 0 .. n - 1 : DOMAIN mine = 1 .. k
  BY <1>2, <1>3 DEF SlotsInv
<1>5. FreeSlot(t) = k + 1
  <2>1. (1 .. n) \ DOMAIN mine = k + 1 .. n
    BY <1>3, <1>4
  <2>2. k + 1 \in k + 1 .. n /\ \A y \in k + 1 .. n : k + 1 =< y
    BY <1>3, <1>4
  <2>3. \A x \in k + 1 .. n : (\A y \in k + 1 .. n : x =< y) => x = k + 1
    BY <1>3, <1>4
  <2> QED BY <2>1, <2>2, <2>3 DEF FreeSlot, Min
<1>6. a \in VS!Area
  BY <1>3, <1>4, <1>5 DEF Wanted
<1>7. CASE VS!Add(a) /\ Took(t, a)
  <2>1. AreasInv' /\ areas' = areas \cup {a} /\ a \notin areas
    BY <1>2, <1>6, <1>7, AddIsNew
  <2>2. /\ cmd' = cmd /\ test' = test
        /\ mine' = [s \in DOMAIN mine \cup {k + 1} |->
                      IF s \in DOMAIN mine THEN mine[s] ELSE a]
        /\ loop' = IF DOMAIN mine' # 1 .. n THEN loop
                   ELSE IF loop = "take" THEN "check" ELSE "give"
    BY <1>5, <1>7 DEF Took
  <2>3. DOMAIN mine' = 1 .. k + 1
    BY <1>4, <2>2
  <2>4. /\ mine'[k + 1] = a
        /\ \A i \in DOMAIN mine : mine'[i] = mine[i]
    BY <1>4, <2>2
  <2>5. Range(mine)' = Range(mine) \cup {a}
    BY <1>4, <2>3, <2>4 DEF Range
  <2>6. SlotsInv'
    <3>1. test' \in 1 .. 6 /\ loop' \in {"take", "check", "give", "verdict"}
      BY <1>2, <2>2 DEF SlotsInv
    <3>2. \E i, j \in Int : DOMAIN mine' = i .. j
      BY <1>4, <2>3
    <3>3. loop' # "verdict"
      BY <1>2, <2>2
    <3>4. ASSUME loop' = "take"
          PROVE  \E j \in 0 .. Len(VmaTests[test'].wants) - 1 : DOMAIN mine' = 1 .. j
      <4>1. DOMAIN mine' # 1 .. n
        BY <1>2, <2>2, <3>4
      <4>2. k + 1 # n
        BY <2>3, <4>1
      <4>3. k + 1 \in 0 .. n - 1
        BY <1>3, <1>4, <4>2
      <4> QED BY <2>2, <2>3, <4>3
    <3> QED BY <3>1, <3>2, <3>3, <3>4 DEF SlotsInv
  <2>7. MineInv'
    <3>1. \A i \in DOMAIN mine : mine[i] \in areas
      BY <1>2 DEF Range
    <3>2. DOMAIN mine' = DOMAIN mine \cup {k + 1} /\ k + 1 \notin DOMAIN mine
      BY <1>4, <2>3
    <3>3. a \notin registered' /\ \A i \in DOMAIN mine : mine'[i] # a
      BY <1>1, <1>2, <2>1, <2>4, <3>1
    <3>4. \A i, j \in DOMAIN mine : mine'[i] = mine'[j] => i = j
      BY <1>2, <2>4 DEF MineInv
    <3>5. \A i \in DOMAIN mine : mine'[i] \notin registered'
      BY <1>1, <1>2, <2>4 DEF MineInv
    <3> QED BY <2>4, <3>2, <3>3, <3>4, <3>5 DEF MineInv
  <2> QED BY <1>1, <1>2, <2>1, <2>2, <2>5, <2>6, <2>7, Disturbed
<1>8. CASE VS!AddFails(a) /\ Refused(VmaTests)
  <2>1. areas' = areas /\ AreasInv'
    BY <1>2, <1>8 DEF VS!AddFails, AreasInv
  <2>2. CASE test = 1
    <3>1. cmd' = "idle" /\ mine' = Nothing
      BY <1>2, <1>8, <2>2, WantsAreas DEF Refused, Return
    <3>2. DOMAIN mine = {}
      <4>1. 1 \in 1 .. 6
        OBVIOUS
      <4>2. n = 1
        BY <2>2, <4>1, WantsAreas
      <4>3. 1 .. 0 = {}
        OBVIOUS
      <4> QED BY <1>4, <4>2, <4>3
    <3>3. areas' = registered' /\ DOMAIN mine' = {}
      BY <1>1, <1>2, <2>1, <3>1, <3>2, EmptyRange, NothingIsEmpty
    <3> QED BY <2>1, <3>1, <3>3 DEF RegistryInv, RegistryRestored
  <2>3. CASE test # 1
    <3>1. t.refused = "keep"
      BY <1>2, <2>3, WantsAreas DEF SlotsInv
    <3>2. cmd' = cmd /\ test' = test /\ loop' = "check" /\ mine' = mine
      BY <1>2, <1>8, <3>1 DEF Refused
    <3>3. SlotsInv' /\ MineInv'
      BY <1>1, <1>2, <3>2 DEF SlotsInv, MineInv
    <3> QED BY <1>1, <1>2, <2>1, <3>2, <3>3, Disturbed
  <2> QED BY <2>2, <2>3
<1> QED BY <1>1, <1>7, <1>8

\* Looking areas up changes nothing.
LEMMA CheckKeeps == RegistryInv /\ vma_test_check => RegistryInv'
<1> SUFFICES ASSUME RegistryInv, vma_test_check PROVE RegistryInv'
  OBVIOUS
<1>1. /\ cmd = "vma test" /\ cmd' = cmd /\ test' = test /\ mine' = mine
      /\ areas' = areas /\ registered' = registered
      /\ loop' = IF VmaTests[test].holes THEN "holes" ELSE "give"
  BY DEF vma_test_check, Checks, vmaVars
<1>2. SlotsInv /\ MineInv /\ AreasInv /\ areas = registered \cup Range(mine)
  BY <1>1 DEF RegistryInv, RegistryRestored
<1>3. loop' = "give"
  BY <1>1, <1>2, WantsAreas DEF SlotsInv
<1>4. SlotsInv' /\ MineInv' /\ AreasInv'
  BY <1>1, <1>2, <1>3 DEF SlotsInv, MineInv, AreasInv
<1> QED BY <1>1, <1>2, <1>4, Disturbed

\* A remove takes out the area of the lowest slot, and no other.
LEMMA GiveKeeps == RegistryInv /\ vma_test_give => RegistryInv'
<1> SUFFICES ASSUME RegistryInv, vma_test_give PROVE RegistryInv'
  OBVIOUS
<1>1. /\ cmd = "vma test" /\ loop \in {"holes", "give", "undo"} /\ DOMAIN mine # {}
      /\ VS!Remove(mine[GiveSlot].start) \/ VS!RemoveFails(mine[GiveSlot].start)
      /\ registered' = registered /\ cmd' = cmd /\ test' = test
      /\ mine' = Restrict(mine, DOMAIN mine \ {GiveSlot})
      /\ loop' = IF loop = "holes" /\ \A s \in DOMAIN mine' : s % 2 = 0
                 THEN "refill" ELSE loop
  BY DEF vma_test_give, Giving, Gave
<1>2. /\ SlotsInv /\ MineInv /\ AreasInv /\ loop = "give"
      /\ areas = registered \cup Range(mine)
  BY <1>1 DEF RegistryInv, SlotsInv, RegistryRestored
<1>3. PICK j, k \in Int : DOMAIN mine = j .. k
  BY <1>2 DEF SlotsInv
<1>4. j =< k
  <2>1. j .. k # {}
    BY <1>1, <1>3
  <2> QED BY <2>1
<1>5. GiveSlot = j
  <2>1. j \in j .. k /\ \A y \in j .. k : j =< y
    BY <1>3, <1>4
  <2>2. \A x \in j .. k : (\A y \in j .. k : x =< y) => x = j
    BY <1>3, <1>4
  <2> QED BY <1>2, <1>3, <2>1, <2>2 DEF GiveSlot, Min
<1>6. j \in DOMAIN mine /\ mine[j] \in areas /\ mine[j] \notin registered
  BY <1>2, <1>3, <1>4 DEF MineInv, Range
<1>7. AreasInv' /\ areas' = areas \ {mine[j]}
  <2>1. VS!Remove(mine[j].start)
    BY <1>1, <1>5, <1>6 DEF VS!RemoveFails
  <2> QED BY <1>2, <1>6, <2>1, RemoveOne
<1>8. /\ DOMAIN mine' = DOMAIN mine \ {j}
      /\ \A i \in DOMAIN mine' : mine'[i] = mine[i]
  BY <1>1, <1>5 DEF Restrict
<1>9. Range(mine)' = Range(mine) \ {mine[j]}
  BY <1>2, <1>6, <1>8 DEF Range, MineInv
<1>10. areas' = registered' \cup Range(mine)'
  BY <1>1, <1>2, <1>6, <1>7, <1>9
<1>11. SlotsInv'
  <2>1. DOMAIN mine' = j + 1 .. k
    BY <1>3, <1>4, <1>8
  <2>2. loop' = "give" /\ test' \in 1 .. 6
    BY <1>1, <1>2 DEF SlotsInv
  <2> QED BY <1>3, <2>1, <2>2 DEF SlotsInv
<1>12. MineInv'
  BY <1>1, <1>2, <1>8 DEF MineInv
<1> QED BY <1>1, <1>7, <1>10, <1>11, <1>12, Disturbed

\* A test that has given everything back hands over to the next.
LEMMA OverKeeps == RegistryInv /\ vma_test_over => RegistryInv'
<1> SUFFICES ASSUME RegistryInv, vma_test_over PROVE RegistryInv'
  OBVIOUS
<1>1. /\ cmd = "vma test" /\ loop \in {"give", "undo"} /\ mine = Nothing
      /\ areas' = areas /\ registered' = registered
      /\ \/ loop = "undo" /\ Return
         \/ /\ loop # "undo" /\ cmd' = cmd /\ mine' = mine
            /\ IF test = Len(VmaTests)
               THEN loop' = "verdict" /\ test' = test
               ELSE /\ test' = test + 1
                    /\ loop' = IF VmaTests[test + 1].wants = << >> THEN "check" ELSE "take"
  BY DEF vma_test_over, Over, vmaVars
<1>2. SlotsInv /\ MineInv /\ AreasInv /\ areas = registered \cup Range(mine)
  BY <1>1 DEF RegistryInv, RegistryRestored
<1>3. loop # "undo" /\ DOMAIN mine' = {} /\ cmd' = cmd /\ mine' = mine
  BY <1>1, <1>2, NothingIsEmpty DEF SlotsInv
<1>4. DOMAIN mine' = 1 .. 0
  <2>1. 1 .. 0 = {}
    OBVIOUS
  <2> QED BY <1>3, <2>1
<1>5. \E j, k \in Int : DOMAIN mine' = j .. k
  BY <1>4
<1>6. MineInv' /\ AreasInv'
  BY <1>1, <1>2, <1>3 DEF MineInv, AreasInv
<1>7. CASE test = Len(VmaTests)
  <2>1. loop' = "verdict" /\ test' = test
    BY <1>1, <1>3, <1>7
  <2>2. SlotsInv'
    BY <1>2, <1>3, <1>5, <2>1 DEF SlotsInv
  <2> QED BY <1>1, <1>2, <1>3, <1>6, <2>2, Disturbed
<1>8. CASE test # Len(VmaTests)
  <2>1. test' = test + 1 /\ test' \in 1 .. 6
    <3>1. test \in 1 .. 6 /\ test # 6
      BY <1>2, <1>8, LenVmaTests DEF SlotsInv
    <3>2. test' = test + 1
      BY <1>1, <1>3, <1>8
    <3> QED BY <3>1, <3>2
  <2>2. loop' \in {"take", "check"}
    BY <1>1, <1>3, <1>8
  <2>3. ASSUME loop' = "take"
        PROVE  0 \in 0 .. Len(VmaTests[test'].wants) - 1
    <3>1. VmaTests[test'].wants # << >>
      BY <1>1, <1>3, <1>8, <2>1, <2>3
    <3>2. VmaTests[test'].wants \in Seq(VS!Area)
      BY <2>1, WantsAreas
    <3>3. Len(VmaTests[test'].wants) >= 1
      BY <3>1, <3>2
    <3> QED BY <3>2, <3>3
  <2>4. SlotsInv'
    BY <1>4, <1>5, <2>1, <2>2, <2>3 DEF SlotsInv
  <2> QED BY <1>1, <1>2, <1>3, <1>6, <2>4, Disturbed
<1> QED BY <1>7, <1>8
\* The kernel's own areas come and go only between two commands.
LEMMA KernelKeeps ==
    ASSUME RegistryInv, NEW a \in KernelAreas, KernelAdds(a) \/ KernelRemoves(a)
    PROVE  RegistryInv'
<1>1. cmd = "idle" /\ cmd' = "idle" /\ mine' = mine
  BY DEF KernelAdds, KernelRemoves, testVars
<1>2. AreasInv /\ areas = registered /\ DOMAIN mine' = {}
  BY <1>1 DEF RegistryInv, RegistryRestored
<1>3. a \in VS!Area
  BY CmdVmaAssumption
<1>4. CASE KernelAdds(a)
  <2>1. VS!Add(a) /\ registered' = registered \cup {a}
    BY <1>4 DEF KernelAdds
  <2>2. AreasInv' /\ areas' = areas \cup {a}
    BY <1>2, <1>3, <2>1, AddIsNew
  <2> QED BY <1>1, <1>2, <2>1, <2>2 DEF RegistryInv, RegistryRestored
<1>5. CASE KernelRemoves(a)
  <2>1. a \in registered /\ VS!Remove(a.start) /\ registered' = registered \ {a}
    BY <1>5 DEF KernelRemoves
  <2>2. AreasInv' /\ areas' = areas \ {a}
    BY <1>2, <2>1, RemoveOne
  <2> QED BY <1>1, <1>2, <2>1, <2>2 DEF RegistryInv, RegistryRestored
<1> QED BY <1>4, <1>5

\* The verdict comes when nothing is held.
LEMMA VerdictKeeps ==
    ASSUME RegistryInv, Verdict, UNCHANGED vmaVars
    PROVE  RegistryInv'
<1>1. loop = "verdict" /\ cmd' = "idle" /\ mine' = Nothing
  BY DEF Verdict, Return
<1>2. areas' = areas /\ registered' = registered
  BY DEF vmaVars
<1>3. areas = registered
  <2>1. CASE cmd = "vma test"
    <3>1. DOMAIN mine = {} /\ areas = registered \cup Range(mine)
      BY <1>1, <2>1 DEF RegistryInv, SlotsInv, RegistryRestored
    <3> QED BY <3>1, EmptyRange
  <2>2. CASE cmd # "vma test"
    BY <2>2 DEF RegistryInv, RegistryRestored
  <2> QED BY <2>1, <2>2
<1>4. DOMAIN mine' = {}
  BY <1>1, NothingIsEmpty
<1> QED BY <1>1, <1>2, <1>3, <1>4 DEF RegistryInv, RegistryRestored, AreasInv

\* At the start the registry is empty.
LEMMA RegistryInit == Init => RegistryInv
<1> SUFFICES ASSUME Init PROVE RegistryInv
  OBVIOUS
<1>1. cmd = "idle" /\ mine = Nothing /\ areas = {} /\ registered = {}
  BY DEF Init, Idle, VmaInit
<1>2. DOMAIN mine = {}
  BY <1>1, NothingIsEmpty
<1> QED BY <1>1, <1>2 DEF RegistryInv, RegistryRestored, AreasInv

\* Every step of the shell keeps the account of the areas.
LEMMA RegistryStep ==
    ASSUME RestInv, RegistryInv, [Next]_vars
    PROVE  RegistryInv'
<1>1. RestInv'
  BY RestStep
<1>2. CASE UNCHANGED vmaVars /\ (PmmNext \/ HeapNext)
  <2>1. cmd # "vma test" /\ cmd' # "vma test"
    BY <1>2, PmmIsPmm, HeapIsHeap DEF PmmCommands
  <2> QED BY <1>1, <1>2, <2>1, OtherCommands
<1>3. CASE VmaNext
  BY <1>3, KernelKeeps, BeginKeeps, TakeKeeps, CheckKeeps, GiveKeeps, OverKeeps
     DEF VmaNext
<1>4. CASE Verdict /\ UNCHANGED vmaVars
  BY <1>4, VerdictKeeps
<1>5. CASE UNCHANGED vars
  BY <1>5 DEF vars, testVars, vmaVars, RegistryInv, RegistryRestored, AreasInv, SlotsInv, MineInv
<1> QED
  BY <1>2, <1>3, <1>4, <1>5 DEF Next, shell_run_command

\* However the adds of `vma test' are answered, the registry holds the areas
\* of the kernel and those the test has added and not yet removed; once the
\* command has returned, it is as it was before (cmd_vma.c, cmd_vma_test).
THEOREM RegistryAlwaysRestored == Spec => []RegistryRestored
<1>1. RegistryInv => RegistryRestored
  BY DEF RegistryInv
<1> QED BY <1>1, RestInit, RestStep, RegistryInit, RegistryStep, PTL DEF Spec

-----------------------------------------------------------------------------
(* What `vma test' can have found wrong *)

\* The registered areas are apart, those of the kernel are known, and the
\* test holds what it has asked for; the count it compares with is that of
\* the areas it does not hold.
VmaTestInv ==
    /\ IsFiniteSet(areas)
    /\ \A a, b \in areas : a # b => ~VS!Overlap(a, b)
    /\ registered \subseteq KernelAreas
    /\ cmd = "vma test" =>
         /\ pass \in BOOLEAN /\ (pass \/ denied)
         /\ DOMAIN mine \subseteq 1 .. Len(VmaTests[test].wants)
         /\ \A i \in DOMAIN mine : mine[i] = VmaTests[test].wants[i]
         /\ test = 1 /\ loop # "take" => TestArea \notin registered
         /\ start \in Int
         /\ test # 1 => Cardinality(areas) = start + Cardinality(DOMAIN mine)

VmaInv == RestInv /\ RegistryInv /\ VmaTestInv

\* A sequence has a length, and it goes that far.
LEMMA SeqFacts ==
    ASSUME NEW S, NEW s \in Seq(S)
    PROVE  /\ Len(s) \in Nat /\ DOMAIN s = 1 .. Len(s)
           /\ \A i \in 1 .. Len(s) : s[i] \in S
  OBVIOUS

\* Arithmetic of test numbers.
LEMMA SixNotOne == 6 # 1
  OBVIOUS

\* What is common to the steps of the self test.
LEMMA VmaFacts ==
    ASSUME VmaInv, cmd = "vma test"
    PROVE  /\ test \in 1 .. 6 /\ Len(VmaTests[test].wants) \in Nat
           /\ loop \in {"take", "check", "give", "verdict"}
           /\ DOMAIN mine \subseteq 1 .. Len(VmaTests[test].wants)
           /\ areas = registered \cup Range(mine) /\ areas \subseteq VS!Area
           /\ Cardinality(areas) \in Nat /\ Cardinality(DOMAIN mine) \in Nat
           /\ IsInjective(mine)
<1>1. test \in 1 .. 6 /\ loop \in {"take", "check", "give", "verdict"}
  BY DEF VmaInv, RegistryInv, SlotsInv
<1>2. VmaTests[test].wants \in Seq(VS!Area)
  BY <1>1, WantsAreas
<1>3. Len(VmaTests[test].wants) \in Nat
  BY <1>2, SeqFacts
<1>4. DOMAIN mine \subseteq 1 .. Len(VmaTests[test].wants)
  BY DEF VmaInv, VmaTestInv
<1>5. areas = registered \cup Range(mine) /\ areas \subseteq VS!Area
  BY DEF VmaInv, RegistryInv, RegistryRestored, AreasInv
<1>6. Cardinality(areas) \in Nat /\ Cardinality(DOMAIN mine) \in Nat
  BY <1>3, <1>4, SlotCount, FS_CardinalityType DEF VmaInv, VmaTestInv
<1>7. IsInjective(mine)
  BY DEF VmaInv, RegistryInv, MineInv, IsInjective
<1> QED BY <1>1, <1>3, <1>4, <1>5, <1>6, <1>7

\* vma_find answers with the one area that contains the address.
LEMMA FoundOne ==
    ASSUME VmaInv, NEW a \in areas, NEW x \in Int, a.start =< x, x < a.end
    PROVE  Found(x) = {a}
<1>1. \A b \in areas : b.start \in Int /\ b.end \in Int
  BY CmdVmaAssumption DEF VmaInv, RegistryInv, AreasInv, VS!Area
<1>2. ASSUME NEW b \in areas, VS!Contains(b, x) PROVE b = a
  <2>1. VS!Overlap(a, b)
    BY <1>1, <1>2 DEF VS!Contains, VS!Overlap
  <2> QED BY <2>1 DEF VmaInv, VmaTestInv
<1>3. VS!Contains(a, x)
  BY DEF VS!Contains
<1> QED BY <1>2, <1>3 DEF Found

\* The addresses the tests look up around an area of a page or more.
LEMMA AreaFacts ==
    ASSUME NEW a \in VS!Area, a.start + PAGE_SIZE =< a.end
    PROVE  /\ a.start \in Int /\ a.end \in Int
           /\ a.start + 1 \in Int /\ a.start =< a.start + 1 /\ a.start + 1 < a.end
           /\ a.start =< a.start /\ a.start < a.end
           /\ a.end - 1 \in Int /\ a.start =< a.end - 1 /\ a.end - 1 < a.end
           /\ ~(a.start =< a.start - PAGE_SIZE) /\ ~(a.end < a.end)
<1>1. a.start \in Int /\ a.end \in Int /\ PAGE_SIZE \in Nat \ {0, 1}
  BY CmdVmaAssumption DEF VS!Area
<1> QED BY <1>1

\* Every area the tests ask for is a page long at least.
LEMMA WantsPages ==
    ASSUME NEW t \in 1 .. 6, NEW i \in 1 .. Len(VmaTests[t].wants)
    PROVE  /\ VmaTests[t].wants[i] \in VS!Area
           /\ VmaTests[t].wants[i].start + PAGE_SIZE =< VmaTests[t].wants[i].end
<1> DEFINE w == VmaTests[t].wants
           Asked == {TestArea, AreaA, AreaB} \cup Range(Batch)
<1>1. w \in Seq(VS!Area)
  BY WantsAreas
<1>2. DOMAIN w = 1 .. Len(w)
  BY <1>1
<1>3. w[i] \in Asked
  <2>1. /\ VmaTests[1].wants = <<TestArea>> /\ VmaTests[2].wants = <<TestArea>>
        /\ VmaTests[3].wants = <<AreaA, AreaB>> /\ VmaTests[4].wants = Batch
        /\ VmaTests[5].wants = << >> /\ VmaTests[6].wants = <<TestArea>>
    BY DEF VmaTests, Test
  <2>2. t = 1 \/ t = 2 \/ t = 3 \/ t = 4 \/ t = 5 \/ t = 6
    OBVIOUS
  <2>3. w \in {<<TestArea>>, <<AreaA, AreaB>>, Batch, << >>}
    BY <2>1, <2>2
  <2>4. i \in DOMAIN w
    BY <1>2
  <2>5. \A j \in DOMAIN <<TestArea>> : <<TestArea>>[j] = TestArea
    OBVIOUS
  <2>6. \A j \in DOMAIN <<AreaA, AreaB>> : <<AreaA, AreaB>>[j] \in {AreaA, AreaB}
    OBVIOUS
  <2>7. DOMAIN << >> = {}
    OBVIOUS
  <2> HIDE DEF w
  <2> QED BY <2>3, <2>4, <2>5, <2>6, <2>7 DEF Range
<1> HIDE DEF w
<1> QED BY <1>1, <1>3, CmdVmaAssumption DEF w

\* The test finds what it expects.
LEMMA VmaAsExpected ==
    ASSUME VmaInv, cmd = "vma test", loop = "check"
    PROVE  VmaExpects
<1> SUFFICES ASSUME AllTaken PROVE VmaExpects
  BY DEF VmaExpects
<1> DEFINE w == VmaTests[test].wants
<1>1. w \in Seq(VS!Area) /\ DOMAIN mine = DOMAIN w /\ \A i \in DOMAIN mine : mine[i] = w[i]
  BY VmaFacts, WantsAreas DEF AllTaken, VmaInv, VmaTestInv
<1>2. DOMAIN mine = 1 .. Len(w)
  BY <1>1, SeqFacts
<1>3. ASSUME NEW i \in DOMAIN mine
      PROVE  /\ mine[i] \in areas /\ mine[i] \in VS!Area
             /\ mine[i].start + PAGE_SIZE =< mine[i].end
  <2>1. mine[i] \in areas
    BY VmaFacts DEF Range
  <2>2. i \in 1 .. Len(VmaTests[test].wants)
    BY <1>2
  <2> QED BY <1>1, <2>1, <2>2, VmaFacts, WantsPages
<1>4. \A i \in DOMAIN mine : Found(mine[i].start + 1) = {mine[i]}
  BY <1>3, AreaFacts, FoundOne
<1>5. test \in {1, 2, 6} =>
         /\ DOMAIN mine = {1} /\ TestArea \in areas /\ TestArea \in VS!Area
         /\ TestArea.start + PAGE_SIZE =< TestArea.end
  <2> SUFFICES ASSUME test \in {1, 2, 6}
               PROVE  /\ DOMAIN mine = {1} /\ TestArea \in areas /\ TestArea \in VS!Area
                      /\ TestArea.start + PAGE_SIZE =< TestArea.end
    OBVIOUS
  <2>1. w = <<TestArea>>
    <3>1. test = 1 \/ test = 2 \/ test = 6
      OBVIOUS
    <3>2. /\ VmaTests[1].wants = <<TestArea>> /\ VmaTests[2].wants = <<TestArea>>
          /\ VmaTests[6].wants = <<TestArea>>
      BY DEF VmaTests, Test
    <3> QED BY <3>1, <3>2
  <2>2. Len(<<TestArea>>) = 1 /\ <<TestArea>>[1] = TestArea
    OBVIOUS
  <2>3. DOMAIN mine = {1}
    BY <1>2, <2>1, <2>2, Ones
  <2>4. mine[1] = TestArea
    BY <1>1, <2>1, <2>2, <2>3
  <2> QED BY <1>3, <2>3, <2>4
<1>6. test = 1 => /\ Found(TestArea.start + 1) = {TestArea}
                  /\ TestArea \notin Found(TestArea.start - PAGE_SIZE)
                  /\ \E a \in areas : VS!Overlap(OverlapArea, a)
  <2> SUFFICES ASSUME test = 1
               PROVE  /\ Found(TestArea.start + 1) = {TestArea}
                      /\ TestArea \notin Found(TestArea.start - PAGE_SIZE)
                      /\ \E a \in areas : VS!Overlap(OverlapArea, a)
    OBVIOUS
  <2>1. /\ TestArea \in areas /\ TestArea \in VS!Area
        /\ TestArea.start + PAGE_SIZE =< TestArea.end
    BY <1>5
  <2>2. Found(TestArea.start + 1) = {TestArea}
    BY <2>1, AreaFacts, FoundOne
  <2>3. TestArea \notin Found(TestArea.start - PAGE_SIZE)
    <3>1. ~(TestArea.start =< TestArea.start - PAGE_SIZE)
      BY <2>1, AreaFacts
    <3> QED BY <3>1 DEF Found, VS!Contains
  <2>4. VS!Overlap(OverlapArea, TestArea)
    BY CmdVmaAssumption
  <2> QED BY <2>1, <2>2, <2>3, <2>4
<1>7. test = 2 => /\ Found(TestArea.start) = {TestArea}
                  /\ Found(TestArea.end - 1) = {TestArea}
                  /\ TestArea \notin Found(TestArea.end)
  <2> SUFFICES ASSUME test = 2
               PROVE  /\ Found(TestArea.start) = {TestArea}
                      /\ Found(TestArea.end - 1) = {TestArea}
                      /\ TestArea \notin Found(TestArea.end)
    OBVIOUS
  <2>1. /\ TestArea \in areas /\ TestArea \in VS!Area
        /\ TestArea.start + PAGE_SIZE =< TestArea.end
    BY <1>5
  <2>2. Found(TestArea.start) = {TestArea} /\ Found(TestArea.end - 1) = {TestArea}
    BY <2>1, AreaFacts, FoundOne
  <2>3. TestArea \notin Found(TestArea.end)
    <3>1. ~(TestArea.end < TestArea.end)
      BY <2>1, AreaFacts
    <3> QED BY <3>1 DEF Found, VS!Contains
  <2> QED BY <2>2, <2>3
<1>8. test = 5 => \A a \in areas : a.start # Nowhere
  <2> SUFFICES ASSUME test = 5 PROVE \A a \in areas : a.start # Nowhere
    OBVIOUS
  <2>1. w = << >>
    BY DEF VmaTests, Test
  <2>2. Len(<< >>) = 0
    OBVIOUS
  <2>3. DOMAIN mine = {}
    BY <1>2, <2>1, <2>2, Ones
  <2>4. areas = registered
    BY <2>3, EmptyRange, VmaFacts
  <2> QED BY <2>4, CmdVmaAssumption DEF VmaInv, VmaTestInv
<1>9. test = 6 => Cardinality(areas) = start + 1
  <2> SUFFICES ASSUME test = 6 PROVE Cardinality(areas) = start + 1
    OBVIOUS
  <2>1. DOMAIN mine = {1}
    BY <1>5
  <2>2. Cardinality(DOMAIN mine) = 1
    BY <2>1, FS_Singleton
  <2>3. test # 1
    BY SixNotOne, Zenon
  <2>4. Cardinality(areas) = start + Cardinality(DOMAIN mine)
    BY <2>3 DEF VmaInv, VmaTestInv
  <2> QED BY <2>2, <2>4
<1> HIDE DEF w
<1> QED BY <1>4, <1>6, <1>7, <1>8, <1>9 DEF VmaExpects

\* Areas come and go without overlap.
LEMMA Added ==
    ASSUME VmaInv, NEW a, VS!Add(a)
    PROVE  /\ areas' = areas \cup {a} /\ IsFiniteSet(areas')
           /\ \A b, c \in areas' : b # c => ~VS!Overlap(b, c)
<1>1. areas' = areas \cup {a} /\ \A b \in areas : ~VS!Overlap(a, b)
  BY DEF VS!Add
<1>2. \A b, c : VS!Overlap(b, c) => VS!Overlap(c, b)
  BY DEF VS!Overlap
<1>3. IsFiniteSet(areas')
  BY <1>1, FS_AddElement DEF VmaInv, VmaTestInv
<1> QED BY <1>1, <1>2, <1>3 DEF VmaInv, VmaTestInv

\* A remove leaves areas that are apart.
LEMMA Removed ==
    ASSUME VmaInv, NEW x, VS!Remove(x)
    PROVE  /\ IsFiniteSet(areas')
           /\ \A b, c \in areas' : b # c => ~VS!Overlap(b, c)
<1>1. PICK a \in areas : areas' = areas \ {a}
  BY DEF VS!Remove
<1>2. IsFiniteSet(areas')
  BY <1>1, FS_RemoveElement DEF VmaInv, VmaTestInv
<1> QED BY <1>1, <1>2 DEF VmaInv, VmaTestInv

\* The other commands leave the registry alone.
LEMMA VmaOther ==
    ASSUME VmaInv, UNCHANGED vmaVars, cmd' # "vma test"
    PROVE  VmaTestInv'
  BY DEF vmaVars, VmaInv, VmaTestInv

\* The kernel registers and removes its own areas between commands.
LEMMA VmaKernelStep ==
    ASSUME VmaInv, NEW a \in KernelAreas, KernelAdds(a) \/ KernelRemoves(a)
    PROVE  VmaTestInv'
<1>1. cmd' # "vma test"
  BY DEF KernelAdds, KernelRemoves, testVars
<1>2. CASE KernelAdds(a)
  BY <1>1, <1>2, Added DEF KernelAdds, VmaInv, VmaTestInv
<1>3. CASE KernelRemoves(a)
  BY <1>1, <1>3, Removed DEF KernelRemoves, VmaInv, VmaTestInv
<1> QED BY <1>2, <1>3

\* `vma test' begins.
LEMMA VmaBeginStep ==
    ASSUME VmaInv, cmd_vma_test
    PROVE  VmaTestInv'
<1>1. /\ cmd = "idle" /\ cmd' = "vma test" /\ test' = 1 /\ loop' = "take"
      /\ UNCHANGED <<mine, pass, areas, registered>>
  BY DEF cmd_vma_test, Begin, vmaVars
<1>2. DOMAIN mine = {} /\ pass = TRUE
  BY <1>1 DEF VmaInv, RestInv
<1>3. start' \in Int
  <2>1. start' = 0
    BY DEF cmd_vma_test, Begin
  <2> QED BY <2>1
<1> QED BY <1>1, <1>2, <1>3 DEF VmaInv, VmaTestInv

\* An add is granted or refused: the count grows with the slots in use.
LEMMA VmaTakeStep ==
    ASSUME VmaInv, RegistryInv', vma_test_take
    PROVE  VmaTestInv'
<1> DEFINE t == VmaTests[test]
           a == Wanted(t)
           k == FreeSlot(t)
<1>1. /\ cmd = "vma test" /\ loop = "take" /\ registered' = registered
      /\ \/ VS!Add(a) /\ Took(t, a)
         \/ VS!AddFails(a) /\ Refused(VmaTests)
  BY VmaFacts DEF vma_test_take, Taking
<1>2. /\ DOMAIN mine \subseteq 1 .. Len(t.wants) /\ DOMAIN mine # 1 .. Len(t.wants)
      /\ t.wants \in Seq(VS!Area)
  <2>1. t.wants \in Seq(VS!Area)
    BY <1>1, VmaFacts, WantsAreas
  <2>2. PICK j \in 0 .. Len(t.wants) - 1 : DOMAIN mine = 1 .. j
    BY <1>1 DEF VmaInv, RegistryInv, SlotsInv
  <2>3. Len(t.wants) \in Nat
    BY <2>1
  <2> HIDE DEF t
  <2>4. 1 .. j \subseteq 1 .. Len(t.wants) /\ Len(t.wants) \notin 1 .. j /\ Len(t.wants) \in 1 .. Len(t.wants)
    BY <2>3
  <2> QED BY <2>1, <2>2, <2>4
<1>3. CASE VS!Add(a) /\ Took(t, a)
  <2>0. mine'[k] = a => mine'[k] = t.wants[k]
    BY DEF Wanted
  <2>1. /\ k \in (1 .. Len(t.wants)) \ DOMAIN mine
        /\ DOMAIN mine' = DOMAIN mine \cup {k} /\ mine'[k] = t.wants[k]
        /\ \A s \in DOMAIN mine : mine'[s] = mine[s]
    <3> HIDE DEF t, a
    <3> QED BY <1>2, <1>3, <2>0, TookFacts
  <2>2. /\ UNCHANGED <<cmd, test, start, pass, denied>>
        /\ loop' = IF DOMAIN mine' # 1 .. Len(t.wants) THEN "take" ELSE "check"
    BY <1>1, <1>3 DEF Took
  <2> HIDE DEF k
  <2>3. /\ DOMAIN mine' \subseteq 1 .. Len(t.wants)
        /\ \A i \in DOMAIN mine' : mine'[i] = t.wants[i]
    BY <1>1, <1>2, <2>1 DEF VmaInv, VmaTestInv
  <2>4. test = 1 /\ loop' # "take" => TestArea \notin registered'
    <3> SUFFICES ASSUME test = 1, loop' # "take" PROVE TestArea \notin registered'
      OBVIOUS
    <3>1. t.wants = <<TestArea>> /\ Len(<<TestArea>>) = 1 /\ <<TestArea>>[1] = TestArea
      BY DEF VmaTests, Test
    <3>2. DOMAIN mine' = {1}
      BY <2>2, <3>1, Ones
    <3>3. mine'[1] = TestArea
      BY <2>3, <3>1, <3>2
    <3>4. \A i \in DOMAIN mine' : mine'[i] \notin registered'
      BY <1>1, <2>2 DEF RegistryInv, MineInv
    <3> QED BY <3>2, <3>3, <3>4
  <2>5. test # 1 => Cardinality(areas') = start' + Cardinality(DOMAIN mine')
    <3> SUFFICES ASSUME test # 1 PROVE Cardinality(areas') = start' + Cardinality(DOMAIN mine')
      OBVIOUS
    <3>1. Cardinality(DOMAIN mine') = Cardinality(DOMAIN mine) + 1
      BY <1>1, <2>1, VmaFacts, SlotCount
    <3>2. areas' = areas \cup {a} /\ a \notin areas
      <4>1. t.wants[k] \in VS!Area
        BY <1>2, <2>1
      <4>2. a \in VS!Area
        BY <4>1 DEF Wanted, k
      <4> QED BY <1>3, <4>2, AddIsNew DEF VmaInv, RegistryInv
    <3>3. Cardinality(areas') = Cardinality(areas) + 1
      BY <3>2, FS_AddElement DEF VmaInv, VmaTestInv
    <3>4. Cardinality(areas) = start + Cardinality(DOMAIN mine)
      BY <1>1 DEF VmaInv, VmaTestInv
    <3>5. Cardinality(areas) \in Nat /\ Cardinality(DOMAIN mine) \in Nat /\ start \in Int
      BY <1>1, VmaFacts DEF VmaInv, VmaTestInv
    <3>6. start' = start
      BY <2>2
    <3> QED BY <3>1, <3>3, <3>4, <3>5, <3>6
  <2>6. IsFiniteSet(areas') /\ \A b, c \in areas' : b # c => ~VS!Overlap(b, c)
    BY <1>3, Added
  <2>7. /\ pass' \in BOOLEAN /\ (pass' \/ denied') /\ registered' \subseteq KernelAreas
        /\ start' \in Int
    BY <1>1, <2>2 DEF VmaInv, VmaTestInv
  <2> QED BY <2>2, <2>3, <2>4, <2>5, <2>6, <2>7 DEF VmaTestInv
<1>4. CASE VS!AddFails(a) /\ Refused(VmaTests)
  <2>1. areas' = areas
    BY <1>4 DEF VS!AddFails
  <2>2. CASE test = 1
    <3>1. cmd' = "idle"
      BY <1>1, <1>4, <2>2, WantsAreas, VmaFacts DEF Refused, Return
    <3> QED BY <1>1, <2>1, <3>1 DEF VmaInv, VmaTestInv
  <2>3. CASE test # 1
    <3>1. t.refused = "keep"
      BY <1>1, <2>3, WantsAreas, VmaFacts
    <3>2. /\ UNCHANGED <<cmd, test, mine, start>> /\ denied' = TRUE /\ pass' = (pass /\ ~t.fails)
      BY <1>1, <1>4, <3>1 DEF Refused
    <3>3. pass' \in BOOLEAN
      BY <3>2
    <3> QED BY <1>1, <2>1, <2>3, <3>2, <3>3 DEF VmaInv, VmaTestInv
  <2> QED BY <2>2, <2>3
<1> QED BY <1>1, <1>3, <1>4

\* The test finds what it expects and goes on passing.
LEMMA VmaCheckStep ==
    ASSUME VmaInv, vma_test_check
    PROVE  VmaTestInv'
<1>1. /\ cmd = "vma test" /\ loop = "check" /\ pass' = (pass /\ VmaExpects)
      /\ UNCHANGED <<cmd, test, mine, start, denied, areas, registered>>
  BY DEF vma_test_check, Checks, vmaVars
<1>2. VmaExpects
  BY <1>1, VmaAsExpected
<1>3. pass \in BOOLEAN /\ (pass \/ denied)
  BY <1>1 DEF VmaInv, VmaTestInv
<1>4. pass' = pass
  BY <1>1, <1>2, <1>3
<1>5. denied' = denied
  BY <1>1
<1>6. pass' \in BOOLEAN /\ (pass' \/ denied')
  BY <1>3, <1>4, <1>5
<1> QED BY <1>1, <1>6 DEF VmaInv, VmaTestInv

\* A remove, which never fails for an area the test holds.
LEMMA VmaGiveStep ==
    ASSUME VmaInv, RegistryInv', vma_test_give
    PROVE  VmaTestInv'
<1> DEFINE k == GiveSlot
<1>1. /\ cmd = "vma test" /\ loop = "give" /\ DOMAIN mine # {}
      /\ VS!Remove(mine[k].start) \/ VS!RemoveFails(mine[k].start)
      /\ Gave /\ registered' = registered
  BY VmaFacts DEF vma_test_give, Giving
<1>2. UNCHANGED <<cmd, test, start, pass, denied, loop>>
  BY <1>1 DEF Gave
<1>3. /\ k \in DOMAIN mine /\ DOMAIN mine' = DOMAIN mine \ {k}
      /\ \A s \in DOMAIN mine' : mine'[s] = mine[s]
  BY <1>1, VmaFacts, GaveFacts
<1> HIDE DEF k
<1>4. mine[k] \in areas
  BY <1>1, <1>3, VmaFacts DEF Range
<1>5. VS!Remove(mine[k].start)
  BY <1>1, <1>4 DEF VS!RemoveFails
<1>6. areas' = areas \ {mine[k]}
  BY <1>4, <1>5, RemoveOne DEF VmaInv, RegistryInv
<1>7. test # 1 => Cardinality(areas') = start' + Cardinality(DOMAIN mine')
  <2> SUFFICES ASSUME test # 1 PROVE Cardinality(areas') = start' + Cardinality(DOMAIN mine')
    OBVIOUS
  <2>1. Cardinality(DOMAIN mine') = Cardinality(DOMAIN mine) - 1
    BY <1>1, <1>3, VmaFacts, SlotCount
  <2>2. Cardinality(areas') = Cardinality(areas) - 1
    BY <1>4, <1>6, FS_RemoveElement DEF VmaInv, VmaTestInv
  <2>3. Cardinality(areas) = start + Cardinality(DOMAIN mine)
    BY <1>1 DEF VmaInv, VmaTestInv
  <2>4. Cardinality(areas) \in Nat /\ Cardinality(DOMAIN mine) \in Nat /\ start \in Int
    BY <1>1, VmaFacts DEF VmaInv, VmaTestInv
  <2>5. start' = start
    BY <1>2
  <2> QED BY <2>1, <2>2, <2>3, <2>4, <2>5
<1>8. IsFiniteSet(areas') /\ \A b, c \in areas' : b # c => ~VS!Overlap(b, c)
  BY <1>5, Removed
<1>9. /\ DOMAIN mine' \subseteq 1 .. Len(VmaTests[test].wants)
      /\ \A i \in DOMAIN mine' : mine'[i] = VmaTests[test].wants[i]
  BY <1>1, <1>3 DEF VmaInv, VmaTestInv
<1>10. /\ pass' \in BOOLEAN /\ (pass' \/ denied') /\ registered' \subseteq KernelAreas
       /\ (test = 1 => TestArea \notin registered') /\ start' \in Int
  BY <1>1, <1>2 DEF VmaInv, VmaTestInv
<1> QED BY <1>2, <1>7, <1>8, <1>9, <1>10 DEF VmaTestInv

\* The last look of a test, whose area is gone and whose count is back.
LEMMA VmaOverStep ==
    ASSUME VmaInv, vma_test_over
    PROVE  VmaTestInv'
<1>1. /\ cmd = "vma test" /\ loop = "give" /\ mine = Nothing
      /\ UNCHANGED <<areas, registered>>
  BY VmaFacts DEF vma_test_over, Over, vmaVars
<1>2. DOMAIN mine = {} /\ Cardinality(DOMAIN mine) = 0
  BY <1>1, NothingIsEmpty, FS_EmptySet
<1>3. areas = registered
  BY <1>1, <1>2, EmptyRange, VmaFacts
<1>4. /\ pass' = (pass /\ /\ test = 1 => TestArea \notin Found(TestArea.start + 1)
                          /\ test = 6 => Cardinality(areas) = start)
      /\ start' = Cardinality(areas) /\ UNCHANGED <<cmd, mine, denied>>
      /\ IF test = 6 THEN loop' = "verdict" /\ UNCHANGED test ELSE test' = test + 1
  BY <1>1, LenVmaTests DEF vma_test_over, Over
<1>5. Cardinality(areas) = Cardinality(areas) + Cardinality(DOMAIN mine)
  <2>1. Cardinality(areas) \in Nat
    BY <1>1, VmaFacts
  <2> QED BY <1>2, <2>1
<1>6. test = 1 => TestArea \notin Found(TestArea.start + 1)
  BY <1>1, <1>3 DEF VmaInv, VmaTestInv, Found
<1>7. test = 6 => Cardinality(areas) = start
  <2> SUFFICES ASSUME test = 6 PROVE Cardinality(areas) = start
    OBVIOUS
  <2>1. test # 1
    OBVIOUS
  <2>2. Cardinality(areas) = start + Cardinality(DOMAIN mine) /\ start \in Int
    BY <1>1, <2>1 DEF VmaInv, VmaTestInv
  <2> QED BY <1>2, <2>2
<1>8. pass \in BOOLEAN /\ (pass \/ denied)
  BY <1>1 DEF VmaInv, VmaTestInv
<1>9. pass' = pass
  BY <1>4, <1>6, <1>7, <1>8
<1>10. test' # 1
  <2>1. test \in 1 .. 6
    BY <1>1, VmaFacts
  <2>2. test' = 6 \/ test' = test + 1
    BY <1>4
  <2> QED BY <2>1, <2>2
<1>11. pass' \in BOOLEAN /\ (pass' \/ denied')
  BY <1>4, <1>8, <1>9
<1>12. DOMAIN mine' = {} /\ Cardinality(areas') = start' + Cardinality(DOMAIN mine')
  BY <1>1, <1>2, <1>4, <1>5
<1>13. start' \in Int
  <2>1. Cardinality(areas) \in Nat
    BY <1>1, VmaFacts
  <2> QED BY <1>4, <2>1
<1> QED BY <1>1, <1>4, <1>10, <1>11, <1>12, <1>13 DEF VmaInv, VmaTestInv

\* At the start there is nothing to be found wrong.
LEMMA VmaInitially == Init => VmaInv
<1> SUFFICES ASSUME Init PROVE VmaInv
  OBVIOUS
<1>1. cmd = "idle" /\ areas = {} /\ registered = {}
  BY DEF Init, Idle, VmaInit
<1> QED BY <1>1, RestInit, RegistryInit, FS_EmptySet DEF VmaInv, VmaTestInv

\* Every step of the shell keeps what `vma test' relies on.
LEMMA VmaStep ==
    ASSUME VmaInv, [Next]_vars
    PROVE  VmaInv'
<1>1. RestInv /\ RestInv' /\ RegistryInv'
  BY RestStep, RegistryStep DEF VmaInv
<1>2. CASE VmaNext
  BY <1>1, <1>2, VmaKernelStep, VmaBeginStep, VmaTakeStep, VmaCheckStep, VmaGiveStep,
     VmaOverStep DEF VmaNext, VmaInv
<1>3. CASE UNCHANGED vmaVars /\ (PmmNext \/ HeapNext)
  <2>1. cmd' # "vma test"
    BY <1>1, <1>3, PmmIsPmm, HeapIsHeap DEF PmmCommands
  <2> QED BY <1>1, <1>3, <2>1, VmaOther DEF VmaInv
<1>4. CASE Verdict /\ UNCHANGED vmaVars
  BY <1>1, <1>4, VmaOther DEF Verdict, Return, VmaInv
<1>5. CASE UNCHANGED vars
  <2>1. UNCHANGED <<cmd, test, loop, mine, start, pass, denied, areas, registered>>
    BY <1>5 DEF vars, testVars, vmaVars
  <2> QED BY <1>1, <2>1 DEF VmaInv, VmaTestInv
<1> QED BY <1>2, <1>3, <1>4, <1>5 DEF Next, shell_run_command

-----------------------------------------------------------------------------

\* No self test prints SOME FAILED about a layer that keeps its contract unless
\* a request was refused or an earlier run of `heap test' has lost pieces: the
\* look-ups, counts and comparisons of the tests themselves are right
\* (cmd_pmm.c:cmd_pmm_test, cmd_heap.c:do_test, cmd_vma.c:cmd_vma_test).
THEOREM VerdictsAlwaysJustified == Spec => []VerdictsJustified
<1>1. ASSUME PmmInv, HeapInv, VmaInv
      PROVE  VerdictsJustified
  <2> SUFFICES ASSUME loop = "verdict"
               PROVE  \/ pass
                      \/ cmd = "heap test" /\ (denied \/ lost # {})
                      \/ cmd = "vma test" /\ denied
    BY DEF VerdictsJustified
  <2>1. cmd \in {"pmm test", "heap test", "vma test"}
    BY <1>1 DEF PmmInv, RestInv, PmmCommands
  <2>2. CASE cmd = "pmm test"
    BY <1>1, <2>2 DEF PmmInv, PmmTestInv
  <2>3. CASE cmd = "heap test"
    BY <1>1, <2>3 DEF HeapInv, HeapTestInv
  <2>4. CASE cmd = "vma test"
    BY <1>1, <2>4 DEF VmaInv, VmaTestInv
  <2> QED BY <2>1, <2>2, <2>3, <2>4
<1> QED
  BY <1>1, PmmInitially, PmmStep, HeapInitially, HeapStep, VmaInitially, VmaStep, PTL DEF Spec
=============================================================================
