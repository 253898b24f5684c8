------------------------------ MODULE VmaProofs ------------------------------
(***************************************************************************)
(* The sorted array and the red-black tree implement the VMA contract, and *)
(* the tree is a red-black tree, for every address width, page size,       *)
(* capacity and sequence of calls.                                         *)
(*                                                                         *)
(* First the sorted array; then what the operators of VmaRbTree do to a    *)
(* tree, without any state; last the states of VmaRbTree.                  *)
(***************************************************************************)
EXTENDS VmaSortedArray, VmaRbTree,
        FiniteSetTheorems, NaturalsInduction, WellFoundedInduction, TLAPS

-----------------------------------------------------------------------------
(* The sorted array: the invariant                                         *)

Slots == 0 .. g_count - 1

\* The loop invariant of sa_lower_bound and sa_upper_bound.
SaSearchInv ==
    call # Idle =>
       /\ left \in 0 .. g_count /\ right \in 0 .. g_count /\ left <= right
       /\ \A i \in 0 .. left - 1 : GoesRight(g_areas[i].start)
       /\ \A i \in right .. g_count - 1 : ~GoesRight(g_areas[i].start)

SaInv ==
    /\ SaTypeOK
    /\ SortedAndDisjoint
    /\ SaSearchInv
    /\ call.op = "add" => ~SaRejected(call.area)

LEMMA AddrInt == Addr \subseteq Int
  BY VmaAssumption DEF Addr

LEMMA SaInvInit == sa_init => SaInv
<1> SUFFICES ASSUME sa_init PROVE SaInv
  OBVIOUS
<1>1. g_areas \in [0 .. g_count - 1 -> Area]
  BY DEF sa_init
<1>2. SaTypeOK
  BY <1>1, SaAssumption DEF sa_init, SaTypeOK, Calls
<1> QED BY <1>2 DEF SaInv, sa_init, SortedAndDisjoint, SaSearchInv, Idle

\* A call that only starts or is refused.
LEMMA SaStartKeeps ==
    ASSUME SaInv, UNCHANGED <<g_count, g_areas>>, SaTypeOK',
           \/ call' = Idle
           \/ /\ left' = 0 /\ right' = g_count
              /\ call'.op = "add" => ~SaRejected(call'.area)
    PROVE  SaInv'
<1>1. SortedAndDisjoint'
  BY DEF SaInv, SortedAndDisjoint
<1>2. g_count \in Nat
  BY SaAssumption DEF SaInv, SaTypeOK
<1>3. SaSearchInv'
  BY <1>2 DEF SaSearchInv
<1>4. (call.op = "add" => ~SaRejected(call.area))'
  <2>1. CASE call' = Idle
    BY <2>1 DEF Idle
  <2>2. CASE call' # Idle
    BY <2>2 DEF SaRejected
  <2> QED BY <2>1, <2>2
<1> QED BY <1>1, <1>3, <1>4 DEF SaInv

LEMMA SlotType ==
    ASSUME SaInv
    PROVE  /\ g_count \in Nat /\ g_count <= VMA_MAX_AREAS
           /\ \A i \in Slots : /\ g_areas[i] \in Area
                               /\ g_areas[i].start \in Int
                               /\ g_areas[i].end \in Int
<1>1. g_count \in Nat /\ g_count <= VMA_MAX_AREAS
  BY SaAssumption DEF SaInv, SaTypeOK
<1>2. \A i \in Slots : g_areas[i] \in Area
  BY DEF SaInv, SaTypeOK, Slots
<1>3. \A a \in Area : a.start \in Int /\ a.end \in Int
  BY AddrInt, Zenon DEF Area
<1> QED BY <1>1, <1>2, <1>3

LEMMA StartsIncrease ==
    ASSUME SaInv, NEW i \in Slots, NEW j \in Slots, i < j
    PROVE  /\ g_areas[i].end <= g_areas[j].start
           /\ g_areas[i].start < g_areas[j].start
<1>1. /\ g_areas[i].start \in Int /\ g_areas[i].end \in Int
      /\ g_areas[j].start \in Int /\ g_count \in Nat
  BY SlotType
<1>2. j \in i + 1 .. g_count - 1
  BY <1>1 DEF Slots
<1>3. /\ g_areas[i].start < g_areas[i].end
      /\ g_areas[i].end <= g_areas[j].start
  BY <1>2 DEF SaInv, SortedAndDisjoint, Slots
<1> QED BY <1>1, <1>3

\* The types of the call in progress.
LEMMA SaCallType ==
    ASSUME SaInv, call # Idle
    PROVE  \/ /\ call.op = "add" /\ call.area \in Area
              /\ call.area.start \in Int /\ call.area.end \in Int
           \/ call.op \in {"remove", "find"} /\ call.addr \in Int
<1>1. \/ call \in [op : {"add"}, area : Area]
      \/ call \in [op : {"remove", "find"}, addr : Addr]
  BY DEF SaInv, SaTypeOK, Calls
<1>2. \A a \in Area : a.start \in Int /\ a.end \in Int
  BY AddrInt, Zenon DEF Area
<1> QED BY <1>1, <1>2, AddrInt

LEMMA GoesRightMono ==
    ASSUME SaInv, call # Idle, NEW s \in Int, NEW t \in Int, t <= s,
           GoesRight(s)
    PROVE  GoesRight(t)
<1>1. CASE call.op = "add"
  BY <1>1, SaCallType DEF GoesRight
<1>2. CASE call.op = "remove"
  BY <1>2, SaCallType DEF GoesRight
<1>3. CASE call.op = "find"
  BY <1>3, SaCallType DEF GoesRight
<1> QED BY <1>1, <1>2, <1>3, SaCallType

LEMMA SaSearchKeeps == SaInv /\ SearchStep => SaInv'
<1> SUFFICES ASSUME SaInv, SearchStep PROVE SaInv'
  OBVIOUS
<1> DEFINE mid == left + (right - left) \div 2
<1>1. /\ call # Idle /\ left < right
      /\ UNCHANGED <<g_count, g_areas, call, ret>>
      /\ IF GoesRight(g_areas[mid].start)
         THEN left' = mid + 1 /\ UNCHANGED right
         ELSE right' = mid /\ UNCHANGED left
  BY DEF SearchStep
<1>2. /\ left \in 0 .. g_count /\ right \in 0 .. g_count
      /\ g_count \in Nat /\ g_count <= VMA_MAX_AREAS
      /\ \A i \in 0 .. left - 1 : GoesRight(g_areas[i].start)
      /\ \A i \in right .. g_count - 1 : ~GoesRight(g_areas[i].start)
  BY <1>1, SlotType DEF SaInv, SaSearchInv
<1>3. mid \in left .. right - 1 /\ mid \in Slots /\ mid \in Int
  BY <1>1, <1>2 DEF Slots
<1> HIDE DEF mid
<1>4. \A i \in Slots : g_areas[i].start \in Int
  BY SlotType
<1>5. \A s : GoesRight(s)' <=> GoesRight(s)
  BY <1>1 DEF GoesRight
<1>6. CASE GoesRight(g_areas[mid].start)
  <2>1. left' = mid + 1 /\ right' = right
    BY <1>1, <1>6
  <2>2. ASSUME NEW i \in 0 .. mid PROVE GoesRight(g_areas[i].start)
    <3>1. i \in Slots /\ mid \in Int /\ i \in Int
      BY <1>2, <1>3 DEF Slots
    <3>2. CASE i = mid
      BY <1>6, <3>2
    <3>3. CASE i # mid
      <4>1. g_areas[i].start < g_areas[mid].start
        BY <1>3, <3>1, <3>3, StartsIncrease
      <4>2. g_areas[i].start <= g_areas[mid].start
        BY <1>3, <1>4, <3>1, <4>1
      <4> QED BY <1>1, <1>3, <1>4, <1>6, <3>1, <4>2, GoesRightMono
    <3> QED BY <3>2, <3>3
  <2>3. SaSearchInv'
    BY <1>1, <1>2, <1>3, <1>5, <2>1, <2>2 DEF SaSearchInv
  <2>4. left' \in 0 .. VMA_MAX_AREAS
    BY <1>2, <1>3, <2>1, SaAssumption
  <2>5. SaTypeOK'
    BY <1>1, <2>1, <2>4 DEF SaInv, SaTypeOK
  <2> QED BY <1>1, <2>3, <2>5 DEF SaInv, SortedAndDisjoint, SaRejected
<1>7. CASE ~GoesRight(g_areas[mid].start)
  <2>1. right' = mid /\ left' = left
    BY <1>1, <1>7
  <2>2. ASSUME NEW i \in mid .. g_count - 1
        PROVE  ~GoesRight(g_areas[i].start)
    <3>1. i \in Slots /\ mid \in Int /\ i \in Int
      BY <1>2, <1>3 DEF Slots
    <3>2. CASE i = mid
      BY <1>7, <3>2
    <3>3. CASE i # mid
      <4>1. g_areas[mid].start < g_areas[i].start
        BY <1>3, <3>1, <3>3, StartsIncrease
      <4>2. g_areas[mid].start <= g_areas[i].start
        BY <1>3, <1>4, <3>1, <4>1
      <4> QED BY <1>1, <1>3, <1>4, <1>7, <3>1, <4>2, GoesRightMono
    <3> QED BY <3>2, <3>3
  <2>3. SaSearchInv'
    BY <1>1, <1>2, <1>3, <1>5, <2>1, <2>2 DEF SaSearchInv
  <2>4. right' \in 0 .. VMA_MAX_AREAS
    BY <1>2, <1>3, <2>1, SaAssumption
  <2>5. SaTypeOK'
    BY <1>1, <2>1, <2>4 DEF SaInv, SaTypeOK
  <2> QED BY <1>1, <2>3, <2>5 DEF SaInv, SortedAndDisjoint, SaRejected
<1> QED BY <1>6, <1>7

\* A finished search has split the array at left: GoesRight holds before it
\* and nowhere from it on.
LEMMA SaSearchDone ==
    ASSUME SaInv, call # Idle, left >= right
    PROVE  /\ left \in 0 .. g_count
           /\ \A i \in 0 .. left - 1 : GoesRight(g_areas[i].start)
           /\ \A i \in left .. g_count - 1 : ~GoesRight(g_areas[i].start)
  BY SlotType DEF SaInv, SaSearchInv

\* The insertion point of sa_add: the new area fits between its neighbours.
LEMMA InsertFits ==
    ASSUME SaInv, call.op = "add", left >= right
    PROVE  /\ call.area \in Area /\ call.area.start < call.area.end
           /\ g_count < VMA_MAX_AREAS
           /\ left \in 0 .. g_count
           /\ \A i \in 0 .. left - 1 : g_areas[i].end <= call.area.start
           /\ \A i \in left .. g_count - 1 :
                 call.area.end <= g_areas[i].start
<1>1. call # Idle
  BY DEF Idle
<1>2. /\ call.area \in Area
      /\ call.area.start \in Int /\ call.area.end \in Int
  BY <1>1, SaCallType
<1>3. /\ left \in 0 .. g_count
      /\ \A i \in 0 .. left - 1 : GoesRight(g_areas[i].start)
      /\ \A i \in left .. g_count - 1 : ~GoesRight(g_areas[i].start)
  BY <1>1, SaSearchDone
<1>4. ~SaRejected(call.area)
  BY DEF SaInv
<1>5. g_count \in Nat /\ g_count <= VMA_MAX_AREAS
      /\ \A i \in Slots : g_areas[i].start \in Int /\ g_areas[i].end \in Int
  BY SlotType
<1>6. call.area.start < call.area.end /\ g_count < VMA_MAX_AREAS
  BY <1>2, <1>4, <1>5, SaAssumption DEF SaRejected
<1>7. \A i \in Slots : ~Overlaps(call.area, g_areas[i])
  BY <1>4 DEF SaRejected, Slots
<1>8. \A s : GoesRight(s) <=> s < call.area.start
  BY DEF GoesRight
<1>9. \A i \in Slots : g_areas[i].start < g_areas[i].end
  BY DEF SaInv, SortedAndDisjoint, Slots
<1>10. ASSUME NEW i \in 0 .. left - 1
       PROVE  g_areas[i].end <= call.area.start
  <2>1. i \in Slots
    BY <1>3, <1>5 DEF Slots
  <2> QED BY <1>2, <1>3, <1>5, <1>6, <1>7, <1>8, <2>1 DEF Overlaps
<1>11. ASSUME NEW i \in left .. g_count - 1
       PROVE  call.area.end <= g_areas[i].start
  <2>1. i \in Slots
    BY <1>3, <1>5 DEF Slots
  <2> QED BY <1>2, <1>3, <1>5, <1>7, <1>8, <1>9, <2>1 DEF Overlaps
<1> QED BY <1>2, <1>3, <1>6, <1>10, <1>11

LEMMA SaInsertKeeps == SaInv /\ sa_add_insert => SaInv'
<1> SUFFICES ASSUME SaInv, sa_add_insert PROVE SaInv'
  OBVIOUS
<1> DEFINE a == call.area
<1>1. /\ call.op = "add" /\ left >= right
      /\ g_areas' = [i \in 0 .. g_count |->
                      IF i < left THEN g_areas[i]
                      ELSE IF i = left THEN a ELSE g_areas[i - 1]]
      /\ g_count' = g_count + 1
      /\ ret' = [call |-> call, code |-> 0, area |-> NONE] /\ call' = Idle
      /\ UNCHANGED <<left, right>>
  BY DEF sa_add_insert, SaReturn
<1>2. /\ a \in Area /\ a.start < a.end /\ g_count < VMA_MAX_AREAS
      /\ left \in 0 .. g_count
      /\ \A i \in 0 .. left - 1 : g_areas[i].end <= a.start
      /\ \A i \in left .. g_count - 1 : a.end <= g_areas[i].start
  BY <1>1, InsertFits
<1>3. /\ g_count \in Nat
      /\ \A i \in Slots : g_areas[i] \in Area
      /\ \A i \in Slots : g_areas[i].start \in Int /\ g_areas[i].end \in Int
  BY SlotType
<1>4. a.start \in Int /\ a.end \in Int
  BY <1>2, AddrInt, Zenon DEF Area
<1> HIDE DEF a
<1>5. ASSUME NEW i \in 0 .. g_count
      PROVE  /\ i < left => i \in Slots /\ g_areas'[i] = g_areas[i]
             /\ i = left => g_areas'[i] = a
             /\ i > left => i - 1 \in Slots /\ g_areas'[i] = g_areas[i - 1]
  BY <1>1, <1>2, <1>3 DEF Slots
<1>6. ASSUME NEW i \in 0 .. g_count
      PROVE  g_areas'[i] \in Area /\ g_areas'[i].start < g_areas'[i].end
  <2>1. \A k \in Slots : g_areas[k].start < g_areas[k].end
    BY DEF SaInv, SortedAndDisjoint, Slots
  <2>2. left \in Int /\ i \in Int
    BY <1>2, <1>3
  <2> QED BY <1>2, <1>3, <1>5, <2>1, <2>2
<1>7. ASSUME NEW i \in 0 .. g_count, NEW j \in i + 1 .. g_count
      PROVE  g_areas'[i].end <= g_areas'[j].start
  <2>1. i \in Int /\ j \in 0 .. g_count /\ j \in Int /\ i < j /\ left \in Int
    BY <1>2, <1>3
  <2>2. CASE j < left
    BY <1>5, <2>1, <2>2, StartsIncrease
  <2>3. CASE j = left
    <3>1. i \in 0 .. left - 1 /\ i < left
      BY <1>3, <2>1, <2>3
    <3> QED BY <1>2, <1>5, <2>1, <2>3, <3>1
  <2>4. CASE i = left
    <3>1. j - 1 \in left .. g_count - 1 /\ j > left
      BY <1>2, <1>3, <2>1, <2>4
    <3> QED BY <1>2, <1>5, <2>1, <2>4, <3>1
  <2>5. CASE i > left
    <3>1. /\ j > left /\ i - 1 < j - 1
          /\ i - 1 \in Slots /\ g_areas'[i] = g_areas[i - 1]
          /\ j - 1 \in Slots /\ g_areas'[j] = g_areas[j - 1]
      BY <1>5, <2>1, <2>5
    <3> QED BY <3>1, StartsIncrease
  <2>6. CASE i < left /\ j > left
    <3>1. /\ i \in Slots /\ g_areas'[i] = g_areas[i]
          /\ j - 1 \in Slots /\ g_areas'[j] = g_areas[j - 1]
          /\ i \in 0 .. left - 1 /\ j - 1 \in left .. g_count - 1
      BY <1>2, <1>3, <1>5, <2>1, <2>6
    <3>2. i < j - 1
      BY <1>2, <1>3, <2>1, <2>6
    <3> QED BY <3>1, <3>2, StartsIncrease
  <2> QED BY <2>1, <2>2, <2>3, <2>4, <2>5, <2>6
<1>8. g_count' \in 0 .. VMA_MAX_AREAS /\ g_count' - 1 = g_count
  BY <1>1, <1>2, <1>3, SaAssumption
<1>9. g_areas' \in [0 .. g_count' - 1 -> Area]
  BY <1>1, <1>6, <1>8
<1>10. SaTypeOK'
  BY <1>1, <1>8, <1>9 DEF SaTypeOK, SaInv, Calls
<1>11. SortedAndDisjoint'
  BY <1>6, <1>7, <1>8, Zenon DEF SortedAndDisjoint
<1> QED BY <1>1, <1>10, <1>11 DEF SaInv, SaSearchInv, Idle

LEMMA SaDeleteKeeps == SaInv /\ sa_remove_delete => SaInv'
<1> SUFFICES ASSUME SaInv, sa_remove_delete PROVE SaInv'
  OBVIOUS
<1>1. /\ call.op = "remove" /\ left >= right
      /\ call' = Idle /\ UNCHANGED <<left, right>>
      /\ ret' \in [call : Calls, code : {0, -1}, area : Area \cup {NONE}]
  BY DEF sa_remove_delete, SaReturn, SaInv, SaTypeOK
<1>2. call # Idle
  BY <1>1 DEF Idle
<1>3. left \in 0 .. g_count
  BY <1>1, <1>2, SaSearchDone
<1>4. CASE UNCHANGED <<g_count, g_areas>>
  <2>1. SaTypeOK'
    BY <1>1, <1>4 DEF SaInv, SaTypeOK, Calls
  <2> QED BY <1>1, <1>4, <2>1, SaStartKeeps
<1>5. CASE /\ left # g_count
           /\ g_areas' = [i \in 0 .. g_count - 2 |->
                             IF i < left THEN g_areas[i] ELSE g_areas[i + 1]]
           /\ g_count' = g_count - 1
  <2>1. /\ g_count \in Nat /\ g_count <= VMA_MAX_AREAS
        /\ \A i \in Slots : g_areas[i] \in Area
    BY SlotType
  <2>2. /\ g_count' \in 0 .. VMA_MAX_AREAS /\ g_count' - 1 = g_count - 2
    BY <1>3, <1>5, <2>1, SaAssumption
  <2> DEFINE src(i) == IF i < left THEN i ELSE i + 1
  <2>3. ASSUME NEW i \in 0 .. g_count - 2
        PROVE  /\ src(i) \in Slots /\ g_areas'[i] = g_areas[src(i)]
               /\ i \in Int /\ i \in Slots
    BY <1>3, <1>5, <2>1 DEF Slots
  <2>4. g_areas' \in [0 .. g_count' - 1 -> Area]
    BY <1>5, <2>1, <2>2, <2>3
  <2>5. SaTypeOK'
    BY <1>1, <2>2, <2>4, Zenon DEF SaInv, SaTypeOK, Calls
  <2>6. ASSUME NEW i \in 0 .. g_count - 2, NEW j \in i + 1 .. g_count - 2
        PROVE  src(i) < src(j) /\ j \in 0 .. g_count - 2
    BY <1>3, <2>1
  <2>7. \A i \in Slots : g_areas[i].start < g_areas[i].end
    BY DEF SaInv, SortedAndDisjoint, Slots
  <2> HIDE DEF src
  <2>8. ASSUME NEW i \in 0 .. g_count - 2, NEW j \in i + 1 .. g_count - 2
        PROVE  g_areas'[i].end <= g_areas'[j].start
    BY <2>3, <2>6, StartsIncrease
  <2>9. SortedAndDisjoint'
    BY <2>2, <2>3, <2>7, <2>8, Zenon DEF SortedAndDisjoint
  <2> QED BY <1>1, <2>5, <2>9 DEF SaInv, SaSearchInv, Idle
<1> QED BY <1>4, <1>5 DEF sa_remove_delete

LEMMA SaInvNext == SaInv /\ [SaNext]_sa_vars => SaInv'
<1> SUFFICES ASSUME SaInv, [SaNext]_sa_vars PROVE SaInv'
  OBVIOUS
<1> USE SaAssumption
<1>1. ASSUME NEW a \in Area, sa_add(a) PROVE SaInv'
  <2>1. CASE SaRejected(a)
    <3>1. SaTypeOK'
      BY <1>1, <2>1 DEF sa_add, SaReturn, SaInv, SaTypeOK, Calls
    <3> QED BY <1>1, <2>1, <3>1, SaStartKeeps DEF sa_add, SaReturn
  <2>2. CASE ~SaRejected(a)
    <3>1. call' = [op |-> "add", area |-> a] /\ left' = 0 /\ right' = g_count
          /\ UNCHANGED <<g_count, g_areas, ret>>
      BY <1>1, <2>2 DEF sa_add, StartSearch
    <3>2. SaTypeOK'
      BY <3>1 DEF SaInv, SaTypeOK, Calls
    <3> QED BY <2>2, <3>1, <3>2, SaStartKeeps
  <2> QED BY <2>1, <2>2
<1>2. ASSUME NEW addr \in Addr, sa_remove(addr) PROVE SaInv'
  <2>1. call' = [op |-> "remove", addr |-> addr]
        /\ left' = 0 /\ right' = g_count
        /\ UNCHANGED <<g_count, g_areas, ret>>
    BY <1>2 DEF sa_remove, StartSearch
  <2>2. SaTypeOK'
    BY <2>1 DEF SaInv, SaTypeOK, Calls
  <2> QED BY <2>1, <2>2, SaStartKeeps
<1>3. ASSUME NEW addr \in Addr, sa_find(addr) PROVE SaInv'
  <2>1. CASE g_count = 0
    <3>1. SaTypeOK'
      BY <1>3, <2>1 DEF sa_find, SaReturn, SaInv, SaTypeOK, Calls
    <3> QED BY <1>3, <2>1, <3>1, SaStartKeeps DEF sa_find, SaReturn
  <2>2. CASE g_count # 0
    <3>1. call' = [op |-> "find", addr |-> addr]
          /\ left' = 0 /\ right' = g_count
          /\ UNCHANGED <<g_count, g_areas, ret>>
      BY <1>3, <2>2 DEF sa_find, StartSearch
    <3>2. SaTypeOK'
      BY <3>1 DEF SaInv, SaTypeOK, Calls
    <3> QED BY <3>1, <3>2, SaStartKeeps
  <2> QED BY <2>1, <2>2
<1>4. ASSUME sa_find_answer PROVE SaInv'
  <2>1. /\ call.op = "find" /\ left >= right /\ call' = Idle
        /\ UNCHANGED <<g_count, g_areas, left, right>>
    BY <1>4 DEF sa_find_answer, SaReturn
  <2>2. left \in 0 .. g_count /\ g_count \in Nat
    BY <2>1, SaSearchDone, SlotType DEF Idle
  <2>3. left # 0 => g_areas[left - 1] \in Area
    BY <2>2, SlotType DEF Slots
  <2>4. ret' \in [call : Calls, code : {0, -1}, area : Area \cup {NONE}]
    BY <1>4, <2>3 DEF sa_find_answer, SaReturn, SaInv, SaTypeOK
  <2>5. SaTypeOK'
    BY <2>1, <2>4 DEF SaInv, SaTypeOK, Calls
  <2> QED BY <2>1, <2>5, SaStartKeeps
<1>5. CASE UNCHANGED sa_vars
  BY <1>5, Zenon DEF sa_vars, SaInv, SaTypeOK, SortedAndDisjoint, SaSearchInv, GoesRight,
              SaRejected
<1> QED BY <1>1, <1>2, <1>3, <1>4, <1>5, SaSearchKeeps, SaInsertKeeps,
           SaDeleteKeeps DEF SaNext

LEMMA SaInvariance == SaSpec => []SaInv
  BY SaInvInit, SaInvNext, PTL DEF SaSpec

\* g_areas and g_count never describe slots outside the array.
THEOREM SaTypeCorrect == SaSpec => []SaTypeOK
<1>1. SaInv => SaTypeOK
  BY DEF SaInv
<1> QED BY <1>1, SaInvariance, PTL

\* The array stays sorted by start address and free of overlaps.
THEOREM SaSortedAndDisjoint == SaSpec => []SortedAndDisjoint
<1>1. SaInv => SortedAndDisjoint
  BY DEF SaInv
<1> QED BY <1>1, SaInvariance, PTL

-----------------------------------------------------------------------------
(* The sorted array: refinement of the contract                            *)

SlotAreas == {g_areas[i] : i \in 0 .. g_count - 1}

\* No two slots hold the same area, so the array is full exactly when the set
\* has reached its capacity.
LEMMA SlotsCounted == SaInv => Cardinality(SlotAreas) = g_count
<1> SUFFICES ASSUME SaInv PROVE Cardinality(SlotAreas) = g_count
  OBVIOUS
<1>1. /\ g_count \in Nat
      /\ \A i \in Slots : g_areas[i].start \in Int
  BY SlotType
<1>2. g_areas \in [Slots -> SlotAreas]
  BY DEF SlotAreas, Slots, SaInv, SaTypeOK
<1>3. ASSUME NEW i \in Slots, NEW j \in Slots, g_areas[i] = g_areas[j]
      PROVE  i = j
  <2>1. i \in Int /\ j \in Int
    BY <1>1 DEF Slots
  <2>2. CASE i < j
    BY <1>1, <1>3, <2>2, StartsIncrease
  <2>3. CASE j < i
    BY <1>1, <1>3, <2>3, StartsIncrease
  <2> QED BY <2>1, <2>2, <2>3
<1>4. g_areas \in Bijection(Slots, SlotAreas)
  BY <1>2, <1>3 DEF Bijection, Injection, Surjection, IsInjective, SlotAreas, Slots
<1>5. ExistsBijection(Slots, SlotAreas)
  BY <1>4 DEF ExistsBijection
<1>6. IsFiniteSet(Slots) /\ Cardinality(Slots) = g_count
  <2>1. 0 \in Int /\ g_count - 1 \in Int
    BY <1>1
  <2>2. /\ IsFiniteSet(Slots)
        /\ Cardinality(Slots) = IF 0 > g_count - 1 THEN 0 ELSE g_count - 1 - 0 + 1
    BY <2>1, FS_Interval, Zenon DEF Slots
  <2> QED BY <1>1, <2>2
<1> QED BY <1>5, <1>6, FS_Bijection

LEMMA SaAddRefines ==
    ASSUME SaInv, NEW a \in Area, sa_add(a)
    PROVE  SaVS!AddFails(a) \/ UNCHANGED <<SlotAreas, ret>>
<1>1. UNCHANGED SlotAreas
  BY DEF sa_add, SlotAreas
<1>2. CASE ~SaRejected(a)
  BY <1>1, <1>2 DEF sa_add, StartSearch
<1>3. CASE SaRejected(a)
  <2>1. ret' = [call |-> [op |-> "add", area |-> a],
                 code |-> -1, area |-> NONE]
    BY <1>3 DEF sa_add, SaReturn
  <2>2. \/ ~SaVS!Valid(a)
        \/ \E b \in SlotAreas : SaVS!Overlap(a, b)
        \/ Cardinality(SlotAreas) >= VMA_MAX_AREAS
    <3>1. CASE g_count >= VMA_MAX_AREAS
      BY <3>1, SlotsCounted
    <3>2. CASE \E i \in 0 .. g_count - 1 : Overlaps(a, g_areas[i])
      BY <3>2 DEF SlotAreas, Overlaps, SaVS!Overlap
    <3>3. CASE \/ a.start >= a.end
               \/ a.start % PAGE_SIZE # 0 \/ a.end % PAGE_SIZE # 0
      <4>1. a.start \in Int /\ a.end \in Int
        BY AddrInt, Zenon DEF Area
      <4> QED BY <3>3, <4>1 DEF SaVS!Valid
    <3> QED BY <1>3, <3>1, <3>2, <3>3 DEF SaRejected
  <2>3. Cardinality(SlotAreas) = SaVS!Cardinality(SlotAreas)
    BY DEF Cardinality, SaVS!Cardinality
  <2> QED BY <1>1, <2>1, <2>2, <2>3 DEF SaVS!AddFails, SaVS!Answer, SaVS!AddCall, SlotAreas
<1> QED BY <1>2, <1>3

LEMMA SaInsertRefines ==
    ASSUME SaInv, sa_add_insert
    PROVE  \E a \in Area : SaVS!Add(a)
<1> DEFINE a == call.area
<1>0. call = [op |-> "add", area |-> a]
  BY DEF sa_add_insert, SaInv, SaTypeOK, Calls, Idle
<1>1. /\ call.op = "add" /\ left >= right
      /\ g_areas' = [i \in 0 .. g_count |->
                      IF i < left THEN g_areas[i]
                      ELSE IF i = left THEN a ELSE g_areas[i - 1]]
      /\ g_count' = g_count + 1
      /\ ret' = [call |-> [op |-> "add", area |-> a],
                  code |-> 0, area |-> NONE]
  BY <1>0 DEF sa_add_insert, SaReturn
<1>2. a \in Area /\ left \in 0 .. g_count
  BY <1>1, InsertFits
<1>3. g_count \in Nat
  BY SlotType
<1>4. ~SaRejected(a)
  BY <1>1 DEF SaInv
<1>5. SaVS!Valid(a)
  <2>1. a.start \in Int /\ a.end \in Int
    BY <1>2, AddrInt, Zenon DEF Area
  <2> QED BY <1>4, <2>1 DEF SaRejected, SaVS!Valid
<1>6. \A b \in SlotAreas : ~SaVS!Overlap(a, b)
  BY <1>4 DEF SaRejected, Overlaps, SaVS!Overlap, SlotAreas
<1> HIDE DEF a
<1>7. SlotAreas' \subseteq SlotAreas \cup {a}
  <2> SUFFICES ASSUME NEW i \in 0 .. g_count
               PROVE  g_areas'[i] \in SlotAreas \cup {a}
    BY <1>1, <1>3 DEF SlotAreas
  <2> QED BY <1>1, <1>2, <1>3 DEF SlotAreas
<1>8. SlotAreas \cup {a} \subseteq SlotAreas'
  <2>1. a \in SlotAreas'
    <3>1. g_areas'[left] = a /\ left \in 0 .. g_count' - 1
      BY <1>1, <1>2, <1>3
    <3> QED BY <3>1 DEF SlotAreas
  <2>2. ASSUME NEW i \in 0 .. g_count - 1 PROVE g_areas[i] \in SlotAreas'
    <3>1. CASE i < left
      <4>1. g_areas'[i] = g_areas[i] /\ i \in 0 .. g_count' - 1
        BY <1>1, <1>2, <1>3, <3>1
      <4> QED BY <4>1 DEF SlotAreas
    <3>2. CASE ~(i < left)
      <4>1. g_areas'[i + 1] = g_areas[i] /\ i + 1 \in 0 .. g_count' - 1
        BY <1>1, <1>2, <1>3, <3>2
      <4> QED BY <4>1 DEF SlotAreas
    <3> QED BY <3>1, <3>2
  <2> QED BY <2>1, <2>2 DEF SlotAreas
<1>9. PICK b \in Area : b = a
  BY <1>2
<1>10. SaVS!Add(b)
  BY <1>1, <1>5, <1>6, <1>7, <1>8, <1>9, Zenon 
     DEF SaVS!Add, SaVS!Answer, SaVS!AddCall, SlotAreas
<1> QED BY <1>10

LEMMA SaDeleteRefines ==
    ASSUME SaInv, sa_remove_delete
    PROVE  \E addr \in Addr : SaVS!Remove(addr) \/ SaVS!RemoveFails(addr)
<1>1. call.op = "remove" /\ left >= right /\ call # Idle
  BY DEF sa_remove_delete, Idle
<1>2. PICK addr \in Addr :
         addr = call.addr /\ call = [op |-> "remove", addr |-> addr]
  BY <1>1 DEF SaInv, SaTypeOK, Calls
<1>3. /\ left \in 0 .. g_count
      /\ \A i \in 0 .. left - 1 : g_areas[i].start < addr
      /\ \A i \in left .. g_count - 1 : ~(g_areas[i].start < addr)
  BY <1>1, <1>2, SaSearchDone DEF GoesRight
<1>4. /\ g_count \in Nat
      /\ \A i \in Slots : g_areas[i].start \in Int
      /\ addr \in Int
  BY SlotType, AddrInt
<1>5. CASE left = g_count \/ g_areas[left].start # addr
  <2>1. /\ ret' = [call |-> [op |-> "remove", addr |-> addr],
                    code |-> -1, area |-> NONE]
        /\ UNCHANGED <<g_count, g_areas>>
    BY <1>2, <1>5 DEF sa_remove_delete, SaReturn
  <2>2. ASSUME NEW i \in Slots PROVE g_areas[i].start # addr
    <3>1. CASE i < left
      BY <1>3, <1>4, <3>1 DEF Slots
    <3>2. CASE i = left
      BY <1>3, <1>4, <1>5, <3>2 DEF Slots
    <3>3. CASE i > left
      <4>1. left \in Slots /\ left < i
        BY <1>3, <1>4, <3>3 DEF Slots
      <4>2. g_areas[left].start < g_areas[i].start
        BY <4>1, StartsIncrease
      <4>3. ~(g_areas[left].start < addr)
        BY <1>3, <1>4, <4>1 DEF Slots
      <4> QED BY <1>4, <4>1, <4>2, <4>3
    <3> QED BY <1>3, <1>4, <3>1, <3>2, <3>3 DEF Slots
  <2>3. SaVS!RemoveFails(addr)
    BY <2>1, <2>2 DEF SaVS!RemoveFails, SaVS!Answer, SaVS!RemoveCall, Slots
  <2> QED BY <2>3
<1>6. CASE ~(left = g_count \/ g_areas[left].start # addr)
  <2>1. /\ ret' = [call |-> [op |-> "remove", addr |-> addr],
                    code |-> 0, area |-> NONE]
        /\ g_areas' = [i \in 0 .. g_count - 2 |->
                           IF i < left THEN g_areas[i] ELSE g_areas[i + 1]]
        /\ g_count' = g_count - 1
    BY <1>2, <1>6 DEF sa_remove_delete, SaReturn
  <2>2. left \in Slots /\ g_areas[left].start = addr
    BY <1>3, <1>4, <1>6 DEF Slots
  <2>3. PICK a \in SlotAreas : a = g_areas[left]
    BY <2>2 DEF Slots, SlotAreas
  <2>4. ASSUME NEW i \in Slots, i # left PROVE g_areas[i] # a
    <3>1. i < left \/ left < i
      BY <1>3, <1>4, <2>4 DEF Slots
    <3>2. g_areas[i].start # g_areas[left].start
      BY <1>4, <2>2, <3>1, StartsIncrease
    <3> QED BY <2>3, <3>2
  <2>5. SlotAreas' \subseteq SlotAreas \ {a}
    <3> SUFFICES ASSUME NEW i \in 0 .. g_count - 2
                 PROVE  g_areas'[i] \in SlotAreas \ {a}
      BY <1>4, <2>1 DEF SlotAreas
    <3>1. PICK k \in Slots : k # left /\ g_areas'[i] = g_areas[k]
      <4>1. CASE i < left
        BY <1>3, <1>4, <2>1, <4>1 DEF Slots
      <4>2. CASE ~(i < left)
        <5>1. /\ i + 1 \in Slots /\ i + 1 # left
              /\ g_areas'[i] = g_areas[i + 1]
          BY <1>3, <1>4, <2>1, <4>2 DEF Slots
        <5> QED BY <5>1
      <4> QED BY <4>1, <4>2
    <3> QED BY <2>4, <3>1 DEF SlotAreas, Slots
  <2>6. SlotAreas \ {a} \subseteq SlotAreas'
    <3> SUFFICES ASSUME NEW i \in Slots, i # left
                 PROVE  g_areas[i] \in SlotAreas'
      BY <2>3 DEF SlotAreas, Slots
    <3>1. CASE i < left
      <4>1. g_areas'[i] = g_areas[i] /\ i \in 0 .. g_count' - 1
        BY <1>3, <1>4, <2>1, <2>2, <3>1 DEF Slots
      <4> QED BY <4>1 DEF SlotAreas
    <3>2. CASE ~(i < left)
      <4>1. /\ i - 1 \in 0 .. g_count - 2 /\ ~(i - 1 < left)
            /\ (i - 1) + 1 = i /\ g_count' - 1 = g_count - 2
        BY <1>3, <1>4, <2>1, <3>2 DEF Slots
      <4>2. g_areas'[i - 1] = g_areas[(i - 1) + 1]
        BY <2>1, <4>1
      <4> QED BY <4>1, <4>2 DEF SlotAreas
    <3> QED BY <3>1, <3>2
  <2>7. SaVS!Remove(addr)
    BY <2>1, <2>2, <2>3, <2>5, <2>6, Zenon 
       DEF SaVS!Remove, SaVS!Answer, SaVS!RemoveCall, SlotAreas
  <2> QED BY <2>7
<1> QED BY <1>5, <1>6

LEMMA SaFindRefines ==
    ASSUME SaInv, NEW addr \in Addr,
           \/ sa_find(addr) /\ g_count = 0
           \/ sa_find_answer /\ addr = call.addr
    PROVE  SaVS!Find(addr)
<1>1. g_count \in Nat /\ addr \in Int
  BY SlotType, AddrInt
<1>2. CASE sa_find(addr) /\ g_count = 0
  <2>1. /\ ret' = [call |-> [op |-> "find", addr |-> addr],
                    code |-> 0, area |-> NONE]
        /\ UNCHANGED <<g_count, g_areas>>
    BY <1>2 DEF sa_find, SaReturn
  <2>2. {g_areas[i] : i \in 0 .. g_count - 1} = {}
    BY <1>2
  <2> QED BY <2>1, <2>2 DEF SaVS!Find, SaVS!Answer, SaVS!FindCall
<1>3. CASE sa_find_answer /\ addr = call.addr
  <2>1. /\ call.op = "find" /\ left >= right /\ call # Idle
        /\ call = [op |-> "find", addr |-> addr]
    BY <1>3 DEF sa_find_answer, Idle, SaInv, SaTypeOK, Calls
  <2>2. /\ left \in 0 .. g_count
        /\ \A i \in 0 .. left - 1 : g_areas[i].start <= addr
        /\ \A i \in left .. g_count - 1 : ~(g_areas[i].start <= addr)
    BY <1>3, <2>1, SaSearchDone DEF GoesRight
  <2>3. UNCHANGED <<g_count, g_areas>>
    BY <1>3 DEF sa_find_answer
  <2>4. ASSUME NEW i \in Slots, SaVS!Contains(g_areas[i], addr)
        PROVE  i = left - 1
    <3>1. /\ g_areas[i].start <= addr /\ addr < g_areas[i].end
          /\ g_areas[i].start \in Int /\ g_areas[i].end \in Int
      BY <2>4, SlotType DEF SaVS!Contains
    <3>2. i \in 0 .. left - 1 /\ left - 1 \in Slots
      BY <1>1, <2>2, <3>1 DEF Slots
    <3>3. CASE i < left - 1
      <4>1. g_areas[i].end <= g_areas[left - 1].start
        BY <3>2, <3>3, StartsIncrease, Zenon
      <4>2. g_areas[left - 1].start <= addr
        BY <1>1, <2>2, <3>2 DEF Slots
      <4>3. g_areas[left - 1].start \in Int
        BY <3>2, SlotType
      <4> QED BY <1>1, <3>1, <4>1, <4>2, <4>3
    <3> QED BY <1>1, <2>2, <3>2, <3>3
  <2>5. CASE left = 0 \/ addr >= g_areas[left - 1].end
    <3>1. ret' = [call |-> [op |-> "find", addr |-> addr],
                  code |-> 0, area |-> NONE]
      BY <1>3, <2>1, <2>5 DEF sa_find_answer, SaReturn
    <3>2. ASSUME NEW i \in Slots PROVE ~SaVS!Contains(g_areas[i], addr)
      <4> SUFFICES ASSUME SaVS!Contains(g_areas[i], addr) PROVE FALSE
        OBVIOUS
      <4>1. i = left - 1 /\ left # 0
        BY <1>1, <2>2, <2>4 DEF Slots
      <4> QED BY <1>1, <2>5, <4>1, SlotType DEF SaVS!Contains
    <3> QED BY <2>3, <3>1, <3>2 DEF SaVS!Find, SaVS!Answer, SaVS!FindCall, Slots
  <2>6. CASE ~(left = 0 \/ addr >= g_areas[left - 1].end)
    <3>1. ret' = [call |-> [op |-> "find", addr |-> addr],
                  code |-> 0, area |-> g_areas[left - 1]]
      BY <1>3, <2>1, <2>6 DEF sa_find_answer, SaReturn
    <3>2. left - 1 \in Slots /\ left - 1 \in 0 .. left - 1
      BY <1>1, <2>2, <2>6 DEF Slots
    <3>3. SaVS!Contains(g_areas[left - 1], addr)
      BY <1>1, <2>2, <2>6, <3>2, SlotType DEF SaVS!Contains
    <3> QED BY <2>3, <3>1, <3>2, <3>3 DEF SaVS!Find, SaVS!Answer, SaVS!FindCall, Slots
  <2> QED BY <2>5, <2>6
<1> QED BY <1>2, <1>3

LEMMA SaStepRefines == SaInv /\ [SaNext]_sa_vars => [SaVS!Next]_<<SlotAreas, ret>>
<1> SUFFICES ASSUME SaInv, [SaNext]_sa_vars
             PROVE  SaVS!Next \/ UNCHANGED <<SlotAreas, ret>>
  OBVIOUS
<1> USE DEF SaVS!Next
<1>a. SaVS!Area = Area
  BY DEF SaVS!Area, Area
<1>1. ASSUME NEW a \in Area, sa_add(a)
      PROVE  SaVS!Next \/ UNCHANGED <<SlotAreas, ret>>
  BY <1>a, <1>1, SaAddRefines
<1>2. ASSUME NEW addr \in Addr, sa_remove(addr)
      PROVE  UNCHANGED <<SlotAreas, ret>>
  BY <1>2 DEF sa_remove, StartSearch, SlotAreas
<1>3. ASSUME NEW addr \in Addr, sa_find(addr)
      PROVE  SaVS!Next \/ UNCHANGED <<SlotAreas, ret>>
  <2>1. CASE g_count = 0
    BY <1>3, <2>1, SaFindRefines
  <2>2. CASE g_count # 0
    BY <1>3, <2>2 DEF sa_find, StartSearch, SlotAreas
  <2> QED BY <2>1, <2>2
<1>4. CASE SearchStep
  BY <1>4 DEF SearchStep, SlotAreas
<1>5. CASE sa_add_insert
  BY <1>a, <1>5, SaInsertRefines
<1>6. CASE sa_remove_delete
  BY <1>6, SaDeleteRefines
<1>7. CASE sa_find_answer
  <2>1. PICK addr \in Addr : addr = call.addr
    BY <1>7 DEF sa_find_answer, SaInv, SaTypeOK, Idle, Calls
  <2> QED BY <1>7, <2>1, SaFindRefines
<1>8. CASE UNCHANGED sa_vars
  BY <1>8 DEF sa_vars, SlotAreas
<1> QED BY <1>1, <1>2, <1>3, <1>4, <1>5, <1>6, <1>7, <1>8 DEF SaNext

\* Whatever the capacity and the sequence of calls, the array behaves as the
\* set of areas the contract describes.
THEOREM SaRefinement == SaSpec => ArrayImplementsVmaSet
<1>1. sa_init => SaVS!Init
  BY DEF sa_init, SaVS!Init, SaVS!Answer, Idle
<1>2. SaInv /\ [SaNext]_sa_vars => [SaVS!Next]_SaVS!vars
  BY SaStepRefines, Zenon DEF SaVS!vars, SlotAreas
<1> QED BY <1>1, <1>2, SaInvariance, PTL DEF SaSpec, ArrayImplementsVmaSet, SaVS!Spec

-----------------------------------------------------------------------------
(* The shape of a search tree, given the nodes below each node             *)

TreeRec == [root : Ref, kid : [Ref -> [Side -> Ref]],
            parent : [Ref -> Ref], color : [Ref -> {"red", "black"}]]

Before(d, m, n) == IF d = "left" THEN m < n ELSE n < m

\* s[n] are the nodes of the subtree of n.
Shape(t, N, s) ==
    /\ N \subseteq Addr
    /\ s \in [N \cup {NIL} -> SUBSET N] /\ s[NIL] = {}
    /\ t.root \in N \cup {NIL} /\ s[t.root] = N
    /\ t.root # NIL => t.parent[t.root] = NIL
    /\ \A n \in N, d \in Side :
          /\ t.kid[n][d] \in N \cup {NIL}
          /\ \A m \in s[t.kid[n][d]] : Before(d, m, n)
          /\ t.kid[n][d] # NIL => t.parent[t.kid[n][d]] = n
    /\ \A n \in N : \A m \in N :
          m \in s[n] <=> m = n \/ \E d \in Side : m \in s[t.kid[n][d]]

LEMMA AddrFacts == Addr \subseteq Nat /\ IsFiniteSet(Addr) /\ NIL \notin Addr
<1>1. LIMIT \in Nat /\ NIL \notin Addr
  BY RbAssumption, VmaAssumption
<1>2. 0 \in Int /\ LIMIT - 1 \in Int
  BY <1>1
<1>3. IsFiniteSet(0..(LIMIT - 1))
  BY <1>2, FS_Interval, Zenon
<1> QED BY <1>1, <1>3 DEF Addr

LEMMA Sides ==
    /\ Side = {"left", "right"}
    /\ \A d \in Side : Other(d) \in Side /\ Other(d) # d /\ Other(Other(d)) = d
  BY DEF Side, Other

LEMMA Least ==
    ASSUME NEW T, T \subseteq Nat, T # {}
    PROVE  \E n \in T : \A m \in T : n <= m
<1>1. \E n \in T : \A m \in T : ~(<<m, n>> \in OpToRel(<, Nat))
  BY NatLessThanWellFounded, WFMin, Zenon
<1>2. PICK n \in T : \A m \in T : ~(m < n)
  BY <1>1, Zenon DEF OpToRel
<1> QED BY <1>2

\* A node of A none of whose children is in A.
LEMMA Lowest ==
    ASSUME NEW t, NEW N, NEW s, Shape(t, N, s), NEW A, A \subseteq N, A # {}
    PROVE  \E n \in A : \A d \in Side : t.kid[n][d] \notin A
<1> DEFINE T == {Cardinality(s[n]) : n \in A}
<1>0. IsFiniteSet(N) /\ \A n \in N : s[n] \in SUBSET N /\ IsFiniteSet(s[n])
  BY AddrFacts, FS_Subset, Zenon DEF Shape
<1>1. T \subseteq Nat /\ T # {}
  BY <1>0, FS_CardinalityType
<1>2. PICK k \in T : \A j \in T : k <= j
  <2> HIDE DEF T
  <2> QED BY <1>1, Least, Zenon
<1>3. PICK n \in A : k = Cardinality(s[n])
  BY <1>2
<1>4. SUFFICES ASSUME NEW d \in Side, t.kid[n][d] \in A PROVE FALSE
  BY <1>3
<1>5. n \in N /\ n \in s[n] /\ t.kid[n][d] \in N
  BY <1>3, <1>4 DEF Shape
<1>6. s[t.kid[n][d]] \subseteq s[n]
  BY <1>5, <1>0 DEF Shape
<1>7. n \notin s[t.kid[n][d]]
  <2>1. n \in Nat
    BY <1>5, AddrFacts DEF Shape
  <2>2. ~Before(d, n, n)
    BY <2>1 DEF Before
  <2> QED BY <2>2, <1>5 DEF Shape
<1>8. Cardinality(s[t.kid[n][d]]) < Cardinality(s[n])
  BY <1>5, <1>6, <1>7, <1>0, FS_Subset, FS_CardinalityType
<1>9. Cardinality(s[t.kid[n][d]]) \in T
  BY <1>4
<1>10. Cardinality(s[t.kid[n][d]]) \in Nat /\ k \in Nat
  BY <1>5, <1>0, <1>1, <1>2, FS_CardinalityType
<1> QED BY <1>2, <1>3, <1>8, <1>9, <1>10


\* What lies below n: whole subtrees, whose parents are not above n.
LEMMA Below ==
    ASSUME NEW t, NEW N, NEW s, Shape(t, N, s), NEW n \in N, NEW m \in s[n]
    PROVE  /\ m \in N /\ s[m] \subseteq s[n] /\ m \in s[m] /\ s[n] \subseteq N
           /\ m # n => /\ m # t.root /\ t.parent[m] \in N
                       /\ t.parent[m] \in s[n] /\ t.parent[m] \notin s[m]
                       /\ \E d \in Side : t.kid[t.parent[m]][d] = m
<1>0. m \in N /\ m \in s[m] /\ s[n] \subseteq N /\ n \in s[n] /\ NIL \notin N
  BY AddrFacts, Zenon DEF Shape
<1>1. s[m] \subseteq s[n]
  <2> DEFINE A == {a \in N : m \in s[a] /\ s[a] \subseteq s[n]}
  <2>1. A # {} /\ A \subseteq N
    <3>1. n \in A
      OBVIOUS
    <3> QED BY <3>1
  <2>2. PICK a \in A : \A d \in Side : t.kid[a][d] \notin A
    <3> HIDE DEF A
    <3> QED BY <2>1, Lowest
  <2>3. CASE a = m
    BY <2>3
  <2>4. CASE a # m
    <3>1. PICK d \in Side : m \in s[t.kid[a][d]]
      BY <2>4, <1>0 DEF Shape
    <3>2. t.kid[a][d] \in N
      BY <3>1 DEF Shape
    <3>3. s[t.kid[a][d]] \subseteq s[a]
      BY <3>2 DEF Shape
    <3> QED BY <2>2, <3>1, <3>2, <3>3
  <2> QED BY <2>3, <2>4
<1>2. ASSUME m # n
      PROVE  /\ m # t.root /\ t.parent[m] \in N
             /\ t.parent[m] \in s[n] /\ t.parent[m] \notin s[m]
             /\ \E d \in Side : t.kid[t.parent[m]][d] = m
  <2> DEFINE A == {a \in N : m \in s[a] /\ m # a /\ s[a] \subseteq s[n]}
  <2>1. A # {} /\ A \subseteq N
    <3>1. n \in A
      BY <1>2
    <3> QED BY <3>1
  <2>2. PICK a \in A : \A d \in Side : t.kid[a][d] \notin A
    <3> HIDE DEF A
    <3> QED BY <2>1, Lowest
  <2>3. PICK d \in Side : m \in s[t.kid[a][d]]
    BY <1>0 DEF Shape
  <2>4. t.kid[a][d] \in N
    BY <2>3 DEF Shape
  <2>5. s[t.kid[a][d]] \subseteq s[a]
    BY <2>4 DEF Shape
  <2>6. t.kid[a][d] = m
    BY <2>2, <2>3, <2>4, <2>5
  <2>7. t.parent[m] = a /\ a \in s[a]
    BY <2>6, <1>0 DEF Shape
  <2>8. a \notin s[m]
    <3>1. a \in Nat
      BY AddrFacts, Zenon DEF Shape
    <3>2. ~Before(d, a, a)
      BY <3>1 DEF Before
    <3> QED BY <3>2, <2>6 DEF Shape
  <2>9. m # t.root
    BY <2>7, <1>0 DEF Shape
  <2> QED BY <2>6, <2>7, <2>8, <2>9
<1> QED BY <1>0, <1>1, <1>2

\* The parent of a node other than the root.
LEMMA Parents ==
    ASSUME NEW t, NEW N, NEW s, Shape(t, N, s), NEW m \in N, m # t.root
    PROVE  /\ t.parent[m] \in N /\ t.parent[m] # m /\ t.parent[m] \notin s[m]
           /\ \E d \in Side : t.kid[t.parent[m]][d] = m
<1>1. t.root \in N /\ m \in s[t.root] /\ m \in s[m]
  BY DEF Shape
<1> QED BY <1>1, Below

\* A node of A whose parent is not in A.
LEMMA Highest ==
    ASSUME NEW t, NEW N, NEW s, Shape(t, N, s), NEW A, A \subseteq N, A # {}
    PROVE  \E n \in A : n = t.root \/ t.parent[n] \notin A
<1> DEFINE T == {Cardinality(N) - Cardinality(s[n]) : n \in A}
<1>0. IsFiniteSet(N) /\ \A n \in N : s[n] \in SUBSET N /\ IsFiniteSet(s[n])
  BY AddrFacts, FS_Subset, Zenon DEF Shape
<1>1. \A n \in N : /\ Cardinality(s[n]) \in Nat
                   /\ Cardinality(N) \in Nat
                   /\ Cardinality(s[n]) <= Cardinality(N)
  BY <1>0, FS_Subset, FS_CardinalityType
<1>2. T \subseteq Nat /\ T # {}
  BY <1>1
<1>3. PICK k \in T : \A j \in T : k <= j
  <2> HIDE DEF T
  <2> QED BY <1>2, Least, Zenon
<1>4. PICK n \in A : k = Cardinality(N) - Cardinality(s[n])
  BY <1>3
<1>5. SUFFICES ASSUME n # t.root, t.parent[n] \in A PROVE FALSE
  BY <1>4
<1> DEFINE p == t.parent[n]
<1>6. t.root \in N /\ n \in s[t.root]
  BY DEF Shape
<1>7. p \in N /\ p \notin s[n] /\ \E d \in Side : t.kid[p][d] = n
  BY <1>5, Parents
<1>8. n \in s[p] /\ p \in s[p] /\ n \in s[n]
  BY <1>7 DEF Shape
<1>9. s[n] \subseteq s[p]
  BY <1>7, <1>8, Below
<1>10. Cardinality(s[n]) < Cardinality(s[p])
  BY <1>7, <1>8, <1>9, <1>0, FS_Subset, FS_CardinalityType, SMTT(30)
<1>11. Cardinality(N) - Cardinality(s[p]) \in T
  BY <1>5
<1>12. /\ Cardinality(N) \in Nat /\ Cardinality(s[p]) \in Nat
       /\ Cardinality(s[n]) \in Nat
  BY <1>1, <1>7
<1> HIDE DEF p, T
<1> QED BY <1>3, <1>4, <1>10, <1>11, <1>12

\* The two sides of a node.
LEMMA Kids ==
    ASSUME NEW t, NEW N, NEW s, Shape(t, N, s), NEW n \in N, NEW d \in Side
    PROVE  /\ t.kid[n][d] \in N \cup {NIL} /\ t.kid[n][d] # n /\ n # NIL
           /\ n \notin s[t.kid[n][d]]
           /\ t.kid[n][d] # NIL =>
                 /\ t.kid[n][d] # t.kid[n][Other(d)]
                 /\ t.kid[n][d] # t.root
                 /\ t.parent[t.kid[n][d]] = n
                 /\ t.kid[n][d] \in s[t.kid[n][d]]
           /\ s[t.kid[n][d]] \cap s[t.kid[n][Other(d)]] = {}
<1>1. n \in Nat /\ NIL \notin N /\ N \subseteq Nat /\ Other(d) \in Side
  BY AddrFacts, Sides, Zenon DEF Shape
<1>2. ~Before(d, n, n) /\ \A m \in Nat : ~(Before(d, m, n) /\ Before(Other(d), m, n))
  BY <1>1, Sides DEF Before, Other
<1>3. t.kid[n][d] # NIL => t.kid[n][d] \in s[t.kid[n][d]] /\ t.kid[n][d] \in N
  BY DEF Shape
<1>4. n \notin s[t.kid[n][d]]
  BY <1>2 DEF Shape
<1>5. s[t.kid[n][d]] \cap s[t.kid[n][Other(d)]] = {}
  <2>1. s[t.kid[n][d]] \subseteq Nat /\ s[t.kid[n][Other(d)]] \subseteq Nat
    BY <1>1 DEF Shape
  <2>2. SUFFICES ASSUME NEW m \in s[t.kid[n][d]], m \in s[t.kid[n][Other(d)]] PROVE FALSE
    OBVIOUS
  <2>3. Before(d, m, n) /\ Before(Other(d), m, n)
    BY <1>1, <2>2 DEF Shape
  <2> QED BY <2>1, <2>3, <1>2
<1>6. t.kid[n][d] # NIL => t.parent[t.kid[n][d]] = n
  BY DEF Shape
<1>7. t.kid[n][d] # NIL => t.kid[n][d] # t.root
  BY <1>1, <1>6 DEF Shape
<1>8. t.kid[n][d] \in N \cup {NIL}
  BY DEF Shape
<1> QED BY <1>1, <1>3, <1>4, <1>5, <1>6, <1>7, <1>8

\* The side that rotate_left and transplant take a node to be on, by comparing it
\* with its parent's left child, is its side -- for NIL as well, unless both
\* children are NIL.
LEMMA SideOfKid ==
    ASSUME NEW t, NEW N, NEW s, Shape(t, N, s), NEW n \in N, NEW d \in Side,
           NEW k, t.kid[n][d] = k, t.parent[k] = n,
           k = NIL => t.kid[n][Other(d)] # NIL
    PROVE  SideOf(t, k) = d
<1>1. k # t.kid[n][Other(d)]
  BY Kids
<1> QED BY <1>1, Sides DEF SideOf, Other
-----------------------------------------------------------------------------
(* Updates of the fields of a tree                                         *)

KidFcn == [Ref -> [Side -> Ref]]
Put(f, x, v) == [f EXCEPT ![x] = v]
PutKid(k, n, d, v) == Put(k, n, Put(k[n], d, v))
IsRec(t) == t = [f \in {"root", "kid", "parent", "color"} |-> t[f]]

LEMMA PutKidType ==
    ASSUME NEW k \in KidFcn, NEW n \in Ref, NEW d \in Side, NEW v \in Ref
    PROVE  PutKid(k, n, d, v) \in KidFcn
<1> DEFINE f == Put(k[n], d, v)
<1>1. k[n] \in [Side -> Ref]
  BY DEF KidFcn
<1>2. f \in [Side -> Ref]
  BY <1>1 DEF Put
<1>3. PutKid(k, n, d, v) = Put(k, n, f)
  BY DEF PutKid
<1> HIDE DEF f
<1> QED BY <1>2, <1>3 DEF Put, KidFcn

LEMMA PutKidAt ==
    ASSUME NEW k \in KidFcn, NEW n \in Ref, NEW d \in Side, NEW v \in Ref,
           NEW m \in Ref, NEW e \in Side
    PROVE  PutKid(k, n, d, v)[m][e] = IF m = n /\ e = d THEN v ELSE k[m][e]
<1> DEFINE f == Put(k[n], d, v)
<1>1. k[n] \in [Side -> Ref]
  BY DEF KidFcn
<1>2. f \in [Side -> Ref] /\ f[e] = IF e = d THEN v ELSE k[n][e]
  BY <1>1 DEF Put
<1>3. PutKid(k, n, d, v) = Put(k, n, f)
  BY DEF PutKid
<1> HIDE DEF f
<1>4. Put(k, n, f)[m] = IF m = n THEN f ELSE k[m]
  BY <1>2 DEF Put, KidFcn
<1> QED BY <1>2, <1>3, <1>4

LEMMA RecFields ==
    ASSUME NEW t \in TreeRec
    PROVE  /\ IsRec(t)
           /\ t.root \in Ref /\ t.kid \in KidFcn
           /\ t.parent \in [Ref -> Ref] /\ t.color \in [Ref -> {"red", "black"}]
  BY DEF TreeRec, IsRec, KidFcn

LEMMA RecMade ==
    ASSUME NEW t, IsRec(t), t.root \in Ref, t.kid \in KidFcn,
           t.parent \in [Ref -> Ref], t.color \in [Ref -> {"red", "black"}]
    PROVE  t \in TreeRec
<1> DEFINE a == t.root
           b == t.kid
           c == t.parent
           d == t.color
<1>1. t = [root |-> a, kid |-> b, parent |-> c, color |-> d]
  BY DEF IsRec
<1> HIDE DEF a, b, c, d
<1>2. t \in TreeRec <=> /\ a \in Ref /\ b \in KidFcn
                        /\ c \in [Ref -> Ref] /\ d \in [Ref -> {"red", "black"}]
  BY <1>1 DEF TreeRec, KidFcn
<1> QED BY <1>2 DEF a, b, c, d

LEMMA RefFacts == Addr \subseteq Ref /\ NIL \in Ref /\ NIL \notin Addr
  BY AddrFacts DEF Ref

LEMMA SideOfType == ASSUME NEW t, NEW n PROVE SideOf(t, n) \in Side
  BY Sides DEF SideOf

LEMMA HangUpdates ==
    ASSUME NEW t, IsRec(t), NEW u, NEW v
    PROVE  LET w == Hang(t, u, v)
           IN  /\ IsRec(w) /\ w.parent = t.parent /\ w.color = t.color
               /\ t.parent[u] = NIL => w.root = v /\ w.kid = t.kid
               /\ t.parent[u] # NIL =>
                     /\ w.root = t.root
                     /\ w.kid = PutKid(t.kid, t.parent[u], SideOf(t, u), v)
<1> DEFINE c == SideOf(t, u)
           p == t.parent[u]
<1>1. ASSUME NEW n, NEW d
      PROVE  LET w == [t EXCEPT !.kid[n][d] = v]
             IN  /\ IsRec(w) /\ w.parent = t.parent /\ w.color = t.color
                 /\ w.root = t.root /\ w.kid = PutKid(t.kid, n, d, v)
  BY DEF Put, PutKid, IsRec
<1>2. LET w == [t EXCEPT !.root = v]
      IN  /\ IsRec(w) /\ w.parent = t.parent /\ w.color = t.color
          /\ w.root = v /\ w.kid = t.kid
  BY DEF IsRec
<1> QED BY <1>1, <1>2, Zenon DEF Hang

HangIs(w, t, u, v) ==
    /\ w \in TreeRec
    /\ w.root = (IF t.parent[u] = NIL THEN v ELSE t.root)
    /\ w.parent = t.parent /\ w.color = t.color
    /\ \A n \in Ref, e \in Side :
          w.kid[n][e] = IF n = t.parent[u] /\ n # NIL /\ e = SideOf(t, u)
                        THEN v ELSE t.kid[n][e]

LEMMA HangFields ==
    ASSUME NEW t \in TreeRec, NEW u \in Ref, NEW v \in Ref
    PROVE  HangIs(Hang(t, u, v), t, u, v)
<1> DEFINE w == Hang(t, u, v)
           c == SideOf(t, u)
           p == t.parent[u]
<1>0. c \in Side /\ p \in Ref /\ IsRec(t) /\ t.root \in Ref
      /\ t.kid \in KidFcn
  BY SideOfType, RecFields
<1>1. /\ IsRec(w) /\ w.parent = t.parent /\ w.color = t.color
      /\ p = NIL => w.root = v /\ w.kid = t.kid
      /\ p # NIL => w.root = t.root /\ w.kid = PutKid(t.kid, p, c, v)
  BY <1>0, HangUpdates
<1> HIDE DEF c, p, w
<1>2. w.kid \in KidFcn /\ w.root \in Ref
  BY <1>0, <1>1, PutKidType
<1>3. w \in TreeRec
  BY <1>1, <1>2, RecFields, RecMade
<1>4. \A n \in Ref, e \in Side :
         w.kid[n][e] = IF n = p /\ n # NIL /\ e = c THEN v ELSE t.kid[n][e]
  <2>1. CASE p = NIL
    BY <2>1, <1>1
  <2>2. CASE p # NIL
    BY <2>2, <1>0, <1>1, PutKidAt
  <2> QED BY <2>1, <2>2
<1> QED BY <1>1, <1>3, <1>4 DEF c, p, w, HangIs

TransplantIs(w, t, u, v) ==
    /\ w \in TreeRec
    /\ w.root = (IF t.parent[u] = NIL THEN v ELSE t.root)
    /\ w.color = t.color
    /\ \A n \in Ref : w.parent[n] = IF n = v THEN t.parent[u] ELSE t.parent[n]
    /\ \A n \in Ref, e \in Side :
          w.kid[n][e] = IF n = t.parent[u] /\ n # NIL /\ e = SideOf(t, u)
                        THEN v ELSE t.kid[n][e]

\* What transplant writes, field by field.
LEMMA TransplantFields ==
    ASSUME NEW t \in TreeRec, NEW u \in Ref, NEW v \in Ref
    PROVE  TransplantIs(Transplant(t, u, v), t, u, v)
<1> DEFINE h == Hang(t, u, v)
           p == t.parent[u]
           w == Transplant(t, u, v)
<1>0. p \in Ref /\ t.parent \in [Ref -> Ref]
  BY RecFields
<1>1. /\ h \in TreeRec
      /\ h.root = (IF p = NIL THEN v ELSE t.root)
      /\ h.parent = t.parent /\ h.color = t.color
      /\ \A n \in Ref, e \in Side :
            h.kid[n][e] = IF n = p /\ n # NIL /\ e = SideOf(t, u) THEN v ELSE t.kid[n][e]
  BY HangFields DEF HangIs
<1>2. w = [h EXCEPT !.parent[v] = p]
  BY DEF Transplant
<1> HIDE DEF h, p, w
<1>3. IsRec(h)
  BY <1>1, RecFields
<1>4. /\ IsRec(w) /\ w.root = h.root /\ w.kid = h.kid /\ w.color = h.color
      /\ w.parent = Put(h.parent, v, p)
  BY <1>2, <1>3 DEF Put, IsRec
<1>5. /\ w.parent \in [Ref -> Ref]
      /\ \A n \in Ref : w.parent[n] = IF n = v THEN p ELSE t.parent[n]
  BY <1>0, <1>1, <1>4 DEF Put
<1>6. w \in TreeRec
  BY <1>1, <1>4, <1>5, RecFields, RecMade
<1> QED BY <1>1, <1>4, <1>5, <1>6 DEF w, p, TransplantIs

AdoptIs(w, t, n, d, k) ==
    /\ w \in TreeRec /\ w.root = t.root /\ w.color = t.color
    /\ \A m \in Ref : w.parent[m] = IF m = k THEN n ELSE t.parent[m]
    /\ \A m \in Ref, e \in Side :
          w.kid[m][e] = IF m = n /\ e = d THEN k ELSE t.kid[m][e]

LEMMA AdoptFields ==
    ASSUME NEW t \in TreeRec, NEW n \in Ref, NEW d \in Side, NEW k \in Ref
    PROVE  AdoptIs(Adopt(t, n, d, k), t, n, d, k)
<1> DEFINE w == Adopt(t, n, d, k)
<1>1. /\ IsRec(t) /\ t.parent \in [Ref -> Ref]
      /\ t.kid \in KidFcn
  BY RecFields
<1>2. /\ IsRec(w) /\ w.root = t.root /\ w.color = t.color
      /\ w.kid = PutKid(t.kid, n, d, k) /\ w.parent = Put(t.parent, k, n)
  BY <1>1, Zenon DEF Adopt, Put, PutKid, IsRec
<1> HIDE DEF w
<1>3. /\ w.parent \in [Ref -> Ref]
      /\ \A m \in Ref : w.parent[m] = IF m = k THEN n ELSE t.parent[m]
  BY <1>1, <1>2 DEF Put
<1>4. w.kid \in KidFcn
  BY <1>1, <1>2, PutKidType
<1>5. \A m \in Ref, e \in Side :
         w.kid[m][e] = IF m = n /\ e = d THEN k ELSE t.kid[m][e]
  BY <1>1, <1>2, PutKidAt
<1>6. w \in TreeRec
  BY <1>2, <1>3, <1>4, RecFields, RecMade
<1> QED BY <1>2, <1>3, <1>5, <1>6 DEF w, AdoptIs
Paint(t, n, c) == [t EXCEPT !.color[n] = c]

PaintIs(w, t, n, c) ==
    /\ w \in TreeRec
    /\ w.root = t.root /\ w.kid = t.kid /\ w.parent = t.parent
    /\ \A m \in Ref : w.color[m] = IF m = n THEN c ELSE t.color[m]

LEMMA PaintFields ==
    ASSUME NEW t \in TreeRec, NEW n \in Ref, NEW c \in {"red", "black"}
    PROVE  PaintIs(Paint(t, n, c), t, n, c)
<1> DEFINE w == Paint(t, n, c)
<1>1. /\ IsRec(t) /\ t.color \in [Ref -> {"red", "black"}]
  BY RecFields
<1>2. /\ IsRec(w) /\ w.root = t.root /\ w.kid = t.kid /\ w.parent = t.parent
      /\ w.color = Put(t.color, n, c)
  BY <1>1 DEF Paint, Put, IsRec
<1> HIDE DEF w
<1>3. /\ w.color \in [Ref -> {"red", "black"}]
      /\ \A m \in Ref : w.color[m] = IF m = n THEN c ELSE t.color[m]
  BY <1>1, <1>2 DEF Put
<1>4. w \in TreeRec
  BY <1>2, <1>3, RecFields, RecMade
<1> QED BY <1>2, <1>3, <1>4 DEF w, PaintIs

-----------------------------------------------------------------------------
(* Rotate                                                                  *)

\* The links of u are those of t, after x has come down on side d.
Turned(t, u, x, y, b, p, c, d) ==
    /\ u \in TreeRec
    /\ u.root = IF p = NIL THEN y ELSE t.root
    /\ \A n \in Ref, e \in Side :
          u.kid[n][e] = IF n = x /\ e = Other(d) THEN b
                        ELSE IF n = y /\ e = d THEN x
                        ELSE IF n = p /\ p # NIL /\ e = c THEN y
                        ELSE t.kid[n][e]
    /\ \A n \in Ref :
          u.parent[n] = IF n = x THEN y
                        ELSE IF n = y THEN p
                        ELSE IF n = b /\ b # NIL THEN x
                        ELSE t.parent[n]

\* The nodes a rotation moves.
Turn(t, N, x, y, b, p, c, d) ==
    /\ x \in N /\ y \in N /\ d \in Side /\ c \in Side
    /\ y = t.kid[x][Other(d)] /\ b = t.kid[y][d] /\ p = t.parent[x]
    /\ c = SideOf(t, x)

LEMMA TurnFacts ==
    ASSUME NEW t \in TreeRec, NEW N, NEW s, Shape(t, N, s),
           NEW x, NEW y, NEW b, NEW p, NEW c, NEW d, Turn(t, N, x, y, b, p, c, d)
    PROVE  /\ N \subseteq Ref /\ NIL \notin N /\ Other(d) \in Side /\ Other(d) # d
           /\ b \in N \cup {NIL} /\ p \in N \cup {NIL} /\ NIL \in Ref
           /\ y # x /\ b # y /\ b # x /\ p # x /\ p # y
           /\ p = NIL <=> x = t.root
           /\ p # NIL => t.kid[p][c] = x
           /\ t.parent[y] = x /\ (b # NIL => t.parent[b] = y)
<1>1. Other(d) \in Side /\ Other(d) # d /\ N \subseteq Ref /\ NIL \notin N /\ NIL \in Ref
  BY Sides, AddrFacts DEF Turn, Shape, Ref
<1>2. y # x /\ b # y /\ b \in N \cup {NIL} /\ (b # NIL => t.parent[b] = y) /\ t.parent[y] = x
  BY <1>1, Kids DEF Turn
<1>3. x \in s[x] /\ y \in s[x] /\ y \in s[y] /\ (b # NIL => b \in s[b])
  BY <1>1, <1>2 DEF Shape, Turn
<1>4. x \notin s[y]
  BY <1>1, Kids DEF Turn
<1>5. b # x
  <2>1. b # NIL => b \in s[y]
    BY <1>1, <1>2, <1>3, SMTT(30) DEF Shape, Turn
  <2> QED BY <2>1, <1>4, <1>1, SMTT(30) DEF Turn
<1>6. CASE x = t.root
  BY <1>1, <1>2, <1>5, <1>6 DEF Shape, Turn
<1>7. CASE x # t.root
  <2>1. p \in N /\ p \notin s[x] /\ \E e \in Side : t.kid[p][e] = x
    BY <1>7, Parents DEF Turn
  <2>2. p # x /\ p # y /\ p # NIL
    BY <2>1, <1>1, <1>3
  <2>3. t.kid[p][c] = x
    <3>1. PICK e \in Side : t.kid[p][e] = x
      BY <2>1
    <3>2. SideOf(t, x) = e
      BY <3>1, <2>1, <1>1, SideOfKid DEF Turn
    <3> QED BY <3>1, <3>2 DEF Turn
  <2> QED BY <1>1, <1>2, <1>5, <1>7, <2>1, <2>2, <2>3
<1> QED BY <1>6, <1>7

HandOverIs(w, t, n, d, k) ==
    /\ w \in TreeRec /\ w.root = t.root /\ w.color = t.color
    /\ \A m \in Ref : w.parent[m] = IF m = k /\ k # NIL THEN n ELSE t.parent[m]
    /\ \A m \in Ref, e \in Side :
          w.kid[m][e] = IF m = n /\ e = d THEN k ELSE t.kid[m][e]

\* The inner child changes its parent, if it is not NIL.
LEMMA HandOverFields ==
    ASSUME NEW t \in TreeRec, NEW n \in Ref, NEW d \in Side, NEW k \in Ref
    PROVE  HandOverIs(HandOver(t, n, d, k), t, n, d, k)
<1> DEFINE w == HandOver(t, n, d, k)
<1>1. CASE k # NIL
  <2>1. AdoptIs(w, t, n, d, k)
    BY <1>1, AdoptFields DEF HandOver
  <2> HIDE DEF w
  <2>2. HandOverIs(w, t, n, d, k)
    BY <1>1, <2>1 DEF AdoptIs, HandOverIs
  <2> QED BY <2>2 DEF w
<1>2. CASE k = NIL
  <2>1. /\ IsRec(t) /\ t.parent \in [Ref -> Ref] /\ t.kid \in KidFcn /\ t.root \in Ref
    BY RecFields
  <2>2. w = [t EXCEPT !.kid[n][d] = k]
    BY <1>2 DEF HandOver
  <2> HIDE DEF w
  <2>3. /\ IsRec(w) /\ w.root = t.root /\ w.color = t.color
        /\ w.kid = PutKid(t.kid, n, d, k) /\ w.parent = t.parent
    BY <2>1, <2>2 DEF Put, PutKid, IsRec
  <2>4. w.kid \in KidFcn
    BY <2>1, <2>3, PutKidType
  <2>5. \A m \in Ref, e \in Side :
           w.kid[m][e] = IF m = n /\ e = d THEN k ELSE t.kid[m][e]
    BY <2>1, <2>3, PutKidAt
  <2>6. w \in TreeRec
    BY <2>1, <2>3, <2>4, RecFields, RecMade
  <2>7. HandOverIs(w, t, n, d, k)
    BY <1>2, <2>3, <2>5, <2>6 DEF HandOverIs
  <2> QED BY <2>7 DEF w
<1> QED BY <1>1, <1>2

\* The writes of rotate_left and rotate_right, one after the other, come to Turned.
LEMMA RotateFields ==
    ASSUME NEW t \in TreeRec, NEW N, NEW s, Shape(t, N, s),
           NEW x, NEW y, NEW b, NEW p, NEW c, NEW d, Turn(t, N, x, y, b, p, c, d)
    PROVE  /\ Turned(t, Rotate(t, x, d), x, y, b, p, c, d)
           /\ Rotate(t, x, d).color = t.color
<1> DEFINE o == Other(d)
           m == HandOver(t, x, o, b)
           h == Transplant(m, x, y)
           r == Adopt(h, y, d, x)
<1>1. /\ o \in Side /\ o # d /\ x \in Ref /\ y \in Ref /\ b \in Ref /\ p \in Ref
      /\ y # x /\ b # y /\ b # x /\ p # x /\ p # y /\ d \in Side /\ c \in Side
      /\ "left" \in Side
  BY TurnFacts, Sides, SMTT(30) DEF Turn
<1>2. Rotate(t, x, d) = r
  BY DEF Rotate, Turn
<1>3. /\ m \in TreeRec /\ m.root = t.root /\ m.color = t.color
      /\ \A n \in Ref, e \in Side :
            m.kid[n][e] = IF n = x /\ e = o THEN b ELSE t.kid[n][e]
      /\ \A n \in Ref : m.parent[n] = IF n = b /\ b # NIL THEN x ELSE t.parent[n]
  <2>1. HandOverIs(m, t, x, o, b)
    BY <1>1, HandOverFields
  <2> QED BY <2>1 DEF HandOverIs
<1> HIDE DEF m, o
<1>4. m.parent[x] = p
  BY <1>1, <1>3 DEF Turn
<1>5. SideOf(m, x) = c
  <2>1. m.kid[p].left = t.kid[p].left
    BY <1>1, <1>3
  <2> QED BY <2>1, <1>4 DEF SideOf, Turn
<1>6. /\ h \in TreeRec
      /\ h.root = (IF p = NIL THEN y ELSE t.root)
      /\ h.color = t.color
      /\ \A n \in Ref : h.parent[n] = IF n = y THEN p ELSE m.parent[n]
      /\ \A n \in Ref, e \in Side :
            h.kid[n][e] = IF n = p /\ n # NIL /\ e = c THEN y ELSE m.kid[n][e]
  <2>1. TransplantIs(h, m, x, y)
    BY <1>1, <1>3, TransplantFields
  <2> QED BY <2>1, <1>3, <1>4, <1>5 DEF TransplantIs
<1> HIDE DEF h
<1>7. /\ r \in TreeRec /\ r.root = h.root /\ r.color = h.color
      /\ \A n \in Ref, e \in Side :
            r.kid[n][e] = IF n = y /\ e = d THEN x ELSE h.kid[n][e]
      /\ \A n \in Ref : r.parent[n] = IF n = x THEN y ELSE h.parent[n]
  <2>1. AdoptIs(r, h, y, d, x)
    BY <1>1, <1>6, AdoptFields
  <2> QED BY <2>1 DEF AdoptIs
<1> HIDE DEF r
<1>8. \A n \in Ref, e \in Side :
         r.kid[n][e] = IF n = x /\ e = o THEN b
                       ELSE IF n = y /\ e = d THEN x
                       ELSE IF n = p /\ p # NIL /\ e = c THEN y
                       ELSE t.kid[n][e]
  BY <1>1, <1>3, <1>6, <1>7
<1>9. \A n \in Ref :
         r.parent[n] = IF n = x THEN y
                       ELSE IF n = y THEN p
                       ELSE IF n = b /\ b # NIL THEN x
                       ELSE t.parent[n]
  BY <1>3, <1>6, <1>7
<1>10. Turned(t, r, x, y, b, p, c, d)
  BY <1>6, <1>7, <1>8, <1>9 DEF Turned, o
<1> QED BY <1>2, <1>6, <1>7, <1>10
LEMMA BeforeOrder ==
    ASSUME NEW d \in Side, NEW l \in Nat, NEW m \in Nat, NEW n \in Nat
    PROVE  /\ Before(d, l, m) /\ Before(d, m, n) => Before(d, l, n)
           /\ Before(Other(d), l, m) <=> Before(d, m, l)
           /\ ~Before(d, l, l)
  BY Sides DEF Before, Other

LEMMA TwoSides == ASSUME NEW d \in Side PROVE Side = {d, Other(d)}
  BY Sides DEF Other

\* The nodes below each node after the turn.
TurnedSets(t, N, s, x, y, b, d) ==
    [n \in N \cup {NIL} |-> IF n = y THEN s[x]
                            ELSE IF n = x THEN {x} \cup s[t.kid[x][d]] \cup s[b]
                            ELSE s[n]]

\* A rotation keeps a search tree of the same nodes; two subtrees change.
LEMMA TurnShape ==
    ASSUME NEW t \in TreeRec, NEW N, NEW s, Shape(t, N, s), NEW u,
           NEW x, NEW y, NEW b, NEW p, NEW c, NEW d,
           Turn(t, N, x, y, b, p, c, d), Turned(t, u, x, y, b, p, c, d)
    PROVE  Shape(u, N, TurnedSets(t, N, s, x, y, b, d))
<1> DEFINE o == Other(d)
           k1 == t.kid[x][d]
           k2 == t.kid[y][o]
           z == TurnedSets(t, N, s, x, y, b, d)
<1>1. /\ x \in N /\ y \in N /\ d \in Side /\ c \in Side /\ o \in Side /\ o # d
      /\ N \subseteq Ref /\ NIL \notin N /\ NIL \in Ref
      /\ b \in N \cup {NIL} /\ p \in N \cup {NIL}
      /\ y # x /\ b # y /\ b # x /\ p # x /\ p # y
      /\ t.kid[x][o] = y /\ t.kid[y][d] = b
  BY TurnFacts DEF Turn
<1>2. /\ p = NIL <=> x = t.root
      /\ p # NIL => t.kid[p][c] = x
      /\ t.parent[x] = p /\ t.parent[y] = x /\ (b # NIL => t.parent[b] = y)
  BY TurnFacts DEF Turn
<1>3. /\ k1 \in N \cup {NIL} /\ k1 # x /\ (k1 # NIL => k1 # y /\ k1 # b /\ t.parent[k1] = x)
      /\ k2 \in N \cup {NIL} /\ k2 # y /\ (k2 # NIL => k2 # x /\ k2 # b /\ t.parent[k2] = y)
  BY <1>1, <1>2, Kids, Sides
<1>4. /\ Side = {d, o}
      /\ \A n \in N : /\ n \in Nat /\ s[n] \in SUBSET N /\ n \in s[n]
      /\ s[NIL] = {}
  BY <1>1, TwoSides, AddrFacts DEF Shape
<1>5. /\ \A m \in N : m \in s[x] <=> m = x \/ m \in s[k1] \/ m \in s[y]
      /\ \A m \in N : m \in s[y] <=> m = y \/ m \in s[b] \/ m \in s[k2]
  BY <1>1, <1>4 DEF Shape
<1>6. /\ z \in [N \cup {NIL} -> SUBSET N]
      /\ z[x] = {x} \cup s[k1] \cup s[b] /\ z[y] = s[x]
      /\ \A n \in N \cup {NIL} : n # x /\ n # y => z[n] = s[n]
  <2>1. s[k1] \subseteq N /\ s[b] \subseteq N /\ s[x] \subseteq N
    BY <1>1, <1>3, <1>4
  <2>2. \A n \in N \cup {NIL} : s[n] \subseteq N
    BY <1>4
  <2> QED BY <1>1, <2>1, <2>2 DEF TurnedSets
<1> HIDE DEF z, o, k1, k2
<1>7. /\ u.root = IF p = NIL THEN y ELSE t.root
      /\ u.kid[x][o] = b /\ u.kid[y][d] = x
      /\ p # NIL => u.kid[p][c] = y
      /\ u.parent[x] = y /\ u.parent[y] = p /\ (b # NIL => u.parent[b] = x)
      /\ \A n \in Ref, e \in Side :
            ~(n = x /\ e = o) /\ ~(n = y /\ e = d) /\ ~(n = p /\ e = c) => u.kid[n][e] = t.kid[n][e]
      /\ \A n \in Ref : n # x /\ n # y /\ (n = b => b = NIL) => u.parent[n] = t.parent[n]
  BY <1>1, <1>2 DEF Turned, o
<1>8. ASSUME NEW n \in N, NEW e \in Side,
             ~(n = x /\ e = o), ~(n = y /\ e = d), ~(n = p /\ e = c)
      PROVE  /\ u.kid[n][e] = t.kid[n][e] /\ t.kid[n][e] \in N \cup {NIL}
             /\ z[t.kid[n][e]] = s[t.kid[n][e]]
             /\ t.kid[n][e] # NIL => u.parent[t.kid[n][e]] = n
  <2> DEFINE k == t.kid[n][e]
  <2>1. u.kid[n][e] = k
    BY <1>1, <1>7, <1>8
  <2>2. k \in N \cup {NIL} /\ (k # NIL => t.parent[k] = n)
    BY DEF Shape
  <2>3. k # x
    <3>1. SUFFICES ASSUME k = x PROVE FALSE
      OBVIOUS
    <3>2. n = p
      BY <3>1, <2>2, <1>1, <1>2
    <3>3. e # c
      BY <3>2, <1>8
    <3>4. e = Other(c)
      BY <3>3, <1>1, TwoSides
    <3> QED BY <3>1, <3>2, <3>4, <1>1, <1>2, Kids
  <2>4. k # y
    <3>1. SUFFICES ASSUME k = y PROVE FALSE
      OBVIOUS
    <3>2. n = x
      BY <3>1, <2>2, <1>1, <1>2
    <3>3. e = d
      BY <3>2, <1>8, <1>4
    <3> QED BY <3>1, <3>2, <3>3, <1>1, <1>3 DEF k1
  <2>5. k = b => k = NIL
    <3>1. SUFFICES ASSUME k = b, k # NIL PROVE FALSE
      OBVIOUS
    <3>2. n = y
      BY <3>1, <2>2, <1>1, <1>2
    <3>3. e = o
      BY <3>2, <1>8, <1>4
    <3> QED BY <3>1, <3>2, <3>3, <1>1, <1>3 DEF k2
  <2> HIDE DEF k
  <2>6. z[k] = s[k]
    BY <1>6, <2>2, <2>3, <2>4
  <2>7. k # NIL => u.parent[k] = n
    BY <1>1, <1>7, <2>2, <2>3, <2>4, <2>5
  <2> QED BY <2>1, <2>2, <2>6, <2>7 DEF k
<1>9. z[NIL] = {}
  BY <1>1, <1>4, <1>6
<1>10. u.root \in N \cup {NIL} /\ z[u.root] = N
  <2>1. t.root \in N \cup {NIL} /\ s[t.root] = N /\ t.root # y
    BY <1>1, Kids DEF Shape
  <2>2. CASE p = NIL
    BY <2>1, <2>2, <1>1, <1>2, <1>6, <1>7
  <2>3. CASE p # NIL
    BY <2>1, <2>3, <1>1, <1>2, <1>6, <1>7
  <2> QED BY <2>2, <2>3
<1>11. u.root # NIL => u.parent[u.root] = NIL
  <2>1. t.root \in N \cup {NIL} /\ t.root # y /\ (t.root = b => b = NIL)
        /\ (t.root # NIL => t.parent[t.root] = NIL)
    BY <1>1, Kids DEF Shape
  <2>2. CASE p = NIL
    BY <2>1, <2>2, <1>1, <1>2, <1>7
  <2>3. CASE p # NIL
    BY <2>1, <2>3, <1>1, <1>2, <1>7
  <2> QED BY <2>2, <2>3
<1>12. ASSUME NEW n \in N, NEW e \in Side
       PROVE  /\ u.kid[n][e] \in N \cup {NIL}
              /\ \A m \in z[u.kid[n][e]] : Before(e, m, n)
              /\ u.kid[n][e] # NIL => u.parent[u.kid[n][e]] = n
  <2>1. CASE n = x /\ e = o
    <3>1. u.kid[n][e] = b /\ z[b] = s[b]
      BY <2>1, <1>1, <1>6, <1>7
    <3>2. \A m \in s[b] : m \in s[y]
      BY <1>1, <1>4, <1>5
    <3>3. \A m \in s[y] : Before(o, m, x)
      BY <1>1 DEF Shape
    <3> QED BY <2>1, <3>1, <3>2, <3>3, <1>1, <1>7
  <2>2. CASE n = y /\ e = d
    <3>1. u.kid[n][e] = x /\ z[x] = {x} \cup s[k1] \cup s[b]
      BY <2>2, <1>6, <1>7
    <3>2. Before(o, y, x)
      BY <1>1, <1>4 DEF Shape
    <3>3. Before(d, x, y)
      BY <3>2, <1>1, <1>4, BeforeOrder DEF o
    <3>4. \A m \in s[k1] : Before(d, m, x) /\ m \in Nat
      BY <1>1, <1>3, <1>4 DEF Shape, k1
    <3>5. \A m \in s[k1] : Before(d, m, y)
      BY <3>3, <3>4, <1>1, <1>4, BeforeOrder
    <3>6. \A m \in s[b] : Before(d, m, y)
      BY <1>1 DEF Shape
    <3> QED BY <2>2, <3>1, <3>3, <3>5, <3>6, <1>1, <1>7
  <2>3. CASE n = p /\ e = c
    <3>1. p # NIL /\ u.kid[n][e] = y /\ z[y] = s[x] /\ t.kid[p][c] = x
      BY <2>3, <1>1, <1>2, <1>6, <1>7
    <3>2. \A m \in s[x] : Before(c, m, p)
      BY <2>3, <3>1, <1>1 DEF Shape
    <3> QED BY <2>3, <3>1, <3>2, <1>1, <1>7
  <2>4. CASE ~(n = x /\ e = o) /\ ~(n = y /\ e = d) /\ ~(n = p /\ e = c)
    <3>1. /\ u.kid[n][e] = t.kid[n][e] /\ t.kid[n][e] \in N \cup {NIL}
          /\ z[t.kid[n][e]] = s[t.kid[n][e]]
          /\ t.kid[n][e] # NIL => u.parent[t.kid[n][e]] = n
      BY <2>4, <1>8
    <3>2. \A m \in s[t.kid[n][e]] : Before(e, m, n)
      BY DEF Shape
    <3> QED BY <3>1, <3>2
  <2> QED BY <2>1, <2>2, <2>3, <2>4
<1>13. ASSUME NEW n \in N, NEW m \in N
       PROVE  m \in z[n] <=> m = n \/ \E e \in Side : m \in z[u.kid[n][e]]
  <2>1. CASE n = x
    <3>1. u.kid[x][o] = b /\ z[b] = s[b] /\ u.kid[x][d] = k1 /\ z[k1] = s[k1]
      BY <1>1, <1>6, <1>7, <1>8 DEF k1
    <3>2. m \in z[x] <=> m = x \/ m \in s[k1] \/ m \in s[b]
      BY <1>6
    <3> QED BY <2>1, <3>1, <3>2, <1>4
  <2>2. CASE n = y
    <3>1. u.kid[y][d] = x /\ u.kid[y][o] = k2 /\ z[k2] = s[k2]
      BY <1>1, <1>6, <1>7, <1>8 DEF k2
    <3>2. m \in z[y] <=> m = x \/ m \in s[k1] \/ m = y \/ m \in s[b] \/ m \in s[k2]
      BY <1>5, <1>6
    <3>3. m \in z[x] <=> m = x \/ m \in s[k1] \/ m \in s[b]
      BY <1>6
    <3> QED BY <2>2, <3>1, <3>2, <3>3, <1>4
  <2>3. CASE n # x /\ n # y
    <3>1. ASSUME NEW e \in Side PROVE z[u.kid[n][e]] = s[t.kid[n][e]]
      <4>1. CASE n = p /\ e = c
        BY <4>1, <1>1, <1>2, <1>6, <1>7
      <4>2. CASE ~(n = p /\ e = c)
        BY <4>2, <2>3, <1>8
      <4> QED BY <4>1, <4>2
    <3>2. m \in s[n] <=> m = n \/ \E e \in Side : m \in s[t.kid[n][e]]
      BY DEF Shape
    <3>3. z[n] = s[n]
      BY <2>3, <1>6
    <3> QED BY <3>1, <3>2, <3>3
  <2> QED BY <2>1, <2>2, <2>3
<1>14. N \subseteq Addr
  BY DEF Shape
<1>15. Shape(u, N, z)
  BY <1>6, <1>9, <1>10, <1>11, <1>12, <1>13, <1>14 DEF Shape
<1> QED BY <1>15 DEF z
\* The children before and after the turn.
TurnedKids(t, N, u, x, y, b, p, c, d) ==
    /\ u.kid[x][Other(d)] = b /\ u.kid[x][d] = t.kid[x][d]
    /\ u.kid[y][d] = x /\ u.kid[y][Other(d)] = t.kid[y][Other(d)]
    /\ p # NIL => u.kid[p][c] = y
    /\ t.kid[x][d] \notin {x, y} /\ t.kid[y][Other(d)] \notin {x, y}
    /\ \A n \in N, e \in Side :
          n \notin {x, y} /\ ~(n = p /\ e = c) =>
             u.kid[n][e] = t.kid[n][e] /\ t.kid[n][e] \notin {x, y}

LEMMA TurnKids ==
    ASSUME NEW t \in TreeRec, NEW N, NEW s, Shape(t, N, s), NEW u,
           NEW x, NEW y, NEW b, NEW p, NEW c, NEW d,
           Turn(t, N, x, y, b, p, c, d), Turned(t, u, x, y, b, p, c, d)
    PROVE  TurnedKids(t, N, u, x, y, b, p, c, d)
<1> DEFINE o == Other(d)
<1>1. /\ x \in N /\ y \in N /\ d \in Side /\ c \in Side /\ o \in Side /\ o # d
      /\ N \subseteq Ref /\ NIL \notin N /\ NIL \in Ref
      /\ b \in N \cup {NIL} /\ p \in N \cup {NIL}
      /\ y # x /\ b # y /\ b # x /\ p # x /\ p # y
      /\ t.kid[x][o] = y /\ t.kid[y][d] = b /\ Other(o) = d
  BY TurnFacts, Sides DEF Turn
<1>2. /\ p # NIL => t.kid[p][c] = x
      /\ t.parent[x] = p /\ t.parent[y] = x
  BY TurnFacts DEF Turn
<1>3. t.kid[x][d] \notin {x, y} /\ t.kid[y][o] \notin {x, y}
  <2>1. t.kid[x][d] # x /\ (t.kid[x][d] # NIL => t.kid[x][d] # y)
    BY <1>1, Kids
  <2>2. t.kid[y][o] # y /\ (t.kid[y][o] # NIL => t.parent[t.kid[y][o]] = y)
    BY <1>1, Kids
  <2> QED BY <1>1, <1>2, <2>1, <2>2
<1>4. ASSUME NEW n \in N, NEW e \in Side, n \notin {x, y}, ~(n = p /\ e = c)
      PROVE  t.kid[n][e] \notin {x, y}
  <2>1. t.kid[n][e] # NIL => t.parent[t.kid[n][e]] = n
    BY DEF Shape
  <2>2. CASE n = p
    <3>1. e = Other(c)
      BY <2>2, <1>1, <1>4, TwoSides
    <3> QED BY <2>1, <2>2, <3>1, <1>1, <1>2, <1>4, Kids
  <2> QED BY <2>1, <2>2, <1>1, <1>2, <1>4
<1>5. /\ u.kid[x][o] = b /\ u.kid[x][d] = t.kid[x][d]
      /\ u.kid[y][d] = x /\ u.kid[y][o] = t.kid[y][o]
      /\ p # NIL => u.kid[p][c] = y
      /\ \A n \in N, e \in Side :
            n \notin {x, y} /\ ~(n = p /\ e = c) => u.kid[n][e] = t.kid[n][e]
  BY <1>1 DEF Turned
<1> QED BY <1>3, <1>4, <1>5 DEF TurnedKids

\* Colors do not matter for the shape.
SameLinks(t, w) == w \in TreeRec /\ w.root = t.root /\ w.kid = t.kid /\ w.parent = t.parent

\* Only nodes of N are given other children.
Kept(t, u, N) == \A n \in Ref \ N, e \in Side : u.kid[n][e] = t.kid[n][e]

\* A rotation of a tree that has been recolored before it, as each of the cases does.
LEMMA RotatePainted ==
    ASSUME NEW t \in TreeRec, NEW N, NEW s, Shape(t, N, s), NEW w, SameLinks(t, w),
           NEW x, NEW y, NEW b, NEW p, NEW c, NEW d, Turn(t, N, x, y, b, p, c, d)
    PROVE  LET u == Rotate(w, x, d)
           IN  /\ u \in TreeRec /\ Turned(t, u, x, y, b, p, c, d) /\ u.color = w.color
               /\ Shape(u, N, TurnedSets(t, N, s, x, y, b, d)) /\ Kept(t, u, N)
               /\ TurnedKids(t, N, u, x, y, b, p, c, d)
<1> DEFINE u == Rotate(w, x, d)
<1>1. Shape(w, N, s) /\ w \in TreeRec
  BY DEF Shape, SameLinks
<1>2. Turn(w, N, x, y, b, p, c, d)
  BY DEF Turn, SameLinks, SideOf
<1>3. Turned(w, u, x, y, b, p, c, d) /\ u.color = w.color
  BY <1>1, <1>2, RotateFields
<1> HIDE DEF u
<1>4. Turned(t, u, x, y, b, p, c, d)
  BY <1>3 DEF Turned, SameLinks
<1>5. Shape(u, N, TurnedSets(t, N, s, x, y, b, d)) /\ TurnedKids(t, N, u, x, y, b, p, c, d)
  BY <1>4, TurnShape, TurnKids
<1>6. u \in TreeRec
  BY <1>4 DEF Turned
<1>7. Kept(t, u, N)
  <2>1. x \in N /\ y \in N /\ (p # NIL => p \in N)
    BY TurnFacts DEF Turn
  <2> QED BY <2>1, <1>4 DEF Turned, Kept
<1> QED BY <1>3, <1>4, <1>5, <1>6, <1>7 DEF u

\* Nodes painted one after the other.
Paint2(t, a, i, b, j) == [t EXCEPT !.color[a] = i, !.color[b] = j]
Paint3(t, a, i, b, j, c, k) ==
    [t EXCEPT !.color[a] = i, !.color[b] = j, !.color[c] = k]

Painted2(t, w, a, i, b, j) ==
    /\ SameLinks(t, w)
    /\ \A n \in Ref : w.color[n] = IF n = b THEN j ELSE IF n = a THEN i ELSE t.color[n]
Painted3(t, w, a, i, b, j, c, k) ==
    /\ SameLinks(t, w)
    /\ \A n \in Ref : w.color[n] = IF n = c THEN k ELSE IF n = b THEN j ELSE
                                   IF n = a THEN i ELSE t.color[n]

LEMMA PaintedThree ==
    ASSUME NEW t \in TreeRec, NEW a \in Ref, NEW b \in Ref, NEW c \in Ref,
           NEW i \in {"red", "black"}, NEW j \in {"red", "black"}, NEW k \in {"red", "black"}
    PROVE  Painted3(t, Paint3(t, a, i, b, j, c, k), a, i, b, j, c, k)
<1> DEFINE w == Paint3(t, a, i, b, j, c, k)
<1>1. /\ IsRec(t) /\ t.color \in [Ref -> {"red", "black"}] /\ t.root \in Ref
      /\ t.kid \in KidFcn /\ t.parent \in [Ref -> Ref]
  BY RecFields
<1>2. /\ IsRec(w) /\ w.root = t.root /\ w.kid = t.kid /\ w.parent = t.parent
      /\ w.color = Put(Put(Put(t.color, a, i), b, j), c, k)
  BY <1>1, Zenon DEF Put, IsRec, Paint3
<1> HIDE DEF w
<1>3. /\ w.color \in [Ref -> {"red", "black"}]
      /\ \A n \in Ref : w.color[n] = IF n = c THEN k ELSE IF n = b THEN j ELSE
                                     IF n = a THEN i ELSE t.color[n]
  <2> DEFINE f == Put(t.color, a, i)
             g == Put(f, b, j)
  <2>1. f \in [Ref -> {"red", "black"}] /\ \A n \in Ref : f[n] = IF n = a THEN i ELSE t.color[n]
    BY <1>1 DEF Put
  <2> HIDE DEF f
  <2>2. g \in [Ref -> {"red", "black"}] /\ \A n \in Ref : g[n] = IF n = b THEN j ELSE f[n]
    BY <2>1 DEF Put
  <2>3. w.color = Put(g, c, k)
    BY <1>2 DEF f
  <2> HIDE DEF g
  <2>4. w.color \in [Ref -> {"red", "black"}] /\ \A n \in Ref : w.color[n] = IF n = c THEN k ELSE g[n]
    BY <2>2, <2>3 DEF Put
  <2> QED BY <2>1, <2>2, <2>4
<1>4. w \in TreeRec
  BY <1>1, <1>2, <1>3, RecMade
<1> QED BY <1>2, <1>3, <1>4 DEF w, SameLinks, Painted3

LEMMA PaintedTwo ==
    ASSUME NEW t \in TreeRec, NEW a \in Ref, NEW b \in Ref,
           NEW i \in {"red", "black"}, NEW j \in {"red", "black"}
    PROVE  Painted2(t, Paint2(t, a, i, b, j), a, i, b, j)
<1> DEFINE w == Paint2(t, a, i, b, j)
<1>1. /\ IsRec(t) /\ t.color \in [Ref -> {"red", "black"}] /\ t.root \in Ref
      /\ t.kid \in KidFcn /\ t.parent \in [Ref -> Ref]
  BY RecFields
<1>2. /\ IsRec(w) /\ w.root = t.root /\ w.kid = t.kid /\ w.parent = t.parent
      /\ w.color = Put(Put(t.color, a, i), b, j)
  BY <1>1, Zenon DEF Put, IsRec, Paint2
<1> HIDE DEF w
<1>3. /\ w.color \in [Ref -> {"red", "black"}]
      /\ \A n \in Ref : w.color[n] = IF n = b THEN j ELSE IF n = a THEN i ELSE t.color[n]
  <2> DEFINE f == Put(t.color, a, i)
  <2>1. f \in [Ref -> {"red", "black"}] /\ \A n \in Ref : f[n] = IF n = a THEN i ELSE t.color[n]
    BY <1>1 DEF Put
  <2>2. w.color = Put(f, b, j)
    BY <1>2
  <2> HIDE DEF f
  <2>3. w.color \in [Ref -> {"red", "black"}] /\ \A n \in Ref : w.color[n] = IF n = b THEN j ELSE f[n]
    BY <2>1, <2>2 DEF Put
  <2> QED BY <2>1, <2>3
<1>4. w \in TreeRec
  BY <1>1, <1>2, <1>3, RecMade
<1> QED BY <1>2, <1>3, <1>4 DEF w, SameLinks, Painted2

-----------------------------------------------------------------------------
(* Black heights and red nodes                                             *)

Black(t, n) == IF t.color[n] = "black" THEN 1 ELSE 0
Gap(n, e, q, f) == IF n = q /\ e = f THEN 1 ELSE 0

\* h[n] is the number of black nodes on a path down from n, but one is
\* missing below q on side f.
Heights(t, N, h, q, f) ==
    /\ h \in [N \cup {NIL} -> Nat] /\ h[NIL] = 0
    /\ \A n \in N, e \in Side :
          h[n] = h[t.kid[n][e]] + Black(t, n) + Gap(n, e, q, f)

\* c, or the children of e, may be red below a red node.
NoRedRed(t, N, c, e) ==
    /\ t.color[NIL] = "black"
    /\ t.color[t.root] = "red" => t.root = c
    /\ \A n \in N, d \in Side :
          t.color[n] = "red" /\ t.color[t.kid[n][d]] = "red" => t.kid[n][d] = c \/ n = e

SwappedHeights(h, x, y, N) ==
    [n \in N \cup {NIL} |-> IF n = x THEN h[y] ELSE IF n = y THEN h[x] ELSE h[n]]

\* A red y goes up and takes the color of x, which becomes red.
LEMMA SwapHeights ==
    ASSUME NEW t \in TreeRec, NEW N, NEW s, Shape(t, N, s), NEW u,
           NEW x, NEW y, NEW b, NEW p, NEW c, NEW d,
           Turn(t, N, x, y, b, p, c, d), TurnedKids(t, N, u, x, y, b, p, c, d),
           NEW h, NEW q, NEW f, Heights(t, N, h, q, f), q # y, ~(q = x /\ f = Other(d)),
           t.color[y] = "red", u.color[x] = "red", u.color[y] = t.color[x],
           \A n \in N : n # x /\ n # y => u.color[n] = t.color[n]
    PROVE  Heights(u, N, SwappedHeights(h, x, y, N), q, f)
<1> DEFINE o == Other(d)
           k1 == t.kid[x][d]
           k2 == t.kid[y][o]
           g == SwappedHeights(h, x, y, N)
<1>1. /\ x \in N /\ y \in N /\ d \in Side /\ c \in Side /\ o \in Side /\ o # d
      /\ NIL \notin N /\ b \in N \cup {NIL} /\ p \in N \cup {NIL}
      /\ y # x /\ b # y /\ b # x /\ p # x /\ p # y
      /\ t.kid[x][o] = y /\ t.kid[y][d] = b /\ (p # NIL => t.kid[p][c] = x)
      /\ Side = {d, o}
  <2>1. d \in Side /\ x \in N /\ y \in N /\ c \in Side
        /\ t.kid[x][o] = y /\ t.kid[y][d] = b
    BY DEF Turn
  <2>2. Side = {d, o} /\ o \in Side /\ o # d
    BY <2>1, TwoSides, Sides
  <2> QED BY <2>1, <2>2, TurnFacts
<1>2. /\ h \in [N \cup {NIL} -> Nat] /\ h[NIL] = 0
      /\ h[x] = h[y] + Black(t, x)
      /\ h[x] = h[k1] + Black(t, x) + Gap(x, d, q, f)
      /\ h[y] = h[b] /\ h[y] = h[k2]
  <2>1. Black(t, y) = 0 /\ Gap(y, d, q, f) = 0 /\ Gap(y, o, q, f) = 0 /\ Gap(x, o, q, f) = 0
    BY DEF Black, Gap
  <2>2. Black(t, x) \in {0, 1} /\ Gap(x, d, q, f) \in {0, 1}
    BY DEF Black, Gap
  <2>3. h[k2] \in Nat /\ h[b] \in Nat /\ h[y] \in Nat /\ h[k1] \in Nat
    BY <1>1, Kids DEF Heights
  <2> QED BY <2>1, <2>2, <2>3, <1>1 DEF Heights
<1>3. /\ u.kid[x][o] = b /\ u.kid[x][d] = k1 /\ u.kid[y][d] = x /\ u.kid[y][o] = k2
      /\ p # NIL => u.kid[p][c] = y
      /\ k1 \notin {x, y} /\ k2 \notin {x, y}
      /\ \A n \in N, e \in Side : n \notin {x, y} /\ ~(n = p /\ e = c) =>
                u.kid[n][e] = t.kid[n][e] /\ t.kid[n][e] \notin {x, y}
  BY DEF TurnedKids
<1>4. k1 \in N \cup {NIL} /\ k2 \in N \cup {NIL}
  BY <1>1, Kids
<1>5. /\ g \in [N \cup {NIL} -> Nat] /\ g[NIL] = 0
      /\ g[x] = h[y] /\ g[y] = h[x] /\ g[b] = h[b] /\ g[k1] = h[k1] /\ g[k2] = h[k2]
      /\ \A n \in N \cup {NIL} : n \notin {x, y} => g[n] = h[n]
  BY <1>1, <1>2, <1>3, <1>4, Zenon DEF SwappedHeights
<1>6. /\ h[x] \in Nat /\ h[y] \in Nat /\ h[k1] \in Nat /\ Black(t, x) \in {0, 1}
      /\ Gap(x, d, q, f) \in {0, 1}
      /\ Black(u, x) = 0 /\ Black(u, y) = Black(t, x)
      /\ Gap(y, d, q, f) = 0 /\ Gap(y, o, q, f) = 0 /\ Gap(x, o, q, f) = 0
  BY <1>1, <1>2, <1>4 DEF Black, Gap
<1> HIDE DEF g, k1, k2, o
<1>7. ASSUME NEW n \in N, NEW e \in Side
      PROVE  g[n] = g[u.kid[n][e]] + Black(u, n) + Gap(n, e, q, f)
  <2>1. CASE n = x /\ e = o
    <3>1. u.kid[n][e] = b /\ g[b] = h[y] /\ g[n] = h[y]
      BY <2>1, <1>2, <1>3, <1>5, Zenon
    <3> QED BY <2>1, <3>1, <1>6
  <2>2. CASE n = x /\ e = d
    BY <2>2, <1>2, <1>3, <1>5, <1>6
  <2>3. CASE n = y /\ e = d
    BY <2>3, <1>2, <1>3, <1>5, <1>6
  <2>4. CASE n = y /\ e = o
    BY <2>4, <1>2, <1>3, <1>5, <1>6
  <2>5. CASE n \notin {x, y}
    <3>1. h[n] = h[t.kid[n][e]] + Black(t, n) + Gap(n, e, q, f)
      BY DEF Heights
    <3>2. Black(u, n) = Black(t, n) /\ g[n] = h[n]
      BY <2>5, <1>5 DEF Black
    <3>3. g[u.kid[n][e]] = h[t.kid[n][e]]
      <4>1. CASE n = p /\ e = c
        BY <4>1, <1>1, <1>3, <1>5
      <4>2. CASE ~(n = p /\ e = c)
        <5>1. u.kid[n][e] = t.kid[n][e] /\ t.kid[n][e] \notin {x, y}
          BY <4>2, <2>5, <1>3
        <5>2. t.kid[n][e] \in N \cup {NIL}
          BY DEF Shape
        <5> QED BY <5>1, <5>2, <1>5
      <4> QED BY <4>1, <4>2
    <3> QED BY <3>1, <3>2, <3>3
  <2> QED BY <2>1, <2>2, <2>3, <2>4, <2>5, <1>1
<1>8. Heights(u, N, g, q, f)
  BY <1>5, <1>7 DEF Heights
<1> QED BY <1>8 DEF g
-----------------------------------------------------------------------------
(* insert_fixup                                                            *)

\* The tree while z, which is red, may have a red parent.
Inserting(t, N, s, h, z) ==
    /\ t \in TreeRec /\ Shape(t, N, s) /\ Heights(t, N, h, NIL, "left")
    /\ NoRedRed(t, N, z, NIL) /\ z \in N /\ t.color[z] = "red"

InsertingSome(t, N, z) == \E s, h : Inserting(t, N, s, h, z)

\* The nodes insert_fixup looks at: p and g are parent and grandparent of z.
Elders(t, N, z, p, g, d) ==
    /\ z \in N /\ p \in N /\ g \in N /\ d \in Side
    /\ z # p /\ z # g /\ p # g /\ z # t.root /\ p # t.root
    /\ t.parent[z] = p /\ t.parent[p] = g /\ t.kid[g][d] = p
    /\ z = t.kid[p][d] \/ z = t.kid[p][Other(d)]
    /\ t.color[z] = "red" /\ t.color[p] = "red" /\ t.color[g] = "black"
    /\ SideOf(t, p) = d

\* A red node below a red parent has a grandparent: insert_fixup follows no NIL.
LEMMA EldersThere ==
    ASSUME NEW t, NEW N, NEW s, NEW h, NEW z, Inserting(t, N, s, h, z),
           t.color[t.parent[z]] = "red"
    PROVE  Elders(t, N, z, t.parent[z], t.parent[t.parent[z]], SideOf(t, t.parent[z]))
<1> DEFINE p == t.parent[z]
           g == t.parent[p]
           d == SideOf(t, p)
<1>1. /\ t \in TreeRec /\ Shape(t, N, s) /\ z \in N /\ t.color[z] = "red" /\ NIL \notin N
      /\ t.color[NIL] = "black" /\ (t.color[t.root] = "red" => t.root = z)
      /\ \A n \in N, e \in Side :
            t.color[n] = "red" /\ t.color[t.kid[n][e]] = "red" => t.kid[n][e] = z \/ n = NIL
  BY AddrFacts, Zenon DEF Inserting, NoRedRed, Shape
<1>2. z # t.root
  BY <1>1 DEF Shape
<1>3. p \in N /\ p # z /\ p \notin s[z] /\ \E e \in Side : t.kid[p][e] = z
  BY <1>1, <1>2, Parents
<1>4. p # t.root
  BY <1>1, <1>3
<1>5. g \in N /\ g # p /\ g \notin s[p] /\ \E e \in Side : t.kid[g][e] = p
  BY <1>1, <1>3, <1>4, Parents
<1>6. PICK e \in Side : t.kid[g][e] = p
  BY <1>5
<1>7. d = e /\ d \in Side
  BY <1>1, <1>3, <1>5, <1>6, SideOfKid
<1>8. z \in s[p] /\ p \in s[p]
  BY <1>1, <1>3 DEF Shape
<1>9. z # g
  BY <1>5, <1>8
<1>10. t.color[g] = "black"
  <2>1. t.color[g] # "red"
    BY <1>1, <1>3, <1>5, <1>6
  <2> QED BY <2>1, <1>1, <1>5 DEF TreeRec, Shape, Ref
<1>11. Side = {d, Other(d)}
  BY <1>7, TwoSides
<1>12. z = t.kid[p][d] \/ z = t.kid[p][Other(d)]
  BY <1>3, <1>11
<1> HIDE DEF g, d
<1>13. Elders(t, N, z, p, g, d)
  BY <1>1, <1>2, <1>3, <1>4, <1>5, <1>6, <1>7, <1>9, <1>10, <1>12 DEF Elders, g, d
<1> QED BY <1>13 DEF g, d

RaisedHeights(h, a, b, N) ==
    [n \in N \cup {NIL} |-> IF n = a \/ n = b THEN h[n] + 1 ELSE h[n]]

\* Case 1.
LEMMA Recolored ==
    ASSUME NEW t, NEW N, NEW s, NEW h, NEW z, NEW p, NEW g, NEW d, NEW k, NEW u,
           Inserting(t, N, s, h, z), Elders(t, N, z, p, g, d),
           k = t.kid[g][Other(d)], t.color[k] = "red",
           Painted3(t, u, p, "black", k, "black", g, "red")
    PROVE  Inserting(u, N, s, RaisedHeights(h, p, k, N), g)
<1>0. /\ SameLinks(t, u)
      /\ \A n \in Ref : u.color[n] = IF n = g THEN "red" ELSE
                                     IF n = k \/ n = p THEN "black" ELSE t.color[n]
  BY DEF Painted3
<1> USE <1>0
<1> DEFINE f == RaisedHeights(h, p, k, N)
<1>1. /\ t \in TreeRec /\ Shape(t, N, s) /\ NIL \notin N /\ NIL \in Ref /\ N \subseteq Ref
      /\ Heights(t, N, h, NIL, "left")
      /\ t.color[NIL] = "black" /\ (t.color[t.root] = "red" => t.root = z)
      /\ \A n \in N, e \in Side :
            t.color[n] = "red" /\ t.color[t.kid[n][e]] = "red" => t.kid[n][e] = z
  <2>1. Shape(t, N, s) /\ NoRedRed(t, N, z, NIL)
    BY DEF Inserting
  <2>2. NIL \notin N /\ NIL \in Ref /\ N \subseteq Ref
    BY <2>1, RefFacts DEF Shape
  <2> QED BY <2>1, <2>2 DEF Inserting, NoRedRed
<1>2. /\ z \in N /\ p \in N /\ g \in N /\ d \in Side /\ Other(d) \in Side
      /\ z # p /\ z # g /\ p # g /\ z # t.root /\ p # t.root
      /\ t.parent[z] = p /\ t.parent[p] = g /\ t.kid[g][d] = p
      /\ t.color[p] = "red" /\ t.color[g] = "black"
      /\ Side = {d, Other(d)}
  BY TwoSides DEF Elders
<1>3. /\ k \in N /\ t.parent[k] = g /\ k # p /\ k # g /\ k # t.root
  BY <1>1, <1>2, Kids
<1>4. \A n \in N, e \in Side :
         /\ t.kid[n][e] \in N \cup {NIL}
         /\ n # g => t.kid[n][e] # p /\ t.kid[n][e] # k
  BY <1>1, <1>2, <1>3 DEF Shape
<1>5. /\ h \in [N \cup {NIL} -> Nat] /\ h[NIL] = 0
      /\ \A n \in N, e \in Side : h[n] = h[t.kid[n][e]] + Black(t, n)
  <2>1. \A n \in N, e \in Side : Gap(n, e, NIL, "left") = 0
    BY <1>1 DEF Gap
  <2>2. \A n \in N : Black(t, n) \in {0, 1}
    BY DEF Black
  <2>3. \A n \in N, e \in Side : h[t.kid[n][e]] \in Nat
    BY <1>1, <1>4 DEF Heights
  <2> QED BY <1>1, <2>1, <2>2, <2>3 DEF Heights
<1>6. /\ f \in [N \cup {NIL} -> Nat] /\ f[NIL] = 0
      /\ f[p] = h[p] + 1 /\ f[k] = h[k] + 1
      /\ \A n \in N \cup {NIL} : n # p /\ n # k => f[n] = h[n]
  BY <1>1, <1>2, <1>3, <1>5 DEF RaisedHeights
<1> HIDE DEF f
<1>7. ASSUME NEW n \in N, NEW e \in Side
      PROVE  f[n] = f[u.kid[n][e]] + Black(u, n) + Gap(n, e, NIL, "left")
  <2>1. u.kid[n][e] = t.kid[n][e] /\ Gap(n, e, NIL, "left") = 0
    BY <1>1 DEF SameLinks, Gap
  <2>2. h[n] = h[t.kid[n][e]] + Black(t, n) /\ h[t.kid[n][e]] \in Nat
    BY <1>4, <1>5
  <2>3. CASE n = g
    <3>1. t.kid[n][e] \in {p, k}
      BY <2>3, <1>2
    <3>2. Black(u, n) = 0 /\ Black(t, n) = 1
      BY <2>3, <1>1, <1>2 DEF Black
    <3>3. f[n] = h[n]
      BY <2>3, <1>2, <1>3, <1>6
    <3> QED BY <3>1, <3>2, <3>3, <2>1, <2>2, <1>6
  <2>4. CASE n = p \/ n = k
    <3>1. Black(u, n) = 1 /\ Black(t, n) = 0
      BY <2>4, <1>1, <1>2, <1>3 DEF Black
    <3>2. f[t.kid[n][e]] = h[t.kid[n][e]]
      BY <2>4, <1>2, <1>3, <1>4, <1>6
    <3> QED BY <2>4, <3>1, <3>2, <2>1, <2>2, <1>6
  <2>5. CASE n \notin {g, p, k}
    <3>1. Black(u, n) = Black(t, n)
      BY <2>5, <1>1 DEF Black
    <3>2. f[t.kid[n][e]] = h[t.kid[n][e]] /\ f[n] = h[n]
      BY <2>5, <1>4, <1>6
    <3>3. Black(t, n) \in {0, 1}
      BY DEF Black
    <3> QED BY <3>1, <3>2, <3>3, <2>1, <2>2
  <2> QED BY <2>3, <2>4, <2>5
<1>8. Heights(u, N, f, NIL, "left")
  BY <1>6, <1>7 DEF Heights
<1>9. NoRedRed(u, N, g, NIL)
  <2>1. u.color[NIL] = "black"
    BY <1>1, <1>2, <1>3
  <2>2. u.color[u.root] = "red" => u.root = g
    <3>1. u.root = t.root /\ t.root \in Ref
      BY <1>1 DEF SameLinks, TreeRec
    <3> QED BY <3>1, <1>1, <1>2, <1>3
  <2>3. ASSUME NEW n \in N, NEW e \in Side, u.color[n] = "red", u.color[u.kid[n][e]] = "red"
        PROVE  u.kid[n][e] = g
    <3>1. u.kid[n][e] = t.kid[n][e] /\ t.kid[n][e] \in Ref
      BY <1>1, <1>4 DEF SameLinks
    <3>2. SUFFICES ASSUME t.kid[n][e] # g PROVE FALSE
      BY <3>1
    <3>3. t.color[t.kid[n][e]] = "red" /\ t.kid[n][e] # p /\ t.kid[n][e] # k
      BY <2>3, <3>1, <3>2
    <3>4. n # g
      BY <3>3, <1>2
    <3>5. t.color[n] = "red" /\ n # p
      BY <2>3, <3>4, <1>1, <1>2
    <3>6. t.kid[n][e] = z
      BY <3>3, <3>5, <1>1
    <3>7. t.parent[z] = n
      BY <3>6, <1>1, <1>2 DEF Shape
    <3> QED BY <3>5, <3>7, <1>2
  <2> QED BY <2>1, <2>2, <2>3 DEF NoRedRed
<1>10. Shape(u, N, s) /\ u \in TreeRec
  BY <1>1 DEF Shape, SameLinks
<1>11. g \in N /\ u.color[g] = "red"
  BY <1>1, <1>2
<1> QED BY <1>8, <1>9, <1>10, <1>11 DEF Inserting, f

\* Case 3.
OuterFrom(t, N, s, h, z, p, g, d, w) ==
    /\ Inserting(t, N, s, h, z) /\ Elders(t, N, z, p, g, d)
    /\ z = t.kid[p][d] /\ t.color[t.kid[g][Other(d)]] = "black"
    /\ Painted2(t, w, p, "black", g, "red")
OuterTo(t, N, u, z, p) ==
    InsertingSome(u, N, z) /\ Kept(t, u, N) /\ u.parent[z] = p /\ u.color[p] = "black"

\* Case 3: after the grandparent has come down nothing is left to repair.
LEMMA OuterTurned ==
    ASSUME NEW t, NEW N, NEW s, NEW h, NEW z, NEW p, NEW g, NEW d, NEW w,
           OuterFrom(t, N, s, h, z, p, g, d, w)
    PROVE  OuterTo(t, N, Rotate(w, g, Other(d)), z, p)
<1>0. /\ SameLinks(t, w)
      /\ \A n \in Ref : w.color[n] = IF n = g THEN "red" ELSE
                                     IF n = p THEN "black" ELSE t.color[n]
      /\ Inserting(t, N, s, h, z) /\ Elders(t, N, z, p, g, d)
      /\ z = t.kid[p][d] /\ t.color[t.kid[g][Other(d)]] = "black"
  BY DEF Painted2, OuterFrom
<1> USE <1>0
<1> DEFINE o == Other(d)
           b == t.kid[p][o]
           q == t.parent[g]
           c == SideOf(t, g)
           u == Rotate(w, g, o)
           r == TurnedSets(t, N, s, g, p, b, o)
           f == SwappedHeights(h, g, p, N)
<1>1. /\ t \in TreeRec /\ Shape(t, N, s) /\ NIL \notin N /\ NIL \in Ref /\ N \subseteq Ref
      /\ Heights(t, N, h, NIL, "left")
      /\ t.color[NIL] = "black" /\ (t.color[t.root] = "red" => t.root = z)
      /\ \A n \in N, e \in Side :
            t.color[n] = "red" /\ t.color[t.kid[n][e]] = "red" => t.kid[n][e] = z
  <2>1. Shape(t, N, s) /\ NoRedRed(t, N, z, NIL)
    BY DEF Inserting
  <2>2. NIL \notin N /\ NIL \in Ref /\ N \subseteq Ref
    BY <2>1, RefFacts DEF Shape
  <2> QED BY <2>1, <2>2 DEF Inserting, NoRedRed
<1>2. /\ z \in N /\ p \in N /\ g \in N /\ d \in Side /\ o \in Side /\ Other(o) = d
      /\ z # p /\ z # g /\ p # g /\ z # t.root /\ p # t.root
      /\ t.parent[z] = p /\ t.parent[p] = g /\ t.kid[g][d] = p
      /\ t.color[p] = "red" /\ t.color[g] = "black" /\ t.color[z] = "red"
      /\ Side = {d, o}
  BY TwoSides, Sides DEF Elders
<1>3. Turn(t, N, g, p, b, q, c, o)
  BY <1>2, SideOfType, SMTT(30) DEF Turn
<1>4. b # z /\ b \in N \cup {NIL} /\ b # p /\ b # g
  BY <1>1, <1>2, <1>3, Kids, TurnFacts
<1>5. t.color[b] = "black"
  <2>1. t.color[b] # "red"
    BY <1>1, <1>2, <1>4
  <2> QED BY <2>1, <1>1, <1>4 DEF TreeRec
<1>6. /\ u \in TreeRec /\ Turned(t, u, g, p, b, q, c, o) /\ u.color = w.color
      /\ Shape(u, N, r) /\ Kept(t, u, N) /\ TurnedKids(t, N, u, g, p, b, q, c, o)
  BY <1>1, <1>3, RotatePainted
<1> HIDE DEF u, r, q, c, b
<1>7. u.parent[z] = p
  BY <1>1, <1>2, <1>4, <1>6 DEF Turned
<1>8. u.color[p] = "black" /\ u.color[g] = "red" /\ \A n \in Ref : n # g /\ n # p => u.color[n] = t.color[n]
  BY <1>1, <1>2, <1>6
<1>9. Heights(u, N, f, NIL, "left")
  <2>1. NIL # p /\ ~(NIL = g /\ "left" = Other(o))
    BY <1>1, <1>2
  <2>2. /\ u.color[p] = t.color[g]
        /\ \A n \in N : n # g /\ n # p => u.color[n] = t.color[n]
    BY <1>1, <1>2, <1>8
  <2> QED BY <2>1, <2>2, <1>1, <1>2, <1>3, <1>6, <1>8, SwapHeights
<1>10. NoRedRed(u, N, z, NIL)
  <2>1. u.color[NIL] = "black"
    BY <1>1, <1>2, <1>8
  <2>2. u.color[u.root] = "red" => u.root = z
    <3>1. t.root \in Ref /\ (u.root = IF q = NIL THEN p ELSE t.root) /\ (q = NIL <=> g = t.root)
      <4>1. q = NIL <=> g = t.root
        BY <1>1, <1>3, TurnFacts
      <4> QED BY <4>1, <1>1, <1>6 DEF Turned, TreeRec
    <3> QED BY <3>1, <1>1, <1>2, <1>8
  <2>3. ASSUME NEW n \in N, NEW e \in Side, u.color[n] = "red", u.color[u.kid[n][e]] = "red"
        PROVE  u.kid[n][e] = z
    <3>1. n # p
      BY <2>3, <1>8
    <3>2. CASE n = g
      <4>1. u.kid[g][d] = b /\ u.kid[g][o] = t.kid[g][o]
        BY <1>2, <1>6 DEF TurnedKids
      <4>2. u.color[b] = "black" /\ u.color[t.kid[g][o]] = "black"
        <5>1. t.kid[g][o] \in N \cup {NIL} /\ t.kid[g][o] # g /\ t.kid[g][o] # p
          BY <1>2, <1>6, <1>1, Kids DEF TurnedKids
        <5> QED BY <5>1, <1>1, <1>4, <1>5, <1>8, SMTT(30)
      <4> QED BY <2>3, <3>2, <4>1, <4>2, <1>2
    <3>3. CASE n = q /\ e = c
      <4>1. u.kid[n][e] = p
        BY <3>3, <1>1, <1>6 DEF TurnedKids
      <4> QED BY <2>3, <4>1, <1>8
    <3>4. CASE n # g /\ ~(n = q /\ e = c)
      <4>1. u.kid[n][e] = t.kid[n][e] /\ t.kid[n][e] \notin {g, p}
        BY <3>1, <3>4, <1>6 DEF TurnedKids
      <4>2. t.kid[n][e] \in N \cup {NIL}
        BY <1>1 DEF Shape
      <4>3. t.color[n] = "red" /\ t.color[t.kid[n][e]] = "red"
        BY <2>3, <3>1, <3>4, <4>1, <4>2, <1>1, <1>8
      <4> QED BY <4>1, <4>3, <1>1
    <3> QED BY <3>2, <3>3, <3>4
  <2> QED BY <2>1, <2>2, <2>3 DEF NoRedRed
<1>11. u.color[z] = "red"
  BY <1>1, <1>2, <1>8
<1>12. Inserting(u, N, r, f, z)
  BY <1>2, <1>6, <1>9, <1>10, <1>11 DEF Inserting
<1>13. /\ (\E i, j : Inserting(u, N, i, j, z)) /\ Kept(t, u, N)
       /\ u.parent[z] = p /\ u.color[p] = "black"
  BY <1>6, <1>7, <1>8, <1>12
<1> QED BY <1>13 DEF u, InsertingSome, OuterTo

\* Case 2.
LEMMA InnerTurned ==
    ASSUME NEW t, NEW N, NEW s, NEW h, NEW z, NEW p, NEW g, NEW d,
           Inserting(t, N, s, h, z), Elders(t, N, z, p, g, d),
           z = t.kid[p][Other(d)]
    PROVE  LET u == Rotate(t, p, d)
           IN  /\ InsertingSome(u, N, p) /\ Kept(t, u, N)
               /\ Elders(u, N, p, z, g, d) /\ p = u.kid[z][d]
               /\ u.color = t.color /\ u.kid[g][Other(d)] = t.kid[g][Other(d)]
<1> DEFINE o == Other(d)
           b == t.kid[z][d]
           c == SideOf(t, p)
           u == Rotate(t, p, d)
           r == TurnedSets(t, N, s, p, z, b, d)
           f == SwappedHeights(h, p, z, N)
<1>1. /\ t \in TreeRec /\ Shape(t, N, s) /\ NIL \notin N /\ NIL \in Ref /\ N \subseteq Ref
      /\ Heights(t, N, h, NIL, "left")
      /\ t.color[NIL] = "black" /\ (t.color[t.root] = "red" => t.root = z)
      /\ \A n \in N, e \in Side :
            t.color[n] = "red" /\ t.color[t.kid[n][e]] = "red" => t.kid[n][e] = z
  <2>1. Shape(t, N, s) /\ NoRedRed(t, N, z, NIL)
    BY DEF Inserting
  <2>2. NIL \notin N /\ NIL \in Ref /\ N \subseteq Ref
    BY <2>1, RefFacts DEF Shape
  <2> QED BY <2>1, <2>2 DEF Inserting, NoRedRed
<1>2. /\ z \in N /\ p \in N /\ g \in N /\ d \in Side /\ o \in Side /\ Other(o) = d /\ o # d
      /\ z # p /\ z # g /\ p # g /\ z # t.root /\ p # t.root
      /\ t.parent[z] = p /\ t.parent[p] = g /\ t.kid[g][d] = p
      /\ t.color[p] = "red" /\ t.color[g] = "black" /\ t.color[z] = "red"
      /\ Side = {d, o} /\ c = d
  BY TwoSides, Sides DEF Elders
<1>3. Turn(t, N, p, z, b, g, c, d)
  BY <1>2, SideOfType DEF Turn
<1>4. b \in N \cup {NIL} /\ b # p /\ b # z
  BY <1>1, <1>3, TurnFacts
<1>5. SameLinks(t, t)
  BY <1>1 DEF SameLinks
<1>6. /\ u \in TreeRec /\ Turned(t, u, p, z, b, g, c, d) /\ u.color = t.color
      /\ Shape(u, N, r) /\ Kept(t, u, N) /\ TurnedKids(t, N, u, p, z, b, g, c, d)
  BY <1>1, <1>3, <1>5, RotatePainted, SMTT(30)
<1> HIDE DEF u, r, b, c
<1>7. u.parent[p] = z /\ u.parent[z] = g /\ u.kid[z][d] = p /\ u.kid[g][d] = z
  BY <1>1, <1>2, <1>4, <1>6 DEF Turned, TurnedKids
<1>8. u.kid[g][o] = t.kid[g][o]
  BY <1>2, <1>6 DEF TurnedKids
<1>9. Heights(u, N, f, NIL, "left")
  <2>1. NIL # z /\ ~(NIL = p /\ "left" = Other(d))
    BY <1>1, <1>2
  <2>2. /\ u.color[z] = t.color[p] /\ u.color[p] = "red"
        /\ \A n \in N : n # p /\ n # z => u.color[n] = t.color[n]
    BY <1>1, <1>2, <1>6
  <2> QED BY <2>1, <2>2, <1>1, <1>2, <1>3, <1>6, SwapHeights
<1>10. NoRedRed(u, N, p, NIL)
  <2>1. u.color[NIL] = "black"
    BY <1>1, <1>6
  <2>2. u.color[u.root] = "red" => u.root = p
    <3>1. u.root = t.root
      BY <1>1, <1>2, <1>6 DEF Turned
    <3> QED BY <3>1, <1>1, <1>2, <1>6
  <2>3. ASSUME NEW n \in N, NEW e \in Side, u.color[n] = "red", u.color[u.kid[n][e]] = "red"
        PROVE  u.kid[n][e] = p
    <3>1. CASE n = p
      <4>1. u.kid[p][o] = b /\ u.kid[p][d] = t.kid[p][d] /\ t.kid[p][d] # z
        BY <1>6 DEF TurnedKids
      <4>2. t.color[t.kid[p][d]] # "red"
        BY <4>1, <1>1, <1>2
      <4>3. t.color[b] # "red"
        BY <1>1, <1>2, <1>4, SMTT(30) DEF b
      <4> QED BY <2>3, <3>1, <4>1, <4>2, <4>3, <1>2, <1>6
    <3>2. CASE n = z
      <4>1. u.kid[z][d] = p /\ u.kid[z][o] = t.kid[z][o] /\ t.kid[z][o] # z
        BY <1>6 DEF TurnedKids
      <4>2. t.color[t.kid[z][o]] # "red"
        BY <4>1, <1>1, <1>2
      <4> QED BY <2>3, <3>2, <4>1, <4>2, <1>2, <1>6
    <3>3. CASE n = g
      BY <2>3, <3>3, <1>2, <1>6
    <3>4. CASE n \notin {p, z, g}
      <4>1. u.kid[n][e] = t.kid[n][e] /\ t.kid[n][e] \notin {p, z}
        BY <3>4, <1>6 DEF TurnedKids
      <4> QED BY <2>3, <4>1, <1>1, <1>6
    <3> QED BY <3>1, <3>2, <3>3, <3>4
  <2> QED BY <2>1, <2>2, <2>3 DEF NoRedRed
<1>11. Inserting(u, N, r, f, p)
  BY <1>2, <1>6, <1>9, <1>10 DEF Inserting
<1>12. SideOf(u, z) = d
  BY <1>2, <1>6, <1>7, <1>1, SideOfKid
<1>13. u.root = t.root
  BY <1>1, <1>2, <1>6 DEF Turned
<1>14. Elders(u, N, p, z, g, d)
  BY <1>2, <1>6, <1>7, <1>12, <1>13 DEF Elders
<1>15. /\ (\E i, j : Inserting(u, N, i, j, p)) /\ Kept(t, u, N)
       /\ Elders(u, N, p, z, g, d) /\ p = u.kid[z][d]
       /\ u.color = t.color /\ u.kid[g][o] = t.kid[g][o]
  BY <1>6, <1>7, <1>8, <1>11, <1>14
<1> QED BY <1>15 DEF u, o, InsertingSome
-----------------------------------------------------------------------------
(* delete_fixup                                                            *)

\* One black is missing below p on side d, where x is, which is black.
Deleting(t, N, s, h, x, p, d) ==
    /\ t \in TreeRec /\ Shape(t, N, s) /\ Heights(t, N, h, p, d)
    /\ NoRedRed(t, N, NIL, NIL) /\ p \in N /\ d \in Side
    /\ t.kid[p][d] = x /\ t.parent[x] = p /\ t.color[x] = "black"

DeletingSome(t, N, x, p, d) == \E s, h : Deleting(t, N, s, h, x, p, d)

Balanced(t, N, s, h) ==
    /\ t \in TreeRec /\ Shape(t, N, s) /\ Heights(t, N, h, NIL, "left")
    /\ NoRedRed(t, N, NIL, NIL)

BalancedSome(t, N) == \E s, h : Balanced(t, N, s, h)

\* x has a sibling w.
Siblings(t, N, x, w, p, d) ==
    /\ d \in Side /\ p \in N /\ w \in N /\ x \in N \cup {NIL} /\ Other(d) \in Side
    /\ Side = {d, Other(d)} /\ Other(Other(d)) = d /\ d # Other(d)
    /\ x # w /\ x # p /\ w # p /\ x # t.root /\ w # t.root
    /\ t.kid[p][d] = x /\ t.kid[p][Other(d)] = w
    /\ t.parent[x] = p /\ t.parent[w] = p
    /\ SideOf(t, x) = d /\ SideOf(t, w) = Other(d)
    /\ t.color[x] = "black"

\* What the lemmas below use of the tree.
DeletingFacts(t, N, s, h, p, d) ==
    /\ t \in TreeRec /\ Shape(t, N, s) /\ Heights(t, N, h, p, d)
    /\ NIL \notin N /\ NIL \in Ref /\ N \subseteq Ref
    /\ t.root \in N /\ t.color[NIL] = "black" /\ t.color[t.root] = "black"
    /\ \A n \in N : t.color[n] \in {"red", "black"}
    /\ \A n \in N, e \in Side : t.kid[n][e] \in N \cup {NIL}
    /\ \A n \in N, e \in Side :
          t.color[n] = "red" => t.color[t.kid[n][e]] = "black"

\* The facts about a short subtree that the cases of delete_fixup share.
LEMMA DeletingTree ==
    ASSUME NEW t, NEW N, NEW s, NEW h, NEW x, NEW p, NEW d, Deleting(t, N, s, h, x, p, d)
    PROVE  DeletingFacts(t, N, s, h, p, d)
<1>1. Shape(t, N, s) /\ t \in TreeRec /\ p \in N /\ NoRedRed(t, N, NIL, NIL)
  BY DEF Deleting
<1>2. NIL \notin N /\ NIL \in Ref /\ N \subseteq Ref
  BY <1>1, RefFacts DEF Shape
<1>3. t.root \in N
  BY <1>1, <1>2 DEF Shape
<1>4. \A n \in N, e \in Side : t.kid[n][e] \in N \cup {NIL}
  BY <1>1 DEF Shape
<1>5. \A n \in N \cup {NIL} : t.color[n] \in {"red", "black"}
  BY <1>1, <1>2 DEF TreeRec
<1>6. t.color[NIL] = "black" /\ t.color[t.root] = "black"
  BY <1>1, <1>2, <1>3, <1>5 DEF NoRedRed
<1>7. \A n \in N, e \in Side : t.color[n] = "red" => t.color[t.kid[n][e]] = "black"
  BY <1>1, <1>2, <1>4, <1>5, <1>6 DEF NoRedRed
<1> QED BY <1>1, <1>2, <1>3, <1>4, <1>5, <1>6, <1>7 DEF DeletingFacts, Deleting

\* A short subtree has a sibling that is not NIL: delete_fixup reads its children.
LEMMA SiblingThere ==
    ASSUME NEW t, NEW N, NEW s, NEW h, NEW x, NEW p, NEW d, Deleting(t, N, s, h, x, p, d)
    PROVE  Siblings(t, N, x, t.kid[p][Other(d)], p, d)
<1> DEFINE w == t.kid[p][Other(d)]
<1>1. DeletingFacts(t, N, s, h, p, d)
  BY DeletingTree
<1>2. /\ p \in N /\ d \in Side /\ Other(d) \in Side /\ d # Other(d) /\ Other(Other(d)) = d
      /\ t.kid[p][d] = x /\ t.parent[x] = p /\ t.color[x] = "black" /\ Side = {d, Other(d)}
  BY Sides, TwoSides DEF Deleting
<1>3. w \in N
  <2>1. /\ h[p] = h[x] + Black(t, p) + 1
        /\ h[p] = h[w] + Black(t, p) + 0
    <3>1. Gap(p, d, p, d) = 1 /\ Gap(p, Other(d), p, d) = 0
      BY <1>2 DEF Gap
    <3> QED BY <1>1, <1>2, <3>1 DEF DeletingFacts, Heights
  <2>2. h[x] \in Nat /\ h[w] \in Nat /\ Black(t, p) \in {0, 1} /\ h[NIL] = 0
    BY <1>1, <1>2 DEF DeletingFacts, Heights, Black
  <2>3. h[w] # 0
    BY <2>1, <2>2
  <2>4. w \in N \cup {NIL}
    BY <1>1, <1>2 DEF DeletingFacts
  <2> QED BY <2>2, <2>3, <2>4
<1>4. NIL \notin N /\ Shape(t, N, s) /\ t.root \in N
  BY <1>1 DEF DeletingFacts
<1>5. w # NIL /\ t.parent[w] = p /\ w # x /\ w # p /\ w # t.root
  BY <1>2, <1>3, <1>4, Kids
<1>6. x \in N \cup {NIL} /\ x # p /\ x # t.root
  <2>1. x \in N \cup {NIL} /\ x # p /\ (x # NIL => x # t.root)
    BY <1>2, <1>4, Kids
  <2> QED BY <2>1, <1>4
<1> HIDE DEF w
<1>7. SideOf(t, x) = d
  BY <1>2, <1>4, <1>5, SideOfKid DEF w
<1>8. SideOf(t, w) = Other(d)
  BY <1>2, <1>4, <1>5, SideOfKid DEF w
<1>9. Siblings(t, N, x, w, p, d)
  BY <1>2, <1>3, <1>5, <1>6, <1>7, <1>8 DEF Siblings, w
<1> QED BY <1>9 DEF w

\* Case 1.
SiblingFrom(t, N, s, h, x, p, d, w, v) ==
    /\ Deleting(t, N, s, h, x, p, d) /\ w = t.kid[p][Other(d)] /\ t.color[w] = "red"
    /\ Painted2(t, v, w, "black", p, "red")
SiblingTo(t, N, u, x, p, d) ==
    /\ DeletingSome(u, N, x, p, d) /\ Kept(t, u, N)
    /\ u.color[p] = "red" /\ u.color[u.kid[p][Other(d)]] = "black"

\* Case 1: a red sibling is rotated away, and the subtree is short as before.
LEMMA SiblingTurned ==
    ASSUME NEW t, NEW N, NEW s, NEW h, NEW x, NEW p, NEW d, NEW w, NEW v,
           SiblingFrom(t, N, s, h, x, p, d, w, v)
    PROVE  SiblingTo(t, N, Rotate(v, p, d), x, p, d)
<1>0. /\ SameLinks(t, v)
      /\ \A n \in Ref : v.color[n] = IF n = p THEN "red" ELSE
                                     IF n = w THEN "black" ELSE t.color[n]
      /\ Deleting(t, N, s, h, x, p, d) /\ w = t.kid[p][Other(d)] /\ t.color[w] = "red"
  BY DEF SiblingFrom, Painted2
<1> USE <1>0
<1> DEFINE o == Other(d)
           b == t.kid[w][d]
           q == t.parent[p]
           c == SideOf(t, p)
           u == Rotate(v, p, d)
           r == TurnedSets(t, N, s, p, w, b, d)
           f == SwappedHeights(h, p, w, N)
<1>1. DeletingFacts(t, N, s, h, p, d)
  BY DeletingTree
<1>2. Siblings(t, N, x, w, p, d)
  BY SiblingThere
<1>3. /\ t \in TreeRec /\ Shape(t, N, s) /\ NIL \notin N /\ NIL \in Ref /\ N \subseteq Ref
      /\ p \in N /\ w \in N /\ d \in Side /\ o \in Side /\ d # o /\ x \in N \cup {NIL}
      /\ x # w /\ x # p /\ w # p /\ w # t.root /\ Side = {d, o} /\ t.color[x] = "black"
      /\ t.parent[x] = p /\ t.kid[p][d] = x /\ t.kid[p][o] = w /\ t.parent[w] = p
  BY <1>1, <1>2 DEF DeletingFacts, Siblings
<1>4. Turn(t, N, p, w, b, q, c, d)
  BY <1>3, SideOfType DEF Turn
<1>5. b \in N \cup {NIL} /\ b # p /\ b # w /\ t.color[b] = "black" /\ t.color[p] = "black"
  <2>1. b \in N \cup {NIL} /\ b # p /\ b # w
    BY <1>3, <1>4, TurnFacts, SMTT(30)
  <2> QED BY <2>1, <1>1, <1>3 DEF DeletingFacts
<1>6. x = b => x = NIL
  <2>1. b # NIL => t.parent[b] = w
    BY <1>3, <1>4, TurnFacts
  <2> QED BY <2>1, <1>3
<1>7. /\ u \in TreeRec /\ Turned(t, u, p, w, b, q, c, d) /\ u.color = v.color
      /\ Shape(u, N, r) /\ Kept(t, u, N) /\ TurnedKids(t, N, u, p, w, b, q, c, d)
  BY <1>3, <1>4, RotatePainted
<1> HIDE DEF u, r, q, c, b
<1>8. u.parent[x] = p /\ u.kid[p][d] = x /\ u.kid[p][o] = b
  BY <1>3, <1>6, <1>7 DEF Turned, TurnedKids
<1>9. u.color[w] = "black" /\ u.color[p] = "red" /\ \A n \in Ref : n # p /\ n # w => u.color[n] = t.color[n]
  BY <1>3, <1>7
<1>10. Heights(u, N, f, p, d)
  <2>1. p # w /\ ~(p = p /\ d = Other(d))
    BY <1>3
  <2>2. /\ u.color[w] = t.color[p] /\ Heights(t, N, h, p, d)
        /\ \A n \in N : n # p /\ n # w => u.color[n] = t.color[n]
    BY <1>1, <1>3, <1>5, <1>9 DEF DeletingFacts
  <2> QED BY <2>1, <2>2, <1>3, <1>4, <1>7, <1>9, SwapHeights
<1>11. NoRedRed(u, N, NIL, NIL)
  <2>1. u.color[NIL] = "black"
    BY <1>1, <1>3, <1>9 DEF DeletingFacts
  <2>2. u.color[u.root] = "black"
    <3>1. t.root \in N /\ (u.root = IF q = NIL THEN w ELSE t.root) /\ (q = NIL <=> p = t.root)
      <4>1. q = NIL <=> p = t.root
        BY <1>3, <1>4, TurnFacts
      <4> QED BY <4>1, <1>1, <1>7 DEF Turned, DeletingFacts
    <3> QED BY <3>1, <1>1, <1>3, <1>9 DEF DeletingFacts
  <2>3. ASSUME NEW n \in N, NEW e \in Side, u.color[n] = "red", u.color[u.kid[n][e]] = "red"
        PROVE  FALSE
    <3>1. n # w
      BY <2>3, <1>9
    <3>2. CASE n = p
      <4>1. u.color[b] = "black" /\ u.color[x] = "black"
        BY <1>3, <1>5, <1>9
      <4> QED BY <2>3, <3>2, <4>1, <1>3, <1>8
    <3>3. CASE n = q /\ e = c
      <4>1. u.kid[n][e] = w
        BY <3>3, <1>3, <1>7 DEF TurnedKids
      <4> QED BY <2>3, <4>1, <1>9
    <3>4. CASE n # p /\ ~(n = q /\ e = c)
      <4>1. u.kid[n][e] = t.kid[n][e] /\ t.kid[n][e] \notin {p, w}
        BY <3>1, <3>4, <1>7 DEF TurnedKids
      <4>2. t.kid[n][e] \in N \cup {NIL}
        BY <1>1 DEF DeletingFacts
      <4>3. t.color[n] = "red" /\ t.color[t.kid[n][e]] = "red"
        BY <2>3, <3>1, <3>4, <4>1, <4>2, <1>3, <1>9
      <4> QED BY <4>3, <1>1 DEF DeletingFacts
    <3> QED BY <3>2, <3>3, <3>4
  <2> QED BY <2>1, <2>2, <2>3 DEF NoRedRed
<1>12. Deleting(u, N, r, f, x, p, d)
  <2>1. u.color[x] = "black"
    BY <1>3, <1>9
  <2> QED BY <2>1, <1>3, <1>7, <1>8, <1>10, <1>11 DEF Deleting
<1>13. u.color[u.kid[p][o]] = "black"
  BY <1>3, <1>5, <1>8, <1>9
<1>14. /\ (\E i, j : Deleting(u, N, i, j, x, p, d)) /\ Kept(t, u, N)
       /\ u.color[p] = "red" /\ u.color[u.kid[p][o]] = "black"
  BY <1>7, <1>9, <1>12, <1>13
<1> QED BY <1>14 DEF u, o, DeletingSome, SiblingTo
LoweredHeights(h, a, b, N) ==
    [n \in N \cup {NIL} |-> IF n = a \/ n = b THEN h[n] - 1 ELSE h[n]]

\* The black is missing one level up, or at the root, where it is not missed.
Climbed(u, N, f, p) ==
    /\ NoRedRed(u, N, p, p)
    /\ p = u.root => Heights(u, N, f, NIL, "left")
    /\ p # u.root => /\ u.parent[p] \in N /\ u.kid[u.parent[p]][SideOf(u, p)] = p
                     /\ Heights(u, N, f, u.parent[p], SideOf(u, p))

\* Case 2.
MovedFrom(t, N, s, h, x, p, d, w, u) ==
    /\ Deleting(t, N, s, h, x, p, d) /\ w = t.kid[p][Other(d)] /\ t.color[w] = "black"
    /\ \A e \in Side : t.color[t.kid[w][e]] = "black"
    /\ PaintIs(u, t, w, "red")

\* Case 2: the sibling turns red, and the subtree of the parent is short.
LEMMA MovedUp ==
    ASSUME NEW t, NEW N, NEW s, NEW h, NEW x, NEW p, NEW d, NEW w, NEW u,
           MovedFrom(t, N, s, h, x, p, d, w, u)
    PROVE  Climbed(u, N, LoweredHeights(h, p, w, N), p)
<1>0. /\ SameLinks(t, u)
      /\ \A n \in Ref : u.color[n] = IF n = w THEN "red" ELSE t.color[n]
      /\ Deleting(t, N, s, h, x, p, d) /\ w = t.kid[p][Other(d)] /\ t.color[w] = "black"
      /\ \A e \in Side : t.color[t.kid[w][e]] = "black"
  BY DEF MovedFrom, PaintIs, SameLinks
<1> USE <1>0
<1> DEFINE o == Other(d)
           f == LoweredHeights(h, p, w, N)
           q == t.parent[p]
           c == SideOf(t, p)
<1>1. DeletingFacts(t, N, s, h, p, d)
  BY DeletingTree
<1>2. Siblings(t, N, x, w, p, d)
  BY SiblingThere
<1>3. /\ t \in TreeRec /\ Shape(t, N, s) /\ NIL \notin N /\ NIL \in Ref /\ N \subseteq Ref
      /\ p \in N /\ w \in N /\ d \in Side /\ o \in Side /\ d # o /\ x \in N \cup {NIL}
      /\ x # w /\ x # p /\ w # p /\ w # t.root /\ Side = {d, o} /\ t.color[x] = "black"
      /\ t.parent[x] = p /\ t.kid[p][d] = x /\ t.kid[p][o] = w /\ t.parent[w] = p
  BY <1>1, <1>2 DEF DeletingFacts, Siblings
<1>4. u.root = t.root /\ u.kid = t.kid /\ u.parent = t.parent /\ SideOf(u, p) = c /\ c \in Side
  BY SideOfType DEF SameLinks, SideOf
<1>5. \A n \in N, e \in Side :
         /\ t.kid[n][e] \in N \cup {NIL}
         /\ t.kid[n][e] = w => n = p /\ e = o
         /\ t.kid[n][e] = p => n = q
  <2>1. \A n \in N, e \in Side : t.kid[n][e] \in N \cup {NIL}
             /\ (t.kid[n][e] # NIL => t.parent[t.kid[n][e]] = n)
    BY <1>3 DEF Shape
  <2> QED BY <2>1, <1>3
<1>6. /\ h \in [N \cup {NIL} -> Nat] /\ h[NIL] = 0
      /\ h[p] = h[x] + Black(t, p) + 1
      /\ h[p] = h[w] + Black(t, p)
      /\ h[w] = h[x] + 1 /\ h[x] \in Nat /\ Black(t, p) \in {0, 1}
      /\ \A n \in N, e \in Side : n # p => h[n] = h[t.kid[n][e]] + Black(t, n)
  <2>1. /\ h \in [N \cup {NIL} -> Nat] /\ h[NIL] = 0
        /\ \A n \in N, e \in Side : h[n] = h[t.kid[n][e]] + Black(t, n) + Gap(n, e, p, d)
    BY <1>1 DEF DeletingFacts, Heights
  <2>2. /\ Gap(p, d, p, d) = 1 /\ Gap(p, o, p, d) = 0
        /\ \A n \in N, e \in Side : n # p => Gap(n, e, p, d) = 0
    BY <1>3 DEF Gap
  <2>3. \A n \in N : Black(t, n) \in {0, 1}
    BY DEF Black
  <2>4. \A n \in N, e \in Side : h[t.kid[n][e]] \in Nat
    BY <2>1, <1>5
  <2>5. h[p] = h[x] + Black(t, p) + 1 /\ h[p] = h[w] + Black(t, p) + 0
    BY <2>1, <2>2, <1>3
  <2>6. h[x] \in Nat /\ h[w] \in Nat /\ Black(t, p) \in {0, 1}
    BY <2>1, <2>3, <1>3
  <2>7. h[p] = h[w] + Black(t, p) /\ h[w] = h[x] + 1
    BY <2>5, <2>6
  <2>8. \A n \in N, e \in Side : n # p => h[n] = h[t.kid[n][e]] + Black(t, n)
    BY <2>1, <2>2, <2>3, <2>4, SMTT(30)
  <2> QED BY <2>1, <2>5, <2>6, <2>7, <2>8
<1>7. /\ f \in [N \cup {NIL} -> Nat] /\ f[NIL] = 0
      /\ f[p] = h[x] + Black(t, p) /\ f[w] = h[x] /\ f[x] = h[x]
      /\ \A n \in N \cup {NIL} : n # p /\ n # w => f[n] = h[n]
  <2>1. h[p] - 1 \in Nat /\ h[w] - 1 \in Nat /\ h[p] - 1 = h[x] + Black(t, p)
        /\ h[w] - 1 = h[x]
    BY <1>6
  <2> QED BY <2>1, <1>3, <1>6 DEF LoweredHeights
<1> HIDE DEF f, c
<1>8. ASSUME NEW n \in N, NEW e \in Side, n # p
      PROVE  /\ t.kid[n][e] # p => f[n] = f[t.kid[n][e]] + Black(u, n)
             /\ t.kid[n][e] = p => f[n] = f[t.kid[n][e]] + Black(u, n) + 1
  <2>1. h[n] = h[t.kid[n][e]] + Black(t, n) /\ h[t.kid[n][e]] \in Nat /\ h[n] \in Nat
    BY <1>5, <1>6, <1>8
  <2>2. t.kid[n][e] # w
    BY <1>5, <1>8
  <2>3. CASE n = w
    <3>1. Black(t, n) = 1 /\ Black(u, n) = 0
      BY <2>3, <1>3 DEF Black
    <3>2. t.kid[n][e] # p
      <4>1. p \notin s[w]
        BY <1>3, Kids
      <4>2. t.kid[n][e] # NIL => t.kid[n][e] \in s[t.kid[n][e]] /\ t.kid[n][e] \in N
        BY <1>3, Kids, SMTT(30)
      <4>3. t.kid[n][e] # NIL => t.kid[n][e] \in s[w]
        BY <2>3, <1>3, <4>2 DEF Shape
      <4> QED BY <4>1, <4>3, <1>3
    <3>3. f[t.kid[n][e]] = h[t.kid[n][e]]
      BY <2>2, <3>2, <1>5, <1>7
    <3>4. f[n] = h[n] - 1
      BY <2>3, <1>6, <1>7
    <3> QED BY <2>1, <3>1, <3>2, <3>3, <3>4
  <2>4. CASE n # w
    <3>1. Black(t, n) = Black(u, n) /\ Black(u, n) \in {0, 1}
      BY <2>4, <1>3 DEF Black
    <3>2. f[n] = h[n]
      BY <2>4, <1>7, <1>8
    <3>3. t.kid[n][e] # p => f[t.kid[n][e]] = h[t.kid[n][e]]
      BY <2>2, <1>5, <1>7
    <3>4. h[p] = f[p] + 1 /\ f[p] \in Nat
      BY <1>6, <1>7, SMTT(30)
    <3> QED BY <2>1, <3>1, <3>2, <3>3, <3>4
  <2> QED BY <2>3, <2>4
<1>9. ASSUME NEW e \in Side PROVE f[p] = f[t.kid[p][e]] + Black(u, p)
  <2>1. Black(u, p) = Black(t, p)
    BY <1>3, SMTT(30) DEF Black
  <2> QED BY <2>1, <1>3, <1>6, <1>7
<1>10. p \in N \cup {NIL} /\ \A n \in N, e \in Side : f[t.kid[n][e]] \in Nat /\ Black(u, n) \in {0, 1} /\ f[n] \in Nat
  BY <1>3, <1>5, <1>7 DEF Black
<1>11. ASSUME p = t.root PROVE Heights(u, N, f, NIL, "left")
  <2>1. ASSUME NEW n \in N, NEW e \in Side
        PROVE  f[n] = f[u.kid[n][e]] + Black(u, n) + Gap(n, e, NIL, "left")
    <3>1. Gap(n, e, NIL, "left") = 0
      BY <1>3, SMTT(30) DEF Gap
    <3>2. t.kid[n][e] # p
      BY <1>3, <1>11, Kids
    <3>3. f[n] = f[t.kid[n][e]] + Black(u, n)
      BY <3>2, <1>8, <1>9
    <3> QED BY <3>1, <3>3, <1>4, <1>10
  <2> QED BY <2>1, <1>7 DEF Heights
<1>12. ASSUME p # t.root
       PROVE  q \in N /\ t.kid[q][c] = p /\ Heights(u, N, f, q, c)
  <2>1. q \in N /\ q # p /\ \E e \in Side : t.kid[q][e] = p
    BY <1>3, <1>12, Parents
  <2>2. PICK g \in Side : t.kid[q][g] = p
    BY <2>1
  <2>3. g = c
    BY <2>1, <2>2, <1>3, SideOfKid DEF c
  <2>4. ASSUME NEW n \in N, NEW e \in Side
        PROVE  f[n] = f[u.kid[n][e]] + Black(u, n) + Gap(n, e, q, c)
    <3>1. CASE t.kid[n][e] = p
      <4>1. n = q
        BY <3>1, <1>5, SMTT(30)
      <4>2. e = c
        <5>1. SUFFICES ASSUME e # c PROVE FALSE
          OBVIOUS
        <5>2. e = Other(c)
          BY <5>1, <1>4, TwoSides
        <5> QED BY <3>1, <4>1, <5>2, <2>1, <2>2, <2>3, <1>3, <1>4, Kids
      <4>3. Gap(n, e, q, c) = 1
        BY <4>1, <4>2 DEF Gap
      <4> QED BY <3>1, <4>1, <4>3, <2>1, <1>4, <1>8
    <3>2. CASE t.kid[n][e] # p
      <4>1. Gap(n, e, q, c) = 0
        BY <3>2, <2>2, <2>3 DEF Gap
      <4>2. f[n] = f[t.kid[n][e]] + Black(u, n)
        BY <3>2, <1>8, <1>9
      <4> QED BY <4>1, <4>2, <1>4, <1>10
    <3> QED BY <3>1, <3>2
  <2> QED BY <2>1, <2>2, <2>3, <2>4, <1>7 DEF Heights
<1>13. NoRedRed(u, N, p, p)
  <2>1. u.color[NIL] = "black" /\ u.color[u.root] = "black"
    BY <1>1, <1>3, <1>4 DEF DeletingFacts
  <2>2. ASSUME NEW n \in N, NEW e \in Side, u.color[n] = "red", u.color[u.kid[n][e]] = "red"
        PROVE  n = p
    <3>1. SUFFICES ASSUME n # p PROVE FALSE
      OBVIOUS
    <3>2. u.kid[n][e] = t.kid[n][e] /\ t.kid[n][e] \in Ref /\ t.kid[n][e] # w
      BY <3>1, <1>3, <1>4, <1>5
    <3>3. t.color[t.kid[n][e]] = "red"
      BY <2>2, <3>2
    <3>4. n # w
      BY <3>3
    <3>5. t.color[n] = "red"
      BY <2>2, <3>4, <1>3
    <3> QED BY <3>3, <3>5, <1>1 DEF DeletingFacts
  <2> QED BY <2>1, <2>2 DEF NoRedRed
<1>14. Climbed(u, N, f, p)
  BY <1>4, <1>11, <1>12, <1>13 DEF Climbed
<1> QED BY <1>14 DEF f
\* Case 3.
NephewFrom(t, N, s, h, x, p, d, w, y, v) ==
    /\ Deleting(t, N, s, h, x, p, d) /\ w = t.kid[p][Other(d)] /\ t.color[w] = "black"
    /\ y = t.kid[w][d] /\ t.color[y] = "red" /\ t.color[t.kid[w][Other(d)]] = "black"
    /\ Painted2(t, v, y, "black", w, "red")
NephewTo(t, N, u, x, p, d, y) ==
    /\ DeletingSome(u, N, x, p, d) /\ Kept(t, u, N)
    /\ u.kid[p][Other(d)] = y /\ u.color[y] = "black"
    /\ u.color[u.kid[y][Other(d)]] = "red"

\* Case 3: a red nephew is on the far side, and the subtree is short as before.
LEMMA NephewTurned ==
    ASSUME NEW t, NEW N, NEW s, NEW h, NEW x, NEW p, NEW d, NEW w, NEW y, NEW v,
           NephewFrom(t, N, s, h, x, p, d, w, y, v)
    PROVE  NephewTo(t, N, Rotate(v, w, Other(d)), x, p, d, y)
<1>00. /\ Deleting(t, N, s, h, x, p, d) /\ w = t.kid[p][Other(d)] /\ t.color[w] = "black"
       /\ y = t.kid[w][d] /\ t.color[y] = "red" /\ t.color[t.kid[w][Other(d)]] = "black"
  BY DEF NephewFrom
<1>0. /\ SameLinks(t, v)
      /\ \A n \in Ref : v.color[n] = IF n = w THEN "red" ELSE
                                     IF n = y THEN "black" ELSE t.color[n]
  BY DEF NephewFrom, Painted2
<1> DEFINE o == Other(d)
           b == t.kid[y][o]
           u == Rotate(v, w, o)
           r == TurnedSets(t, N, s, w, y, b, o)
           f == SwappedHeights(h, w, y, N)
<1>1. DeletingFacts(t, N, s, h, p, d)
  BY <1>00, DeletingTree
<1>2. Siblings(t, N, x, w, p, d)
  BY <1>00, SiblingThere, SMTT(30)
<1>3. /\ t \in TreeRec /\ Shape(t, N, s) /\ NIL \notin N /\ NIL \in Ref /\ N \subseteq Ref
      /\ p \in N /\ w \in N /\ d \in Side /\ o \in Side /\ d # o /\ x \in N \cup {NIL}
      /\ x # w /\ x # p /\ w # p /\ w # t.root /\ Side = {d, o} /\ t.color[x] = "black"
      /\ t.parent[x] = p /\ t.kid[p][d] = x /\ t.kid[p][o] = w /\ t.parent[w] = p
      /\ Other(o) = d /\ SideOf(t, w) = o
  BY <1>00, <1>1, <1>2, SMTT(30) DEF DeletingFacts, Siblings
<1>4. y \in N
  BY <1>00, <1>1, <1>3, SMTT(30) DEF DeletingFacts
<1>5. Turn(t, N, w, y, b, p, o, o)
  BY <1>00, <1>3, <1>4 DEF Turn
<1> HIDE DEF o, b
<1>6. /\ b \in N \cup {NIL} /\ b # w /\ b # y /\ y # w /\ p # y /\ t.parent[y] = w
      /\ (b # NIL => t.parent[b] = y)
  BY <1>3, <1>5, TurnFacts
<1>7. t.color[b] = "black" /\ x # y /\ (x = b => x = NIL) /\ y # t.root
  <2>1. t.color[b] = "black"
    BY <1>00, <1>1, <1>3, <1>4, Zenon DEF DeletingFacts, b
  <2>2. y # t.root
    BY <1>00, <1>1 DEF DeletingFacts
  <2> QED BY <2>1, <2>2, <1>3, <1>6
<1>8. /\ u \in TreeRec /\ Turned(t, u, w, y, b, p, o, o) /\ u.color = v.color
      /\ Shape(u, N, r) /\ Kept(t, u, N) /\ TurnedKids(t, N, u, w, y, b, p, o, o)
  BY <1>0, <1>3, <1>5, RotatePainted
<1> HIDE DEF u, r
<1>9. u.parent[x] = p
  BY <1>3, <1>7, <1>8 DEF Turned
<1>10. u.kid[p][d] = x /\ u.kid[p][o] = y /\ u.kid[y][o] = w
  BY <1>3, <1>6, <1>8 DEF TurnedKids
<1>11. u.color[y] = "black" /\ u.color[w] = "red" /\ \A n \in Ref : n # w /\ n # y => u.color[n] = t.color[n]
  BY <1>0, <1>3, <1>4, <1>6, <1>8
<1>12. Heights(u, N, f, p, d)
  <2>1. p # y /\ ~(p = w /\ d = Other(o))
    BY <1>3, <1>6
  <2>2. /\ u.color[y] = t.color[w] /\ Heights(t, N, h, p, d)
        /\ \A n \in N : n # w /\ n # y => u.color[n] = t.color[n]
    BY <1>00, <1>1, <1>3, <1>11 DEF DeletingFacts
  <2> QED BY <1>00, <2>1, <2>2, <1>3, <1>5, <1>8, <1>11, SwapHeights, ZenonT(30)
<1>13. NoRedRed(u, N, NIL, NIL)
  <2>1. u.color[NIL] = "black"
    BY <1>1, <1>3, <1>4, <1>11 DEF DeletingFacts
  <2>2. u.color[u.root] = "black"
    <3>1. u.root = t.root /\ t.root \in N
      BY <1>1, <1>3, <1>8 DEF Turned, DeletingFacts
    <3> QED BY <3>1, <1>1, <1>3, <1>7, <1>11 DEF DeletingFacts
  <2>3. ASSUME NEW n \in N, NEW e \in Side, u.color[n] = "red", u.color[u.kid[n][e]] = "red"
        PROVE  FALSE
    <3>1. n # y
      BY <2>3, <1>11
    <3>2. CASE n = w
      <4>1. u.kid[w][d] = b /\ u.kid[w][o] = t.kid[w][o] /\ t.kid[w][o] \notin {w, y}
        BY <1>3, <1>8 DEF TurnedKids
      <4>2. t.kid[w][o] \in N \cup {NIL}
        BY <1>1, <1>3 DEF DeletingFacts
      <4>3. u.color[b] = "black" /\ u.color[t.kid[w][o]] = "black"
        BY <1>00, <4>1, <4>2, <1>3, <1>6, <1>7, <1>11, Zenon DEF o
      <4> QED BY <2>3, <3>2, <4>1, <4>3, <1>3
    <3>3. CASE n = p /\ e = o
      BY <2>3, <3>3, <1>10, <1>11
    <3>4. CASE n # w /\ ~(n = p /\ e = o)
      <4>1. u.kid[n][e] = t.kid[n][e] /\ t.kid[n][e] \notin {w, y}
        BY <3>1, <3>4, <1>8 DEF TurnedKids
      <4>2. t.kid[n][e] \in N \cup {NIL}
        BY <1>1 DEF DeletingFacts
      <4>3. t.color[n] = "red" /\ t.color[t.kid[n][e]] = "red"
        BY <2>3, <3>1, <3>4, <4>1, <4>2, <1>3, <1>11
      <4> QED BY <4>3, <1>1 DEF DeletingFacts
    <3> QED BY <3>2, <3>3, <3>4
  <2> QED BY <2>1, <2>2, <2>3 DEF NoRedRed
<1>14. Deleting(u, N, r, f, x, p, d)
  <2>1. u.color[x] = "black"
    BY <1>3, <1>7, <1>11
  <2> QED BY <2>1, <1>3, <1>8, <1>9, <1>10, <1>12, <1>13 DEF Deleting
<1>15. /\ (\E i, j : Deleting(u, N, i, j, x, p, d)) /\ Kept(t, u, N)
       /\ u.kid[p][o] = y /\ u.color[y] = "black"
       /\ u.color[u.kid[y][o]] = "red"
  BY <1>8, <1>10, <1>11, <1>14
<1> QED BY <1>15 DEF u, o, DeletingSome, NephewTo

FilledHeights(h, p, w, k, N) ==
    [n \in N \cup {NIL} |-> IF n = w THEN h[p] ELSE IF n = p THEN h[w]
                            ELSE IF n = k THEN h[k] + 1 ELSE h[n]]

\* Case 4.
ParentFrom(t, N, s, h, x, p, d, w, k, v) ==
    /\ Deleting(t, N, s, h, x, p, d) /\ w = t.kid[p][Other(d)] /\ t.color[w] = "black"
    /\ k = t.kid[w][Other(d)] /\ t.color[k] = "red"
    /\ Painted3(t, v, w, t.color[p], p, "black", k, "black")
ParentTo(t, N, u) ==
    u \in TreeRec /\ u.root \in N /\ Kept(t, u, N) /\ BalancedSome(u, N)

\* Case 4: the parent comes down, and no subtree is short any more.
LEMMA ParentTurned ==
    ASSUME NEW t, NEW N, NEW s, NEW h, NEW x, NEW p, NEW d, NEW w, NEW k, NEW v,
           ParentFrom(t, N, s, h, x, p, d, w, k, v)
    PROVE  ParentTo(t, N, Rotate(v, p, d))
<1>00. /\ Deleting(t, N, s, h, x, p, d) /\ w = t.kid[p][Other(d)] /\ t.color[w] = "black"
       /\ k = t.kid[w][Other(d)] /\ t.color[k] = "red"
  BY DEF ParentFrom
<1>0. /\ SameLinks(t, v)
      /\ \A n \in Ref : v.color[n] = IF n = k \/ n = p THEN "black" ELSE
                                     IF n = w THEN t.color[p] ELSE t.color[n]
  BY DEF ParentFrom, Painted3
<1> DEFINE o == Other(d)
           b == t.kid[w][d]
           q == t.parent[p]
           c == SideOf(t, p)
           u == Rotate(v, p, d)
           r == TurnedSets(t, N, s, p, w, b, d)
           f == FilledHeights(h, p, w, k, N)
<1>1. DeletingFacts(t, N, s, h, p, d)
  BY <1>00, DeletingTree
<1>2. Siblings(t, N, x, w, p, d)
  BY <1>00, SiblingThere, SMTT(30)
<1>3. /\ t \in TreeRec /\ Shape(t, N, s) /\ NIL \notin N /\ NIL \in Ref /\ N \subseteq Ref
      /\ p \in N /\ w \in N /\ d \in Side /\ o \in Side /\ d # o /\ x \in N \cup {NIL}
      /\ x # w /\ x # p /\ w # p /\ w # t.root /\ Side = {d, o} /\ t.color[x] = "black"
      /\ t.parent[x] = p /\ t.kid[p][d] = x /\ t.kid[p][o] = w /\ t.parent[w] = p
      /\ Other(o) = d
  BY <1>00, <1>1, <1>2, SMTT(30) DEF DeletingFacts, Siblings
<1>4. k \in N /\ t.parent[k] = w /\ k # w
  <2>1. k \in N
    BY <1>00, <1>1, <1>3 DEF DeletingFacts
  <2> QED BY <1>00, <2>1, <1>3, Kids, SMTT(30)
<1>5. Turn(t, N, p, w, b, q, c, d)
  BY <1>3, SideOfType DEF Turn
<1>6. /\ b \in N \cup {NIL} /\ b # p /\ b # w /\ (b # NIL => t.parent[b] = w)
      /\ (q = NIL <=> p = t.root) /\ (q # NIL => t.kid[q][c] = p) /\ q # p /\ q # w
  BY <1>3, <1>5, TurnFacts
<1>7. /\ u \in TreeRec /\ Turned(t, u, p, w, b, q, c, d) /\ u.color = v.color
      /\ Shape(u, N, r) /\ Kept(t, u, N) /\ TurnedKids(t, N, u, p, w, b, q, c, d)
  BY <1>0, <1>3, <1>5, RotatePainted
<1>8. k # p /\ k # x /\ (k = b => FALSE)
  <2>1. k \notin {p, w}
    BY <1>00, <1>7, Zenon DEF TurnedKids
  <2>2. t.kid[w][d] # NIL => t.kid[w][d] # t.kid[w][Other(d)]
    BY <1>3, Kids
  <2>3. b # NIL => b # k
    BY <1>00, <2>2
  <2> QED BY <2>1, <2>3, <1>3, <1>4, SMTT(30)
<1>81. q # k
  <2>1. SUFFICES ASSUME q = k PROVE FALSE
    OBVIOUS
  <2>2. p # t.root
    BY <2>1, <1>3, <1>4, <1>6
  <2>5. q \notin s[p]
    BY <2>2, <1>3, Parents
  <2>3. k \in s[k] /\ k \in s[w] /\ w \in s[w] /\ w \in s[p]
    BY <1>00, <1>3, <1>4, ZenonT(30) DEF Shape
  <2>4. s[w] \subseteq s[p]
    BY <2>3, <1>3, Below
  <2> QED BY <2>1, <2>3, <2>4, <2>5
<1> HIDE DEF u, r, q, c, b
<1>9. /\ u.kid[p][d] = x /\ u.kid[p][o] = b /\ u.kid[w][d] = p /\ u.kid[w][o] = k
      /\ (q # NIL => u.kid[q][c] = w)
      /\ \A n \in N, e \in Side : n \notin {p, w} /\ ~(n = q /\ e = c) =>
                u.kid[n][e] = t.kid[n][e] /\ t.kid[n][e] \notin {p, w}
  BY <1>00, <1>3, <1>7 DEF TurnedKids
<1>10. /\ u.color[k] = "black" /\ u.color[p] = "black" /\ u.color[w] = t.color[p]
       /\ \A n \in Ref : n \notin {p, w, k} => u.color[n] = t.color[n]
  BY <1>0, <1>3, <1>4, <1>7, <1>8
<1>11. \A n \in N, e \in Side :
          /\ t.kid[n][e] \in N \cup {NIL}
          /\ t.kid[n][e] = k => n = w
  <2>1. \A n \in N, e \in Side : t.kid[n][e] \in N \cup {NIL}
             /\ (t.kid[n][e] # NIL => t.parent[t.kid[n][e]] = n)
    BY <1>3 DEF Shape
  <2> QED BY <2>1, <1>3, <1>4
<1>12. /\ h \in [N \cup {NIL} -> Nat] /\ h[NIL] = 0
       /\ h[x] \in Nat /\ Black(t, p) \in {0, 1}
       /\ h[w] = h[x] + 1 /\ h[p] = h[w] + Black(t, p)
       /\ h[b] = h[x] /\ h[k] = h[x]
       /\ \A n \in N, e \in Side : n # p => h[n] = h[t.kid[n][e]] + Black(t, n)
  <2>1. /\ h \in [N \cup {NIL} -> Nat] /\ h[NIL] = 0
        /\ \A n \in N, e \in Side : h[n] = h[t.kid[n][e]] + Black(t, n) + Gap(n, e, p, d)
    BY <1>1 DEF DeletingFacts, Heights
  <2>2. /\ Gap(p, d, p, d) = 1 /\ Gap(p, o, p, d) = 0
        /\ \A n \in N, e \in Side : n # p => Gap(n, e, p, d) = 0
    BY <1>3 DEF Gap
  <2>3. \A n \in N : Black(t, n) \in {0, 1}
    BY DEF Black
  <2>4. \A n \in N, e \in Side : h[t.kid[n][e]] \in Nat
    BY <2>1, <1>11
  <2>5. h[p] = h[x] + Black(t, p) + 1 /\ h[p] = h[w] + Black(t, p) + 0
    BY <2>1, <2>2, <1>3
  <2>6. h[x] \in Nat /\ h[w] \in Nat /\ h[b] \in Nat /\ h[k] \in Nat /\ Black(t, p) \in {0, 1}
    BY <2>1, <2>3, <1>3, <1>4, <1>6
  <2>7. h[p] = h[w] + Black(t, p) /\ h[w] = h[x] + 1
    BY <2>5, <2>6
  <2>8. \A n \in N, e \in Side : n # p => h[n] = h[t.kid[n][e]] + Black(t, n)
    BY <2>1, <2>2, <2>3, <2>4
  <2>9. Black(t, w) = 1 /\ t.kid[w][d] = b
    BY <1>00, SMTT(30) DEF Black, b
  <2>10. h[w] = h[b] + 1 /\ h[w] = h[k] + 1
    BY <1>00, <2>8, <2>9, <1>3
  <2>11. h[b] = h[x] /\ h[k] = h[x]
    BY <2>6, <2>7, <2>10
  <2> QED BY <2>1, <2>6, <2>7, <2>8, <2>11
<1>13. /\ f \in [N \cup {NIL} -> Nat] /\ f[NIL] = 0
       /\ f[w] = h[p] /\ f[p] = h[w] /\ f[k] = h[k] + 1 /\ f[b] = h[b] /\ f[x] = h[x]
       /\ \A n \in N \cup {NIL} : n \notin {p, w, k} => f[n] = h[n]
  <2>1. h[p] \in Nat /\ h[w] \in Nat /\ h[k] + 1 \in Nat /\ NIL \notin {p, w, k}
    BY <1>3, <1>4, <1>12
  <2>2. f \in [N \cup {NIL} -> Nat] /\ f[NIL] = 0
    BY <2>1, <1>12 DEF FilledHeights
  <2>3. \A n \in N \cup {NIL} : n \notin {p, w, k} => f[n] = h[n]
    BY DEF FilledHeights
  <2>4. f[w] = h[p] /\ f[p] = h[w] /\ f[k] = h[k] + 1
    BY <1>3, <1>4, <1>8 DEF FilledHeights
  <2> HIDE DEF f
  <2>5. f[b] = h[b] /\ f[x] = h[x]
    BY <2>3, <1>3, <1>6, <1>8
  <2> QED BY <2>2, <2>3, <2>4, <2>5
<1> HIDE DEF f, o
<1>14. ASSUME NEW n \in N, NEW e \in Side
       PROVE  f[n] = f[u.kid[n][e]] + Black(u, n) + Gap(n, e, NIL, "left")
  <2>1. Gap(n, e, NIL, "left") = 0
    BY <1>3 DEF Gap
  <2>2. CASE n = p
    <3>1. Black(u, p) = 1
      BY <1>10 DEF Black
    <3>2. f[u.kid[p][e]] = h[x]
      BY <1>3, <1>9, <1>12, <1>13
    <3> QED BY <2>1, <2>2, <3>1, <3>2, <1>12, <1>13
  <2>3. CASE n = w
    <3>1. Black(u, w) = Black(t, p)
      BY <1>10 DEF Black
    <3>2. f[u.kid[w][e]] = h[x] + 1
      BY <1>3, <1>9, <1>12, <1>13
    <3>3. f[w] = h[x] + 1 + Black(t, p)
      BY <1>12, <1>13
    <3> QED BY <2>1, <2>3, <3>1, <3>2, <3>3, <1>12
  <2>4. CASE n = q /\ e = c
    <3>1. n \notin {p, w, k}
      BY <2>4, <1>6, <1>81
    <3>2. Black(u, n) = Black(t, n) /\ Black(t, n) \in {0, 1} /\ f[n] = h[n]
      BY <3>1, <1>3, <1>10, <1>13 DEF Black
    <3>3. f[u.kid[n][e]] = h[p] /\ t.kid[n][e] = p
      BY <2>4, <1>3, <1>6, <1>9, <1>13
    <3>4. h[n] = h[p] + Black(t, n) /\ h[p] \in Nat
      BY <3>1, <3>3, <1>3, <1>12
    <3> QED BY <2>1, <3>2, <3>3, <3>4
  <2>5. CASE n = k
    <3>1. u.kid[n][e] = t.kid[n][e] /\ t.kid[n][e] \notin {p, w, k}
      BY <2>5, <1>4, <1>8, <1>81, <1>9, <1>11, SMTT(30)
    <3>2. Black(u, n) = 1 /\ Black(t, n) = 0
      BY <1>00, <2>5, <1>10 DEF Black
    <3>3. f[t.kid[n][e]] = h[t.kid[n][e]] /\ f[n] = h[n] + 1
      BY <2>5, <3>1, <1>11, <1>13
    <3>4. h[n] = h[t.kid[n][e]] + 0
      BY <2>5, <3>2, <1>8, <1>12
    <3>5. h[n] \in Nat /\ h[t.kid[n][e]] \in Nat
      BY <1>11, <1>12
    <3> QED BY <2>1, <3>1, <3>2, <3>3, <3>4, <3>5
  <2>6. CASE n \notin {p, w, k} /\ ~(n = q /\ e = c)
    <3>1. u.kid[n][e] = t.kid[n][e] /\ t.kid[n][e] \notin {p, w, k}
      BY <2>6, <1>9, <1>11
    <3>2. Black(u, n) = Black(t, n) /\ Black(t, n) \in {0, 1}
      BY <2>6, <1>3, <1>10 DEF Black
    <3>3. h[n] = h[t.kid[n][e]] + Black(t, n) /\ f[t.kid[n][e]] = h[t.kid[n][e]] /\ f[n] = h[n]
      BY <2>6, <3>1, <1>11, <1>12, <1>13
    <3>4. h[n] \in Nat /\ h[t.kid[n][e]] \in Nat
      BY <1>11, <1>12
    <3> QED BY <2>1, <3>1, <3>2, <3>3, <3>4
  <2> QED BY <2>2, <2>3, <2>4, <2>5, <2>6
<1>15. Heights(u, N, f, NIL, "left")
  BY <1>13, <1>14 DEF Heights
<1>16. t.root \in N /\ (u.root = IF q = NIL THEN w ELSE t.root)
  BY <1>1, <1>7 DEF Turned, DeletingFacts
<1>17. NoRedRed(u, N, NIL, NIL)
  <2>1. u.color[NIL] = "black"
    BY <1>1, <1>3, <1>4, <1>10 DEF DeletingFacts
  <2>2. u.color[u.root] = "black"
    BY <1>16, <1>1, <1>3, <1>6, <1>10 DEF DeletingFacts
  <2>3. ASSUME NEW n \in N, NEW e \in Side, u.color[n] = "red", u.color[u.kid[n][e]] = "red"
        PROVE  FALSE
    <3>1. n \notin {p, k} /\ (n # w => t.color[n] = "red")
      BY <2>3, <1>3, <1>10
    <3>2. CASE n = w
      BY <2>3, <3>2, <1>3, <1>9, <1>10
    <3>3. CASE n = q /\ e = c /\ n # w
      <4>1. u.kid[n][e] = w /\ t.kid[n][e] = p
        BY <3>3, <1>3, <1>6, <1>9
      <4> QED BY <2>3, <3>1, <3>3, <4>1, <1>1, <1>10 DEF DeletingFacts
    <3>4. CASE n # w /\ ~(n = q /\ e = c)
      <4>1. u.kid[n][e] = t.kid[n][e] /\ t.kid[n][e] \notin {p, w, k}
        BY <3>1, <3>4, <1>9, <1>11
      <4>2. t.kid[n][e] \in N \cup {NIL}
        BY <1>11
      <4>3. t.color[t.kid[n][e]] = "red"
        BY <2>3, <4>1, <4>2, <1>3, <1>10
      <4> QED BY <3>1, <3>4, <4>3, <1>1 DEF DeletingFacts
    <3> QED BY <3>2, <3>3, <3>4
  <2> QED BY <2>1, <2>2, <2>3 DEF NoRedRed
<1>18. u.root \in N
  BY <1>3, <1>16
<1>19. /\ u \in TreeRec /\ u.root \in N /\ Kept(t, u, N)
       /\ \E i, j : Shape(u, N, i) /\ Heights(u, N, j, NIL, "left")
       /\ NoRedRed(u, N, NIL, NIL)
  BY <1>7, <1>15, <1>17, <1>18
<1> QED BY <1>19 DEF u, BalancedSome, Balanced, ParentTo
-----------------------------------------------------------------------------
(* A new node                                                              *)

LinkIs(w, t, z, n, d) ==
    /\ w \in TreeRec
    /\ w.root = IF n = NIL THEN z ELSE t.root
    /\ \A m \in Ref : w.color[m] = IF m = z THEN "red" ELSE t.color[m]
    /\ \A m \in Ref : w.parent[m] = IF m = z THEN n ELSE t.parent[m]
    /\ \A m \in Ref, e \in Side :
          w.kid[m][e] = IF m = z THEN NIL
                        ELSE IF m = n /\ n # NIL /\ e = d THEN z ELSE t.kid[m][e]

Emptied(t, z, c, n) == [t EXCEPT !.kid[z] = NoKids, !.color[z] = c, !.parent[z] = n]

LEMMA NoKidsFields == NoKids \in [Side -> Ref] /\ \A e \in Side : NoKids[e] = NIL
<1>1. NIL \in Ref
  BY RefFacts
<1>2. NoKids = [e \in Side |-> NIL]
  BY DEF NoKids, Side
<1> QED BY <1>1, <1>2
EmptiedIs(w, t, z, c, n) ==
    /\ w \in TreeRec /\ w.root = t.root
    /\ \A m \in Ref : w.color[m] = IF m = z THEN c ELSE t.color[m]
    /\ \A m \in Ref : w.parent[m] = IF m = z THEN n ELSE t.parent[m]
    /\ w.kid = Put(t.kid, z, NoKids)
    /\ \A m \in Ref, e \in Side : w.kid[m][e] = IF m = z THEN NIL ELSE t.kid[m][e]

LEMMA EmptiedFields ==
    ASSUME NEW t \in TreeRec, NEW z \in Ref, NEW n \in Ref, NEW c \in {"red", "black"}
    PROVE  EmptiedIs(Emptied(t, z, c, n), t, z, c, n)
<1> DEFINE w == Emptied(t, z, c, n)
<1>1. /\ IsRec(t) /\ t.parent \in [Ref -> Ref] /\ t.root \in Ref
      /\ t.kid \in KidFcn /\ t.color \in [Ref -> {"red", "black"}]
  BY RecFields
<1>2. /\ IsRec(w) /\ w.root = t.root /\ w.color = Put(t.color, z, c)
      /\ w.kid = Put(t.kid, z, NoKids) /\ w.parent = Put(t.parent, z, n)
  BY <1>1, Zenon DEF Emptied, Put, IsRec
<1> HIDE DEF w
<1>3. /\ w.parent \in [Ref -> Ref]
      /\ \A m \in Ref : w.parent[m] = IF m = z THEN n ELSE t.parent[m]
  BY <1>1, <1>2 DEF Put
<1>4. /\ w.color \in [Ref -> {"red", "black"}]
      /\ \A m \in Ref : w.color[m] = IF m = z THEN c ELSE t.color[m]
  BY <1>1, <1>2 DEF Put
<1>5. w.kid \in KidFcn
  BY <1>1, <1>2, NoKidsFields DEF Put, KidFcn
<1>6. \A m \in Ref : w.kid[m] = IF m = z THEN NoKids ELSE t.kid[m]
  BY <1>1, <1>2 DEF Put, KidFcn
<1>7. \A m \in Ref, e \in Side : w.kid[m][e] = IF m = z THEN NIL ELSE t.kid[m][e]
  BY <1>6, NoKidsFields
<1>8. w \in TreeRec
  BY <1>1, <1>2, <1>3, <1>4, <1>5, RecMade
<1> QED BY <1>2, <1>3, <1>4, <1>7, <1>8 DEF EmptiedIs, w

LEMMA LinkFields ==
    ASSUME NEW t \in TreeRec, NEW z \in Addr, NEW n \in Ref, n # z
    PROVE  LinkIs(Link(t, z, n), t, z, n, IF z < n THEN "left" ELSE "right")
<1> DEFINE d == IF z < n THEN "left" ELSE "right"
           f == Emptied(t, z, "red", n)
           w == Link(t, z, n)
<1>0. d \in Side /\ z \in Ref /\ z # NIL
  BY RefFacts, Sides
<1>1. w = IF n = NIL THEN [f EXCEPT !.root = z] ELSE [f EXCEPT !.kid[n][d] = z]
  BY DEF Link, Emptied
<1>2. EmptiedIs(f, t, z, "red", n)
  BY <1>0, EmptiedFields
<1> HIDE DEF f, w, d
<1>3. /\ f \in TreeRec /\ f.root = t.root
      /\ \A m \in Ref : f.color[m] = IF m = z THEN "red" ELSE t.color[m]
      /\ \A m \in Ref : f.parent[m] = IF m = z THEN n ELSE t.parent[m]
      /\ \A m \in Ref, e \in Side : f.kid[m][e] = IF m = z THEN NIL ELSE t.kid[m][e]
  BY <1>2 DEF EmptiedIs
<1>4. /\ IsRec(f) /\ f.kid \in KidFcn /\ f.root \in Ref
      /\ f.parent \in [Ref -> Ref] /\ f.color \in [Ref -> {"red", "black"}]
  BY <1>3, RecFields
<1>5. CASE n = NIL
  <2>1. IsRec(w) /\ w.root = z /\ w.kid = f.kid /\ w.color = f.color /\ w.parent = f.parent
    BY <1>1, <1>4, <1>5 DEF IsRec
  <2>2. w \in TreeRec
    BY <2>1, <1>0, <1>4, RecMade
  <2> QED BY <2>1, <2>2, <1>3, <1>5 DEF LinkIs, d, w
<1>6. CASE n # NIL
  <2>1. /\ IsRec(w) /\ w.root = f.root /\ w.kid = PutKid(f.kid, n, d, z)
        /\ w.color = f.color /\ w.parent = f.parent
    BY <1>1, <1>4, <1>6 DEF IsRec, Put, PutKid
  <2>2. w.kid \in KidFcn
    BY <2>1, <1>0, <1>4, PutKidType
  <2>3. w \in TreeRec
    BY <2>1, <2>2, <1>4, RecMade
  <2>4. \A m \in Ref, e \in Side : w.kid[m][e] = IF m = n /\ e = d THEN z ELSE f.kid[m][e]
    BY <2>1, <1>0, <1>4, PutKidAt
  <2>5. \A m \in Ref, e \in Side : w.kid[m][e] = IF m = z THEN NIL
                        ELSE IF m = n /\ n # NIL /\ e = d THEN z ELSE t.kid[m][e]
    BY <2>4, <1>3, <1>6
  <2> QED BY <2>1, <2>3, <2>5, <1>3, <1>6 DEF LinkIs, d, w
<1> QED BY <1>5, <1>6

\* A place for z: below n on side d, on the right side of every node.
Place(t, N, s, z, n, d) ==
    /\ z \in Addr \ N /\ d \in Side /\ n \in N \cup {NIL}
    /\ n = NIL => t.root = NIL
    /\ n # NIL => t.kid[n][d] = NIL /\ Before(d, z, n)
    /\ \A m \in N, e \in Side : n \in s[t.kid[m][e]] => Before(e, z, m)

LinkedSets(N, s, z, n) ==
    [m \in (N \cup {z}) \cup {NIL} |->
        IF m = z THEN {z} ELSE IF n \in s[m] THEN s[m] \cup {z} ELSE s[m]]

LinkedHeights(N, h, z) ==
    [m \in (N \cup {z}) \cup {NIL} |-> IF m = z THEN 0 ELSE h[m]]

\* A new leaf at the place where the search has ended keeps the search tree.
LEMMA LinkShape ==
    ASSUME NEW t \in TreeRec, NEW N, NEW s, Shape(t, N, s), NEW w,
           NEW z, NEW n, NEW d, Place(t, N, s, z, n, d), LinkIs(w, t, z, n, d)
    PROVE  Shape(w, N \cup {z}, LinkedSets(N, s, z, n))
<1> DEFINE M == N \cup {z}
           r == LinkedSets(N, s, z, n)
<1>1. /\ z \in Addr /\ z \notin N /\ d \in Side /\ n \in N \cup {NIL} /\ n # z /\ z # NIL
      /\ NIL \notin N /\ N \subseteq Ref /\ z \in Ref /\ NIL \in Ref /\ N \subseteq Addr
  BY RefFacts DEF Place, Shape
<1>2. /\ w.root = (IF n = NIL THEN z ELSE t.root)
      /\ \A m \in Ref : w.parent[m] = IF m = z THEN n ELSE t.parent[m]
      /\ \A m \in Ref, e \in Side :
          w.kid[m][e] = IF m = z THEN NIL
                        ELSE IF m = n /\ n # NIL /\ e = d THEN z ELSE t.kid[m][e]
  BY DEF LinkIs
<1>3. /\ s \in [N \cup {NIL} -> SUBSET N] /\ s[NIL] = {}
      /\ t.root \in N \cup {NIL} /\ s[t.root] = N
      /\ t.root # NIL => t.parent[t.root] = NIL
      /\ \A m \in N, e \in Side : t.kid[m][e] \in N \cup {NIL}
  BY DEF Shape
<1>4. /\ r \in [M \cup {NIL} -> SUBSET M] /\ r[NIL] = {} /\ r[z] = {z}
      /\ \A m \in N : r[m] = IF n \in s[m] THEN s[m] \cup {z} ELSE s[m]
  BY <1>1, <1>3 DEF LinkedSets
<1> HIDE DEF r
<1>5. w.root \in M \cup {NIL} /\ r[w.root] = M /\ (w.root # NIL => w.parent[w.root] = NIL)
  <2>1. CASE n = NIL
    <3>1. N = {} /\ w.root = z
      BY <2>1, <1>2, <1>3 DEF Place
    <3> QED BY <3>1, <2>1, <1>1, <1>2, <1>4
  <2>2. CASE n # NIL
    <3>1. t.root # NIL /\ t.root \in N /\ n \in s[t.root]
      BY <2>2, <1>1, <1>3
    <3> QED BY <3>1, <2>2, <1>1, <1>2, <1>3, <1>4
  <2> QED BY <2>1, <2>2
<1>6. ASSUME NEW m \in N, NEW e \in Side
      PROVE  /\ w.kid[m][e] \in M \cup {NIL}
             /\ \A a \in r[w.kid[m][e]] : Before(e, a, m)
             /\ w.kid[m][e] # NIL => w.parent[w.kid[m][e]] = m
  <2>1. CASE m = n /\ e = d
    <3>1. w.kid[m][e] = z
      BY <2>1, <1>1, <1>2
    <3> QED BY <3>1, <2>1, <1>1, <1>2, <1>4 DEF Place
  <2>2. CASE ~(m = n /\ e = d)
    <3>1. w.kid[m][e] = t.kid[m][e] /\ t.kid[m][e] # z
      BY <2>2, <1>1, <1>2, <1>3
    <3>2. \A a \in s[t.kid[m][e]] : Before(e, a, m)
      BY DEF Shape
    <3>3. t.kid[m][e] # NIL => t.parent[t.kid[m][e]] = m
      BY DEF Shape
    <3>4. \A a \in r[t.kid[m][e]] : Before(e, a, m)
      <4>1. CASE t.kid[m][e] = NIL
        BY <4>1, <1>4
      <4>2. CASE t.kid[m][e] # NIL
        BY <4>2, <3>2, <1>3, <1>4 DEF Place
      <4> QED BY <4>1, <4>2
    <3> QED BY <3>1, <3>3, <3>4, <1>1, <1>2, <1>3
  <2> QED BY <2>1, <2>2
<1>7. ASSUME NEW a \in N, NEW m \in M
      PROVE  m \in r[a] <=> m = a \/ \E e \in Side : m \in r[w.kid[a][e]]
  <2>0. \A b \in N : b \in s[a] <=> b = a \/ \E e \in Side : b \in s[t.kid[a][e]]
    BY DEF Shape
  <2>1. ASSUME m \in N PROVE m \in r[a] <=> m = a \/ \E e \in Side : m \in r[w.kid[a][e]]
    <3>1. \A b \in N \cup {NIL} : m \in r[b] <=> m \in s[b]
      BY <2>1, <1>1, <1>3, <1>4
    <3>2. ASSUME NEW e \in Side PROVE m \in r[w.kid[a][e]] <=> m \in s[t.kid[a][e]]
      <4>1. CASE a = n /\ e = d
        <5>1. w.kid[a][e] = z /\ t.kid[a][e] = NIL
          BY <4>1, <1>1, <1>2 DEF Place
        <5> QED BY <5>1, <2>1, <1>1, <1>3, <1>4
      <4>2. CASE ~(a = n /\ e = d)
        <5>1. w.kid[a][e] = t.kid[a][e]
          BY <4>2, <1>1, <1>2
        <5> QED BY <5>1, <3>1, <1>3
      <4> QED BY <4>1, <4>2
    <3> QED BY <2>1, <2>0, <3>1, <3>2
  <2>2. CASE m = z
    <3>1. z \in r[a] <=> n \in s[a]
      BY <1>1, <1>3, <1>4
    <3>2. ASSUME NEW e \in Side
          PROVE  z \in r[w.kid[a][e]] <=> n \in s[t.kid[a][e]] \/ (a = n /\ e = d)
      <4>1. CASE a = n /\ e = d
        BY <4>1, <1>1, <1>2, <1>4
      <4>2. CASE ~(a = n /\ e = d)
        <5>1. w.kid[a][e] = t.kid[a][e]
          BY <4>2, <1>1, <1>2
        <5> QED BY <4>2, <5>1, <1>1, <1>3, <1>4
      <4> QED BY <4>1, <4>2
    <3>3. n \in s[a] <=> n = a \/ \E e \in Side : n \in s[t.kid[a][e]]
      <4>1. CASE n = NIL
        BY <4>1, <1>1, <1>3
      <4>2. CASE n # NIL
        BY <4>2, <2>0, <1>1
      <4> QED BY <4>1, <4>2
    <3> QED BY <2>2, <3>1, <3>2, <3>3, <1>1
  <2> QED BY <2>1, <2>2
<1>8. ASSUME NEW e \in Side
      PROVE  /\ w.kid[z][e] \in M \cup {NIL}
             /\ \A a \in r[w.kid[z][e]] : Before(e, a, z)
             /\ w.kid[z][e] # NIL => w.parent[w.kid[z][e]] = z
  BY <1>1, <1>2, <1>4
<1>9. ASSUME NEW m \in M
      PROVE  m \in r[z] <=> m = z \/ \E e \in Side : m \in r[w.kid[z][e]]
  BY <1>1, <1>2, <1>4
<1>10. M \subseteq Addr
  BY <1>1
<1> HIDE DEF M
<1>11. \A m \in M : m = z \/ m \in N
  BY DEF M
<1>12. \A m \in M, e \in Side : /\ w.kid[m][e] \in M \cup {NIL}
                                /\ \A a \in r[w.kid[m][e]] : Before(e, a, m)
                                /\ w.kid[m][e] # NIL => w.parent[w.kid[m][e]] = m
  BY <1>6, <1>8, <1>11
<1>13. \A a \in M : \A m \in M : m \in r[a] <=> m = a \/ \E e \in Side : m \in r[w.kid[a][e]]
  BY <1>7, <1>9, <1>11
<1>14. Shape(w, M, r)
  BY ONLY <1>4, <1>5, <1>10, <1>12, <1>13 DEF Shape
<1> QED BY <1>14 DEF M, r
\* The new node is red: only its parent may be red above it.
LEMMA Linked ==
    ASSUME NEW t \in TreeRec, NEW N, NEW s, Shape(t, N, s), NEW w, NEW h,
           Heights(t, N, h, NIL, "left"), NoRedRed(t, N, NIL, NIL),
           NEW z, NEW n, NEW d, Place(t, N, s, z, n, d), LinkIs(w, t, z, n, d)
    PROVE  Inserting(w, N \cup {z}, LinkedSets(N, s, z, n), LinkedHeights(N, h, z), z)
<1> DEFINE M == N \cup {z}
           f == LinkedHeights(N, h, z)
<1>0. w \in TreeRec /\ Shape(w, M, LinkedSets(N, s, z, n))
  BY LinkShape DEF LinkIs
<1>1. /\ z \in Addr /\ z \notin N /\ d \in Side /\ n \in N \cup {NIL} /\ n # z /\ z # NIL
      /\ NIL \notin N /\ N \subseteq Ref /\ z \in Ref /\ NIL \in Ref
      /\ n # NIL => t.kid[n][d] = NIL
      /\ \A m \in N, e \in Side : t.kid[m][e] \in N \cup {NIL}
  BY RefFacts DEF Place, Shape
<1>2. /\ w.root = (IF n = NIL THEN z ELSE t.root)
      /\ \A m \in Ref : w.color[m] = IF m = z THEN "red" ELSE t.color[m]
      /\ \A m \in Ref, e \in Side :
          w.kid[m][e] = IF m = z THEN NIL
                        ELSE IF m = n /\ n # NIL /\ e = d THEN z ELSE t.kid[m][e]
  BY DEF LinkIs
<1>3. /\ h \in [N \cup {NIL} -> Nat] /\ h[NIL] = 0
      /\ \A m \in N, e \in Side : h[m] = h[t.kid[m][e]] + Black(t, m)
  <2>1. \A m \in N, e \in Side : Gap(m, e, NIL, "left") = 0
    BY <1>1 DEF Gap
  <2>2. /\ h \in [N \cup {NIL} -> Nat] /\ h[NIL] = 0
        /\ \A m \in N, e \in Side : h[m] = (h[t.kid[m][e]] + Black(t, m)) + Gap(m, e, NIL, "left")
    BY DEF Heights
  <2>3. \A m \in N : Black(t, m) \in Nat
    BY DEF Black
  <2> QED BY <2>1, <2>2, <2>3, <1>1
<1>4. /\ f \in [M \cup {NIL} -> Nat] /\ f[NIL] = 0 /\ f[z] = 0
      /\ \A m \in N : f[m] = h[m]
  BY <1>1, <1>3 DEF LinkedHeights
<1> HIDE DEF f
<1>5. Heights(w, M, f, NIL, "left")
  <2>1. ASSUME NEW m \in M, NEW e \in Side
        PROVE  f[m] = f[w.kid[m][e]] + Black(w, m) + Gap(m, e, NIL, "left")
    <3>0. Gap(m, e, NIL, "left") = 0
      BY <1>1 DEF Gap
    <3>1. CASE m = z
      BY <3>1, <3>0, <1>1, <1>2, <1>4 DEF Black
    <3>2. CASE m # z
      <4>1. m \in N /\ Black(w, m) = Black(t, m) /\ Black(t, m) \in Nat
        BY <3>2, <1>1, <1>2 DEF Black
      <4>2. f[w.kid[m][e]] = h[t.kid[m][e]]
        <5>1. CASE m = n /\ e = d
          BY <5>1, <4>1, <1>1, <1>2, <1>3, <1>4
        <5>2. CASE ~(m = n /\ e = d)
          BY <5>2, <4>1, <3>2, <1>1, <1>2, <1>3, <1>4
        <5> QED BY <5>1, <5>2
      <4>3. h[t.kid[m][e]] \in Nat
        BY <4>1, <1>1, <1>3
      <4> QED BY <3>0, <4>1, <4>2, <4>3, <1>3, <1>4
    <3> QED BY <3>1, <3>2
  <2> QED BY <2>1, <1>4 DEF Heights
<1>6. NoRedRed(w, M, z, NIL)
  <2>0. /\ t.color[NIL] = "black"
        /\ t.color[t.root] = "red" => t.root = NIL
        /\ \A m \in N, e \in Side :
             t.color[m] = "red" /\ t.color[t.kid[m][e]] = "red" => t.kid[m][e] = NIL \/ m = NIL
    BY DEF NoRedRed
  <2>1. w.color[NIL] = "black"
    BY <1>1, <1>2, <2>0
  <2>2. ASSUME w.color[w.root] = "red" PROVE w.root = z
    <3>1. t.root \in Ref
      BY RecFields
    <3> QED BY <2>0, <2>2, <3>1, <1>2
  <2>3. ASSUME NEW m \in M, NEW e \in Side, w.color[m] = "red", w.color[w.kid[m][e]] = "red"
        PROVE  w.kid[m][e] = z \/ m = NIL
    <3>1. CASE m = z
      BY <3>1, <2>1, <2>3, <1>1, <1>2
    <3>2. CASE m # z /\ m = n /\ e = d
      BY <3>2, <1>1, <1>2
    <3>3. CASE m # z /\ ~(m = n /\ e = d)
      <4>1. m \in N /\ w.kid[m][e] = t.kid[m][e] /\ t.kid[m][e] \in Ref /\ t.kid[m][e] # z
        BY <3>3, <1>1, <1>2
      <4> QED BY <4>1, <3>3, <2>0, <2>3, <1>1, <1>2
    <3> QED BY <3>1, <3>2, <3>3
  <2> QED BY <2>1, <2>2, <2>3 DEF NoRedRed
<1>7. z \in M /\ w.color[z] = "red"
  BY <1>1, <1>2
<1> QED BY <1>0, <1>5, <1>6, <1>7 DEF Inserting, f
-----------------------------------------------------------------------------
(* tree_minimum                                                            *)

Leftmost(t, f) ==
    f = [m \in Addr |-> IF t.kid[m].left = NIL THEN m ELSE f[t.kid[m].left]]

LeastOf(S) == CHOOSE n \in S : \A m \in S : n <= m
IsLeast(n, S) == n \in S /\ \A m \in S : n <= m

LEMMA LeastOfIs ==
    ASSUME NEW S, S \subseteq Nat, S # {}
    PROVE  IsLeast(LeastOf(S), S)
<1>1. \E n \in S : \A m \in S : n <= m
  BY Least, Zenon
<1> QED BY <1>1, Zenon DEF LeastOf, IsLeast

LEMMA LeastUnique ==
    ASSUME NEW S, S \subseteq Nat, NEW a, NEW b, IsLeast(a, S), IsLeast(b, S)
    PROVE  a = b
<1>1. a \in Nat /\ b \in Nat /\ a <= b /\ b <= a
  BY DEF IsLeast
<1> QED BY <1>1

\* The least address below n is n, or the least on the left.
LEMMA LeastBelow ==
    ASSUME NEW t, NEW N, NEW s, Shape(t, N, s), NEW n \in N, NEW a
    PROVE  /\ t.kid[n]["left"] = NIL => IsLeast(n, s[n])
           /\ t.kid[n]["left"] # NIL /\ IsLeast(a, s[t.kid[n]["left"]]) => IsLeast(a, s[n])
<1> DEFINE l == t.kid[n]["left"]
           r == t.kid[n]["right"]
<1>1. "left" \in Side /\ "right" \in Side /\ Side = {"left", "right"}
  BY DEF Side
<1>2. \A m \in N : m \in s[n] <=> m = n \/ m \in s[l] \/ m \in s[r]
  BY <1>1 DEF Shape
<1>3. /\ \A m \in s[l] : Before("left", m, n)
      /\ \A m \in s[r] : Before("right", m, n)
  BY <1>1 DEF Shape
<1>4. s[l] \subseteq N /\ s[r] \subseteq N /\ s[n] \subseteq N /\ s[NIL] = {} /\ N \subseteq Nat
  BY <1>1, AddrFacts DEF Shape
<1> HIDE DEF l, r
<1>5. /\ \A m \in s[l] : m < n
      /\ \A m \in s[r] : n < m
  BY <1>3 DEF Before
<1>6. ASSUME l = NIL PROVE IsLeast(n, s[n])
  <2>1. n \in s[n]
    BY <1>2
  <2>2. ASSUME NEW m \in s[n] PROVE n <= m
    <3>1. m \in Nat /\ n \in Nat /\ m \in N
      BY <1>4, Zenon
    <3>2. m = n \/ m \in s[r]
      BY <3>1, <1>2, <1>4, <1>6
    <3> QED BY <3>1, <3>2, <1>5
  <2> QED BY <2>1, <2>2 DEF IsLeast
<1>7. ASSUME l # NIL, IsLeast(a, s[l]) PROVE IsLeast(a, s[n])
  <2>1. a \in s[l] /\ a \in N /\ a < n /\ \A m \in s[l] : a <= m
    BY <1>7, <1>4, <1>5 DEF IsLeast
  <2>2. a \in s[n]
    BY <2>1, <1>2
  <2>3. ASSUME NEW m \in s[n] PROVE a <= m
    <3>1. m \in Nat /\ a \in Nat /\ n \in Nat
      BY <2>1, <1>4, Zenon
    <3>2. CASE m = n
      BY <3>1, <3>2, <2>1
    <3>3. CASE m \in s[l]
      BY <3>3, <2>1
    <3>4. CASE m \in s[r]
      BY <3>1, <3>4, <2>1, <1>5
    <3> QED BY <3>2, <3>3, <3>4, <1>2, <1>4, Zenon
  <2> QED BY <2>2, <2>3 DEF IsLeast
<1> QED BY <1>6, <1>7 DEF l

LEMMA LeftmostExists ==
    ASSUME NEW t, NEW N, NEW s, Shape(t, N, s),
           \A m \in Addr \ N : t.kid[m]["left"] = NIL
    PROVE  \E f : Leftmost(t, f)
<1> DEFINE F == [m \in Addr |-> IF m \in N THEN LeastOf(s[m]) ELSE m]
<1>1. N \subseteq Addr /\ NIL \notin N /\ N \subseteq Nat /\ "left" \in Side
  BY AddrFacts, Zenon DEF Shape, Side
<1>2. ASSUME NEW m \in Addr
      PROVE  F[m] = IF t.kid[m]["left"] = NIL THEN m ELSE F[t.kid[m]["left"]]
  <2>1. CASE m \notin N
    BY <2>1
  <2>2. CASE m \in N
    <3>1. \A n \in N : s[n] # {} /\ s[n] \subseteq Nat
      BY <1>1 DEF Shape
    <3>2. \A n \in N : IsLeast(LeastOf(s[n]), s[n])
      BY <3>1, LeastOfIs
    <3>3. t.kid[m]["left"] # NIL => t.kid[m]["left"] \in N
      BY <2>2, <1>1 DEF Shape
    <3>4. CASE t.kid[m]["left"] = NIL
      <4>1. IsLeast(m, s[m])
        BY <2>2, <3>4, LeastBelow
      <4>2. LeastOf(s[m]) = m
        BY <4>1, <2>2, <3>1, <3>2, LeastUnique
      <4> QED BY <2>2, <3>4, <4>2
    <3>5. CASE t.kid[m]["left"] # NIL
      <4> DEFINE l == t.kid[m]["left"]
                 a == LeastOf(s[l])
      <4>1. IsLeast(a, s[l]) /\ l \in N
        BY <3>2, <3>3, <3>5
      <4> HIDE DEF a
      <4>2. IsLeast(a, s[m])
        BY <2>2, <3>5, <4>1, LeastBelow
      <4>3. LeastOf(s[m]) = a
        BY <4>2, <2>2, <3>1, <3>2, LeastUnique
      <4> QED BY <2>2, <3>5, <4>1, <4>3, <1>1, Zenon DEF a
    <3> QED BY <3>4, <3>5
  <2> QED BY <2>1, <2>2
<1>3. F = [m \in Addr |-> IF t.kid[m]["left"] = NIL THEN m ELSE F[t.kid[m]["left"]]]
  <2>1. F = [m \in Addr |-> F[m]]
    OBVIOUS
  <2> HIDE DEF F
  <2> QED BY <2>1, <1>2
<1> HIDE DEF F
<1> QED BY <1>3 DEF Leftmost

LEMMA LeftmostLeast ==
    ASSUME NEW t, NEW N, NEW s, Shape(t, N, s), NEW f, Leftmost(t, f), NEW n \in N
    PROVE  IsLeast(f[n], s[n])
<1> DEFINE A == {m \in N : ~IsLeast(f[m], s[m])}
<1>1. SUFFICES ASSUME A # {} PROVE FALSE
  OBVIOUS
<1>2. PICK m \in A : \A d \in Side : t.kid[m][d] \notin A
  <2>1. A \subseteq N
    OBVIOUS
  <2> HIDE DEF A
  <2> QED BY <1>1, <2>1, Lowest
<1>3. m \in N /\ m \in Addr /\ "left" \in Side /\ t.kid[m]["left"] \in N \cup {NIL}
  BY DEF Shape, Side
<1>4. f[m] = IF t.kid[m]["left"] = NIL THEN m ELSE f[t.kid[m]["left"]]
  BY <1>3 DEF Leftmost
<1>5. t.kid[m]["left"] # NIL => IsLeast(f[t.kid[m]["left"]], s[t.kid[m]["left"]])
  BY <1>2, <1>3
<1>6. IsLeast(f[m], s[m])
  BY <1>3, <1>4, <1>5, LeastBelow
<1> QED BY <1>6, <1>2

\* tree_minimum finds the least node of a subtree.
LEMMA MinimumLeast ==
    ASSUME NEW t, NEW N, NEW s, Shape(t, N, s),
           \A m \in Addr \ N : t.kid[m]["left"] = NIL, NEW n \in N
    PROVE  IsLeast(Minimum(t, n), s[n])
<1>1. PICK f : f = CHOOSE g : g = [m \in Addr |->
                  IF t.kid[m].left = NIL THEN m ELSE g[t.kid[m].left]]
  OBVIOUS
<1>2. \E g : g = [m \in Addr |-> IF t.kid[m].left = NIL THEN m ELSE g[t.kid[m].left]]
  BY LeftmostExists, Zenon DEF Leftmost
<1>3. f = [m \in Addr |-> IF t.kid[m].left = NIL THEN m ELSE f[t.kid[m].left]]
  BY <1>1, <1>2, Zenon
<1>4. Leftmost(t, f)
  BY <1>3 DEF Leftmost
<1>5. Minimum(t, n) = f[n]
  BY <1>1, Zenon DEF Minimum
<1> QED BY <1>4, <1>5, LeftmostLeast

\* The least node y below n: nothing on its left, and it is n itself or the
\* left child of a node below n.
LEMMA LeastPlace ==
    ASSUME NEW t, NEW N, NEW s, Shape(t, N, s), NEW n \in N, NEW y, IsLeast(y, s[n])
    PROVE  /\ y \in N /\ y \in s[n] /\ t.kid[y]["left"] = NIL
           /\ y # n => t.parent[y] \in s[n] /\ t.kid[t.parent[y]]["left"] = y
<1>1. "left" \in Side /\ Side = {"left", "right"} /\ N \subseteq Nat /\ NIL \notin N
  BY AddrFacts, Zenon DEF Side, Shape
<1>2. y \in s[n] /\ \A m \in s[n] : y <= m
  BY DEF IsLeast
<1>3. y \in N /\ s[y] \subseteq s[n] /\ s[n] \subseteq N
  BY <1>2, Below
<1>4. t.kid[y]["left"] = NIL
  <2>1. SUFFICES ASSUME t.kid[y]["left"] # NIL PROVE FALSE
    OBVIOUS
  <2> DEFINE k == t.kid[y]["left"]
  <2>2. k \in N /\ k \in s[k] /\ k \in s[y] /\ Before("left", k, y)
    BY <2>1, <1>1, <1>3, Zenon DEF Shape
  <2> HIDE DEF k
  <2>3. k < y /\ y <= k /\ k \in Nat /\ y \in Nat
    BY <2>2, <1>1, <1>2, <1>3 DEF Before
  <2> QED BY <2>3
<1>5. ASSUME y # n PROVE t.parent[y] \in s[n] /\ t.kid[t.parent[y]]["left"] = y
  <2>1. /\ t.parent[y] \in N /\ t.parent[y] \in s[n]
        /\ \E d \in Side : t.kid[t.parent[y]][d] = y
    BY <1>2, <1>5, Below
  <2> DEFINE p == t.parent[y]
  <2>2. SUFFICES ASSUME t.kid[p]["right"] = y PROVE FALSE
    BY <2>1, <1>1
  <2>3. y \in s[y] /\ Before("right", y, p)
    BY <2>1, <2>2, <1>1, <1>3, Zenon DEF Shape
  <2> HIDE DEF p
  <2>4. p < y /\ y <= p /\ p \in Nat /\ y \in Nat
    BY <2>1, <2>3, <1>1, <1>2, <1>3, Zenon DEF Before, p
  <2> QED BY <2>4
<1> QED BY <1>2, <1>3, <1>4, <1>5
-----------------------------------------------------------------------------
(* A node with at most one child goes                                      *)

\* The child k of z, its only one, and z's parent p.
Loose(t, N, z, k, e, p, c) ==
    /\ z \in N /\ k \in N \cup {NIL} /\ k # z /\ e \in Side /\ c \in Side
    /\ p \in N \cup {NIL} /\ p # z /\ (p = NIL <=> z = t.root) /\ (p = k => k = NIL)
    /\ t.kid[z][e] = k /\ t.kid[z][Other(e)] = NIL /\ Side = {e, Other(e)}
    /\ p # NIL => t.kid[p][c] = z
    /\ k # NIL => t.parent[k] = z /\ k # t.root
    /\ N \subseteq Ref /\ NIL \notin N /\ NIL \in Ref /\ t.root \in N
    /\ \A n \in N, a \in Side :
          /\ t.kid[n][a] \in N \cup {NIL}
          /\ n # z /\ ~(n = p /\ a = c) => t.kid[n][a] # z
          /\ n # z /\ t.kid[n][a] = k => k = NIL

LEMMA LooseThere ==
    ASSUME NEW t \in TreeRec, NEW N, NEW s, Shape(t, N, s), NEW z \in N,
           NEW e \in Side, t.kid[z][Other(e)] = NIL
    PROVE  Loose(t, N, z, t.kid[z][e], e, t.parent[z], SideOf(t, z))
<1> DEFINE k == t.kid[z][e]
           p == t.parent[z]
           c == SideOf(t, z)
<1>1. c \in Side /\ Side = {e, Other(e)}
  BY SideOfType, TwoSides
<1>2. /\ k \in N \cup {NIL} /\ k # z /\ z # NIL
      /\ k # NIL => t.parent[k] = z /\ k # t.root /\ k \in s[k]
  BY Kids
<1>3. NIL \notin N /\ NIL \in Ref /\ N \subseteq Ref
  BY RefFacts DEF Shape
<1>4. t.root \in N
  BY <1>2 DEF Shape
<1>5. CASE z = t.root
  <2>1. p = NIL
    BY <1>2, <1>5 DEF Shape
  <2>2. ASSUME NEW n \in N, NEW a \in Side, n # z PROVE t.kid[n][a] # z
    BY <1>2, <1>5, Kids
  <2>3. \A n \in N, a \in Side :
          /\ t.kid[n][a] \in N \cup {NIL}
          /\ n # z /\ t.kid[n][a] = k => k = NIL
    BY <1>2 DEF Shape
  <2> HIDE DEF k, p, c
  <2> QED BY <1>1, <1>2, <1>3, <1>4, <1>5, <2>1, <2>2, <2>3 DEF Loose, k, p, c
<1>6. CASE z # t.root
  <2>1. /\ p \in N /\ p # z /\ p \notin s[z]
        /\ \E d \in Side : t.kid[p][d] = z
    BY <1>6, Parents
  <2>2. PICK d \in Side : t.kid[p][d] = z
    BY <2>1
  <2>3. SideOf(t, z) = d
    BY <2>1, <2>2, <1>2, SideOfKid
  <2>4. t.kid[p][c] = z
    BY <2>2, <2>3
  <2>5. p = k => k = NIL
    <3>1. k # NIL => k \in s[z]
      BY <1>2 DEF Shape
    <3> QED BY <3>1, <2>1
  <2>6. ASSUME NEW n \in N, NEW a \in Side, ~(n = p /\ a = c) PROVE t.kid[n][a] # z
    <3>1. SUFFICES ASSUME t.kid[n][a] = z PROVE FALSE
      OBVIOUS
    <3>2. n = p
      BY <3>1, <1>2 DEF Shape
    <3>3. SideOf(t, z) = a
      BY <2>1, <3>1, <3>2, <1>2, SideOfKid
    <3> QED BY <3>2, <3>3, <2>6
  <2>7. \A n \in N, a \in Side :
          /\ t.kid[n][a] \in N \cup {NIL}
          /\ n # z /\ t.kid[n][a] = k => k = NIL
    BY <1>2 DEF Shape
  <2> HIDE DEF k, p, c
  <2>8. t.kid[z][e] = k
    BY DEF k
  <2> QED BY <1>1, <1>2, <1>3, <1>4, <1>6, <2>1, <2>4, <2>5, <2>6, <2>7, <2>8 DEF Loose, k, p, c
<1> QED BY <1>5, <1>6

\* k in the place of z.
CutIs(w, t, z, k, p, c) ==
    /\ w \in TreeRec /\ w.root = (IF p = NIL THEN k ELSE t.root) /\ w.color = t.color
    /\ \A n \in Ref : w.parent[n] = IF n = k THEN p ELSE t.parent[n]
    /\ \A n \in Ref, a \in Side :
          w.kid[n][a] = IF n = p /\ n # NIL /\ a = c THEN k ELSE t.kid[n][a]

CutSets(N, s, z) == [n \in (N \ {z}) \cup {NIL} |-> s[n] \ {z}]
CutHeights(N, h, z) == [n \in (N \ {z}) \cup {NIL} |-> h[n]]

\* A node with one child at most is replaced by that child, or NIL.
LEMMA CutShape ==
    ASSUME NEW t \in TreeRec, NEW N, NEW s, Shape(t, N, s), NEW w,
           NEW z, NEW k, NEW e, NEW p, NEW c, Loose(t, N, z, k, e, p, c),
           CutIs(w, t, z, k, p, c)
    PROVE  Shape(w, N \ {z}, CutSets(N, s, z))
<1> DEFINE M == N \ {z}
           r == CutSets(N, s, z)
<1>1. /\ z \in N /\ k \in M \cup {NIL} /\ k # z /\ e \in Side /\ c \in Side
      /\ p \in M \cup {NIL} /\ p # z /\ (p = NIL <=> z = t.root)
      /\ t.kid[z][e] = k /\ t.kid[z][Other(e)] = NIL /\ Side = {e, Other(e)}
      /\ p # NIL => t.kid[p][c] = z
      /\ k # NIL => t.parent[k] = z /\ k # t.root
      /\ N \subseteq Ref /\ NIL \notin N /\ NIL \in Ref /\ t.root \in N
  BY DEF Loose
<1>2. \A n \in M, a \in Side :
          /\ t.kid[n][a] \in N \cup {NIL}
          /\ ~(n = p /\ a = c) => t.kid[n][a] # z
          /\ t.kid[n][a] = k => k = NIL
  BY DEF Loose
<1>3. /\ w.root = (IF p = NIL THEN k ELSE t.root)
      /\ \A n \in Ref : w.parent[n] = IF n = k THEN p ELSE t.parent[n]
      /\ \A n \in Ref, a \in Side :
            w.kid[n][a] = IF n = p /\ n # NIL /\ a = c THEN k ELSE t.kid[n][a]
  BY DEF CutIs
<1>4. /\ s \in [N \cup {NIL} -> SUBSET N] /\ s[NIL] = {}
      /\ s[t.root] = N /\ N \subseteq Addr
      /\ t.root # NIL => t.parent[t.root] = NIL
  BY DEF Shape
<1>5. r \in [M \cup {NIL} -> SUBSET M] /\ r[NIL] = {} /\ \A n \in M : r[n] = s[n] \ {z}
  BY <1>1, <1>4 DEF CutSets
<1>6. \A m \in M : m \in s[z] <=> m \in s[k]
  <2>1. \A m \in N : m \in s[z] <=> m = z \/ \E a \in Side : m \in s[t.kid[z][a]]
    BY <1>1 DEF Shape
  <2>2. \A m \in N : m \in s[z] <=> m = z \/ m \in s[k] \/ m \in s[NIL]
    BY <2>1, <1>1
  <2> QED BY <2>2, <1>4
<1>7. r[k] = s[k] \ {z} /\ s[k] \subseteq N
  BY <1>1, <1>4, <1>5
<1> HIDE DEF r
<1>8. w.root \in M \cup {NIL} /\ r[w.root] = M /\ (w.root # NIL => w.parent[w.root] = NIL)
  <2>1. CASE p = NIL
    <3>1. w.root = k /\ s[z] = N
      BY <2>1, <1>1, <1>3, <1>4
    <3>2. r[k] = M
      BY <3>1, <1>6, <1>7
    <3> QED BY <3>1, <3>2, <2>1, <1>1, <1>3
  <2>2. CASE p # NIL
    <3>1. w.root = t.root /\ t.root \in M
      BY <2>2, <1>1, <1>3
    <3> QED BY <3>1, <1>1, <1>3, <1>4, <1>5
  <2> QED BY <2>1, <2>2
<1>9. ASSUME NEW n \in M, NEW a \in Side
      PROVE  /\ w.kid[n][a] \in M \cup {NIL}
             /\ \A m \in r[w.kid[n][a]] : Before(a, m, n)
             /\ w.kid[n][a] # NIL => w.parent[w.kid[n][a]] = n
             /\ \A m \in M : m \in r[w.kid[n][a]] <=> m \in s[t.kid[n][a]]
  <2>0. /\ \A m \in s[t.kid[n][a]] : Before(a, m, n)
        /\ t.kid[n][a] # NIL => t.parent[t.kid[n][a]] = n
    BY DEF Shape
  <2>1. CASE n = p /\ a = c
    <3>1. w.kid[n][a] = k /\ t.kid[n][a] = z /\ w.parent[k] = p
      BY <2>1, <1>1, <1>3
    <3>2. \A m \in M : m \in r[k] <=> m \in s[z]
      BY <1>6, <1>7
    <3>3. \A m \in r[k] : m \in s[z]
      BY <3>2, <1>1, <1>5
    <3> QED BY <3>1, <3>2, <3>3, <2>0, <2>1, <1>1
  <2>2. CASE ~(n = p /\ a = c)
    <3>1. w.kid[n][a] = t.kid[n][a] /\ t.kid[n][a] \in M \cup {NIL}
      BY <2>2, <1>1, <1>2, <1>3
    <3>2. r[t.kid[n][a]] = s[t.kid[n][a]] \ {z}
      BY <3>1, <1>4, <1>5
    <3>3. t.kid[n][a] # NIL => w.parent[t.kid[n][a]] = n
      BY <3>1, <2>0, <1>1, <1>2, <1>3
    <3> QED BY <3>1, <3>2, <3>3, <2>0
  <2> QED BY <2>1, <2>2
<1>10. ASSUME NEW n \in M, NEW m \in M
       PROVE  m \in r[n] <=> m = n \/ \E a \in Side : m \in r[w.kid[n][a]]
  <2>1. m \in s[n] <=> m = n \/ \E a \in Side : m \in s[t.kid[n][a]]
    BY DEF Shape
  <2>2. m \in r[n] <=> m \in s[n]
    BY <1>5
  <2>3. \A a \in Side : m \in r[w.kid[n][a]] <=> m \in s[t.kid[n][a]]
    BY <1>9
  <2> QED BY <2>1, <2>2, <2>3
<1>11. M \subseteq Addr
  BY <1>4
<1> HIDE DEF M
<1>12. Shape(w, M, r)
  BY ONLY <1>5, <1>8, <1>9, <1>10, <1>11 DEF Shape
<1> QED BY <1>12 DEF M, r

\* What is left to repair once a node of that color is gone and x is in its
\* place.
ToRepair(t, N, h, x, color) ==
    IF color = "black" THEN Climbed(t, N, h, x)
    ELSE Heights(t, N, h, NIL, "left") /\ NoRedRed(t, N, NIL, NIL)

\* If the node was black, the subtree of the child is a black short.
LEMMA CutRepair ==
    ASSUME NEW t \in TreeRec, NEW N, NEW s, Shape(t, N, s), NEW w, NEW h,
           Heights(t, N, h, NIL, "left"), NoRedRed(t, N, NIL, NIL),
           NEW z, NEW k, NEW e, NEW p, NEW c, Loose(t, N, z, k, e, p, c),
           CutIs(w, t, z, k, p, c)
    PROVE  ToRepair(w, N \ {z}, CutHeights(N, h, z), k, t.color[z])
<1> DEFINE M == N \ {z}
           f == CutHeights(N, h, z)
<1>1. /\ z \in N /\ k \in M \cup {NIL} /\ k # z /\ e \in Side /\ c \in Side
      /\ p \in M \cup {NIL} /\ p # z /\ (p = NIL <=> z = t.root)
      /\ t.kid[z][e] = k
      /\ p # NIL => t.kid[p][c] = z
      /\ k # NIL => k # t.root
      /\ N \subseteq Ref /\ NIL \notin N /\ NIL \in Ref /\ t.root \in N
  BY DEF Loose
<1>2. \A n \in M, a \in Side :
          /\ t.kid[n][a] \in N \cup {NIL}
          /\ ~(n = p /\ a = c) => t.kid[n][a] # z
  BY DEF Loose
<1>3. /\ w.root = (IF p = NIL THEN k ELSE t.root) /\ w.color = t.color
      /\ \A n \in Ref : w.parent[n] = IF n = k THEN p ELSE t.parent[n]
      /\ \A n \in Ref, a \in Side :
            w.kid[n][a] = IF n = p /\ n # NIL /\ a = c THEN k ELSE t.kid[n][a]
  BY DEF CutIs
<1>4. /\ h \in [N \cup {NIL} -> Nat] /\ h[NIL] = 0
      /\ \A m \in N, a \in Side : h[m] = h[t.kid[m][a]] + Black(t, m)
  <2>1. \A m \in N, a \in Side : Gap(m, a, NIL, "left") = 0
    BY <1>1 DEF Gap
  <2>2. /\ h \in [N \cup {NIL} -> Nat] /\ h[NIL] = 0
        /\ \A m \in N, a \in Side : h[m] = (h[t.kid[m][a]] + Black(t, m)) + Gap(m, a, NIL, "left")
        /\ \A m \in N, a \in Side : t.kid[m][a] \in N \cup {NIL}
    BY DEF Heights, Shape
  <2>3. \A m \in N : Black(t, m) \in Nat
    BY DEF Black
  <2> QED BY <2>1, <2>2, <2>3, <1>1
<1>5. f \in [M \cup {NIL} -> Nat] /\ f[NIL] = 0 /\ \A n \in M : f[n] = h[n]
  BY <1>1, <1>4 DEF CutHeights
<1>6. /\ t.color[NIL] = "black" /\ t.color[t.root] # "red"
      /\ \A n \in N, a \in Side : t.color[n] = "red" => t.color[t.kid[n][a]] # "red"
  BY <1>1 DEF NoRedRed
<1>7. \A n \in M : Black(w, n) = Black(t, n) /\ Black(t, n) \in Nat
  BY <1>3 DEF Black
<1>8. ASSUME NEW n \in M, NEW a \in Side, ~(n = p /\ a = c)
      PROVE  w.kid[n][a] = t.kid[n][a] /\ t.kid[n][a] \in M \cup {NIL}
             /\ f[n] = f[w.kid[n][a]] + Black(w, n)
  BY <1>1, <1>2, <1>3, <1>4, <1>5, <1>7, <1>8
<1>9. ASSUME p # NIL
      PROVE  /\ w.kid[p][c] = k /\ p \in M
             /\ f[p] = (f[k] + Black(t, z)) + Black(w, p)
             /\ f[k] \in Nat /\ Black(t, z) \in Nat /\ Black(w, p) \in Nat
             /\ f[p] = h[z] + Black(w, p) /\ h[z] = f[k] + Black(t, z)
  <2>1. h[p] = h[z] + Black(t, p) /\ h[z] = h[k] + Black(t, z)
    BY <1>1, <1>4, <1>9
  <2>2. f[p] = h[p] /\ f[k] = h[k] /\ f[k] \in Nat /\ Black(t, z) \in Nat
    BY <1>1, <1>4, <1>5, <1>9 DEF Black
  <2> QED BY <2>1, <2>2, <1>1, <1>3, <1>7, <1>9
<1> HIDE DEF f
<1>10. CASE t.color[z] = "black"
  <2>1. NoRedRed(w, M, k, k)
    <3>1. w.color[NIL] = "black" /\ (w.color[w.root] = "red" => w.root = k)
      BY <1>3, <1>6
    <3>2. ASSUME NEW n \in M, NEW a \in Side, w.color[n] = "red", w.color[w.kid[n][a]] = "red"
          PROVE  w.kid[n][a] = k
      BY <3>2, <1>1, <1>3, <1>6, <1>8, <1>9
    <3> QED BY <3>1, <3>2 DEF NoRedRed
  <2>2. Black(t, z) = 1
    BY <1>10 DEF Black
  <2>3. CASE p = NIL
    <3>1. w.root = k
      BY <2>3, <1>3
    <3>2. \A n \in M, a \in Side :
             f[n] = f[w.kid[n][a]] + Black(w, n) + Gap(n, a, NIL, "left")
      <4>1. \A n \in M, a \in Side : /\ n # NIL /\ f[n] = f[w.kid[n][a]] + Black(w, n)
                                     /\ f[w.kid[n][a]] \in Nat /\ Black(w, n) \in Nat
        BY <2>3, <1>1, <1>5, <1>7, <1>8
      <4> QED BY <4>1 DEF Gap
    <3>3. Heights(w, M, f, NIL, "left")
      BY <3>2, <1>5 DEF Heights
    <3>4. Climbed(w, M, f, k)
      BY <2>1, <3>1, <3>3 DEF Climbed
    <3> QED BY <3>4, <1>10 DEF ToRepair, f
  <2>4. CASE p # NIL
    <3>1. k # w.root /\ w.parent[k] = p /\ w.kid[p][c] = k /\ p \in M
      BY <2>4, <1>1, <1>3, <1>9
    <3>2. k = NIL => w.kid[p][Other(c)] # NIL
      <4>1. Other(c) \in Side /\ Other(c) # c
        BY <1>1, Sides
      <4>2. f[p] = f[w.kid[p][Other(c)]] + Black(w, p)
        BY <3>1, <4>1, <1>8
      <4>3. f[w.kid[p][Other(c)]] \in Nat
        BY <3>1, <4>1, <1>8, <1>5
      <4>4. f[w.kid[p][Other(c)]] = f[k] + 1 /\ f[k] \in Nat
        BY <4>2, <4>3, <2>2, <2>4, <1>9
      <4> QED BY <4>4, <1>5
    <3>3. SideOf(w, k) = c
      <4>1. Shape(w, M, CutSets(N, s, z))
        BY CutShape
      <4> QED BY <4>1, <3>1, <3>2, <1>1, SideOfKid
    <3>4. \A n \in M, a \in Side :
             f[n] = f[w.kid[n][a]] + Black(w, n) + Gap(n, a, p, c)
      <4>1. ASSUME NEW n \in M, NEW a \in Side, ~(n = p /\ a = c)
            PROVE  f[n] = f[w.kid[n][a]] + Black(w, n) + Gap(n, a, p, c)
        <5>1. /\ f[n] = f[w.kid[n][a]] + Black(w, n)
              /\ f[w.kid[n][a]] \in Nat /\ Black(w, n) \in Nat
          BY <4>1, <1>5, <1>7, <1>8
        <5>2. Gap(n, a, p, c) = 0
          BY <4>1 DEF Gap
        <5> QED BY <5>1, <5>2
      <4>2. f[p] = f[w.kid[p][c]] + Black(w, p) + Gap(p, c, p, c)
        <5>1. Gap(p, c, p, c) = 1
          BY DEF Gap
        <5> QED BY <5>1, <2>2, <2>4, <1>9
      <4> QED BY <4>1, <4>2
    <3>5. Heights(w, M, f, p, c)
      BY <3>4, <1>5 DEF Heights
    <3>6. Climbed(w, M, f, k)
      BY <2>1, <3>1, <3>3, <3>5 DEF Climbed
    <3> QED BY <3>6, <1>10 DEF ToRepair, f
  <2> QED BY <2>3, <2>4
<1>11. CASE t.color[z] # "black"
  <2>1. t.color[z] = "red"
    BY <1>1, <1>11, RecFields
  <2>2. p # NIL /\ Black(t, z) = 0 /\ t.color[k] # "red"
    BY <2>1, <1>1, <1>6 DEF Black
  <2>3. NoRedRed(w, M, NIL, NIL)
    <3>1. w.color[NIL] = "black" /\ w.color[w.root] # "red"
      BY <2>2, <1>3, <1>6
    <3>2. ASSUME NEW n \in M, NEW a \in Side, w.color[n] = "red"
          PROVE  w.color[w.kid[n][a]] # "red"
      BY <3>2, <2>2, <1>1, <1>3, <1>6, <1>8, <1>9
    <3> QED BY <3>1, <3>2 DEF NoRedRed
  <2>4. \A n \in M, a \in Side :
             f[n] = f[w.kid[n][a]] + Black(w, n) + Gap(n, a, NIL, "left")
    <3>1. ASSUME NEW n \in M, NEW a \in Side
          PROVE  /\ f[n] = f[w.kid[n][a]] + Black(w, n)
                 /\ f[w.kid[n][a]] \in Nat /\ Black(w, n) \in Nat
      <4>1. CASE n = p /\ a = c
        BY <4>1, <2>2, <1>9
      <4>2. CASE ~(n = p /\ a = c)
        BY <4>2, <1>5, <1>7, <1>8
      <4> QED BY <4>1, <4>2
    <3>2. \A n \in M, a \in Side : Gap(n, a, NIL, "left") = 0
      BY <1>1 DEF Gap
    <3> QED BY <3>1, <3>2
  <2>5. Heights(w, M, f, NIL, "left")
    BY <2>4, <1>5 DEF Heights
  <2> QED BY <2>3, <2>5, <1>11 DEF ToRepair, f
<1> QED BY <1>10, <1>11
-----------------------------------------------------------------------------
(* A node takes the place of another                                       *)

Ren(z, y, n) == IF n = z THEN y ELSE n

\* w is t with y for z; of the parent of NIL only that of x matters.
Renamed(t, w, M, z, y, x) ==
    /\ w \in TreeRec /\ z \in M /\ y \in Addr \ M /\ w.root = Ren(z, y, t.root)
    /\ \A n \in M \cup {NIL} : w.color[Ren(z, y, n)] = t.color[n]
    /\ \A n \in M \cup {x} : w.parent[Ren(z, y, n)] = Ren(z, y, t.parent[n])
    /\ \A n \in M, e \in Side : w.kid[Ren(z, y, n)][e] = Ren(z, y, t.kid[n][e])

\* y fits where z is.
Fits(t, M, r, z, y) ==
    /\ \A e \in Side : \A m \in r[t.kid[z][e]] : Before(e, m, y)
    /\ \A n \in M, e \in Side : z \in r[t.kid[n][e]] => Before(e, y, n)

NewNodes(M, z, y) == (M \ {z}) \cup {y}
RenSets(M, r, z, y) ==
    [n \in NewNodes(M, z, y) \cup {NIL} |->
        {m \in NewNodes(M, z, y) : Ren(y, z, m) \in r[Ren(y, z, n)]}]
RenHeights(M, h, z, y) == [n \in NewNodes(M, z, y) \cup {NIL} |-> h[Ren(y, z, n)]]

\* Renaming there and back.
LEMMA RenBack ==
    ASSUME NEW M, NEW z \in M, NEW y, y \notin M, NIL \notin M, y # NIL
    PROVE  /\ \A n \in NewNodes(M, z, y) :
                 Ren(y, z, n) \in M /\ Ren(z, y, Ren(y, z, n)) = n
           /\ \A n \in M : Ren(z, y, n) \in NewNodes(M, z, y) /\ Ren(y, z, Ren(z, y, n)) = n
           /\ Ren(z, y, NIL) = NIL /\ Ren(y, z, NIL) = NIL
           /\ NIL \notin NewNodes(M, z, y)
  BY DEF Ren, NewNodes

\* A node y that takes over parent, children and color of z makes a tree of the
\* same shape: removing a node with two children is removing its successor and then
\* renaming.
LEMMA RenShape ==
    ASSUME NEW t \in TreeRec, NEW M, NEW r, Shape(t, M, r), NEW w, NEW z, NEW y, NEW x,
           Renamed(t, w, M, z, y, x), Fits(t, M, r, z, y)
    PROVE  Shape(w, NewNodes(M, z, y), RenSets(M, r, z, y))
<1> DEFINE K == NewNodes(M, z, y)
           s == RenSets(M, r, z, y)
           R(n) == Ren(z, y, n)
           B(n) == Ren(y, z, n)
<1>0. z \in M /\ y \notin M /\ y \in Addr /\ NIL \notin M /\ y # NIL /\ M \subseteq Addr /\ z # y
  BY AddrFacts DEF Renamed, Shape
<1>1. /\ \A n \in K : B(n) \in M /\ R(B(n)) = n
      /\ \A n \in M : R(n) \in K /\ B(R(n)) = n
      /\ R(NIL) = NIL /\ B(NIL) = NIL /\ NIL \notin K
  BY <1>0, RenBack
<1>2. /\ w.root = R(t.root)
      /\ \A n \in M : w.parent[R(n)] = R(t.parent[n])
      /\ \A n \in M, e \in Side : w.kid[R(n)][e] = R(t.kid[n][e])
  BY DEF Renamed
<1>3. /\ r \in [M \cup {NIL} -> SUBSET M] /\ r[NIL] = {}
      /\ t.root \in M \cup {NIL} /\ r[t.root] = M
      /\ t.root # NIL => t.parent[t.root] = NIL
      /\ \A n \in M, e \in Side : t.kid[n][e] \in M \cup {NIL}
  BY DEF Shape
<1>4. /\ s \in [K \cup {NIL} -> SUBSET K]
      /\ \A n \in K \cup {NIL} : s[n] = {m \in K : B(m) \in r[B(n)]}
  BY DEF RenSets
<1>5. \A n : (n = y => B(n) = z) /\ (n # y => B(n) = n)
  BY DEF Ren
<1>6. K \subseteq Addr
  BY <1>0 DEF NewNodes
<1> HIDE DEF K, s, R, B
<1>7. s[NIL] = {}
  BY <1>1, <1>3, <1>4
<1>8. w.root \in K \cup {NIL} /\ s[w.root] = K /\ (w.root # NIL => w.parent[w.root] = NIL)
  <2>1. CASE t.root = NIL
    <3>1. M = {}
      BY <2>1, <1>3
    <3> QED BY <3>1, <1>0
  <2>2. CASE t.root # NIL
    <3>1. t.root \in M /\ w.root \in K /\ B(w.root) = t.root
      BY <2>2, <1>1, <1>2, <1>3
    <3>2. s[w.root] = {m \in K : B(m) \in M}
      BY <3>1, <1>3, <1>4
    <3>3. s[w.root] = K
      BY <3>2, <1>1
    <3> QED BY <2>2, <3>1, <3>3, <1>1, <1>2, <1>3
  <2> QED BY <2>1, <2>2
<1>9. ASSUME NEW n \in K, NEW e \in Side
      PROVE  /\ w.kid[n][e] \in K \cup {NIL}
             /\ B(w.kid[n][e]) = t.kid[B(n)][e]
             /\ \A m \in s[w.kid[n][e]] : Before(e, m, n)
             /\ w.kid[n][e] # NIL => w.parent[w.kid[n][e]] = n
  <2> DEFINE b == B(n)
             k == t.kid[b][e]
             v == w.kid[n][e]
  <2>1. b \in M /\ R(b) = n /\ k \in M \cup {NIL} /\ v = R(k)
    BY <1>1, <1>2, <1>3
  <2>2. v \in K \cup {NIL} /\ B(v) = k /\ (v # NIL => k # NIL)
    BY <2>1, <1>1
  <2>3. v # NIL => w.parent[v] = n
    <3>1. k # NIL => t.parent[k] = b
      BY <2>1 DEF Shape
    <3> QED BY <2>1, <2>2, <3>1, <1>2
  <2>4. ASSUME NEW m \in s[v] PROVE Before(e, m, n)
    <3>1. m \in K /\ B(m) \in r[k]
      BY <2>2, <1>4
    <3>2. Before(e, B(m), b)
      BY <3>1, <2>1 DEF Shape
    <3>3. CASE n = y
      <4>1. b = z /\ z \notin r[k]
        <5>1. b = z
          BY <3>3, <1>5, <1>0
        <5>2. b \notin r[k]
          BY <2>1, Kids
        <5> QED BY <5>1, <5>2
      <4>2. B(m) = m
        BY <3>1, <4>1, <1>5
      <4> QED BY <3>1, <3>3, <4>1, <4>2 DEF Fits
    <3>4. CASE n # y /\ m = y
      <4>1. b = n /\ B(m) = z
        BY <3>1, <3>4, <1>5
      <4> QED BY <2>1, <3>1, <3>4, <4>1 DEF Fits
    <3>5. CASE n # y /\ m # y
      <4>1. b = n /\ B(m) = m
        BY <3>1, <3>5, <1>5
      <4> QED BY <3>2, <4>1
    <3> QED BY <3>3, <3>4, <3>5
  <2> QED BY <2>2, <2>3, <2>4
<1>10. ASSUME NEW n \in K, NEW m \in K
       PROVE  m \in s[n] <=> m = n \/ \E e \in Side : m \in s[w.kid[n][e]]
  <2>1. B(m) \in r[B(n)] <=> B(m) = B(n) \/ \E e \in Side : B(m) \in r[t.kid[B(n)][e]]
    BY <1>1 DEF Shape
  <2>2. B(m) = B(n) <=> m = n
    BY <1>1
  <2>3. ASSUME NEW e \in Side
        PROVE  m \in s[w.kid[n][e]] <=> B(m) \in r[t.kid[B(n)][e]]
    BY <1>4, <1>9
  <2>4. m \in s[n] <=> B(m) \in r[B(n)]
    BY <1>4
  <2> QED BY <2>1, <2>2, <2>3, <2>4
<1>11. Shape(w, K, s)
  BY ONLY <1>4, <1>6, <1>7, <1>8, <1>9, <1>10 DEF Shape
<1> QED BY <1>11 DEF K, s

LEMMA RenBalance ==
    ASSUME NEW t \in TreeRec, NEW M, NEW r, Shape(t, M, r), NEW w, NEW z, NEW y, NEW x,
           Renamed(t, w, M, z, y, x), NEW h, NEW q \in M \cup {NIL}, NEW g,
           NEW a \in M \cup {NIL}
    PROVE  /\ Heights(t, M, h, q, g) =>
                 Heights(w, NewNodes(M, z, y), RenHeights(M, h, z, y), Ren(z, y, q), g)
           /\ NoRedRed(t, M, a, a) =>
                 NoRedRed(w, NewNodes(M, z, y), Ren(z, y, a), Ren(z, y, a))
<1> DEFINE K == NewNodes(M, z, y)
           f == RenHeights(M, h, z, y)
           R(n) == Ren(z, y, n)
           B(n) == Ren(y, z, n)
<1>0. z \in M /\ y \notin M /\ y \in Addr /\ NIL \notin M /\ y # NIL /\ M \subseteq Addr /\ z # y
  BY AddrFacts DEF Renamed, Shape
<1>1. /\ \A n \in K : B(n) \in M /\ R(B(n)) = n
      /\ \A n \in M : R(n) \in K /\ B(R(n)) = n
      /\ R(NIL) = NIL /\ B(NIL) = NIL /\ NIL \notin K
  BY <1>0, RenBack
<1>2. /\ w.root = R(t.root)
      /\ \A n \in M \cup {NIL} : w.color[R(n)] = t.color[n]
      /\ \A n \in M, e \in Side : w.kid[R(n)][e] = R(t.kid[n][e])
      /\ \A n \in M, e \in Side : t.kid[n][e] \in M \cup {NIL}
      /\ t.root \in M \cup {NIL}
  BY DEF Renamed, Shape
<1>3. f = [n \in K \cup {NIL} |-> h[B(n)]]
  BY DEF RenHeights
<1> HIDE DEF K, R, B, f
<1>4. ASSUME NEW n \in K, NEW e \in Side
      PROVE  /\ w.color[n] = t.color[B(n)] /\ Black(w, n) = Black(t, B(n))
             /\ w.kid[n][e] \in K \cup {NIL} /\ B(w.kid[n][e]) = t.kid[B(n)][e]
             /\ w.kid[n][e] = R(t.kid[B(n)][e])
             /\ w.color[w.kid[n][e]] = t.color[t.kid[B(n)][e]]
  <2>1. B(n) \in M /\ R(B(n)) = n
    BY <1>1
  <2>2. w.color[n] = t.color[B(n)]
    BY <2>1, <1>2
  <2>3. w.kid[n][e] = R(t.kid[B(n)][e]) /\ t.kid[B(n)][e] \in M \cup {NIL}
    BY <2>1, <1>2
  <2>4. w.color[w.kid[n][e]] = t.color[t.kid[B(n)][e]]
    BY <2>3, <1>2
  <2>5. w.kid[n][e] \in K \cup {NIL} /\ B(w.kid[n][e]) = t.kid[B(n)][e]
    BY <2>3, <1>1
  <2> QED BY <2>2, <2>3, <2>4, <2>5 DEF Black
<1>5. ASSUME Heights(t, M, h, q, g) PROVE Heights(w, K, f, R(q), g)
  <2>1. /\ h \in [M \cup {NIL} -> Nat] /\ h[NIL] = 0
        /\ \A n \in M, e \in Side : h[n] = h[t.kid[n][e]] + Black(t, n) + Gap(n, e, q, g)
    BY <1>5 DEF Heights
  <2>2. f \in [K \cup {NIL} -> Nat] /\ f[NIL] = 0
    BY <2>1, <1>1, <1>3
  <2>3. ASSUME NEW n \in K, NEW e \in Side
        PROVE  f[n] = f[w.kid[n][e]] + Black(w, n) + Gap(n, e, R(q), g)
    <3>1. Gap(n, e, R(q), g) = Gap(B(n), e, q, g)
      <4>1. n = R(q) <=> B(n) = q
        BY <1>1
      <4> QED BY <4>1 DEF Gap
    <3>2. f[n] = h[B(n)] /\ f[w.kid[n][e]] = h[t.kid[B(n)][e]] /\ B(n) \in M
      BY <1>1, <1>3, <1>4
    <3> QED BY <2>1, <3>1, <3>2, <1>4
  <2> QED BY <2>2, <2>3 DEF Heights
<1>6. ASSUME NoRedRed(t, M, a, a) PROVE NoRedRed(w, K, R(a), R(a))
  <2>0. /\ t.color[NIL] = "black"
        /\ t.color[t.root] = "red" => t.root = a
        /\ \A n \in M, d \in Side :
            t.color[n] = "red" /\ t.color[t.kid[n][d]] = "red" => t.kid[n][d] = a \/ n = a
    BY <1>6 DEF NoRedRed
  <2>1. w.color[NIL] = "black" /\ (w.color[w.root] = "red" => w.root = R(a))
    BY <2>0, <1>1, <1>2
  <2>2. ASSUME NEW n \in K, NEW d \in Side, w.color[n] = "red", w.color[w.kid[n][d]] = "red"
        PROVE  w.kid[n][d] = R(a) \/ n = R(a)
    <3>1. t.kid[B(n)][d] = a \/ B(n) = a
      BY <2>0, <2>2, <1>1, <1>4
    <3> QED BY <3>1, <1>1, <1>4
  <2> QED BY <2>1, <2>2 DEF NoRedRed
<1> QED BY <1>5, <1>6 DEF K, f, R

\* What delete_fixup has to repair is not touched by the renaming.
LEMMA RenRepair ==
    ASSUME NEW t \in TreeRec, NEW M, NEW r, Shape(t, M, r), NEW w, NEW z, NEW y,
           NEW x \in M \cup {NIL}, x # z, Renamed(t, w, M, z, y, x), NEW h, NEW color,
           ToRepair(t, M, h, x, color)
    PROVE  ToRepair(w, NewNodes(M, z, y), RenHeights(M, h, z, y), x, color)
<1> DEFINE K == NewNodes(M, z, y)
           f == RenHeights(M, h, z, y)
<1>a. z \in M /\ y \notin M /\ y \in Addr /\ NIL \notin M /\ y # NIL
  BY AddrFacts, Zenon DEF Renamed, Shape
<1>b. z # y /\ x # y
  BY <1>a
<1>c. t.root \in M \cup {NIL} /\ r[t.root] = M /\ r[NIL] = {}
  BY DEF Shape
<1>0. /\ z \in M /\ y \notin M /\ NIL \notin M /\ y # NIL /\ z # y /\ x # y
      /\ t.root \in M
  BY <1>a, <1>b, <1>c
<1>1. Ren(z, y, NIL) = NIL /\ Ren(z, y, x) = x /\ "left" \in Side
  BY <1>0 DEF Ren, Side
<1>2. CASE color = "black"
  <2>1. Climbed(t, M, h, x)
    BY <1>2 DEF ToRepair
  <2>2. NoRedRed(w, K, x, x)
    BY <2>1, <1>1, RenBalance DEF Climbed
  <2>3. w.root = Ren(z, y, t.root) /\ (w.root = x <=> t.root = x)
    BY <1>0 DEF Renamed, Ren
  <2>4. CASE x = t.root
    <3>1. Heights(t, M, h, NIL, "left")
      BY <2>1, <2>4 DEF Climbed
    <3>2. Heights(w, K, f, NIL, "left")
      <4>1. Heights(w, K, f, Ren(z, y, NIL), "left")
        BY <3>1, RenBalance
      <4> QED BY <4>1, <1>1
    <3>3. Climbed(w, K, f, x)
      BY <2>2, <2>3, <2>4, <3>2 DEF Climbed
    <3> QED BY <3>3, <1>2 DEF ToRepair
  <2>5. CASE x # t.root
    <3> DEFINE p == t.parent[x]
               c == SideOf(t, x)
    <3>1. p \in M /\ t.kid[p][c] = x /\ Heights(t, M, h, p, c) /\ c \in Side
      BY <2>1, <2>5, SideOfType DEF Climbed
    <3>2. w.parent[x] = Ren(z, y, p)
      <4>1. w.parent[Ren(z, y, x)] = Ren(z, y, t.parent[x])
        BY DEF Renamed
      <4> QED BY <4>1, <1>1
    <3>3. \A e \in Side : w.kid[Ren(z, y, p)][e] = Ren(z, y, t.kid[p][e])
      BY <3>1 DEF Renamed
    <3>4. \A e \in Side : w.kid[w.parent[x]][e] = x <=> t.kid[p][e] = x
      BY <3>2, <3>3, <1>0 DEF Ren
    <3>5. SideOf(w, x) = c
      BY <3>4, Sides DEF SideOf
    <3>6. Heights(w, K, f, Ren(z, y, p), c)
      BY <3>1, RenBalance
    <3>7. Ren(z, y, p) \in K
      BY <3>1, <1>0, RenBack
    <3> HIDE DEF p, c
    <3>8. /\ w.parent[x] \in K /\ w.kid[w.parent[x]][SideOf(w, x)] = x
          /\ Heights(w, K, f, w.parent[x], SideOf(w, x))
      BY <3>1, <3>2, <3>4, <3>5, <3>6, <3>7
    <3>9. Climbed(w, K, f, x)
      BY <2>2, <2>3, <2>5, <3>8 DEF Climbed
    <3> QED BY <3>9, <1>2 DEF ToRepair
  <2> QED BY <2>4, <2>5
<1>3. CASE color # "black"
  <2>1. Heights(t, M, h, NIL, "left") /\ NoRedRed(t, M, NIL, NIL)
    BY <1>3 DEF ToRepair
  <2>2. Heights(w, K, f, Ren(z, y, NIL), "left")
    BY <2>1, RenBalance
  <2>3. NoRedRed(w, K, Ren(z, y, NIL), Ren(z, y, NIL))
    BY <2>1, RenBalance
  <2> QED BY <2>2, <2>3, <1>1, <1>3 DEF ToRepair
<1> QED BY <1>2, <1>3
\* Where z hangs.
Hangs(t, N, z, p, c) ==
    /\ p \in N \cup {NIL} /\ c \in Side /\ p # z /\ (p = NIL <=> z = t.root)
    /\ p # NIL => t.kid[p][c] = z
    /\ \A n \in N, a \in Side : t.kid[n][a] = z => n = p /\ a = c

LEMMA ParentSide ==
    ASSUME NEW t, NEW N, NEW s, Shape(t, N, s), NEW z \in N
    PROVE  /\ Hangs(t, N, z, t.parent[z], SideOf(t, z)) /\ t.parent[z] \notin s[z]
<1> DEFINE p == t.parent[z]
           c == SideOf(t, z)
<1>1. c \in Side /\ z # NIL /\ NIL \notin N
  BY SideOfType, AddrFacts, Zenon DEF Shape
<1>2. \A n \in N, a \in Side : t.kid[n][a] = z => n = p
  BY <1>1 DEF Shape
<1>3. \A n \in N, a \in Side : t.kid[n][a] = z => a = c
  <2>1. SUFFICES ASSUME NEW n \in N, NEW a \in Side, t.kid[n][a] = z PROVE a = c
    OBVIOUS
  <2>2. t.parent[z] = n
    BY <2>1, <1>2
  <2> QED BY <2>1, <2>2, <1>1, SideOfKid
<1>4. CASE z = t.root
  <2>1. p = NIL /\ NIL \notin s[z]
    BY <1>1, <1>4 DEF Shape
  <2> QED BY <2>1, <1>1, <1>2, <1>3, <1>4 DEF Hangs
<1>5. CASE z # t.root
  <2>1. p \in N /\ p # z /\ p \notin s[z] /\ \E d \in Side : t.kid[p][d] = z
    BY <1>5, Parents
  <2> HIDE DEF p, c
  <2>2. t.kid[p][c] = z
    BY <2>1, <1>3
  <2>3. Hangs(t, N, z, p, c) /\ p \notin s[z]
    BY <2>1, <2>2, <1>1, <1>2, <1>3, <1>5 DEF Hangs
  <2> QED BY <2>3 DEF p, c
<1> QED BY <1>4, <1>5

\* y is out of t and holds the right subtree of z.
OpenedIs(o, t, M, z, y, x) ==
    /\ o \in TreeRec /\ o.root = t.root /\ o.color = t.color
    /\ \A n \in M, e \in Side : n # z => o.kid[n][e] = t.kid[n][e]
    /\ o.kid[y]["right"] = t.kid[z]["right"]
    /\ \A n \in M \cup {x} : o.parent[n] = IF n = t.kid[z]["right"] THEN y ELSE t.parent[n]

\* The order of the assignments of rb_remove, with two children.
Settled(o, z, y, l, c) == Paint(Adopt(Transplant(o, z, y), y, "left", l), y, c)

\* The order in which rb_remove sets the links of the successor, and the case in
\* which it is z's own child, come to the same renaming.
LEMMA OpenedRenamed ==
    ASSUME NEW t \in TreeRec, NEW M, NEW r, Shape(t, M, r), NEW z \in M,
           NEW y \in Addr \ M, NEW x \in M \cup {NIL}, x # z, NEW l \in M,
           l = t.kid[z]["left"], t.kid[z]["right"] = NIL => x = NIL,
           x = NIL => (t.parent[NIL] = z <=> t.kid[z]["right"] = NIL),
           NEW o, OpenedIs(o, t, M, z, y, x)
    PROVE  Renamed(t, Settled(o, z, y, l, t.color[z]), M, z, y, x)
<1> DEFINE p == t.parent[z]
           c == SideOf(t, z)
           k == t.kid[z]["right"]
           v == Transplant(o, z, y)
           a == Adopt(v, y, "left", l)
           w == Settled(o, z, y, l, t.color[z])
           R(n) == Ren(z, y, n)
<1>1. /\ NIL \notin M /\ M \subseteq Ref /\ NIL \in Ref /\ y \in Ref /\ y # NIL
      /\ y # z /\ y # x /\ y # l /\ l # NIL /\ z # NIL
  BY RefFacts DEF Shape
<1>2. Hangs(t, M, z, p, c)
  BY ParentSide
<1>3. /\ "left" \in Side /\ "right" \in Side /\ Side = {"left", "right"} /\ "left" # "right"
  BY DEF Side
<1>4. /\ k \in M \cup {NIL} /\ k # z /\ l # z /\ t.parent[l] = z /\ l # t.root
      /\ k # NIL => t.parent[k] = z
  BY <1>1, <1>3, Kids
<1>5. /\ o \in TreeRec /\ o.root = t.root /\ o.color = t.color
      /\ \A n \in M, e \in Side : n # z => o.kid[n][e] = t.kid[n][e]
      /\ o.kid[y]["right"] = k
      /\ \A n \in M \cup {x} : o.parent[n] = IF n = k THEN y ELSE t.parent[n]
  BY DEF OpenedIs
<1>6. o.parent[z] = p /\ p \in M \cup {NIL} /\ p # z
  BY <1>2, <1>4, <1>5 DEF Hangs
<1>7. p # NIL => SideOf(o, z) = c
  <2>1. p # NIL => o.kid[p]["left"] = t.kid[p]["left"]
    BY <1>3, <1>5, <1>6
  <2> QED BY <2>1, <1>6 DEF SideOf
<1>8. TransplantIs(v, o, z, y)
  BY <1>1, <1>5, TransplantFields
<1> HIDE DEF v
<1>9. /\ v \in TreeRec
      /\ v.root = (IF p = NIL THEN y ELSE t.root)
      /\ v.color = t.color
      /\ \A n \in Ref : v.parent[n] = IF n = y THEN p ELSE o.parent[n]
      /\ \A n \in Ref, e \in Side :
            v.kid[n][e] = IF n = p /\ n # NIL /\ e = c THEN y ELSE o.kid[n][e]
  <2> HIDE DEF p, c
  <2> QED BY <1>5, <1>6, <1>7, <1>8 DEF TransplantIs
<1>10. AdoptIs(a, v, y, "left", l)
  BY <1>1, <1>3, <1>9, AdoptFields
<1>11. w = Paint(a, y, t.color[z])
  BY DEF Settled, v
<1>12. t.color[z] \in {"red", "black"}
  BY <1>1, RecFields
<1>13. a \in TreeRec
  BY <1>10 DEF AdoptIs
<1> HIDE DEF a
<1>14. PaintIs(w, a, y, t.color[z])
  BY <1>1, <1>11, <1>12, <1>13, PaintFields
<1> HIDE DEF w, p, c, k
<1>15. /\ w \in TreeRec /\ w.root = (IF p = NIL THEN y ELSE t.root)
       /\ w.kid = a.kid /\ w.parent = a.parent
       /\ \A n \in Ref : w.color[n] = IF n = y THEN t.color[z] ELSE t.color[n]
  BY <1>9, <1>10, <1>14 DEF PaintIs, SameLinks, AdoptIs
<1>16. /\ \A n \in Ref : w.parent[n] = IF n = l THEN y ELSE v.parent[n]
       /\ \A n \in Ref, e \in Side :
             w.kid[n][e] = IF n = y /\ e = "left" THEN l ELSE v.kid[n][e]
  BY <1>10, <1>15 DEF AdoptIs
<1>17. w.root = R(t.root)
  BY <1>2, <1>15 DEF Hangs, Ren
<1>18. \A n \in M \cup {NIL} : w.color[R(n)] = t.color[n]
  BY <1>1, <1>15 DEF Ren
<1>19. ASSUME NEW n \in M, NEW e \in Side PROVE w.kid[R(n)][e] = R(t.kid[n][e])
  <2>1. CASE n = z
    <3>1. R(n) = y
      BY <2>1 DEF Ren
    <3>2. y # p
      BY <1>1, <1>6
    <3>3. CASE e = "left"
      <4>1. w.kid[y][e] = l
        BY <3>3, <1>1, <1>16
      <4> QED BY <2>1, <3>1, <3>3, <4>1, <1>4 DEF Ren
    <3>4. CASE e = "right"
      <4>1. w.kid[y][e] = k
        BY <3>2, <3>4, <1>1, <1>3, <1>5, <1>9, <1>16
      <4>2. t.kid[n][e] = k
        BY <2>1, <3>4 DEF k
      <4> QED BY <3>1, <4>1, <4>2, <1>4 DEF Ren
    <3> QED BY <3>3, <3>4, <1>3
  <2>2. CASE n # z
    <3>1. R(n) = n /\ n # y
      BY <2>2, <1>1 DEF Ren
    <3>2. w.kid[n][e] = IF n = p /\ e = c THEN y ELSE t.kid[n][e]
      BY <2>2, <3>1, <1>1, <1>5, <1>9, <1>16
    <3>3. t.kid[n][e] = z <=> n = p /\ e = c
      BY <1>1, <1>2 DEF Hangs
    <3> QED BY <3>1, <3>2, <3>3 DEF Ren
  <2> QED BY <2>1, <2>2
<1>20. ASSUME NEW n \in M \cup {x} PROVE w.parent[R(n)] = R(t.parent[n])
  <2>1. CASE n = z
    <3>1. R(n) = y /\ R(p) = p
      BY <2>1, <1>6 DEF Ren
    <3>2. w.parent[y] = p
      BY <1>1, <1>9, <1>16
    <3> QED BY <2>1, <3>1, <3>2 DEF p
  <2>2. CASE n # z
    <3>1. R(n) = n /\ n # y /\ n \in Ref
      BY <2>2, <1>1 DEF Ren
    <3>2. w.parent[n] = IF n = l THEN y ELSE IF n = k THEN y ELSE t.parent[n]
      BY <2>2, <3>1, <1>1, <1>5, <1>9, <1>16
    <3>3. t.parent[n] = z <=> n = l \/ n = k
      <4>1. n = l \/ n = k => t.parent[n] = z
        <5>1. ASSUME n = NIL PROVE n = k => t.parent[n] = z
          BY <5>1, <1>1 DEF k
        <5> QED BY <5>1, <1>4
      <4>2. ASSUME t.parent[n] = z, n # NIL PROVE n = l \/ n = k
        <5>1. n \in M
          BY <4>2
        <5>2. n # t.root
          BY <4>2, <1>1 DEF Shape
        <5>3. \E d \in Side : t.kid[t.parent[n]][d] = n
          BY <5>1, <5>2, Parents
        <5> QED BY <4>2, <5>3, <1>3 DEF k
      <4>3. ASSUME t.parent[n] = z, n = NIL PROVE n = k
        BY <4>3, <1>1 DEF k
      <4> QED BY <4>1, <4>2, <4>3
    <3> QED BY <3>1, <3>2, <3>3 DEF Ren
  <2> QED BY <2>1, <2>2
<1>21. Renamed(t, w, M, z, y, x)
  BY <1>15, <1>17, <1>18, <1>19, <1>20 DEF Renamed
<1> QED BY <1>21 DEF w
LEMMA SettledKept ==
    ASSUME NEW o \in TreeRec, NEW N, N \subseteq Ref, NEW z \in N, NEW y \in N,
           NEW l \in N, o.parent[z] \in N \cup {NIL}, NEW c \in {"red", "black"}
    PROVE  Kept(o, Settled(o, z, y, l, c), N) /\ Settled(o, z, y, l, c) \in TreeRec
<1> DEFINE v == Transplant(o, z, y)
           a == Adopt(v, y, "left", l)
           w == Settled(o, z, y, l, c)
<1>0. z \in Ref /\ y \in Ref /\ l \in Ref /\ "left" \in Side
  BY Sides
<1>1. TransplantIs(v, o, z, y)
  BY <1>0, TransplantFields
<1>2. v \in TreeRec /\ Kept(o, v, N)
  BY <1>1 DEF TransplantIs, Kept
<1> HIDE DEF v
<1>3. AdoptIs(a, v, y, "left", l)
  BY <1>0, <1>2, AdoptFields
<1>4. a \in TreeRec /\ Kept(v, a, N)
  BY <1>3 DEF AdoptIs, Kept
<1>5. w = Paint(a, y, c)
  BY DEF Settled, v
<1> HIDE DEF a
<1>6. PaintIs(w, a, y, c)
  BY <1>0, <1>4, <1>5, PaintFields
<1> HIDE DEF w
<1>7. w \in TreeRec /\ w.kid = a.kid
  BY <1>6 DEF PaintIs
<1>8. Kept(o, w, N)
  BY <1>2, <1>4, <1>7 DEF Kept
<1> QED BY <1>7, <1>8 DEF w

\* What rb_remove has done when the node z is out of the tree.
UnlinkedIs(t, N, z, u) ==
    /\ u.tree \in TreeRec /\ u.x \in (N \ {z}) \cup {NIL}
    /\ u.color \in {"red", "black"} /\ Kept(t, u.tree, N)
    /\ \E r, f : Shape(u.tree, N \ {z}, r) /\ ToRepair(u.tree, N \ {z}, f, u.x, u.color)

\* rb_remove of a node with one child at most.
LEMMA UnlinkedOne ==
    ASSUME NEW t, NEW N, NEW s, NEW h, Balanced(t, N, s, h), NEW z \in N,
           NEW e \in Side, t.kid[z][Other(e)] = NIL
    PROVE  LET k == t.kid[z][e]
           IN  UnlinkedIs(t, N, z, [tree |-> Transplant(t, z, k), x |-> k, color |-> t.color[z]])
<1> DEFINE k == t.kid[z][e]
           p == t.parent[z]
           c == SideOf(t, z)
           w == Transplant(t, z, k)
<1>1. /\ t \in TreeRec /\ Shape(t, N, s) /\ Heights(t, N, h, NIL, "left")
      /\ NoRedRed(t, N, NIL, NIL)
  BY DEF Balanced
<1>2. Loose(t, N, z, k, e, p, c)
  BY <1>1, LooseThere
<1> HIDE DEF k, p, c
<1>3. z \in Ref /\ k \in Ref /\ k \in (N \ {z}) \cup {NIL} /\ p \in N \cup {NIL}
  BY <1>2 DEF Loose
<1>4. TransplantIs(w, t, z, k)
  BY <1>1, <1>3, TransplantFields
<1> HIDE DEF w
<1>5. CutIs(w, t, z, k, p, c)
  BY <1>4 DEF TransplantIs, CutIs, p, c
<1>6. Shape(w, N \ {z}, CutSets(N, s, z))
  BY <1>1, <1>2, <1>5, CutShape
<1>7. ToRepair(w, N \ {z}, CutHeights(N, h, z), k, t.color[z])
  BY <1>1, <1>2, <1>5, CutRepair, Zenon
<1>8. w \in TreeRec /\ Kept(t, w, N)
  BY <1>3, <1>5 DEF CutIs, Kept
<1>9. t.color[z] \in {"red", "black"}
  BY <1>1, <1>3, RecFields
<1> DEFINE u == [tree |-> w, x |-> k, color |-> t.color[z]]
<1>10. u.tree = w /\ u.x = k /\ u.color = t.color[z]
  OBVIOUS
<1> HIDE DEF u
<1>11. UnlinkedIs(t, N, z, u)
  BY <1>3, <1>6, <1>7, <1>8, <1>9, <1>10 DEF UnlinkedIs
<1> QED BY <1>11 DEF u, k, w

\* The successor y of z, and the tree o with it taken out.
LEMMA UnlinkedTwo ==
    ASSUME NEW t, NEW N, NEW s, NEW h, Balanced(t, N, s, h), NEW z \in N,
           NEW l, NEW r, l = t.kid[z]["left"], r = t.kid[z]["right"], l # NIL, r # NIL,
           NEW y, IsLeast(y, s[r]), NEW x, x = t.kid[y]["right"], NEW o,
           o = IF t.parent[y] = z THEN [t EXCEPT !.parent[x] = y]
               ELSE Adopt(Transplant(t, y, x), y, "right", r)
    PROVE  UnlinkedIs(t, N, z, [tree |-> Settled(o, z, y, l, t.color[z]), x |-> x,
                                color |-> t.color[y]])
<1> DEFINE q == t.parent[y]
           c == SideOf(t, y)
           M == N \ {y}
           v == Transplant(t, y, x)
           f == CutSets(N, s, y)
<1>1. /\ t \in TreeRec /\ Shape(t, N, s) /\ Heights(t, N, h, NIL, "left")
      /\ NoRedRed(t, N, NIL, NIL)
  BY DEF Balanced
<1>2. "left" \in Side /\ "right" \in Side /\ Other("right") = "left" /\ "left" # "right"
      /\ Side = {"left", "right"} /\ Other("left") = "right"
  BY DEF Side, Other
<1>3. /\ l \in N /\ r \in N /\ l # r /\ l # z /\ r # z /\ z \notin s[r] /\ z \notin s[l]
      /\ s[l] \cap s[r] = {} /\ r \in s[r] /\ l \in s[l] /\ t.parent[r] = z /\ z # NIL
      /\ t.parent[l] = z
  <2>1. /\ l \in N \cup {NIL} /\ l # z /\ z # NIL /\ z \notin s[l] /\ l # r
        /\ t.parent[l] = z /\ l \in s[l] /\ s[l] \cap s[r] = {}
    BY <1>1, <1>2, Kids
  <2>2. r \in N \cup {NIL} /\ r # z /\ z \notin s[r] /\ t.parent[r] = z /\ r \in s[r]
    BY <1>1, <1>2, Kids
  <2> QED BY <2>1, <2>2
<1>4. /\ y \in N /\ y \in s[r] /\ t.kid[y]["left"] = NIL
      /\ y # r => q \in s[r] /\ t.kid[q]["left"] = y
      /\ s[r] \subseteq N
  <2>1. /\ y \in N /\ y \in s[r] /\ t.kid[y]["left"] = NIL
        /\ y # r => q \in s[r] /\ t.kid[q]["left"] = y
    BY <1>1, <1>3, LeastPlace
  <2>2. s[r] \subseteq N
    BY <1>1, <1>3 DEF Shape
  <2> QED BY <2>1, <2>2
<1>5. y # z /\ y # l /\ (q = z <=> y = r)
  BY <1>3, <1>4
<1>6. Loose(t, N, y, x, "right", q, c)
  BY <1>1, <1>2, <1>4, LooseThere
<1>7. y \in Ref /\ x \in Ref /\ x \in M \cup {NIL} /\ x # y /\ N \subseteq Ref /\ NIL \notin N
      /\ NIL \in Ref /\ q \in N /\ q # y /\ q # NIL /\ (x # NIL => t.parent[x] = y)
  <2>1. y \in Ref /\ x \in Ref /\ x \in M \cup {NIL} /\ x # y /\ N \subseteq Ref /\ NIL \notin N
        /\ NIL \in Ref /\ q \in N \cup {NIL} /\ q # y /\ (x # NIL => t.parent[x] = y)
    BY <1>6 DEF Loose
  <2>2. q \in N
    BY <1>3, <1>4, <1>5
  <2> QED BY <2>1, <2>2
<1>8. x # z
  <2>1. x # NIL => x \in s[y]
    <3>1. x # NIL => x \in N /\ x \in s[x]
      BY <1>1, <1>7 DEF Shape
    <3> QED BY <3>1, <1>1, <1>2, <1>4 DEF Shape
  <2>2. s[y] \subseteq s[r]
    BY <1>1, <1>3, <1>4, Below
  <2> QED BY <2>1, <2>2, <1>3
<1>9. TransplantIs(v, t, y, x)
  BY <1>1, <1>7, TransplantFields
<1>10. CutIs(v, t, y, x, q, c)
  <2> HIDE DEF v
  <2> QED BY <1>9 DEF TransplantIs, CutIs
<1> HIDE DEF q, c
<1>11. Shape(v, M, f)
  BY <1>1, <1>6, <1>10, CutShape
<1>12. ToRepair(v, M, CutHeights(N, h, y), x, t.color[y])
  BY <1>1, <1>6, <1>10, CutRepair, Zenon
<1> HIDE DEF v
<1>13. /\ v \in TreeRec /\ v.root = t.root /\ v.color = t.color
       /\ \A n \in Ref : v.parent[n] = IF n = x THEN q ELSE t.parent[n]
       /\ \A n \in Ref, a \in Side : v.kid[n][a] = IF n = q /\ a = c THEN x ELSE t.kid[n][a]
  BY <1>7, <1>10 DEF CutIs
<1>14. c \in Side /\ t.kid[q][c] = y
  BY <1>6, <1>7 DEF Loose
<1>15. z \in M /\ l \in M /\ z \in Ref /\ l \in Ref /\ r \in Ref /\ y \in Addr \ M
  BY <1>1, <1>3, <1>4, <1>5, <1>7 DEF Shape
<1>16. v.kid[z]["left"] = l
  <2>1. ~(z = q /\ "left" = c)
    BY <1>5, <1>14
  <2> QED BY <2>1, <1>2, <1>13, <1>15
<1>17. v.kid[z]["right"] = IF y = r THEN x ELSE r
  <2>1. CASE y = r
    <3>1. q = z /\ c = "right"
      BY <2>1, <1>2, <1>5, <1>14
    <3> QED BY <2>1, <3>1, <1>2, <1>13, <1>15
  <2>2. CASE y # r
    BY <2>2, <1>2, <1>5, <1>13, <1>15
  <2> QED BY <2>1, <2>2
<1>18. v.kid[z]["right"] = NIL => x = NIL
  BY <1>17
<1>19. x = NIL => (v.parent[NIL] = z <=> v.kid[z]["right"] = NIL)
  BY <1>5, <1>7, <1>13, <1>17
<1>20. OpenedIs(o, v, M, z, y, x) /\ Kept(t, o, N) /\ o.parent[z] = t.parent[z]
  <2>1. CASE y = r
    <3>1. q = z /\ c = "right" /\ t.parent[y] = z
      BY <2>1, <1>2, <1>5, <1>14 DEF q
    <3>2. o = [t EXCEPT !.parent[x] = y]
      BY <3>1
    <3>3. IsRec(t) /\ t.parent \in [Ref -> Ref] /\ t.kid \in KidFcn /\ t.root \in Ref
          /\ t.color \in [Ref -> {"red", "black"}]
      BY <1>1, RecFields
    <3>4. /\ IsRec(o) /\ o.root = t.root /\ o.kid = t.kid /\ o.color = t.color
          /\ o.parent = Put(t.parent, x, y)
      BY <3>2, <3>3, SMTT(30) DEF Put, IsRec
    <3>5. /\ o.parent \in [Ref -> Ref]
          /\ \A n \in Ref : o.parent[n] = IF n = x THEN y ELSE t.parent[n]
      BY <3>3, <3>4, <1>7 DEF Put
    <3>6. o \in TreeRec
      BY <3>3, <3>4, <3>5, RecMade, Zenon
    <3>7. \A n \in M, e \in Side : n # z => o.kid[n][e] = v.kid[n][e]
      BY <3>1, <3>4, <1>7, <1>13
    <3>8. o.kid[y]["right"] = v.kid[z]["right"]
      BY <2>1, <3>4, <1>17, Zenon
    <3>9. \A n \in M \cup {x} : o.parent[n] = IF n = v.kid[z]["right"] THEN y ELSE v.parent[n]
      <4>1. v.kid[z]["right"] = x
        BY <2>1, <1>17
      <4>2. \A n \in M \cup {x} : n \in Ref
        BY <1>7
      <4>3. \A n \in M \cup {x} : n # x => v.parent[n] = t.parent[n]
        BY <4>2, <1>13, SMTT(30)
      <4> QED BY <4>1, <4>2, <4>3, <3>5
    <3>10. Kept(t, o, N) /\ o.parent[z] = t.parent[z]
      BY <3>4, <3>5, <1>8, <1>15 DEF Kept
    <3> QED BY <3>4, <3>6, <3>7, <3>8, <3>9, <3>10, <1>13, Zenon DEF OpenedIs
  <2>2. CASE y # r
    <3>1. o = Adopt(v, y, "right", r)
      BY <2>2, <1>5 DEF q, v
    <3>2. AdoptIs(o, v, y, "right", r)
      BY <3>1, <1>2, <1>7, <1>13, <1>15, AdoptFields, SMTT(30)
    <3>3. /\ o \in TreeRec /\ o.root = v.root /\ o.color = v.color
          /\ \A m \in Ref : o.parent[m] = IF m = r THEN y ELSE v.parent[m]
          /\ \A m \in Ref, e \in Side :
                o.kid[m][e] = IF m = y /\ e = "right" THEN r ELSE v.kid[m][e]
      BY <3>2, SMTT(30) DEF AdoptIs
    <3>4. \A n \in M, e \in Side : n # z => o.kid[n][e] = v.kid[n][e]
      BY <3>3, <1>7, SMTT(30)
    <3>5. o.kid[y]["right"] = v.kid[z]["right"]
      BY <2>2, <3>3, <1>2, <1>7, <1>17, SMTT(30)
    <3>6. \A n \in M \cup {x} : o.parent[n] = IF n = v.kid[z]["right"] THEN y ELSE v.parent[n]
      BY <2>2, <3>3, <1>7, <1>17, SMTT(30)
    <3>7. Kept(t, o, N)
      BY <3>3, <1>4, <1>7, <1>13, SMTT(30) DEF Kept
    <3>8. o.parent[z] = t.parent[z]
      BY <3>3, <1>3, <1>8, <1>13, <1>15
    <3> QED BY <3>3, <3>4, <3>5, <3>6, <3>7, <3>8, Zenon DEF OpenedIs
  <2> QED BY <2>1, <2>2
<1> DEFINE w == Settled(o, z, y, l, t.color[z])
<1>21. Renamed(v, w, M, z, y, x)
  <2>1. v.color[z] = t.color[z]
    BY <1>13
  <2>2. Renamed(v, Settled(o, z, y, l, v.color[z]), M, z, y, x)
    <3> HIDE DEF M, f, w
    <3> QED BY <1>8, <1>7, <1>11, <1>13, <1>15, <1>16, <1>18, <1>19, <1>20, OpenedRenamed
  <2> QED BY <2>1, <2>2
<1>22. Fits(v, M, f, z, y)
  <2>0. /\ f = [n \in M \cup {NIL} |-> s[n] \ {y}]
        /\ \A n \in M, a \in Side : v.kid[n][a] \in M \cup {NIL}
    BY <1>11 DEF CutSets, Shape
  <2>1. ASSUME NEW m \in f[l] PROVE Before("left", m, y)
    <3>1. m \in s[l]
      BY <2>0, <1>15
    <3>2. Before("left", m, z) /\ Before("right", y, z)
      BY <3>1, <1>1, <1>2, <1>4 DEF Shape
    <3>3. m \in Nat /\ y \in Nat /\ z \in Nat
      <4>1. m \in N /\ N \subseteq Nat
        BY <3>1, <1>1, <1>3, AddrFacts DEF Shape
      <4> QED BY <4>1, <1>4
    <3> QED BY <3>2, <3>3, <1>2 DEF Before
  <2>2. ASSUME NEW m \in f[v.kid[z]["right"]] PROVE Before("right", m, y)
    <3>0. v.kid[z]["right"] \in M \cup {NIL}
      BY <2>0, <1>2, <1>15
    <3>1. m \in s[v.kid[z]["right"]] /\ m # y
      BY <2>0, <3>0, <2>2
    <3>2. v.kid[z]["right"] # NIL
      BY <3>1, <1>1 DEF Shape
    <3>3. m \in s[r]
      <4>1. CASE y = r
        <5>1. m \in s[x] /\ x \in N
          BY <3>1, <3>2, <4>1, <1>7, <1>17
        <5>2. s[x] \subseteq s[y]
          <6>1. x \in s[x]
            BY <5>1, <1>1 DEF Shape
          <6>2. x \in s[y]
            BY <5>1, <6>1, <1>1, <1>2, <1>4 DEF Shape
          <6> QED BY <6>2, <1>1, <1>4, Below
        <5> QED BY <4>1, <5>1, <5>2, SMTT(30)
      <4>2. CASE y # r
        BY <4>2, <3>1, <1>17
      <4> QED BY <4>1, <4>2
    <3>4. y <= m
      BY <3>3 DEF IsLeast
    <3>5. m \in Nat /\ y \in Nat
      <4>1. N \subseteq Nat
        BY <1>1, AddrFacts DEF Shape
      <4> QED BY <3>3, <4>1, <1>4
    <3>6. y < m
      BY <3>1, <3>4, <3>5
    <3> QED BY <3>6, <1>2 DEF Before
  <2>3. ASSUME NEW n \in M, NEW a \in Side, z \in f[v.kid[n][a]] PROVE Before(a, y, n)
    <3>1. z \in s[v.kid[n][a]] /\ v.kid[n][a] \in M \cup {NIL}
      BY <2>0, <2>3
    <3>2. n # NIL /\ n \in N
      BY <1>7
    <3>3. z \in s[t.kid[n][a]]
      <4>1. CASE n = q /\ a = c
        <5>1. v.kid[n][a] = x
          BY <4>1, <1>7, <1>13
        <5>2. x # NIL
          BY <3>1, <5>1, <1>1 DEF Shape
        <5>3. x \in N /\ x \in s[x]
          BY <5>2, <1>1, <1>7 DEF Shape
        <5>4. x \in s[y]
          BY <5>3, <1>1, <1>2, <1>4 DEF Shape
        <5>5. s[x] \subseteq s[y]
          BY <5>4, <1>1, <1>4, Below
        <5> QED BY <3>1, <4>1, <5>1, <5>5, <1>14
      <4>2. CASE ~(n = q /\ a = c)
        <5>1. v.kid[n][a] = t.kid[n][a]
          BY <4>2, <3>2, <1>7, <1>13
        <5> QED BY <3>1, <5>1
      <4> QED BY <4>1, <4>2
    <3>4. t.kid[n][a] \in N
      BY <3>2, <3>3, <1>1 DEF Shape
    <3>5. s[z] \subseteq s[t.kid[n][a]]
      BY <3>3, <3>4, <1>1, Below
    <3>6. y \in s[z]
      BY <1>1, <1>2, <1>4 DEF Shape
    <3> QED BY <3>2, <3>5, <3>6, <1>1 DEF Shape
  <2> HIDE DEF f, M
  <2> QED BY <2>1, <2>2, <2>3, <1>2, <1>16 DEF Fits
<1>23. NewNodes(M, z, y) = N \ {z}
  BY <1>4, <1>5 DEF NewNodes
<1>24. Shape(w, N \ {z}, RenSets(M, f, z, y))
  <2> HIDE DEF M, f, w
  <2>1. Shape(w, NewNodes(M, z, y), RenSets(M, f, z, y))
    BY <1>11, <1>13, <1>21, <1>22, RenShape
  <2> QED BY <2>1, <1>23
<1>25. ToRepair(w, N \ {z}, RenHeights(M, CutHeights(N, h, y), z, y), x, t.color[y])
  <2> HIDE DEF M, f, w
  <2>1. ToRepair(w, NewNodes(M, z, y), RenHeights(M, CutHeights(N, h, y), z, y), x, t.color[y])
    BY <1>7, <1>8, <1>11, <1>12, <1>13, <1>21, RenRepair
  <2> QED BY <2>1, <1>23
<1>26. t.color[z] \in {"red", "black"} /\ t.color[y] \in {"red", "black"}
  BY <1>1, <1>7, <1>15, RecFields, SMTT(30)
<1>27. w \in TreeRec /\ Kept(t, w, N)
  <2>1. t.parent[z] \in N \cup {NIL} /\ o \in TreeRec
    BY <1>1, <1>20, ParentSide, Zenon DEF Hangs, OpenedIs
  <2>2. Kept(o, w, N) /\ w \in TreeRec
    <3>1. o.parent[z] \in N \cup {NIL}
      BY <2>1, <1>20
    <3>2. N \subseteq Ref /\ y \in N /\ l \in N /\ o \in TreeRec
      BY <2>1, <1>3, <1>4, <1>7
    <3>3. t.color[z] \in {"red", "black"}
      BY <1>26
    <3> QED BY <3>1, <3>2, <3>3, SettledKept, ZenonT(30)
  <2> HIDE DEF w
  <2> QED BY <2>2, <1>20 DEF Kept
<1>28. x \in (N \ {z}) \cup {NIL}
  BY <1>7, <1>8
<1> HIDE DEF w
<1> DEFINE u == [tree |-> w, x |-> x, color |-> t.color[y]]
<1>29. u.tree = w /\ u.x = x /\ u.color = t.color[y]
  OBVIOUS
<1> HIDE DEF u
<1>30. UnlinkedIs(t, N, z, u)
  BY <1>24, <1>25, <1>26, <1>27, <1>28, <1>29 DEF UnlinkedIs
<1> QED BY <1>30 DEF u, w

\* rb_remove of any node: what is left is a search tree and has at most one defect.
LEMMA UnlinkedFields ==
    ASSUME NEW t, NEW N, NEW s, NEW h, Balanced(t, N, s, h), NEW z \in N,
           \A m \in Addr \ N : t.kid[m]["left"] = NIL
    PROVE  UnlinkedIs(t, N, z, Unlinked(t, z))
<1> DEFINE l == t.kid[z]["left"]
           r == t.kid[z]["right"]
           y == Minimum(t, r)
           x == t.kid[y]["right"]
           o == IF t.parent[y] = z THEN [t EXCEPT !.parent[x] = y]
                ELSE Adopt(Transplant(t, y, x), y, "right", r)
<1>1. Unlinked(t, z) =
        IF l = NIL THEN [tree |-> Transplant(t, z, r), x |-> r, color |-> t.color[z]]
        ELSE IF r = NIL
        THEN [tree |-> Transplant(t, z, l), x |-> l, color |-> t.color[z]]
        ELSE [tree |-> Settled(o, z, y, l, t.color[z]), x |-> x, color |-> t.color[y]]
  BY DEF Unlinked, Settled, Paint
<1>2. "left" \in Side /\ "right" \in Side /\ Other("right") = "left" /\ Other("left") = "right"
  BY DEF Side, Other
<1>3. t \in TreeRec /\ Shape(t, N, s)
  BY DEF Balanced
<1>4. CASE l = NIL
  <2>1. UnlinkedIs(t, N, z, [tree |-> Transplant(t, z, r), x |-> r, color |-> t.color[z]])
    BY <1>2, <1>4, UnlinkedOne
  <2> QED BY <2>1, <1>1, <1>4
<1>5. CASE l # NIL /\ r = NIL
  <2>1. UnlinkedIs(t, N, z, [tree |-> Transplant(t, z, l), x |-> l, color |-> t.color[z]])
    BY <1>2, <1>5, UnlinkedOne
  <2> QED BY <2>1, <1>1, <1>5
<1>6. CASE l # NIL /\ r # NIL
  <2>1. r \in N
    BY <1>2, <1>3, <1>6 DEF Shape
  <2>2. IsLeast(y, s[r])
    BY <1>3, <2>1, MinimumLeast
  <2> HIDE DEF y
  <2>3. UnlinkedIs(t, N, z, [tree |-> Settled(o, z, y, l, t.color[z]), x |-> x, color |-> t.color[y]])
    <3> DEFINE a == l
               b == r
               d == x
               g == o
    <3>1. /\ a = t.kid[z]["left"] /\ b = t.kid[z]["right"] /\ a # NIL /\ b # NIL
          /\ IsLeast(y, s[b]) /\ d = t.kid[y]["right"]
          /\ g = IF t.parent[y] = z THEN [t EXCEPT !.parent[d] = y]
                 ELSE Adopt(Transplant(t, y, d), y, "right", b)
      BY <1>6, <2>2
    <3> HIDE DEF a, b, d, g
    <3>2. UnlinkedIs(t, N, z, [tree |-> Settled(g, z, y, a, t.color[z]), x |-> d, color |-> t.color[y]])
      BY <3>1, UnlinkedTwo, Zenon
    <3> QED BY <3>2 DEF a, b, d, g
  <2> QED BY <2>3, <1>1, <1>6
<1> QED BY <1>4, <1>5, <1>6
-----------------------------------------------------------------------------
(* The rounds of insert_fixup                                              *)

\* A round of insert_fixup, case 1: the defect moves to the grandparent.
LEMMA InsertRecolorTree ==
    ASSUME NEW t, NEW N, NEW s, NEW h, NEW z, NEW p, NEW g, NEW d, NEW k,
           Inserting(t, N, s, h, z), p = t.parent[z], t.color[p] = "red",
           g = t.parent[p], d = SideOf(t, p), k = t.kid[g][Other(d)], t.color[k] = "red"
    PROVE  LET u == Paint3(t, p, "black", k, "black", g, "red")
           IN  /\ InsertingSome(u, N, g) /\ u \in TreeRec /\ Kept(t, u, N) /\ SameLinks(t, u)
               /\ z \in N /\ p \in N /\ g \in N /\ z # t.root /\ p # t.root
<1> DEFINE u == Paint3(t, p, "black", k, "black", g, "red")
<1>1. Elders(t, N, z, p, g, d)
  BY EldersThere
<1>2. t \in TreeRec /\ Shape(t, N, s) /\ N \subseteq Ref /\ NIL \in Ref
  BY RefFacts DEF Inserting, Shape
<1>3. p \in Ref /\ g \in Ref /\ k \in Ref
  <2>1. Other(d) \in Side /\ g \in N /\ p \in N
    BY <1>1, Sides DEF Elders
  <2>2. k \in N \cup {NIL}
    BY <2>1, <1>2 DEF Shape
  <2> QED BY <2>1, <2>2, <1>2
<1>4. Painted3(t, u, p, "black", k, "black", g, "red")
  <2>1. "red" \in {"red", "black"} /\ "black" \in {"red", "black"}
    OBVIOUS
  <2> QED BY <2>1, <1>2, <1>3, PaintedThree
<1> HIDE DEF u
<1>5. Inserting(u, N, s, RaisedHeights(h, p, k, N), g)
  BY <1>1, <1>4, Recolored, Zenon
<1>6. SameLinks(t, u) /\ Kept(t, u, N) /\ u \in TreeRec
  BY <1>4, SMTT(30) DEF Painted3, Kept, SameLinks
<1>7. InsertingSome(u, N, g)
  BY <1>5 DEF InsertingSome
<1> QED BY <1>1, <1>6, <1>7, Zenon DEF Elders, u

\* The grandparent of z comes down.
GrandDown(t, z, d) ==
    Rotate(Paint2(t, t.parent[z], "black", t.parent[t.parent[z]], "red"),
           t.parent[t.parent[z]], Other(d))

\* What insert_fixup leaves when it is about to end.
InsertedIs(t, N, u, z) ==
    InsertingSome(u, N, z) /\ Kept(t, u, N) /\ u.color[u.parent[z]] = "black"

LEMMA KeptTwice ==
    ASSUME NEW t, NEW v, NEW u, NEW N, Kept(t, v, N), Kept(v, u, N)
    PROVE  Kept(t, u, N)
  BY DEF Kept

LEMMA InsertedTwice ==
    ASSUME NEW t, NEW v, NEW u, NEW N, NEW z, Kept(t, v, N), InsertedIs(v, N, u, z)
    PROVE  InsertedIs(t, N, u, z)
<1>1. Kept(v, u, N)
  BY DEF InsertedIs
<1>2. Kept(t, u, N)
  BY <1>1, KeptTwice
<1> QED BY <1>2 DEF InsertedIs

\* The same as case 2, in a form that is easier to cite.
InnerFrom(t, N, s, h, z, p, g, d) ==
    Inserting(t, N, s, h, z) /\ Elders(t, N, z, p, g, d) /\ z = t.kid[p][Other(d)]
InnerTo(t, N, u, z, p, g, d) ==
    /\ InsertingSome(u, N, p) /\ Kept(t, u, N)
    /\ Elders(u, N, p, z, g, d) /\ p = u.kid[z][d]
    /\ u.color = t.color /\ u.kid[g][Other(d)] = t.kid[g][Other(d)]

LEMMA InnerRound ==
    ASSUME NEW t, NEW N, NEW s, NEW h, NEW z, NEW p, NEW g, NEW d,
           InnerFrom(t, N, s, h, z, p, g, d)
    PROVE  InnerTo(t, N, Rotate(t, p, d), z, p, g, d)
<1>1. Inserting(t, N, s, h, z) /\ Elders(t, N, z, p, g, d) /\ z = t.kid[p][Other(d)]
  BY DEF InnerFrom
<1> QED BY <1>1, InnerTurned DEF InnerTo

LEMMA GrandTurned ==
    ASSUME NEW t, NEW N, NEW s, NEW h, NEW z, NEW p, NEW g, NEW d,
           Inserting(t, N, s, h, z), Elders(t, N, z, p, g, d), z = t.kid[p][d],
           t.color[t.kid[g][Other(d)]] = "black"
    PROVE  InsertedIs(t, N, GrandDown(t, z, d), z)
<1> DEFINE w == Paint2(t, p, "black", g, "red")
<1>1. t.parent[z] = p /\ t.parent[p] = g /\ p \in N /\ g \in N /\ p # g
  BY DEF Elders
<1>2. t \in TreeRec /\ p \in Ref /\ g \in Ref
  BY <1>1, RefFacts DEF Inserting, Shape
<1>3. Painted2(t, w, p, "black", g, "red")
  <2>1. "red" \in {"red", "black"} /\ "black" \in {"red", "black"}
    OBVIOUS
  <2> QED BY <2>1, <1>2, PaintedTwo
<1> HIDE DEF w
<1> DEFINE u == Rotate(w, g, Other(d))
<1>4. InsertingSome(u, N, z) /\ Kept(t, u, N) /\ u.parent[z] = p /\ u.color[p] = "black"
  <2>1. OuterFrom(t, N, s, h, z, p, g, d, w)
    BY <1>3 DEF OuterFrom
  <2>2. OuterTo(t, N, u, z, p)
    BY <2>1, OuterTurned
  <2> QED BY <2>2 DEF OuterTo
<1> HIDE DEF u
<1>5. u = GrandDown(t, z, d)
  BY <1>1 DEF u, w, GrandDown
<1> QED BY <1>4, <1>5 DEF InsertedIs

\* A round of insert_fixup, case 3.
LEMMA InsertOuterTree ==
    ASSUME NEW t, NEW N, NEW s, NEW h, NEW x, NEW p, NEW g, NEW d,
           Inserting(t, N, s, h, x), p = t.parent[x], g = t.parent[p],
           t.color[p] = "red", d = SideOf(t, p),
           t.color[t.kid[g][Other(d)]] = "black", x # t.kid[p][Other(d)]
    PROVE  InsertedIs(t, N, GrandDown(t, x, d), x)
<1>1. Elders(t, N, x, p, g, d)
  BY EldersThere
<1>2. x = t.kid[p][d]
  BY <1>1 DEF Elders
<1> QED BY <1>1, <1>2, GrandTurned, Zenon

\* A round of insert_fixup, cases 2 and 3.
LEMMA InsertInnerTree ==
    ASSUME NEW t, NEW N, NEW s, NEW h, NEW x, NEW p, NEW g, NEW d,
           Inserting(t, N, s, h, x), p = t.parent[x], g = t.parent[p],
           t.color[p] = "red", d = SideOf(t, p),
           t.color[t.kid[g][Other(d)]] = "black", x = t.kid[p][Other(d)]
    PROVE  InsertedIs(t, N, GrandDown(Rotate(t, p, d), p, d), p)
<1> DEFINE v == Rotate(t, p, d)
           u == GrandDown(v, p, d)
<1>1. Elders(t, N, x, p, g, d)
  BY EldersThere, Zenon
<1>2. /\ InsertingSome(v, N, p) /\ Kept(t, v, N)
      /\ Elders(v, N, p, x, g, d) /\ p = v.kid[x][d]
      /\ v.color = t.color /\ v.kid[g][Other(d)] = t.kid[g][Other(d)]
  <2>1. InnerFrom(t, N, s, h, x, p, g, d)
    BY <1>1, Zenon DEF InnerFrom
  <2>2. InnerTo(t, N, v, x, p, g, d)
    BY <2>1, InnerRound, Zenon
  <2> QED BY <2>2, Zenon DEF InnerTo
<1> HIDE DEF v
<1>3. PICK r, f : Inserting(v, N, r, f, p)
  BY <1>2, Zenon DEF InsertingSome
<1>4. v.color[v.kid[g][Other(d)]] = "black"
  BY <1>2, Zenon
<1>5. InsertedIs(v, N, u, p)
  BY <1>2, <1>3, <1>4, GrandTurned, Zenon
<1> HIDE DEF u
<1>6. InsertedIs(t, N, u, p)
  BY <1>2, <1>5, InsertedTwice, Zenon
<1> QED BY <1>6, Zenon DEF u, v
-----------------------------------------------------------------------------
(* The ends of the fix-up loops                                            *)

\* A red node painted black makes up for the black that is missing there.
LEMMA HeightsBlackened ==
    ASSUME NEW t, NEW N, NEW s, NEW h, NEW x \in N, NEW p, NEW c, NEW u,
           Shape(t, N, s), Hangs(t, N, x, p, c), Heights(t, N, h, p, c),
           t.color[x] = "red", PaintIs(u, t, x, "black")
    PROVE  Heights(u, N, RaisedHeights(h, x, x, N), NIL, "left")
<1> DEFINE f == RaisedHeights(h, x, x, N)
<1>1. /\ N \subseteq Ref /\ NIL \notin N /\ x # NIL
      /\ \A n \in N, e \in Side : t.kid[n][e] \in N \cup {NIL} /\ t.kid[n][e] # n
  <2>1. N \subseteq Ref /\ NIL \notin N
    BY RefFacts DEF Shape
  <2>2. \A n \in N, e \in Side : t.kid[n][e] \in N \cup {NIL} /\ t.kid[n][e] # n
    BY Kids
  <2> QED BY <2>1, <2>2
<1>2. /\ u.kid = t.kid /\ u.color[x] = "black"
      /\ \A n \in N : n # x => u.color[n] = t.color[n]
  BY <1>1 DEF PaintIs
<1>3. /\ p # x /\ (p # NIL => t.kid[p][c] = x)
      /\ \A n \in N, e \in Side : t.kid[n][e] = x => n = p /\ e = c
  BY DEF Hangs
<1>4. /\ h \in [N \cup {NIL} -> Nat] /\ h[NIL] = 0
      /\ \A n \in N, e \in Side : h[n] = h[t.kid[n][e]] + Black(t, n) + Gap(n, e, p, c)
  BY DEF Heights
<1>5. /\ f \in [N \cup {NIL} -> Nat] /\ f[NIL] = 0 /\ f[x] = h[x] + 1
      /\ \A n \in N \cup {NIL} : n # x => f[n] = h[n]
  <2>1. h[x] + 1 \in Nat
    BY <1>4
  <2> QED BY <2>1, <1>1, <1>4 DEF RaisedHeights
<1> HIDE DEF f
<1>6. ASSUME NEW n \in N, NEW e \in Side
      PROVE  f[n] = f[u.kid[n][e]] + Black(u, n) + Gap(n, e, NIL, "left")
  <2> DEFINE k == t.kid[n][e]
  <2>1. Gap(n, e, NIL, "left") = 0
    BY <1>1 DEF Gap
  <2>2. k \in N \cup {NIL} /\ k # n /\ u.kid[n][e] = k
    BY <1>1, <1>2
  <2>3. h[n] = h[k] + Black(t, n) + Gap(n, e, p, c)
    BY <1>4
  <2>4. k = x => n = p /\ e = c
    BY <1>3
  <2>5. n = p /\ e = c => k = x
    BY <1>1, <1>3
  <2> HIDE DEF k
  <2>6. h[k] \in Nat /\ h[n] \in Nat
    BY <2>2, <1>4
  <2>7. CASE n = x
    <3>1. Gap(n, e, p, c) = 0 /\ Black(t, n) = 0 /\ Black(u, n) = 1
      BY <2>7, <1>2, <1>3 DEF Gap, Black
    <3>2. f[n] = h[n] + 1 /\ f[k] = h[k]
      BY <2>2, <2>7, <1>5
    <3> QED BY <2>1, <2>2, <2>3, <2>6, <3>1, <3>2
  <2>8. CASE n # x /\ k = x
    <3>1. Gap(n, e, p, c) = 1 /\ Black(t, n) = Black(u, n) /\ Black(t, n) \in {0, 1}
      BY <2>8, <2>4, <1>2 DEF Gap, Black
    <3>2. f[n] = h[n] /\ f[k] = h[k] + 1
      BY <2>8, <1>5
    <3> QED BY <2>1, <2>2, <2>3, <2>6, <3>1, <3>2
  <2>9. CASE n # x /\ k # x
    <3>1. Gap(n, e, p, c) = 0 /\ Black(t, n) = Black(u, n) /\ Black(t, n) \in {0, 1}
      BY <2>9, <2>5, <1>2 DEF Gap, Black
    <3>2. f[n] = h[n] /\ f[k] = h[k]
      BY <2>2, <2>9, <1>5
    <3> QED BY <2>1, <2>2, <2>3, <2>6, <3>1, <3>2
  <2> QED BY <2>7, <2>8, <2>9
<1>7. Heights(u, N, f, NIL, "left")
  BY <1>5, <1>6 DEF Heights
<1> QED BY <1>7 DEF f

\* x, which may be NIL, is the only node that can be red below a red one.
LEMMA RedBlackened ==
    ASSUME NEW t, NEW N, NEW x \in Ref, NEW e \in {x, NIL}, NEW u,
           N \subseteq Ref, NIL \notin N, NoRedRed(t, N, x, e),
           \A n \in N, d \in Side : t.kid[n][d] \in N \cup {NIL}, t.root \in N \cup {NIL},
           PaintIs(u, t, x, "black")
    PROVE  NoRedRed(u, N, NIL, NIL)
<1>1. /\ u.root = t.root /\ u.kid = t.kid /\ NIL \in Ref
      /\ \A n \in Ref : u.color[n] = IF n = x THEN "black" ELSE t.color[n]
  BY RefFacts DEF PaintIs
<1>2. /\ t.color[NIL] = "black"
      /\ t.color[t.root] = "red" => t.root = x
      /\ \A n \in N, d \in Side :
            t.color[n] = "red" /\ t.color[t.kid[n][d]] = "red" => t.kid[n][d] = x \/ n = e
  BY DEF NoRedRed
<1>3. u.color[NIL] = "black" /\ ~(u.color[u.root] = "red")
  BY <1>1, <1>2
<1>4. ASSUME NEW n \in N, NEW d \in Side, u.color[n] = "red", u.color[u.kid[n][d]] = "red"
      PROVE  FALSE
  <2>1. n # x /\ t.color[n] = "red"
    BY <1>1, <1>4
  <2>2. t.kid[n][d] \in Ref
    BY <1>1
  <2>3. t.kid[n][d] # x /\ t.color[t.kid[n][d]] = "red"
    BY <1>1, <1>4, <2>2
  <2> QED BY <2>1, <2>3, <1>2
<1> QED BY <1>3, <1>4 DEF NoRedRed

LEMMA BalanceKept ==
    ASSUME NEW t, NEW N, NEW s, NEW h, NEW u, Shape(t, N, s), u \in TreeRec,
           u.root = t.root, u.kid = t.kid, u.parent = t.parent,
           Heights(u, N, h, NIL, "left"), NoRedRed(u, N, NIL, NIL)
    PROVE  BalancedSome(u, N)
<1>1. Shape(u, N, s)
  BY DEF Shape
<1> QED BY <1>1 DEF Balanced, BalancedSome

\* A painted tree has the same black heights if the colors of its nodes are
\* the same.
LEMMA HeightsSame ==
    ASSUME NEW t, NEW N, NEW h, NEW q, NEW e, NEW u, u.kid = t.kid,
           \A n \in N : u.color[n] = t.color[n], Heights(t, N, h, q, e)
    PROVE  Heights(u, N, h, q, e)
<1>1. \A n \in N : Black(u, n) = Black(t, n)
  BY DEF Black
<1> QED BY <1>1 DEF Heights

\* No black is missing below NIL, on either side.
LEMMA HeightsNil ==
    ASSUME NEW t, NEW N, NEW h, NEW d, NEW e, NIL \notin N, Heights(t, N, h, NIL, d)
    PROVE  Heights(t, N, h, NIL, e)
<1>1. \A n \in N, a \in Side : Gap(n, a, NIL, d) = 0 /\ Gap(n, a, NIL, e) = 0
  BY DEF Gap
<1> QED BY <1>1 DEF Heights

\* The tree when insert_fixup ends.
LEMMA AddedTree ==
    ASSUME NEW t, NEW N, NEW s, NEW h, NEW z, Inserting(t, N, s, h, z),
           t.color[t.parent[z]] = "black"
    PROVE  /\ BalancedSome(Paint(t, t.root, "black"), N)
           /\ Paint(t, t.root, "black").kid = t.kid
<1> DEFINE x == t.root
           u == Paint(t, x, "black")
<1>1. /\ t \in TreeRec /\ Shape(t, N, s) /\ Heights(t, N, h, NIL, "left")
      /\ NoRedRed(t, N, z, NIL) /\ z \in N /\ t.color[z] = "red"
  BY DEF Inserting
<1>2. /\ N \subseteq Ref /\ NIL \notin N /\ NIL \in Ref /\ x \in N /\ x \in Ref
      /\ \A n \in N, d \in Side : t.kid[n][d] \in N \cup {NIL}
  BY <1>1, RefFacts DEF Shape
<1>3. PaintIs(u, t, x, "black")
  BY <1>1, <1>2, PaintFields
<1> HIDE DEF u
<1>4. /\ u \in TreeRec /\ u.root = t.root /\ u.kid = t.kid /\ u.parent = t.parent
      /\ \A n \in Ref : u.color[n] = IF n = x THEN "black" ELSE t.color[n]
  BY <1>3 DEF PaintIs
<1>5. CASE z = x
  <2>1. NoRedRed(u, N, NIL, NIL)
    <3>1. NoRedRed(t, N, x, NIL)
      BY <1>1, <1>5
    <3> QED BY <3>1, <1>2, <1>3, RedBlackened
  <2>2. Hangs(t, N, x, t.parent[x], SideOf(t, x))
    BY <1>1, <1>2, ParentSide
  <2>3. t.parent[x] = NIL
    BY <1>1, <1>2 DEF Shape
  <2> DEFINE c == SideOf(t, x)
  <2> HIDE DEF c
  <2>4. Heights(t, N, h, NIL, c)
    BY <1>1, <1>2, HeightsNil
  <2>5. Hangs(t, N, x, NIL, c)
    BY <2>2, <2>3 DEF c
  <2>6. t.color[x] = "red"
    BY <1>1, <1>5
  <2> HIDE DEF x
  <2>7. Heights(u, N, RaisedHeights(h, x, x, N), NIL, "left")
    BY <2>4, <2>5, <2>6, <1>1, <1>2, <1>3, HeightsBlackened
  <2> QED BY <2>1, <2>7, <1>1, <1>4, BalanceKept DEF u, x
<1>6. CASE z # x
  <2>1. t.color[x] # "red"
    BY <1>1, <1>6 DEF NoRedRed
  <2>2. t.color[x] = "black"
    BY <2>1, <1>1, <1>2, RecFields
  <2>3. \A n \in Ref : u.color[n] = t.color[n]
    BY <2>2, <1>4
  <2>4. Heights(u, N, h, NIL, "left")
    BY <2>3, <1>1, <1>2, <1>4, HeightsSame
  <2>5. NoRedRed(u, N, NIL, NIL)
    <3>1. \A n \in N, d \in Side : t.color[n] = "red" /\ t.color[t.kid[n][d]] = "red" => FALSE
      <4>1. SUFFICES ASSUME NEW n \in N, NEW d \in Side, t.color[n] = "red",
                            t.color[t.kid[n][d]] = "red"
                     PROVE  FALSE
        OBVIOUS
      <4>2. t.kid[n][d] = z
        BY <4>1, <1>1, <1>2 DEF NoRedRed
      <4>3. t.parent[z] = n
        BY <4>2, <1>1, <1>2 DEF Shape
      <4> QED BY <4>1, <4>3
    <3>2. \A n \in N, d \in Side : t.kid[n][d] \in Ref
      BY <1>2
    <3>3. t.color[NIL] = "black"
      BY <1>1 DEF NoRedRed
    <3> QED BY <3>1, <3>2, <3>3, <2>1, <2>3, <1>2, <1>4 DEF NoRedRed
  <2> QED BY <2>4, <2>5, <1>1, <1>4, BalanceKept DEF u
<1> QED BY <1>4, <1>5, <1>6 DEF u

\* The tree when delete_fixup ends.
LEMMA RemovedTree ==
    ASSUME NEW t, NEW N, NEW s, NEW h, NEW x \in N \cup {NIL}, t \in TreeRec,
           Shape(t, N, s), Climbed(t, N, h, x), ~(x # t.root /\ t.color[x] = "black")
    PROVE  BalancedSome(Paint(t, x, "black"), N) /\ Paint(t, x, "black").kid = t.kid
<1> DEFINE u == Paint(t, x, "black")
<1>1. /\ N \subseteq Ref /\ NIL \notin N /\ NIL \in Ref /\ x \in Ref /\ t.root \in N \cup {NIL}
      /\ \A n \in N, d \in Side : t.kid[n][d] \in N \cup {NIL}
  BY RefFacts DEF Shape
<1>2. PaintIs(u, t, x, "black")
  BY <1>1, PaintFields
<1> HIDE DEF u
<1>3. /\ u \in TreeRec /\ u.root = t.root /\ u.kid = t.kid /\ u.parent = t.parent
      /\ \A n \in Ref : u.color[n] = IF n = x THEN "black" ELSE t.color[n]
  BY <1>2 DEF PaintIs
<1>4. NoRedRed(u, N, NIL, NIL)
  <2>1. NoRedRed(t, N, x, x)
    BY DEF Climbed
  <2> QED BY <2>1, <1>1, <1>2, RedBlackened
<1>5. t.color[NIL] = "black" /\ t.color[x] \in {"red", "black"}
  BY <1>1, RecFields DEF Climbed, NoRedRed
<1>6. CASE t.color[x] = "red"
  <2>1. x \in N
    BY <1>5, <1>6
  <2> DEFINE p == t.parent[x]
             c == SideOf(t, x)
  <2>2. Hangs(t, N, x, p, c)
    BY <2>1, ParentSide
  <2>3. Heights(t, N, h, p, c)
    <3>1. CASE x = t.root
      <4>1. Heights(t, N, h, NIL, "left")
        BY <3>1 DEF Climbed
      <4>2. p = NIL
        BY <2>2, <3>1 DEF Hangs
      <4> HIDE DEF p, c
      <4>3. Heights(t, N, h, NIL, c)
        BY <4>1, <1>1, HeightsNil
      <4> QED BY <4>2, <4>3
    <3>2. CASE x # t.root
      BY <3>2 DEF Climbed
    <3> QED BY <3>1, <3>2
  <2> HIDE DEF p, c
  <2>4. Heights(u, N, RaisedHeights(h, x, x, N), NIL, "left")
    BY <2>1, <2>2, <2>3, <1>2, <1>6, HeightsBlackened
  <2> QED BY <2>4, <1>3, <1>4, BalanceKept DEF u
<1>7. CASE t.color[x] = "black"
  <2>1. x = t.root
    BY <1>7
  <2>2. Heights(t, N, h, NIL, "left")
    BY <2>1 DEF Climbed
  <2>3. \A n \in N : u.color[n] = t.color[n]
    BY <1>1, <1>3, <1>7
  <2>4. Heights(u, N, h, NIL, "left")
    BY <2>2, <2>3, <1>3, HeightsSame
  <2> QED BY <2>4, <1>3, <1>4, BalanceKept DEF u
<1> QED BY <1>3, <1>5, <1>6, <1>7 DEF u

LEMMA FreedFields ==
    ASSUME NEW t \in TreeRec, NEW z \in Ref
    PROVE  EmptiedIs(Freed(t, z), t, z, "black", NIL)
<1> DEFINE w == Freed(t, z)
           v == Emptied(t, z, "black", NIL)
<1>1. IsRec(t)
  BY RecFields
<1>2. /\ IsRec(w) /\ w.root = t.root /\ w.color = Put(t.color, z, "black")
      /\ w.kid = Put(t.kid, z, NoKids) /\ w.parent = Put(t.parent, z, NIL)
  BY <1>1, Zenon DEF Freed, Put, IsRec
<1>3. /\ IsRec(v) /\ v.root = t.root /\ v.color = Put(t.color, z, "black")
      /\ v.kid = Put(t.kid, z, NoKids) /\ v.parent = Put(t.parent, z, NIL)
  BY <1>1, Zenon DEF Emptied, Put, IsRec
<1>4. EmptiedIs(v, t, z, "black", NIL)
  <2>1. "black" \in {"red", "black"} /\ NIL \in Ref
    BY RefFacts
  <2> QED BY <2>1, EmptiedFields
<1> HIDE DEF w, v
<1>5. w = v
  BY <1>2, <1>3 DEF IsRec
<1> QED BY <1>4, <1>5 DEF w

\* pool_free does not touch the tree.
FreedTo(t, N, z, u) ==
    /\ BalancedSome(u, N)
    /\ \A m \in Ref, e \in Side : u.kid[m][e] = IF m = z THEN NIL ELSE t.kid[m][e]

\* A node that is out of the tree may be overwritten.
LEMMA FreedTree ==
    ASSUME NEW t, NEW N, NEW s, NEW h, NEW z \in Ref, Balanced(t, N, s, h),
           z \notin N, z # NIL
    PROVE  FreedTo(t, N, z, Freed(t, z))
<1> DEFINE u == Freed(t, z)
<1>1. /\ t \in TreeRec /\ Shape(t, N, s) /\ Heights(t, N, h, NIL, "left")
      /\ NoRedRed(t, N, NIL, NIL)
  BY DEF Balanced
<1>2. EmptiedIs(u, t, z, "black", NIL)
  BY <1>1, FreedFields
<1> HIDE DEF u
<1>3. /\ u \in TreeRec /\ u.root = t.root
      /\ \A m \in Ref, e \in Side : u.kid[m][e] = IF m = z THEN NIL ELSE t.kid[m][e]
  BY <1>2 DEF EmptiedIs
<1>4. /\ N \subseteq Ref /\ NIL \notin N /\ NIL \in Ref /\ t.root \in N \cup {NIL}
      /\ \A n \in N, e \in Side : t.kid[n][e] \in N \cup {NIL}
  BY <1>1, RefFacts DEF Shape
<1>5. /\ \A n \in N \cup {NIL} : u.color[n] = t.color[n] /\ u.parent[n] = t.parent[n]
      /\ \A n \in N, e \in Side : u.kid[n][e] = t.kid[n][e]
  BY <1>2, <1>4 DEF EmptiedIs
<1>6. Shape(u, N, s)
  BY <1>1, <1>3, <1>4, <1>5, SMTT(30) DEF Shape
<1>7. Heights(u, N, h, NIL, "left")
  <2>1. \A n \in N : Black(u, n) = Black(t, n)
    BY <1>5 DEF Black
  <2> QED BY <2>1, <1>1, <1>5 DEF Heights
<1>8. NoRedRed(u, N, NIL, NIL)
  BY <1>1, <1>3, <1>4, <1>5 DEF NoRedRed
<1>9. Balanced(u, N, s, h)
  BY <1>3, <1>6, <1>7, <1>8 DEF Balanced
<1> QED BY <1>3, <1>9 DEF BalancedSome, FreedTo, u

-----------------------------------------------------------------------------
(* The rounds of delete_fixup                                              *)

\* Where delete_fixup goes on, the parent pointer of x is right, if x is NIL too.
LEMMA ClimbedDeleting ==
    ASSUME NEW t, NEW N, NEW s, NEW h, NEW x \in N \cup {NIL}, t \in TreeRec, Shape(t, N, s),
           Climbed(t, N, h, x), x # t.root, t.color[x] = "black"
    PROVE  Deleting(t, N, s, h, x, t.parent[x], SideOf(t, x))
<1>1. /\ NoRedRed(t, N, x, x) /\ t.parent[x] \in N
      /\ t.kid[t.parent[x]][SideOf(t, x)] = x
      /\ Heights(t, N, h, t.parent[x], SideOf(t, x))
  BY DEF Climbed
<1>2. NoRedRed(t, N, NIL, NIL)
  BY <1>1 DEF NoRedRed
<1>3. SideOf(t, x) \in Side
  BY SideOfType
<1> QED BY <1>1, <1>2, <1>3 DEF Deleting

\* The tree with a black sibling.
BlackBeside(t, x, p, d) ==
    LET w == t.kid[p][Other(d)]
    IN IF t.color[w] = "red" THEN Rotate(Paint2(t, w, "black", p, "red"), p, d) ELSE t

BesideIs(t, N, b, x, p, d) ==
    /\ DeletingSome(b, N, x, p, d) /\ Kept(t, b, N)
    /\ b.color[b.kid[p][Other(d)]] = "black"
    /\ b.color[p] = "red" \/ b = t

\* A round of delete_fixup up to the end of case 1.
LEMMA BesideThere ==
    ASSUME NEW t, NEW N, NEW s, NEW h, NEW x, NEW p, NEW d, Deleting(t, N, s, h, x, p, d)
    PROVE  BesideIs(t, N, BlackBeside(t, x, p, d), x, p, d)
<1> DEFINE w == t.kid[p][Other(d)]
           v == Paint2(t, w, "black", p, "red")
           u == Rotate(v, p, d)
<1>1. Siblings(t, N, x, w, p, d)
  BY SiblingThere
<1>2. t \in TreeRec /\ w \in Ref /\ p \in Ref
  <2>1. t \in TreeRec /\ N \subseteq Ref
    BY RefFacts DEF Deleting, Shape
  <2> QED BY <2>1, <1>1 DEF Siblings
<1>3. CASE t.color[w] = "red"
  <2>1. "red" \in {"red", "black"} /\ "black" \in {"red", "black"}
    OBVIOUS
  <2> HIDE DEF w
  <2>2. Painted2(t, v, w, "black", p, "red")
    BY <2>1, <1>2, PaintedTwo
  <2> HIDE DEF v
  <2>3. SiblingFrom(t, N, s, h, x, p, d, w, v)
    BY <2>2, <1>3 DEF SiblingFrom, w
  <2>4. SiblingTo(t, N, u, x, p, d)
    BY <2>3, SiblingTurned
  <2>5. BlackBeside(t, x, p, d) = u
    BY <1>3 DEF BlackBeside, u, v, w
  <2> HIDE DEF u
  <2> QED BY <2>4, <2>5 DEF SiblingTo, BesideIs
<1>4. CASE t.color[w] # "red"
  <2>1. t.color[w] = "black"
    BY <1>2, <1>4, RecFields
  <2>2. BlackBeside(t, x, p, d) = t
    BY <1>4 DEF BlackBeside
  <2>3. DeletingSome(t, N, x, p, d) /\ Kept(t, t, N)
    BY DEF DeletingSome, Kept
  <2> QED BY <2>1, <2>2, <2>3 DEF BesideIs
<1> QED BY <1>3, <1>4

\* The side of x stays known.
LEMMA BesideSide ==
    ASSUME NEW b, NEW N, NEW s, NEW h, NEW x, NEW p, NEW d, Deleting(b, N, s, h, x, p, d)
    PROVE  b.parent[x] = p /\ SideOf(b, x) = d
<1>1. Siblings(b, N, x, b.kid[p][Other(d)], p, d)
  BY SiblingThere
<1> QED BY <1>1 DEF Siblings

\* Case 2.
MovedTo(b, N, u, p) ==
    /\ u \in TreeRec /\ Kept(b, u, N) /\ p \in N
    /\ \E s, h : Shape(u, N, s) /\ Climbed(u, N, h, p)
    /\ SameLinks(b, u) /\ u.color[p] = b.color[p]

\* A round of delete_fixup, case 2.
LEMMA MoveUpTree ==
    ASSUME NEW b, NEW N, NEW s, NEW h, NEW x, NEW p, NEW d, NEW w, Deleting(b, N, s, h, x, p, d),
           w = b.kid[p][Other(d)], b.color[w] = "black",
           \A e \in Side : b.color[b.kid[w][e]] = "black"
    PROVE  MovedTo(b, N, Paint(b, w, "red"), p)
<1> DEFINE u == Paint(b, w, "red")
<1>1. Siblings(b, N, x, w, p, d)
  BY SiblingThere
<1>2. b \in TreeRec /\ Shape(b, N, s) /\ w \in Ref /\ p \in Ref /\ p \in N /\ w # p
  <2>1. b \in TreeRec /\ Shape(b, N, s) /\ N \subseteq Ref
    BY RefFacts DEF Deleting, Shape
  <2> QED BY <2>1, <1>1 DEF Siblings
<1>3. PaintIs(u, b, w, "red")
  BY <1>2, PaintFields
<1> HIDE DEF u
<1>4. MovedFrom(b, N, s, h, x, p, d, w, u)
  BY <1>3 DEF MovedFrom
<1>5. Climbed(u, N, LoweredHeights(h, p, w, N), p)
  BY <1>4, MovedUp
<1>6. SameLinks(b, u) /\ u \in TreeRec /\ Kept(b, u, N) /\ u.color[p] = b.color[p]
  BY <1>2, <1>3 DEF PaintIs, SameLinks, Kept
<1>7. Shape(u, N, s)
  BY <1>2, <1>6 DEF Shape, SameLinks
<1>8. \E r, f : Shape(u, N, r) /\ Climbed(u, N, f, p)
  BY <1>5, <1>7
<1>9. MovedTo(b, N, u, p)
  BY <1>2, <1>6, <1>8 DEF MovedTo
<1> QED BY <1>9 DEF u

\* Case 3, if the far nephew is black.
RedOutside(b, p, d) ==
    LET s == b.kid[p][Other(d)]
    IN IF b.color[b.kid[s][Other(d)]] = "black"
       THEN Rotate(Paint2(b, b.kid[s][d], "black", s, "red"), s, Other(d)) ELSE b

OutsideIs(b, N, t, x, p, d) ==
    /\ DeletingSome(t, N, x, p, d) /\ Kept(b, t, N)
    /\ t.color[t.kid[p][Other(d)]] = "black"
    /\ t.color[t.kid[t.kid[p][Other(d)]][Other(d)]] = "red"

\* A round of delete_fixup, case 3 where it applies.
LEMMA OutsideThere ==
    ASSUME NEW b, NEW N, NEW s, NEW h, NEW x, NEW p, NEW d, NEW w, Deleting(b, N, s, h, x, p, d),
           w = b.kid[p][Other(d)], b.color[w] = "black",
           NEW a \in Side, b.color[b.kid[w][a]] # "black"
    PROVE  OutsideIs(b, N, RedOutside(b, p, d), x, p, d)
<1> DEFINE o == Other(d)
           y == b.kid[w][d]
           k == b.kid[w][o]
           v == Paint2(b, y, "black", w, "red")
           t == Rotate(v, w, o)
<1>1. Siblings(b, N, x, w, p, d)
  BY SiblingThere
<1>2. /\ b \in TreeRec /\ w \in Ref /\ N \subseteq Ref /\ NIL \in Ref /\ w \in N
      /\ \A n \in N, e \in Side : b.kid[n][e] \in N \cup {NIL}
  <2>1. b \in TreeRec /\ N \subseteq Ref /\ NIL \in Ref /\ \A n \in N, e \in Side : b.kid[n][e] \in N \cup {NIL}
    BY RefFacts DEF Deleting, Shape
  <2> QED BY <2>1, <1>1 DEF Siblings
<1>3. d \in Side /\ o \in Side /\ Side = {d, o}
  BY <1>1 DEF Siblings
<1>4. y \in Ref /\ k \in Ref /\ \A n \in Ref : b.color[n] \in {"red", "black"}
  <2>1. \A n \in Ref : b.color[n] \in {"red", "black"}
    BY <1>2, RecFields
  <2> QED BY <2>1, <1>2, <1>3
<1> HIDE DEF y, k
<1>5. CASE b.color[k] = "black"
  <2>1. b.color[y] = "red"
    <3>1. a = d
      BY <1>3, <1>5 DEF k
    <3> QED BY <3>1, <1>4 DEF y
  <2>2. "red" \in {"red", "black"} /\ "black" \in {"red", "black"}
    OBVIOUS
  <2>3. Painted2(b, v, y, "black", w, "red")
    BY <2>2, <1>2, <1>4, PaintedTwo, SMTT(30)
  <2> HIDE DEF v
  <2>4. NephewFrom(b, N, s, h, x, p, d, w, y, v)
    BY <2>1, <2>3, <1>5 DEF NephewFrom, y, k
  <2>5. NephewTo(b, N, t, x, p, d, y)
    BY <2>4, NephewTurned
  <2>6. RedOutside(b, p, d) = t
    BY <1>5 DEF RedOutside, t, v, y, k
  <2> HIDE DEF t, o
  <2> QED BY <2>5, <2>6 DEF NephewTo, OutsideIs, o
<1>6. CASE b.color[k] # "black"
  <2>1. b.color[k] = "red"
    BY <1>4, <1>6
  <2>2. RedOutside(b, p, d) = b
    BY <1>6 DEF RedOutside, k
  <2>3. DeletingSome(b, N, x, p, d) /\ Kept(b, b, N)
    BY DEF DeletingSome, Kept
  <2> QED BY <2>1, <2>2, <2>3 DEF OutsideIs, k
<1> QED BY <1>5, <1>6

\* Case 4.
ParentDown(t, p, d) ==
    LET w == t.kid[p][Other(d)]
    IN Rotate(Paint3(t, w, t.color[p], p, "black", t.kid[w][Other(d)], "black"), p, d)

\* A round of delete_fixup, case 4.
LEMMA ParentDownTree ==
    ASSUME NEW t, NEW N, NEW s, NEW h, NEW x, NEW p, NEW d, Deleting(t, N, s, h, x, p, d),
           t.color[t.kid[p][Other(d)]] = "black",
           t.color[t.kid[t.kid[p][Other(d)]][Other(d)]] = "red"
    PROVE  ParentTo(t, N, ParentDown(t, p, d))
<1> DEFINE w == t.kid[p][Other(d)]
           k == t.kid[w][Other(d)]
           v == Paint3(t, w, t.color[p], p, "black", k, "black")
           u == Rotate(v, p, d)
<1>1. Siblings(t, N, x, w, p, d)
  BY SiblingThere
<1>2. /\ t \in TreeRec /\ w \in Ref /\ p \in Ref /\ k \in Ref
  <2>1. t \in TreeRec /\ N \subseteq Ref /\ NIL \in Ref /\ \A n \in N, e \in Side : t.kid[n][e] \in N \cup {NIL}
    BY RefFacts DEF Deleting, Shape
  <2>2. w \in N /\ Other(d) \in Side /\ p \in N
    BY <1>1 DEF Siblings
  <2> HIDE DEF w
  <2> QED BY <2>1, <2>2
<1>3. t.color[w] = "black" /\ t.color[k] = "red"
  OBVIOUS
<1>4. w = t.kid[p][Other(d)] /\ k = t.kid[w][Other(d)]
  OBVIOUS
<1> HIDE DEF w, k
<1>5. Painted3(t, v, w, t.color[p], p, "black", k, "black")
  <2>1. t.color[p] \in {"red", "black"} /\ "black" \in {"red", "black"}
    BY <1>2, RecFields, SMTT(30)
  <2> QED BY <2>1, <1>2, PaintedThree
<1> HIDE DEF v
<1>6. ParentFrom(t, N, s, h, x, p, d, w, k, v)
  BY <1>3, <1>4, <1>5 DEF ParentFrom
<1>7. ParentTo(t, N, u)
  BY <1>6, ParentTurned
<1>8. ParentDown(t, p, d) = u
  BY DEF ParentDown, u, v, w, k
<1> QED BY <1>7, <1>8

-----------------------------------------------------------------------------
(* The invariant                                                           *)

\* The nodes that are not in the free list, and those of them in the tree.
Held == {n \in Addr : area[n] # NONE}
Nodes == IF pc \in {"delete_fixup", "release"} THEN Held \ {call.addr} ELSE Held

CallInv ==
    /\ pc = "idle" <=> call = Idle
    /\ pc \in {"descend", "insert_fixup"} /\ call.op = "add" => ~Rejected(call.area)
    /\ pc = "insert_fixup" =>
          call.op = "add" /\ call.area.start \in Held /\ area[call.area.start] = call.area
    /\ pc \in {"delete_fixup", "release"} => call.op = "remove" /\ call.addr \in Held

\* A free node has no children.
FreeInv == \A n \in Ref \ Held, e \in Side : tree.kid[n][e] = NIL

AreaInv ==
    \A n \in Held :
       /\ area[n].start = n /\ n < area[n].end
       /\ \A m \in Held : m < n => area[m].end <= n

CountInv ==
    /\ g_count = Cardinality(Held) - (IF pc = "insert_fixup" THEN 1 ELSE 0)
    /\ pool + Cardinality(Held) = RB_MAX_NODES

\* The side of n on which an area that starts at z is looked for.
Way(z, n) == IF z < n THEN "left" ELSE "right"

\* The search has not passed by what it looks for, and where it ends is the
\* place of a new area.
AddSearch(s) ==
    /\ up \in Held \cup {NIL} /\ (up = NIL => cur = tree.root)
    /\ \A n \in Held : Overlaps(call.area, area[n]) => n \in s[cur]
    /\ up # NIL => /\ cur = tree.kid[up][Way(call.area.start, up)]
                   /\ call.area.start # up
    /\ \A m \in Held, e \in Side :
          up \in s[tree.kid[m][e]] => Before(e, call.area.start, m)

Search(s) ==
    pc = "descend" =>
    /\ cur \in Held \cup {NIL}
    /\ call.op = "add" => AddSearch(s)
    /\ call.op = "remove" => (call.addr \in Held => call.addr \in s[cur])
    /\ call.op = "find" =>
          \A n \in Held : n <= call.addr /\ call.addr < area[n].end => n \in s[cur]

\* What the fix-up loop that is running has left to repair.
BalanceInv(s, h) ==
    IF pc = "insert_fixup" THEN Inserting(tree, Nodes, s, h, cur)
    ELSE IF pc = "delete_fixup"
    THEN /\ Shape(tree, Nodes, s) /\ cur \in Nodes \cup {NIL}
         /\ Climbed(tree, Nodes, h, cur)
    ELSE Balanced(tree, Nodes, s, h)

StateInv == CallInv /\ FreeInv /\ AreaInv /\ CountInv
TreeInv == \E s, h : BalanceInv(s, h) /\ Search(s)

IInv == TypeOK /\ StateInv /\ TreeInv

LEMMA HeldFacts ==
    Held \subseteq Addr /\ IsFiniteSet(Held) /\ Cardinality(Held) \in Nat /\ NIL \notin Held
<1>1. Held \subseteq Addr
  BY DEF Held
<1> QED BY <1>1, AddrFacts, FS_Subset, FS_CardinalityType, Zenon

LEMMA TreeTyped == ASSUME TypeOK PROVE tree \in TreeRec
  BY DEF TypeOK, TreeRec

LEMMA InitHolds == Init => IInv
<1> SUFFICES ASSUME Init PROVE IInv
  OBVIOUS
<1>1. NIL \in Ref /\ NoKids \in [Side -> Ref] /\ \A e \in Side : NoKids[e] = NIL
  BY RefFacts, NoKidsFields
<1>2. /\ tree.root = NIL /\ tree.kid = [n \in Ref |-> NoKids]
      /\ tree.parent = [n \in Ref |-> NIL] /\ tree.color = [n \in Ref |-> "black"]
      /\ area = [n \in Addr |-> NONE]
      /\ g_count = 0 /\ pool = RB_MAX_NODES
      /\ call = Idle /\ pc = "idle" /\ cur = NIL /\ up = NIL
      /\ ret = NoAnswer
  BY DEF Init, Ref
<1>3. tree \in TreeRec
  <2> DEFINE a == tree.kid
             b == tree.parent
             c == tree.color
  <2>1. tree = [root |-> NIL, kid |-> a, parent |-> b, color |-> c]
    BY DEF Init
  <2>2. a \in [Ref -> [Side -> Ref]] /\ b \in [Ref -> Ref] /\ c \in [Ref -> {"red", "black"}]
    BY <1>1, <1>2
  <2> HIDE DEF a, b, c
  <2> QED BY <2>1, <2>2, <1>1 DEF TreeRec
<1>4. RB_MAX_NODES \in Nat /\ 0 \in 0..RB_MAX_NODES /\ RB_MAX_NODES \in 0..RB_MAX_NODES
  BY RbAssumption
<1>5. TypeOK
  <2>1. call \in Calls /\ ret \in [call : Calls, code : {0, -1}, area : Area \cup {NONE}]
    BY <1>2 DEF Calls, NoAnswer
  <2> QED BY <2>1, <1>1, <1>2, <1>3, <1>4 DEF TypeOK, TreeRec
<1>6. Held = {}
  BY <1>2 DEF Held
<1>7. Cardinality(Held) = 0
  BY <1>6, FS_EmptySet
<1>8. FreeInv
  BY <1>1, <1>2 DEF FreeInv
<1>9. StateInv
  BY <1>2, <1>4, <1>6, <1>7, <1>8 DEF StateInv, CallInv, AreaInv, CountInv
<1>10. Nodes = {}
  BY <1>2, <1>6 DEF Nodes
<1> DEFINE s == [n \in {NIL} |-> {}]
           h == [n \in {NIL} |-> 0]
<1>11. s \in [{} \cup {NIL} -> SUBSET {}] /\ s[NIL] = {} /\ h \in [{} \cup {NIL} -> Nat] /\ h[NIL] = 0
  OBVIOUS
<1> HIDE DEF s, h
<1>12. Shape(tree, {}, s)
  BY <1>2, <1>11 DEF Shape
<1>13. Heights(tree, {}, h, NIL, "left")
  BY <1>11 DEF Heights
<1>14. NoRedRed(tree, {}, NIL, NIL)
  BY <1>1, <1>2 DEF NoRedRed
<1>15. BalanceInv(s, h) /\ Search(s)
  BY <1>2, <1>3, <1>10, <1>12, <1>13, <1>14 DEF BalanceInv, Balanced, Search
<1> QED BY <1>5, <1>9, <1>15 DEF IInv, TreeInv

\* Steps that leave the nodes alone: calls that begin, search or return.
LEMMA QuietStep ==
    ASSUME IInv, UNCHANGED nodes, TypeOK', pc \in {"idle", "descend"},
           pc' \in {"idle", "descend"}, CallInv',
           ASSUME NEW s, Shape(tree, Held, s), Search(s) PROVE Search(s)'
    PROVE  IInv'
<1>1. Held' = Held
  BY DEF Held, nodes
<1>2. Nodes = Held /\ Nodes' = Held
  BY <1>1 DEF Nodes
<1>3. FreeInv' /\ AreaInv'
  BY <1>1 DEF IInv, StateInv, FreeInv, AreaInv, nodes
<1>4. CountInv'
  BY <1>1 DEF IInv, StateInv, CountInv, nodes
<1>5. PICK s, h : BalanceInv(s, h) /\ Search(s)
  BY DEF IInv, TreeInv
<1>6. Balanced(tree, Held, s, h)
  BY <1>2, <1>5 DEF BalanceInv
<1>7. Search(s)'
  BY <1>5, <1>6 DEF Balanced
<1>8. BalanceInv(s, h)'
  <2>1. Balanced(tree', Held', s, h)
    BY <1>6, <1>1 DEF nodes
  <2>2. Nodes' = Held' /\ pc' # "insert_fixup" /\ pc' # "delete_fixup"
    BY <1>1, <1>2
  <2> QED BY <2>1, <2>2 DEF BalanceInv
<1>9. TreeInv'
  BY <1>7, <1>8 DEF TreeInv
<1>10. StateInv'
  BY <1>3, <1>4 DEF StateInv
<1> QED BY <1>9, <1>10 DEF IInv
LEMMA CallTypes ==
    ASSUME NEW c \in Calls
    PROVE  /\ c.op = "add" => /\ c = [op |-> "add", area |-> c.area] /\ c.area \in Area
                              /\ c.area.start \in Addr /\ c.area.end \in Addr
           /\ c.op \in {"remove", "find"} => c.addr \in Addr /\ c = [op |-> c.op, addr |-> c.addr]
           /\ c.op = "idle" <=> c = Idle
<1>1. CASE c = Idle
  BY <1>1 DEF Idle
<1>2. CASE c \in [op : {"add"}, area : Area]
  BY <1>2 DEF Idle, Area
<1>3. CASE c \in [op : {"remove", "find"}, addr : Addr]
  BY <1>3 DEF Idle
<1> QED BY <1>1, <1>2, <1>3 DEF Calls

LEMMA CallMade ==
    /\ \A a \in Area : [op |-> "add", area |-> a] \in Calls
    /\ \A b \in Addr, o \in {"remove", "find"} : [op |-> o, addr |-> b] \in Calls
    /\ Idle \in Calls
  BY DEF Calls

LEMMA AnswerTypes ==
    ASSUME NEW c \in Calls, NEW code \in {0, -1}, NEW a \in Area \cup {NONE}
    PROVE  [call |-> c, code |-> code, area |-> a] \in [call : Calls, code : {0, -1}, area : Area \cup {NONE}]
  OBVIOUS

\* The tree between the rounds of a search.
LEMMA SearchTrees ==
    ASSUME NEW s, Shape(tree, Held, s)
    PROVE  /\ tree.root \in Held \cup {NIL} /\ s[tree.root] = Held /\ s[NIL] = {}
           /\ \A n \in Held, e \in Side : tree.kid[n][e] \in Held \cup {NIL}
           /\ \A n \in Held \cup {NIL} : s[n] \subseteq Held /\ NIL \notin s[n]
           /\ Held \subseteq Nat /\ NIL \notin Held
<1>1. Held \subseteq Nat /\ NIL \notin Held
  BY AddrFacts, HeldFacts
<1>2. /\ tree.root \in Held \cup {NIL} /\ s[tree.root] = Held /\ s[NIL] = {}
      /\ \A n \in Held, e \in Side : tree.kid[n][e] \in Held \cup {NIL}
      /\ s \in [Held \cup {NIL} -> SUBSET Held]
  BY DEF Shape
<1> QED BY <1>1, <1>2

LEMMA DescendKeeps ==
    ASSUME IInv, pc = "idle", NEW c \in Calls, Descend(c), UNCHANGED nodes, c # Idle,
           c.op = "add" => ~Rejected(c.area)
    PROVE  IInv'
<1>1. /\ call' = c /\ pc' = "descend" /\ cur' = tree.root /\ up' = NIL
      /\ ret' = NoAnswer /\ tree' = tree /\ area' = area /\ g_count' = g_count /\ pool' = pool
  BY DEF Descend, nodes
<1>2. TypeOK'
  <2>1. tree.root \in Ref /\ NIL \in Ref
    BY RefFacts, TreeTyped, RecFields DEF IInv
  <2>2. ret' \in [call : Calls, code : {0, -1}, area : Area \cup {NONE}]
    BY <1>1, CallMade, AnswerTypes DEF NoAnswer
  <2> QED BY <1>1, <2>1, <2>2 DEF IInv, TypeOK
<1>3. CallInv'
  BY <1>1 DEF CallInv, Rejected
<1>4. Held' = Held
  BY <1>1 DEF Held
<1>5. ASSUME NEW s, Shape(tree, Held, s) PROVE Search(s)'
  <2>1. /\ tree.root \in Held \cup {NIL} /\ s[tree.root] = Held /\ s[NIL] = {}
        /\ \A n \in Held, e \in Side : tree.kid[n][e] \in Held \cup {NIL}
        /\ \A n \in Held \cup {NIL} : NIL \notin s[n]
    BY <1>5, SearchTrees
  <2>2. c.op = "add" => AddSearch(s)'
    BY <2>1, <1>1, <1>4 DEF AddSearch
  <2>3. c.op = "remove" => (c.addr \in Held => c.addr \in s[tree.root])
    BY <2>1
  <2>4. \A n \in Held : n \in s[tree.root]
    BY <2>1
  <2> QED BY <2>1, <2>2, <2>3, <2>4, <1>1, <1>4 DEF Search
<1> QED BY <1>1, <1>2, <1>3, <1>5, QuietStep, Zenon

LEMMA ReturnKeeps ==
    ASSUME IInv, pc = "descend", NEW code \in {0, -1}, NEW a \in Area \cup {NONE},
           Return(code, a), UNCHANGED nodes
    PROVE  IInv'
<1>1. /\ call' = Idle /\ pc' = "idle" /\ cur' = NIL /\ up' = NIL
      /\ ret' = [call |-> call, code |-> code, area |-> a]
      /\ tree' = tree /\ area' = area /\ g_count' = g_count /\ pool' = pool
  BY DEF Return, nodes
<1>2. TypeOK'
  <2>1. NIL \in Ref /\ Idle \in Calls /\ call \in Calls
    BY RefFacts, CallMade DEF IInv, TypeOK
  <2>2. ret' \in [call : Calls, code : {0, -1}, area : Area \cup {NONE}]
    BY <1>1, <2>1, AnswerTypes
  <2> QED BY <1>1, <2>1, <2>2 DEF IInv, TypeOK
<1>3. CallInv'
  BY <1>1 DEF CallInv
<1>4. ASSUME NEW s PROVE Search(s)'
  BY <1>1 DEF Search
<1> QED BY <1>1, <1>2, <1>3, <1>4, QuietStep, Zenon

LEMMA BeginKeeps == ASSUME IInv, Begin PROVE IInv'
<1>1. ASSUME NEW a \in AreaArgs, rb_add(a) PROVE IInv'
  <2>1. a \in Area /\ [op |-> "add", area |-> a] \in Calls /\ pc = "idle" /\ UNCHANGED nodes
    BY <1>1, RbAssumption, CallMade DEF rb_add
  <2>2. CASE Rejected(a)
    <3>1. /\ ret' = [call |-> [op |-> "add", area |-> a], code |-> -1, area |-> NONE]
          /\ UNCHANGED <<call, pc, cur, up>>
      BY <1>1, <2>2 DEF rb_add
    <3>2. TypeOK'
      <4>1. ret' \in [call : Calls, code : {0, -1}, area : Area \cup {NONE}]
        BY <2>1, <3>1, AnswerTypes
      <4> QED BY <2>1, <3>1, <4>1 DEF IInv, TypeOK, nodes
    <3>3. CallInv'
      BY <2>1, <3>1 DEF IInv, StateInv, CallInv
    <3>4. ASSUME NEW s PROVE Search(s)'
      BY <2>1, <3>1 DEF Search
    <3> QED BY <2>1, <3>1, <3>2, <3>3, <3>4, QuietStep, Zenon
  <2>3. CASE ~Rejected(a)
    <3> DEFINE c == [op |-> "add", area |-> a]
    <3>1. Descend(c) /\ c \in Calls /\ c # Idle /\ c.op = "add" /\ c.area = a
      BY <1>1, <2>1, <2>3 DEF rb_add, Idle
    <3> HIDE DEF c
    <3> QED BY <2>1, <2>3, <3>1, DescendKeeps
  <2> QED BY <2>2, <2>3
<1>2. ASSUME NEW b \in AddrArgs, rb_remove(b) \/ rb_find(b) PROVE IInv'
  <2>1. PICK o \in {"remove", "find"} :
           pc = "idle" /\ Descend([op |-> o, addr |-> b]) /\ UNCHANGED nodes
    BY <1>2 DEF rb_remove, rb_find
  <2> DEFINE c == [op |-> o, addr |-> b]
  <2>2. c \in Calls /\ c # Idle /\ c.op # "add"
    BY RbAssumption, CallMade, Zenon DEF Idle
  <2> HIDE DEF c
  <2> QED BY <2>1, <2>2, DescendKeeps DEF c
<1> QED BY <1>1, <1>2 DEF Begin
-----------------------------------------------------------------------------
(* The searches                                                            *)

\* What lies below n before it on side e lies below that child.
LEMMA StepDown ==
    ASSUME NEW t, NEW N, NEW s, Shape(t, N, s), NEW n \in N, NEW m \in s[n], m # n,
           NEW e \in Side, Before(e, m, n)
    PROVE  m \in s[t.kid[n][e]]
<1>1. m \in N /\ N \subseteq Nat /\ n \in Nat /\ m \in Nat
  BY AddrFacts DEF Shape
<1>2. PICK d \in Side : m \in s[t.kid[n][d]]
  BY <1>1 DEF Shape
<1>3. Before(d, m, n)
  BY <1>1, <1>2 DEF Shape
<1>4. d = e
  BY <1>1, <1>3, Sides DEF Before
<1> QED BY <1>2, <1>4

\* On the right side of every node above.
LEMMA PlaceBelow ==
    ASSUME NEW t, NEW N, NEW s, Shape(t, N, s), NEW n \in N, NEW u \in N \cup {NIL}, NEW z,
           NEW d \in Side, u = NIL => n = t.root,
           u # NIL => n = t.kid[u][d] /\ Before(d, z, u),
           \A m \in N, e \in Side : u \in s[t.kid[m][e]] => Before(e, z, m),
           NEW m \in N, NEW e \in Side, n \in s[t.kid[m][e]]
    PROVE  Before(e, z, m)
<1>1. /\ NIL \notin N /\ t.kid[m][e] \in N \cup {NIL} /\ m \notin s[t.kid[m][e]] /\ s[NIL] = {}
      /\ t.kid[m][e] # NIL => t.parent[t.kid[m][e]] = m
  <2>1. /\ t.kid[m][e] \in N \cup {NIL} /\ m \notin s[t.kid[m][e]]
        /\ t.kid[m][e] # NIL => t.parent[t.kid[m][e]] = m
    BY Kids
  <2>2. NIL \notin N /\ s[NIL] = {}
    BY AddrFacts, Zenon DEF Shape
  <2> QED BY <2>1, <2>2
<1>2. t.kid[m][e] \in N
  BY <1>1
<1>3. n \in N /\ s[n] \subseteq s[t.kid[m][e]]
  BY <1>2, Below
<1>4. CASE u = NIL
  <2>1. s[n] = N
    BY <1>4 DEF Shape
  <2> QED BY <2>1, <1>1, <1>3
<1>5. CASE u # NIL
  <2>1. t.parent[n] = u /\ u \in N
    BY <1>1, <1>5 DEF Shape
  <2>2. CASE n = t.kid[m][e]
    <3>1. m = u
      BY <2>1, <2>2, <1>1, <1>2
    <3>2. SideOf(t, n) = e /\ SideOf(t, n) = d
      BY <2>1, <2>2, <3>1, <1>1, <1>2, <1>5, SideOfKid
    <3> QED BY <3>1, <3>2, <1>5
  <2>3. CASE n # t.kid[m][e]
    <3>1. u \in s[t.kid[m][e]]
      BY <2>1, <2>3, <1>2, Below
    <3> QED BY <3>1
  <2> QED BY <2>2, <2>3
<1> QED BY <1>4, <1>5

\* The fields of the areas held.
LEMMA AreaFacts ==
    ASSUME TypeOK, AreaInv
    PROVE  \A n \in Held : /\ area[n] \in Area /\ area[n].start = n /\ n < area[n].end
                           /\ n \in Nat /\ area[n].end \in Nat
                           /\ \A m \in Held : m < n => area[m].end <= n
<1>1. \A n \in Held : n \in Addr /\ area[n] \in Area
  BY DEF TypeOK, Held
<1>2. \A n \in Held : area[n].end \in Addr
  BY <1>1 DEF Area
<1> QED BY <1>1, <1>2, AddrFacts, Zenon DEF AreaInv

LEMMA AddDescendKeeps == ASSUME IInv, add_descend PROVE IInv'
<1>1. /\ pc = "descend" /\ call.op = "add" /\ cur # NIL /\ UNCHANGED nodes /\ TypeOK
      /\ CallInv /\ AreaInv
  BY DEF add_descend, IInv, StateInv
<1>2. CASE Overlaps(call.area, area[cur])
  <2>1. Return(-1, NONE)
    BY <1>2 DEF add_descend
  <2> QED BY <1>1, <2>1, ReturnKeeps
<1>3. CASE ~Overlaps(call.area, area[cur])
  <2> DEFINE z == call.area.start
             d == Way(z, cur)
  <2>1. /\ up' = cur /\ cur' = tree.kid[cur][d] /\ UNCHANGED <<call, pc, ret>>
        /\ UNCHANGED <<tree, area, g_count, pool>>
    BY <1>1, <1>3 DEF add_descend, Way, nodes
  <2>2. d \in Side /\ call.area \in Area /\ z \in Nat /\ call.area.end \in Nat
    BY <1>1, CallTypes, AddrFacts, Sides DEF TypeOK, Way
  <2>3. z < call.area.end
    BY <1>1, <2>2 DEF CallInv, Rejected
  <2>4. TypeOK'
    <3>1. tree.kid[cur][d] \in Ref
      BY <1>1, <2>2, TreeTyped, RecFields DEF TypeOK, KidFcn
    <3> QED BY <1>1, <2>1, <3>1 DEF TypeOK
  <2>5. CallInv'
    <3>1. Held' = Held
      BY <2>1 DEF Held
    <3> QED BY <1>1, <2>1, <3>1 DEF CallInv, Rejected
  <2>6. ASSUME NEW s, Shape(tree, Held, s), Search(s) PROVE Search(s)'
    <3>1. cur \in Held /\ AddSearch(s)
      BY <2>6, <1>1 DEF Search
    <3>2. Held' = Held
      BY <2>1 DEF Held
    <3>3. cur' \in Held \cup {NIL}
      BY <2>1, <2>2, <2>6, <3>1, SearchTrees
    <3>4. /\ \A n \in Held : /\ area[n] \in Area /\ area[n].start = n /\ n < area[n].end
                             /\ n \in Nat /\ area[n].end \in Nat
                             /\ \A m \in Held : m < n => area[m].end <= n
      BY <1>1, AreaFacts
    <3>5. /\ up \in Held \cup {NIL} /\ (up = NIL => cur = tree.root)
          /\ \A n \in Held : Overlaps(call.area, area[n]) => n \in s[cur]
          /\ up # NIL => cur = tree.kid[up][Way(z, up)] /\ z # up
          /\ \A m \in Held, e \in Side : up \in s[tree.kid[m][e]] => Before(e, z, m)
      BY <3>1 DEF AddSearch
    <3> HIDE DEF z, d
    <3>6. z # cur
      BY <3>1, <3>4, <1>3, <2>2, <2>3 DEF Overlaps, z
    <3>7. \A n \in Nat : n # z => Before(Way(z, n), z, n) /\ Way(z, n) \in Side
      BY <2>2, Sides DEF Before, Way
    <3>8. ASSUME NEW m \in Held, NEW e \in Side, cur \in s[tree.kid[m][e]] PROVE Before(e, z, m)
      <4>1. up # NIL => cur = tree.kid[up][Way(z, up)] /\ Before(Way(z, up), z, up)
        BY <3>4, <3>5, <3>7
      <4>2. Way(z, up) \in Side
        BY DEF Way, Side
      <4> QED BY <2>6, <3>1, <3>5, <3>8, <4>1, <4>2, PlaceBelow, Zenon
    <3>9. ASSUME NEW n \in Held, Overlaps(call.area, area[n]) PROVE n \in s[tree.kid[cur][d]]
      <4>1. n \in s[cur] /\ n # cur
        BY <3>5, <3>9, <1>3
      <4>2. /\ z < area[n].end /\ n < call.area.end
            /\ ~(z < area[cur].end /\ cur < call.area.end)
        BY <3>1, <3>4, <3>9, <1>3 DEF Overlaps, z
      <4>3. /\ n \in Nat /\ area[n].end \in Nat /\ cur \in Nat /\ area[cur].end \in Nat
            /\ n < area[n].end /\ cur < area[cur].end
            /\ n < cur => area[n].end <= cur
        BY <3>1, <3>4
      <4>4. Before(d, n, cur)
        BY <4>1, <4>2, <4>3, <3>6, <2>2 DEF Before, d, Way
      <4> QED BY <4>1, <4>4, <2>2, <2>6, <3>1, StepDown
    <3>10. AddSearch(s)'
      <4>1. up' \in Held' \cup {NIL} /\ (up' = NIL => cur' = tree'.root)
        BY <2>1, <3>1, <3>2, <1>1
      <4>2. \A n \in Held' : Overlaps(call'.area, area'[n]) => n \in s[cur']
        BY <2>1, <3>2, <3>9
      <4>3. cur' = tree'.kid[up'][Way(call'.area.start, up')] /\ call'.area.start # up'
        BY <2>1, <3>6 DEF d, z
      <4>4. \A m \in Held', e \in Side :
                up' \in s[tree'.kid[m][e]] => Before(e, call'.area.start, m)
        BY <2>1, <3>2, <3>8 DEF z
      <4> QED BY <4>1, <4>2, <4>3, <4>4 DEF AddSearch
    <3> QED BY <2>1, <3>2, <3>3, <3>10, <1>1 DEF Search
  <2> QED BY <1>1, <2>1, <2>4, <2>5, <2>6, QuietStep, Zenon
<1> QED BY <1>2, <1>3

LEMMA RemoveDescendKeeps == ASSUME IInv, remove_descend PROVE IInv'
<1>1. /\ pc = "descend" /\ call.op = "remove" /\ cur # NIL /\ cur # call.addr
      /\ UNCHANGED nodes /\ TypeOK /\ CallInv /\ AreaInv
  BY DEF remove_descend, IInv, StateInv
<1> DEFINE z == call.addr
           d == Way(z, cur)
<1>2. /\ cur' = tree.kid[cur][d] /\ UNCHANGED <<call, pc, up, ret>>
      /\ UNCHANGED <<tree, area, g_count, pool>>
  BY <1>1 DEF remove_descend, Way, nodes
<1>3. d \in Side /\ z \in Nat
  BY <1>1, CallTypes, AddrFacts, Sides DEF TypeOK, Way
<1>4. TypeOK'
  <2>1. tree.kid[cur][d] \in Ref
    BY <1>1, <1>3, TreeTyped, RecFields DEF TypeOK, KidFcn
  <2> QED BY <1>1, <1>2, <2>1 DEF TypeOK
<1>5. Held' = Held
  BY <1>2 DEF Held
<1>6. CallInv'
  BY <1>1, <1>2, <1>5 DEF CallInv, Rejected
<1>7. ASSUME NEW s, Shape(tree, Held, s), Search(s) PROVE Search(s)'
  <2>1. cur \in Held /\ (z \in Held => z \in s[cur])
    BY <1>1, <1>7 DEF Search
  <2>2. cur' \in Held \cup {NIL}
    BY <1>2, <1>3, <1>7, <2>1, SearchTrees
  <2>3. cur \in Nat
    BY <1>7, <2>1, SearchTrees
  <2>4. Before(d, z, cur)
    BY <1>1, <1>3, <2>3 DEF Before, Way
  <2>5. z \in Held => z \in s[tree.kid[cur][d]]
    BY <1>1, <1>3, <1>7, <2>1, <2>4, StepDown
  <2> HIDE DEF d
  <2> QED BY <1>1, <1>2, <1>5, <2>2, <2>5 DEF Search
<1> QED BY <1>1, <1>2, <1>4, <1>6, <1>7, QuietStep, Zenon

LEMMA FindDescendKeeps == ASSUME IInv, find_descend PROVE IInv'
<1>1. /\ pc = "descend" /\ call.op = "find" /\ cur # NIL
      /\ UNCHANGED nodes /\ TypeOK /\ CallInv /\ AreaInv
  BY DEF find_descend, IInv, StateInv
<1> DEFINE z == call.addr
           d == Way(z, cur)
<1>2. /\ cur' = tree.kid[cur][d] /\ UNCHANGED <<call, pc, up, ret>>
      /\ UNCHANGED <<tree, area, g_count, pool>>
      /\ z < cur \/ z >= area[cur].end
  BY <1>1 DEF find_descend, Way, nodes
<1>3. d \in Side /\ z \in Nat
  BY <1>1, CallTypes, AddrFacts, Sides DEF TypeOK, Way
<1>4. TypeOK'
  <2>1. tree.kid[cur][d] \in Ref
    BY <1>1, <1>3, TreeTyped, RecFields DEF TypeOK, KidFcn
  <2> QED BY <1>1, <1>2, <2>1 DEF TypeOK
<1>5. Held' = Held
  BY <1>2 DEF Held
<1>6. CallInv'
  BY <1>1, <1>2, <1>5 DEF CallInv, Rejected
<1>7. ASSUME NEW s, Shape(tree, Held, s), Search(s) PROVE Search(s)'
  <2>1. cur \in Held /\ \A n \in Held : n <= z /\ z < area[n].end => n \in s[cur]
    BY <1>1, <1>7 DEF Search
  <2>2. cur' \in Held \cup {NIL}
    BY <1>2, <1>3, <1>7, <2>1, SearchTrees
  <2>3. /\ \A n \in Held : /\ n < area[n].end /\ n \in Nat /\ area[n].end \in Nat
                           /\ \A m \in Held : m < n => area[m].end <= n
    BY <1>1, AreaFacts
  <2>4. ASSUME NEW n \in Held, n <= z, z < area[n].end PROVE n \in s[tree.kid[cur][d]]
    <3>1. n \in s[cur]
      BY <2>1, <2>4
    <3>2. /\ n \in Nat /\ area[n].end \in Nat /\ cur \in Nat /\ area[cur].end \in Nat
          /\ n < area[n].end /\ cur < area[cur].end
          /\ n < cur => area[n].end <= cur
      BY <2>1, <2>3
    <3>3. n # cur /\ Before(d, n, cur)
      BY <3>2, <2>4, <1>2, <1>3 DEF Before, Way
    <3> QED BY <3>1, <3>3, <1>3, <1>7, <2>1, StepDown
  <2> HIDE DEF d
  <2> QED BY <1>1, <1>2, <1>5, <2>2, <2>4 DEF Search
<1> QED BY <1>1, <1>2, <1>4, <1>6, <1>7, QuietStep, Zenon

LEMMA AnswerKeeps == ASSUME IInv, remove_misses \/ find_answer PROVE IInv'
<1>1. CASE remove_misses
  BY <1>1, ReturnKeeps DEF remove_misses
<1>2. CASE find_answer
  <2>1. pc = "descend" /\ UNCHANGED nodes
    BY <1>2 DEF find_answer
  <2>2. CASE cur = NIL
    BY <1>2, <2>1, <2>2, ReturnKeeps DEF find_answer
  <2>3. CASE cur # NIL
    <3>1. Return(0, area[cur]) /\ area[cur] \in Area \cup {NONE}
      BY <1>2, <2>3 DEF find_answer, IInv, TypeOK, Ref
    <3> QED BY <2>1, <3>1, ReturnKeeps
  <2> QED BY <2>2, <2>3
<1> QED BY <1>1, <1>2
-----------------------------------------------------------------------------
(* rb_add                                                                  *)

LEMMA AddLinkKeeps == ASSUME IInv, add_link PROVE IInv'
<1>1. /\ pc = "descend" /\ call.op = "add" /\ cur = NIL /\ g_count' = g_count /\ TypeOK
      /\ CallInv /\ AreaInv /\ FreeInv /\ CountInv
  BY DEF add_link, IInv, StateInv
<1>2. CASE pool = 0
  <2>1. Return(-1, NONE) /\ UNCHANGED nodes
    BY <1>1, <1>2 DEF add_link, nodes
  <2> QED BY <1>1, <2>1, ReturnKeeps
<1>3. CASE pool # 0
  <2> DEFINE a == call.area
             z == call.area.start
             d == Way(z, up)
             w == Link(tree, z, up)
  <2>1. /\ tree' = w /\ area' = [area EXCEPT ![z] = a] /\ pool' = pool - 1
        /\ pc' = "insert_fixup" /\ cur' = z /\ UNCHANGED <<call, up, ret>>
    BY <1>1, <1>3 DEF add_link
  <2>2. a \in Area /\ z \in Addr /\ z \in Nat /\ a.end \in Nat /\ z < a.end /\ a # NONE
    <3>1. a \in Area /\ z \in Addr /\ z \in Nat /\ a.end \in Nat
      BY <1>1, CallTypes, AddrFacts DEF TypeOK
    <3>2. z < a.end
      BY <1>1, <3>1 DEF CallInv, Rejected
    <3> QED BY <3>1, <3>2 DEF NONE
  <2>3. PICK s, h : BalanceInv(s, h) /\ Search(s)
    BY DEF IInv, TreeInv
  <2>4. Balanced(tree, Held, s, h) /\ AddSearch(s)
    BY <2>3, <1>1 DEF BalanceInv, Nodes, Search
  <2>5. /\ tree \in TreeRec /\ Shape(tree, Held, s) /\ Heights(tree, Held, h, NIL, "left")
        /\ NoRedRed(tree, Held, NIL, NIL)
    BY <2>4 DEF Balanced
  <2>6. /\ \A n \in Held : /\ area[n] \in Area /\ area[n].start = n /\ n < area[n].end
                           /\ n \in Nat /\ area[n].end \in Nat
                           /\ \A m \in Held : m < n => area[m].end <= n
    BY <1>1, AreaFacts
  <2>7. s[NIL] = {} /\ Held \subseteq Nat /\ NIL \notin Held
    BY <2>5, SearchTrees
  <2>8. \A n \in Held : ~Overlaps(a, area[n])
    BY <2>4, <2>7, <1>1 DEF AddSearch
  <2>9. /\ up \in Held \cup {NIL} /\ (up = NIL => tree.root = NIL)
        /\ up # NIL => tree.kid[up][d] = NIL /\ z # up
        /\ \A m \in Held, e \in Side : up \in s[tree.kid[m][e]] => Before(e, z, m)
    BY <2>4, <1>1 DEF AddSearch
  <2>10. z \notin Held /\ z # up
    <3>1. z \notin Held
      BY <2>2, <2>6, <2>8 DEF Overlaps
    <3> QED BY <3>1, <2>2, <2>9, RefFacts
  <2> HIDE DEF a, z, d, w
  <2>11. d \in Side /\ (up # NIL => Before(d, z, up))
    <3>1. d \in Side /\ d = IF z < up THEN "left" ELSE "right"
      BY DEF d, Way, Side
    <3>2. up # NIL => up \in Nat /\ z # up
      BY <2>7, <2>9
    <3> QED BY <3>1, <3>2, <2>2 DEF Before
  <2>12. Place(tree, Held, s, z, up, d)
    BY <2>2, <2>9, <2>10, <2>11 DEF Place
  <2>13. LinkIs(w, tree, z, up, d)
    <3>1. up \in Ref
      BY <1>1 DEF TypeOK
    <3> QED BY <2>2, <2>5, <2>10, <3>1, LinkFields DEF w, d, Way
  <2>14. Inserting(w, Held \cup {z}, LinkedSets(Held, s, z, up), LinkedHeights(Held, h, z), z)
    BY <2>5, <2>12, <2>13, Linked
  <2>15. area' \in [Addr -> Area \cup {NONE}] /\ area'[z] = a
         /\ \A n \in Addr : n # z => area'[n] = area[n]
    BY <2>1, <2>2, <1>1 DEF TypeOK
  <2>16. Held' = Held \cup {z}
    BY <2>2, <2>15, Zenon DEF Held
  <2>17. Cardinality(Held') = Cardinality(Held) + 1 /\ Cardinality(Held) \in Nat
    BY <2>10, <2>16, HeldFacts, FS_AddElement
  <2>18. TypeOK'
    <3>1. w \in TreeRec
      BY <2>13 DEF LinkIs
    <3>2. pool - 1 \in 0..RB_MAX_NODES
      BY <1>1, <1>3, RbAssumption DEF TypeOK
    <3>3. z \in Ref
      BY <2>2, RefFacts
    <3> QED BY <1>1, <2>1, <2>15, <3>1, <3>2, <3>3 DEF TypeOK, TreeRec
  <2>19. CallInv'
    <3>1. call' = call /\ g_count' = g_count /\ pc' = "insert_fixup" /\ call'.area.start = z
      BY <1>1, <2>1 DEF z
    <3>2. (~Rejected(call.area))'
      BY <1>1, <3>1 DEF CallInv, Rejected
    <3>3. call # Idle
      BY <1>1 DEF CallInv
    <3>4. area'[z] = call'.area
      BY <2>15, <3>1 DEF a
    <3> QED BY <1>1, <2>16, <3>1, <3>2, <3>3, <3>4 DEF CallInv
  <2>20. CountInv'
    <3>1. g_count' = g_count /\ pool' = pool - 1 /\ pc' = "insert_fixup"
      BY <1>1, <2>1
    <3>2. pool \in Nat /\ RB_MAX_NODES \in Nat
      BY <1>1, RbAssumption DEF TypeOK
    <3> QED BY <1>1, <2>17, <3>1, <3>2 DEF CountInv
  <2>21. FreeInv'
    <3>1. ASSUME NEW n \in Ref \ (Held \cup {z}), NEW e \in Side PROVE w.kid[n][e] = NIL
      <4>1. tree.kid[n][e] = NIL /\ n # z /\ ~(n = up /\ n # NIL)
        BY <3>1, <2>9, <1>1 DEF FreeInv
      <4> QED BY <4>1, <2>13 DEF LinkIs
    <3> QED BY <3>1, <2>1, <2>16 DEF FreeInv
  <2>22. AreaInv'
    <3>1. \A n \in Held : area'[n] = area[n]
      BY <2>10, <2>15, HeldFacts
    <3>2. a.start = z
      BY DEF a, z
    <3>3. \A n \in Held : /\ n < z => area[n].end <= z
                          /\ z < n => a.end <= n
      <4> SUFFICES ASSUME NEW n \in Held
                   PROVE  (n < z => area[n].end <= z) /\ (z < n => a.end <= n)
        OBVIOUS
      <4>1. /\ area[n].start = n /\ n < area[n].end /\ n \in Nat /\ area[n].end \in Nat
        BY <2>6
      <4>2. ~(z < area[n].end /\ n < a.end)
        BY <4>1, <2>8, <3>2 DEF Overlaps
      <4> QED BY <4>1, <4>2, <2>2
    <3>4. ASSUME NEW n \in Held \cup {z}, NEW m \in Held \cup {z}, m < n
          PROVE  area'[m].end <= n
      <4>1. CASE n = z
        <5>1. m # z
          BY <3>4, <4>1, <2>2
        <5> QED BY <4>1, <5>1, <3>1, <3>3, <3>4
      <4>2. CASE n # z /\ m = z
        BY <4>2, <3>3, <3>4, <2>15
      <4>3. CASE n # z /\ m # z
        BY <4>3, <2>6, <3>1, <3>4
      <4> QED BY <4>1, <4>2, <4>3
    <3>5. \A n \in Held \cup {z} : area'[n].start = n /\ n < area'[n].end
      BY <2>2, <2>6, <2>15, <3>1, <3>2
    <3> QED BY <3>4, <3>5, <2>16 DEF AreaInv
  <2>23. TreeInv'
    <3>1. PICK S, H : Inserting(w, Held \cup {z}, S, H, z)
      BY <2>14
    <3>2. BalanceInv(S, H)' /\ Search(S)'
      BY <3>1, <2>1, <2>16 DEF BalanceInv, Search, Nodes
    <3> QED BY <3>2 DEF TreeInv
  <2> QED BY <2>18, <2>19, <2>20, <2>21, <2>22, <2>23 DEF IInv, StateInv
<1> QED BY <1>2, <1>3

\* A round of a fix-up changes the tree only, and only nodes that are in it.
LEMMA RoundKeeps ==
    ASSUME IInv, pc \in {"insert_fixup", "delete_fixup"}, pc' = pc,
           UNCHANGED <<area, g_count, pool, call, up, ret>>,
           tree' \in TreeRec, cur' \in Ref, Kept(tree, tree', Nodes),
           \E s, h : BalanceInv(s, h)'
    PROVE  IInv'
<1>1. TypeOK /\ CallInv /\ FreeInv /\ AreaInv /\ CountInv
  BY DEF IInv, StateInv
<1>2. TypeOK'
  BY <1>1 DEF TypeOK, TreeRec
<1>3. Held' = Held
  BY DEF Held
<1>4. CallInv'
  BY <1>1, <1>3 DEF CallInv, Rejected
<1>5. AreaInv' /\ CountInv'
  BY <1>1, <1>3 DEF AreaInv, CountInv
<1>6. FreeInv'
  BY <1>1, <1>3 DEF FreeInv, Kept, Nodes
<1>7. TreeInv'
  BY DEF TreeInv, Search
<1> QED BY <1>2, <1>4, <1>5, <1>6, <1>7 DEF IInv, StateInv
LEMMA InsertState ==
    ASSUME IInv, pc = "insert_fixup"
    PROVE  \E s, h : Inserting(tree, Held, s, h, cur)
<1>1. Nodes = Held
  BY DEF Nodes
<1> QED BY <1>1 DEF IInv, TreeInv, BalanceInv

LEMMA InsertRoundKeeps ==
    ASSUME IInv, pc = "insert_fixup", UNCHANGED <<area, g_count, pool, call, pc, up, ret>>,
           NEW u, tree' = u, cur' \in Held, InsertingSome(u, Held, cur'), Kept(tree, u, Held)
    PROVE  IInv'
<1>1. Nodes = Held /\ Held' = Held /\ Nodes' = Held'
  BY DEF Nodes, Held
<1>2. PICK s, h : Inserting(u, Held, s, h, cur')
  BY DEF InsertingSome
<1>3. u \in TreeRec
  BY <1>2 DEF Inserting
<1>4. BalanceInv(s, h)'
  BY <1>1, <1>2 DEF BalanceInv
<1>5. \E r, f : BalanceInv(r, f)'
  BY <1>4
<1>6. cur' \in Ref
  BY HeldFacts, RefFacts
<1> QED BY <1>1, <1>3, <1>5, <1>6, RoundKeeps

LEMMA InsertRecolorKeeps == ASSUME IInv, insert_recolor PROVE IInv'
<1> DEFINE p == Parent(cur)
           g == Grand(cur)
           d == SideOf(tree, p)
           k == Uncle(cur)
           u == Paint3(tree, p, "black", k, "black", g, "red")
<1>1. /\ pc = "insert_fixup" /\ UNCHANGED <<area, g_count, pool, call, pc, up, ret>>
      /\ tree.color[p] = "red" /\ tree.color[k] = "red" /\ tree' = u /\ cur' = g
  BY DEF insert_recolor, RedRed, Paint3
<1>2. p = tree.parent[cur] /\ g = tree.parent[p] /\ d = SideOf(tree, p) /\ k = tree.kid[g][Other(d)]
  BY DEF Parent, Grand, Uncle
<1> HIDE DEF p, g, d, k
<1>3. PICK s, h : Inserting(tree, Held, s, h, cur)
  BY <1>1, InsertState, Zenon
<1>4. InsertingSome(u, Held, g) /\ Kept(tree, u, Held) /\ g \in Held
  BY <1>1, <1>2, <1>3, InsertRecolorTree, Zenon
<1> HIDE DEF u
<1> QED BY <1>1, <1>4, InsertRoundKeeps

LEMMA InsertRotateKeeps ==
    ASSUME IInv, insert_rotate
    PROVE  IInv' /\ tree'.color[tree'.parent[cur']] = "black"
<1> DEFINE p == Parent(cur)
           g == Grand(cur)
           d == SideOf(tree, p)
           k == Uncle(cur)
           inner == cur = tree.kid[p][Other(d)]
           z == IF inner THEN p ELSE cur
           t == IF inner THEN Rotate(tree, z, d) ELSE tree
           u == GrandDown(t, z, d)
<1>1. /\ pc = "insert_fixup" /\ UNCHANGED <<area, g_count, pool, call, pc, up, ret>>
      /\ tree.color[p] = "red" /\ tree.color[k] = "black" /\ cur' = z
  BY SMTT(30) DEF insert_rotate, RedRed
<1>2. tree' = u
  BY DEF insert_rotate, GrandDown, Paint2
<1>3. p = tree.parent[cur] /\ g = tree.parent[p] /\ d = SideOf(tree, p) /\ k = tree.kid[g][Other(d)]
  BY DEF Parent, Grand, Uncle
<1>4. PICK s, h : Inserting(tree, Held, s, h, cur)
  BY <1>1, InsertState
<1> HIDE DEF p, g, d, k
<1>5. InsertedIs(tree, Held, u, z)
  <2>1. CASE inner
    BY <2>1, <1>1, <1>3, <1>4, InsertInnerTree, Zenon
  <2>2. CASE ~inner
    BY <2>2, <1>1, <1>3, <1>4, InsertOuterTree
  <2> QED BY <2>1, <2>2, Zenon
<1> HIDE DEF z, u
<1>6. InsertingSome(u, Held, z) /\ Kept(tree, u, Held) /\ u.color[u.parent[z]] = "black" /\ z \in Held
  BY <1>5 DEF InsertedIs, InsertingSome, Inserting
<1>7. IInv'
  BY <1>1, <1>2, <1>6, InsertRoundKeeps
<1> QED BY <1>1, <1>2, <1>6, <1>7
LEMMA AddDoneKeeps == ASSUME IInv, add_done PROVE IInv'
<1> DEFINE u == Paint(tree, tree.root, "black")
<1>1. /\ pc = "insert_fixup" /\ tree.color[tree.parent[cur]] = "black"
      /\ tree' = u /\ g_count' = g_count + 1 /\ Return(0, NONE) /\ UNCHANGED <<area, pool>>
      /\ TypeOK /\ CallInv /\ AreaInv /\ FreeInv /\ CountInv
  BY DEF add_done, Parent, Paint, IInv, StateInv
<1>2. /\ call' = Idle /\ pc' = "idle" /\ cur' = NIL /\ up' = NIL
      /\ ret' = [call |-> call, code |-> 0, area |-> NONE]
  BY <1>1 DEF Return
<1>3. PICK s, h : Inserting(tree, Held, s, h, cur)
  BY <1>1, InsertState
<1>4. BalancedSome(u, Held) /\ u.kid = tree.kid
  BY <1>1, <1>3, AddedTree
<1> HIDE DEF u
<1>5. PICK r, f : Balanced(u, Held, r, f)
  BY <1>4 DEF BalancedSome
<1>6. Held' = Held
  BY <1>1 DEF Held
<1>7. Nodes' = Held
  BY <1>2, <1>6 DEF Nodes
<1>8. TreeInv'
  <2>1. Balanced(tree', Nodes', r, f)
    BY <1>1, <1>5, <1>7
  <2>2. BalanceInv(r, f)'
    BY <2>1, <1>2 DEF BalanceInv
  <2>3. Search(r)'
    BY <1>2 DEF Search
  <2> QED BY <2>2, <2>3 DEF TreeInv
<1>9. CountInv' /\ g_count' \in 0..RB_MAX_NODES
  <2>1. Cardinality(Held) \in Nat /\ g_count \in Nat /\ pool \in Nat /\ RB_MAX_NODES \in Nat
    BY <1>1, HeldFacts, RbAssumption DEF TypeOK
  <2>2. g_count = Cardinality(Held) - 1 /\ pool + Cardinality(Held) = RB_MAX_NODES
    BY <1>1 DEF CountInv
  <2>3. g_count' = Cardinality(Held) /\ pool' = pool
    BY <2>1, <2>2, <1>1
  <2>4. CountInv'
    BY <2>1, <2>2, <2>3, <1>2, <1>6 DEF CountInv
  <2> QED BY <2>1, <2>2, <2>3, <2>4
<1>10. TypeOK'
  <2>1. u \in TreeRec
    BY <1>5 DEF Balanced
  <2>2. NIL \in Ref /\ Idle \in Calls /\ call \in Calls
    BY <1>1, RefFacts, CallMade DEF TypeOK
  <2>3. ret' \in [call : Calls, code : {0, -1}, area : Area \cup {NONE}]
    BY <1>2, <2>2, AnswerTypes
  <2> QED BY <1>1, <1>2, <1>9, <2>1, <2>2, <2>3 DEF TypeOK, TreeRec
<1>11. CallInv'
  BY <1>2 DEF CallInv
<1>12. AreaInv' /\ FreeInv'
  BY <1>1, <1>4, <1>6 DEF AreaInv, FreeInv
<1> QED BY <1>8, <1>9, <1>10, <1>11, <1>12 DEF IInv, StateInv
-----------------------------------------------------------------------------
(* rb_remove                                                               *)

LEMMA RemoveUnlinkKeeps == ASSUME IInv, remove_unlink PROVE IInv'
<1> DEFINE u == Unlinked(tree, cur)
           N == Held \ {cur}
<1>1. /\ pc = "descend" /\ call.op = "remove" /\ cur = call.addr
      /\ tree' = u.tree /\ cur' = u.x
      /\ pc' = IF u.color = "black" THEN "delete_fixup" ELSE "release"
      /\ UNCHANGED <<area, g_count, pool, call, up, ret>>
      /\ TypeOK /\ CallInv /\ AreaInv /\ FreeInv /\ CountInv
  BY DEF remove_unlink, IInv, StateInv
<1>2. cur \in Held
  <2>1. cur \in Addr
    BY <1>1, CallTypes DEF TypeOK
  <2>2. cur \in Held \cup {NIL}
    BY <1>1 DEF IInv, TreeInv, Search
  <2> QED BY <2>1, <2>2, AddrFacts
<1>3. PICK s, h : Balanced(tree, Held, s, h)
  <2>1. Nodes = Held
    BY <1>1 DEF Nodes
  <2> QED BY <2>1, <1>1 DEF IInv, TreeInv, BalanceInv
<1>4. \A m \in Addr \ Held : tree.kid[m]["left"] = NIL
  BY <1>1, RefFacts DEF FreeInv, Side
<1>5. UnlinkedIs(tree, Held, cur, u)
  BY <1>2, <1>3, <1>4, UnlinkedFields
<1> HIDE DEF u
<1>6. /\ u.tree \in TreeRec /\ u.x \in N \cup {NIL}
      /\ u.color \in {"red", "black"} /\ Kept(tree, u.tree, Held)
  BY <1>5 DEF UnlinkedIs
<1>7. PICK r, f : Shape(u.tree, N, r) /\ ToRepair(u.tree, N, f, u.x, u.color)
  BY <1>5 DEF UnlinkedIs
<1>8. Held' = Held
  BY <1>1 DEF Held
<1>9. Nodes' = N
  <2>1. pc' \in {"delete_fixup", "release"} /\ call' = call
    BY <1>1
  <2> QED BY <2>1, <1>1, <1>8 DEF Nodes
<1>10. TypeOK'
  <2>1. u.x \in Ref
    BY <1>6, HeldFacts, RefFacts
  <2> QED BY <2>1, <1>1, <1>6, Zenon DEF TypeOK, TreeRec
<1>11. CallInv'
  <2>1. call # Idle
    BY <1>1 DEF CallInv
  <2>2. pc' \in {"delete_fixup", "release"} /\ call' = call
    BY <1>1
  <2> QED BY <2>1, <2>2, <1>1, <1>2, <1>8 DEF CallInv
<1>12. AreaInv' /\ CountInv'
  <2>1. pc # "insert_fixup" /\ pc' # "insert_fixup"
    BY <1>1
  <2> QED BY <2>1, <1>1, <1>8 DEF AreaInv, CountInv
<1>13. FreeInv'
  BY <1>1, <1>6, <1>8 DEF FreeInv, Kept
<1>14. TreeInv'
  <2>1. CASE u.color = "black"
    <3>1. Climbed(u.tree, N, f, u.x)
      BY <2>1, <1>7 DEF ToRepair
    <3>2. BalanceInv(r, f)' /\ Search(r)'
      BY <2>1, <3>1, <1>1, <1>6, <1>7, <1>9 DEF BalanceInv, Search
    <3> QED BY <3>2 DEF TreeInv
  <2>2. CASE u.color # "black"
    <3>1. Balanced(u.tree, N, r, f)
      BY <2>2, <1>6, <1>7 DEF ToRepair, Balanced
    <3>2. BalanceInv(r, f)' /\ Search(r)'
      BY <2>2, <3>1, <1>1, <1>9 DEF BalanceInv, Search
    <3> QED BY <3>2 DEF TreeInv
  <2> QED BY <2>1, <2>2
<1> QED BY <1>10, <1>11, <1>12, <1>13, <1>14 DEF IInv, StateInv

LEMMA DeleteState ==
    ASSUME IInv, pc = "delete_fixup"
    PROVE  /\ Nodes = Held \ {call.addr} /\ cur \in Nodes \cup {NIL} /\ NIL \notin Nodes
           /\ \E s, h : Shape(tree, Nodes, s) /\ Climbed(tree, Nodes, h, cur)
<1>1. Nodes = Held \ {call.addr}
  BY DEF Nodes
<1>2. NIL \notin Nodes
  BY <1>1, HeldFacts
<1> QED BY <1>1, <1>2 DEF IInv, TreeInv, BalanceInv

LEMMA DeleteDoneKeeps == ASSUME IInv, delete_done PROVE IInv'
<1> DEFINE u == Paint(tree, cur, "black")
<1>1. /\ pc = "delete_fixup" /\ ~(cur # tree.root /\ tree.color[cur] = "black")
      /\ tree' = u /\ pc' = "release" /\ UNCHANGED <<cur, area, g_count, pool, call, up, ret>>
      /\ TypeOK /\ CallInv /\ AreaInv /\ FreeInv /\ CountInv
  BY DEF delete_done, DoublyBlack, Paint, IInv, StateInv
<1>2. Nodes = Held \ {call.addr} /\ cur \in Nodes \cup {NIL}
  BY <1>1, DeleteState
<1>3. PICK s, h : Shape(tree, Nodes, s) /\ Climbed(tree, Nodes, h, cur)
  BY <1>1, DeleteState
<1>4. BalancedSome(u, Nodes) /\ u.kid = tree.kid
  BY <1>1, <1>2, <1>3, TreeTyped, RemovedTree
<1> HIDE DEF u
<1>5. PICK r, f : Balanced(u, Nodes, r, f)
  BY <1>4 DEF BalancedSome
<1>6. Held' = Held /\ Nodes' = Nodes
  BY <1>1 DEF Held, Nodes
<1>7. TypeOK'
  <2>1. u \in TreeRec
    BY <1>5 DEF Balanced
  <2> QED BY <2>1, <1>1 DEF TypeOK, TreeRec
<1>8. CallInv' /\ AreaInv' /\ CountInv' /\ FreeInv'
  BY <1>1, <1>4, <1>6 DEF CallInv, AreaInv, CountInv, FreeInv
<1>9. TreeInv'
  <2>1. Balanced(tree', Nodes', r, f)
    BY <1>1, <1>5, <1>6
  <2>2. BalanceInv(r, f)'
    BY <2>1, <1>1 DEF BalanceInv
  <2>3. Search(r)'
    BY <1>1 DEF Search
  <2> QED BY <2>2, <2>3 DEF TreeInv
<1> QED BY <1>7, <1>8, <1>9 DEF IInv, StateInv
LEMMA RemoveReleaseKeeps == ASSUME IInv, remove_release PROVE IInv'
<1> DEFINE z == call.addr
           u == Freed(tree, z)
           N == Held \ {z}
<1>1. /\ pc = "release" /\ tree' = u /\ area' = [area EXCEPT ![z] = NONE]
      /\ pool' = pool + 1 /\ g_count' = g_count - 1 /\ Return(0, NONE)
      /\ TypeOK /\ CallInv /\ AreaInv /\ FreeInv /\ CountInv
  BY DEF remove_release, IInv, StateInv
<1>2. /\ call' = Idle /\ pc' = "idle" /\ cur' = NIL /\ up' = NIL
      /\ ret' = [call |-> call, code |-> 0, area |-> NONE]
  BY <1>1 DEF Return
<1>3. z \in Held /\ z \in Addr /\ z \in Ref /\ z # NIL /\ Nodes = N
  BY <1>1, HeldFacts, RefFacts DEF CallInv, Nodes
<1> HIDE DEF z, u, N
<1>4. PICK s, h : Balanced(tree, N, s, h)
  BY <1>1, <1>3 DEF IInv, TreeInv, BalanceInv
<1>5. /\ BalancedSome(u, N)
      /\ \A m \in Ref, e \in Side : u.kid[m][e] = IF m = z THEN NIL ELSE tree.kid[m][e]
  <2>1. z \notin N
    BY DEF N
  <2>2. FreedTo(tree, N, z, u)
    BY <2>1, <1>3, <1>4, FreedTree DEF u
  <2> QED BY <2>2 DEF FreedTo
<1>6. PICK r, f : Balanced(u, N, r, f)
  BY <1>5 DEF BalancedSome
<1>7. /\ area' \in [Addr -> Area \cup {NONE}]
      /\ \A n \in Addr : area'[n] = IF n = z THEN NONE ELSE area[n]
  BY <1>1, <1>3 DEF TypeOK
<1>8. Held' = N /\ Nodes' = N
  <2>1. Held' = N
    BY <1>7 DEF Held, N
  <2> QED BY <2>1, <1>2 DEF Nodes
<1>9. CountInv' /\ pool' \in 0..RB_MAX_NODES /\ g_count' \in 0..RB_MAX_NODES
  <2>1. /\ Cardinality(Held) \in Nat /\ g_count \in Nat /\ pool \in Nat /\ RB_MAX_NODES \in Nat
        /\ Cardinality(N) \in Nat
    BY <1>1, <1>3, HeldFacts, RbAssumption, FS_RemoveElement, FS_CardinalityType DEF TypeOK, N
  <2>2. Cardinality(N) = Cardinality(Held) - 1
    BY <1>3, HeldFacts, FS_RemoveElement, Zenon DEF N
  <2>3. g_count = Cardinality(Held) /\ pool + Cardinality(Held) = RB_MAX_NODES
    BY <2>1, <1>1 DEF CountInv
  <2>4. g_count' = Cardinality(N) /\ pool' + Cardinality(N) = RB_MAX_NODES /\ pool' \in Nat
    BY <2>1, <2>2, <2>3, <1>1
  <2>5. CountInv'
    BY <2>1, <2>4, <1>2, <1>8 DEF CountInv
  <2> QED BY <2>1, <2>4, <2>5
<1>10. TypeOK'
  <2>1. u \in TreeRec
    BY <1>6 DEF Balanced
  <2>2. NIL \in Ref /\ Idle \in Calls /\ call \in Calls
    BY <1>1, RefFacts, CallMade DEF TypeOK
  <2>3. ret' \in [call : Calls, code : {0, -1}, area : Area \cup {NONE}]
    BY <1>2, <2>2, AnswerTypes
  <2> QED BY <1>1, <1>2, <1>7, <1>9, <2>1, <2>2, <2>3 DEF TypeOK, TreeRec
<1>11. CallInv'
  BY <1>2 DEF CallInv
<1>12. AreaInv'
  <2>1. \A n \in N : n \in Held /\ n \in Addr /\ area'[n] = area[n]
    BY <1>7, HeldFacts DEF N
  <2> QED BY <2>1, <1>1, <1>8 DEF AreaInv
<1>13. FreeInv'
  BY <1>1, <1>5, <1>8 DEF FreeInv, N
<1>14. TreeInv'
  <2>1. Balanced(tree', Nodes', r, f)
    BY <1>1, <1>6, <1>8
  <2>2. BalanceInv(r, f)'
    BY <2>1, <1>2 DEF BalanceInv
  <2>3. Search(r)'
    BY <1>2 DEF Search
  <2> QED BY <2>2, <2>3 DEF TreeInv
<1> QED BY <1>9, <1>10, <1>11, <1>12, <1>13, <1>14 DEF IInv, StateInv
\* The state at the start of a round, and the tree with a black sibling.
LEMMA RoundOfDelete ==
    ASSUME IInv, DoublyBlack, NEW p, NEW d, p = tree.parent[cur], d = SideOf(tree, cur)
    PROVE  /\ pc = "delete_fixup" /\ p \in Nodes
           /\ BlackSibling = BlackBeside(tree, cur, p, d)
           /\ BesideIs(tree, Nodes, BlackSibling, cur, p, d)
<1>1. pc = "delete_fixup" /\ cur # tree.root /\ tree.color[cur] = "black"
  BY DEF DoublyBlack
<1>2. PICK s, h : Shape(tree, Nodes, s) /\ Climbed(tree, Nodes, h, cur)
  BY <1>1, DeleteState
<1>3. cur \in Nodes \cup {NIL} /\ tree \in TreeRec
  BY <1>1, DeleteState, TreeTyped DEF IInv
<1>4. Deleting(tree, Nodes, s, h, cur, p, d)
  BY <1>1, <1>2, <1>3, ClimbedDeleting
<1>5. BlackSibling = BlackBeside(tree, cur, p, d)
  BY DEF BlackSibling, BlackBeside, Sibling, Paint2
<1>6. BesideIs(tree, Nodes, BlackBeside(tree, cur, p, d), cur, p, d)
  BY <1>4, BesideThere
<1>7. p \in Nodes
  BY <1>4 DEF Deleting
<1> QED BY <1>1, <1>5, <1>6, <1>7

LEMMA DeleteRoundKeeps ==
    ASSUME IInv, pc = "delete_fixup", UNCHANGED <<area, g_count, pool, call, pc, up, ret>>,
           NEW u, tree' = u, u \in TreeRec, cur' \in Nodes, Kept(tree, u, Nodes),
           \E s, h : Shape(u, Nodes, s) /\ Climbed(u, Nodes, h, cur')
    PROVE  IInv'
<1>1. Nodes' = Nodes /\ pc' = "delete_fixup"
  BY DEF Nodes, Held
<1>2. PICK s, h : Shape(u, Nodes, s) /\ Climbed(u, Nodes, h, cur')
  OBVIOUS
<1>3. BalanceInv(s, h)'
  BY <1>1, <1>2 DEF BalanceInv
<1>4. \E r, f : BalanceInv(r, f)'
  BY <1>3
<1>5. cur' \in Ref
  BY DeleteState, HeldFacts, RefFacts
<1> QED BY <1>1, <1>4, <1>5, RoundKeeps

LEMMA DeleteMoveUpKeeps ==
    ASSUME IInv, delete_move_up
    PROVE  /\ IInv'
           /\ \/ tree'.color[cur'] = "red"
              \/ SameLinks(tree, tree') /\ cur' = tree.parent[cur]
           /\ cur # tree.root /\ cur \in Nodes \cup {NIL}
<1> DEFINE b == BlackSibling
           p == tree.parent[cur]
           d == SideOf(tree, cur)
           w == Sibling(b)
           u == Paint(b, w, "red")
<1>1. /\ DoublyBlack /\ tree' = u /\ cur' = b.parent[cur] /\ BlackNephews(b)
      /\ UNCHANGED <<area, g_count, pool, call, pc, up, ret>>
  BY DEF delete_move_up, Paint
<1>2. pc = "delete_fixup" /\ p \in Nodes /\ BesideIs(tree, Nodes, b, cur, p, d)
  BY <1>1, RoundOfDelete
<1>21. cur # tree.root /\ cur \in Nodes \cup {NIL}
  BY <1>1, <1>2, DeleteState DEF DoublyBlack
<1>3. PICK s, h : Deleting(b, Nodes, s, h, cur, p, d)
  BY <1>2 DEF BesideIs, DeletingSome
<1>4. b.parent[cur] = p /\ SideOf(b, cur) = d
  BY <1>3, BesideSide
<1> HIDE DEF b
<1>5. w = b.kid[p][Other(d)] /\ b.color[w] = "black"
  BY <1>2, <1>4 DEF Sibling, BesideIs
<1>6. \A e \in Side : b.color[b.kid[w][e]] = "black"
  BY <1>1 DEF BlackNephews
<1> HIDE DEF w, p, d, u
<1>7. MovedTo(b, Nodes, u, p)
  BY <1>3, <1>5, <1>6, MoveUpTree DEF u
<1>8. /\ u \in TreeRec /\ Kept(b, u, Nodes) /\ SameLinks(b, u) /\ u.color[p] = b.color[p]
  BY <1>7 DEF MovedTo
<1>9. \E r, f : Shape(u, Nodes, r) /\ Climbed(u, Nodes, f, p)
  BY <1>7 DEF MovedTo
<1>10. Kept(tree, u, Nodes)
  BY <1>2, <1>8, KeptTwice DEF BesideIs
<1>11. cur' = p
  BY <1>1, <1>4
<1>12. IInv'
  BY <1>1, <1>2, <1>8, <1>9, <1>10, <1>11, DeleteRoundKeeps
<1>13. u.color[p] = "red" \/ b = tree
  BY <1>2, <1>8 DEF BesideIs
<1>14. tree'.color[cur'] = "red" \/ (SameLinks(tree, tree') /\ cur' = tree.parent[cur])
  BY <1>1, <1>8, <1>11, <1>13 DEF p
<1> QED BY <1>12, <1>14, <1>21

LEMMA DeleteRotateKeeps == ASSUME IInv, delete_rotate PROVE IInv' /\ cur' = tree'.root
<1> DEFINE b == BlackSibling
           p == tree.parent[cur]
           d == SideOf(tree, cur)
           t == RedOutside(b, p, d)
           u == ParentDown(t, p, d)
<1>1. DoublyBlack
  BY Zenon DEF delete_rotate
<1>2. pc = "delete_fixup" /\ p \in Nodes /\ BesideIs(tree, Nodes, b, cur, p, d)
  BY <1>1, RoundOfDelete
<1>3. PICK s, h : Deleting(b, Nodes, s, h, cur, p, d)
  BY <1>2 DEF BesideIs, DeletingSome
<1>4. b.parent[cur] = p /\ SideOf(b, cur) = d
  BY <1>3, BesideSide
<1> HIDE DEF b, p, d
<1> DEFINE w == Sibling(b)
<1>5. w = b.kid[p][Other(d)] /\ b.color[w] = "black"
  BY <1>2, <1>4, SMTT(30) DEF Sibling, BesideIs
<1>6. \E a \in Side : b.color[b.kid[w][a]] # "black"
  BY Zenon DEF delete_rotate, BlackNephews, b
<1> HIDE DEF w
<1>7. OutsideIs(b, Nodes, t, cur, p, d)
  <2>1. PICK a \in Side : b.color[b.kid[w][a]] # "black"
    BY <1>6
  <2> QED BY <2>1, <1>3, <1>5, OutsideThere
<1>8. PICK r, f : Deleting(t, Nodes, r, f, cur, p, d)
  BY <1>7 DEF OutsideIs, DeletingSome
<1>9. t.parent[cur] = p /\ SideOf(t, cur) = d
  BY <1>8, BesideSide
<1>10. /\ tree' = u /\ cur' = tree'.root
       /\ UNCHANGED <<area, g_count, pool, call, pc, up, ret>>
  <2>1. /\ cur' = tree'.root
        /\ UNCHANGED <<area, g_count, pool, call, pc, up, ret>>
    BY Zenon DEF delete_rotate
  <2> DEFINE q == BlackSibling
             T == IF q.color[q.kid[Sibling(q)][Other(SideOf(q, cur))]] = "black"
                  THEN Rotate(Paint2(q, q.kid[Sibling(q)][SideOf(q, cur)], "black",
                                     Sibling(q), "red"), Sibling(q), Other(SideOf(q, cur)))
                  ELSE q
  <2>2. tree' = Rotate(Paint3(T, Sibling(T), T.color[q.parent[cur]], q.parent[cur], "black",
                              T.kid[Sibling(T)][Other(SideOf(q, cur))], "black"),
                       q.parent[cur], SideOf(q, cur))
    BY Zenon DEF delete_rotate, Paint2, Paint3
  <2>3. q = b
    BY DEF b
  <2> HIDE DEF q
  <2>4. T = t
    BY <2>3, <1>4, <1>5 DEF RedOutside, w
  <2> HIDE DEF T, t
  <2>5. Sibling(T) = t.kid[p][Other(d)]
    BY <2>4, <1>9 DEF Sibling
  <2>6. tree' = u
    BY <2>2, <2>3, <2>4, <2>5, <1>4 DEF ParentDown
  <2> QED BY <2>1, <2>6, Zenon
<1> HIDE DEF t
<1>11. t.color[t.kid[p][Other(d)]] = "black" /\ t.color[t.kid[t.kid[p][Other(d)]][Other(d)]] = "red"
  BY <1>7 DEF OutsideIs
<1>12. ParentTo(t, Nodes, u)
  BY <1>8, <1>11, ParentDownTree
<1> HIDE DEF u
<1>13. u \in TreeRec /\ u.root \in Nodes /\ Kept(t, u, Nodes) /\ BalancedSome(u, Nodes)
  BY <1>12 DEF ParentTo
<1>14. Kept(tree, u, Nodes)
  <2>1. Kept(tree, b, Nodes) /\ Kept(b, t, Nodes)
    BY <1>2, <1>7 DEF BesideIs, OutsideIs
  <2>2. Kept(tree, t, Nodes)
    BY <2>1, KeptTwice
  <2> QED BY <2>2, <1>13, KeptTwice
<1>15. PICK i, j : Balanced(u, Nodes, i, j)
  BY <1>13 DEF BalancedSome
<1>16. Shape(u, Nodes, i) /\ Climbed(u, Nodes, j, u.root)
  <2>1. NoRedRed(u, Nodes, NIL, NIL) /\ Shape(u, Nodes, i) /\ Heights(u, Nodes, j, NIL, "left")
    BY <1>15 DEF Balanced
  <2>2. NIL \notin Nodes
    BY <1>2, DeleteState
  <2>3. NoRedRed(u, Nodes, u.root, u.root)
    BY <2>1, <2>2, <1>13 DEF NoRedRed
  <2> QED BY <2>1, <2>3 DEF Climbed
<1>17. \E r2, f2 : Shape(u, Nodes, r2) /\ Climbed(u, Nodes, f2, cur')
  BY <1>10, <1>16
<1>18. cur' \in Nodes
  BY <1>10, <1>13
<1>19. IInv'
  BY <1>2, <1>10, <1>13, <1>14, <1>17, <1>18, DeleteRoundKeeps
<1> QED BY <1>10, <1>19, Zenon
-----------------------------------------------------------------------------
(* The invariant holds                                                     *)

LEMMA IInvNext == IInv /\ [Next]_vars => IInv'
<1> SUFFICES ASSUME IInv, [Next]_vars PROVE IInv'
  OBVIOUS
<1>1. CASE Begin
  BY <1>1, BeginKeeps
<1>2. CASE add_descend \/ remove_descend \/ find_descend
  BY <1>2, AddDescendKeeps, RemoveDescendKeeps, FindDescendKeeps
<1>3. CASE remove_misses \/ find_answer
  BY <1>3, AnswerKeeps
<1>4. CASE add_link \/ insert_recolor \/ insert_rotate \/ add_done
  BY <1>4, AddLinkKeeps, InsertRecolorKeeps, InsertRotateKeeps, AddDoneKeeps
<1>5. CASE remove_unlink \/ delete_move_up \/ delete_rotate \/ delete_done \/ remove_release
  BY <1>5, RemoveUnlinkKeeps, DeleteMoveUpKeeps, DeleteRotateKeeps, DeleteDoneKeeps,
     RemoveReleaseKeeps
<1>6. CASE UNCHANGED vars
  <2>1. UNCHANGED nodes /\ UNCHANGED <<call, pc, cur, up, ret>>
    BY <1>6 DEF vars
  <2>2. Held' = Held /\ Nodes' = Nodes
    BY <2>1 DEF Held, Nodes, nodes
  <2>3. TypeOK' /\ CallInv' /\ FreeInv' /\ AreaInv' /\ CountInv'
    BY <2>1, <2>2 DEF IInv, StateInv, TypeOK, CallInv, Rejected, FreeInv, AreaInv, CountInv, nodes
  <2>4. PICK s, h : BalanceInv(s, h) /\ Search(s)
    BY DEF IInv, TreeInv
  <2>5. BalanceInv(s, h)' /\ Search(s)'
    BY <2>1, <2>2, <2>4 DEF BalanceInv, Search, AddSearch, nodes
  <2> QED BY <2>3, <2>5 DEF IInv, StateInv, TreeInv
<1> QED BY <1>1, <1>2, <1>3, <1>4, <1>5, <1>6 DEF Next, Continue

LEMMA RbInvariance == Spec => []IInv
<1>1. Init => IInv
  BY InitHolds
<1>2. IInv /\ [Next]_vars => IInv'
  BY IInvNext
<1> QED BY <1>1, <1>2, PTL DEF Spec
-----------------------------------------------------------------------------
(* What is reached by the pointers                                         *)

Grows(G) ==
    /\ G \in [SUBSET Addr -> SUBSET Addr]
    /\ \A S \in SUBSET Addr : S \subseteq G[S]
    /\ \A S, T \in SUBSET Addr : S \subseteq T => G[S] \subseteq G[T]

Closes(G, c) == c = [S \in SUBSET Addr |-> IF G[S] = S THEN S ELSE c[G[S]]]

\* The least set that holds S and does not grow.
Hull(G, S) == {a \in Addr : \A C \in SUBSET Addr : S \subseteq C /\ G[C] = C => a \in C}

LEMMA HullStep ==
    ASSUME NEW G, Grows(G), NEW S \in SUBSET Addr
    PROVE  /\ G[S] = S => Hull(G, S) = S
           /\ Hull(G, G[S]) = Hull(G, S)
<1>1. ASSUME G[S] = S PROVE Hull(G, S) = S
  BY <1>1 DEF Hull
<1>2. \A C \in SUBSET Addr : G[C] = C => (S \subseteq C <=> G[S] \subseteq C)
  <2>1. SUFFICES ASSUME NEW C \in SUBSET Addr, G[C] = C PROVE S \subseteq C <=> G[S] \subseteq C
    OBVIOUS
  <2>2. S \subseteq G[S] /\ (S \subseteq C => G[S] \subseteq G[C])
    BY DEF Grows
  <2> QED BY <2>1, <2>2
<1>3. Hull(G, G[S]) = Hull(G, S)
  BY <1>2 DEF Hull
<1> QED BY <1>1, <1>3

LEMMA HullExists ==
    ASSUME NEW G, Grows(G)
    PROVE  \E c : Closes(G, c)
<1> DEFINE c == [S \in SUBSET Addr |-> Hull(G, S)]
<1>1. ASSUME NEW S \in SUBSET Addr PROVE c[S] = IF G[S] = S THEN S ELSE c[G[S]]
  <2>1. G[S] \in SUBSET Addr
    BY DEF Grows
  <2>2. c[S] = Hull(G, S) /\ c[G[S]] = Hull(G, G[S])
    BY <2>1
  <2> HIDE DEF c
  <2> QED BY <2>2, HullStep
<1>2. c = [S \in SUBSET Addr |-> c[S]]
  OBVIOUS
<1> HIDE DEF c
<1>3. c = [S \in SUBSET Addr |-> IF G[S] = S THEN S ELSE c[G[S]]]
  BY <1>1, <1>2, Zenon
<1> QED BY <1>3 DEF Closes

LEMMA HullUnique ==
    ASSUME NEW G, Grows(G), NEW c, Closes(G, c), NEW S \in SUBSET Addr
    PROVE  c[S] = Hull(G, S)
<1> DEFINE A == {T \in SUBSET Addr : c[T] # Hull(G, T)}
           missing(T) == Cardinality(Addr \ T)
           K == {missing(T) : T \in A}
<1>1. SUFFICES ASSUME A # {} PROVE FALSE
  OBVIOUS
<1>2. \A T \in SUBSET Addr : IsFiniteSet(Addr \ T) /\ missing(T) \in Nat
  BY AddrFacts, FS_Subset, FS_CardinalityType
<1>3. PICK k \in K : \A j \in K : k <= j
  <2>1. K \subseteq Nat /\ K # {}
    BY <1>1, <1>2, Zenon
  <2> HIDE DEF K
  <2> QED BY <2>1, Least, Zenon
<1>4. PICK T \in A : k = missing(T)
  BY <1>3
<1>5. T \in SUBSET Addr /\ c[T] # Hull(G, T) /\ G[T] \in SUBSET Addr /\ T \subseteq G[T]
  BY <1>4 DEF Grows
<1>6. c[T] = IF G[T] = T THEN T ELSE c[G[T]]
  BY <1>5 DEF Closes
<1>7. G[T] # T
  BY <1>5, <1>6, HullStep
<1>8. c[G[T]] # Hull(G, G[T])
  BY <1>5, <1>6, <1>7, HullStep
<1>9. missing(G[T]) \in K
  BY <1>5, <1>8, Zenon
<1>10. missing(G[T]) < missing(T)
  <2>1. Addr \ G[T] \subseteq Addr \ T /\ Addr \ G[T] # Addr \ T
    BY <1>5, <1>7
  <2>2. IsFiniteSet(Addr \ T)
    BY <1>2, <1>5
  <2> DEFINE a == Addr \ T
             b == Addr \ G[T]
  <2>3. missing(T) = Cardinality(a) /\ missing(G[T]) = Cardinality(b) /\ IsFiniteSet(a) /\ b \subseteq a /\ a # b
    BY <2>1, <2>2
  <2>4. Cardinality(a) \in Nat /\ Cardinality(b) \in Nat
    BY <1>2, <1>5
  <2> HIDE DEF a, b, missing, K, A
  <2> QED BY <2>3, <2>4, FS_Subset
<1>11. missing(G[T]) \in Nat /\ missing(T) \in Nat /\ k <= missing(G[T])
  BY <1>2, <1>3, <1>5, <1>9, Zenon
<1> HIDE DEF missing, K, A
<1> QED BY <1>4, <1>10, <1>11

\* One step down, and one step up.
Downwards(t) == [S \in SUBSET Addr |-> S \cup ({t.kid[m][d] : m \in S, d \in Side} \ {NIL})]
Upwards(t) == [S \in SUBSET Addr |-> S \cup ({t.parent[m] : m \in S} \ {NIL})]

LEMMA BothGrow == ASSUME NEW t \in TreeRec PROVE Grows(Downwards(t)) /\ Grows(Upwards(t))
<1>1. \A m \in Addr : t.parent[m] \in Addr \cup {NIL} /\ \A d \in Side : t.kid[m][d] \in Addr \cup {NIL}
  BY RecFields DEF KidFcn, Ref
<1>2. Grows(Downwards(t))
  BY <1>1 DEF Grows, Downwards
<1>3. Grows(Upwards(t))
  BY <1>1 DEF Grows, Upwards
<1> QED BY <1>2, <1>3

SubtreeOf(t, n) ==
    LET closed[S \in SUBSET Addr] ==
            LET T == S \cup ({t.kid[m][d] : m \in S, d \in Side} \ {NIL})
            IN IF T = S THEN S ELSE closed[T]
    IN closed[{n} \ {NIL}]
AboveOf(t, n) ==
    LET closed[S \in SUBSET Addr] ==
            LET T == S \cup ({t.parent[m] : m \in S} \ {NIL})
            IN IF T = S THEN S ELSE closed[T]
    IN closed[{t.parent[n]} \ {NIL}]

LEMMA SubtreeHull ==
    ASSUME NEW t \in TreeRec, NEW n \in Ref
    PROVE  SubtreeOf(t, n) = Hull(Downwards(t), {n} \ {NIL})
<1> DEFINE D(S) == S \cup ({t.kid[m][d] : m \in S, d \in Side} \ {NIL})
           f[S \in SUBSET Addr] ==
               LET T == S \cup ({t.kid[m][d] : m \in S, d \in Side} \ {NIL})
               IN IF T = S THEN S ELSE f[T]
<1>1. f = CHOOSE c : c = [S \in SUBSET Addr |-> IF D(S) = S THEN S ELSE c[D(S)]]
  OBVIOUS
<1>4. SubtreeOf(t, n) = f[{n} \ {NIL}]
  BY DEF SubtreeOf
<1> HIDE DEF f
<1>2. ASSUME NEW c PROVE Closes(Downwards(t), c) <=> c = [S \in SUBSET Addr |-> IF D(S) = S THEN S ELSE c[D(S)]]
  <2>1. \A S \in SUBSET Addr : Downwards(t)[S] = D(S)
    BY DEF Downwards
  <2> HIDE DEF D
  <2> QED BY <2>1 DEF Closes
<1>3. \E c : Closes(Downwards(t), c)
  BY BothGrow, HullExists
<1> HIDE DEF D
<1>5. Closes(Downwards(t), f)
  <2>1. \E c : c = [S \in SUBSET Addr |-> IF D(S) = S THEN S ELSE c[D(S)]]
    BY <1>2, <1>3, Zenon
  <2>2. f = [S \in SUBSET Addr |-> IF D(S) = S THEN S ELSE f[D(S)]]
    BY <1>1, <2>1, Zenon
  <2> QED BY <2>2, <1>2, Zenon
<1>6. {n} \ {NIL} \in SUBSET Addr
  BY DEF Ref
<1> QED BY <1>4, <1>5, <1>6, BothGrow, HullUnique

LEMMA AboveHull ==
    ASSUME NEW t \in TreeRec, NEW n \in Ref
    PROVE  AboveOf(t, n) = Hull(Upwards(t), {t.parent[n]} \ {NIL})
<1> DEFINE D(S) == S \cup ({t.parent[m] : m \in S} \ {NIL})
<1>1. PICK f : f = CHOOSE g : g = [S \in SUBSET Addr |-> IF D(S) = S THEN S ELSE g[D(S)]]
  OBVIOUS
<1>2. ASSUME NEW c PROVE Closes(Upwards(t), c) <=> c = [S \in SUBSET Addr |-> IF D(S) = S THEN S ELSE c[D(S)]]
  <2>1. \A S \in SUBSET Addr : Upwards(t)[S] = D(S)
    BY DEF Upwards
  <2> HIDE DEF D
  <2> QED BY <2>1 DEF Closes
<1>3. \E c : Closes(Upwards(t), c)
  BY BothGrow, HullExists
<1>4. AboveOf(t, n) = f[{t.parent[n]} \ {NIL}]
  BY <1>1, Zenon DEF AboveOf
<1> HIDE DEF D
<1>5. Closes(Upwards(t), f)
  <2>1. \E c : c = [S \in SUBSET Addr |-> IF D(S) = S THEN S ELSE c[D(S)]]
    BY <1>2, <1>3, Zenon
  <2>2. f = [S \in SUBSET Addr |-> IF D(S) = S THEN S ELSE f[D(S)]]
    BY <1>1, <2>1, Zenon
  <2> QED BY <2>2, <1>2, Zenon
<1>6. {t.parent[n]} \ {NIL} \in SUBSET Addr
  BY RecFields DEF Ref
<1> QED BY <1>4, <1>5, <1>6, BothGrow, HullUnique
LEMMA SubtreeIs ==
    ASSUME NEW t \in TreeRec, NEW N, NEW s, Shape(t, N, s), NEW n \in N \cup {NIL}
    PROVE  SubtreeOf(t, n) = s[n]
<1> DEFINE G == Downwards(t)
           S == {n} \ {NIL}
<1>1. /\ N \subseteq Addr /\ NIL \notin N /\ N \subseteq Ref /\ NIL \in Ref /\ s[NIL] = {}
      /\ s \in [N \cup {NIL} -> SUBSET N]
  BY RefFacts DEF Shape
<1>2. SubtreeOf(t, n) = Hull(G, S)
  BY <1>1, SubtreeHull
<1>3. \A C \in SUBSET Addr : G[C] = C \cup ({t.kid[m][d] : m \in C, d \in Side} \ {NIL})
  BY DEF Downwards
<1>4. s[n] \in SUBSET Addr /\ S \subseteq s[n]
  BY <1>1 DEF Shape
<1>5. G[s[n]] = s[n]
  <2>1. ASSUME NEW m \in s[n], NEW d \in Side, t.kid[m][d] # NIL PROVE t.kid[m][d] \in s[n]
    <3>1. n \in N /\ m \in N
      BY <1>1
    <3>2. s[m] \subseteq s[n] /\ m \in s[m]
      BY <3>1, Below
    <3>3. t.kid[m][d] \in N
      BY <2>1, <3>1 DEF Shape
    <3>4. t.kid[m][d] \in s[t.kid[m][d]]
      BY <3>3 DEF Shape
    <3>5. t.kid[m][d] \in s[m]
      BY <3>1, <3>3, <3>4 DEF Shape
    <3> QED BY <3>2, <3>5
  <2> DEFINE E == {t.kid[m][d] : m \in s[n], d \in Side} \ {NIL}
  <2>3. G[s[n]] = s[n] \cup E
    <3>1. s[n] \in SUBSET Addr
      BY <1>4
    <3> HIDE DEF G
    <3> QED BY <1>3, <3>1
  <2>4. E \subseteq s[n]
    BY <2>1
  <2> HIDE DEF G, E
  <2> QED BY <2>3, <2>4
<1>6. ASSUME NEW C \in SUBSET Addr, S \subseteq C, G[C] = C PROVE s[n] \subseteq C
  <2> DEFINE A == s[n] \ C
  <2>1. SUFFICES ASSUME A # {} PROVE FALSE
    OBVIOUS
  <2>2. A \subseteq N /\ n \in N
    BY <2>1, <1>1
  <2>3. PICK m \in A : m = t.root \/ t.parent[m] \notin A
    <3> HIDE DEF A
    <3> QED BY <2>1, <2>2, Highest
  <2>4. m \in s[n] /\ m \notin C /\ m # n /\ m \in N
    BY <2>2, <2>3, <1>1, <1>6
  <2>5. /\ m # t.root /\ t.parent[m] \in N /\ t.parent[m] \in s[n]
        /\ \E d \in Side : t.kid[t.parent[m]][d] = m
    BY <2>2, <2>4, Below
  <2>6. t.parent[m] \in C
    BY <2>3, <2>5
  <2>7. m \in G[C]
    BY <2>4, <2>5, <2>6, <1>1, <1>3
  <2> QED BY <2>4, <2>7, <1>6
<1> HIDE DEF G, S
<1>7. Hull(G, S) \subseteq s[n]
  BY <1>4, <1>5 DEF Hull
<1>8. s[n] \subseteq Hull(G, S)
  BY <1>4, <1>6 DEF Hull
<1> QED BY <1>2, <1>7, <1>8, Zenon

\* The nodes of the subtrees that q lies in.
LEMMA AboveIs ==
    ASSUME NEW t \in TreeRec, NEW N, NEW s, Shape(t, N, s), NEW n \in Ref,
           NEW q \in N \cup {NIL}, t.parent[n] = q
    PROVE  AboveOf(t, n) = {a \in N : q \in s[a]}
<1> DEFINE G == Upwards(t)
           S == {q} \ {NIL}
           B == {a \in N : q \in s[a]}
<1>1. /\ N \subseteq Addr /\ NIL \notin N /\ N \subseteq Ref /\ NIL \in Ref /\ s[NIL] = {}
      /\ s \in [N \cup {NIL} -> SUBSET N]
  BY RefFacts DEF Shape
<1>2. AboveOf(t, n) = Hull(G, S)
  BY AboveHull
<1>3. \A C \in SUBSET Addr : G[C] = C \cup ({t.parent[m] : m \in C} \ {NIL})
  BY DEF Upwards
<1>4. B \in SUBSET Addr /\ S \subseteq B
  BY <1>1 DEF Shape
<1>5. G[B] = B
  <2>1. ASSUME NEW m \in B, t.parent[m] # NIL PROVE t.parent[m] \in B
    <3>1. m \in N /\ q \in s[m] /\ m \in s[m]
      BY DEF Shape
    <3>2. m # t.root
      BY <2>1, <1>1, <3>1 DEF Shape
    <3>3. t.parent[m] \in N /\ \E d \in Side : t.kid[t.parent[m]][d] = m
      BY <3>1, <3>2, Parents
    <3>4. m \in s[t.parent[m]]
      BY <3>1, <3>3 DEF Shape
    <3>5. s[m] \subseteq s[t.parent[m]]
      BY <3>3, <3>4, Below
    <3> QED BY <3>1, <3>3, <3>5
  <2> QED BY <2>1, <1>3, <1>4
<1>6. ASSUME NEW C \in SUBSET Addr, S \subseteq C, G[C] = C PROVE B \subseteq C
  <2> DEFINE A == B \ C
  <2>1. SUFFICES ASSUME A # {} PROVE FALSE
    OBVIOUS
  <2>2. A \subseteq N
    OBVIOUS
  <2>3. PICK m \in A : \A d \in Side : t.kid[m][d] \notin A
    <3> HIDE DEF A
    <3> QED BY <2>1, <2>2, Lowest
  <2>4. m \in N /\ q \in s[m] /\ q \in N /\ m \notin C /\ m # q
    BY <2>3, <1>1, <1>6
  <2>5. PICK d \in Side : q \in s[t.kid[m][d]]
    BY <2>4 DEF Shape
  <2>6. t.kid[m][d] \in N
    BY <2>4, <2>5, <1>1 DEF Shape
  <2>7. t.kid[m][d] \in C
    BY <2>3, <2>5, <2>6
  <2>8. t.parent[t.kid[m][d]] = m
    BY <2>4, <2>6, <1>1 DEF Shape
  <2>9. m \in G[C]
    BY <2>4, <2>7, <2>8, <1>1, <1>3
  <2> QED BY <2>4, <2>9, <1>6
<1> HIDE DEF G, S, B
<1>7. Hull(G, S) \subseteq B
  BY <1>4, <1>5 DEF Hull
<1>8. B \subseteq Hull(G, S)
  BY <1>4, <1>6 DEF Hull
<1>9. AboveOf(t, n) = B
  BY <1>2, <1>7, <1>8, Zenon
<1> QED BY <1>9 DEF B

\* The black nodes at or above n, and their number.
Blacks(t, N, s, n) == {m \in N : t.color[m] = "black" /\ n \in s[m]}

LEMMA BlackCount ==
    ASSUME NEW t, NEW N, NEW s, NEW h, Shape(t, N, s), Heights(t, N, h, NIL, "left"),
           NEW n \in N
    PROVE  Cardinality(Blacks(t, N, s, n)) + h[n] = h[t.root] + Black(t, n)
<1> DEFINE B(m) == Blacks(t, N, s, m)
           A == {m \in N : Cardinality(B(m)) + h[m] # h[t.root] + Black(t, m)}
<1>1. SUFFICES ASSUME A # {} PROVE FALSE
  OBVIOUS
<1>2. PICK m \in A : m = t.root \/ t.parent[m] \notin A
  <2>1. A \subseteq N
    OBVIOUS
  <2> HIDE DEF A
  <2> QED BY <2>1, <1>1, Highest
<1>3. m \in N /\ m \in s[m] /\ NIL \notin N
  BY <1>2, AddrFacts, Zenon DEF Shape
<1>4. \A a \in N : IsFiniteSet(B(a)) /\ Cardinality(B(a)) \in Nat
  <2>1. IsFiniteSet(N)
    BY AddrFacts, FS_Subset DEF Shape
  <2>2. \A a \in N : B(a) \subseteq N
    BY DEF Blacks
  <2> HIDE DEF B
  <2> QED BY <2>1, <2>2, FS_Subset, FS_CardinalityType
<1>5. \A a \in N : h[a] \in Nat /\ Black(t, a) \in {0, 1}
  BY DEF Heights, Black
<1>6. Cardinality(B(m)) + h[m] # h[t.root] + Black(t, m)
  BY <1>2
<1>7. CASE m = t.root
  <2>1. \A a \in N : m \in s[a] => a = m
    <3>1. SUFFICES ASSUME NEW a \in N, m \in s[a], a # m PROVE FALSE
      OBVIOUS
    <3>2. m # t.root
      BY <3>1, Below
    <3> QED BY <3>2, <1>7
  <2>2. B(m) = IF t.color[m] = "black" THEN {m} ELSE {}
    BY <2>1, <1>3 DEF Blacks
  <2>3. Cardinality(B(m)) = Black(t, m)
    BY <2>2, FS_EmptySet, FS_Singleton DEF Black
  <2> QED BY <2>3, <1>3, <1>5, <1>6, <1>7
<1>8. CASE m # t.root
  <2> DEFINE p == t.parent[m]
  <2>1. p \in N /\ p # m /\ p \notin s[m] /\ \E d \in Side : t.kid[p][d] = m
    BY <1>3, <1>8, Parents
  <2>2. PICK d \in Side : t.kid[p][d] = m
    BY <2>1
  <2>3. Cardinality(B(p)) + h[p] = h[t.root] + Black(t, p)
    BY <1>2, <1>8, <2>1
  <2>4. m \in s[p]
    BY <1>3, <2>1, <2>2 DEF Shape
  <2> HIDE DEF p
  <2>5. h[p] = h[m] + Black(t, p)
    <3>1. Gap(p, d, NIL, "left") = 0
      BY <1>3, <2>1 DEF Gap
    <3>2. h[p] = h[m] + Black(t, p) + 0
      BY <2>1, <2>2, <3>1 DEF Heights
    <3> QED BY <3>2, <1>3, <1>5, <2>1
  <2>6. \A a \in N : m \in s[a] <=> a = m \/ p \in s[a]
    <3>1. ASSUME NEW a \in N, m \in s[a], a # m PROVE p \in s[a]
      BY <3>1, Below DEF p
    <3>2. ASSUME NEW a \in N, p \in s[a] PROVE m \in s[a]
      <4>1. s[p] \subseteq s[a]
        BY <3>2, Below
      <4> QED BY <4>1, <2>4
    <3> QED BY <3>1, <3>2, <1>3
  <2>7. m \notin B(p)
    BY <2>1 DEF Blacks
  <2>8. Cardinality(B(m)) = Cardinality(B(p)) + Black(t, m)
    <3>1. CASE t.color[m] = "black"
      <4>1. B(m) = B(p) \cup {m}
        BY <2>6, <3>1, <1>3 DEF Blacks
      <4>2. Black(t, m) = 1
        BY <3>1 DEF Black
      <4> HIDE DEF B
      <4> QED BY <4>1, <4>2, <2>1, <2>7, <1>4, FS_AddElement, Zenon
    <3>2. CASE t.color[m] # "black"
      <4>1. B(m) = B(p)
        BY <2>6, <3>2 DEF Blacks
      <4>2. Black(t, m) = 0
        BY <3>2 DEF Black
      <4> HIDE DEF B
      <4> QED BY <4>1, <4>2, <2>1, <1>4
    <3> QED BY <3>1, <3>2
  <2> HIDE DEF B, A
  <2>9. h[t.root] \in Nat
    <3>1. t.root \in N
      BY <1>3 DEF Shape
    <3> QED BY <3>1, <1>5
  <2> QED BY <2>1, <2>3, <2>5, <2>8, <2>9, <1>3, <1>4, <1>5, <1>6
<1> QED BY <1>7, <1>8
-----------------------------------------------------------------------------
(* Between calls                                                           *)

LEMMA Reached == \A n : Subtree(n) = SubtreeOf(tree, n) /\ Above(n) = AboveOf(tree, n)
  BY DEF Subtree, SubtreeOf, Above, AboveOf

LEMMA SettledTree ==
    ASSUME IInv, pc = "idle"
    PROVE  \E s, h : /\ Balanced(tree, Held, s, h) /\ TreeNodes = Held
                     /\ \A n \in Held \cup {NIL} : Subtree(n) = s[n]
<1>1. Nodes = Held
  BY DEF Nodes
<1>2. PICK s, h : Balanced(tree, Held, s, h)
  BY <1>1 DEF IInv, TreeInv, BalanceInv
<1>3. tree \in TreeRec /\ Shape(tree, Held, s)
  BY <1>2 DEF Balanced
<1>4. \A n \in Held \cup {NIL} : Subtree(n) = s[n]
  BY <1>3, Reached, SubtreeIs
<1>5. TreeNodes = Held
  <2>1. tree.root \in Held \cup {NIL} /\ s[tree.root] = Held
    BY <1>3, SearchTrees
  <2> QED BY <2>1, <1>4 DEF TreeNodes
<1> QED BY <1>2, <1>4, <1>5

\* Every node that rb_add takes from the pool is in the tree when it returns
\* and back in the free list when rb_remove does, whatever the calls were:
\* g_count is the size of the tree, and the pool never shrinks.
THEOREM RbNodesAccounted == Spec => []NodesAccountedFor
<1>1. IInv => NodesAccountedFor
  <2> SUFFICES ASSUME IInv, pc = "idle"
               PROVE  g_count = Cardinality(TreeNodes) /\ pool + g_count = RB_MAX_NODES
    BY DEF NodesAccountedFor
  <2>1. TreeNodes = Held
    BY SettledTree
  <2>2. Cardinality(Held) \in Nat
    BY HeldFacts
  <2>3. g_count = Cardinality(Held) - 0 /\ pool + Cardinality(Held) = RB_MAX_NODES
    BY DEF IInv, StateInv, CountInv
  <2> QED BY <2>1, <2>2, <2>3
<1> QED BY <1>1, RbInvariance, PTL

LEMMA SearchTreeHolds == ASSUME IInv PROVE SearchTree
<1> SUFFICES ASSUME pc = "idle" PROVE SearchTree
  BY DEF SearchTree
<1>1. PICK s, h : /\ Balanced(tree, Held, s, h) /\ TreeNodes = Held
                  /\ \A n \in Held \cup {NIL} : Subtree(n) = s[n]
  BY SettledTree
<1>2. tree \in TreeRec /\ Shape(tree, Held, s) /\ NoRedRed(tree, Held, NIL, NIL)
  BY <1>1 DEF Balanced
<1>3. /\ \A n \in Held : /\ area[n].start = n /\ n < area[n].end
                         /\ n \in Nat /\ area[n].end \in Nat
                         /\ \A m \in Held : m < n => area[m].end <= n
  BY AreaFacts DEF IInv, StateInv
<1>4. ASSUME NEW n \in Held
      PROVE  /\ \A m \in Subtree(tree.kid[n].left) : area[m].end <= n
             /\ \A m \in Subtree(tree.kid[n].right) : area[n].end <= m
             /\ \A d \in Side : tree.kid[n][d] # NIL => tree.parent[tree.kid[n][d]] = n
  <2>1. /\ \A d \in Side : /\ tree.kid[n][d] \in Held \cup {NIL}
                           /\ \A m \in s[tree.kid[n][d]] : Before(d, m, n)
                           /\ tree.kid[n][d] # NIL => tree.parent[tree.kid[n][d]] = n
        /\ \A k \in Held \cup {NIL} : s[k] \subseteq Held
    BY <1>2, SearchTrees DEF Shape
  <2>2. "left" \in Side /\ "right" \in Side
    BY DEF Side
  <2>3. \A m \in s[tree.kid[n].left] : m < n /\ m \in Held
    BY <2>1, <2>2 DEF Before
  <2>4. \A m \in s[tree.kid[n].right] : n < m /\ m \in Held
    BY <2>1, <2>2 DEF Before
  <2> QED BY <2>1, <2>2, <2>3, <2>4, <1>1, <1>3
<1>5. tree.root # NIL => tree.parent[tree.root] = NIL
  BY <1>2 DEF Shape
<1>6. tree.color[NIL] = "black"
  BY <1>2 DEF NoRedRed
<1>7. tree.kid[NIL] = NoKids
  <2> DEFINE k == tree.kid[NIL]
  <2>1. NIL \in Ref \ Held
    BY HeldFacts, RefFacts
  <2>2. k \in [Side -> Ref] /\ \A e \in Side : k[e] = NIL
    BY <2>1, <1>2, RecFields DEF IInv, StateInv, FreeInv, KidFcn
  <2> HIDE DEF k
  <2>3. k = NoKids
    BY <2>2 DEF NoKids, Side
  <2> QED BY <2>3 DEF k
<1> QED BY <1>1, <1>3, <1>4, <1>5, <1>6, <1>7 DEF SearchTree

LEMMA RedBlackHolds == ASSUME IInv PROVE RedBlack
<1> SUFFICES ASSUME pc = "idle" PROVE RedBlack
  BY DEF RedBlack
<1>1. PICK s, h : /\ Balanced(tree, Held, s, h) /\ TreeNodes = Held
                  /\ \A n \in Held \cup {NIL} : Subtree(n) = s[n]
  BY SettledTree
<1>2. /\ tree \in TreeRec /\ Shape(tree, Held, s) /\ NoRedRed(tree, Held, NIL, NIL)
      /\ Heights(tree, Held, h, NIL, "left")
  BY <1>1 DEF Balanced
<1>3. NIL \notin Held /\ tree.root \in Held \cup {NIL}
  BY <1>2, HeldFacts, SearchTrees
<1>4. tree.color[tree.root] = "black"
  <2>1. tree.root \in Ref /\ tree.color[tree.root] \in {"red", "black"}
    BY <1>2, RecFields
  <2> QED BY <2>1, <1>2 DEF NoRedRed
<1>5. \A n \in Held : tree.color[n] = "red" => \A d \in Side : tree.color[tree.kid[n][d]] = "black"
  <2> SUFFICES ASSUME NEW n \in Held, tree.color[n] = "red", NEW d \in Side
               PROVE  tree.color[tree.kid[n][d]] = "black"
    OBVIOUS
  <2>1. tree.kid[n][d] \in Held \cup {NIL}
    BY <1>2, SearchTrees
  <2>2. tree.color[tree.kid[n][d]] \in {"red", "black"}
    BY <2>1, <1>2, RecFields, RefFacts, HeldFacts
  <2> QED BY <2>1, <2>2, <1>2, <1>3 DEF NoRedRed
<1> DEFINE below == [n \in TreeNodes |-> Subtree(n)]
           blackAbove(n) == {m \in TreeNodes : tree.color[m] = "black" /\ n \in below[m]}
<1>6. \A n \in Held : blackAbove(n) = Blacks(tree, Held, s, n)
  BY <1>1 DEF Blacks
<1>7. \A n \in Leaves : Cardinality(Blacks(tree, Held, s, n)) = h[tree.root]
  <2> SUFFICES ASSUME NEW n \in Leaves
               PROVE  Cardinality(Blacks(tree, Held, s, n)) = h[tree.root]
    OBVIOUS
  <2>1. n \in Held /\ \E d \in Side : tree.kid[n][d] = NIL
    BY <1>1 DEF Leaves
  <2>2. PICK d \in Side : tree.kid[n][d] = NIL
    BY <2>1
  <2>3. h[n] = h[NIL] + Black(tree, n) + Gap(n, d, NIL, "left") /\ h[NIL] = 0 /\ h[tree.root] \in Nat
    BY <2>1, <2>2, <1>2, <1>3 DEF Heights
  <2>4. Gap(n, d, NIL, "left") = 0 /\ Black(tree, n) \in {0, 1}
    BY <2>1, <1>3 DEF Gap, Black
  <2>5. Cardinality(Blacks(tree, Held, s, n)) + h[n] = h[tree.root] + Black(tree, n)
    BY <2>1, <1>2, BlackCount
  <2>6. Cardinality(Blacks(tree, Held, s, n)) \in Nat
    <3>1. Blacks(tree, Held, s, n) \subseteq Held
      BY DEF Blacks
    <3> QED BY <3>1, HeldFacts, FS_Subset, FS_CardinalityType
  <2> QED BY <2>3, <2>4, <2>5, <2>6
<1>8. \A m, n \in Leaves : Cardinality(blackAbove(m)) = Cardinality(blackAbove(n))
  <2>1. Leaves \subseteq Held
    BY <1>1 DEF Leaves
  <2> HIDE DEF blackAbove
  <2> QED BY <2>1, <1>6, <1>7
<1> QED BY <1>1, <1>4, <1>5, <1>8 DEF RedBlack

\* Whatever areas were added and removed, in whatever order: between calls
\* the tree is a search tree for disjoint areas, whose parent pointers are
\* the inverse of its child pointers, and it is balanced (the five properties
\* of vma_rbtree.c:28-38).
THEOREM RbTreeIsRedBlack == Spec => []RedBlackTree
<1>1. IInv => RedBlackTree
  BY SearchTreeHolds, RedBlackHolds DEF IInv, RedBlackTree
<1> QED BY <1>1, RbInvariance, PTL
-----------------------------------------------------------------------------
(* The fix-up loops end                                                    *)

\* There are fewer nodes above y than above a node below y.
LEMMA Higher ==
    ASSUME NEW t \in TreeRec, NEW u, NEW N, NEW s, Shape(t, N, s), SameLinks(t, u),
           NEW x \in Ref, NEW q \in N, t.parent[x] = q, NEW y \in N, q \in s[y]
    PROVE  Cardinality(AboveOf(u, y)) < Cardinality(AboveOf(t, x))
<1> DEFINE r == t.parent[y]
           A == {a \in N : q \in s[a]}
           B == {a \in N : r \in s[a]}
<1>1. u \in TreeRec /\ Shape(u, N, s) /\ u.parent = t.parent
  BY DEF Shape, SameLinks
<1>2. N \subseteq Addr /\ NIL \notin N /\ N \subseteq Ref /\ \A a \in N : s[a] \subseteq N
  BY RefFacts DEF Shape
<1>3. r = NIL \/ (r \in N /\ r \notin s[y] /\ \E d \in Side : t.kid[r][d] = y)
  <2>1. CASE y = t.root
    BY <2>1, <1>2 DEF Shape
  <2>2. CASE y # t.root
    BY <2>2, Parents
  <2> QED BY <2>1, <2>2
<1>4. AboveOf(t, x) = A
  BY AboveIs
<1>5. AboveOf(u, y) = B
  <2>1. y \in Ref /\ r \in N \cup {NIL} /\ u.parent[y] = r
    BY <1>1, <1>2, <1>3
  <2> HIDE DEF r
  <2> QED BY <2>1, <1>1, AboveIs
<1>6. B \subseteq A
  <2> SUFFICES ASSUME NEW a \in N, r \in s[a] PROVE q \in s[a]
    OBVIOUS
  <2>1. r \in N /\ \E d \in Side : t.kid[r][d] = y
    BY <1>2, <1>3
  <2>2. y \in s[y]
    BY DEF Shape
  <2>3. y \in s[r]
    BY <2>1, <2>2 DEF Shape
  <2>4. s[r] \subseteq s[a] /\ s[y] \subseteq s[r]
    BY <2>1, <2>3, Below
  <2> QED BY <2>4
<1>7. y \in A /\ y \notin B
  BY <1>2, <1>3
<1>8. IsFiniteSet(A)
  <2>1. A \subseteq Addr
    BY <1>2
  <2> HIDE DEF A
  <2> QED BY <2>1, AddrFacts, FS_Subset, Zenon
<1> HIDE DEF A, B, r
<1>9. IsFiniteSet(B) /\ Cardinality(A) \in Nat /\ Cardinality(B) \in Nat
  BY <1>6, <1>8, FS_Subset, FS_CardinalityType
<1> QED BY <1>4, <1>5, <1>6, <1>7, <1>8, <1>9, FS_Subset

LEMMA RecolorClimbs ==
    ASSUME IInv, insert_recolor
    PROVE  Cardinality(Above(cur)') < Cardinality(Above(cur))
<1> DEFINE p == Parent(cur)
           g == Grand(cur)
           d == SideOf(tree, p)
           k == Uncle(cur)
           u == Paint3(tree, p, "black", k, "black", g, "red")
<1>1. /\ pc = "insert_fixup" /\ tree.color[p] = "red" /\ tree.color[k] = "red"
      /\ tree' = u /\ cur' = g
  BY DEF insert_recolor, RedRed, Paint3
<1>2. p = tree.parent[cur] /\ g = tree.parent[p] /\ d = SideOf(tree, p) /\ k = tree.kid[g][Other(d)]
  BY DEF Parent, Grand, Uncle
<1> HIDE DEF p, g, d, k
<1>3. PICK s, h : Inserting(tree, Held, s, h, cur)
  BY <1>1, InsertState, Zenon
<1>4. SameLinks(tree, u) /\ cur \in Held /\ p \in Held /\ g \in Held /\ p # tree.root
  BY <1>1, <1>2, <1>3, InsertRecolorTree
<1> HIDE DEF u
<1>5. Shape(tree, Held, s) /\ tree \in TreeRec /\ cur \in Ref
  BY <1>3, <1>4, HeldFacts, RefFacts DEF Inserting
<1>6. p \in s[g]
  <2>1. p \in s[p]
    BY <1>4, <1>5 DEF Shape
  <2>2. \E e \in Side : tree.kid[g][e] = p
    BY <1>2, <1>4, <1>5, Parents
  <2> QED BY <2>1, <2>2, <1>4, <1>5 DEF Shape
<1>7. Cardinality(AboveOf(u, g)) < Cardinality(AboveOf(tree, cur))
  BY <1>2, <1>4, <1>5, <1>6, Higher
<1>8. Above(cur) = AboveOf(tree, cur)
  BY Reached
<1>9. Above(cur)' = AboveOf(u, g)
  BY <1>1 DEF Above, AboveOf
<1> QED BY <1>7, <1>8, <1>9

LEMMA MoveUpClimbs ==
    ASSUME IInv, delete_move_up
    PROVE  tree'.color[cur'] = "red" \/ Cardinality(Above(cur)') < Cardinality(Above(cur))
<1>1. /\ pc = "delete_fixup" /\ cur # tree.root /\ cur \in Nodes \cup {NIL}
      /\ \/ tree'.color[cur'] = "red"
         \/ SameLinks(tree, tree') /\ cur' = tree.parent[cur]
  BY DeleteMoveUpKeeps DEF delete_move_up, DoublyBlack
<1>2. SUFFICES ASSUME SameLinks(tree, tree'), cur' = tree.parent[cur]
               PROVE  Cardinality(Above(cur)') < Cardinality(Above(cur))
  BY <1>1
<1> DEFINE u == tree'
           q == tree.parent[cur]
<1>3. q \in Nodes
  BY RoundOfDelete DEF delete_move_up
<1>4. PICK s, h : Shape(tree, Nodes, s) /\ Climbed(tree, Nodes, h, cur)
  BY <1>1, DeleteState
<1>5. tree \in TreeRec /\ cur \in Ref /\ q \in s[q]
  BY <1>1, <1>3, <1>4, TreeTyped DEF IInv, Shape, TypeOK
<1>6. Cardinality(AboveOf(u, q)) < Cardinality(AboveOf(tree, cur))
  <2> HIDE DEF u
  <2>1. SameLinks(tree, u)
    BY <1>2 DEF u
  <2> QED BY <2>1, <1>3, <1>4, <1>5, Higher
<1>7. Above(cur) = AboveOf(tree, cur)
  BY Reached
<1>8. Above(cur)' = AboveOf(u, q)
  BY <1>2 DEF Above, AboveOf
<1> QED BY <1>6, <1>7, <1>8

\* A round of insert_fixup or delete_fixup is the last one, or the node it
\* goes on with has fewer nodes above it: with the tree finite, neither loop
\* goes round for ever (the bounds of vma_rbtree.c:201 and 259).
THEOREM RbFixupsClimb == Spec => FixupsClimb
<1> DEFINE Round == pc' = pc /\ pc \in {"insert_fixup", "delete_fixup"} =>
                       LastRound' \/ Cardinality(Above(cur)') < Cardinality(Above(cur))
<1>1. IInv /\ [Next]_vars => [Round]_vars
  <2> SUFFICES ASSUME IInv, Next, pc' = pc, pc \in {"insert_fixup", "delete_fixup"}
               PROVE  LastRound' \/ Cardinality(Above(cur)') < Cardinality(Above(cur))
    OBVIOUS
  <2>1. CASE insert_recolor
    BY <2>1, RecolorClimbs
  <2>2. CASE insert_rotate
    <3>1. tree'.color[tree'.parent[cur']] = "black"
      BY <2>2, InsertRotateKeeps, Zenon
    <3>2. pc' = "insert_fixup" /\ ~RedRed'
      BY <2>2, <3>1, Zenon DEF insert_rotate, RedRed, Parent
    <3> QED BY <3>2 DEF LastRound
  <2>3. CASE delete_move_up
    <3>1. SUFFICES ASSUME tree'.color[cur'] = "red" PROVE LastRound'
      BY <2>3, MoveUpClimbs
    <3>2. pc' = "delete_fixup" /\ ~DoublyBlack'
      BY <2>3, <3>1 DEF delete_move_up, DoublyBlack
    <3> QED BY <3>2 DEF LastRound
  <2>4. CASE delete_rotate
    <3>1. cur' = tree'.root
      BY <2>4, DeleteRotateKeeps, Zenon
    <3>2. pc' = "delete_fixup" /\ ~DoublyBlack'
      BY <2>4, <3>1, Zenon DEF delete_rotate, DoublyBlack
    <3> QED BY <3>2 DEF LastRound
  <2>5. ~Begin
    BY Zenon DEF Begin, rb_add, rb_remove, rb_find
  <2>6. ~(add_descend \/ add_link \/ add_done)
    BY DEF add_descend, add_link, add_done, Return
  <2>7. ~(remove_descend \/ remove_misses \/ remove_unlink \/ find_descend \/ find_answer)
    BY DEF remove_descend, remove_misses, remove_unlink, find_descend, find_answer
  <2>8. ~(delete_done \/ remove_release)
    BY DEF delete_done, remove_release
  <2> QED BY <2>1, <2>2, <2>3, <2>4, <2>5, <2>6, <2>7, <2>8 DEF Next, Continue
<1> QED BY <1>1, RbInvariance, PTL DEF Spec, FixupsClimb
-----------------------------------------------------------------------------
(* The tree implements the contract                                        *)

areas == {area[n] : n \in Registered}

LEMMA RegisteredIs ==
    Registered = IF pc = "insert_fixup" THEN Held \ {call.area.start} ELSE Held
  BY DEF Registered, Held

\* The areas of the tree, one for each node.
LEMMA AreasHeld ==
    ASSUME IInv
    PROVE  /\ TypeOK /\ CallInv /\ AreaInv
           /\ \A n \in Held : /\ area[n] \in Area /\ area[n].start = n /\ n < area[n].end
                              /\ n \in Nat /\ area[n].end \in Nat
                              /\ \A m \in Held : m < n => area[m].end <= n
  BY AreaFacts DEF IInv, StateInv

LEMMA AreasCounted == ASSUME IInv, pc = "idle" PROVE VS!Cardinality(areas) = g_count
<1>1. Registered = Held
  BY RegisteredIs
<1>2. \A n \in Held : area[n].start = n
  BY AreasHeld
<1> DEFINE f == [n \in Held |-> area[n]]
<1>3. f \in Bijection(Held, areas)
  BY <1>1, <1>2 DEF Bijection, Injection, Surjection, IsInjective, areas
<1>4. ExistsBijection(Held, areas)
  BY <1>3 DEF ExistsBijection
<1>5. Cardinality(areas) = Cardinality(Held)
  BY <1>4, HeldFacts, FS_Bijection
<1>6. g_count = Cardinality(Held)
  <2>1. g_count = Cardinality(Held) - 0
    BY DEF IInv, StateInv, CountInv
  <2> QED BY <2>1, HeldFacts
<1>7. Cardinality(areas) = VS!Cardinality(areas)
  BY DEF Cardinality, VS!Cardinality
<1> QED BY <1>5, <1>6, <1>7

LEMMA BeginRefines == ASSUME IInv, Begin PROVE VS!Next
<1>1. ASSUME NEW a \in AreaArgs, rb_add(a) PROVE VS!Next
  <2>0. a \in Area /\ a.start \in Int /\ a.end \in Int
    <3>1. a \in Area
      BY RbAssumption
    <3>2. a.start \in Addr /\ a.end \in Addr
      BY <3>1 DEF Area
    <3>3. Addr \subseteq Int
      BY AddrFacts
    <3> QED BY <3>1, <3>2, <3>3, Zenon
  <2>1. pc = "idle" /\ UNCHANGED area /\ a \in Area /\ a.start \in Int /\ a.end \in Int
    BY <1>1, <2>0 DEF rb_add, nodes
  <2>2. CASE Rejected(a)
    <3>1. /\ ret' = [call |-> [op |-> "add", area |-> a], code |-> -1, area |-> NONE]
          /\ pc' = pc
      BY <1>1, <2>2 DEF rb_add
    <3>2. areas' = areas
      BY <2>1, <3>1 DEF areas, Registered
    <3>3. ~VS!Valid(a) \/ VS!Cardinality(areas) >= RB_MAX_NODES
      BY <2>1, <2>2, AreasCounted DEF VS!Valid, Rejected
    <3>4. VS!AddFails(a)
      BY <3>1, <3>2, <3>3 DEF VS!AddFails, VS!Answer, VS!AddCall, areas
    <3> QED BY <2>1, <3>4 DEF VS!Next, VS!Area, Area
  <2>3. CASE ~Rejected(a)
    <3>1. pc' = "descend" /\ ret' = NoAnswer
      BY <1>1, <2>3 DEF rb_add, Descend
    <3>2. areas' = areas
      BY <2>1, <3>1 DEF areas, Registered
    <3> QED BY <3>1, <3>2 DEF VS!Next, VS!NextCall, VS!Answer, NoAnswer, Idle, areas
  <2> QED BY <2>2, <2>3
<1>2. ASSUME NEW b \in AddrArgs, rb_remove(b) \/ rb_find(b) PROVE VS!Next
  <2>1. pc = "idle" /\ UNCHANGED area /\ pc' = "descend" /\ ret' = NoAnswer
    BY <1>2 DEF rb_remove, rb_find, Descend, nodes
  <2>2. areas' = areas
    BY <2>1 DEF areas, Registered
  <2> QED BY <2>1, <2>2, Zenon DEF VS!Next, VS!NextCall, VS!Answer, NoAnswer, Idle, areas
<1> QED BY <1>1, <1>2 DEF Begin

\* The end of rb_add: the new area is valid and meets no other.
LEMMA AddDoneRefines == ASSUME IInv, add_done PROVE VS!Next
<1> DEFINE a == call.area
           z == call.area.start
<1>1. /\ pc = "insert_fixup" /\ area' = area /\ pc' = "idle"
      /\ ret' = [call |-> call, code |-> 0, area |-> NONE]
  BY DEF add_done, Return
<1>2. /\ call.op = "add" /\ ~Rejected(a) /\ z \in Held /\ area[z] = a /\ call \in Calls
      /\ a \in Area /\ call = [op |-> "add", area |-> a] /\ a.start \in Int /\ a.end \in Int
  BY <1>1, AreasHeld, CallTypes, AddrFacts DEF CallInv, TypeOK
<1> HIDE DEF z
<1>3. Registered = Held \ {z} /\ Registered' = Held
  BY <1>1, RegisteredIs DEF Registered, Held, z
<1>4. areas' = areas \cup {a}
  BY <1>1, <1>2, <1>3 DEF areas
<1> HIDE DEF a
<1>5. VS!Valid(a)
  BY <1>2 DEF VS!Valid, Rejected
<1>6. \A b \in areas : ~VS!Overlap(a, b)
  <2> SUFFICES ASSUME NEW n \in Held, n # z PROVE ~VS!Overlap(a, area[n])
    BY <1>3 DEF areas
  <2>1. /\ z \in Nat /\ n \in Nat /\ area[z].end \in Nat /\ area[n].end \in Nat
        /\ area[z].start = z /\ area[n].start = n
        /\ (z < n => area[z].end <= n) /\ (n < z => area[n].end <= z)
    BY <1>2, AreasHeld
  <2> QED BY <2>1, <1>2 DEF VS!Overlap
<1>7. PICK b \in Area : b = a
  BY <1>2
<1>8. VS!Add(b)
  BY <1>1, <1>2, <1>4, <1>5, <1>6, <1>7 DEF VS!Add, VS!Answer, VS!AddCall, areas
<1> QED BY <1>8 DEF VS!Next, VS!Area, Area

\* The end of rb_remove of an area that is there.
LEMMA ReleaseRefines == ASSUME IInv, remove_release PROVE VS!Next
<1> DEFINE z == call.addr
<1>1. /\ pc = "release" /\ area' = [area EXCEPT ![z] = NONE] /\ pc' = "idle"
      /\ ret' = [call |-> call, code |-> 0, area |-> NONE]
  BY DEF remove_release, Return
<1>2. call.op = "remove" /\ z \in Held /\ z \in Addr /\ call = [op |-> "remove", addr |-> z]
  BY <1>1, AreasHeld, CallTypes DEF CallInv, TypeOK
<1> HIDE DEF z
<1>3. area \in [Addr -> Area \cup {NONE}]
  BY AreasHeld DEF TypeOK
<1>4. \A n \in Addr : area'[n] = IF n = z THEN NONE ELSE area[n]
  BY <1>1, <1>3
<1>5. Registered = Held /\ Registered' = Held \ {z}
  BY <1>1, <1>4, RegisteredIs DEF Registered, Held
<1>6. /\ \A n \in Held : n \in Addr /\ area[n].start = n
  BY AreasHeld, HeldFacts
<1>7. PICK a \in areas : a = area[z] /\ a.start = z
  BY <1>2, <1>5, <1>6 DEF areas
<1>8. areas' = areas \ {a}
  <2>1. areas' \subseteq areas \ {a}
    BY <1>4, <1>5, <1>6, <1>7 DEF areas
  <2>2. areas \ {a} \subseteq areas'
    <3> SUFFICES ASSUME NEW n \in Held, area[n] # a PROVE area[n] \in areas'
      BY <1>5 DEF areas
    <3>1. n # z /\ n \in Addr
      BY <1>6, <1>7
    <3>2. area'[n] = area[n] /\ n \in Registered'
      BY <3>1, <1>4, <1>5
    <3> QED BY <3>2 DEF areas
  <2> QED BY <2>1, <2>2
<1>9. PICK b \in Addr : b = z
  BY <1>2
<1>10. VS!Remove(b)
  BY <1>1, <1>2, <1>7, <1>8, <1>9, Zenon DEF VS!Remove, VS!Answer, VS!RemoveCall, areas
<1> QED BY <1>10 DEF VS!Next

\* The answers a search gives.
LEMMA AnswerRefines ==
    ASSUME IInv, pc = "descend", call.op \in {"remove", "find"}, remove_misses \/ find_answer
    PROVE  VS!Next
<1> DEFINE z == call.addr
<1>1. UNCHANGED area /\ pc' = "idle" /\ Registered = Held
  BY RegisteredIs DEF remove_misses, find_answer, Return, nodes
<1>2. areas' = areas
  BY <1>1 DEF areas, Registered
<1>3. z \in Addr /\ z \in Nat /\ call = [op |-> call.op, addr |-> z]
  BY AreasHeld, CallTypes, AddrFacts DEF TypeOK
<1>4. PICK s, h : BalanceInv(s, h) /\ Search(s)
  BY DEF IInv, TreeInv
<1>5. Shape(tree, Held, s)
  BY <1>4 DEF BalanceInv, Balanced, Nodes
<1>6. s[NIL] = {} /\ cur \in Held \cup {NIL}
  BY <1>4, <1>5, SearchTrees DEF Search
<1>7. \A n \in Held : n \in Nat /\ area[n].start = n /\ area[n].end \in Nat
  BY AreasHeld
<1>8. CASE remove_misses
  <2>1. call.op = "remove" /\ cur = NIL /\ ret' = [call |-> call, code |-> -1, area |-> NONE]
    BY <1>8 DEF remove_misses, Return
  <2>2. z \notin Held
    BY <1>4, <1>6, <2>1 DEF Search
  <2>3. \A a \in areas : a.start # z
    BY <1>1, <1>7, <2>2 DEF areas
  <2>4. VS!RemoveFails(z)
    BY <1>2, <1>3, <2>1, <2>3, Zenon DEF VS!RemoveFails, VS!Answer, VS!RemoveCall, areas
  <2> QED BY <1>3, <2>4 DEF VS!Next
<1>9. CASE find_answer
  <2>1. call.op = "find"
    BY <1>9 DEF find_answer
  <2>2. CASE cur = NIL
    <3>1. ret' = [call |-> call, code |-> 0, area |-> NONE]
      BY <1>9, <2>2 DEF find_answer, Return
    <3>2. \A a \in areas : ~VS!Contains(a, z)
      <4> SUFFICES ASSUME NEW n \in Held, VS!Contains(area[n], z) PROVE FALSE
        BY <1>1 DEF areas
      <4>1. n <= z /\ z < area[n].end
        BY <1>7 DEF VS!Contains
      <4>2. n \in s[cur]
        BY <1>4, <2>1, <4>1 DEF Search
      <4> QED BY <1>6, <2>2, <4>2
    <3>3. VS!Find(z)
      BY <1>2, <1>3, <2>1, <3>1, <3>2, Zenon DEF VS!Find, VS!Answer, VS!FindCall, areas
    <3> QED BY <1>3, <3>3 DEF VS!Next
  <2>3. CASE cur # NIL
    <3>1. /\ ret' = [call |-> call, code |-> 0, area |-> area[cur]]
          /\ cur <= z /\ z < area[cur].end
      BY <1>9, <2>3 DEF find_answer, Return
    <3>2. area[cur] \in areas /\ VS!Contains(area[cur], z)
      BY <1>1, <1>6, <1>7, <2>3, <3>1 DEF areas, VS!Contains
    <3>3. VS!Find(z)
      BY <1>2, <1>3, <2>1, <3>1, <3>2, Zenon DEF VS!Find, VS!Answer, VS!FindCall, areas
    <3> QED BY <1>3, <3>3 DEF VS!Next
  <2> QED BY <2>2, <2>3
<1> QED BY <1>8, <1>9

\* rb_add meets an area that the new one overlaps, or comes to its place.
LEMMA AddRefines ==
    ASSUME IInv, add_descend \/ add_link
    PROVE  VS!Next \/ (areas' = areas /\ ret' = ret)
<1> DEFINE a == call.area
           z == call.area.start
<1>1. pc = "descend" /\ call.op = "add" /\ ~Rejected(a) /\ Registered = Held
  BY AreasHeld, RegisteredIs DEF add_descend, add_link, CallInv
<1>2. /\ a \in Area /\ call = [op |-> "add", area |-> a] /\ z \in Addr /\ z \in Nat /\ a.end \in Nat
      /\ z < a.end
  <2>1. a \in Area /\ call = [op |-> "add", area |-> a] /\ z \in Addr /\ z \in Nat /\ a.end \in Nat
    BY <1>1, AreasHeld, CallTypes, AddrFacts DEF TypeOK
  <2> QED BY <2>1, <1>1 DEF Rejected
<1>3. PICK s, h : BalanceInv(s, h) /\ Search(s)
  BY DEF IInv, TreeInv
<1>4. Shape(tree, Held, s) /\ AddSearch(s)
  BY <1>1, <1>3 DEF BalanceInv, Balanced, Nodes, Search
<1>5. s[NIL] = {} /\ cur \in Held \cup {NIL}
  BY <1>1, <1>3, <1>4, SearchTrees DEF Search
<1>6. CASE add_descend /\ ~Overlaps(a, area[cur])
  <2>1. UNCHANGED area /\ pc' = pc /\ UNCHANGED ret /\ UNCHANGED call
    BY <1>6 DEF add_descend, nodes
  <2> QED BY <2>1 DEF areas, Registered
<1>7. CASE add_descend /\ Overlaps(a, area[cur])
  <2>1. /\ UNCHANGED area /\ pc' = "idle" /\ cur \in Held
        /\ ret' = [call |-> call, code |-> -1, area |-> NONE]
    BY <1>5, <1>7 DEF add_descend, Return, nodes
  <2>2. areas' = areas
    BY <1>1, <2>1 DEF areas, Registered
  <2>3. area[cur] \in areas /\ VS!Overlap(a, area[cur])
    BY <1>1, <1>7, <2>1 DEF areas, VS!Overlap, Overlaps
  <2>4. PICK b \in Area : b = a
    BY <1>2
  <2>5. VS!AddFails(b)
    BY <1>2, <2>1, <2>2, <2>3, <2>4 DEF VS!AddFails, VS!Answer, VS!AddCall, areas
  <2> QED BY <2>5 DEF VS!Next, VS!Area, Area
<1>8. CASE add_link
  <2>1. pool # 0
    <3>1. /\ g_count = Cardinality(Held) - 0 /\ pool + Cardinality(Held) = RB_MAX_NODES
          /\ ~(g_count >= RB_MAX_NODES) /\ g_count \in Nat
      BY <1>1 DEF Rejected, IInv, StateInv, CountInv, TypeOK
    <3> QED BY <3>1, HeldFacts, RbAssumption
  <2>2. /\ area' = [area EXCEPT ![z] = a] /\ pc' = "insert_fixup" /\ UNCHANGED <<call, ret>>
        /\ cur = NIL
    BY <1>8, <2>1 DEF add_link
  <2>3. z \notin Held
    <3>1. SUFFICES ASSUME z \in Held PROVE FALSE
      OBVIOUS
    <3>2. Overlaps(a, area[z])
      BY <3>1, <1>2, AreasHeld DEF Overlaps
    <3> QED BY <3>1, <3>2, <1>4, <1>5, <2>2 DEF AddSearch
  <2>4. area \in [Addr -> Area \cup {NONE}] /\ \A n \in Held : n \in Addr /\ n # z
    BY <2>3, AreasHeld, HeldFacts DEF TypeOK
  <2> HIDE DEF a
  <2>5. \A n \in Addr : n # z => area'[n] = area[n]
    BY <2>2, <2>4, <1>2
  <2> HIDE DEF z
  <2>6. Registered' = Held
    BY <2>2, <2>3, <2>4, <2>5 DEF Registered, Held, z
  <2>7. areas' = areas
    BY <1>1, <2>4, <2>5, <2>6 DEF areas
  <2> QED BY <2>2, <2>7
<1> QED BY <1>6, <1>7, <1>8

LEMMA StepRefines == IInv /\ [Next]_vars => [VS!Next]_<<areas, ret>>
<1> SUFFICES ASSUME IInv, [Next]_vars PROVE VS!Next \/ (areas' = areas /\ ret' = ret)
  OBVIOUS
<1>1. CASE Begin
  BY <1>1, BeginRefines
<1>2. CASE add_descend \/ add_link
  BY <1>2, AddRefines
<1>3. CASE remove_misses \/ find_answer
  <2>1. pc = "descend" /\ call.op \in {"remove", "find"}
    BY <1>3 DEF remove_misses, find_answer
  <2> QED BY <1>3, <2>1, AnswerRefines
<1>4. CASE add_done \/ remove_release
  BY <1>4, AddDoneRefines, ReleaseRefines
<1>5. CASE remove_descend \/ find_descend
  BY <1>5, SMTT(30) DEF remove_descend, find_descend, nodes, areas, Registered
<1>6. CASE insert_recolor \/ insert_rotate
  BY <1>6, Zenon DEF insert_recolor, insert_rotate, areas, Registered
<1>7. CASE remove_unlink \/ delete_done
  <2>1. /\ pc # "insert_fixup" /\ pc' # "insert_fixup" /\ UNCHANGED <<area, ret>>
    BY <1>7, SMTT(30) DEF remove_unlink, delete_done
  <2> QED BY <2>1 DEF areas, Registered
<1>8. CASE delete_move_up \/ delete_rotate
  BY <1>8, Zenon DEF delete_move_up, delete_rotate, areas, Registered
<1>9. CASE UNCHANGED vars
  BY <1>9 DEF vars, nodes, areas, Registered
<1> QED BY <1>1, <1>2, <1>3, <1>4, <1>5, <1>6, <1>7, <1>8, <1>9 DEF Next, Continue

\* Whatever the calls, the tree behaves as the set of areas that the contract
\* describes: the areas rb_add meets on its way down are enough to find every
\* overlap, rb_find and rb_remove find what is there, and a full pool refuses
\* an area and loses none.
THEOREM RbRefinement == Spec => ImplementsVmaSet
<1>1. Init => VS!Init
  BY DEF Init, VS!Init, VS!Answer, NoAnswer, Idle, Registered
<1>2. IInv /\ [Next]_vars => [VS!Next]_VS!vars
  BY StepRefines, Zenon DEF VS!vars, areas
<1> QED BY <1>1, <1>2, RbInvariance, PTL DEF Spec, ImplementsVmaSet, VS!Spec
==============================================================================
