--------------------------- MODULE KeyTableProofs ---------------------------
(***************************************************************************)
(* Proofs about KeyTable, for every number of slots, set of keys and       *)
(* lists.  Its invariant says that a key keeps its slot from KEY_DOWN to   *)
(* KEY_UP: so a scan that has not met a key that was down ever since the   *)
(* call began has it still ahead.                                          *)
(***************************************************************************)
EXTENDS KeyTable, WellFoundedInduction, FiniteSetTheorems, TLAPS

\* What the scan of a list knows at each of its steps.
ScanInv ==
    /\ rpc = "idle" => always = {} /\ ever = {}
    /\ always \subseteq InTable
    /\ rpc = "scan" => KeysOf(list) \intersect InTable \subseteq ever
    /\ rpc = "scan" => \A p \in found : p < i /\ list[p] \in ever
    /\ \A p \in 1 .. Len(list) : p < i /\ list[p] \in always => p \in found
    /\ i <= Len(list) /\ list[i] = None => slot = 1
    /\ i <= Len(list) /\ list[i] \in always =>
           \E s \in Slots : slot <= s /\ key_list[s] = list[i]

IInv == TypeOK /\ NoDuplicates /\ NoStuckKey /\ ScanInv

-----------------------------------------------------------------------------
(* The loops over the table                                                *)

\* Some number of a set is the least: the slot at which a loop stops.
LEMMA LeastNatural ==
    ASSUME NEW S \in SUBSET Nat, S # {}
    PROVE  \E s \in S : \A t \in S : s <= t
  <1> DEFINE R == OpToRel(<, Nat)
  <1>1. PICK x \in S : \A y \in S : ~ (<<y, x>> \in R)
    BY NatLessThanWellFounded, WFMin
  <1>2. \A a, b \in Nat : a < b => <<a, b>> \in R
    BY DEF OpToRel
  <1> HIDE DEF R
  <1>3. ASSUME NEW t \in S PROVE x <= t
    <2>1. t \in Nat /\ x \in Nat
      OBVIOUS
    <2>2. ~ (t < x)
      BY <1>1, <1>2, <2>1, Zenon
    <2>3. QED
      BY <2>1, <2>2
  <1>4. QED
    BY <1>3

\* A loop that looks for a slot stops at one, if there is one.
LEMMA FirstOfIn ==
    ASSUME NEW S \in SUBSET Slots, S # {}
    PROVE  FirstOf(S) \in S
  <1>1. S \in SUBSET Nat
    BY SlotCountAssumption DEF Slots
  <1>2. \E s \in S : \A t \in S : s <= t
    BY <1>1, LeastNatural
  <1>3. QED
    BY <1>2 DEF FirstOf

\* set_key_down writes a key that is not in the table into a free slot, or
\* nothing.
LEMMA DownEffect ==
    ASSUME TypeOK, NEW k \in Key, SetKeyDown(k)
    PROVE  \/ key_list' = key_list
           \/ \E f \in Slots : /\ key_list[f] = None /\ k \notin InTable
                               /\ key_list' = [key_list EXCEPT ![f] = k]
  <1>1. CASE k \in InTable \/ FreeSlots = {}
    BY <1>1 DEF SetKeyDown, SlotsFor, Written
  <1>2. CASE ~ (k \in InTable \/ FreeSlots = {})
    <2>1. FirstOf(FreeSlots) \in FreeSlots
      BY <1>2, FirstOfIn DEF FreeSlots, Holding
    <2>2. QED
      BY <1>2, <2>1 DEF SetKeyDown, SlotsFor, Written, FreeSlots, Holding
  <1>3. QED
    BY <1>1, <1>2

\* set_key_up frees a slot that holds the key, or the key is in none.
LEMMA UpEffect ==
    ASSUME TypeOK, NEW k \in Key, SetKeyUp(k)
    PROVE  \/ key_list' = key_list /\ k \notin InTable
           \/ \E f \in Slots : /\ key_list[f] = k
                               /\ key_list' = [key_list EXCEPT ![f] = None]
  <1>1. CASE k \notin InTable
    <2>1. k # None
      BY NoneAssumption
    <2>2. Holding(k) = {}
      BY <1>1, <2>1 DEF InTable, Holding
    <2>3. QED
      BY <1>1, <2>2 DEF SetKeyUp, Written
  <1>2. CASE k \in InTable
    <2>1. Holding(k) # {} /\ Holding(k) \in SUBSET Slots
      BY <1>2 DEF InTable, Holding
    <2>2. FirstOf(Holding(k)) \in Holding(k)
      BY <2>1, FirstOfIn
    <2>3. QED
      BY <2>1, <2>2 DEF SetKeyUp, Written, Holding
  <1>3. QED
    BY <1>1, <1>2

-----------------------------------------------------------------------------
(* The inductive invariant                                                 *)

\* Every step keeps the types.
LEMMA TypeStep == TypeOK /\ [Next]_vars => TypeOK'
  <1> SUFFICES ASSUME TypeOK, [Next]_vars PROVE TypeOK'
    OBVIOUS
  <1> USE NoneAssumption, SlotCountAssumption DEF vars, readerVars
  <1>1. ASSUME NEW k \in Key, SetKeyDown(k) PROVE TypeOK'
    <2>1. key_list' \in [Slots -> Key \union {None}]
      BY <1>1, DownEffect DEF TypeOK
    <2>2. QED
      BY <1>1, <2>1 DEF SetKeyDown, Observe, TypeOK
  <1>2. ASSUME NEW k \in Key, SetKeyUp(k) PROVE TypeOK'
    <2>1. key_list' \in [Slots -> Key \union {None}]
      BY <1>2, UpEffect DEF TypeOK
    <2>2. QED
      BY <1>2, <2>1 DEF SetKeyUp, Observe, TypeOK
  <1>3. ASSUME NEW l \in Lists, Call(l) PROVE TypeOK'
    <2>1. l \in Seq(Key \union {None})
      BY ListsAssumption
    <2>2. QED
      BY <1>3, <2>1 DEF Call, TypeOK, Slots
  <1>4. CASE SkipZero
    BY <1>4 DEF SkipZero, TypeOK
  <1>5. CASE ReadSlot
    BY <1>5 DEF ReadSlot, AtLastSlot, TypeOK, Slots
  <1>6. CASE Return
    BY <1>6 DEF Return, TypeOK
  <1>7. CASE UNCHANGED vars
    BY <1>7 DEF TypeOK
  <1>8. QED
    BY <1>1, <1>2, <1>3, <1>4, <1>5, <1>6, <1>7 DEF Next, EventLoop, Script

\* Writing the first slot that is free, or that holds the key, keeps a key in one
\* slot at most, and only while it is pressed.
LEMMA TableStep ==
    TypeOK /\ NoDuplicates /\ NoStuckKey /\ [Next]_vars
        => NoDuplicates' /\ NoStuckKey'
  <1> SUFFICES ASSUME TypeOK, NoDuplicates, NoStuckKey, [Next]_vars
               PROVE  NoDuplicates' /\ NoStuckKey'
    OBVIOUS
  <1> USE NoneAssumption DEF TypeOK, NoDuplicates, NoStuckKey, InTable
  <1>1. ASSUME NEW k \in Key, SetKeyDown(k) PROVE NoDuplicates' /\ NoStuckKey'
    <2>1. pressed' = pressed \union {k}
      BY <1>1 DEF SetKeyDown
    <2>2. QED
      BY <1>1, <2>1, DownEffect
  <1>2. ASSUME NEW k \in Key, SetKeyUp(k) PROVE NoDuplicates' /\ NoStuckKey'
    <2>1. pressed' = pressed \ {k}
      BY <1>2 DEF SetKeyUp
    <2>2. QED
      BY <1>2, <2>1, UpEffect
  <1>3. CASE UNCHANGED <<key_list, pressed>>
    BY <1>3
  <1>4. CASE Script
    BY <1>3, <1>4 DEF Script, Call, SkipZero, ReadSlot, Return
  <1>5. QED
    BY <1>1, <1>2, <1>3, <1>4 DEF Next, EventLoop, vars

\* A write to the table moves no key from the slots ahead of a scan to those
\* behind it.
LEMMA WriteScan ==
    ASSUME TypeOK, TypeOK', NoDuplicates, ScanInv, Observe, UNCHANGED readerVars,
           NEW f \in Slots, NEW c \in Key \union {None},
           key_list' = [key_list EXCEPT ![f] = c],
           key_list[f] = None \/ c = None
    PROVE  ScanInv'
  <1> USE NoneAssumption DEF TypeOK, readerVars, Observe
  <1>1. rpc' = "idle" => always' = {} /\ ever' = {}
    BY DEF ScanInv
  <1>2. always' \subseteq InTable'
    OBVIOUS
  <1>3. rpc' = "scan" => KeysOf(list') \intersect InTable' \subseteq ever'
    BY DEF KeysOf
  <1>4. rpc' = "scan" => \A p \in found' : p < i' /\ list'[p] \in ever'
    BY DEF ScanInv
  <1>5. \A p \in 1 .. Len(list') : p < i' /\ list'[p] \in always' => p \in found'
    BY DEF ScanInv
  <1>6. ASSUME i' <= Len(list'), list'[i'] \in always'
        PROVE  \E s \in Slots : slot' <= s /\ key_list'[s] = list'[i']
    <2>1. PICK s \in Slots : slot <= s /\ key_list[s] = list[i]
      BY <1>6 DEF ScanInv
    <2>2. list[i] # None /\ list[i] \in InTable'
      BY <1>6 DEF KeysOf
    <2>3. PICK t \in Slots : key_list'[t] = list[i]
      BY <2>2 DEF InTable
    <2>4. CASE s = f
      <3>1. c = None
        BY <2>1, <2>2, <2>4
      <3>2. t # f /\ key_list[t] = list[i]
        BY <2>2, <2>3, <3>1
      <3>3. QED
        BY <2>1, <2>2, <2>4, <3>2 DEF NoDuplicates
    <2>5. CASE s # f
      BY <2>1, <2>5
    <2>6. QED
      BY <2>4, <2>5
  <1>7. QED
    BY <1>1, <1>2, <1>3, <1>4, <1>5, <1>6 DEF ScanInv

\* A write that changes nothing.
LEMMA NoWriteScan ==
    ASSUME TypeOK, ScanInv, Observe, UNCHANGED readerVars, key_list' = key_list
    PROVE  ScanInv'
  <1>1. InTable' = InTable
    BY DEF InTable
  <1>2. always' = always /\ ever' = ever
    BY <1>1 DEF Observe, ScanInv, TypeOK
  <1>3. QED
    BY <1>1, <1>2 DEF ScanInv, readerVars, Slots, KeysOf

\* A write behind the reader or in front of it keeps what it has found so far.
LEMMA ScanStep ==
    TypeOK /\ TypeOK' /\ NoDuplicates /\ ScanInv /\ [Next]_vars => ScanInv'
  <1> SUFFICES ASSUME TypeOK, TypeOK', NoDuplicates, ScanInv, [Next]_vars
               PROVE  ScanInv'
    OBVIOUS
  <1>1. ASSUME NEW k \in Key, SetKeyDown(k) PROVE ScanInv'
    <2>1. Observe /\ UNCHANGED readerVars
      BY <1>1 DEF SetKeyDown
    <2>2. QED
      BY <1>1, <2>1, DownEffect, WriteScan, NoWriteScan
  <1>2. ASSUME NEW k \in Key, SetKeyUp(k) PROVE ScanInv'
    <2>1. Observe /\ UNCHANGED readerVars
      BY <1>2 DEF SetKeyUp
    <2>2. QED
      BY <1>2, <2>1, UpEffect, WriteScan, NoWriteScan
  <1>3. ASSUME NEW l \in Lists, Call(l) PROVE ScanInv'
    <2>1. /\ rpc' = "scan" /\ list' = l /\ i' = 1 /\ slot' = 1 /\ found' = {}
          /\ always' = KeysOf(l) \intersect InTable /\ ever' = always'
          /\ InTable' = InTable /\ key_list' = key_list
      BY <1>3 DEF Call, InTable
    <2>2. ASSUME i' <= Len(list'), list'[i'] \in always'
          PROVE  \E s \in Slots : slot' <= s /\ key_list'[s] = list'[i']
      <3>1. PICK s \in Slots : key_list[s] = list'[i']
        BY <2>1, <2>2 DEF InTable
      <3>2. QED
        BY <2>1, <3>1 DEF Slots
    <2>3. QED
      BY <2>1, <2>2 DEF ScanInv
  <1>4. CASE SkipZero
    <2>1. /\ rpc = "scan" /\ i <= Len(list) /\ list[i] = None /\ i' = i + 1
          /\ UNCHANGED <<key_list, rpc, list, slot, found, always, ever>>
          /\ InTable' = InTable
      BY <1>4 DEF SkipZero, InTable
    <2>2. \A p \in 1 .. Len(list') : p < i' /\ list'[p] \in always' => p \in found'
      BY <2>1 DEF ScanInv, TypeOK, KeysOf
    <2>3. ASSUME i' <= Len(list'), list'[i'] \in always'
          PROVE  \E s \in Slots : slot' <= s /\ key_list'[s] = list'[i']
      <3>1. slot' = 1
        BY <2>1 DEF ScanInv
      <3>2. list'[i'] \in InTable
        BY <2>1, <2>3 DEF ScanInv
      <3>3. QED
        BY <2>1, <3>1, <3>2 DEF InTable, Slots
    <2>4. i' <= Len(list') /\ list'[i'] = None => slot' = 1
      BY <2>1 DEF ScanInv
    <2>5. QED
      BY <2>1, <2>2, <2>3, <2>4 DEF ScanInv, TypeOK
  <1>5. CASE ReadSlot
    <2>1. /\ rpc = "scan" /\ i <= Len(list) /\ list[i] # None
          /\ UNCHANGED <<key_list, rpc, list, always, ever>>
          /\ InTable' = InTable
      BY <1>5 DEF ReadSlot, InTable
    <2>2. CASE key_list[slot] = list[i]
      <3>1. i' = i + 1 /\ slot' = 1 /\ found' = found \union {i}
        BY <1>5, <2>2 DEF ReadSlot, AtLastSlot
      <3>2. list[i] \in ever
        BY <2>1, <2>2 DEF ScanInv, TypeOK, InTable, KeysOf
      <3>3. \A p \in found' : p < i' /\ list'[p] \in ever'
        BY <2>1, <3>1, <3>2 DEF ScanInv, TypeOK
      <3>4. \A p \in 1 .. Len(list') :
                p < i' /\ list'[p] \in always' => p \in found'
        BY <2>1, <3>1 DEF ScanInv, TypeOK
      <3>5. ASSUME i' <= Len(list'), list'[i'] \in always'
            PROVE  \E s \in Slots : slot' <= s /\ key_list'[s] = list'[i']
        <4>1. list'[i'] \in InTable
          BY <2>1, <3>5 DEF ScanInv
        <4>2. QED
          BY <2>1, <3>1, <4>1 DEF InTable, Slots
      <3>6. QED
        BY <2>1, <3>1, <3>3, <3>4, <3>5 DEF ScanInv
    <2>3. CASE key_list[slot] # list[i] /\ slot # SlotCount
      <3>1. i' = i /\ slot' = slot + 1 /\ found' = found
        BY <1>5, <2>3 DEF ReadSlot, AtLastSlot
      <3>2. ASSUME i' <= Len(list'), list'[i'] \in always'
            PROVE  \E s \in Slots : slot' <= s /\ key_list'[s] = list'[i']
        <4>1. PICK s \in Slots : slot <= s /\ key_list[s] = list[i]
          BY <2>1, <3>1, <3>2 DEF ScanInv
        <4>2. s # slot
          BY <2>3, <4>1
        <4>3. QED
          BY <2>1, <3>1, <4>1, <4>2 DEF TypeOK, Slots
      <3>3. QED
        BY <2>1, <3>1, <3>2 DEF ScanInv
    <2>4. CASE key_list[slot] # list[i] /\ slot = SlotCount
      <3>1. i' = i + 1 /\ slot' = 1 /\ found' = found
        BY <1>5, <2>4 DEF ReadSlot, AtLastSlot
      <3>2. list[i] \notin always
        BY <2>1, <2>4, SlotCountAssumption DEF ScanInv, Slots
      <3>3. \A p \in found' : p < i' /\ list'[p] \in ever'
        BY <2>1, <3>1 DEF ScanInv, TypeOK
      <3>4. \A p \in 1 .. Len(list') :
                p < i' /\ list'[p] \in always' => p \in found'
        BY <2>1, <3>1, <3>2 DEF ScanInv, TypeOK
      <3>5. ASSUME i' <= Len(list'), list'[i'] \in always'
            PROVE  \E s \in Slots : slot' <= s /\ key_list'[s] = list'[i']
        <4>1. list'[i'] \in InTable
          BY <2>1, <3>5 DEF ScanInv
        <4>2. QED
          BY <2>1, <3>1, <4>1 DEF InTable, Slots
      <3>6. QED
        BY <2>1, <3>1, <3>3, <3>4, <3>5 DEF ScanInv
    <2>5. QED
      BY <2>2, <2>3, <2>4
  <1>6. CASE Return
    BY <1>6 DEF Return, ScanInv, InTable
  <1>7. CASE UNCHANGED vars
    BY <1>7 DEF ScanInv, vars, readerVars, InTable, Slots, KeysOf
  <1>8. QED
    BY <1>1, <1>2, <1>3, <1>4, <1>5, <1>6, <1>7 DEF Next, EventLoop, Script

\* The invariant holds in every state.
LEMMA Invariance == Spec => []IInv
  <1>1. Init => IInv
    <2> SUFFICES ASSUME Init PROVE IInv
      OBVIOUS
    <2>1. InTable = {}
      BY DEF Init, InTable
    <2>2. TypeOK
      BY SlotCountAssumption DEF Init, TypeOK, Slots
    <2>3. NoDuplicates /\ NoStuckKey
      BY <2>1 DEF Init, NoDuplicates, NoStuckKey
    <2>4. ScanInv
      BY DEF Init, ScanInv
    <2>5. QED
      BY <2>2, <2>3, <2>4 DEF IInv
  <1>2. IInv /\ [Next]_vars => IInv'
    BY TypeStep, TableStep, ScanStep DEF IInv
  <1>3. QED
    BY <1>1, <1>2, PTL DEF Spec

-----------------------------------------------------------------------------
(* Safety                                                                  *)

\* Every variable keeps its type in every run.
THEOREM TypeCorrect == Spec => []TypeOK
  <1>1. IInv => TypeOK
    BY DEF IInv
  <1>2. QED
    BY <1>1, Invariance, PTL

\* No key is in two slots, so no KEY_UP leaves its key behind.
THEOREM OneSlotPerKey == Spec => []NoDuplicates
  <1>1. IInv => NoDuplicates
    BY DEF IInv
  <1>2. QED
    BY <1>1, Invariance, PTL

\* is_key_down never goes on saying TRUE of a key that was released.
THEOREM ReleasedKeysLeave == Spec => []NoStuckKey
  <1>1. IInv => NoStuckKey
    BY DEF IInv
  <1>2. QED
    BY <1>1, Invariance, PTL

\* The answers of the unlocked scans hold for the time of the call, however
\* many events the main thread handles meanwhile.
THEOREM ScansAreCurrent == Spec => []AnswerIsCurrent
  <1>1. IInv => AnswerIsCurrent
    BY DEF IInv, TypeOK, ScanInv, AnswerIsCurrent
  <1>2. QED
    BY <1>1, Invariance, PTL

-----------------------------------------------------------------------------
(* Steps                                                                   *)

\* A key is only ever dropped by a table all of whose slots are taken.
THEOREM DropsNeedFullTable == Spec => DropsOnlyWhenFull
  <1> DEFINE A == \A k \in Key : k \in pressed' \ InTable' =>
                      k \in pressed \ InTable \/ FreeSlots = {}
  <1>1. IInv /\ [Next]_vars => A
    <2> SUFFICES ASSUME IInv, [Next]_vars, FreeSlots # {}, NEW k \in Key,
                        k \in pressed' \ InTable'
                 PROVE  k \in pressed \ InTable
      OBVIOUS
    <2> USE NoneAssumption DEF IInv, TypeOK
    <2>1. ASSUME NEW d \in Key, SetKeyDown(d) PROVE k \in pressed \ InTable
      <3>1. pressed' = pressed \union {d}
        BY <2>1 DEF SetKeyDown
      <3>2. InTable \subseteq InTable'
        BY <2>1, DownEffect DEF InTable
      <3>3. FirstOf(FreeSlots) \in Slots
        BY FirstOfIn DEF FreeSlots, Holding
      <3>4. d \in InTable'
        <4>1. CASE d \in InTable
          BY <3>2, <4>1
        <4>2. CASE d \notin InTable
          <5>1. key_list' = [key_list EXCEPT ![FirstOf(FreeSlots)] = d]
            BY <2>1, <4>2 DEF SetKeyDown, SlotsFor, Written
          <5>2. QED
            BY <3>3, <5>1 DEF InTable
        <4>3. QED
          BY <4>1, <4>2
      <3>5. QED
        BY <3>1, <3>2, <3>4
    <2>2. ASSUME NEW u \in Key, SetKeyUp(u) PROVE k \in pressed \ InTable
      <3>1. pressed' = pressed \ {u}
        BY <2>2 DEF SetKeyUp
      <3>2. InTable \ {u} \subseteq InTable'
        BY <2>2, UpEffect DEF InTable
      <3>3. QED
        BY <3>1, <3>2
    <2>3. CASE UNCHANGED <<key_list, pressed>>
      BY <2>3 DEF InTable
    <2>4. QED
      BY <2>1, <2>2, <2>3
      DEF Next, EventLoop, Script, Call, SkipZero, ReadSlot, Return, vars
  <1>2. QED
    BY <1>1, Invariance, PTL DEF Spec, DropsOnlyWhenFull

-----------------------------------------------------------------------------
(* Refinement                                                              *)

\* With a free slot there are fewer keys in the table than slots.
LEMMA RoomForOne ==
    ASSUME TypeOK, FreeSlots # {}
    PROVE  Cardinality(InTable) < SlotCount
  <1> DEFINE T == InTable \union {None}
  <1>1. key_list \in Surjection(1 .. SlotCount, T)
    BY DEF TypeOK, InTable, FreeSlots, Holding, Slots, Surjection
  <1>2. Cardinality(T) <= SlotCount
    BY <1>1, FS_SurjCardinalityBound, SlotCountAssumption DEF ExistsSurjection
  <1>3. IsFiniteSet(1 .. SlotCount)
    BY FS_Interval, SlotCountAssumption
  <1>4. IsFiniteSet(T)
    BY <1>1, <1>3, FS_Surjection
  <1>5. None \notin InTable /\ IsFiniteSet(InTable)
    BY <1>4, FS_Subset DEF InTable
  <1>6. Cardinality(T) = Cardinality(InTable) + 1
    BY <1>5, FS_AddElement
  <1>7. Cardinality(InTable) \in Nat
    BY <1>5, FS_CardinalityType
  <1>8. QED
    BY <1>2, <1>6, <1>7, SlotCountAssumption

\* Every event and every step of a scan is a step of KeySet or leaves it alone.
LEMMA SetStep == IInv /\ [Next]_vars => [Set!Next]_(Set!keySetVars)
  <1> SUFFICES ASSUME IInv, [Next]_vars PROVE [Set!Next]_(Set!keySetVars)
    OBVIOUS
  <1> USE NoneAssumption DEF IInv, TypeOK, Set!keySetVars, readerVars
  <1>1. ASSUME NEW k \in Key, SetKeyDown(k)
        PROVE  Set!Press(k) \/ UNCHANGED Set!keySetVars
    <2>1. Observe /\ UNCHANGED readerVars
      BY <1>1 DEF SetKeyDown
    <2>2. CASE key_list' = key_list
      <3>1. InTable' = InTable
        BY <2>2 DEF InTable
      <3>2. always' = always /\ ever' = ever
        BY <2>1, <3>1 DEF Observe, ScanInv
      <3>3. QED
        BY <2>1, <3>1, <3>2 DEF Counted, KeysOf
    <2>3. CASE key_list' # key_list
      <3>1. PICK f \in Slots : /\ key_list[f] = None /\ k \notin InTable
                               /\ key_list' = [key_list EXCEPT ![f] = k]
        BY <1>1, <2>3, DownEffect
      <3>2. InTable' = InTable \union {k}
        BY <3>1 DEF InTable
      <3>3. Set!Cardinality(InTable) < SlotCount
        <4>1. Set!Cardinality(InTable) = Cardinality(InTable)
          BY DEF Set!Cardinality, Cardinality
        <4>2. QED
          BY <3>1, <4>1, RoomForOne DEF FreeSlots, Holding
      <3>4. Set!Becomes(InTable \union {k})
        BY <2>1, <3>2 DEF Set!Becomes, Observe, Counted, ScanInv, KeysOf
      <3>5. QED
        BY <3>3, <3>4 DEF Set!Press
    <2>4. QED
      BY <2>2, <2>3
  <1>2. ASSUME NEW k \in Key, SetKeyUp(k) PROVE Set!Release(k)
    <2>1. Observe /\ UNCHANGED readerVars
      BY <1>2 DEF SetKeyUp
    <2>2. InTable' = InTable \ {k}
      BY <1>2, UpEffect DEF InTable, NoDuplicates
    <2>3. Set!Becomes(InTable \ {k})
      BY <2>1, <2>2 DEF Set!Becomes, Observe, Counted, ScanInv, KeysOf
    <2>4. QED
      BY <2>3 DEF Set!Release
  <1>3. ASSUME NEW l \in Lists, Call(l) PROVE Set!Ask(KeysOf(l))
    <2>1. /\ rpc = "idle" /\ rpc' = "scan" /\ list' = l /\ InTable' = InTable
          /\ always' = KeysOf(l) \intersect InTable /\ ever' = always'
      BY <1>3 DEF Call, InTable
    <2>2. KeysOf(list)' = KeysOf(l)
      BY <2>1 DEF KeysOf
    <2>3. QED
      BY <2>1, <2>2 DEF Set!Ask
  <1>4. ASSUME NEW l \in Lists PROVE KeysOf(l) \in SUBSET Key
    BY ListsAssumption DEF KeysOf
  <1>5. CASE SkipZero
    BY <1>5 DEF SkipZero, InTable, KeysOf
  <1>6. CASE ReadSlot
    BY <1>6 DEF ReadSlot, InTable, KeysOf
  <1>7. CASE Return
    <2>1. /\ rpc = "scan" /\ i > Len(list) /\ rpc' = "idle"
          /\ always' = {} /\ ever' = {} /\ UNCHANGED <<key_list, list, found>>
          /\ InTable' = InTable
      BY <1>7 DEF Return, InTable
    <2>2. Counted' = Counted /\ KeysOf(list)' = KeysOf(list)
      BY <2>1 DEF Counted, KeysOf
    <2>3. Counted \subseteq ever
      BY <2>1 DEF Counted, ScanInv
    <2>4. always \subseteq Counted
      BY <2>1 DEF Counted, ScanInv, KeysOf
    <2>5. CASE KeysOf(list) = {}
      <3>1. ever = {} /\ always = {} /\ Counted = {}
        BY <2>3, <2>5
      <3>2. UNCHANGED Set!keySetVars
        BY <2>1, <2>2, <2>5, <3>1
      <3>3. QED
        BY <3>2
    <2>6. CASE KeysOf(list) # {}
      <3>1. Set!Answer
        BY <2>1, <2>2, <2>3, <2>4, <2>6 DEF Set!Answer
      <3>2. QED
        BY <3>1 DEF Set!Next
    <2>7. QED
      BY <2>5, <2>6
  <1>8. CASE UNCHANGED vars
    BY <1>8 DEF vars, InTable, KeysOf, Counted
  <1>9. QED
    BY <1>1, <1>2, <1>3, <1>4, <1>5, <1>6, <1>7, <1>8
    DEF Next, EventLoop, Script, Set!Next

\* key_list, read without a lock, behaves as a set of keys whose questions
\* are answered for the time they take.
THEOREM SetRefinement == Spec => ImplementsKeySet
  <1>1. Init => Set!Init
    BY DEF Init, Set!Init, InTable, Counted
  <1>2. QED
    BY <1>1, SetStep, Invariance, PTL DEF Spec, ImplementsKeySet, Set!Spec
=============================================================================
