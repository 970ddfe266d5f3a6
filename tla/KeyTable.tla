------------------------------ MODULE KeyTable ------------------------------
(***************************************************************************)
(* game.c:61-129: the keys that are down are kept in the ten slots of      *)
(* key_list.  The event loop of the main thread is the only writer: it     *)
(* looks the table through and then writes at most one slot, so its        *)
(* functions are atomic for everybody else.  The script, on the game       *)
(* thread, asks with is_key_down and are_keys_down, which read the table   *)
(* slot by slot and without a lock while the main thread writes.           *)
(*                                                                         *)
(* are_keys_down(list,count) is a scan of the table for each key of the    *)
(* list that is not 0; is_key_down(k) is the list <<k>>; are_keys_up       *)
(* counts the keys of the list that the same scans do not find.            *)
(***************************************************************************)
EXTENDS Naturals, Sequences, FiniteSets

CONSTANTS Key,        \* key codes but ESCAPE, at which the event loop exits
          None,       \* 0: a free slot, and the padding of lists
          SlotCount,  \* _countof(key_list)
          Lists       \* the lists a script asks about

ASSUME NoneAssumption == None \notin Key
ASSUME SlotCountAssumption == SlotCount \in Nat \ {0}
ASSUME ListsAssumption == Lists \subseteq Seq(Key \union {None})

VARIABLES key_list,   \* game.c:13
          pressed,    \* history: keys whose last event was KEY_DOWN
          rpc,        \* "idle", or "scan": the script is in are_keys_down
          list, i,    \* its list and the position it looks for
          slot,       \* the slot is_key_down reads next
          found,      \* positions whose key was found (result is their number)
          always,     \* history: keys of the list in the table since the call
          ever        \* history: keys of the list in the table at some time

readerVars == <<rpc, list, i, slot, found>>
vars == <<key_list, pressed, readerVars, always, ever>>

Slots == 1 .. SlotCount
KeysOf(l) == {l[p] : p \in 1 .. Len(l)} \ {None}
InTable == {key_list[s] : s \in Slots} \ {None}

TypeOK ==
    /\ key_list \in [Slots -> Key \union {None}]
    /\ pressed \subseteq Key
    /\ rpc \in {"idle", "scan"}
    /\ list \in Seq(Key \union {None})
    /\ i \in 1 .. Len(list) + 1
    /\ slot \in Slots
    /\ found \subseteq 1 .. Len(list)
    /\ always \subseteq KeysOf(list)
    /\ ever \subseteq KeysOf(list)

Init ==
    /\ key_list = [s \in Slots |-> None] /\ pressed = {}
    /\ rpc = "idle" /\ list = << >> /\ i = 1 /\ slot = 1
    /\ found = {} /\ always = {} /\ ever = {}

-----------------------------------------------------------------------------
(* The main thread                                                         *)

\* The history of a call follows every write to the table.
Observe ==
    /\ always' = always \intersect InTable'
    /\ ever' = IF rpc = "scan" THEN ever \union (KeysOf(list) \intersect InTable')
                              ELSE ever

Holding(c) == {s \in Slots : key_list[s] = c}
FreeSlots == Holding(None)
FirstOf(S) == CHOOSE s \in S : \A t \in S : s <= t
Written(S, c) == IF S = {} THEN key_list
                 ELSE [key_list EXCEPT ![FirstOf(S)] = c]

\* Slips in the loops of set_key_down: the first one left out, and a full table
\* that drops an older key.
AnyFreeSlot(k) == FreeSlots
LastSlotIfFull(k) == IF k \in InTable THEN {}
                     ELSE IF FreeSlots = {} THEN {SlotCount} ELSE FreeSlots

\* A key that is in the table already takes no other slot.
SlotsFor(k) == IF k \in InTable THEN {} ELSE FreeSlots

\* KEY_DOWN: with all slots taken the key is dropped.
SetKeyDown(k) ==
    /\ pressed' = pressed \union {k}
    /\ key_list' = Written(SlotsFor(k), k)
    /\ Observe
    /\ UNCHANGED readerVars

\* KEY_UP: the first slot that holds the key is freed, and only that one.
SetKeyUp(k) ==
    /\ pressed' = pressed \ {k}
    /\ key_list' = Written(Holding(k), None)
    /\ Observe
    /\ UNCHANGED readerVars

-----------------------------------------------------------------------------
(* The script                                                              *)

Call(l) ==
    /\ rpc = "idle"
    /\ rpc' = "scan"
    /\ list' = l /\ i' = 1 /\ slot' = 1 /\ found' = {}
    /\ always' = KeysOf(l) \intersect InTable
    /\ ever' = KeysOf(l) \intersect InTable
    /\ UNCHANGED <<key_list, pressed>>

\* Padding: if(0==key) continue.
SkipZero ==
    /\ rpc = "scan" /\ i <= Len(list)
    /\ list[i] = None
    /\ i' = i + 1
    /\ UNCHANGED <<key_list, pressed, rpc, list, slot, found, always, ever>>

\* Slips in the loop of is_key_down: one slot too many, and a free slot taken
\* for the end of the table.
PastLastSlot == slot > SlotCount
AtFreeSlot == slot = SlotCount \/ key_list[slot] = None
AtLastSlot == slot = SlotCount

\* One slot is read and compared; the scan of a key ends at the slot that
\* holds it or after the last one.
ReadSlot ==
    /\ rpc = "scan" /\ i <= Len(list)
    /\ list[i] # None
    /\ LET hit == key_list[slot] = list[i]
       IN  /\ found' = IF hit THEN found \union {i} ELSE found
           /\ IF hit \/ AtLastSlot
              THEN i' = i + 1 /\ slot' = 1
              ELSE i' = i /\ slot' = slot + 1
    /\ UNCHANGED <<key_list, pressed, rpc, list, always, ever>>

Return ==
    /\ rpc = "scan" /\ i > Len(list)
    /\ rpc' = "idle"
    /\ always' = {} /\ ever' = {}
    /\ UNCHANGED <<key_list, pressed, list, i, slot, found>>

-----------------------------------------------------------------------------
EventLoop == \E k \in Key : SetKeyDown(k) \/ SetKeyUp(k)
Script == (\E l \in Lists : Call(l)) \/ SkipZero \/ ReadSlot \/ Return

Next == EventLoop \/ Script

Spec == Init /\ [][Next]_vars

-----------------------------------------------------------------------------
(* Properties                                                              *)

\* A key has one slot, so the one slot that KEY_UP frees was its last.
NoDuplicates ==
    \A s, t \in Slots : key_list[s] = key_list[t] /\ key_list[s] # None => s = t

\* No key is stuck: a key in the table has not been released.
NoStuckKey == InTable \subseteq pressed

\* A key that is held and not in the table was pressed while all slots were
\* taken; a slot that gets free later does not bring it back.
DropsOnlyWhenFull ==
    [][\A k \in Key : k \in pressed' \ InTable' =>
           k \in pressed \ InTable \/ FreeSlots = {}]_vars

\* The unlocked scans answer about the time of the call: each key that was
\* down all the while is counted, and none that was up all the while.
Counted == {list[p] : p \in found}
AnswerIsCurrent ==
    rpc = "scan" /\ i > Len(list) =>
        /\ \A p \in 1 .. Len(list) : list[p] \in always => p \in found
        /\ \A p \in found : list[p] \in ever

\* The table and its scans implement the set of keys.
Set == INSTANCE KeySet
          WITH Capacity <- SlotCount,
               down     <- InTable,
               asked    <- IF rpc = "scan" THEN KeysOf(list) ELSE {},
               answer   <- IF rpc = "idle" THEN Counted ELSE {}
ImplementsKeySet == Set!Spec
=============================================================================
