---------------------------- MODULE ScopesProofs ----------------------------
(***************************************************************************)
(* Proofs about Scopes, for any names and any bounds: as long as no text   *)
(* fails, every Sym is on one stack at one place, and after a compilation  *)
(* none is left on a stack or in the token table (TableInv); and what the  *)
(* table says of a name, and what each Sym hides, is what the scopes that  *)
(* are open say, also after texts that have failed (LexInv).               *)
(***************************************************************************)
EXTENDS Scopes, FiniteSetTheorems, SequenceTheorems, NaturalsInduction, TLAPS

Clean   == ~ failed /\ ~ tainted
Stacks  == {"global", "local", "label"}
Mark    == {"none", "complete", "implicit", "forward", "defined"}
SymType == [v : Key \cup {Field}, sym_scope : Int, r : Mark,
            prev_tok : 0 .. MaxSyms]

TableTypeOK ==
    /\ sym \in [DOMAIN sym -> SymType]
    /\ head \in [Key -> 0 .. MaxSyms]
    /\ stack \in [Stacks -> Seq(Syms)]

Places(s) == 1 .. Len(stack[s])
V(s, n)   == sym[stack[s][n]].v

\* Each Sym is at one place of one stack, and labels are on a stack of their own.
PlaceInv ==
    /\ \A s \in Stacks : \A n \in Places(s) : stack[s][n] \in DOMAIN sym
    /\ \A i \in DOMAIN sym : \E s \in Stacks : \E n \in Places(s) : i = stack[s][n]
    /\ \A s, t \in Stacks : \A m \in Places(s), n \in Places(t) :
           stack[s][m] = stack[t][n] => s = t /\ m = n
    /\ \A s \in Stacks : \A n \in Places(s) :
           V(s, n) \in {"label"} \X Name <=> s = "label"

\* What is in the table is of a Sym that is there; what a Sym puts back when
\* none of its name is below it is nothing.
Lowest(s, n) ==
    /\ \A m \in 1 .. (n - 1) : V(s, m) # V(s, n)
    /\ s = "local" => \A m \in Places("global") : V("global", m) # V(s, n)
HidesInv ==
    /\ \A k \in Key : head[k] # NULL => \E i \in DOMAIN sym : sym[i].v = k
    /\ \A s \in Stacks : \A n \in Places(s) :
           Lowest(s, n) => sym[stack[s][n]].prev_tok = NULL

\* Blocks end above where the blocks around them began; what is on the stacks
\* is of the part of the text that is being read.
ParseInv ==
    /\ local_scope \in Int /\ blocks \in Seq([base : Nat, is_expr : BOOLEAN])
    /\ \A b \in 1 .. Len(blocks) : blocks[b].base <= Len(stack["local"])
    /\ \A b, c \in 1 .. Len(blocks) : b <= c => blocks[b].base <= blocks[c].base
    /\ pc \in {"none", "file", "params", "func", "end", "compiled", "crashed"}
    /\ pc \notin {"func", "crashed"} => blocks = <<>>
    /\ pc \in {"none", "file", "params", "end", "compiled"} => stack["label"] = <<>>
    /\ pc \in {"none", "file", "end", "compiled"} => stack["local"] = <<>>
    /\ pc \in {"none", "compiled"} => stack["global"] = <<>> /\ head = Empty

TableInv == TableTypeOK /\ PlaceInv /\ HidesInv
IInv == Clean => TableInv /\ ParseInv

-----------------------------------------------------------------------------
(* Operators                                                               *)

\* The three kinds of entry, and the anonymous one, are different keys.
LEMMA Kinds == /\ Field \notin Key
               /\ "label" \notin Space
               /\ {"label"} \X Name \subseteq Key
               /\ \A k \in Space \X Name : k \in Key /\ k \notin {"label"} \X Name
  <1>1. \A a, b : <<a, b>> # Field
    <2>1. \A a, b : Len(<<a, b>>) = 2
      OBVIOUS
    <2>2. Len(Field) = 1
      BY DEF Field
    <2>3. QED
      BY <2>1, <2>2
  <1>2. "label" \notin Space
    BY DEF Space
  <1>3. QED
    BY <1>1, <1>2 DEF Key

\* Min of a set of naturals that is not empty is its least element.
LEMMA LeastNatural ==
    ASSUME NEW S \in SUBSET Nat, S # {}
    PROVE  /\ Min(S) \in S
           /\ \A t \in S : Min(S) <= t
  <1> DEFINE R == OpToRel(<, Nat)
  <1>1. PICK x \in S : \A y \in S : ~ (<<y, x>> \in R)
    BY NatLessThanWellFounded, WFMin
  <1>2. \A a, b \in Nat : a < b => <<a, b>> \in R
    BY DEF OpToRel
  <1> HIDE DEF R
  <1>3. ASSUME NEW t \in S PROVE x <= t
    <2>1. t \in Nat /\ x \in Nat
      OBVIOUS
    <2>2. ~ (t < x)
      BY <1>1, <1>2, <2>1, Zenon
    <2>3. QED
      BY <2>1, <2>2
  <1>4. QED
    BY <1>3 DEF Min

\* Freeing takes Syms from the memory and leaves the others as they are.
LEMMA FreedIs ==
    ASSUME NEW ids
    PROVE  /\ DOMAIN Freed(ids) = DOMAIN sym \ ids
           /\ \A i \in DOMAIN sym \ ids : Freed(ids)[i] = sym[i]
  BY DEF Freed, RestrictDomain, Restrict

\* The lowest Sym of a name decides what the name means when all are popped.
LEMMA UnlinkedIs ==
    ASSUME NEW h, NEW S, NEW popped \in Seq(S), NEW k \in Key
    PROVE  \/ /\ \A n \in 1 .. Len(popped) : sym[popped[n]].v # k
              /\ Unlinked(h, popped)[k] = h[k]
           \/ \E n \in 1 .. Len(popped) :
                  /\ sym[popped[n]].v = k
                  /\ \A m \in 1 .. (n - 1) : sym[popped[m]].v # k
                  /\ Unlinked(h, popped)[k] = sym[popped[n]].prev_tok
  <1> DEFINE mine == {n \in 1 .. Len(popped) : sym[popped[n]].v = k}
  <1>1. DOMAIN popped = 1 .. Len(popped) /\ Len(popped) \in Nat
    OBVIOUS
  <1>2. Unlinked(h, popped)[k] = IF mine = {} THEN h[k]
                                 ELSE sym[popped[Min(mine)]].prev_tok
    BY <1>1, Zenon DEF Unlinked
  <1>3. CASE mine = {}
    BY <1>2, <1>3
  <1>4. CASE mine # {}
    <2>1. Min(mine) \in mine /\ \A t \in mine : Min(mine) <= t
      <3>1. mine \in SUBSET Nat
        OBVIOUS
      <3> HIDE DEF mine
      <3>2. QED
        BY <3>1, <1>4, LeastNatural
    <2>2. ASSUME NEW m \in 1 .. (Min(mine) - 1) PROVE sym[popped[m]].v # k
      <3>1. m \in 1 .. Len(popped) /\ ~ (Min(mine) <= m)
        BY <2>1, <1>1
      <3>2. QED
        BY <3>1, <2>1
    <2>3. QED
      BY <1>2, <1>4, <2>1, <2>2
  <1>5. QED
    BY <1>3, <1>4

\* Popping leaves Syms or NULL in the token table.
LEMMA UnlinkedType ==
    ASSUME TableTypeOK, NEW h \in [Key -> 0 .. MaxSyms], NEW popped \in Seq(Syms),
           \A n \in 1 .. Len(popped) : popped[n] \in DOMAIN sym
    PROVE  Unlinked(h, popped) \in [Key -> 0 .. MaxSyms]
  <1>1. ASSUME NEW k \in Key PROVE Unlinked(h, popped)[k] \in 0 .. MaxSyms
    <2>1. \A i \in DOMAIN sym : sym[i].prev_tok \in 0 .. MaxSyms
      BY DEF TableTypeOK, SymType
    <2>2. QED
      BY UnlinkedIs, <2>1
  <1>2. \E f : Unlinked(h, popped) = [k \in Key |-> f[k]]
    <2>1. Unlinked(h, popped) = [k \in Key |-> Unlinked(h, popped)[k]]
      BY Zenon DEF Unlinked
    <2>2. QED
      BY <2>1
  <1>3. QED
    BY <1>1, <1>2

-----------------------------------------------------------------------------
(* Push                                                                    *)

\* With room left, sym_malloc returns a Sym that is not in use.
LEMMA MallocIsNew ==
    ASSUME TableTypeOK, PlaceInv, Room
    PROVE  Malloc \in Syms /\ Malloc \notin DOMAIN sym
  <1>1. stack.label = stack["label"] /\ "label" \in Stacks
    BY DEF Stacks
  <1>2. \A s \in Stacks : \A n \in Places(s) : stack[s][n] \in Syms
    BY DEF TableTypeOK, Places
  <1>3. DOMAIN sym \cup Range(stack.label) = DOMAIN sym
    <2>1. DOMAIN stack["label"] = Places("label")
      BY <1>1 DEF TableTypeOK, Places
    <2>2. QED
      BY <1>1, <2>1 DEF PlaceInv, Range
  <1>4. DOMAIN sym \subseteq Syms
    BY <1>2 DEF PlaceInv
  <1>5. IsFiniteSet(Syms) /\ Cardinality(Syms) = MaxSyms /\ Syms \subseteq Nat
    <2>1. MaxSyms \in Nat /\ MaxSyms > 0 /\ 1 \in Int /\ MaxSyms \in Int
      BY BoundsAssumption
    <2>2. IsFiniteSet(1 .. MaxSyms) /\ Cardinality(1 .. MaxSyms) = MaxSyms - 1 + 1
      BY <2>1, FS_Interval
    <2>3. QED
      BY <2>1, <2>2 DEF Syms
  <1>6. Syms \ DOMAIN sym # {}
    <2>1. SUFFICES ASSUME DOMAIN sym = Syms PROVE FALSE
      BY <1>4
    <2>2. Cardinality(Syms) < MaxSyms
      BY <2>1, <1>3 DEF Room
    <2>3. QED
      BY <2>2, <1>5, BoundsAssumption
  <1>7. Malloc \in Syms \ DOMAIN sym
    BY <1>3, <1>5, <1>6, LeastNatural DEF Malloc
  <1>8. QED
    BY <1>7

\* A new Sym on a stack: in what is global, or a label, only if it hides nothing
\* that a Sym below it does not hide.
LEMMA PushStep ==
    ASSUME TableInv, NEW k \in Key \cup {Field}, NEW scope \in Int,
           NEW r \in Mark, NEW onto \in Stacks, Push(k, scope, r, onto),
           k \in {"label"} \X Name <=> onto = "label",
           onto = "global" /\ k \in Key => head[k] = NULL \/ stack["local"] = <<>>
    PROVE  TableInv'
  <1> DEFINE new == Malloc
             rec == [v |-> k, sym_scope |-> scope, r |-> r,
                     prev_tok |-> IF k \in Key THEN head[k] ELSE NULL]
  <1>1. new \in Syms /\ new \notin DOMAIN sym
    BY MallocIsNew DEF TableInv, Push
  <1>2. /\ DOMAIN sym' = DOMAIN sym \cup {new}
        /\ \A i \in DOMAIN sym : sym'[i] = sym[i]
        /\ sym'[new] = rec
    BY <1>1 DEF Push, Linked
  <1>3. /\ stack' \in [Stacks -> Seq(Syms)]
        /\ \A s \in Stacks : stack'[s] = IF s = onto THEN Append(stack[s], new)
                                                     ELSE stack[s]
    BY <1>1 DEF Push, Linked, TableInv, TableTypeOK
  <1> HIDE DEF new
  <1>t. PICK top \in Nat : top = Len(stack[onto]) + 1
    BY DEF TableInv, TableTypeOK
  <1>4. \A s \in Stacks :
            /\ Places(s) \subseteq Nat /\ Len(stack[s]) \in Nat
            /\ Places(s)' = IF s = onto THEN Places(s) \cup {top}
                                        ELSE Places(s)
            /\ \A n \in Places(s) : stack'[s][n] = stack[s][n] /\ V(s, n)' = V(s, n)
    <2>1. SUFFICES ASSUME NEW s \in Stacks
                   PROVE  /\ Places(s) \subseteq Nat /\ Len(stack[s]) \in Nat
                          /\ Places(s)' = IF s = onto THEN Places(s) \cup {top}
                                                      ELSE Places(s)
                          /\ \A n \in Places(s) : stack'[s][n] = stack[s][n] /\ V(s, n)' = V(s, n)
      BY Zenon
    <2>2. stack[s] \in Seq(Syms) /\ Len(stack[s]) \in Nat /\ Places(s) \subseteq Nat
      BY DEF TableInv, TableTypeOK, Places
    <2>3. /\ Places(s)' = IF s = onto THEN Places(s) \cup {top}
                                      ELSE Places(s)
          /\ \A n \in Places(s) : stack'[s][n] = stack[s][n]
      <3>1. CASE s = onto
        <4>1. /\ Len(stack'[s]) = Len(stack[s]) + 1
              /\ \A n \in 1 .. Len(stack[s]) : stack'[s][n] = stack[s][n]
          <5>1. PICK q \in Seq(Syms) : q = stack[s]
            BY <2>2
          <5>2. /\ Len(Append(q, new)) = Len(q) + 1
                /\ \A n \in 1 .. Len(q) : Append(q, new)[n] = q[n]
            BY <1>1, AppendProperties
          <5>3. stack'[s] = Append(q, new)
            BY <5>1, <1>3, <3>1
          <5>4. QED
            BY <5>1, <5>2, <5>3
        <4>2. QED
          BY <4>1, <2>2, <3>1, <1>t DEF Places
      <3>2. CASE s # onto
        BY <3>2, <1>3 DEF Places
      <3>3. QED
        BY <3>1, <3>2
    <2>4. \A n \in Places(s) : stack[s][n] \in DOMAIN sym
      BY DEF TableInv, PlaceInv
    <2>5. QED
      BY <1>2, <2>2, <2>3, <2>4 DEF V
  <1>5. stack'[onto][top] = new /\ V(onto, top)' = k
    <2>1. stack[onto] \in Seq(Syms)
      BY DEF TableInv, TableTypeOK
    <2>2. stack'[onto][top] = new
      BY <1>1, <1>3, <1>t, <2>1, AppendProperties
    <2>3. QED
      BY <2>2, <1>2 DEF V
  <1>6. TableTypeOK'
    <2>1. rec \in SymType
      BY BoundsAssumption DEF SymType, TableInv, TableTypeOK, NULL
    <2>2. sym' \in [DOMAIN sym' -> SymType]
      <3>1. sym' = [i \in DOMAIN sym' |-> sym'[i]]
        BY DEF Push, Linked
      <3>2. \A i \in DOMAIN sym' : sym'[i] \in SymType
        BY <1>2, <2>1 DEF TableInv, TableTypeOK
      <3>3. QED
        BY <3>1, <3>2, Zenon
    <2>3. head' \in [Key -> 0 .. MaxSyms]
      BY <1>1 DEF Push, Linked, TableInv, TableTypeOK, Syms, new
    <2>4. QED
      BY <2>2, <2>3, <1>3 DEF TableTypeOK
  <1>7. PlaceInv'
    <2>1. (\A s \in Stacks : \A n \in Places(s) : stack[s][n] \in DOMAIN sym)'
      BY <1>2, <1>4, <1>5 DEF TableInv, PlaceInv
    <2>2. (\A i \in DOMAIN sym : \E s \in Stacks : \E n \in Places(s) : i = stack[s][n])'
      BY <1>2, <1>4, <1>5 DEF TableInv, PlaceInv
    <2>3. (\A s, t \in Stacks : \A m \in Places(s), n \in Places(t) :
               stack[s][m] = stack[t][n] => s = t /\ m = n)'
      <3>1. \A s, t \in Stacks : \A m \in Places(s), n \in Places(t) :
                /\ stack[s][m] = stack[t][n] => s = t /\ m = n
                /\ stack[s][m] # new
        BY <1>1 DEF TableInv, PlaceInv
      <3>2. QED
        BY <3>1, <1>4, <1>5
    <2>4. (\A s \in Stacks : \A n \in Places(s) :
               V(s, n) \in {"label"} \X Name <=> s = "label")'
      <3>1. \A s \in Stacks : \A n \in Places(s) :
                V(s, n)' \in {"label"} \X Name <=> s = "label"
        BY <1>4 DEF TableInv, PlaceInv
      <3>2. V(onto, top)' \in {"label"} \X Name <=> onto = "label"
        BY <1>5
      <3>3. \A s \in Stacks : \A n \in Places(s)' :
                n \in Places(s) \/ (s = onto /\ n = top)
        BY <1>4
      <3>4. QED
        BY <3>1, <3>2, <3>3
    <2>5. QED
      BY <2>1, <2>2, <2>3, <2>4 DEF PlaceInv
  <1>8. HidesInv'
    <2>1. (\A j \in Key : head[j] # NULL => \E i \in DOMAIN sym : sym[i].v = j)'
      <3>1. \A j \in Key : j = k \/ head'[j] = head[j]
        BY DEF Push, Linked, TableInv, TableTypeOK
      <3>2. \A j \in Key : head[j] # NULL => \E i \in DOMAIN sym : sym'[i].v = j
        BY <1>2 DEF TableInv, HidesInv
      <3>3. sym'[new].v = k
        BY <1>2
      <3>4. QED
        BY <3>1, <3>2, <3>3, <1>2
    <2>2. ASSUME NEW s \in Stacks, NEW n \in Places(s), Lowest(s, n)'
          PROVE  sym'[stack'[s][n]].prev_tok = NULL
      <3>1. Lowest(s, n)
        <4>1. "global" \in Stacks
          BY DEF Stacks
        <4>2. \A m \in 1 .. (n - 1) : m \in Places(s)
          BY DEF Places, TableInv, TableTypeOK
        <4>3. QED
          BY <2>2, <1>4, <4>1, <4>2 DEF Lowest
      <3>2. QED
        BY <3>1, <1>2, <1>4 DEF TableInv, HidesInv, PlaceInv
    <2>3. ASSUME Lowest(onto, top)'
          PROVE  sym'[new].prev_tok = NULL
      <3>1. CASE k \notin Key
        BY <3>1, <1>2
      <3>2. CASE k \in Key /\ head[k] # NULL
        <4>1. PICK i \in DOMAIN sym : sym[i].v = k
          BY <3>2 DEF TableInv, HidesInv
        <4>2a. PICK s \in Stacks : \E n \in Places(s) : i = stack[s][n]
          BY DEF TableInv, PlaceInv
        <4>2. PICK n \in Places(s) : i = stack[s][n]
          BY <4>2a
        <4>3. V(s, n) = k
          BY <4>1, <4>2 DEF V
        <4>4. s = "label" <=> onto = "label"
          BY <4>3 DEF TableInv, PlaceInv
        <4>5. s # onto
          <5>1. ASSUME s = onto PROVE FALSE
            <6>1. n \in 1 .. (top - 1)
              BY <5>1, <1>4, <1>t DEF Places
            <6>2. V(onto, n)' = k
              BY <5>1, <4>3, <1>4
            <6>3. QED
              BY <6>1, <6>2, <2>3, <1>5 DEF Lowest
          <5>2. QED
            BY <5>1
        <4>6. CASE onto = "global"
          <5>1. s = "local" /\ stack["local"] = <<>>
            BY <4>4, <4>5, <4>6, <3>2 DEF Stacks
          <5>2. QED
            BY <5>1 DEF Places
        <4>7. CASE onto = "local"
          <5>1. s = "global"
            BY <4>4, <4>5, <4>7 DEF Stacks
          <5>2. n \in Places("global")' /\ V("global", n)' = k
            BY <5>1, <4>3, <4>7, <1>4 DEF Stacks
          <5>3. QED
            BY <5>2, <2>3, <1>5, <4>7 DEF Lowest
        <4>8. QED
          BY <4>4, <4>5, <4>6, <4>7 DEF Stacks
      <3>3. QED
        BY <3>1, <3>2, <1>2
    <2>4. QED
      BY <2>1, <2>2, <2>3, <1>4, <1>5 DEF HidesInv
  <1>9. QED
    BY <1>6, <1>7, <1>8 DEF TableInv

-----------------------------------------------------------------------------
(* Pop                                                                     *)

\* Stacks that are cut, with what was above the cut freed and out of the table.
LEMMA CutStep ==
    ASSUME TableInv, NEW keep \in [Stacks -> Nat],
           \A s \in Stacks : keep[s] <= Len(stack[s]),
           keep["global"] = Len(stack["global"]) \/ keep["local"] = 0,
           stack' \in [Stacks -> Seq(Syms)],
           \A s \in Stacks : /\ Len(stack'[s]) = keep[s]
                             /\ \A n \in 1 .. keep[s] : stack'[s][n] = stack[s][n],
           sym' = [i \in DOMAIN sym' |-> sym'[i]],
           \A s \in Stacks : \A n \in Places(s) :
               stack[s][n] \in DOMAIN sym' <=> n <= keep[s],
           \A i \in DOMAIN sym' : i \in DOMAIN sym /\ sym'[i] = sym[i],
           head' \in [Key -> 0 .. MaxSyms],
           \A k \in Key : head'[k] # NULL =>
               \E s \in Stacks : \E n \in 1 .. keep[s] : V(s, n) = k
    PROVE  TableInv'
  <1>1. \A s \in Stacks :
            /\ Places(s)' = 1 .. keep[s] /\ Places(s)' \subseteq Places(s)
            /\ \A n \in Places(s)' : /\ stack'[s][n] = stack[s][n]
                                      /\ stack[s][n] \in DOMAIN sym'
                                      /\ V(s, n)' = V(s, n)
    <2>1. ASSUME NEW s \in Stacks
          PROVE  /\ Places(s)' = 1 .. keep[s] /\ Places(s)' \subseteq Places(s)
                 /\ \A n \in Places(s)' : n <= keep[s]
      <3>1. Len(stack[s]) \in Nat /\ keep[s] \in Nat
        BY DEF TableInv, TableTypeOK
      <3>2. QED
        BY <3>1 DEF Places
    <2>2. QED
      BY <2>1 DEF V
  <1>2. TableTypeOK'
    <2>1. \A i \in DOMAIN sym' : sym'[i] \in SymType
      BY DEF TableInv, TableTypeOK
    <2>2. sym' \in [DOMAIN sym' -> SymType]
      BY <2>1, Zenon
    <2>3. QED
      BY <2>2 DEF TableTypeOK
  <1>3. PlaceInv'
    <2>1. (\A s \in Stacks : \A n \in Places(s) : stack[s][n] \in DOMAIN sym)'
      BY <1>1
    <2>2. ASSUME NEW i \in DOMAIN sym'
          PROVE  \E s \in Stacks : \E n \in Places(s)' : i = stack'[s][n]
      <3>1. PICK s \in Stacks : \E n \in Places(s) : i = stack[s][n]
        BY DEF TableInv, PlaceInv
      <3>2. PICK n \in Places(s) : i = stack[s][n]
        BY <3>1
      <3>3. n \in 1 .. keep[s]
        BY <3>2 DEF Places
      <3>4. QED
        BY <3>2, <3>3, <1>1
    <2>3. (\A s, t \in Stacks : \A m \in Places(s), n \in Places(t) :
               stack[s][m] = stack[t][n] => s = t /\ m = n)'
      BY <1>1 DEF TableInv, PlaceInv
    <2>4. (\A s \in Stacks : \A n \in Places(s) :
               V(s, n) \in {"label"} \X Name <=> s = "label")'
      <3>1. \A s \in Stacks : \A n \in Places(s) :
                V(s, n) \in {"label"} \X Name <=> s = "label"
        BY DEF TableInv, PlaceInv
      <3>2. QED
        BY <3>1, <1>1
    <2>5. QED
      BY <2>1, <2>2, <2>3, <2>4 DEF PlaceInv
  <1>4. HidesInv'
    <2>1. ASSUME NEW k \in Key, head'[k] # NULL
          PROVE  \E i \in DOMAIN sym' : sym'[i].v = k
      <3>1. PICK s \in Stacks : \E n \in 1 .. keep[s] : V(s, n) = k
        BY <2>1
      <3>2. PICK n \in Places(s)' : V(s, n) = k
        BY <3>1, <1>1
      <3>3. QED
        BY <3>2, <1>1 DEF V
    <2>2. ASSUME NEW s \in Stacks, NEW n \in Places(s)', Lowest(s, n)'
          PROVE  sym'[stack'[s][n]].prev_tok = NULL
      <3>1. Lowest(s, n)
        <4>1. \A m \in 1 .. (n - 1) : V(s, m) # V(s, n)
          <5>1. \A m \in 1 .. (n - 1) : m \in Places(s)'
            BY <1>1
          <5>2. QED
            BY <5>1, <2>2, <1>1 DEF Lowest
        <4>2. ASSUME s = "local", NEW m \in Places("global")
              PROVE  V("global", m) # V(s, n)
          <5>1. keep["global"] = Len(stack["global"])
            BY <4>2, <1>1, 1 \notin 1 .. 0
          <5>2. m \in Places("global")' /\ "global" \in Stacks
            BY <5>1, <1>1, <4>2 DEF Places, Stacks
          <5>3. QED
            BY <5>2, <4>2, <2>2, <1>1 DEF Lowest
        <4>3. QED
          BY <4>1, <4>2 DEF Lowest
      <3>2. QED
        BY <3>1, <1>1 DEF TableInv, HidesInv
    <2>3. QED
      BY <2>1, <2>2 DEF HidesInv
  <1>5. QED
    BY <1>2, <1>3, <1>4 DEF TableInv

\* A stack cut at b: the b Syms that stay and those that are popped.
LEMMA CutAt ==
    ASSUME NEW s \in Seq(Syms), NEW b \in Nat, b <= Len(s)
    PROVE  /\ Below(s, b) \in Seq(Syms) /\ Len(Below(s, b)) = b
           /\ \A n \in 1 .. b : Below(s, b)[n] = s[n]
           /\ Above(s, b) \in Seq(Syms) /\ Len(Above(s, b)) = Len(s) - b
           /\ \A n \in 1 .. (Len(s) - b) : Above(s, b)[n] = s[b + n]
  <1>1. Len(s) \in Nat /\ \A i \in 1 .. Len(s) : s[i] \in Syms
    OBVIOUS
  <1>2. /\ SubSeq(s, 1, b) \in Seq(Syms) /\ Len(SubSeq(s, 1, b)) = b
        /\ \A n \in 1 .. b : SubSeq(s, 1, b)[n] = s[n]
    <2>1. 1 \in Int /\ b \in Int /\ \A i \in 1 .. b : s[i] \in Syms
      BY <1>1
    <2>2. /\ SubSeq(s, 1, b) \in Seq(Syms)
          /\ Len(SubSeq(s, 1, b)) = IF 1 <= b THEN b - 1 + 1 ELSE 0
          /\ \A i \in 1 .. (b - 1 + 1) : SubSeq(s, 1, b)[i] = s[1 + i - 1]
      BY <2>1, SubSeqProperties
    <2>3. QED
      BY <2>2
  <1>3. /\ SubSeq(s, b + 1, Len(s)) \in Seq(Syms)
        /\ Len(SubSeq(s, b + 1, Len(s))) = Len(s) - b
        /\ \A n \in 1 .. (Len(s) - b) : SubSeq(s, b + 1, Len(s))[n] = s[b + n]
    <2>1. b + 1 \in Int /\ Len(s) \in Int /\ \A i \in b + 1 .. Len(s) : s[i] \in Syms
      BY <1>1
    <2>2. /\ SubSeq(s, b + 1, Len(s)) \in Seq(Syms)
          /\ Len(SubSeq(s, b + 1, Len(s))) =
                 IF b + 1 <= Len(s) THEN Len(s) - (b + 1) + 1 ELSE 0
          /\ \A i \in 1 .. (Len(s) - (b + 1) + 1) :
                 SubSeq(s, b + 1, Len(s))[i] = s[b + 1 + i - 1]
      BY <2>1, SubSeqProperties
    <2>3. QED
      BY <2>2, <1>1
  <1>4. QED
    BY <1>2, <1>3 DEF Below, Above

\* What is freed is what was popped; the rest of the memory is unchanged.
LEMMA Freeing ==
    ASSUME NEW S, NEW popped \in Seq(S), sym' = Freed(Range(popped))
    PROVE  /\ sym' = [i \in DOMAIN sym' |-> sym'[i]]
           /\ \A i \in DOMAIN sym' : i \in DOMAIN sym /\ sym'[i] = sym[i]
           /\ \A i : i \in DOMAIN sym' <=>
                  i \in DOMAIN sym /\ \A n \in 1 .. Len(popped) : i # popped[n]
  <1>1. DOMAIN popped = 1 .. Len(popped)
    OBVIOUS
  <1>2. \A i : i \in Range(popped) <=> \E n \in 1 .. Len(popped) : i = popped[n]
    BY <1>1 DEF Range
  <1>3. sym' = [i \in DOMAIN sym' |-> sym'[i]]
    BY DEF Freed, RestrictDomain, Restrict
  <1>4. QED
    BY <1>2, <1>3, FreedIs

\* The end of a block: the local Syms above where it began.
LEMMA PopBlock ==
    ASSUME TableInv, NEW base \in Nat, base <= Len(stack["local"]),
           NEW popped, popped = Above(stack["local"], base),
           sym' = Freed(Range(popped)), head' = Unlinked(head, popped),
           stack' = [stack EXCEPT !["local"] = Below(@, base)]
    PROVE  TableInv'
  <1> DEFINE keep == [s \in Stacks |-> IF s = "local" THEN base ELSE Len(stack[s])]
  <1>1. /\ "local" \in Stacks /\ "global" \in Stacks /\ "local" # "global"
        /\ \A s \in Stacks : stack[s] \in Seq(Syms) /\ Len(stack[s]) \in Nat
    BY DEF Stacks, TableInv, TableTypeOK
  <1>2. /\ Below(stack["local"], base) \in Seq(Syms)
        /\ Len(Below(stack["local"], base)) = base
        /\ \A n \in 1 .. base : Below(stack["local"], base)[n] = stack["local"][n]
        /\ popped \in Seq(Syms) /\ Len(popped) = Len(stack["local"]) - base
        /\ \A n \in 1 .. Len(popped) : popped[n] = stack["local"][base + n]
    <2>1. PICK s \in Seq(Syms) : s = stack["local"]
      BY <1>1
    <2>2. base <= Len(s)
      BY <2>1
    <2>3. /\ Below(s, base) \in Seq(Syms) /\ Len(Below(s, base)) = base
          /\ \A n \in 1 .. base : Below(s, base)[n] = s[n]
          /\ Above(s, base) \in Seq(Syms) /\ Len(Above(s, base)) = Len(s) - base
          /\ \A n \in 1 .. (Len(s) - base) : Above(s, base)[n] = s[base + n]
      BY <2>2, CutAt
    <2>4. popped = Above(s, base)
      BY <2>1
    <2>5. QED
      BY <2>1, <2>3, <2>4
  <1>20. Len(popped) \in Nat
    BY <1>1, <1>2
  <1>21. ASSUME NEW m \in 1 .. Len(popped)
         PROVE  base + m \in Places("local") /\ popped[m] = stack["local"][base + m]
    <2>1. PICK q \in Nat, l \in Nat :
              q = Len(popped) /\ l = Len(stack["local"]) /\ q = l - base
      BY <1>1, <1>2, <1>20
    <2>2. m \in 1 .. q
      BY <2>1
    <2>3. base + m \in 1 .. l
      BY <2>1, <2>2
    <2>4. QED
      BY <1>2, <2>1, <2>3 DEF Places
  <1>3. keep \in [Stacks -> Nat] /\ \A s \in Stacks : keep[s] <= Len(stack[s])
    BY <1>1
  <1>4. /\ stack' \in [Stacks -> Seq(Syms)]
        /\ \A s \in Stacks : /\ Len(stack'[s]) = keep[s]
                              /\ \A n \in 1 .. keep[s] : stack'[s][n] = stack[s][n]
    <2>1. stack'["local"] = Below(stack["local"], base)
      BY <1>1 DEF TableInv, TableTypeOK
    <2>2. \A s \in Stacks : s # "local" => stack'[s] = stack[s]
      BY DEF TableInv, TableTypeOK
    <2>3. stack' \in [Stacks -> Seq(Syms)]
      BY <1>2 DEF TableInv, TableTypeOK
    <2>4. QED
      BY <2>1, <2>2, <2>3, <1>2
  <1>5. /\ sym' = [i \in DOMAIN sym' |-> sym'[i]]
        /\ \A i \in DOMAIN sym' : i \in DOMAIN sym /\ sym'[i] = sym[i]
        /\ \A i : i \in DOMAIN sym' <=>
               i \in DOMAIN sym /\ \A n \in 1 .. Len(popped) : i # popped[n]
    <2>1. popped \in Seq(Syms)
      BY <1>2
    <2>2. QED
      BY <2>1, Freeing
  <1>6. ASSUME NEW s \in Stacks, NEW n \in Places(s)
        PROVE  stack[s][n] \in DOMAIN sym' <=> n <= keep[s]
    <2>0. stack[s][n] \in DOMAIN sym
      BY DEF TableInv, PlaceInv
    <2>1. stack[s][n] \in DOMAIN sym /\ n \in Nat /\ n <= Len(stack[s])
      BY <2>0, <1>1 DEF Places
    <2>2. ASSUME NEW m \in 1 .. Len(popped)
          PROVE  stack[s][n] = popped[m] <=> s = "local" /\ n = base + m
      <3>1. base + m \in Places("local") /\ popped[m] = stack["local"][base + m]
        BY <1>21
      <3>2. QED
        BY <3>1, <1>1 DEF TableInv, PlaceInv
    <2>3. CASE s # "local"
      BY <2>1, <2>2, <2>3, <1>5
    <2>4. CASE s = "local" /\ n <= base
      BY <2>1, <2>2, <2>4, <1>5
    <2>5. CASE s = "local" /\ ~ (n <= base)
      <3>1. n - base \in 1 .. Len(popped) /\ n = base + (n - base)
        BY <2>1, <2>5, <1>1, <1>2
      <3>2. stack[s][n] = popped[n - base]
        BY <3>1, <2>2, <2>5
      <3>3. QED
        BY <3>1, <3>2, <2>5, <1>5
    <2>6. QED
      BY <2>3, <2>4, <2>5
  <1>7. ASSUME NEW k \in Key, head'[k] # NULL
        PROVE  \E s \in Stacks : \E n \in 1 .. keep[s] : V(s, n) = k
    <2>1. CASE (\A n \in 1 .. Len(popped) : sym[popped[n]].v # k) /\ head'[k] = head[k]
      <3>1. PICK i \in DOMAIN sym : sym[i].v = k
        BY <2>1, <1>7 DEF TableInv, HidesInv
      <3>2. PICK s \in Stacks : \E n \in Places(s) : i = stack[s][n]
        BY DEF TableInv, PlaceInv
      <3>3. PICK n \in Places(s) : i = stack[s][n]
        BY <3>2
      <3>4. i \in DOMAIN sym'
        BY <3>1, <2>1, <1>5
      <3>5. n <= keep[s] /\ n \in Nat /\ n >= 1 /\ keep[s] \in Nat
        BY <3>3, <3>4, <1>1, <1>3, <1>6 DEF Places
      <3>6. QED
        BY <3>1, <3>3, <3>5 DEF V
    <2>2. ASSUME NEW n \in 1 .. Len(popped), sym[popped[n]].v = k,
                 \A m \in 1 .. (n - 1) : sym[popped[m]].v # k,
                 head'[k] = sym[popped[n]].prev_tok
          PROVE  \E s \in Stacks : \E m \in 1 .. keep[s] : V(s, m) = k
      <3>1. SUFFICES ASSUME \A s \in Stacks : \A m \in 1 .. keep[s] : V(s, m) # k
                     PROVE  FALSE
        OBVIOUS
      <3>2. base + n \in Places("local") /\ popped[n] = stack["local"][base + n]
        BY <1>21
      <3>3. V("local", base + n) = k
        BY <3>2, <2>2 DEF V
      <3>4. ASSUME NEW m \in 1 .. (base + n - 1) PROVE V("local", m) # k
        <4>1. CASE m <= base
          BY <3>1, <4>1, <1>1
        <4>2. CASE ~ (m <= base)
          <5>1. PICK q \in Nat : q = Len(popped)
            BY <1>20
          <5>2. n \in 1 .. q
            BY <5>1
          <5>3. /\ m - base \in 1 .. (n - 1) /\ m - base \in 1 .. q
                /\ base + (m - base) = m
            BY <4>2, <5>2
          <5>4. popped[m - base] = stack["local"][m]
            BY <1>21, <5>1, <5>3
          <5>5. QED
            BY <2>2, <5>3, <5>4 DEF V
        <4>3. QED
          BY <4>1, <4>2
      <3>5. \A m \in Places("global") : V("global", m) # k
        BY <3>1, <1>1 DEF Places
      <3>6. Lowest("local", base + n)
        BY <3>3, <3>4, <3>5 DEF Lowest
      <3>7. QED
        BY <3>2, <3>6, <2>2, <1>1, <1>7 DEF TableInv, HidesInv
    <2>3. popped \in Seq(Syms)
      BY <1>2
    <2>4. \/ /\ \A n \in 1 .. Len(popped) : sym[popped[n]].v # k
             /\ head'[k] = head[k]
          \/ \E n \in 1 .. Len(popped) :
                 /\ sym[popped[n]].v = k
                 /\ \A m \in 1 .. (n - 1) : sym[popped[m]].v # k
                 /\ head'[k] = sym[popped[n]].prev_tok
      <3>1. PICK h : h = Unlinked(head, popped)
        OBVIOUS
      <3>2. \/ /\ \A n \in 1 .. Len(popped) : sym[popped[n]].v # k
               /\ h[k] = head[k]
            \/ \E n \in 1 .. Len(popped) :
                   /\ sym[popped[n]].v = k
                   /\ \A m \in 1 .. (n - 1) : sym[popped[m]].v # k
                   /\ h[k] = sym[popped[n]].prev_tok
        BY <2>3, <3>1, UnlinkedIs
      <3>3. QED
        BY <3>1, <3>2
    <2>5. QED
      BY <2>1, <2>2, <2>4
  <1>8. head' \in [Key -> 0 .. MaxSyms]
    <2>1. ASSUME NEW n \in 1 .. Len(popped) PROVE popped[n] \in DOMAIN sym
      <3>1. base + n \in Places("local") /\ popped[n] = stack["local"][base + n]
        BY <1>21
      <3>2. QED
        BY <3>1, <1>1 DEF TableInv, PlaceInv
    <2>2. TableTypeOK /\ head \in [Key -> 0 .. MaxSyms]
      BY DEF TableInv, TableTypeOK
    <2>3. QED
      BY <2>1, <2>2, <1>2, UnlinkedType
  <1>9. keep["global"] = Len(stack["global"])
    BY <1>1
  <1> HIDE DEF keep
  <1>10. QED
    BY <1>3, <1>4, <1>5, <1>6, <1>7, <1>8, <1>9, CutStep

\* The end of a function: all that is local, and its labels.
LocalThenLabels(popped, n0, n1) ==
    /\ Len(stack["local"]) = n0 /\ Len(stack["label"]) = n1
    /\ Len(popped) = n0 + n1
    /\ \A n \in 1 .. n0 : popped[n] = stack["local"][n]
    /\ \A n \in 1 .. n1 : popped[n0 + n] = stack["label"][n]

\* The end of a function pops the local stack and the labels, and keeps TableInv.
LEMMA PopFunction ==
    ASSUME TableInv, NEW popped \in Seq(Syms), NEW n0 \in Nat, NEW n1 \in Nat,
           LocalThenLabels(popped, n0, n1),
           sym' = Freed(Range(popped)), head' = Unlinked(head, popped),
           stack' = [s \in Stacks |-> IF s = "global" THEN stack[s] ELSE <<>>]
    PROVE  TableInv'
  <1> DEFINE keep == [s \in Stacks |-> IF s = "global" THEN Len(stack[s]) ELSE 0]
  <1>1. /\ "local" \in Stacks /\ "global" \in Stacks /\ "label" \in Stacks
        /\ \A s \in Stacks : s \in {"global", "local", "label"}
        /\ \A s \in Stacks : stack[s] \in Seq(Syms) /\ Len(stack[s]) \in Nat
    BY DEF Stacks, TableInv, TableTypeOK
  <1>2. /\ Places("local") = 1 .. n0 /\ Places("label") = 1 .. n1
        /\ Len(popped) = n0 + n1
        /\ \A n \in 1 .. n0 : popped[n] = stack["local"][n]
        /\ \A n \in 1 .. n1 : popped[n0 + n] = stack["label"][n]
    BY DEF Places, LocalThenLabels
  <1>3. keep \in [Stacks -> Nat] /\ \A s \in Stacks : keep[s] <= Len(stack[s])
    BY <1>1
  <1>4. /\ stack' \in [Stacks -> Seq(Syms)]
        /\ \A s \in Stacks : /\ Len(stack'[s]) = keep[s]
                              /\ \A n \in 1 .. keep[s] : stack'[s][n] = stack[s][n]
    <2>1. stack'["local"] = <<>> /\ stack'["label"] = <<>>
      BY <1>1 DEF TableInv, TableTypeOK
    <2>2. stack'["global"] = stack["global"]
      BY <1>1 DEF TableInv, TableTypeOK
    <2>3. stack' \in [Stacks -> Seq(Syms)]
      <3>1. <<>> \in Seq(Syms)
        OBVIOUS
      <3>2. QED
        BY <3>1 DEF TableInv, TableTypeOK
    <2>4. QED
      BY <2>1, <2>2, <2>3, <1>1
  <1>5. /\ sym' = [i \in DOMAIN sym' |-> sym'[i]]
        /\ \A i \in DOMAIN sym' : i \in DOMAIN sym /\ sym'[i] = sym[i]
        /\ \A i : i \in DOMAIN sym' <=>
               i \in DOMAIN sym /\ \A n \in 1 .. Len(popped) : i # popped[n]
    BY Freeing
  <1>6. ASSUME NEW n \in 1 .. Len(popped)
        PROVE  \/ n \in Places("local") /\ popped[n] = stack["local"][n]
               \/ \E m \in Places("label") :
                      n = n0 + m /\ popped[n] = stack["label"][m]
    <2>1. CASE n <= n0
      BY <2>1, <1>2
    <2>2. CASE ~ (n <= n0)
      <3>1. n - n0 \in 1 .. n1 /\ n = n0 + (n - n0)
        BY <2>2, <1>2
      <3>2. PICK j \in 1 .. n1 : n = n0 + j
        BY <3>1
      <3>3. QED
        BY <3>2, <1>2
    <2>3. QED
      BY <2>1, <2>2
  <1>7. ASSUME NEW s \in Stacks, NEW n \in Places(s)
        PROVE  stack[s][n] \in DOMAIN sym' <=> n <= keep[s]
    <2>0. stack[s][n] \in DOMAIN sym
      BY DEF TableInv, PlaceInv
    <2>1. stack[s][n] \in DOMAIN sym /\ n \in Nat /\ n >= 1 /\ n <= Len(stack[s])
      BY <2>0, <1>1 DEF Places
    <2>2. CASE s = "global"
      <3>1. \A m \in 1 .. Len(popped) : stack[s][n] # popped[m]
        <4>1. ASSUME NEW m \in 1 .. Len(popped) PROVE stack[s][n] # popped[m]
          <5>1. CASE m \in Places("local") /\ popped[m] = stack["local"][m]
            BY <5>1, <2>2, <1>1 DEF TableInv, PlaceInv
          <5>2. CASE \E j \in Places("label") : popped[m] = stack["label"][j]
            BY <5>2, <2>2, <1>1 DEF TableInv, PlaceInv
          <5>3. QED
            BY <5>1, <5>2, <1>6
        <4>2. QED
          BY <4>1
      <3>2. QED
        BY <3>1, <2>1, <2>2, <1>5
    <2>3. CASE s = "local"
      <3>1. n \in 1 .. Len(popped) /\ popped[n] = stack[s][n] /\ n >= 1
        BY <2>1, <2>3, <1>2
      <3>2. QED
        BY <3>1, <2>1, <2>3, <1>5
    <2>4. CASE s = "label"
      <3>1. n0 + n \in 1 .. Len(popped) /\ popped[n0 + n] = stack[s][n] /\ n >= 1
        BY <2>1, <2>4, <1>2
      <3>2. QED
        BY <3>1, <2>1, <2>4, <1>5
    <2>5. QED
      BY <2>2, <2>3, <2>4, <1>1
  <1>8. ASSUME NEW k \in Key, head'[k] # NULL
        PROVE  \E s \in Stacks : \E n \in 1 .. keep[s] : V(s, n) = k
    <2>1. CASE (\A n \in 1 .. Len(popped) : sym[popped[n]].v # k) /\ head'[k] = head[k]
      <3>1. PICK i \in DOMAIN sym : sym[i].v = k
        BY <2>1, <1>8 DEF TableInv, HidesInv
      <3>2. PICK s \in Stacks : \E n \in Places(s) : i = stack[s][n]
        BY DEF TableInv, PlaceInv
      <3>3. PICK n \in Places(s) : i = stack[s][n]
        BY <3>2
      <3>4. i \in DOMAIN sym'
        BY <3>1, <2>1, <1>5
      <3>5. n <= keep[s] /\ n \in Nat /\ n >= 1 /\ keep[s] \in Nat
        BY <3>3, <3>4, <1>1, <1>3, <1>7 DEF Places
      <3>6. QED
        BY <3>1, <3>3, <3>5 DEF V
    <2>2. ASSUME NEW n \in 1 .. Len(popped), sym[popped[n]].v = k,
                 \A m \in 1 .. (n - 1) : sym[popped[m]].v # k,
                 head'[k] = sym[popped[n]].prev_tok
          PROVE  \E s \in Stacks : \E m \in 1 .. keep[s] : V(s, m) = k
      <3>1. SUFFICES ASSUME \A s \in Stacks : \A m \in 1 .. keep[s] : V(s, m) # k
                     PROVE  FALSE
        OBVIOUS
      <3>2. \A m \in Places("global") : V("global", m) # k
        BY <3>1, <1>1 DEF Places
      <3>3. CASE n \in Places("local") /\ popped[n] = stack["local"][n]
        <4>1. ASSUME NEW m \in 1 .. (n - 1) PROVE V("local", m) # k
          <5>1. m \in 1 .. n0
            BY <3>3, <1>2
          <5>2. QED
            BY <5>1, <2>2, <1>2 DEF V
        <4>2. Lowest("local", n)
          BY <4>1, <3>2, <3>3, <2>2 DEF Lowest, V
        <4>3. QED
          BY <4>2, <3>3, <2>2, <1>1, <1>8 DEF TableInv, HidesInv
      <3>4. ASSUME NEW j \in Places("label"), n = n0 + j, popped[n] = stack["label"][j]
            PROVE  FALSE
        <4>1. ASSUME NEW m \in 1 .. (j - 1) PROVE V("label", m) # k
          <5>1. m \in 1 .. n1 /\ n0 + m \in 1 .. (n - 1)
            BY <3>4, <1>2
          <5>2. QED
            BY <5>1, <2>2, <1>2 DEF V
        <4>2. Lowest("label", j)
          BY <4>1, <3>4, <2>2 DEF Lowest, V
        <4>3. QED
          BY <4>2, <3>4, <2>2, <1>1, <1>8 DEF TableInv, HidesInv
      <3>5. QED
        BY <3>3, <3>4, <1>6
    <2>4. \/ /\ \A n \in 1 .. Len(popped) : sym[popped[n]].v # k
             /\ head'[k] = head[k]
          \/ \E n \in 1 .. Len(popped) :
                 /\ sym[popped[n]].v = k
                 /\ \A m \in 1 .. (n - 1) : sym[popped[m]].v # k
                 /\ head'[k] = sym[popped[n]].prev_tok
      BY UnlinkedIs
    <2>5. QED
      BY <2>1, <2>2, <2>4
  <1>9. head' \in [Key -> 0 .. MaxSyms]
    <2>1. \A n \in 1 .. Len(popped) : popped[n] \in DOMAIN sym
      BY <1>1, <1>6 DEF TableInv, PlaceInv
    <2>2. TableTypeOK /\ head \in [Key -> 0 .. MaxSyms]
      BY DEF TableInv, TableTypeOK
    <2>3. QED
      BY <2>1, <2>2, UnlinkedType
  <1>10. keep["global"] = Len(stack["global"])
    BY <1>1
  <1> HIDE DEF keep
  <1>11. QED
    BY <1>3, <1>4, <1>5, <1>7, <1>8, <1>9, <1>10, CutStep

\* The end of a compilation: what is global, when nothing else is left.
LEMMA PopAll ==
    ASSUME TableInv, stack["local"] = <<>>, stack["label"] = <<>>, EndCompile
    PROVE  /\ sym' = Nothing /\ head' = Empty
           /\ stack'["global"] = <<>> /\ stack'["local"] = <<>> /\ stack'["label"] = <<>>
           /\ TableInv'
  <1>1. /\ stack["global"] \in Seq(Syms)
        /\ stack.global = stack["global"] /\ stack.local = <<>>
        /\ stack.label = <<>>
    BY DEF TableInv, TableTypeOK, Stacks
  <1>2. /\ stack'["global"] = <<>> /\ stack'["local"] = <<>> /\ stack'["label"] = <<>>
        /\ stack' \in [Stacks -> Seq(Syms)]
    <2>1. stack' = [NoStacks EXCEPT !["label"] = <<>>]
      BY <1>1 DEF EndCompile
    <2>2. stack' = [s \in Stacks |-> <<>>]
      <3>1. /\ stack'["global"] = <<>> /\ stack'["local"] = <<>>
            /\ stack'["label"] = <<>> /\ DOMAIN stack' = Stacks
        BY <2>1 DEF NoStacks, Stacks
      <3>2. stack' = [s \in DOMAIN stack' |-> stack'[s]]
        BY <2>1 DEF NoStacks
      <3>3. QED
        BY <3>1, <3>2 DEF Stacks
    <2>3. <<>> \in Seq(Syms)
      OBVIOUS
    <2>4. QED
      BY <2>2, <2>3 DEF Stacks
  <1>3. \A s \in Stacks : Places(s)' = {}
    BY <1>2 DEF Places, Stacks
  <1>4. sym' = Nothing
    <2>1. stack.global \o stack.local = stack["global"]
      BY <1>1, ConcatEmptySeq
    <2>2. sym' = Freed(Range(stack["global"]))
      BY <2>1 DEF EndCompile
    <2>3. \A i \in DOMAIN sym : \E n \in 1 .. Len(stack["global"]) : i = stack["global"][n]
      <3>1. \A i \in DOMAIN sym : \E s \in Stacks : \E n \in Places(s) : i = stack[s][n]
        BY DEF TableInv, PlaceInv
      <3>2. Places("local") = {} /\ Places("label") = {}
        BY DEF Places
      <3>3. QED
        BY <3>1, <3>2 DEF Places, Stacks
    <2>4. sym' = [i \in DOMAIN sym' |-> sym'[i]] /\ DOMAIN sym' = {}
      <3>1. PICK p \in Seq(Syms) : p = stack["global"]
        BY <1>1
      <3>2. sym' = Freed(Range(p))
        BY <2>2, <3>1
      <3>3. /\ sym' = [i \in DOMAIN sym' |-> sym'[i]]
            /\ \A i : i \in DOMAIN sym' <=>
                   i \in DOMAIN sym /\ \A n \in 1 .. Len(p) : i # p[n]
        BY <3>2, Freeing
      <3>4. ASSUME NEW i \in DOMAIN sym' PROVE FALSE
        <4>1. i \in DOMAIN sym /\ \A n \in 1 .. Len(p) : i # p[n]
          BY <3>3
        <4>2. QED
          BY <4>1, <3>1, <2>3
      <3>5. QED
        BY <3>3, <3>4
    <2>5. QED
      BY <2>4 DEF Nothing
  <1>5. ASSUME NEW k \in Key
        PROVE  head'[k] = NULL
    <2> DEFINE h == Unlinked(head, stack["global"])
    <2>1. h[k] = NULL
      <3>1. CASE (\A n \in 1 .. Len(stack["global"]) : V("global", n) # k) /\ h[k] = head[k]
        <4>1. \A s \in Stacks : \A n \in Places(s) : V(s, n) # k
          BY <3>1 DEF Places, Stacks
        <4>2. \A i \in DOMAIN sym : sym[i].v # k
          BY <4>1 DEF TableInv, PlaceInv, V
        <4>3. QED
          BY <4>2, <3>1 DEF TableInv, HidesInv
      <3>2. ASSUME NEW n \in 1 .. Len(stack["global"]), V("global", n) = k,
                   \A m \in 1 .. (n - 1) : V("global", m) # k,
                   h[k] = sym[stack["global"][n]].prev_tok
            PROVE  h[k] = NULL
        <4>1. Lowest("global", n) /\ n \in Places("global") /\ "global" \in Stacks
          BY <3>2 DEF Lowest, Places, Stacks
        <4>2. QED
          BY <4>1, <3>2 DEF TableInv, HidesInv
      <3>3. \/ /\ \A n \in 1 .. Len(stack["global"]) : V("global", n) # k
               /\ h[k] = head[k]
            \/ \E n \in 1 .. Len(stack["global"]) :
                   /\ V("global", n) = k
                   /\ \A m \in 1 .. (n - 1) : V("global", m) # k
                   /\ h[k] = sym[stack["global"][n]].prev_tok
        BY <1>1, UnlinkedIs DEF V
      <3>4. QED
        BY <3>1, <3>2, <3>3
    <2> HIDE DEF h
    <2>2. head' = Unlinked(h, <<>>)
      BY <1>1 DEF EndCompile, h
    <2>3. <<>> \in Seq(Syms) /\ Len(<<>>) = 0
      OBVIOUS
    <2>4. Unlinked(h, <<>>)[k] = h[k]
      <3>1. PICK p \in Seq(Syms) : p = <<>>
        BY <2>3
      <3>2. Len(p) = 0 /\ \A n \in 1 .. Len(p) : FALSE
        BY <3>1
      <3>3. \/ /\ \A n \in 1 .. Len(p) : sym[p[n]].v # k
               /\ Unlinked(h, p)[k] = h[k]
            \/ \E n \in 1 .. Len(p) :
                   /\ sym[p[n]].v = k
                   /\ \A m \in 1 .. (n - 1) : sym[p[m]].v # k
                   /\ Unlinked(h, p)[k] = sym[p[n]].prev_tok
        BY UnlinkedIs
      <3>4. QED
        BY <3>1, <3>2, <3>3
    <2>5. QED
      BY <2>1, <2>2, <2>4
  <1>6. head' = Empty
    <2>1. head' = [k \in Key |-> head'[k]]
      BY Zenon DEF EndCompile, Unlinked
    <2>2. QED
      BY <2>1, <1>5 DEF Empty
  <1>7. TableInv'
    <2>1. TableTypeOK'
      BY <1>2, <1>4, <1>6, BoundsAssumption DEF TableTypeOK, Nothing, Empty, NULL
    <2>2. DOMAIN sym' = {} /\ \A k \in Key : head'[k] = NULL
      BY <1>4, <1>5 DEF Nothing
    <2>3. PlaceInv'
      BY <2>2, <1>3 DEF PlaceInv
    <2>4. HidesInv'
      BY <2>2, <1>3 DEF HidesInv
    <2>5. QED
      BY <2>1, <2>3, <2>4 DEF TableInv
  <1>8. QED
    BY <1>2, <1>4, <1>6, <1>7

-----------------------------------------------------------------------------
(* The steps. Those that fail leave nothing to show.                       *)

\* A Sym that is said to be complete, or defined.
LEMMA MarkStep ==
    ASSUME TableInv, NEW i, NEW r \in Mark, sym' = [sym EXCEPT ![i].r = r],
           UNCHANGED <<head, stack>>
    PROVE  TableInv'
  <1>1. /\ DOMAIN sym' = DOMAIN sym
        /\ \A j \in DOMAIN sym : /\ sym'[j] \in SymType
                                 /\ sym'[j].v = sym[j].v
                                 /\ sym'[j].prev_tok = sym[j].prev_tok
    <2>1. DOMAIN sym' = DOMAIN sym /\ \A j \in DOMAIN sym : sym[j] \in SymType
      BY DEF TableInv, TableTypeOK
    <2>2. ASSUME NEW j \in DOMAIN sym
          PROVE  /\ sym'[j] \in SymType /\ sym'[j].v = sym[j].v
                 /\ sym'[j].prev_tok = sym[j].prev_tok
      <3>1. CASE j # i
        BY <3>1, <2>1
      <3>2. CASE j = i
        <4>1. sym'[j] = [sym[j] EXCEPT !.r = r] /\ sym[j] \in SymType
          BY <3>2, <2>1
        <4>2. QED
          BY <4>1 DEF SymType
      <3>3. QED
        BY <3>1, <3>2
    <2>3. QED
      BY <2>1, <2>2
  <1>2. sym' \in [DOMAIN sym' -> SymType]
    <2>1. sym' = [j \in DOMAIN sym' |-> sym'[j]]
      OBVIOUS
    <2>2. QED
      BY <2>1, <1>1, Zenon
  <1>3. TableTypeOK'
    BY <1>2 DEF TableInv, TableTypeOK
  <1>4. \A s \in Stacks : /\ Places(s)' = Places(s) /\ stack'[s] = stack[s]
                          /\ \A n \in Places(s) : V(s, n)' = V(s, n)
    <2>1. \A s \in Stacks : \A n \in Places(s) : stack[s][n] \in DOMAIN sym
      BY DEF TableInv, PlaceInv
    <2>2. QED
      BY <2>1, <1>1 DEF Places, V
  <1>5. PlaceInv'
    <2>1. /\ (\A s \in Stacks : \A n \in Places(s) : stack[s][n] \in DOMAIN sym)'
          /\ (\A j \in DOMAIN sym : \E s \in Stacks : \E n \in Places(s) : j = stack[s][n])'
      BY <1>1, <1>4 DEF TableInv, PlaceInv
    <2>2. (\A s, q \in Stacks : \A m \in Places(s), n \in Places(q) :
               stack[s][m] = stack[q][n] => s = q /\ m = n)'
      BY <1>4 DEF TableInv, PlaceInv
    <2>3. (\A s \in Stacks : \A n \in Places(s) :
               V(s, n) \in {"label"} \X Name <=> s = "label")'
      BY <1>4 DEF TableInv, PlaceInv
    <2>4. QED
      BY <2>1, <2>2, <2>3 DEF PlaceInv
  <1>6. HidesInv'
    <2>1. (\A k \in Key : head[k] # NULL => \E j \in DOMAIN sym : sym[j].v = k)'
      BY <1>1 DEF TableInv, HidesInv
    <2>2. ASSUME NEW s \in Stacks, NEW n \in Places(s)', Lowest(s, n)'
          PROVE  sym'[stack'[s][n]].prev_tok = NULL
      <3>1. \A m \in 1 .. (n - 1) : m \in Places(s)
        BY <1>4 DEF Places, TableInv, TableTypeOK
      <3>2. Lowest(s, n)
        BY <2>2, <3>1, <1>4 DEF Lowest, Stacks
      <3>3. QED
        BY <3>2, <1>1, <1>4 DEF TableInv, PlaceInv, HidesInv
    <2>3. QED
      BY <2>1, <2>2 DEF HidesInv
  <1>7. QED
    BY <1>3, <1>5, <1>6 DEF TableInv

\* A step that leaves the table alone leaves what is said of it.
LEMMA SameTable == TableInv /\ UNCHANGED table => TableInv'
  BY DEF TableInv, TableTypeOK, PlaceInv, HidesInv, Lowest, Places, V, table

\* A block's base is a natural number.
LEMMA BlockBase ==
    ASSUME ParseInv, NEW b \in 1 .. Len(blocks)
    PROVE  blocks[b] \in [base : Nat, is_expr : BOOLEAN] /\ blocks[b].base \in Nat
  <1>1. blocks \in Seq([base : Nat, is_expr : BOOLEAN])
    BY DEF ParseInv
  <1>2. blocks[b] \in [base : Nat, is_expr : BOOLEAN]
    BY <1>1, ElementOfSeq
  <1>3. QED
    BY <1>2

\* A push onto a stack that is in use at this point of the text keeps ParseInv.
LEMMA PushParse ==
    ASSUME TableInv, ParseInv, NEW k, NEW scope, NEW r, NEW onto \in Stacks,
           Push(k, scope, r, onto), local_scope' \in {local_scope, 1}, blocks' = blocks,
           \/ pc' = pc /\ onto = "global" /\ pc \in {"file", "func"}
           \/ pc' = pc /\ onto = "local" /\ pc \in {"params", "func"}
           \/ pc' = pc /\ onto = "label" /\ pc = "func"
           \/ pc' = "params" /\ onto = "local" /\ pc = "file"
    PROVE  ParseInv'
  <1>1. Malloc \in Syms
    BY MallocIsNew DEF TableInv, Push
  <1>2. \A s \in Stacks : stack'[s] = IF s = onto THEN Append(stack[s], Malloc)
                                                 ELSE stack[s]
    BY DEF Push, Linked, TableInv, TableTypeOK
  <1>3. "local" \in Stacks /\ "label" \in Stacks /\ "global" \in Stacks
    BY DEF Stacks
  <1>4. Len(stack["local"]) \in Nat /\ Len(stack["local"]) <= Len(stack'["local"])
        /\ Len(stack'["local"]) \in Nat
    <2>1. PICK q \in Seq(Syms) : q = stack["local"]
      BY <1>3 DEF TableInv, TableTypeOK
    <2>2. Len(Append(q, Malloc)) = Len(q) + 1 /\ Len(q) \in Nat
      BY <1>1, AppendProperties
    <2>3. stack'["local"] \in {q, Append(q, Malloc)}
      BY <2>1, <1>2, <1>3
    <2>4. QED
      BY <2>1, <2>2, <2>3
  <1>5. (\A b \in 1 .. Len(blocks) : blocks[b].base <= Len(stack["local"]))'
    <2>1. ASSUME NEW b \in 1 .. Len(blocks)
          PROVE  blocks[b].base \in Nat /\ blocks[b].base <= Len(stack["local"])
      BY BlockBase DEF ParseInv
    <2>2. blocks' = blocks
      OBVIOUS
    <2>3. QED
      BY <2>1, <2>2, <1>4
  <1>6. QED
    BY <1>2, <1>3, <1>5 DEF ParseInv

\* An error ends what is proved here.
LEMMA FailIsNotClean == ASSUME NEW scope, FailIn(scope) PROVE ~ Clean'
  BY DEF FailIn, Clean

\* What sym_push chooses between: the local stack inside a function, else the global one.
LEMMA Onto ==
    ASSUME TableInv, ParseInv
    PROVE  /\ LocalOrGlobal \in {"local", "global"} /\ LocalOrGlobal \in Stacks
           /\ LocalOrGlobal = "global" => stack["local"] = <<>>
           /\ Parsing => pc \in {"file", "func"} /\ (LocalOrGlobal = "local" => pc = "func")
  <1>1. stack.local = stack["local"]
    OBVIOUS
  <1>2. QED
    BY <1>1 DEF LocalOrGlobal, Stacks, ParseInv, Parsing

\* Each declaration keeps the invariants.
LEMMA DeclarationStep ==
    ASSUME TableInv, ParseInv, Clean', NEW v \in Name, Declaration(v)
    PROVE  TableInv' /\ ParseInv'
  <1> DEFINE id == <<"identifier", v>>
             st == <<"struct", v>>
             la == <<"label", v>>
  <1>1. /\ id \in Key /\ id \notin {"label"} \X Name
        /\ st \in Key /\ st \notin {"label"} \X Name
        /\ la \in Key /\ la \in {"label"} \X Name
    BY Kinds DEF Space
  <1>2. local_scope \in Int /\ 0 \in Int
    BY DEF ParseInv
  <1>3. /\ "local" \in Stacks /\ "global" \in Stacks /\ "label" \in Stacks
        /\ "none" \in Mark /\ "complete" \in Mark /\ "implicit" \in Mark
        /\ "forward" \in Mark /\ "defined" \in Mark
    BY DEF Stacks, Mark
  <1>4. ASSUME Goes, UNCHANGED <<head, stack>> PROVE ParseInv'
    BY <1>4 DEF Goes, ParseInv
  <1> HIDE DEF id, st, la
  <1>5. CASE DeclareExtern(v)
    <2>1. Push(id, 0, "none", LocalOrGlobal) /\ Goes /\ Parsing
      BY <1>5 DEF DeclareExtern, id
    <2>2. TableInv'
      BY <2>1, <1>1, <1>2, <1>3, Onto, PushStep
    <2>3. ParseInv'
      BY <2>1, Onto, PushParse DEF Goes
    <2>4. QED
      BY <2>2, <2>3
  <1>6. CASE AlreadyDefined(v)
    BY <1>6, FailIsNotClean DEF AlreadyDefined, Fail
  <1>7. ASSUME NEW is \in BOOLEAN, DeclareLocal(v, is) PROVE TableInv' /\ ParseInv'
    <2>1. PICK scope \in Int : scope = IF is THEN 0 ELSE local_scope
      BY <1>2
    <2>2. Push(id, scope, "none", "local") /\ pc = "func"
      BY <1>7, <2>1 DEF DeclareLocal, id
    <2>3. Goes
      BY <1>7, FailIsNotClean DEF DeclareLocal, Fail
    <2>4. TableInv'
      BY <2>2, <1>1, <1>3, PushStep
    <2>5. ParseInv'
      BY <2>2, <2>3, <1>3, PushParse DEF Goes
    <2>6. QED
      BY <2>4, <2>5
  <1>8. ASSUME NEW is \in BOOLEAN, DeclareStruct(v, is) PROVE TableInv' /\ ParseInv'
    <2>1. Goes /\ Parsing
      BY <1>8 DEF DeclareStruct
    <2>2. PICK r \in Mark : r = IF is THEN "complete" ELSE "none"
      BY <1>3
    <2>3. \/ Push(st, local_scope, r, LocalOrGlobal)
          \/ sym' = [sym EXCEPT ![Find(st)].r = r] /\ UNCHANGED <<head, stack>>
      BY <1>8, <2>2 DEF DeclareStruct, st
    <2>4. CASE Push(st, local_scope, r, LocalOrGlobal)
      <3>1. TableInv'
        BY <2>4, <2>2, <1>1, <1>2, Onto, PushStep
      <3>2. ParseInv'
        BY <2>4, <2>1, Onto, PushParse DEF Goes
      <3>3. QED
        BY <3>1, <3>2
    <2>5. CASE sym' = [sym EXCEPT ![Find(st)].r = r] /\ UNCHANGED <<head, stack>>
      BY <2>5, <2>1, <1>4, MarkStep
    <2>6. QED
      BY <2>3, <2>4, <2>5
  <1>9. CASE CallImplicit(v)
    <2>1. Push(id, 0, "implicit", "global") /\ Goes /\ pc = "func" /\ head[id] = NULL
      BY <1>9 DEF CallImplicit, Find, id
    <2>2. TableInv'
      BY <2>1, <1>1, <1>2, <1>3, PushStep
    <2>3. ParseInv'
      BY <2>1, <1>3, PushParse DEF Goes
    <2>4. QED
      BY <2>2, <2>3
  <1>10. ASSUME NEW r \in Mark, Push(la, 0, r, "label"), Goes, pc = "func"
         PROVE  TableInv' /\ ParseInv'
    <2>1. TableInv'
      BY <1>10, <1>1, <1>2, <1>3, PushStep
    <2>2. ParseInv'
      BY <1>10, <1>3, PushParse DEF Goes
    <2>3. QED
      BY <2>1, <2>2
  <1>11. CASE Goto(v)
    BY <1>11, <1>10, <1>3 DEF Goto, la
  <1>12. CASE Label(v)
    <2>1. CASE Push(la, 0, "defined", "label") /\ Goes
      BY <2>1, <1>10, <1>12, <1>3 DEF Label
    <2>2. CASE /\ sym' = [sym EXCEPT ![Find(la)].r = "defined"]
               /\ Goes /\ UNCHANGED <<head, stack>>
      BY <2>2, <1>3, <1>4, MarkStep
    <2>3. QED
      BY <1>12, <2>1, <2>2, FailIsNotClean DEF Label, Fail, la
  <1>13. QED
    BY <1>5, <1>6, <1>7, <1>8, <1>9, <1>11, <1>12 DEF Declaration

\* The end of a statement expression: its Syms stay.
LEMMA UnlinkStep ==
    ASSUME TableInv, NEW popped \in Seq(Syms), head' = Unlinked(head, popped),
           \A n \in 1 .. Len(popped) : popped[n] \in DOMAIN sym,
           UNCHANGED <<sym, stack>>
    PROVE  TableInv'
  <1>1. ASSUME NEW k \in Key, head'[k] # NULL
        PROVE  \E i \in DOMAIN sym : sym[i].v = k
    <2>1. \/ head'[k] = head[k]
          \/ \E n \in 1 .. Len(popped) : sym[popped[n]].v = k
      BY UnlinkedIs
    <2>2. QED
      BY <2>1, <1>1 DEF TableInv, HidesInv
  <1>2. head' \in [Key -> 0 .. MaxSyms]
    <2>1. TableTypeOK /\ head \in [Key -> 0 .. MaxSyms]
      BY DEF TableInv, TableTypeOK
    <2>2. QED
      BY <2>1, UnlinkedType
  <1>3. TableTypeOK' /\ PlaceInv'
    BY <1>2 DEF TableInv, TableTypeOK, PlaceInv, Places, V
  <1>4. \A s : \A n : Lowest(s, n)' <=> Lowest(s, n)
    BY DEF Lowest, Places, V
  <1>5. HidesInv'
    BY <1>1, <1>4 DEF TableInv, HidesInv, Places
  <1>6. QED
    BY <1>3, <1>5 DEF TableInv

\* The innermost block, its base and the blocks around it.
LEMMA BlockIs ==
    ASSUME TableInv, ParseInv, pc = "func", Len(blocks) > 1
    PROVE  /\ Len(blocks) \in Nat /\ Last(blocks) = blocks[Len(blocks)]
           /\ Last(blocks).base \in Nat /\ Last(blocks).base <= Len(stack["local"])
           /\ Front(blocks) \in Seq([base : Nat, is_expr : BOOLEAN])
           /\ Len(Front(blocks)) = Len(blocks) - 1
           /\ \A b \in 1 .. (Len(blocks) - 1) :
                  /\ Front(blocks)[b] = blocks[b] /\ b \in 1 .. Len(blocks)
                  /\ blocks[b].base \in Nat /\ blocks[b].base <= Last(blocks).base
  <1>1. PICK q \in Seq([base : Nat, is_expr : BOOLEAN]) : q = blocks
    BY DEF ParseInv
  <1>2. Len(q) \in Nat /\ \A b \in 1 .. Len(q) : q[b] \in [base : Nat, is_expr : BOOLEAN]
    BY ElementOfSeq, LenProperties
  <1>3. /\ SubSeq(q, 1, Len(q) - 1) \in Seq([base : Nat, is_expr : BOOLEAN])
        /\ Len(SubSeq(q, 1, Len(q) - 1)) = Len(q) - 1
        /\ \A b \in 1 .. (Len(q) - 1) : SubSeq(q, 1, Len(q) - 1)[b] = q[b]
    <2>1. /\ 1 \in Int /\ Len(q) - 1 \in Int /\ 1 <= Len(q) - 1
          /\ \A b \in 1 .. (Len(q) - 1) : q[b] \in [base : Nat, is_expr : BOOLEAN]
      BY <1>1, <1>2
    <2>2. /\ SubSeq(q, 1, Len(q) - 1) \in Seq([base : Nat, is_expr : BOOLEAN])
          /\ Len(SubSeq(q, 1, Len(q) - 1)) =
                 IF 1 <= Len(q) - 1 THEN (Len(q) - 1) - 1 + 1 ELSE 0
          /\ \A b \in 1 .. ((Len(q) - 1) - 1 + 1) : SubSeq(q, 1, Len(q) - 1)[b] = q[1 + b - 1]
      BY <2>1, SubSeqProperties
    <2>3. QED
      BY <2>1, <2>2, <1>2
  <1>4. Last(blocks) = q[Len(q)] /\ Front(blocks) = SubSeq(q, 1, Len(q) - 1)
    BY <1>1 DEF Last, Front
  <1>5. /\ \A b \in 1 .. Len(q) : q[b].base \in Nat /\ q[b].base <= Len(stack["local"])
        /\ \A b, c \in 1 .. Len(q) : b <= c => q[b].base <= q[c].base
    BY <1>1, <1>2 DEF ParseInv
  <1>6. Len(q) \in 1 .. Len(q) /\ \A b \in 1 .. (Len(q) - 1) : b \in 1 .. Len(q) /\ b <= Len(q)
    BY <1>1, <1>2
  <1>7. QED
    BY <1>1, <1>2, <1>3, <1>4, <1>5, <1>6

\* A block that is closed down to its base keeps ParseInv.
LEMMA CloseParse ==
    ASSUME TableInv, ParseInv, CloseBlock, TableInv',
           Last(blocks).base <= Len(stack'["local"])
    PROVE  ParseInv'
  <1>1. /\ pc = "func" /\ pc' = "func" /\ Len(blocks) > 1
        /\ local_scope' = local_scope - 1 /\ blocks' = Front(blocks)
    BY DEF CloseBlock
  <1>2. /\ Len(blocks) \in Nat /\ blocks' \in Seq([base : Nat, is_expr : BOOLEAN])
        /\ Len(blocks') = Len(blocks) - 1
        /\ \A b \in 1 .. Len(blocks') :
               /\ blocks'[b] = blocks[b] /\ b \in 1 .. Len(blocks)
               /\ blocks[b].base \in Nat /\ blocks[b].base <= Last(blocks).base
    BY <1>1, BlockIs
  <1>3. Len(stack'["local"]) \in Nat /\ Last(blocks).base \in Nat
    BY <1>1, BlockIs DEF TableInv, TableTypeOK, Stacks
  <1>4. \A b \in 1 .. Len(blocks') : blocks'[b].base <= Len(stack'["local"])
    <2>1. ASSUME NEW b \in 1 .. Len(blocks')
          PROVE  blocks'[b].base <= Len(stack'["local"])
      <3>1. /\ blocks'[b] = blocks[b] /\ blocks[b].base \in Nat
            /\ blocks[b].base <= Last(blocks).base
        BY <1>2
      <3>2. QED
        BY <3>1, <1>3
    <2>2. QED
      BY <2>1
  <1>5. \A b, c \in 1 .. Len(blocks') : b <= c => blocks'[b].base <= blocks'[c].base
    BY <1>2 DEF ParseInv
  <1>6. local_scope' \in Int
    BY <1>1 DEF ParseInv
  <1>7. QED
    BY <1>1, <1>2, <1>4, <1>5, <1>6 DEF ParseInv

\* The end of a block keeps the invariants.
LEMMA CloseStep ==
    ASSUME TableInv, ParseInv, CloseBlock
    PROVE  TableInv' /\ ParseInv'
  <1>1. /\ pc = "func" /\ pc' = "func" /\ Len(blocks) > 1
        /\ local_scope' = local_scope - 1 /\ blocks' = Front(blocks)
    BY DEF CloseBlock
  <1>2. PICK base \in Nat : base = Last(blocks).base /\ base <= Len(stack["local"])
    BY <1>1, BlockIs
  <1>3. PICK popped \in Seq(Syms) :
            /\ popped = Above(stack["local"], base)
            /\ \A n \in 1 .. Len(popped) : popped[n] \in DOMAIN sym
            /\ Below(stack["local"], base) \in Seq(Syms)
            /\ Len(Below(stack["local"], base)) = base
    <2>1. PICK q \in Seq(Syms) : q = stack["local"]
      BY DEF TableInv, TableTypeOK, Stacks
    <2>2. Len(q) \in Nat /\ \A n \in 1 .. Len(q) : q[n] \in DOMAIN sym
      BY <2>1 DEF TableInv, PlaceInv, Places, Stacks
    <2>3. /\ Below(q, base) \in Seq(Syms) /\ Len(Below(q, base)) = base
          /\ Above(q, base) \in Seq(Syms) /\ Len(Above(q, base)) = Len(q) - base
          /\ \A n \in 1 .. (Len(q) - base) : Above(q, base)[n] = q[base + n]
      BY <2>1, <1>2, CutAt
    <2>4. \A n \in 1 .. (Len(q) - base) : base + n \in 1 .. Len(q)
      BY <2>2
    <2>5. QED
      BY <2>1, <2>2, <2>3, <2>4
  <1>4. /\ head' = Unlinked(head, popped)
        /\ \/ UNCHANGED <<sym, stack>>
           \/ /\ sym' = Freed(Range(popped))
              /\ stack' = [stack EXCEPT !["local"] = Below(@, base)]
    BY <1>2, <1>3 DEF CloseBlock
  <1>5. CASE UNCHANGED <<sym, stack>>
    <2>1. TableInv'
      BY <1>3, <1>4, <1>5, UnlinkStep
    <2>2. stack'["local"] = stack["local"] /\ stack'["label"] = stack["label"]
      BY <1>5
    <2>3. Last(blocks).base <= Len(stack'["local"])
      BY <1>2, <2>2
    <2>4. QED
      BY <2>1, <2>3, CloseParse
  <1>6. CASE /\ sym' = Freed(Range(popped))
             /\ stack' = [stack EXCEPT !["local"] = Below(@, base)]
    <2>1. TableInv'
      BY <1>2, <1>3, <1>4, <1>6, PopBlock
    <2>2. stack'["local"] = Below(stack["local"], base)
      BY <1>6 DEF TableInv, TableTypeOK, Stacks
    <2>3. Last(blocks).base <= Len(stack'["local"])
      BY <1>2, <1>3, <2>2
    <2>4. QED
      BY <2>1, <2>3, CloseParse
  <1>7. QED
    BY <1>4, <1>5, <1>6

\* The end of a function keeps the invariants, if its labels are all defined.
LEMMA EndStep ==
    ASSUME TableInv, ParseInv, Clean', EndFunction
    PROVE  TableInv' /\ ParseInv'
  <1>1. pc = "func" /\ LabelPop(local_scope - 1)
    BY DEF EndFunction
  <1>2. CASE /\ pc' = "file" /\ local_scope' = local_scope - 1 /\ blocks' = <<>>
             /\ sym' = Freed(Range(stack["local"] \o stack["label"]))
             /\ head' = Unlinked(head, stack["local"] \o stack["label"])
             /\ stack' = [s \in Stacks |-> IF s = "global" THEN stack[s] ELSE <<>>]
    <2>1. PICK p \in Seq(Syms) : p = stack["local"]
      BY DEF TableInv, TableTypeOK, Stacks
    <2>2. PICK q \in Seq(Syms) : q = stack["label"]
      BY DEF TableInv, TableTypeOK, Stacks
    <2>3. Len(p) \in Nat /\ Len(q) \in Nat
      OBVIOUS
    <2>4. /\ p \o q \in Seq(Syms) /\ Len(p \o q) = Len(p) + Len(q)
          /\ \A i \in 1 .. Len(p) + Len(q) :
                 (p \o q)[i] = IF i <= Len(p) THEN p[i] ELSE q[i - Len(p)]
      BY ConcatProperties
    <2>5. LocalThenLabels(p \o q, Len(p), Len(q))
      <3>1. \A n \in 1 .. Len(p) : (p \o q)[n] = p[n]
        BY <2>3, <2>4
      <3>2. ASSUME NEW n \in 1 .. Len(q) PROVE (p \o q)[Len(p) + n] = q[n]
        <4>1. /\ Len(p) + n \in 1 .. Len(p) + Len(q) /\ ~ (Len(p) + n <= Len(p))
              /\ (Len(p) + n) - Len(p) = n
          BY <2>3
        <4>2. QED
          BY <4>1, <2>4
      <3>3. QED
        BY <2>1, <2>2, <2>4, <3>1, <3>2 DEF LocalThenLabels
    <2>6. TableInv'
      BY <1>2, <2>1, <2>2, <2>3, <2>4, <2>5, PopFunction
    <2>7. ParseInv'
      <3>1. stack'["local"] = <<>> /\ stack'["label"] = <<>>
        BY <1>2 DEF Stacks
      <3>2. local_scope' \in Int /\ <<>> \in Seq([base : Nat, is_expr : BOOLEAN])
        BY <1>2 DEF ParseInv
      <3>3. Len(blocks') = 0
        BY <1>2
      <3>4. QED
        BY <1>2, <3>1, <3>2, <3>3 DEF ParseInv
    <2>8. QED
      BY <2>6, <2>7
  <1>3. CASE pc' = "crashed" /\ UNCHANGED <<table, local_scope, blocks>>
    BY <1>3, SameTable DEF ParseInv, table
  <1>4. ASSUME stack' = [stack EXCEPT !.local = <<>>, !.label = <<>>]
        PROVE  stack' = [s \in Stacks |-> IF s = "global" THEN stack[s] ELSE <<>>]
    <2>1. stack \in [Stacks -> Seq(Syms)]
      BY DEF TableInv, TableTypeOK
    <2>2. /\ stack' = [s \in DOMAIN stack' |-> stack'[s]] /\ DOMAIN stack' = Stacks
          /\ stack'["local"] = <<>> /\ stack'["label"] = <<>>
          /\ stack'["global"] = stack["global"]
      BY <1>4, <2>1 DEF Stacks
    <2>3. QED
      BY <2>2 DEF Stacks
  <1>5. QED
    BY <1>1, <1>2, <1>3, <1>4, FailIsNotClean DEF LabelPop

\* Every step inside a function, and its begin and end, keeps the invariants.
LEMMA FunctionStep ==
    ASSUME TableInv, ParseInv, Clean', NEW v \in Name, Function(v)
    PROVE  TableInv' /\ ParseInv'
  <1>1. "local" \in Stacks /\ "none" \in Mark /\ local_scope \in Int /\ 0 \in Int
    BY DEF Stacks, Mark, ParseInv
  <1>2. CASE BeginFunction
    <2>1. /\ Push(Field, 0, "none", "local") /\ pc = "file" /\ pc' = "params"
          /\ local_scope' = 1 /\ blocks' = blocks
      BY <1>2 DEF BeginFunction
    <2>2. Field \notin {"label"} \X Name
      BY Kinds
    <2>3. TableInv'
      BY <2>1, <2>2, <1>1, PushStep
    <2>4. ParseInv'
      BY <2>1, <1>1, PushParse
    <2>5. QED
      BY <2>3, <2>4
  <1>3. CASE Parameter(v)
    <2>1. PICK k : k = <<"identifier", v>> /\ k \in Key /\ k \notin {"label"} \X Name
      BY Kinds DEF Space
    <2>2. Push(k, local_scope, "none", "local") /\ pc = "params" /\ Goes
      BY <1>3, <2>1, FailIsNotClean DEF Parameter, Fail
    <2>3. TableInv'
      BY <2>1, <2>2, <1>1, PushStep
    <2>4. ParseInv'
      BY <2>2, <1>1, PushParse DEF Goes
    <2>5. QED
      BY <2>3, <2>4
  <1>4. ASSUME NEW e \in BOOLEAN
        PROVE  /\ Block(e) \in [base : Nat, is_expr : BOOLEAN]
               /\ Block(e).base = Len(stack["local"])
    <2>1. Len(stack["local"]) \in Nat
      BY <1>1 DEF TableInv, TableTypeOK
    <2>2. QED
      BY <2>1 DEF Block
  <1>5. CASE OpenBody
    <2>1. PICK b \in [base : Nat, is_expr : BOOLEAN] :
              b.base = Len(stack["local"]) /\ blocks' = <<b>>
      BY <1>4, <1>5 DEF OpenBody
    <2>2. /\ pc' = "func" /\ UNCHANGED table /\ UNCHANGED <<stack, head>>
          /\ local_scope' = local_scope
      BY <1>5 DEF OpenBody, table
    <2>3. /\ blocks' \in Seq([base : Nat, is_expr : BOOLEAN]) /\ Len(blocks') = 1
          /\ blocks'[1] = b /\ b.base \in Nat
      BY <2>1
    <2>4. TableInv'
      BY <2>2, SameTable
    <2>5. ParseInv'
      BY <2>1, <2>2, <2>3 DEF ParseInv
    <2>6. QED
      BY <2>4, <2>5
  <1>6. ASSUME NEW e \in BOOLEAN, OpenBlock(e) PROVE TableInv' /\ ParseInv'
    <2>1. PICK b \in [base : Nat, is_expr : BOOLEAN] :
              b.base = Len(stack["local"]) /\ blocks' = Append(blocks, b)
      BY <1>4, <1>6 DEF OpenBlock
    <2>2. /\ pc = "func" /\ pc' = "func" /\ UNCHANGED table /\ UNCHANGED <<stack, head>>
          /\ local_scope' = local_scope + 1
      BY <1>6 DEF OpenBlock, table
    <2>3. TableInv'
      BY <2>2, SameTable
    <2>4. PICK n \in Nat : n = Len(blocks)
      BY DEF ParseInv
    <2>5. /\ blocks' \in Seq([base : Nat, is_expr : BOOLEAN]) /\ Len(blocks') = n + 1
          /\ \A c \in 1 .. n : blocks'[c] = blocks[c]
          /\ blocks'[n + 1] = b
      BY <2>1, <2>4, AppendProperties DEF ParseInv
    <2>6. \A c \in 1 .. n : /\ blocks'[c].base \in Nat
                            /\ blocks'[c].base <= Len(stack["local"])
      BY <2>4, <2>5, BlockBase DEF ParseInv
    <2>7. \A c \in 1 .. (n + 1) : c \in 1 .. n \/ c = n + 1
      OBVIOUS
    <2>8. b.base \in Nat
      OBVIOUS
    <2>9. \A c \in 1 .. Len(blocks') : blocks'[c].base <= Len(stack'["local"])
      BY <2>1, <2>2, <2>5, <2>6, <2>7, <2>8
    <2>10. \A c, d \in 1 .. Len(blocks') : c <= d => blocks'[c].base <= blocks'[d].base
      <3>1. \A c, d \in 1 .. n : c <= d => blocks'[c].base <= blocks'[d].base
        BY <2>4, <2>5 DEF ParseInv
      <3>2. ASSUME NEW c \in 1 .. (n + 1), NEW d \in 1 .. (n + 1), c <= d
            PROVE  blocks'[c].base <= blocks'[d].base
        <4>1. CASE d \in 1 .. n
          <5>1. c \in 1 .. n
            BY <4>1, <3>2
          <5>2. QED
            BY <5>1, <4>1, <3>1, <3>2
        <4>2. CASE d = n + 1
          BY <4>2, <2>1, <2>5, <2>6, <2>7, <2>8
        <4>3. QED
          BY <4>1, <4>2, <2>7
      <3>3. QED
        BY <3>2, <2>5
    <2>11. local_scope' \in Int
      BY <2>2, <1>1
    <2>12. ParseInv'
      BY <2>2, <2>5, <2>9, <2>10, <2>11 DEF ParseInv
    <2>13. QED
      BY <2>3, <2>12
  <1>7. QED
    BY <1>2, <1>3, <1>5, <1>6, CloseStep, EndStep DEF Function

\* Every step of a compilation keeps the invariants.
LEMMA CompileStep ==
    ASSUME TableInv, ParseInv, Clean', Compile
    PROVE  TableInv' /\ ParseInv'
  <1>1. CASE Error
    BY <1>1, FailIsNotClean DEF Error, Fail
  <1>2. CASE EndOfFile
    <2>1. /\ pc = "file" /\ pc' = "end" /\ UNCHANGED table
          /\ UNCHANGED <<stack, head, local_scope, blocks>>
      BY <1>2 DEF EndOfFile, table
    <2>2. QED
      BY <2>1, SameTable DEF ParseInv
  <1>3. CASE EndCompile
    <2>1. /\ pc = "end" /\ pc' = "compiled" /\ UNCHANGED <<local_scope, blocks>>
      BY <1>3 DEF EndCompile
    <2>2. stack["local"] = <<>> /\ stack["label"] = <<>>
      BY <2>1 DEF ParseInv
    <2>3. /\ head' = Empty /\ TableInv'
          /\ stack'["global"] = <<>> /\ stack'["local"] = <<>> /\ stack'["label"] = <<>>
      BY <1>3, <2>2, PopAll
    <2>4. blocks' = <<>> /\ Len(blocks') = 0
      BY <2>1 DEF ParseInv
    <2>5. QED
      BY <2>1, <2>3, <2>4 DEF ParseInv
  <1>4. CASE NewState
    <2>1. /\ pc \in {"none", "compiled"} /\ pc' = "file" /\ sym' = Nothing
          /\ head' = Empty /\ UNCHANGED <<stack, local_scope, blocks>>
      BY <1>4 DEF NewState
    <2>2. /\ stack["global"] = <<>> /\ stack["local"] = <<>> /\ stack["label"] = <<>>
          /\ head = Empty
      BY <2>1 DEF ParseInv
    <2>3. \A s \in Stacks : Places(s) = {} /\ Places(s)' = {}
      BY <2>1, <2>2 DEF Places, Stacks
    <2>4. DOMAIN sym' = {} /\ UNCHANGED head /\ \A k \in Key : head'[k] = NULL
      BY <2>1, <2>2 DEF Nothing, Empty
    <2>5. sym' \in [DOMAIN sym' -> SymType]
      BY <2>1 DEF Nothing
    <2>6. TableTypeOK'
      BY <2>1, <2>4, <2>5 DEF TableInv, TableTypeOK
    <2>7. PlaceInv'
      BY <2>3, <2>4 DEF PlaceInv
    <2>8. HidesInv'
      BY <2>3, <2>4 DEF HidesInv
    <2>9. ParseInv'
      BY <2>1, <2>2 DEF ParseInv
    <2>10. QED
      BY <2>6, <2>7, <2>8, <2>9 DEF TableInv
  <1>5. QED
    BY <1>1, <1>2, <1>3, <1>4 DEF Compile

-----------------------------------------------------------------------------
(* The invariant                                                           *)

\* At first, no Sym is allocated and no name means one.
LEMMA Starts == Init => IInv
  <1> SUFFICES ASSUME Init PROVE TableInv /\ ParseInv
    BY DEF IInv
  <1>1. /\ stack["global"] = <<>> /\ stack["local"] = <<>> /\ stack["label"] = <<>>
        /\ stack \in [Stacks -> Seq(Syms)]
    <2>1. stack = NoStacks /\ <<>> \in Seq(Syms)
      BY DEF Init
    <2>2. /\ stack["global"] = <<>> /\ stack["local"] = <<>> /\ stack["label"] = <<>>
          /\ DOMAIN stack = Stacks
      BY <2>1 DEF NoStacks, Stacks
    <2>3. stack = [s \in DOMAIN stack |-> stack[s]]
      BY <2>1 DEF NoStacks
    <2>4. \A s \in Stacks : stack[s] \in Seq(Syms)
      BY <2>1, <2>2 DEF Stacks
    <2>5. QED
      BY <2>2, <2>3, <2>4
  <1>2. \A s \in Stacks : Places(s) = {}
    BY <1>1 DEF Places, Stacks
  <1>3. DOMAIN sym = {} /\ head = Empty /\ \A k \in Key : head[k] = NULL
    BY DEF Init, Nothing, Empty
  <1>4. TableTypeOK
    <2>1. sym \in [DOMAIN sym -> SymType]
      BY DEF Init, Nothing
    <2>2. head \in [Key -> 0 .. MaxSyms]
      BY <1>3, BoundsAssumption DEF Empty, NULL
    <2>3. QED
      BY <1>1, <2>1, <2>2 DEF TableTypeOK
  <1>5. PlaceInv
    BY <1>2, <1>3 DEF PlaceInv
  <1>6. HidesInv
    BY <1>2, <1>3 DEF HidesInv
  <1>7. ParseInv
    <2>1. blocks = <<>> /\ local_scope = 0 /\ pc = "none"
      BY DEF Init
    <2>2. blocks \in Seq([base : Nat, is_expr : BOOLEAN]) /\ Len(blocks) = 0
      BY <2>1
    <2>3. QED
      BY <1>1, <1>3, <2>1, <2>2 DEF ParseInv
  <1>8. QED
    BY <1>4, <1>5, <1>6, <1>7 DEF TableInv

\* Once a text has failed, nothing is said any more.
LEMMA CleanBefore == [Next]_vars /\ Clean' => Clean
  <1> SUFFICES ASSUME [Next]_vars, Clean' PROVE Clean
    OBVIOUS
  <1>1. ASSUME UNCHANGED run PROVE Clean
    BY <1>1 DEF Clean, run
  <1>2. CASE Compile
    BY <1>1, <1>2, FailIsNotClean
       DEF Compile, NewState, Error, EndOfFile, EndCompile, Fail, Clean
  <1>3. ASSUME NEW v \in Name, Declaration(v) PROVE Clean
    BY <1>1, <1>3, FailIsNotClean
       DEF Declaration, DeclareExtern, AlreadyDefined, DeclareLocal, DeclareStruct,
           CallImplicit, Goto, Label, Fail, Goes
  <1>4. ASSUME NEW v \in Name, Function(v) PROVE Clean
    BY <1>1, <1>4, FailIsNotClean
       DEF Function, BeginFunction, Parameter, OpenBody, OpenBlock, CloseBlock,
           EndFunction, LabelPop, Fail, Goes
  <1>5. CASE UNCHANGED vars
    BY <1>1, <1>5 DEF vars
  <1>6. QED
    BY <1>2, <1>3, <1>4, <1>5 DEF Next

\* No step loses a Sym, as long as no text fails.
LEMMA Inductive == IInv /\ [Next]_vars => IInv'
  <1> SUFFICES ASSUME IInv, [Next]_vars, Clean' PROVE TableInv' /\ ParseInv'
    BY DEF IInv
  <1>1. TableInv /\ ParseInv
    BY CleanBefore DEF IInv
  <1>2. CASE UNCHANGED vars
    <2>1. UNCHANGED table /\ UNCHANGED <<pc, head, stack, local_scope, blocks>>
      BY <1>2 DEF vars, table
    <2>2. QED
      BY <1>1, <2>1, SameTable DEF ParseInv
  <1>3. QED
    BY <1>1, <1>2, DeclarationStep, FunctionStep, CompileStep DEF Next

\* Up to the first text that fails, all Syms are where they belong.
LEMMA Invariance == Spec => []IInv
  <1>1. Init => IInv
    BY Starts
  <1>2. IInv /\ [Next]_vars => IInv'
    BY Inductive
  <1>3. QED
    BY <1>1, <1>2, PTL DEF Spec

\* The three stacks as one sequence: place n of a stack is n after an offset.
After(s) == IF s = "global" THEN 0
            ELSE IF s = "local" THEN Len(stack["global"])
            ELSE Len(stack["global"]) + Len(stack["local"])
Joins(all) ==
    /\ all \in Seq(Syms)
    /\ \A s \in Stacks : \A n \in Places(s) :
           After(s) + n \in 1 .. Len(all) /\ all[After(s) + n] = stack[s][n]
    /\ \A i \in 1 .. Len(all) : \E s \in Stacks : \E n \in Places(s) : i = After(s) + n

\* The three stacks, one behind the other, are such a sequence.
LEMMA Together ==
    ASSUME TableInv
    PROVE  Joins(stack.global \o stack.local \o stack.label)
  <1>1. PICK g \in Seq(Syms) : g = stack["global"]
    BY DEF TableInv, TableTypeOK, Stacks
  <1>2. PICK p \in Seq(Syms) : p = stack["local"]
    BY DEF TableInv, TableTypeOK, Stacks
  <1>3. PICK q \in Seq(Syms) : q = stack["label"]
    BY DEF TableInv, TableTypeOK, Stacks
  <1>4. Len(g) \in Nat /\ Len(p) \in Nat /\ Len(q) \in Nat
    OBVIOUS
  <1>5. /\ g \o p \in Seq(Syms) /\ Len(g \o p) = Len(g) + Len(p)
        /\ \A i \in 1 .. Len(g) + Len(p) :
               (g \o p)[i] = IF i <= Len(g) THEN g[i] ELSE p[i - Len(g)]
    BY ConcatProperties
  <1>6. PICK gp \in Seq(Syms) : gp = g \o p
    BY <1>5
  <1>7. /\ gp \o q \in Seq(Syms) /\ Len(gp \o q) = Len(gp) + Len(q)
        /\ \A i \in 1 .. Len(gp) + Len(q) :
               (gp \o q)[i] = IF i <= Len(gp) THEN gp[i] ELSE q[i - Len(gp)]
    BY ConcatProperties
  <1>8. PICK all \in Seq(Syms) : all = gp \o q
    BY <1>7
  <1>9. all = stack.global \o stack.local \o stack.label
    BY <1>1, <1>2, <1>3, <1>6, <1>8
  <1>10. /\ Len(all) = Len(g) + Len(p) + Len(q)
         /\ \A i \in 1 .. Len(g) : all[i] = g[i]
         /\ \A i \in 1 .. Len(p) : all[Len(g) + i] = p[i]
         /\ \A i \in 1 .. Len(q) : all[Len(g) + Len(p) + i] = q[i]
    <2>1. Len(all) = Len(g) + Len(p) + Len(q) /\ Len(gp) = Len(g) + Len(p)
      BY <1>5, <1>6, <1>7, <1>8
    <2>2. ASSUME NEW i \in 1 .. Len(g) PROVE all[i] = g[i]
      <3>1. i \in 1 .. Len(gp) + Len(q) /\ i <= Len(gp) /\ i <= Len(g)
        BY <2>1, <1>4
      <3>2. all[i] = gp[i]
        BY <3>1, <1>7, <1>8
      <3>3. i \in 1 .. Len(g) + Len(p)
        BY <1>4
      <3>4. QED
        BY <3>1, <3>2, <3>3, <1>5, <1>6
    <2>3. ASSUME NEW i \in 1 .. Len(p) PROVE all[Len(g) + i] = p[i]
      <3>1. PICK j \in Nat : j = Len(g) + i
        BY <1>4
      <3>2. j \in 1 .. Len(gp) + Len(q) /\ j <= Len(gp) /\ ~ (j <= Len(g)) /\ j - Len(g) = i
        BY <3>1, <2>1, <1>4
      <3>3. all[j] = gp[j]
        BY <3>2, <1>7, <1>8
      <3>4. j \in 1 .. Len(g) + Len(p)
        BY <3>1, <1>4
      <3>5. gp[j] = p[j - Len(g)]
        BY <3>2, <3>4, <1>5, <1>6
      <3>6. QED
        BY <3>1, <3>2, <3>3, <3>5
    <2>4. ASSUME NEW i \in 1 .. Len(q) PROVE all[Len(g) + Len(p) + i] = q[i]
      <3>1. PICK j \in Nat : j = Len(g) + Len(p) + i
        BY <1>4
      <3>2. j \in 1 .. Len(gp) + Len(q) /\ ~ (j <= Len(gp)) /\ j - Len(gp) = i
        BY <3>1, <2>1, <1>4
      <3>3. all[j] = q[j - Len(gp)]
        BY <3>2, <1>7, <1>8
      <3>4. QED
        BY <3>1, <3>2, <3>3
    <2>5. QED
      BY <2>1, <2>2, <2>3, <2>4
  <1>11. /\ Places("global") = 1 .. Len(g) /\ Places("local") = 1 .. Len(p)
         /\ Places("label") = 1 .. Len(q)
         /\ After("global") = 0 /\ After("local") = Len(g)
         /\ After("label") = Len(g) + Len(p)
    BY <1>1, <1>2, <1>3 DEF Places, After
  <1>12. ASSUME NEW s \in Stacks, NEW n \in Places(s)
         PROVE  After(s) + n \in 1 .. Len(all) /\ all[After(s) + n] = stack[s][n]
    <2>1. CASE s = "global"
      <3>1. n \in 1 .. Len(g) /\ After(s) + n = n /\ n \in 1 .. Len(all)
        BY <2>1, <1>4, <1>10, <1>11
      <3>2. QED
        BY <3>1, <2>1, <1>1, <1>10
    <2>2. CASE s = "local"
      <3>1. n \in 1 .. Len(p) /\ After(s) = Len(g) /\ Len(g) + n \in 1 .. Len(all)
        BY <2>2, <1>4, <1>10, <1>11
      <3>2. QED
        BY <3>1, <2>2, <1>2, <1>10
    <2>3. CASE s = "label"
      <3>1. /\ n \in 1 .. Len(q) /\ After(s) = Len(g) + Len(p)
            /\ Len(g) + Len(p) + n \in 1 .. Len(all)
        BY <2>3, <1>4, <1>10, <1>11
      <3>2. QED
        BY <3>1, <2>3, <1>3, <1>10
    <2>4. QED
      BY <2>1, <2>2, <2>3 DEF Stacks
  <1>13. ASSUME NEW i \in 1 .. Len(all)
         PROVE  \E s \in Stacks : \E n \in Places(s) : i = After(s) + n
    <2>1. CASE i <= Len(g)
      <3>1. i \in Places("global") /\ i = After("global") + i
        BY <2>1, <1>4, <1>11
      <3>2. QED
        BY <3>1 DEF Stacks
    <2>2. CASE ~ (i <= Len(g)) /\ i <= Len(g) + Len(p)
      <3>1. PICK j \in Nat : j \in 1 .. Len(p) /\ i = Len(g) + j
        <4>1. /\ i - Len(g) \in Nat /\ i - Len(g) \in 1 .. Len(p)
              /\ i = Len(g) + (i - Len(g))
          BY <2>2, <1>4
        <4>2. QED
          BY <4>1
      <3>2. j \in Places("local") /\ i = After("local") + j
        BY <3>1, <1>11
      <3>3. QED
        BY <3>2 DEF Stacks
    <2>3. CASE ~ (i <= Len(g) + Len(p))
      <3>1. /\ i - (Len(g) + Len(p)) \in Places("label")
            /\ i = After("label") + (i - (Len(g) + Len(p)))
        BY <2>3, <1>4, <1>10, <1>11
      <3>2. QED
        BY <3>1 DEF Stacks
    <2>4. QED
      BY <2>1, <2>2, <2>3
  <1>14. QED
    BY <1>9, <1>12, <1>13 DEF Joins

\* As each Sym is at one place, there are as many Syms as places.
LEMMA Counted ==
    ASSUME TableInv, NEW all, Joins(all)
    PROVE  /\ all \in Seq(Syms) /\ DOMAIN sym = Range(all)
           /\ Cardinality(DOMAIN sym) = Len(all)
  <1>1. all \in Seq(Syms) /\ DOMAIN all = 1 .. Len(all) /\ Len(all) \in Nat
    BY DEF Joins
  <1>2. \A s \in Stacks : Places(s) \subseteq Nat
    BY DEF Places
  <1>3. \A i \in 1 .. Len(all) : all[i] \in DOMAIN sym
    BY DEF Joins, TableInv, PlaceInv
  <1>4. \A j \in DOMAIN sym : \E i \in 1 .. Len(all) : j = all[i]
    <2>1. ASSUME NEW j \in DOMAIN sym PROVE \E i \in 1 .. Len(all) : j = all[i]
      <3>1. PICK s \in Stacks : \E n \in Places(s) : j = stack[s][n]
        BY DEF TableInv, PlaceInv
      <3>2. PICK n \in Places(s) : j = stack[s][n]
        BY <3>1
      <3>3. QED
        BY <3>2 DEF Joins
    <2>2. QED
      BY <2>1
  <1>5. ASSUME NEW i \in 1 .. Len(all), NEW j \in 1 .. Len(all), all[i] = all[j]
        PROVE  i = j
    <2>1. PICK s \in Stacks : \E n \in Places(s) : i = After(s) + n
      BY DEF Joins
    <2>2. PICK n \in Places(s) : i = After(s) + n
      BY <2>1
    <2>3. PICK q \in Stacks : \E m \in Places(q) : j = After(q) + m
      BY DEF Joins
    <2>4. PICK m \in Places(q) : j = After(q) + m
      BY <2>3
    <2>5. stack[s][n] = stack[q][m]
      BY <2>2, <2>4, <1>5 DEF Joins
    <2>6. s = q /\ n = m
      BY <2>5 DEF TableInv, PlaceInv
    <2>7. QED
      BY <2>2, <2>4, <2>6
  <1>6. DOMAIN sym = Range(all)
    BY <1>1, <1>3, <1>4 DEF Range
  <1>7. all \in [1 .. Len(all) -> DOMAIN sym]
    <2>1. all = [i \in DOMAIN all |-> all[i]]
      BY <1>1
    <2>2. QED
      BY <2>1, <1>1, <1>3
  <1>8. all \in Bijection(1 .. Len(all), DOMAIN sym)
    BY <1>4, <1>5, <1>7 DEF Bijection, Injection, Surjection, IsInjective
  <1>9. ExistsBijection(1 .. Len(all), DOMAIN sym)
    BY <1>8 DEF ExistsBijection
  <1>10. IsFiniteSet(1 .. Len(all)) /\ Cardinality(1 .. Len(all)) = Len(all)
    <2>1. PICK n \in Nat : n = Len(all)
      BY <1>1
    <2>2. IsFiniteSet(1 .. n) /\ Cardinality(1 .. n) = IF 1 > n THEN 0 ELSE n - 1 + 1
      BY FS_Interval
    <2>3. QED
      BY <2>1, <2>2
  <1>11. QED
    BY <1>1, <1>6, <1>9, <1>10, FS_Bijection

\* As long as no text fails: each Sym is on one stack at one place, there are as
\* many as there are places, and after a compilation no stack holds one and no
\* name means one. What the compiler allocates, it finds again and frees.
THEOREM NoSymIsLost == Spec => []NothingLost
  <1>1. IInv => NothingLost
    <2> SUFFICES ASSUME Clean, TableInv, ParseInv
                 PROVE  LET all == stack.global \o stack.local \o stack.label
                        IN  /\ DOMAIN sym = Range(all) /\ Cardinality(DOMAIN sym) = Len(all)
                            /\ pc = "compiled" => all = <<>> /\ head = Empty
      BY DEF IInv, Clean, NothingLost
    <2> DEFINE all == stack.global \o stack.local \o stack.label
    <2>1. Joins(all)
      BY Together
    <2> HIDE DEF all
    <2>2. DOMAIN sym = Range(all) /\ Cardinality(DOMAIN sym) = Len(all)
      BY <2>1, Counted
    <2>3. ASSUME pc = "compiled" PROVE all = <<>> /\ head = Empty
      <3>1. /\ stack["global"] = <<>> /\ stack["local"] = <<>> /\ stack["label"] = <<>>
            /\ head = Empty
        BY <2>3 DEF ParseInv
      <3>2. <<>> \o <<>> \o <<>> = <<>>
        BY ConcatEmptySeq, EmptySeq
      <3>3. QED
        BY <3>1, <3>2 DEF all
    <2>4. QED
      BY <2>2, <2>3 DEF all
  <1>2. QED
    BY <1>1, Invariance, PTL

-----------------------------------------------------------------------------
(* What the names of a text mean                                           *)

Scoped  == Space \X Name
Said    == Scoped \cup {"body"} \X Name
Reading == pc \in {"file", "params", "func"}

\* What k means by the first s scopes of en: what the last one that declares it
\* says, or else nothing or a function that was called undeclared.
Implicit(x, k, sy) == x \in DOMAIN sy /\ sy[x].r = "implicit" /\ sy[x].v = k
Means(x, k, s, en, sy) ==
    \/ \E n \in 1 .. s : /\ k \in DOMAIN en[n] /\ x = en[n][k]
                         /\ \A m \in 1 .. s : k \in DOMAIN en[m] => m <= n
    \/ /\ \A n \in 1 .. s : k \notin DOMAIN en[n]
       /\ x = NULL \/ Implicit(x, k, sy)

\* Where the Syms of a scope begin on the local stack.
Base(s) == IF s <= 2 THEN 0 ELSE blocks[s - 1].base
Bases   == [s \in 1 .. Len(env) |-> Base(s)]

BasesOK(b, en, lo) ==
    \A s, t \in 1 .. Len(en) : s <= t => b[s] \in Nat /\ b[s] <= b[t] /\ b[t] <= Len(lo)

SymsOK(sy, gl, lo, la) ==
    /\ \A n \in 1 .. Len(gl) : gl[n] \in DOMAIN sy
    /\ \A n \in 1 .. Len(lo) : lo[n] \in DOMAIN sy
    /\ \A m, n \in 1 .. Len(lo) : lo[m] = lo[n] => m = n
    /\ \A m \in 1 .. Len(gl), n \in 1 .. Len(lo) : gl[m] # lo[n]
    /\ \A n \in 1 .. Len(la) :
           /\ \A m \in 1 .. Len(gl) : la[n] # gl[m]
           /\ \A m \in 1 .. Len(lo) : la[n] # lo[m]
           /\ la[n] \in DOMAIN sy => sy[la[n]].v \in {"label"} \X Name

HeadMeans(sy, hd, en) == \A k \in Scoped : Means(hd[k], k, Len(en), en, sy)

HidesMeaning(sy, lo, en, b) ==
    \A s \in 2 .. Len(en), n \in 1 .. Len(lo) :
        /\ b[s] < n /\ sy[lo[n]].v \in Scoped
        /\ \A m \in 1 .. (n - 1) : b[s] < m => sy[lo[m]].v # sy[lo[n]].v
        => Means(sy[lo[n]].prev_tok, sy[lo[n]].v, s - 1, en, sy)

LocalsThere(sy, lo, en, b) ==
    \A s \in 2 .. Len(en) : \A k \in Scoped \cap DOMAIN en[s] :
        \E n \in 1 .. Len(lo) :
            /\ lo[n] = en[s][k] /\ sy[lo[n]].v = k /\ b[s] < n
            /\ \A t \in (s + 1) .. Len(en) : n <= b[t]

GlobalsThere(sy, gl, en) ==
    \A k \in Scoped \cap DOMAIN en[1] :
        \E n \in 1 .. Len(gl) : gl[n] = en[1][k] /\ sy[gl[n]].v = k

ImplicitsThere(sy, gl) ==
    \A i \in DOMAIN sy : sy[i].r = "implicit" =>
        /\ sy[i].v \in {"identifier"} \X Name
        /\ \E n \in 1 .. Len(gl) : gl[n] = i

Grows(sy, sy2, new) ==
    /\ new \notin DOMAIN sy /\ DOMAIN sy2 = DOMAIN sy \cup {new}
    /\ \A i \in DOMAIN sy : sy2[i] = sy[i]
Appended(s, s2, new) ==
    /\ Len(s2) = Len(s) + 1 /\ s2[Len(s) + 1] = new
    /\ \A n \in 1 .. Len(s) : s2[n] = s[n]
Keeps(sy, s, s2) ==
    /\ Len(s) \in Nat /\ Len(s2) \in Nat /\ Len(s) <= Len(s2)
    /\ \A n \in 1 .. Len(s) : s2[n] = s[n] /\ s[n] \in DOMAIN sy
NotIn(s, new) == \A n \in 1 .. Len(s) : s[n] # new
\* The scopes up to s say the same of k.
Agree(en, en2, s, k) ==
    \A n \in 1 .. s : /\ k \in DOMAIN en2[n] <=> k \in DOMAIN en[n]
                      /\ k \in DOMAIN en[n] => en2[n][k] = en[n][k]

NoneAbove(sy, lo, c, k) == \A n \in 1 .. Len(lo) : c < n => sy[lo[n]].v # k
Updated(hd, hd2, k, x) == hd2[k] = x /\ \A l \in Scoped : l # k => hd2[l] = hd[l]
Declared(en, en2, k, x) ==
    /\ Len(en2) = Len(en) /\ \A n \in 1 .. (Len(en) - 1) : en2[n] = en[n]
    /\ k \in DOMAIN en2[Len(en)] /\ en2[Len(en)][k] = x
    /\ \A l \in Scoped : l # k =>
          /\ l \in DOMAIN en2[Len(en)] <=> l \in DOMAIN en[Len(en)]
          /\ l \in DOMAIN en[Len(en)] => en2[Len(en)][l] = en[Len(en)][l]

Retyped(sy, sy2) ==
    /\ DOMAIN sy2 = DOMAIN sy
    /\ \A i \in DOMAIN sy :
           /\ sy2[i].v = sy[i].v /\ sy2[i].prev_tok = sy[i].prev_tok
           /\ sy2[i].r = "implicit" <=> sy[i].r = "implicit"
\* Whatever k means when the Syms above c are popped.
PutBack(sy, hd, hd2, lo, c, k) ==
    \/ NoneAbove(sy, lo, c, k) /\ hd2[k] = hd[k]
    \/ \E n \in 1 .. Len(lo) :
           /\ c < n /\ sy[lo[n]].v = k /\ hd2[k] = sy[lo[n]].prev_tok
           /\ \A m \in 1 .. (n - 1) : c < m => sy[lo[m]].v # k

Lex(sy, hd, gl, lo, la, en, b) ==
    /\ BasesOK(b, en, lo) /\ SymsOK(sy, gl, lo, la) /\ HeadMeans(sy, hd, en)
    /\ HidesMeaning(sy, lo, en, b) /\ LocalsThere(sy, lo, en, b)
    /\ GlobalsThere(sy, gl, en) /\ ImplicitsThere(sy, gl)

\* The scope a struct is of, and whether it has had its body.
StructsOK(sy, en) ==
    \A s \in 1 .. Len(en), v \in Name :
        LET k == <<"struct", v>>
        IN  /\ k \in DOMAIN en[s] => sy[en[s][k]].sym_scope = s - 1
            /\ <<"body", v>> \in DOMAIN en[s] <=>
                   k \in DOMAIN en[s] /\ sy[en[s][k]].r = "complete"

Decls == UNION {[D -> Syms \cup {TRUE}] : D \in SUBSET Said}
BlocksOK(bl, top) ==
    /\ \A n \in 1 .. Len(bl) : bl[n].base \in Nat /\ 0 < bl[n].base /\ bl[n].base <= top
    /\ \A m, n \in 1 .. Len(bl) : m <= n => bl[m].base <= bl[n].base
EnvOK ==
    /\ env \in Seq(Decls) /\ blocks \in Seq([base : Nat, is_expr : BOOLEAN])
    /\ pc = "file" => Len(env) = 1 /\ blocks = <<>> /\ stack["local"] = <<>>
    /\ pc = "params" => Len(env) = 2 /\ blocks = <<>>
    /\ pc = "func" => Len(env) = Len(blocks) + 1 /\ Len(env) > 1
    /\ pc # "file" => stack["local"] # <<>>
    /\ BlocksOK(blocks, Len(stack["local"]))

StackOK == stack \in [Stacks -> Seq(Syms)] /\ local_scope \in Int
SymTableOK ==
    /\ sym \in [DOMAIN sym -> SymType] /\ head \in [Key -> 0 .. MaxSyms]
    /\ DOMAIN sym \subseteq Syms
LexOK == Lex(sym, head, stack["global"], stack["local"], stack["label"], env, Bases)
ReadInv  == SymTableOK /\ EnvOK /\ LexOK
ScopeInv == local_scope = Len(env) - 1 /\ StructsOK(sym, env)

LexInv ==
    /\ StackOK
    /\ pc \in {"none", "compiled"} => stack["global"] = <<>> /\ stack["local"] = <<>>
    /\ pc \in {"none", "end", "compiled"} => blocks = <<>>
    /\ Reading => ReadInv
    /\ Reading /\ ~ tainted => ScopeInv
    /\ pc \in {"none", "end", "compiled"} /\ ~ failed /\ ~ tainted => local_scope = 0

-----------------------------------------------------------------------------
(* What the steps do to the table, the stacks and the scopes               *)

\* What a name means does not change when the scopes go on saying the same of it.
LEMMA MeansKept ==
    ASSUME NEW x, NEW k, NEW s \in Nat, NEW en, NEW en2, NEW sy, NEW sy2,
           Means(x, k, s, en, sy), Agree(en, en2, s, k),
           Implicit(x, k, sy) => Implicit(x, k, sy2)
    PROVE  Means(x, k, s, en2, sy2)
  BY DEF Means, Agree

\* An undeclared function stays one when a Sym is added.
LEMMA ImplicitGrows ==
    ASSUME NEW x, NEW k, NEW sy, NEW sy2, NEW new, Grows(sy, sy2, new), Implicit(x, k, sy)
    PROVE  Implicit(x, k, sy2)
  BY DEF Grows, Implicit

\* A Sym that is new on one of the stacks.
LEMMA SymsPushed ==
    ASSUME NEW sy, NEW sy2, NEW new, NEW gl \in Seq(Syms), NEW lo \in Seq(Syms),
           NEW la \in Seq(Syms), NEW s2 \in Seq(Syms),
           SymsOK(sy, gl, lo, la), Grows(sy, sy2, new), NotIn(la, new)
    PROVE  /\ Appended(gl, s2, new) => SymsOK(sy2, s2, lo, la)
           /\ Appended(lo, s2, new) => SymsOK(sy2, gl, s2, la)
           /\ Appended(la, s2, new) /\ sy2[new].v \in {"label"} \X Name
                => SymsOK(sy2, gl, lo, s2)
  <1>1. /\ \A n \in 1 .. Len(gl) : gl[n] # new /\ gl[n] \in DOMAIN sy2
        /\ \A n \in 1 .. Len(lo) : lo[n] # new /\ lo[n] \in DOMAIN sy2
        /\ new \in DOMAIN sy2
    BY DEF SymsOK, Grows
  <1>2. \A n \in 1 .. Len(la) : /\ la[n] # new
                                /\ la[n] \in DOMAIN sy2 => sy2[la[n]].v \in {"label"} \X Name
    BY DEF SymsOK, Grows, NotIn
  <1>3. Len(gl) \in Nat /\ Len(lo) \in Nat /\ Len(la) \in Nat
    OBVIOUS
  <1>4. ASSUME Appended(gl, s2, new) PROVE SymsOK(sy2, s2, lo, la)
    <2>1. ASSUME NEW n \in 1 .. Len(s2)
          PROVE  (\E m \in 1 .. Len(gl) : s2[n] = gl[m]) \/ s2[n] = new
      <3>1. n \in 1 .. Len(gl) \/ n = Len(gl) + 1
        BY <1>3, <1>4 DEF Appended
      <3>2. QED
        BY <1>4, <3>1 DEF Appended
    <2>2. \A n \in 1 .. Len(s2) : s2[n] \in DOMAIN sy2
      BY <1>1, <2>1
    <2>3. \A m \in 1 .. Len(s2), n \in 1 .. Len(lo) : s2[m] # lo[n]
      BY <1>1, <2>1 DEF SymsOK
    <2>4. \A n \in 1 .. Len(la) : \A m \in 1 .. Len(s2) : la[n] # s2[m]
      BY <1>2, <2>1 DEF SymsOK
    <2>5. QED
      BY <1>1, <1>2, <2>2, <2>3, <2>4 DEF SymsOK
  <1>5. ASSUME Appended(lo, s2, new) PROVE SymsOK(sy2, gl, s2, la)
    <2>1. \A n \in 1 .. Len(s2) : \/ n \in 1 .. Len(lo) /\ s2[n] = lo[n]
                                  \/ n = Len(lo) + 1 /\ s2[n] = new
      BY <1>3, <1>5 DEF Appended
    <2>2. \A n \in 1 .. Len(s2) : s2[n] \in DOMAIN sy2
      BY <1>1, <2>1
    <2>3. \A m \in 1 .. Len(gl), n \in 1 .. Len(s2) : gl[m] # s2[n]
      BY <1>1, <2>1 DEF SymsOK
    <2>4. \A n \in 1 .. Len(la) : \A m \in 1 .. Len(s2) : la[n] # s2[m]
      BY <1>2, <2>1 DEF SymsOK
    <2>5. ASSUME NEW m \in 1 .. Len(s2), NEW n \in 1 .. Len(s2), s2[m] = s2[n]
          PROVE  m = n
      <3>1. \A i, j \in 1 .. Len(lo) : lo[i] = lo[j] => i = j
        BY DEF SymsOK
      <3>2. CASE m \in 1 .. Len(lo) /\ s2[m] = lo[m]
        BY <1>1, <2>1, <2>5, <3>1, <3>2
      <3>3. CASE m = Len(lo) + 1 /\ s2[m] = new
        BY <1>1, <2>1, <2>5, <3>3
      <3>4. QED
        BY <2>1, <3>2, <3>3
    <2>6. QED
      BY <1>1, <1>2, <2>2, <2>3, <2>4, <2>5 DEF SymsOK
  <1>6. ASSUME Appended(la, s2, new), sy2[new].v \in {"label"} \X Name
        PROVE  SymsOK(sy2, gl, lo, s2)
    <2>1. \A n \in 1 .. Len(s2) : (n \in 1 .. Len(la) /\ s2[n] = la[n]) \/ s2[n] = new
      BY <1>3, <1>6 DEF Appended
    <2>2. /\ \A n \in 1 .. Len(la) : \A m \in 1 .. Len(gl) : la[n] # gl[m]
          /\ \A n \in 1 .. Len(la) : \A m \in 1 .. Len(lo) : la[n] # lo[m]
      BY Zenon DEF SymsOK
    <2>3. \A n \in 1 .. Len(s2) : s2[n] \in DOMAIN sy2 => sy2[s2[n]].v \in {"label"} \X Name
      BY <1>2, <1>6, <2>1
    <2>4. /\ \A n \in 1 .. Len(gl) : gl[n] \in DOMAIN sy2
          /\ \A n \in 1 .. Len(lo) : lo[n] \in DOMAIN sy2
      BY <1>1
    <2>5. /\ \A m, n \in 1 .. Len(lo) : lo[m] = lo[n] => m = n
          /\ \A m \in 1 .. Len(gl), n \in 1 .. Len(lo) : gl[m] # lo[n]
      BY Zenon DEF SymsOK
    <2>6. ASSUME NEW n \in 1 .. Len(s2)
          PROVE  /\ \A m \in 1 .. Len(gl) : s2[n] # gl[m]
                 /\ \A m \in 1 .. Len(lo) : s2[n] # lo[m]
                 /\ s2[n] \in DOMAIN sy2 => sy2[s2[n]].v \in {"label"} \X Name
      <3>1. ASSUME NEW m \in 1 .. Len(gl)  PROVE s2[n] # gl[m]
        BY <1>1, <2>1, <2>2
      <3>2. ASSUME NEW m \in 1 .. Len(lo)  PROVE s2[n] # lo[m]
        BY <1>1, <2>1, <2>2
      <3>3. s2[n] \in DOMAIN sy2 => sy2[s2[n]].v \in {"label"} \X Name
        BY <2>3, Zenon
      <3>4. QED
        BY <3>1, <3>2, <3>3, Zenon
    <2>7. QED
      BY <2>4, <2>5, <2>6, Zenon DEF SymsOK
  <1>7. QED
    BY <1>4, <1>5, <1>6

\* A scope that has no Sym of a name above its base declares nothing of it.
LEMMA Undeclared ==
    ASSUME NEW sy, NEW lo \in Seq(Syms), NEW en \in Seq(Decls), NEW b,
           BasesOK(b, en, lo), LocalsThere(sy, lo, en, b),
           NEW k \in Scoped, NEW s \in 2 .. Len(en), NEW x,
           NoneAbove(sy, lo, b[s], k),
           Means(x, k, Len(en), en, sy)
    PROVE  Means(x, k, s - 1, en, sy)
  <1>1. Len(en) \in Nat
    OBVIOUS
  <1>2. \A t \in s .. Len(en) : k \notin DOMAIN en[t]
    <2> SUFFICES ASSUME NEW t \in s .. Len(en), k \in DOMAIN en[t] PROVE FALSE
      OBVIOUS
    <2>1. PICK n \in 1 .. Len(lo) : sy[lo[n]].v = k /\ b[t] < n
      BY <1>1 DEF LocalsThere
    <2>2. b[s] \in Nat /\ b[t] \in Nat /\ b[s] <= b[t]
      BY <1>1 DEF BasesOK
    <2>3. b[s] < n
      BY <2>1, <2>2
    <2>4. QED
      BY <2>1, <2>3 DEF NoneAbove
  <1>3. \A n \in 1 .. Len(en) : k \in DOMAIN en[n] => n \in 1 .. (s - 1)
    BY <1>1, <1>2
  <1>4. \A n \in 1 .. (s - 1) : n \in 1 .. Len(en)
    BY <1>1
  <1>5. QED
    BY <1>3, <1>4 DEF Means

\* What the Syms that are already on the local stack hide does not change.
LEMMA HidesKept ==
    ASSUME NEW sy, NEW sy2, NEW new, NEW lo \in Seq(Syms), NEW lo2,
           NEW en \in Seq(Decls), NEW en2, NEW b,
           HidesMeaning(sy, lo, en, b), Grows(sy, sy2, new),
           Keeps(sy, lo, lo2),
           \A k \in Scoped : Agree(en, en2, Len(en) - 1, k),
           NEW s \in 2 .. Len(en), NEW n \in 1 .. Len(lo),
           b[s] < n, sy2[lo2[n]].v \in Scoped,
           \A m \in 1 .. (n - 1) : b[s] < m => sy2[lo2[m]].v # sy2[lo2[n]].v
    PROVE  Means(sy2[lo2[n]].prev_tok, sy2[lo2[n]].v, s - 1, en2, sy2)
  <1>1. Len(en) \in Nat /\ Len(lo) \in Nat
    OBVIOUS
  <1>2. \A m \in 1 .. n : m \in 1 .. Len(lo) /\ sy2[lo2[m]] = sy[lo[m]]
    BY <1>1 DEF Grows, Keeps
  <1>3. sy2[lo2[n]] = sy[lo[n]]
    BY <1>2
  <1>4. \A m \in 1 .. (n - 1) : b[s] < m => sy[lo[m]].v # sy[lo[n]].v
    BY <1>1, <1>2, <1>3
  <1> DEFINE x == sy[lo[n]].prev_tok
             k == sy[lo[n]].v
  <1>5. Means(x, k, s - 1, en, sy)
    BY <1>3, <1>4 DEF HidesMeaning
  <1>6. k \in Scoped
    BY <1>3
  <1> HIDE DEF x, k
  <1>7. Agree(en, en2, s - 1, k) /\ s - 1 \in Nat
    BY <1>1, <1>6 DEF Agree
  <1>8. Implicit(x, k, sy) => Implicit(x, k, sy2)
    BY ImplicitGrows
  <1>9. Means(x, k, s - 1, en2, sy2)
    BY <1>5, <1>7, <1>8, MeansKept
  <1>10. QED
    BY <1>3, <1>9 DEF x, k

\* What a scope declares is found where it was.
LEMMA LocalsKept ==
    ASSUME NEW sy, NEW sy2, NEW new, NEW lo \in Seq(Syms), NEW lo2,
           NEW en \in Seq(Decls), NEW b,
           LocalsThere(sy, lo, en, b), Grows(sy, sy2, new), Keeps(sy, lo, lo2),
           NEW s \in 2 .. Len(en), NEW k \in Scoped, k \in DOMAIN en[s]
    PROVE  \E n \in 1 .. Len(lo2) :
               /\ lo2[n] = en[s][k] /\ sy2[lo2[n]].v = k /\ b[s] < n
               /\ \A t \in (s + 1) .. Len(en) : n <= b[t]
  <1>1. PICK n \in 1 .. Len(lo) :
            /\ lo[n] = en[s][k] /\ sy[lo[n]].v = k /\ b[s] < n
            /\ \A t \in (s + 1) .. Len(en) : n <= b[t]
    BY DEF LocalsThere
  <1>2. n \in 1 .. Len(lo2) /\ lo2[n] = lo[n] /\ sy2[lo2[n]] = sy[lo[n]]
    BY DEF Grows, Keeps
  <1>3. QED
    BY <1>1, <1>2

\* And so is what the file declares.
LEMMA GlobalsKept ==
    ASSUME NEW sy, NEW sy2, NEW new, NEW gl \in Seq(Syms), NEW lo, NEW la, NEW en,
           GlobalsThere(sy, gl, en), SymsOK(sy, gl, lo, la), Grows(sy, sy2, new)
    PROVE  GlobalsThere(sy2, gl, en)
  <1> SUFFICES ASSUME NEW k \in Scoped \cap DOMAIN en[1]
               PROVE  \E n \in 1 .. Len(gl) : gl[n] = en[1][k] /\ sy2[gl[n]].v = k
    BY DEF GlobalsThere
  <1>1. PICK n \in 1 .. Len(gl) : gl[n] = en[1][k] /\ sy[gl[n]].v = k
    BY DEF GlobalsThere
  <1>2. gl[n] \in DOMAIN sy
    BY DEF SymsOK
  <1>3. sy2[gl[n]] = sy[gl[n]]
    BY <1>2 DEF Grows
  <1>4. QED
    BY <1>1, <1>3

\* A Sym that is pushed and declares nothing: the anonymous one of a function, or
\* a label.
LEMMA PushedAside ==
    ASSUME NEW sy, NEW sy2, NEW new, NEW hd, NEW hd2, NEW gl \in Seq(Syms),
           NEW lo \in Seq(Syms), NEW la \in Seq(Syms), NEW lo2 \in Seq(Syms),
           NEW la2 \in Seq(Syms), NEW en \in Seq(Decls), NEW b,
           Lex(sy, hd, gl, lo, la, en, b), Grows(sy, sy2, new), NotIn(la, new),
           sy2[new].v \notin Scoped, sy2[new].r # "implicit",
           \A k \in Scoped : hd2[k] = hd[k],
           \/ Appended(lo, lo2, new) /\ la2 = la
           \/ Appended(la, la2, new) /\ lo2 = lo /\ sy2[new].v \in {"label"} \X Name
    PROVE  Lex(sy2, hd2, gl, lo2, la2, en, b)
  <1>1. SymsOK(sy2, gl, lo2, la2)
    BY SymsPushed DEF Lex
  <1>2. /\ Len(en) \in Nat /\ Keeps(sy, lo, lo2)
        /\ \A n \in 1 .. Len(lo2) : n \in 1 .. Len(lo) \/ lo2[n] = new
    BY DEF Appended, Lex, SymsOK, Keeps
  <1>3. BasesOK(b, en, lo2)
    BY <1>2 DEF BasesOK, Lex, Keeps
  <1>4. HeadMeans(sy2, hd2, en)
    <2> SUFFICES ASSUME NEW k \in Scoped PROVE Means(hd2[k], k, Len(en), en, sy2)
      BY DEF HeadMeans
    <2>1. Means(hd[k], k, Len(en), en, sy) /\ hd2[k] = hd[k]
      BY DEF HeadMeans, Lex
    <2>2. Agree(en, en, Len(en), k)
      BY DEF Agree
    <2>3. QED
      BY <1>2, <2>1, <2>2, MeansKept, ImplicitGrows
  <1>5. HidesMeaning(sy2, lo2, en, b)
    <2>1. \A k \in Scoped : Agree(en, en, Len(en) - 1, k)
      BY DEF Agree
    <2> SUFFICES ASSUME NEW s \in 2 .. Len(en), NEW n \in 1 .. Len(lo2),
                        b[s] < n, sy2[lo2[n]].v \in Scoped,
                        \A m \in 1 .. (n - 1) : b[s] < m => sy2[lo2[m]].v # sy2[lo2[n]].v
                 PROVE  Means(sy2[lo2[n]].prev_tok, sy2[lo2[n]].v, s - 1, en, sy2)
      BY DEF HidesMeaning
    <2>2. n \in 1 .. Len(lo)
      BY <1>2
    <2>3. QED
      BY <1>2, <2>1, <2>2, HidesKept DEF Lex
  <1>6. LocalsThere(sy2, lo2, en, b)
    <2> SUFFICES ASSUME NEW s \in 2 .. Len(en), NEW k \in Scoped, k \in DOMAIN en[s]
                 PROVE  \E n \in 1 .. Len(lo2) :
                            /\ lo2[n] = en[s][k] /\ sy2[lo2[n]].v = k /\ b[s] < n
                            /\ \A t \in (s + 1) .. Len(en) : n <= b[t]
      BY DEF LocalsThere
    <2>1. LocalsThere(sy, lo, en, b)
      BY DEF Lex
    <2>2. QED
      BY <1>2, <2>1, LocalsKept
  <1>7. GlobalsThere(sy2, gl, en)
    BY GlobalsKept DEF Lex
  <1>8. ImplicitsThere(sy2, gl)
    BY DEF ImplicitsThere, Lex, Grows
  <1>9. QED
    BY <1>1, <1>3, <1>4, <1>5, <1>6, <1>7, <1>8 DEF Lex

\* A declaration in the innermost scope concerns one name in one scope.
LEMMA DeclaredAgree ==
    ASSUME NEW en \in Seq(Decls), NEW en2, NEW k \in Scoped, NEW x, Len(en) > 0,
           Declared(en, en2, k, x)
    PROVE  /\ \A l \in Scoped : Agree(en, en2, Len(en) - 1, l)
           /\ \A l \in Scoped : l # k => Agree(en, en2, Len(en), l)
  <1>1. Len(en) \in Nat
    OBVIOUS
  <1>2. \A n \in 1 .. Len(en) : n \in 1 .. (Len(en) - 1) \/ n = Len(en)
    BY <1>1
  <1>3. QED
    BY <1>2 DEF Declared, Agree

\* The table after a declaration in the innermost scope, wherever its Sym is.
LEMMA HeadDeclared ==
    ASSUME NEW sy, NEW sy2, NEW new, NEW hd, NEW hd2, NEW en \in Seq(Decls), NEW en2,
           NEW k \in Scoped, Len(en) > 0, HeadMeans(sy, hd, en),
           Grows(sy, sy2, new), Declared(en, en2, k, new),
           Updated(hd, hd2, k, new)
    PROVE  HeadMeans(sy2, hd2, en2)
  <1> SUFFICES ASSUME NEW l \in Scoped PROVE Means(hd2[l], l, Len(en2), en2, sy2)
    BY DEF HeadMeans
  <1>1. Len(en) \in Nat /\ Len(en2) = Len(en)
    BY DEF Declared
  <1>2. CASE l = k
    <2>1. Len(en) \in 1 .. Len(en) /\ \A m \in 1 .. Len(en) : m <= Len(en)
      BY <1>1
    <2>2. k \in DOMAIN en2[Len(en)] /\ hd2[k] = en2[Len(en)][k]
      BY DEF Declared, Updated
    <2>3. QED
      BY <1>1, <1>2, <2>1, <2>2 DEF Means, Updated
  <1>3. CASE l # k
    <2>1. Means(hd2[l], l, Len(en), en, sy)
      BY <1>3 DEF HeadMeans, Updated
    <2>2. Agree(en, en2, Len(en), l)
      BY <1>3, DeclaredAgree
    <2>3. Means(hd2[l], l, Len(en), en2, sy2)
      BY <1>1, <2>1, <2>2, MeansKept, ImplicitGrows
    <2>4. QED
      BY <1>1, <2>3
  <1>4. QED
    BY <1>2, <1>3

\* A declaration in a function or a block: the new Sym hides what the name meant,
\* which is what the scopes around say.
LEMMA DeclaredLocal ==
    ASSUME NEW sy, NEW sy2, NEW new, NEW hd, NEW hd2, NEW gl \in Seq(Syms),
           NEW lo \in Seq(Syms), NEW la \in Seq(Syms), NEW lo2 \in Seq(Syms),
           NEW en \in Seq(Decls), NEW en2 \in Seq(Decls), NEW b, NEW k \in Scoped,
           Lex(sy, hd, gl, lo, la, en, b), Grows(sy, sy2, new), NotIn(la, new),
           sy2[new].v = k, sy2[new].r # "implicit", sy2[new].prev_tok = hd[k],
           Updated(hd, hd2, k, new),
           Appended(lo, lo2, new), Len(en) > 1, Declared(en, en2, k, new)
    PROVE  Lex(sy2, hd2, gl, lo2, la, en2, b)
  <1>1. SymsOK(sy2, gl, lo2, la)
    BY SymsPushed DEF Lex
  <1>2. /\ Len(en) \in Nat /\ Len(en2) = Len(en) /\ Len(en) > 0
        /\ Keeps(sy, lo, lo2) /\ Len(lo2) = Len(lo) + 1
        /\ \A n \in 1 .. Len(lo2) : n \in 1 .. Len(lo) \/ (n = Len(lo) + 1 /\ lo2[n] = new)
    <2>1. Len(en) \in Nat /\ Len(en2) = Len(en) /\ Len(en) > 0
      BY DEF Declared
    <2>2. Len(lo) \in Nat /\ \A n \in 1 .. Len(lo) : lo[n] \in DOMAIN sy
      BY DEF Lex, SymsOK
    <2>3. Len(lo2) = Len(lo) + 1 /\ lo2[Len(lo) + 1] = new
          /\ \A n \in 1 .. Len(lo) : lo2[n] = lo[n]
      BY DEF Appended
    <2>4. Keeps(sy, lo, lo2)
      BY <2>2, <2>3 DEF Keeps
    <2>5. ASSUME NEW n \in 1 .. Len(lo2)
          PROVE  n \in 1 .. Len(lo) \/ (n = Len(lo) + 1 /\ lo2[n] = new)
      <3>1. n \in 1 .. (Len(lo) + 1)
        BY <2>3
      <3>2. n \in 1 .. Len(lo) \/ n = Len(lo) + 1
        BY <2>2, <3>1
      <3>3. CASE n = Len(lo) + 1
        BY <2>3, <3>3, Zenon
      <3>4. QED
        BY <3>2, <3>3, Zenon
    <2>6. QED
      BY <2>1, <2>3, <2>4, <2>5
  <1>3. BasesOK(b, en2, lo2)
    BY <1>2 DEF BasesOK, Lex, Keeps
  <1>4. HeadMeans(sy2, hd2, en2)
    BY <1>2, HeadDeclared DEF Lex
  <1>5. HidesMeaning(sy2, lo2, en2, b)
    <2> SUFFICES ASSUME NEW s \in 2 .. Len(en2), NEW n \in 1 .. Len(lo2),
                        b[s] < n, sy2[lo2[n]].v \in Scoped,
                        \A m \in 1 .. (n - 1) : b[s] < m => sy2[lo2[m]].v # sy2[lo2[n]].v
                 PROVE  Means(sy2[lo2[n]].prev_tok, sy2[lo2[n]].v, s - 1, en2, sy2)
      BY DEF HidesMeaning
    <2>1. \A l \in Scoped : Agree(en, en2, Len(en) - 1, l)
      BY <1>2, DeclaredAgree
    <2>2. CASE n \in 1 .. Len(lo)
      BY <1>2, <2>1, <2>2, HidesKept DEF Lex
    <2>3. CASE n = Len(lo) + 1 /\ lo2[n] = new
      <3>1. NoneAbove(sy, lo, b[s], k)
        <4> SUFFICES ASSUME NEW m \in 1 .. Len(lo), b[s] < m PROVE sy[lo[m]].v # k
          BY DEF NoneAbove
        <4>1. lo2[m] = lo[m] /\ sy2[lo2[m]] = sy[lo[m]] /\ m \in 1 .. (n - 1)
          BY <1>2, <2>3 DEF Keeps, Grows
        <4>2. QED
          BY <2>3, <4>1
      <3>2. Means(hd[k], k, Len(en), en, sy)
        BY DEF Lex, HeadMeans
      <3>3. s \in 2 .. Len(en)
        BY <1>2
      <3>4. Means(hd[k], k, s - 1, en, sy)
        <4>1. BasesOK(b, en, lo) /\ LocalsThere(sy, lo, en, b)
          BY DEF Lex
        <4>2. QED
          BY <3>1, <3>2, <3>3, <4>1, Undeclared
      <3>5. Agree(en, en2, s - 1, k) /\ s - 1 \in Nat
        <4>1. s - 1 \in Nat /\ \A i \in 1 .. (s - 1) : i \in 1 .. (Len(en) - 1)
          BY <1>2, <3>3
        <4>2. QED
          BY <2>1, <4>1 DEF Agree
      <3>6. Means(hd[k], k, s - 1, en2, sy2)
        BY <3>4, <3>5, MeansKept, ImplicitGrows
      <3>7. QED
        BY <2>3, <3>6
    <2>4. QED
      BY <1>2, <2>2, <2>3
  <1>6. LocalsThere(sy2, lo2, en2, b)
    <2> SUFFICES ASSUME NEW s \in 2 .. Len(en2), NEW l \in Scoped, l \in DOMAIN en2[s]
                 PROVE  \E n \in 1 .. Len(lo2) :
                            /\ lo2[n] = en2[s][l] /\ sy2[lo2[n]].v = l /\ b[s] < n
                            /\ \A t \in (s + 1) .. Len(en2) : n <= b[t]
      BY DEF LocalsThere
    <2>1. LocalsThere(sy, lo, en, b)
      BY DEF Lex
    <2>2. CASE s = Len(en) /\ l = k
      <3>1. Len(lo) + 1 \in 1 .. Len(lo2) /\ lo2[Len(lo) + 1] = en2[s][l]
        BY <1>2, <2>2 DEF Declared, Keeps, Appended
      <3>2. b[s] < Len(lo) + 1
        BY <1>2 DEF BasesOK, Lex, Keeps
      <3>3. lo2[Len(lo) + 1] = new /\ (s + 1) .. Len(en2) = {}
        BY <1>2, <2>2 DEF Appended
      <3>4. QED
        BY <2>2, <3>1, <3>2, <3>3
    <2>3. CASE ~ (s = Len(en) /\ l = k)
      <3>1. l \in DOMAIN en[s] /\ en2[s][l] = en[s][l] /\ s \in 2 .. Len(en)
        <4>1. s \in 2 .. Len(en) /\ (s = Len(en) \/ s \in 1 .. (Len(en) - 1))
          BY <1>2
        <4>2. CASE s = Len(en)
          <5>1. l # k
            BY <2>3, <4>2
          <5>2. l \in DOMAIN en[Len(en)] /\ en2[Len(en)][l] = en[Len(en)][l]
            BY <4>2, <5>1 DEF Declared
          <5>3. QED
            BY <4>1, <4>2, <5>2
        <4>3. CASE s \in 1 .. (Len(en) - 1)
          <5>1. en2[s] = en[s]
            BY <4>3 DEF Declared
          <5>2. QED
            BY <4>1, <5>1
        <4>4. QED
          BY <4>1, <4>2, <4>3
      <3>2. \E n \in 1 .. Len(lo2) :
                /\ lo2[n] = en[s][l] /\ sy2[lo2[n]].v = l /\ b[s] < n
                /\ \A t \in (s + 1) .. Len(en) : n <= b[t]
        <4>1. Keeps(sy, lo, lo2)
          BY <1>2
        <4>2. QED
          BY <2>1, <3>1, <4>1, LocalsKept
      <3>3. QED
        BY <1>2, <3>1, <3>2
    <2>4. QED
      BY <2>2, <2>3
  <1>7. GlobalsThere(sy2, gl, en2)
    <2>1. GlobalsThere(sy2, gl, en)
      BY GlobalsKept DEF Lex
    <2>2. 1 \in 1 .. (Len(en) - 1)
      BY <1>2
    <2>3. en2[1] = en[1]
      BY <2>2, Zenon DEF Declared
    <2>4. QED
      BY <2>1, <2>3 DEF GlobalsThere
  <1>8. ImplicitsThere(sy2, gl)
    BY DEF ImplicitsThere, Lex, Grows
  <1>9. QED
    BY <1>1, <1>3, <1>4, <1>5, <1>6, <1>7, <1>8 DEF Lex

\* The same at file level, where there is no local stack yet.
LEMMA DeclaredGlobal ==
    ASSUME NEW sy, NEW sy2, NEW new, NEW hd, NEW hd2, NEW gl \in Seq(Syms),
           NEW lo \in Seq(Syms), NEW la \in Seq(Syms), NEW gl2 \in Seq(Syms),
           NEW en \in Seq(Decls), NEW en2 \in Seq(Decls), NEW b, NEW k \in Scoped,
           Lex(sy, hd, gl, lo, la, en, b), Grows(sy, sy2, new), NotIn(la, new),
           sy2[new].v = k, sy2[new].r # "implicit",
           Updated(hd, hd2, k, new),
           Appended(gl, gl2, new), Len(en) = 1, Declared(en, en2, k, new)
    PROVE  Lex(sy2, hd2, gl2, lo, la, en2, b)
  <1>1. SymsOK(sy2, gl2, lo, la)
    BY SymsPushed DEF Lex
  <1>2. Len(en) > 0 /\ Len(en2) = 1 /\ Len(gl) \in Nat /\ Len(gl2) = Len(gl) + 1
    BY DEF Declared, Appended
  <1>3. BasesOK(b, en2, lo)
    BY <1>2 DEF BasesOK, Lex
  <1>4. HeadMeans(sy2, hd2, en2)
    <2>1. HeadMeans(sy, hd, en) /\ Len(en) > 0
      BY <1>2 DEF Lex
    <2>2. QED
      BY <2>1, HeadDeclared
  <1>5. HidesMeaning(sy2, lo, en2, b) /\ LocalsThere(sy2, lo, en2, b)
    BY <1>2 DEF HidesMeaning, LocalsThere
  <1>6. GlobalsThere(sy2, gl2, en2)
    <2> SUFFICES ASSUME NEW l \in Scoped, l \in DOMAIN en2[1]
                 PROVE  \E n \in 1 .. Len(gl2) : gl2[n] = en2[1][l] /\ sy2[gl2[n]].v = l
      BY DEF GlobalsThere
    <2>1. CASE l = k
      <3>1. Len(gl) + 1 \in 1 .. Len(gl2) /\ gl2[Len(gl) + 1] = new
        BY <1>2 DEF Appended
      <3>2. en2[1][k] = new
        BY DEF Declared
      <3>3. QED
        BY <2>1, <3>1, <3>2
    <2>2. CASE l # k
      <3>1. l \in DOMAIN en[1] /\ en2[1][l] = en[1][l]
        BY <2>2 DEF Declared
      <3>2. GlobalsThere(sy2, gl, en)
        BY GlobalsKept DEF Lex
      <3>3. PICK n \in 1 .. Len(gl) : gl[n] = en[1][l] /\ sy2[gl[n]].v = l
        BY <3>1, <3>2 DEF GlobalsThere
      <3>4. n \in 1 .. Len(gl2) /\ gl2[n] = gl[n]
        BY <1>2 DEF Appended
      <3>5. QED
        BY <3>1, <3>3, <3>4
    <2>3. QED
      BY <2>1, <2>2
  <1>7. ImplicitsThere(sy2, gl2)
    <2> SUFFICES ASSUME NEW i \in DOMAIN sy2, sy2[i].r = "implicit"
                 PROVE  /\ sy2[i].v \in {"identifier"} \X Name
                        /\ \E n \in 1 .. Len(gl2) : gl2[n] = i
      BY DEF ImplicitsThere
    <2>1. i \in DOMAIN sy /\ sy2[i] = sy[i]
      BY DEF Grows
    <2>2. PICK n \in 1 .. Len(gl) : gl[n] = i
      BY <2>1 DEF Lex, ImplicitsThere
    <2>3. n \in 1 .. Len(gl2) /\ gl2[n] = i
      BY <1>2, <2>2 DEF Appended
    <2>4. QED
      BY <2>1, <2>3 DEF Lex, ImplicitsThere
  <1>8. QED
    BY <1>1, <1>3, <1>4, <1>5, <1>6, <1>7 DEF Lex

\* A function that is called undeclared.
LEMMA CalledUndeclared ==
    ASSUME NEW sy, NEW sy2, NEW new, NEW hd, NEW hd2, NEW gl \in Seq(Syms),
           NEW lo \in Seq(Syms), NEW la \in Seq(Syms), NEW gl2 \in Seq(Syms),
           NEW en \in Seq(Decls), NEW b, NEW k \in {"identifier"} \X Name, Len(en) > 0,
           Lex(sy, hd, gl, lo, la, en, b), Grows(sy, sy2, new), NotIn(la, new),
           sy2[new].v = k, sy2[new].r = "implicit", hd[k] = NULL,
           Updated(hd, hd2, k, new),
           Appended(gl, gl2, new)
    PROVE  Lex(sy2, hd2, gl2, lo, la, en, b)
  <1>1. SymsOK(sy2, gl2, lo, la)
    BY SymsPushed DEF Lex
  <1>2. Len(en) \in Nat /\ Len(gl) \in Nat /\ Len(gl2) = Len(gl) + 1 /\ k \in Scoped
        /\ Keeps(sy, lo, lo) /\ \A l : Agree(en, en, Len(en), l) /\ Agree(en, en, Len(en) - 1, l)
    BY DEF Appended, Scoped, Space, Keeps, Agree, Lex, SymsOK
  <1>3. \A n \in 1 .. Len(en) : k \notin DOMAIN en[n]
    <2> SUFFICES ASSUME NEW n \in 1 .. Len(en), k \in DOMAIN en[n] PROVE FALSE
      OBVIOUS
    <2>1. Means(hd[k], k, Len(en), en, sy)
      BY <1>2 DEF Lex, HeadMeans
    <2>2. PICK t \in 1 .. Len(en) : k \in DOMAIN en[t] /\ en[t][k] = NULL
      BY <2>1 DEF Means
    <2>3. CASE t = 1
      <3>1. k \in Scoped \cap DOMAIN en[1] /\ en[1][k] = NULL
        BY <1>2, <2>2, <2>3
      <3>2. PICK m \in 1 .. Len(gl) : gl[m] = en[1][k]
        BY <3>1 DEF Lex, GlobalsThere
      <3>3. gl[m] \in Syms
        OBVIOUS
      <3>4. QED
        BY <3>1, <3>2, <3>3 DEF Syms, NULL
    <2>4. CASE t # 1
      <3>1. t \in 2 .. Len(en)
        BY <1>2, <2>4
      <3>2. PICK m \in 1 .. Len(lo) : lo[m] = NULL
        <4>1. k \in Scoped \cap DOMAIN en[t] /\ en[t][k] = NULL
          BY <1>2, <2>2
        <4>2. \E m \in 1 .. Len(lo) : lo[m] = en[t][k]
          BY <3>1, <4>1 DEF Lex, LocalsThere
        <4>3. QED
          BY <4>1, <4>2
      <3>3. lo[m] \in Syms
        OBVIOUS
      <3>4. QED
        BY <3>2, <3>3 DEF Syms, NULL
    <2>5. QED
      BY <2>3, <2>4
  <1>4. HeadMeans(sy2, hd2, en)
    <2> SUFFICES ASSUME NEW l \in Scoped PROVE Means(hd2[l], l, Len(en), en, sy2)
      BY DEF HeadMeans
    <2>1. CASE l = k
      BY <1>3, <2>1 DEF Means, Implicit, Grows, Updated
    <2>2. CASE l # k
      <3>1. Means(hd2[l], l, Len(en), en, sy)
        BY <2>2 DEF HeadMeans, Lex, Updated
      <3>2. QED
        BY <1>2, <3>1, MeansKept, ImplicitGrows
    <2>3. QED
      BY <2>1, <2>2
  <1>5. HidesMeaning(sy2, lo, en, b)
    <2> SUFFICES ASSUME NEW s \in 2 .. Len(en), NEW n \in 1 .. Len(lo),
                        b[s] < n, sy2[lo[n]].v \in Scoped,
                        \A m \in 1 .. (n - 1) : b[s] < m => sy2[lo[m]].v # sy2[lo[n]].v
                 PROVE  Means(sy2[lo[n]].prev_tok, sy2[lo[n]].v, s - 1, en, sy2)
      BY DEF HidesMeaning
    <2>1. QED
      BY <1>2, HidesKept DEF Lex
  <1>6. LocalsThere(sy2, lo, en, b)
    <2> SUFFICES ASSUME NEW s \in 2 .. Len(en), NEW l \in Scoped, l \in DOMAIN en[s]
                 PROVE  \E n \in 1 .. Len(lo) :
                            /\ lo[n] = en[s][l] /\ sy2[lo[n]].v = l /\ b[s] < n
                            /\ \A t \in (s + 1) .. Len(en) : n <= b[t]
      BY DEF LocalsThere
    <2>1. LocalsThere(sy, lo, en, b)
      BY DEF Lex
    <2>2. QED
      BY <1>2, <2>1, LocalsKept
  <1>7. GlobalsThere(sy2, gl2, en)
    <2> SUFFICES ASSUME NEW l \in Scoped, l \in DOMAIN en[1]
                 PROVE  \E n \in 1 .. Len(gl2) : gl2[n] = en[1][l] /\ sy2[gl2[n]].v = l
      BY DEF GlobalsThere
    <2>1. GlobalsThere(sy2, gl, en)
      BY GlobalsKept DEF Lex
    <2>2. PICK n \in 1 .. Len(gl) : gl[n] = en[1][l] /\ sy2[gl[n]].v = l
      BY <2>1 DEF GlobalsThere
    <2>3. n \in 1 .. Len(gl2) /\ gl2[n] = gl[n]
      BY <1>2 DEF Appended
    <2>4. QED
      BY <2>2, <2>3
  <1>8. ImplicitsThere(sy2, gl2)
    <2> SUFFICES ASSUME NEW i \in DOMAIN sy2, sy2[i].r = "implicit"
                 PROVE  /\ sy2[i].v \in {"identifier"} \X Name
                        /\ \E n \in 1 .. Len(gl2) : gl2[n] = i
      BY DEF ImplicitsThere
    <2>1. CASE i = new
      <3>1. Len(gl) + 1 \in 1 .. Len(gl2) /\ gl2[Len(gl) + 1] = i
        BY <1>2, <2>1 DEF Appended
      <3>2. QED
        BY <2>1, <3>1
    <2>2. CASE i # new
      <3>1. i \in DOMAIN sy /\ sy2[i] = sy[i]
        BY <2>2 DEF Grows
      <3>2. PICK n \in 1 .. Len(gl) : gl[n] = i
        BY <3>1 DEF Lex, ImplicitsThere
      <3>3. n \in 1 .. Len(gl2) /\ gl2[n] = i
        BY <1>2, <3>2 DEF Appended
      <3>4. QED
        BY <3>1, <3>3 DEF Lex, ImplicitsThere
    <2>3. QED
      BY <2>1, <2>2
  <1>9. BasesOK(b, en, lo)
    BY DEF Lex
  <1>10. QED
    BY <1>1, <1>4, <1>5, <1>6, <1>7, <1>8, <1>9 DEF Lex

\* A struct gets its body, a label its place.
LEMMA Marked ==
    ASSUME NEW sy, NEW sy2, NEW hd, NEW gl \in Seq(Syms), NEW lo \in Seq(Syms),
           NEW la \in Seq(Syms), NEW en \in Seq(Decls), NEW en2, NEW b,
           Lex(sy, hd, gl, lo, la, en, b), Retyped(sy, sy2), Len(en2) = Len(en),
           \A k \in Scoped : Agree(en, en2, Len(en), k), Len(en) > 0
    PROVE  Lex(sy2, hd, gl, lo, la, en2, b)
  <1>1. SymsOK(sy2, gl, lo, la)
    BY DEF SymsOK, Retyped, Lex
  <1>2. /\ \A x, k : Implicit(x, k, sy) => Implicit(x, k, sy2)
        /\ \A n \in 1 .. Len(lo) : /\ sy2[lo[n]].v = sy[lo[n]].v
                                   /\ sy2[lo[n]].prev_tok = sy[lo[n]].prev_tok
        /\ \A n \in 1 .. Len(gl) : sy2[gl[n]].v = sy[gl[n]].v
        /\ Len(en) \in Nat /\ Len(lo) \in Nat
    BY DEF SymsOK, Retyped, Lex, Implicit
  <1>3. BasesOK(b, en2, lo)
    BY DEF BasesOK, Lex
  <1>4. HeadMeans(sy2, hd, en2)
    <2> SUFFICES ASSUME NEW k \in Scoped PROVE Means(hd[k], k, Len(en), en2, sy2)
      BY DEF HeadMeans
    <2>1. Means(hd[k], k, Len(en), en, sy)
      BY DEF HeadMeans, Lex
    <2>2. QED
      BY <1>2, <2>1, MeansKept
  <1>5. HidesMeaning(sy2, lo, en2, b)
    <2> SUFFICES ASSUME NEW s \in 2 .. Len(en), NEW n \in 1 .. Len(lo),
                        b[s] < n, sy2[lo[n]].v \in Scoped,
                        \A m \in 1 .. (n - 1) : b[s] < m => sy2[lo[m]].v # sy2[lo[n]].v
                 PROVE  Means(sy2[lo[n]].prev_tok, sy2[lo[n]].v, s - 1, en2, sy2)
      BY DEF HidesMeaning
    <2> DEFINE x == sy[lo[n]].prev_tok
               k == sy[lo[n]].v
    <2>1. \A m \in 1 .. (n - 1) : b[s] < m => sy[lo[m]].v # sy[lo[n]].v
      BY <1>2
    <2>2. Means(x, k, s - 1, en, sy) /\ k \in Scoped
      BY <1>2, <2>1 DEF HidesMeaning, Lex
    <2> HIDE DEF x, k
    <2>3. s - 1 \in Nat /\ Agree(en, en2, s - 1, k)
      BY <1>2, <2>2 DEF Agree
    <2>4. Means(x, k, s - 1, en2, sy2)
      BY <1>2, <2>2, <2>3, MeansKept
    <2>5. QED
      BY <1>2, <2>4 DEF x, k
  <1>6. LocalsThere(sy2, lo, en2, b)
    <2> SUFFICES ASSUME NEW s \in 2 .. Len(en), NEW k \in Scoped, k \in DOMAIN en2[s]
                 PROVE  \E n \in 1 .. Len(lo) :
                            /\ lo[n] = en2[s][k] /\ sy2[lo[n]].v = k /\ b[s] < n
                            /\ \A t \in (s + 1) .. Len(en) : n <= b[t]
      BY DEF LocalsThere
    <2>1. s \in 1 .. Len(en)
      BY <1>2
    <2>2. k \in DOMAIN en[s] /\ en2[s][k] = en[s][k]
      BY <2>1 DEF Agree
    <2>3. PICK n \in 1 .. Len(lo) :
            /\ lo[n] = en[s][k] /\ sy[lo[n]].v = k /\ b[s] < n
            /\ \A t \in (s + 1) .. Len(en) : n <= b[t]
      BY <2>2 DEF LocalsThere, Lex
    <2>4. QED
      BY <1>2, <2>2, <2>3
  <1>7. GlobalsThere(sy2, gl, en2)
    <2> SUFFICES ASSUME NEW k \in Scoped, k \in DOMAIN en2[1]
                 PROVE  \E n \in 1 .. Len(gl) : gl[n] = en2[1][k] /\ sy2[gl[n]].v = k
      BY DEF GlobalsThere
    <2>1. 1 \in 1 .. Len(en)
      BY <1>2
    <2>2. k \in DOMAIN en[1] /\ en2[1][k] = en[1][k]
      BY <2>1 DEF Agree
    <2>3. PICK n \in 1 .. Len(gl) : gl[n] = en[1][k] /\ sy[gl[n]].v = k
      BY <2>2 DEF GlobalsThere, Lex
    <2>4. QED
      BY <1>2, <2>2, <2>3
  <1>8. ImplicitsThere(sy2, gl)
    BY DEF ImplicitsThere, Lex, Retyped
  <1>9. QED
    BY <1>1, <1>3, <1>4, <1>5, <1>6, <1>7, <1>8 DEF Lex

\* A scope is opened: its Syms will be above what is on the local stack.
LEMMA Opened ==
    ASSUME NEW sy, NEW hd, NEW gl \in Seq(Syms), NEW lo \in Seq(Syms),
           NEW la \in Seq(Syms), NEW en \in Seq(Decls), NEW en2, NEW b, NEW b2,
           Lex(sy, hd, gl, lo, la, en, b), Appended(en, en2, Nothing), Len(en) > 0,
           \A n \in 1 .. Len(en) : b2[n] = b[n],
           b2[Len(en) + 1] = Len(lo)
    PROVE  Lex(sy, hd, gl, lo, la, en2, b2)
  <1>1. /\ Len(en) \in Nat /\ Len(lo) \in Nat /\ Len(en2) = Len(en) + 1
        /\ \A n \in 1 .. Len(en2) : n \in 1 .. Len(en) \/ n = Len(en2)
        /\ \A k : k \notin DOMAIN en2[Len(en2)]
    <2>1. Len(en) \in Nat /\ Len(lo) \in Nat
      OBVIOUS
    <2>2. en2[Len(en2)] = Nothing /\ Len(en2) = Len(en) + 1
      BY Zenon DEF Appended
    <2>3. \A k : k \notin DOMAIN Nothing
      BY DEF Nothing
    <2>4. QED
      BY <2>1, <2>2, <2>3
  <1>2. \A k : Agree(en, en2, Len(en), k)
    BY DEF Appended, Agree
  <1>3. BasesOK(b2, en2, lo)
    <2> SUFFICES ASSUME NEW s \in 1 .. Len(en2), NEW t \in 1 .. Len(en2), s <= t
                 PROVE  b2[s] \in Nat /\ b2[s] <= b2[t] /\ b2[t] <= Len(lo)
      BY DEF BasesOK
    <2>1. \A i \in 1 .. Len(en) : b2[i] \in Nat /\ b2[i] <= Len(lo)
      BY <1>1 DEF BasesOK, Lex
    <2>2. CASE t \in 1 .. Len(en)
      <3>1. s \in 1 .. Len(en)
        BY <1>1, <2>2
      <3>2. b[s] <= b[t] /\ b2[s] = b[s] /\ b2[t] = b[t]
        BY <2>2, <3>1 DEF BasesOK, Lex
      <3>3. QED
        BY <2>1, <2>2, <3>1, <3>2
    <2>3. CASE t = Len(en2)
      <3>1. b2[t] = Len(lo)
        BY <1>1, <2>3
      <3>2. s \in 1 .. Len(en) \/ s = t
        BY <1>1, <2>3
      <3>3. QED
        BY <1>1, <2>1, <3>1, <3>2
    <2>4. QED
      BY <1>1, <2>2, <2>3
  <1>4. HeadMeans(sy, hd, en2)
    <2> SUFFICES ASSUME NEW k \in Scoped PROVE Means(hd[k], k, Len(en2), en2, sy)
      BY DEF HeadMeans
    <2>1. Means(hd[k], k, Len(en), en, sy)
      BY DEF HeadMeans, Lex
    <2>2. Means(hd[k], k, Len(en), en2, sy)
      BY <1>1, <1>2, <2>1, MeansKept
    <2>3. \A n \in 1 .. Len(en2) : k \in DOMAIN en2[n] => n \in 1 .. Len(en)
      BY <1>1
    <2>4. \A n \in 1 .. Len(en) : n \in 1 .. Len(en2)
      BY <1>1
    <2>5. QED
      BY <2>2, <2>3, <2>4 DEF Means
  <1>5. HidesMeaning(sy, lo, en2, b2)
    <2> SUFFICES ASSUME NEW s \in 2 .. Len(en2), NEW n \in 1 .. Len(lo),
                        b2[s] < n, sy[lo[n]].v \in Scoped,
                        \A m \in 1 .. (n - 1) : b2[s] < m => sy[lo[m]].v # sy[lo[n]].v
                 PROVE  Means(sy[lo[n]].prev_tok, sy[lo[n]].v, s - 1, en2, sy)
      BY DEF HidesMeaning
    <2>1. s # Len(en2)
      BY <1>1
    <2>2. s \in 2 .. Len(en) /\ b2[s] = b[s]
      BY <1>1, <2>1
    <2> DEFINE x == sy[lo[n]].prev_tok
               k == sy[lo[n]].v
    <2>3. Means(x, k, s - 1, en, sy)
      BY <2>2 DEF HidesMeaning, Lex
    <2> HIDE DEF x, k
    <2>4. s - 1 \in Nat /\ Agree(en, en2, s - 1, k)
      <3>1. s - 1 \in Nat /\ \A i \in 1 .. (s - 1) : i \in 1 .. Len(en)
        BY <1>1, <2>2
      <3>2. QED
        BY <1>2, <3>1 DEF Agree
    <2>5. Means(x, k, s - 1, en2, sy)
      BY <2>3, <2>4, MeansKept
    <2>6. QED
      BY <2>5 DEF x, k
  <1>6. LocalsThere(sy, lo, en2, b2)
    <2> SUFFICES ASSUME NEW s \in 2 .. Len(en2), NEW k \in Scoped, k \in DOMAIN en2[s]
                 PROVE  \E n \in 1 .. Len(lo) :
                            /\ lo[n] = en2[s][k] /\ sy[lo[n]].v = k /\ b2[s] < n
                            /\ \A t \in (s + 1) .. Len(en2) : n <= b2[t]
      BY DEF LocalsThere
    <2>1. s # Len(en2)
      BY <1>1
    <2>2. s \in 2 .. Len(en) /\ s \in 1 .. Len(en)
      BY <1>1, <2>1
    <2>3. k \in DOMAIN en[s] /\ en2[s][k] = en[s][k] /\ b2[s] = b[s]
      BY <1>2, <2>2 DEF Agree
    <2>4. PICK n \in 1 .. Len(lo) :
            /\ lo[n] = en[s][k] /\ sy[lo[n]].v = k /\ b[s] < n
            /\ \A t \in (s + 1) .. Len(en) : n <= b[t]
      BY <2>2, <2>3 DEF LocalsThere, Lex
    <2>5. ASSUME NEW t \in (s + 1) .. Len(en2) PROVE n <= b2[t]
      <3>1. CASE t = Len(en2)
        BY <1>1, <3>1
      <3>2. CASE t # Len(en2)
        <4>1. t \in (s + 1) .. Len(en) /\ t \in 1 .. Len(en)
          BY <1>1, <2>2, <3>2
        <4>2. QED
          BY <2>4, <4>1
      <3>3. QED
        BY <3>1, <3>2
    <2>6. QED
      BY <2>3, <2>4, <2>5
  <1>7. GlobalsThere(sy, gl, en2)
    <2>1. en2[1] = en[1]
      BY <1>1 DEF Appended
    <2>2. QED
      BY <2>1 DEF GlobalsThere, Lex
  <1>8. QED
    BY <1>3, <1>4, <1>5, <1>6, <1>7 DEF Lex

\* A scope is closed, and what it declared is forgotten: its Syms leave the table,
\* and maybe the stack; the scopes up to t stay open.
LeavesOpen(en, en2, b, b2, t) ==
    Len(en2) = t /\ \A n \in 1 .. t : en2[n] = en[n] /\ b2[n] = b[n]
LeavesThere(sy, sy2, gl, lo, lo2, c) ==
    /\ DOMAIN sy2 \subseteq DOMAIN sy /\ \A i \in DOMAIN sy2 : sy2[i] = sy[i]
    /\ \A n \in 1 .. Len(gl) : gl[n] \in DOMAIN sy2
    /\ c <= Len(lo2) /\ Len(lo2) <= Len(lo)
    /\ \A n \in 1 .. Len(lo2) : lo2[n] = lo[n] /\ lo[n] \in DOMAIN sy2
PutsBack(sy, hd, hd2, lo, c) == \A k \in Scoped : PutBack(sy, hd, hd2, lo, c, k)
\* A scope is closed, and what it declared is forgotten.
LEMMA Closed ==
    ASSUME NEW sy, NEW sy2, NEW hd, NEW hd2, NEW gl \in Seq(Syms),
           NEW lo \in Seq(Syms), NEW lo2 \in Seq(Syms), NEW la \in Seq(Syms),
           NEW la2 \in Seq(Syms), NEW en \in Seq(Decls), NEW en2, NEW b, NEW b2,
           Lex(sy, hd, gl, lo, la, en, b),
           NEW t \in 1 .. (Len(en) - 1), LeavesOpen(en, en2, b, b2, t),
           LeavesThere(sy, sy2, gl, lo, lo2, b[t + 1]), la2 = la \/ Len(la2) = 0,
           PutsBack(sy, hd, hd2, lo, b[t + 1])
    PROVE  Lex(sy2, hd2, gl, lo2, la2, en2, b2)
  <1> USE DEF LeavesOpen, LeavesThere, PutsBack
  <1>1. /\ Len(en) \in Nat /\ Len(lo) \in Nat /\ Len(lo2) \in Nat /\ t + 1 \in 2 .. Len(en)
        /\ t \in Nat /\ \A n \in 1 .. t : n \in 1 .. Len(en)
        /\ \A n \in 1 .. Len(lo2) : n \in 1 .. Len(lo)
    OBVIOUS
  <1>2. \A n \in 1 .. Len(gl) : sy2[gl[n]] = sy[gl[n]] /\ gl[n] \in DOMAIN sy
    OBVIOUS
  <1>3. \A n \in 1 .. Len(lo2) : /\ lo2[n] \in DOMAIN sy2 /\ lo2[n] = lo[n]
                                 /\ sy2[lo2[n]] = sy[lo[n]] /\ lo[n] \in DOMAIN sy
    OBVIOUS
  <1>4. SymsOK(sy2, gl, lo2, la2)
    <2>1. /\ \A m, n \in 1 .. Len(lo2) : lo2[m] = lo2[n] => m = n
          /\ \A m \in 1 .. Len(gl), n \in 1 .. Len(lo2) : gl[m] # lo2[n]
      BY <1>1, <1>3 DEF SymsOK, Lex
    <2>2. \A n \in 1 .. Len(la2) :
              /\ \A m \in 1 .. Len(gl) : la2[n] # gl[m]
              /\ \A m \in 1 .. Len(lo2) : la2[n] # lo2[m]
              /\ la2[n] \in DOMAIN sy2 => sy2[la2[n]].v \in {"label"} \X Name
      <3>1. CASE la2 = la
        <4>1. SymsOK(sy, gl, lo, la)
          BY DEF Lex
        <4>2. QED
          BY <1>1, <1>3, <3>1, <4>1 DEF SymsOK
      <3>2. CASE Len(la2) = 0
        <4>1. 1 .. Len(la2) = {}
          BY <3>2
        <4>2. QED
          BY <4>1
      <3>3. QED
        BY <3>1, <3>2
    <2>3. QED
      BY <1>2, <1>3, <2>1, <2>2 DEF SymsOK
  <1>5. BasesOK(b2, en2, lo2)
    <2> SUFFICES ASSUME NEW r \in 1 .. t, NEW s \in 1 .. t, r <= s
                 PROVE  b2[r] \in Nat /\ b2[r] <= b2[s] /\ b2[s] <= Len(lo2)
      BY DEF BasesOK
    <2>1. b2[r] = b[r] /\ b2[s] = b[s] /\ r \in 1 .. Len(en) /\ s \in 1 .. Len(en)
          /\ t + 1 \in 1 .. Len(en) /\ s <= t + 1
      BY <1>1
    <2>2. b[r] \in Nat /\ b[r] <= b[s] /\ b[s] \in Nat /\ b[s] <= b[t + 1] /\ b[t + 1] \in Nat
      BY <2>1 DEF BasesOK, Lex
    <2>3. QED
      BY <1>1, <2>1, <2>2
  <1>6. \A x, k : Implicit(x, k, sy) => Implicit(x, k, sy2)
    BY <1>2 DEF Implicit, ImplicitsThere, Lex
  <1>7. \A k : Agree(en, en2, t, k)
    BY DEF Agree
  <1>8. HeadMeans(sy2, hd2, en2)
    <2> SUFFICES ASSUME NEW k \in Scoped PROVE Means(hd2[k], k, t, en2, sy2)
      BY DEF HeadMeans
    <2>1. PutBack(sy, hd, hd2, lo, b[t + 1], k)
      OBVIOUS
    <2>2. CASE NoneAbove(sy, lo, b[t + 1], k) /\ hd2[k] = hd[k]
      <3>1. Means(hd[k], k, Len(en), en, sy) /\ BasesOK(b, en, lo) /\ LocalsThere(sy, lo, en, b)
        BY DEF HeadMeans, Lex
      <3>2. Means(hd[k], k, (t + 1) - 1, en, sy)
        BY <1>1, <2>2, <3>1, Undeclared
      <3>3. Means(hd2[k], k, t, en, sy)
        BY <1>1, <2>2, <3>2
      <3>4. QED
        BY <1>1, <1>6, <1>7, <3>3, MeansKept
    <2>3. ASSUME NEW n \in 1 .. Len(lo), b[t + 1] < n, sy[lo[n]].v = k,
                 hd2[k] = sy[lo[n]].prev_tok,
                 \A m \in 1 .. (n - 1) : b[t + 1] < m => sy[lo[m]].v # k
          PROVE  Means(hd2[k], k, t, en2, sy2)
      <3>1. HidesMeaning(sy, lo, en, b)
        BY DEF Lex
      <3>2. Means(sy[lo[n]].prev_tok, sy[lo[n]].v, (t + 1) - 1, en, sy)
        BY <1>1, <2>3, <3>1 DEF HidesMeaning
      <3>3. Means(hd2[k], k, t, en, sy)
        BY <1>1, <2>3, <3>2
      <3>4. QED
        BY <1>1, <1>6, <1>7, <3>3, MeansKept
    <2>4. QED
      BY <2>1, <2>2, <2>3 DEF PutBack
  <1>9. HidesMeaning(sy2, lo2, en2, b2)
    <2> SUFFICES ASSUME NEW s \in 2 .. t, NEW n \in 1 .. Len(lo2),
                        b2[s] < n, sy2[lo2[n]].v \in Scoped,
                        \A m \in 1 .. (n - 1) : b2[s] < m => sy2[lo2[m]].v # sy2[lo2[n]].v
                 PROVE  Means(sy2[lo2[n]].prev_tok, sy2[lo2[n]].v, s - 1, en2, sy2)
      BY DEF HidesMeaning
    <2>1. s \in 2 .. Len(en) /\ b2[s] = b[s] /\ n \in 1 .. Len(lo)
      BY <1>1
    <2>2. \A m \in 1 .. (n - 1) : m \in 1 .. Len(lo2)
      BY <1>1
    <2>3. \A m \in 1 .. (n - 1) : b[s] < m => sy[lo[m]].v # sy[lo[n]].v
      BY <1>3, <2>1, <2>2
    <2> DEFINE x == sy[lo[n]].prev_tok
               k == sy[lo[n]].v
    <2>4. Means(x, k, s - 1, en, sy)
      BY <1>3, <2>1, <2>3 DEF HidesMeaning, Lex
    <2> HIDE DEF x, k
    <2>5. s - 1 \in Nat /\ Agree(en, en2, s - 1, k)
      <3>1. s - 1 \in Nat /\ s - 1 <= t /\ t \in Nat
        BY <1>1
      <3>2. \A i \in 1 .. (s - 1) : i \in 1 .. t
        BY <3>1
      <3>3. QED
        BY <1>7, <3>1, <3>2 DEF Agree
    <2>6. Means(x, k, s - 1, en2, sy2)
      BY <1>6, <2>4, <2>5, MeansKept
    <2>7. QED
      BY <1>3, <2>6 DEF x, k
  <1>10. LocalsThere(sy2, lo2, en2, b2)
    <2> SUFFICES ASSUME NEW s \in 2 .. t, NEW k \in Scoped, k \in DOMAIN en2[s]
                 PROVE  \E n \in 1 .. Len(lo2) :
                            /\ lo2[n] = en2[s][k] /\ sy2[lo2[n]].v = k /\ b2[s] < n
                            /\ \A r \in (s + 1) .. t : n <= b2[r]
      BY DEF LocalsThere
    <2>1. s \in 2 .. Len(en) /\ s \in 1 .. t /\ t + 1 \in (s + 1) .. Len(en)
      BY <1>1
    <2>2. k \in DOMAIN en[s] /\ en2[s] = en[s] /\ b2[s] = b[s]
      BY <2>1
    <2>3. PICK n \in 1 .. Len(lo) :
            /\ lo[n] = en[s][k] /\ sy[lo[n]].v = k /\ b[s] < n
            /\ \A r \in (s + 1) .. Len(en) : n <= b[r]
      <3>1. LocalsThere(sy, lo, en, b) /\ k \in Scoped \cap DOMAIN en[s]
        BY <2>2 DEF Lex
      <3>2. QED
        BY <2>1, <3>1 DEF LocalsThere
    <2>4. b[t + 1] \in Nat /\ n <= b[t + 1]
      BY <1>1, <2>1, <2>3 DEF BasesOK, Lex
    <2>5. n \in 1 .. Len(lo2)
      BY <1>1, <2>4
    <2>6. \A r \in (s + 1) .. t : r \in (s + 1) .. Len(en) /\ r \in 1 .. t
      BY <1>1
    <2>7. \A r \in (s + 1) .. t : n <= b2[r]
      BY <2>3, <2>6
    <2>8. QED
      BY <1>3, <2>2, <2>3, <2>5, <2>7
  <1>11. GlobalsThere(sy2, gl, en2)
    <2> SUFFICES ASSUME NEW k \in Scoped, k \in DOMAIN en2[1]
                 PROVE  \E n \in 1 .. Len(gl) : gl[n] = en2[1][k] /\ sy2[gl[n]].v = k
      BY DEF GlobalsThere
    <2>1. 1 \in 1 .. t
      BY <1>1
    <2>2. en2[1] = en[1]
      BY <2>1
    <2>3. PICK n \in 1 .. Len(gl) : gl[n] = en[1][k] /\ sy[gl[n]].v = k
      BY <2>2 DEF GlobalsThere, Lex
    <2>4. QED
      BY <1>2, <2>2, <2>3
  <1>12. ImplicitsThere(sy2, gl)
    BY DEF ImplicitsThere, Lex
  <1>13. QED
    BY <1>4, <1>5, <1>8, <1>9, <1>10, <1>11, <1>12 DEF Lex

-----------------------------------------------------------------------------
(* sym_push2 and sym_pop                                                   *)

\* The compiler allocates what is nowhere in use.
LEMMA MallocIsFree ==
    ASSUME stack \in [Stacks -> Seq(Syms)], DOMAIN sym \subseteq Syms, Room
    PROVE  /\ Malloc \in Syms /\ Malloc \notin DOMAIN sym
           /\ NotIn(stack["label"], Malloc)
  <1> DEFINE used == DOMAIN sym \cup Range(stack.label)
  <1>1. stack.label = stack["label"] /\ stack["label"] \in Seq(Syms)
    BY DEF Stacks
  <1>2. \A n \in 1 .. Len(stack["label"]) :
            stack["label"][n] \in Syms /\ stack["label"][n] \in Range(stack.label)
    BY <1>1 DEF Range
  <1>3. used \subseteq Syms
    BY <1>1 DEF Range
  <1>4. IsFiniteSet(Syms) /\ Cardinality(Syms) = MaxSyms /\ Syms \subseteq Nat
    <2>1. MaxSyms \in Nat /\ MaxSyms > 0 /\ 1 \in Int /\ MaxSyms \in Int
      BY BoundsAssumption
    <2>2. IsFiniteSet(1 .. MaxSyms) /\ Cardinality(1 .. MaxSyms) = MaxSyms - 1 + 1
      BY <2>1, FS_Interval
    <2>3. QED
      BY <2>1, <2>2 DEF Syms
  <1>5. Cardinality(used) < MaxSyms
    BY DEF Room
  <1> HIDE DEF used
  <1>6. Syms \ used # {}
    <2>1. SUFFICES ASSUME used = Syms PROVE FALSE
      BY <1>3
    <2>2. QED
      BY <2>1, <1>4, <1>5, BoundsAssumption
  <1>7. Malloc \in Syms \ used
    BY <1>4, <1>6, LeastNatural DEF Malloc, used
  <1>8. QED
    BY <1>2, <1>7 DEF used, NotIn

\* What sym_push2 does, wherever it pushes.
LEMMA PushedSym ==
    ASSUME StackOK, SymTableOK, NEW k \in Key \cup {Field}, NEW scope \in Int,
           NEW r \in Mark, NEW onto \in Stacks, Push(k, scope, r, onto)
    PROVE  /\ Malloc \in Syms /\ Grows(sym, sym', Malloc)
           /\ NotIn(stack["label"], Malloc)
           /\ sym'[Malloc].v = k /\ sym'[Malloc].sym_scope = scope
           /\ sym'[Malloc].r = r /\ (k \in Key => sym'[Malloc].prev_tok = head[k])
           /\ stack' \in [Stacks -> Seq(Syms)]
           /\ Appended(stack[onto], stack'[onto], Malloc)
           /\ \A s \in Stacks : s # onto => stack'[s] = stack[s]
           /\ k \in Key => Updated(head, head', k, Malloc)
           /\ \A l \in Scoped : l # k => head'[l] = head[l]
           /\ SymTableOK'
  <1> DEFINE new == Malloc
             rec == [v |-> k, sym_scope |-> scope, r |-> r,
                     prev_tok |-> IF k \in Key THEN head[k] ELSE NULL]
  <1>1. new \in Syms /\ new \notin DOMAIN sym /\ NotIn(stack["label"], new)
    BY MallocIsFree DEF StackOK, SymTableOK, Push
  <1>2. /\ DOMAIN sym' = DOMAIN sym \cup {new}
        /\ \A i \in DOMAIN sym : sym'[i] = sym[i]
        /\ sym'[new] = rec
    BY <1>1 DEF Push, Linked
  <1>3. /\ stack' \in [Stacks -> Seq(Syms)]
        /\ stack'[onto] = Append(stack[onto], new)
        /\ \A s \in Stacks : s # onto => stack'[s] = stack[s]
    BY <1>1 DEF Push, Linked, StackOK
  <1>4. Appended(stack[onto], stack'[onto], new)
    <2>1. PICK q \in Seq(Syms) : q = stack[onto]
      BY DEF StackOK
    <2>2. Len(Append(q, new)) = Len(q) + 1 /\ Append(q, new)[Len(q) + 1] = new
          /\ \A n \in 1 .. Len(q) : Append(q, new)[n] = q[n]
      BY <1>1, AppendProperties
    <2>3. QED
      BY <1>3, <2>1, <2>2 DEF Appended
  <1>5. head' = IF k \in Key THEN [head EXCEPT ![k] = new] ELSE head
    BY DEF Push, Linked
  <1>6. sym' = [i \in DOMAIN sym' |-> sym'[i]]
    BY DEF Push, Linked
  <1> HIDE DEF new
  <1>7. rec \in SymType
    BY BoundsAssumption DEF SymType, SymTableOK, NULL
  <1>8. SymTableOK'
    <2>1. \A i \in DOMAIN sym' : sym'[i] \in SymType
      BY <1>2, <1>7 DEF SymTableOK
    <2>2. sym' \in [DOMAIN sym' -> SymType]
      BY <1>6, <2>1, Zenon
    <2>3. head' \in [Key -> 0 .. MaxSyms]
      BY <1>1, <1>5 DEF SymTableOK, Syms
    <2>4. QED
      BY <1>1, <1>2, <2>2, <2>3 DEF SymTableOK
  <1>9. /\ k \in Key => Updated(head, head', k, new)
        /\ \A l \in Scoped : l # k => head'[l] = head[l]
    <2>1. \A l \in Scoped : l \in Key
      BY Kinds DEF Scoped
    <2>2. QED
      BY <1>5, <2>1 DEF Updated, SymTableOK
  <1>10. /\ sym'[new].v = k /\ sym'[new].sym_scope = scope /\ sym'[new].r = r
         /\ k \in Key => sym'[new].prev_tok = head[k]
    BY <1>2
  <1>11. QED
    BY <1>1, <1>2, <1>3, <1>4, <1>8, <1>9, <1>10 DEF Grows, new

\* sym_pop: what each name means once the Syms above c are popped, and labels.
LEMMA PoppedHead ==
    ASSUME NEW lo \in Seq(Syms), NEW c \in Nat, c <= Len(lo), NEW popped \in Seq(Syms),
           Len(popped) >= Len(lo) - c,
           \A n \in 1 .. (Len(lo) - c) : popped[n] = lo[c + n],
           \A n \in 1 .. Len(popped) :
               n > Len(lo) - c => sym[popped[n]].v \in {"label"} \X Name,
           NEW k \in Scoped
    PROVE  PutBack(sym, head, Unlinked(head, popped), lo, c, k)
  <1>1. k \in Key /\ k \notin {"label"} \X Name
    BY Kinds DEF Scoped
  <1>2. PICK d \in Nat : d = Len(lo) - c /\ Len(lo) = c + d
    <2>1. Len(lo) - c \in Nat /\ Len(lo) = c + (Len(lo) - c)
      OBVIOUS
    <2>2. QED
      BY <2>1
  <1>3. Len(popped) \in Nat /\ Len(popped) >= d /\ Len(lo) \in Nat
    BY <1>2
  <1>4. \A n \in 1 .. d : n \in 1 .. Len(popped) /\ popped[n] = lo[c + n]
    BY <1>2, <1>3
  <1>5. \A n \in 1 .. Len(popped) : sym[popped[n]].v = k => n \in 1 .. d
    BY <1>1, <1>2, <1>3
  <1>6. \A m \in 1 .. Len(lo) : c < m => \E n \in 1 .. d : m = c + n
    <2> SUFFICES ASSUME NEW m \in 1 .. Len(lo), c < m PROVE \E n \in 1 .. d : m = c + n
      OBVIOUS
    <2>1. m - c \in 1 .. d /\ m = c + (m - c)
      BY <1>2
    <2>2. QED
      BY <2>1
  <1>7. CASE /\ \A n \in 1 .. Len(popped) : sym[popped[n]].v # k
             /\ Unlinked(head, popped)[k] = head[k]
    <2>1. NoneAbove(sym, lo, c, k)
      BY <1>4, <1>6, <1>7 DEF NoneAbove
    <2>2. QED
      BY <1>7, <2>1 DEF PutBack
  <1>8. ASSUME NEW n \in 1 .. Len(popped), sym[popped[n]].v = k,
               \A m \in 1 .. (n - 1) : sym[popped[m]].v # k,
               Unlinked(head, popped)[k] = sym[popped[n]].prev_tok
        PROVE  PutBack(sym, head, Unlinked(head, popped), lo, c, k)
    <2>1. n \in 1 .. d
      BY <1>5, <1>8
    <2>2. PICK j \in Nat : j = c + n
      BY <2>1
    <2>3. j \in 1 .. Len(lo) /\ c < j /\ lo[j] = popped[n]
      BY <1>2, <1>4, <2>1, <2>2
    <2>4. \A m \in 1 .. (j - 1) : c < m => sym[lo[m]].v # k
      <3> SUFFICES ASSUME NEW m \in 1 .. (j - 1), c < m PROVE sym[lo[m]].v # k
        OBVIOUS
      <3>1. m \in 1 .. Len(lo)
        BY <2>3, <1>3
      <3>2. PICK i \in 1 .. d : m = c + i
        BY <1>6, <3>1
      <3>3. i \in 1 .. (n - 1)
        BY <2>1, <2>2, <3>2
      <3>4. lo[m] = popped[i]
        BY <1>4, <3>2
      <3>5. QED
        BY <1>8, <3>3, <3>4
    <2>5. QED
      BY <1>8, <2>3, <2>4 DEF PutBack
  <1>9. QED
    BY <1>1, <1>7, <1>8, UnlinkedIs

-----------------------------------------------------------------------------
(* Scopes and structs, and the invariant in parts                          *)

\* Names of identifiers, of structs and of labels are kept apart.
LEMMA ScopedIs ==
    /\ \A k \in Scoped : k \in Key /\ k \in Said /\ k # Field /\ k \notin {"label"} \X Name
    /\ \A v \in Name : /\ <<"identifier", v>> \in Scoped /\ <<"struct", v>> \in Scoped
                       /\ <<"label", v>> \notin Scoped /\ <<"label", v>> \in Key
                       /\ <<"label", v>> \in {"label"} \X Name
                       /\ <<"body", v>> \in Said /\ <<"body", v>> \notin Scoped
    /\ Field \notin Scoped
  BY Kinds DEF Scoped, Said, Space, Key

\* What a declaration writes down.
SaysToo(scope, now, k, x) ==
    /\ now \in Decls /\ DOMAIN now = DOMAIN scope \cup {k} /\ now[k] = x
    /\ \A l : l # k => now[l] = scope[l] \/ l \notin DOMAIN scope
\* A scope that says one thing more is a scope.
LEMMA WithIs ==
    ASSUME NEW scope \in Decls, NEW k \in Said, NEW x \in Syms \cup {TRUE}
    PROVE  SaysToo(scope, With(scope, k, x), k, x)
  <1>1. PICK D \in SUBSET Said : scope \in [D -> Syms \cup {TRUE}]
    BY DEF Decls
  <1>2. With(scope, k, x) \in [D \cup {k} -> Syms \cup {TRUE}]
    BY <1>1 DEF With
  <1>3. D \cup {k} \in SUBSET Said
    BY <1>1
  <1>4. With(scope, k, x) \in Decls
    BY <1>2, <1>3 DEF Decls
  <1>5. QED
    BY <1>1, <1>4 DEF With, SaysToo

\* What an open scope says is a Sym of that name.
LEMMA ValueThere ==
    ASSUME NEW sy, NEW hd, NEW gl \in Seq(Syms), NEW lo \in Seq(Syms), NEW la,
           NEW en \in Seq(Decls), NEW b, Lex(sy, hd, gl, lo, la, en, b),
           NEW s \in 1 .. Len(en), NEW k \in Scoped, k \in DOMAIN en[s]
    PROVE  en[s][k] \in DOMAIN sy /\ sy[en[s][k]].v = k /\ en[s][k] \in Syms
  <1>1. Len(en) \in Nat
    OBVIOUS
  <1>2. CASE s = 1
    <2>1. PICK n \in 1 .. Len(gl) : gl[n] = en[s][k] /\ sy[gl[n]].v = k
      BY <1>2 DEF Lex, GlobalsThere
    <2>2. gl[n] \in DOMAIN sy /\ gl[n] \in Syms
      BY DEF Lex, SymsOK
    <2>3. QED
      BY <2>1, <2>2
  <1>3. CASE s # 1
    <2>1. s \in 2 .. Len(en) /\ k \in Scoped \cap DOMAIN en[s] /\ LocalsThere(sy, lo, en, b)
      BY <1>1, <1>3 DEF Lex
    <2>2. PICK n \in 1 .. Len(lo) : lo[n] = en[s][k] /\ sy[lo[n]].v = k
      BY <2>1 DEF LocalsThere
    <2>3. lo[n] \in DOMAIN sy /\ lo[n] \in Syms
      BY DEF Lex, SymsOK
    <2>4. QED
      BY <2>2, <2>3
  <1>4. QED
    BY <1>2, <1>3

\* Scopes and structs that say the same as before.
SaySame(sy, sy2, en, en2, s) ==
    \A v \in Name :
        LET k == <<"struct", v>>
        IN  /\ k \in DOMAIN en2[s] <=> k \in DOMAIN en[s]
            /\ <<"body", v>> \in DOMAIN en2[s] <=> <<"body", v>> \in DOMAIN en[s]
            /\ k \in DOMAIN en[s] =>
                  /\ en2[s][k] = en[s][k]
                  /\ sy2[en[s][k]].sym_scope = sy[en[s][k]].sym_scope
                  /\ sy2[en[s][k]].r = "complete" <=> sy[en[s][k]].r = "complete"
\* What is known of structs is not lost when scopes are closed or say the same.
LEMMA StructsKept ==
    ASSUME NEW sy, NEW sy2, NEW en, NEW en2, StructsOK(sy, en),
           \A s \in 1 .. Len(en2) : s \in 1 .. Len(en) /\ SaySame(sy, sy2, en, en2, s)
    PROVE  StructsOK(sy2, en2)
  <1> SUFFICES ASSUME NEW s \in 1 .. Len(en2), NEW v \in Name
               PROVE  LET k == <<"struct", v>>
                      IN  /\ k \in DOMAIN en2[s] => sy2[en2[s][k]].sym_scope = s - 1
                          /\ <<"body", v>> \in DOMAIN en2[s] <=>
                                 k \in DOMAIN en2[s] /\ sy2[en2[s][k]].r = "complete"
    BY DEF StructsOK
  <1> DEFINE k == <<"struct", v>>
  <1>1. /\ k \in DOMAIN en[s] => sy[en[s][k]].sym_scope = s - 1
        /\ <<"body", v>> \in DOMAIN en[s] <=>
               k \in DOMAIN en[s] /\ sy[en[s][k]].r = "complete"
    BY DEF StructsOK
  <1>2. /\ k \in DOMAIN en2[s] <=> k \in DOMAIN en[s]
        /\ <<"body", v>> \in DOMAIN en2[s] <=> <<"body", v>> \in DOMAIN en[s]
        /\ k \in DOMAIN en[s] =>
              /\ en2[s][k] = en[s][k]
              /\ sy2[en[s][k]].sym_scope = sy[en[s][k]].sym_scope
              /\ sy2[en[s][k]].r = "complete" <=> sy[en[s][k]].r = "complete"
    BY DEF SaySame
  <1>3. QED
    BY <1>1, <1>2

\* The invariant while a text is read.
LEMMA ReadOn ==
    ASSUME StackOK', Reading', ReadInv', ~ tainted' => ScopeInv'
    PROVE  LexInv'
  BY DEF LexInv, Reading

\* The invariant once a text is read, or has crashed the compiler.
LEMMA ReadNoMore ==
    ASSUME StackOK', pc' \in {"end", "crashed"},
           pc' = "end" => /\ blocks' = <<>>
                          /\ failed' \/ tainted' \/ local_scope' = 0
    PROVE  LexInv'
  BY DEF LexInv, Reading

\* An error leaves the stacks as they are and keeps nothing of the scopes.
LEMMA FailsIn ==
    ASSUME NEW scope \in Int, stack' \in [Stacks -> Seq(Syms)], FailIn(scope)
    PROVE  LexInv'
  <1>1. pc' = "end" /\ failed' /\ local_scope' = scope /\ blocks' = <<>>
    BY DEF FailIn
  <1>2. QED
    BY <1>1, ReadNoMore DEF StackOK

\* Scopes begin where they did as long as none is opened or closed.
LEMMA BasesStay ==
    ASSUME Len(env') = Len(env), blocks' = blocks
    PROVE  Bases' = Bases
  BY DEF Bases, Base

Top == Len(env)
\* The innermost scope becomes scope.
NowSays(scope) == env' = [env EXCEPT ![Top] = scope]

\* The three stacks.
LEMMA StacksAre ==
    ASSUME StackOK
    PROVE  /\ stack["global"] \in Seq(Syms) /\ stack["local"] \in Seq(Syms)
           /\ stack["label"] \in Seq(Syms)
           /\ stack.global = stack["global"] /\ stack.local = stack["local"]
           /\ stack.label = stack["label"]
           /\ "global" \in Stacks /\ "local" \in Stacks /\ "label" \in Stacks
           /\ "global" # "local" /\ "global" # "label" /\ "local" # "label"
  BY DEF StackOK, Stacks

\* There is an innermost scope.
LEMMA TopIs ==
    ASSUME Reading, ReadInv
    PROVE  /\ Top \in Nat /\ Top > 0 /\ Top \in 1 .. Top /\ env[Top] \in Decls
           /\ env \in Seq(Decls)
           /\ pc = "file" => Top = 1
           /\ pc \in {"params", "func"} => Top > 1
  <1>1. env \in Seq(Decls) /\ Len(env) \in Nat
    BY DEF ReadInv, EnvOK
  <1>2. Len(env) > 0 /\ (pc = "file" => Len(env) = 1) /\ (pc \in {"params", "func"} => Len(env) > 1)
    <2>1. /\ pc = "file" => Len(env) = 1
          /\ pc = "params" => Len(env) = 2
          /\ pc = "func" => Len(env) > 1
      BY DEF ReadInv, EnvOK
    <2>2. pc = "file" \/ pc = "params" \/ pc = "func"
      BY DEF Reading
    <2>3. QED
      BY <2>1, <2>2
  <1>3. QED
    BY <1>1, <1>2 DEF Top

\* Only the innermost scope says something new.
LEMMA NowSaysIs ==
    ASSUME Reading, ReadInv, NEW scope \in Decls, NowSays(scope)
    PROVE  /\ env' \in Seq(Decls) /\ Len(env') = Len(env) /\ env'[Top] = scope
           /\ \A n \in 1 .. Top : n # Top => env'[n] = env[n]
  <1>1. PICK n \in Nat : n = Top
    BY TopIs
  <1>2. /\ n > 0 /\ env \in Seq(Decls) /\ Len(env) = n /\ env' = [env EXCEPT ![n] = scope]
    BY <1>1, TopIs DEF NowSays, Top
  <1>3. env' \in Seq(Decls) /\ Len(env') = n
    BY <1>2
  <1>4. env'[n] = scope /\ \A m \in 1 .. n : m # n => env'[m] = env[m]
    BY <1>2
  <1>5. QED
    BY <1>1, <1>2, <1>3, <1>4

\* EnvOK says nothing of the Syms but that there are some on the local stack.
LEMMA EnvStays ==
    ASSUME EnvOK, Reading, pc' = pc, blocks' = blocks, env' \in Seq(Decls),
           Len(env') = Len(env), (pc = "file" => stack'["local"] = <<>>),
           (pc # "file" => stack'["local"] # <<>>),
           Len(stack["local"]) \in Nat, Len(stack'["local"]) \in Nat,
           Len(stack["local"]) <= Len(stack'["local"])
    PROVE  EnvOK' /\ Bases' = Bases
  <1>1. BlocksOK(blocks, Len(stack'["local"]))
    BY DEF EnvOK, BlocksOK
  <1>2. QED
    BY <1>1, BasesStay DEF EnvOK

\* A declaration in the innermost scope, with its Sym on the stack it belongs to.
LEMMA Declares1 ==
    ASSUME Reading, StackOK, ReadInv, NEW k \in Scoped, NEW scope \in Int,
           NEW r \in Mark, r # "implicit", NEW onto \in Stacks,
           onto = IF pc = "file" THEN "global" ELSE "local",
           Push(k, scope, r, onto), pc' = pc, blocks' = blocks, local_scope' \in Int,
           env' \in Seq(Decls), Declared(env, env', k, Malloc)
    PROVE  StackOK' /\ ReadInv'
  <1> DEFINE new == Malloc
             gl == stack["global"]
             lo == stack["local"]
             la == stack["label"]
  <1>1. /\ SymTableOK /\ EnvOK /\ Lex(sym, head, gl, lo, la, env, Bases)
        /\ gl \in Seq(Syms) /\ lo \in Seq(Syms) /\ la \in Seq(Syms) /\ env \in Seq(Decls)
        /\ Len(env) > 0
    BY StacksAre, TopIs DEF ReadInv, LexOK, Top
  <1>2. /\ new \in Syms /\ Grows(sym, sym', new) /\ NotIn(la, new)
        /\ sym'[new].v = k /\ sym'[new].r = r /\ sym'[new].prev_tok = head[k]
        /\ stack' \in [Stacks -> Seq(Syms)]
        /\ Appended(stack[onto], stack'[onto], new)
        /\ \A s \in Stacks : s # onto => stack'[s] = stack[s]
        /\ Updated(head, head', k, new) /\ SymTableOK'
    <2>1. k \in Key
      BY ScopedIs
    <2>2. QED
      BY <1>1, <2>1, PushedSym
  <1> HIDE DEF new
  <1>3. StackOK'
    BY <1>2 DEF StackOK
  <1>4. gl' \in Seq(Syms) /\ lo' \in Seq(Syms) /\ la' = la
    BY <1>2, StacksAre DEF Stacks
  <1>5. Len(env') = Len(env) /\ Declared(env, env', k, new)
    BY DEF Declared, new
  <1>6. CASE pc = "file"
    <2>1. onto = "global" /\ lo' = lo /\ lo = <<>> /\ Appended(gl, gl', new) /\ Len(env) = 1
      BY <1>1, <1>2, <1>6, StacksAre DEF EnvOK
    <2>2. EnvOK' /\ Bases' = Bases
      BY <1>1, <1>4, <1>5, <1>6, <2>1, EnvStays
    <2>3. Lex(sym', head', gl', lo, la, env', Bases)
      <3> HIDE DEF gl, lo, la
      <3>1. QED
        BY <1>1, <1>2, <1>4, <1>5, <2>1, DeclaredGlobal
    <2>4. LexOK'
      BY <1>4, <2>1, <2>2, <2>3 DEF LexOK
    <2>5. QED
      BY <1>2, <1>3, <2>2, <2>4 DEF ReadInv
  <1>7. CASE pc # "file"
    <2>1. onto = "local" /\ gl' = gl /\ Appended(lo, lo', new) /\ Len(env) > 1
      BY <1>2, <1>7, StacksAre, TopIs DEF Top, Reading
    <2>2. Len(lo) \in Nat /\ Len(lo') = Len(lo) + 1
      BY <1>1, <2>1 DEF Appended
    <2>3. lo' # <<>>
      BY <2>2
    <2>4. EnvOK' /\ Bases' = Bases
      <3>1. Len(lo') \in Nat /\ Len(lo) <= Len(lo')
        BY <2>2
      <3>2. QED
        BY <1>1, <1>5, <1>7, <2>2, <2>3, <3>1, EnvStays
    <2>5. Lex(sym', head', gl, lo', la, env', Bases)
      <3> HIDE DEF gl, lo, la
      <3>1. QED
        BY <1>1, <1>2, <1>4, <1>5, <2>1, DeclaredLocal
    <2>6. LexOK'
      BY <1>4, <2>1, <2>4, <2>5 DEF LexOK
    <2>7. QED
      BY <1>2, <1>3, <2>4, <2>6 DEF ReadInv
  <1>8. QED
    BY <1>6, <1>7

\* The scopes say the same of structs.
SameWords(en, en2, s) ==
    \A v \in Name :
        LET k == <<"struct", v>>
        IN  /\ k \in DOMAIN en2[s] <=> k \in DOMAIN en[s]
            /\ <<"body", v>> \in DOMAIN en2[s] <=> <<"body", v>> \in DOMAIN en[s]
            /\ k \in DOMAIN en[s] => en2[s][k] = en[s][k]

\* A struct that a scope declares is in the table of Syms.
LEMMA StructValues ==
    ASSUME StackOK, ReadInv, NEW s \in 1 .. Len(env), NEW v \in Name,
           <<"struct", v>> \in DOMAIN env[s]
    PROVE  /\ env[s][<<"struct", v>>] \in DOMAIN sym
           /\ sym[env[s][<<"struct", v>>]].v = <<"struct", v>>
  <1>1. PICK k : k = <<"struct", v>>
    OBVIOUS
  <1>2. k \in Scoped /\ k \in DOMAIN env[s]
    BY <1>1, ScopedIs
  <1>3. PICK gl \in Seq(Syms), lo \in Seq(Syms), la \in Seq(Syms), en \in Seq(Decls) :
            /\ gl = stack["global"] /\ lo = stack["local"] /\ la = stack["label"]
            /\ en = env
    BY StacksAre DEF ReadInv, EnvOK
  <1>4. Lex(sym, head, gl, lo, la, en, Bases) /\ s \in 1 .. Len(en) /\ k \in DOMAIN en[s]
    BY <1>2, <1>3 DEF ReadInv, LexOK
  <1>5. en[s][k] \in DOMAIN sym /\ sym[en[s][k]].v = k
    BY <1>2, <1>4, ValueThere
  <1>6. QED
    BY <1>1, <1>3, <1>5

\* A new Sym does not change what is known of structs.
LEMMA GrownStructs ==
    ASSUME StackOK, ReadInv, StructsOK(sym, env), NEW new, Grows(sym, sym', new),
           \A s \in 1 .. Len(env') : s \in 1 .. Len(env) /\ SameWords(env, env', s)
    PROVE  StructsOK(sym', env')
  <1> SUFFICES ASSUME NEW s \in 1 .. Len(env') PROVE SaySame(sym, sym', env, env', s)
    BY StructsKept
  <1> SUFFICES ASSUME NEW v \in Name
               PROVE  LET k == <<"struct", v>>
                      IN  /\ k \in DOMAIN env'[s] <=> k \in DOMAIN env[s]
                          /\ <<"body", v>> \in DOMAIN env'[s] <=> <<"body", v>> \in DOMAIN env[s]
                          /\ k \in DOMAIN env[s] =>
                                /\ env'[s][k] = env[s][k]
                                /\ sym'[env[s][k]].sym_scope = sym[env[s][k]].sym_scope
                                /\ sym'[env[s][k]].r = "complete" <=> sym[env[s][k]].r = "complete"
    BY DEF SaySame
  <1>1. <<"struct", v>> \in DOMAIN env[s] =>
            sym'[env[s][<<"struct", v>>]] = sym[env[s][<<"struct", v>>]]
    BY StructValues DEF Grows
  <1>2. SameWords(env, env', s)
    OBVIOUS
  <1>3. QED
    BY <1>1, <1>2 DEF SameWords

\* An identifier is declared.
LEMMA Identifier ==
    ASSUME Reading, ReadInv, NEW v \in Name, Malloc \in Syms, Declares(<<"identifier", v>>)
    PROVE  /\ env' \in Seq(Decls) /\ Declared(env, env', <<"identifier", v>>, Malloc)
           /\ Len(env') = Len(env) /\ \A s \in 1 .. Len(env) : SameWords(env, env', s)
  <1> DEFINE k == <<"identifier", v>>
             now == With(env[Top], k, Malloc)
  <1>1. k \in Said /\ env[Top] \in Decls /\ Top \in Nat /\ Top > 0
    BY ScopedIs, TopIs
  <1>2. /\ now \in Decls /\ DOMAIN now = DOMAIN env[Top] \cup {k} /\ now[k] = Malloc
        /\ \A l : l # k => now[l] = env[Top][l] \/ l \notin DOMAIN env[Top]
    <2>1. Malloc \in Syms \cup {TRUE}
      OBVIOUS
    <2>2. SaysToo(env[Top], now, k, Malloc)
      BY <1>1, <2>1, WithIs
    <2>3. QED
      BY <2>2 DEF SaysToo
  <1>3. NowSays(now)
    BY DEF Declares, NowSays, Top
  <1> HIDE DEF now
  <1>4. /\ env' \in Seq(Decls) /\ Len(env') = Len(env) /\ env'[Top] = now
        /\ \A n \in 1 .. Top : n # Top => env'[n] = env[n]
    BY <1>2, <1>3, NowSaysIs
  <1>5. \A l \in Scoped : l # k => /\ l \in DOMAIN env'[Top] <=> l \in DOMAIN env[Top]
                                   /\ l \in DOMAIN env[Top] => env'[Top][l] = env[Top][l]
    BY <1>2, <1>4
  <1>6. ASSUME NEW s \in 1 .. Len(env) PROVE SameWords(env, env', s)
    <2>1. CASE s = Top
      <3>1. \A w \in Name : /\ <<"struct", w>> # k /\ <<"body", w>> # k
        OBVIOUS
      <3>2. QED
        BY <1>2, <1>4, <2>1, <3>1 DEF SameWords
    <2>2. CASE s # Top
      BY <1>4, <2>2 DEF SameWords, Top
    <2>3. QED
      BY <2>1, <2>2
  <1>7. Declared(env, env', k, Malloc)
    BY <1>1, <1>2, <1>4, <1>5 DEF Declared, Top
  <1>8. QED
    BY <1>4, <1>6, <1>7

-----------------------------------------------------------------------------
(* Declarations                                                            *)

\* What is read goes on a stack of the scope that is open.
LEMMA LocalOrGlobalIs ==
    ASSUME Reading, StackOK, ReadInv
    PROVE  LocalOrGlobal = IF pc = "file" THEN "global" ELSE "local"
  <1>1. /\ pc = "file" => stack["local"] = <<>>
        /\ pc # "file" => stack["local"] # <<>>
    BY DEF ReadInv, EnvOK
  <1>2. stack.local = stack["local"]
    BY StacksAre
  <1>3. QED
    BY <1>1, <1>2 DEF LocalOrGlobal

\* What the invariant says while a text is read.
LEMMA Readers ==
    ASSUME LexInv, Reading
    PROVE  StackOK /\ ReadInv /\ (~ tainted => ScopeInv) /\ local_scope \in Int
  BY DEF LexInv, StackOK

\* The text is still read.
LEMMA ReadSame ==
    ASSUME Reading, pc' = pc PROVE Reading'
  BY DEF Reading

\* An identifier is declared in the innermost scope.
LEMMA IdentifierStep ==
    ASSUME LexInv, Reading, NEW v \in Name, NEW scope \in Int, NEW onto,
           onto = IF pc = "file" THEN "global" ELSE "local",
           Push(<<"identifier", v>>, scope, "none", onto),
           Goes, Declares(<<"identifier", v>>)
    PROVE  LexInv'
  <1>1. StackOK /\ ReadInv /\ (~ tainted => ScopeInv) /\ local_scope \in Int
    BY Readers
  <1>2. pc' = pc /\ local_scope' = local_scope /\ blocks' = blocks /\ tainted' = tainted
    BY DEF Goes, run
  <1>3. PICK k \in Scoped : k = <<"identifier", v>>
    BY ScopedIs
  <1>4. onto \in Stacks /\ "none" \in Mark /\ "none" # "implicit"
    BY DEF Stacks, Mark
  <1>5. k \in Key \cup {Field} /\ Push(k, scope, "none", onto)
    BY <1>3, ScopedIs
  <1>6. Malloc \in Syms /\ Grows(sym, sym', Malloc)
    BY <1>1, <1>4, <1>5, PushedSym DEF ReadInv
  <1>7. /\ env' \in Seq(Decls) /\ Declared(env, env', k, Malloc)
        /\ Len(env') = Len(env) /\ \A s \in 1 .. Len(env) : SameWords(env, env', s)
    BY <1>1, <1>3, <1>6, Identifier
  <1>8. StackOK' /\ ReadInv'
    BY <1>1, <1>2, <1>4, <1>5, <1>7, Declares1
  <1>9. ~ tainted' => ScopeInv'
    <2> SUFFICES ASSUME ~ tainted PROVE ScopeInv'
      BY <1>2
    <2>1. local_scope = Len(env) - 1 /\ StructsOK(sym, env)
      BY <1>1 DEF ScopeInv
    <2>2. \A s \in 1 .. Len(env') : s \in 1 .. Len(env) /\ SameWords(env, env', s)
      BY <1>7
    <2>3. StructsOK(sym', env')
      BY <1>1, <1>6, <2>1, <2>2, GrownStructs
    <2>4. QED
      BY <1>2, <1>7, <2>1, <2>3 DEF ScopeInv
  <1>10. QED
    BY <1>2, <1>8, <1>9, ReadSame, ReadOn

\* Something is pushed, and an error says that it should not be there.
LEMMA PushedAndFailed ==
    ASSUME LexInv, Reading, NEW v \in Name, NEW scope \in Int, NEW onto \in Stacks,
           Push(<<"identifier", v>>, scope, "none", onto), Fail
    PROVE  LexInv'
  <1>1. StackOK /\ ReadInv /\ local_scope \in Int
    BY Readers
  <1>2. PICK k \in Scoped : k = <<"identifier", v>>
    BY ScopedIs
  <1>3. k \in Key \cup {Field} /\ Push(k, scope, "none", onto) /\ "none" \in Mark
    BY <1>2, ScopedIs DEF Mark
  <1>4. stack' \in [Stacks -> Seq(Syms)]
    BY <1>1, <1>3, PushedSym DEF ReadInv
  <1>5. QED
    BY <1>1, <1>4, FailsIn DEF Fail

\* extern: the innermost scope may declare again what it has.
LEMMA ExternStep ==
    ASSUME LexInv, NEW v \in Name, DeclareExtern(v) PROVE LexInv'
  <1>1. Reading
    BY DEF DeclareExtern, Parsing, Reading
  <1>2. PICK onto : onto = LocalOrGlobal
    OBVIOUS
  <1>3. onto = IF pc = "file" THEN "global" ELSE "local"
    BY <1>1, <1>2, Readers, LocalOrGlobalIs
  <1>4. Goes /\ Push(<<"identifier", v>>, 0, "none", onto) /\ Declares(<<"identifier", v>>)
    BY <1>2 DEF DeclareExtern
  <1>5. QED
    BY <1>1, <1>3, <1>4, IdentifierStep

\* A local variable, or a global one.
LEMMA LocalStep ==
    ASSUME LexInv, NEW v \in Name, NEW is \in BOOLEAN, DeclareLocal(v, is) PROVE LexInv'
  <1> DEFINE scope == IF is THEN 0 ELSE local_scope
  <1>1. Reading /\ pc # "file"
    BY DEF DeclareLocal, Reading
  <1>2. scope \in Int /\ "local" \in Stacks
    BY <1>1, Readers DEF Stacks
  <1>3. /\ Push(<<"identifier", v>>, scope, "none", "local")
        /\ Fail \/ (Goes /\ Declares(<<"identifier", v>>))
    BY DEF DeclareLocal
  <1> HIDE DEF scope
  <1>4. QED
    BY <1>1, <1>2, <1>3, IdentifierStep, PushedAndFailed

\* A parameter.
LEMMA ParameterStep ==
    ASSUME LexInv, NEW v \in Name, Parameter(v) PROVE LexInv'
  <1>1. Reading /\ pc # "file"
    BY DEF Parameter, Reading
  <1>2. local_scope \in Int /\ "local" \in Stacks
    BY <1>1, Readers DEF Stacks
  <1>3. /\ Push(<<"identifier", v>>, local_scope, "none", "local")
        /\ Fail \/ (Goes /\ Declares(<<"identifier", v>>))
    BY DEF Parameter
  <1>4. QED
    BY <1>1, <1>2, <1>3, IdentifierStep, PushedAndFailed

\* An error, before anything was pushed.
LEMMA RefusedStep ==
    ASSUME LexInv, Reading, Fail, UNCHANGED table PROVE LexInv'
  <1>1. local_scope \in Int /\ stack' \in [Stacks -> Seq(Syms)]
    BY DEF LexInv, StackOK, table
  <1>2. QED
    BY <1>1, FailsIn DEF Fail

-----------------------------------------------------------------------------
(* Functions called undeclared, and labels                                 *)

\* What the proofs need of a state in which a text is read.
LEMMA ReadsLex ==
    ASSUME StackOK, ReadInv, Reading
    PROVE  /\ SymTableOK /\ EnvOK
           /\ Lex(sym, head, stack["global"], stack["local"], stack["label"], env, Bases)
           /\ stack["global"] \in Seq(Syms) /\ stack["local"] \in Seq(Syms)
           /\ stack["label"] \in Seq(Syms) /\ env \in Seq(Decls) /\ Len(env) > 0
  BY StacksAre, TopIs DEF ReadInv, LexOK, Top

\* A step that opens and closes nothing and leaves the local stack alone.
LEMMA SameScopes ==
    ASSUME Reading, StackOK, EnvOK, Goes, env' = env, stack' \in [Stacks -> Seq(Syms)],
           stack'["local"] = stack["local"]
    PROVE  /\ Reading' /\ StackOK' /\ EnvOK' /\ Bases' = Bases
           /\ tainted' = tainted /\ local_scope' = local_scope
           /\ Len(env') = Len(env) /\ \A s \in 1 .. Len(env) : SameWords(env, env', s)
  <1>1. pc' = pc /\ local_scope' = local_scope /\ blocks' = blocks /\ tainted' = tainted
    BY DEF Goes, run
  <1>2. StackOK'
    BY <1>1 DEF StackOK
  <1>3. EnvOK'
    BY <1>1 DEF EnvOK
  <1>4. \A s \in 1 .. Len(env) : SameWords(env, env', s)
    BY DEF SameWords
  <1>5. QED
    BY <1>1, <1>2, <1>3, <1>4, ReadSame, BasesStay

\* Where no scope changes, structs stay what they were.
LEMMA GrownScope ==
    ASSUME StackOK, ReadInv, ScopeInv, NEW new, Grows(sym, sym', new),
           Len(env') = Len(env), local_scope' = local_scope,
           \A s \in 1 .. Len(env) : SameWords(env, env', s)
    PROVE  ScopeInv'
  <1>1. local_scope = Len(env) - 1 /\ StructsOK(sym, env)
    BY DEF ScopeInv
  <1>2. \A s \in 1 .. Len(env') : s \in 1 .. Len(env) /\ SameWords(env, env', s)
    OBVIOUS
  <1>3. StructsOK(sym', env')
    BY <1>1, <1>2, GrownStructs
  <1>4. QED
    BY <1>1, <1>3 DEF ScopeInv

\* A call of a function that no scope declares puts it on the global stack, where
\* it stays when the scopes are closed.
LEMMA ImplicitStep ==
    ASSUME LexInv, NEW v \in Name, CallImplicit(v) PROVE LexInv'
  <1>1. Reading
    BY DEF CallImplicit, Reading
  <1>2. StackOK /\ ReadInv /\ (~ tainted => ScopeInv)
    BY <1>1, Readers
  <1>3. PICK k \in {"identifier"} \X Name : k = <<"identifier", v>>
    OBVIOUS
  <1>4. k \in Key \cup {Field} /\ k \in Key /\ k \in Scoped
    BY <1>3, ScopedIs
  <1>5. Push(k, 0, "implicit", "global") /\ head[k] = NULL /\ Goes /\ env' = env
    BY <1>3 DEF CallImplicit, Find
  <1> DEFINE new == Malloc
             gl == stack["global"]
             lo == stack["local"]
             la == stack["label"]
  <1>6. /\ SymTableOK /\ EnvOK /\ Lex(sym, head, gl, lo, la, env, Bases)
        /\ gl \in Seq(Syms) /\ lo \in Seq(Syms) /\ la \in Seq(Syms) /\ env \in Seq(Decls)
        /\ Len(env) > 0
    BY <1>1, <1>2, ReadsLex
  <1>7. /\ new \in Syms /\ Grows(sym, sym', new) /\ NotIn(la, new)
        /\ sym'[new].v = k /\ sym'[new].r = "implicit"
        /\ stack' \in [Stacks -> Seq(Syms)] /\ Appended(gl, gl', new)
        /\ \A s \in Stacks : s # "global" => stack'[s] = stack[s]
        /\ Updated(head, head', k, new) /\ SymTableOK'
    <2>1. "implicit" \in Mark /\ "global" \in Stacks
      BY DEF Stacks, Mark
    <2>2. QED
      BY <1>2, <1>4, <1>5, <1>6, <2>1, PushedSym
  <1> HIDE DEF new
  <1>8. gl' \in Seq(Syms) /\ lo' = lo /\ la' = la
    BY <1>7, StacksAre DEF Stacks
  <1>9. /\ Reading' /\ StackOK' /\ EnvOK' /\ Bases' = Bases
        /\ tainted' = tainted /\ local_scope' = local_scope
        /\ Len(env') = Len(env) /\ \A s \in 1 .. Len(env) : SameWords(env, env', s)
    BY <1>1, <1>2, <1>5, <1>6, <1>7, <1>8, SameScopes
  <1>10. Lex(sym', head', gl', lo, la, env, Bases)
    <2> HIDE DEF gl, lo, la
    <2>1. QED
      BY <1>4, <1>5, <1>6, <1>7, <1>8, CalledUndeclared
  <1>11. LexOK'
    BY <1>5, <1>8, <1>9, <1>10 DEF LexOK
  <1>12. ~ tainted' => ScopeInv'
    BY <1>2, <1>7, <1>9, GrownScope
  <1>13. QED
    BY <1>7, <1>9, <1>11, <1>12, ReadOn DEF ReadInv

\* A label is pushed.
LEMMA LabelPushed ==
    ASSUME LexInv, Reading, NEW v \in Name, NEW r \in {"forward", "defined"},
           Push(<<"label", v>>, 0, r, "label"), Goes, env' = env
    PROVE  LexInv'
  <1>2. StackOK /\ ReadInv /\ (~ tainted => ScopeInv)
    BY Readers
  <1>3. PICK k \in {"label"} \X Name : k = <<"label", v>>
    OBVIOUS
  <1>4. k \in Key \cup {Field} /\ k \notin Scoped
    BY <1>3, ScopedIs
  <1>5. Push(k, 0, r, "label") /\ r # "implicit"
    BY <1>3
  <1> DEFINE new == Malloc
             gl == stack["global"]
             lo == stack["local"]
             la == stack["label"]
  <1>6. /\ SymTableOK /\ EnvOK /\ Lex(sym, head, gl, lo, la, env, Bases)
        /\ gl \in Seq(Syms) /\ lo \in Seq(Syms) /\ la \in Seq(Syms) /\ env \in Seq(Decls)
        /\ Len(env) > 0
    BY <1>2, ReadsLex
  <1>7. /\ new \in Syms /\ Grows(sym, sym', new) /\ NotIn(la, new)
        /\ sym'[new].v = k /\ sym'[new].r = r
        /\ stack' \in [Stacks -> Seq(Syms)] /\ Appended(la, la', new)
        /\ \A s \in Stacks : s # "label" => stack'[s] = stack[s]
        /\ SymTableOK' /\ \A l \in Scoped : head'[l] = head[l]
    <2>1. r \in Mark /\ "label" \in Stacks
      BY DEF Stacks, Mark
    <2>2. /\ new \in Syms /\ Grows(sym, sym', new) /\ NotIn(la, new)
          /\ sym'[new].v = k /\ sym'[new].r = r
          /\ stack' \in [Stacks -> Seq(Syms)] /\ Appended(la, la', new)
          /\ \A s \in Stacks : s # "label" => stack'[s] = stack[s]
          /\ SymTableOK' /\ \A l \in Scoped : l # k => head'[l] = head[l]
      <3>1. PICK onto \in Stacks : onto = "label"
        BY <2>1
      <3>2. Push(k, 0, r, onto) /\ 0 \in Int
        BY <1>5, <3>1
      <3>3. /\ new \in Syms /\ Grows(sym, sym', new) /\ NotIn(stack["label"], new)
            /\ sym'[new].v = k /\ sym'[new].r = r
            /\ stack' \in [Stacks -> Seq(Syms)]
            /\ Appended(stack[onto], stack'[onto], new)
            /\ \A s \in Stacks : s # onto => stack'[s] = stack[s]
            /\ SymTableOK' /\ \A l \in Scoped : l # k => head'[l] = head[l]
        <4>1. StackOK /\ SymTableOK /\ k \in Key \cup {Field}
          BY <1>2, <1>4, <1>6
        <4>2. PICK scope \in Int : scope = 0
          OBVIOUS
        <4>3. Push(k, scope, r, onto)
          BY <3>2, <4>2
        <4>4. /\ Malloc \in Syms /\ Grows(sym, sym', Malloc) /\ NotIn(stack["label"], Malloc)
              /\ sym'[Malloc].v = k /\ sym'[Malloc].r = r
              /\ stack' \in [Stacks -> Seq(Syms)]
              /\ Appended(stack[onto], stack'[onto], Malloc)
              /\ \A s \in Stacks : s # onto => stack'[s] = stack[s]
              /\ SymTableOK' /\ \A l \in Scoped : l # k => head'[l] = head[l]
          BY <2>1, <4>1, <4>3, PushedSym, SMTT(20)
        <4>5. QED
          BY <4>4
      <3>4. QED
        BY <3>1, <3>3
    <2>3. QED
      BY <1>4, <2>2
  <1> HIDE DEF new
  <1>8. gl' = gl /\ lo' = lo /\ la' \in Seq(Syms)
    BY <1>7, StacksAre DEF Stacks
  <1>9. /\ Reading' /\ StackOK' /\ EnvOK' /\ Bases' = Bases
        /\ tainted' = tainted /\ local_scope' = local_scope
        /\ Len(env') = Len(env) /\ \A s \in 1 .. Len(env) : SameWords(env, env', s)
    BY <1>2, <1>6, <1>7, <1>8, SameScopes
  <1>10. Lex(sym', head', gl, lo, la', env, Bases)
    <2> HIDE DEF gl, lo, la
    <2>1. QED
      BY <1>4, <1>5, <1>6, <1>7, <1>8, PushedAside
  <1>11. LexOK'
    BY <1>8, <1>9, <1>10 DEF LexOK
  <1>12. ~ tainted' => ScopeInv'
    BY <1>2, <1>7, <1>9, GrownScope
  <1>13. QED
    BY <1>7, <1>9, <1>11, <1>12, ReadOn DEF ReadInv

\* A label that was used before is found.
LEMMA LabelMarked ==
    ASSUME LexInv, Reading, NEW k \in Key, sym[Find(k)].r = "forward",
           sym' = [sym EXCEPT ![Find(k)].r = "defined"],
           Goes, UNCHANGED <<head, stack, env>>
    PROVE  LexInv'
  <1>2. StackOK /\ ReadInv /\ (~ tainted => ScopeInv)
    BY Readers
  <1> DEFINE gl == stack["global"]
             lo == stack["local"]
             la == stack["label"]
  <1>6. /\ SymTableOK /\ EnvOK /\ Lex(sym, head, gl, lo, la, env, Bases)
        /\ gl \in Seq(Syms) /\ lo \in Seq(Syms) /\ la \in Seq(Syms) /\ env \in Seq(Decls)
        /\ Len(env) > 0
    BY <1>2, ReadsLex
  <1>7. PICK i : i = Find(k)
    OBVIOUS
  <1>8. sym[i].r = "forward" /\ sym' = [sym EXCEPT ![i].r = "defined"]
    BY <1>7
  <1>9. /\ DOMAIN sym' = DOMAIN sym
        /\ \A j \in DOMAIN sym : j # i => sym'[j] = sym[j]
        /\ i \in DOMAIN sym => sym'[i] = [sym[i] EXCEPT !.r = "defined"]
    BY <1>6, <1>8 DEF SymTableOK
  <1>10. ASSUME NEW j \in DOMAIN sym
         PROVE  /\ sym'[j] \in SymType /\ sym'[j].v = sym[j].v
                /\ sym'[j].prev_tok = sym[j].prev_tok
                /\ sym'[j].sym_scope = sym[j].sym_scope
                /\ sym'[j].r = "implicit" <=> sym[j].r = "implicit"
                /\ sym'[j].r = "complete" <=> sym[j].r = "complete"
    <2>1. sym[j] \in SymType
      BY <1>6 DEF SymTableOK
    <2>2. CASE j # i
      BY <1>9, <2>1, <2>2
    <2>3. CASE j = i
      <3>1. sym'[j] = [sym[j] EXCEPT !.r = "defined"] /\ sym[j].r = "forward"
        BY <1>8, <1>9, <2>3
      <3>2. QED
        BY <2>1, <3>1 DEF SymType, Mark
    <2>4. QED
      BY <2>2, <2>3
  <1>11. Retyped(sym, sym')
    BY <1>9, <1>10 DEF Retyped
  <1>12. SymTableOK'
    <2>1. sym' = [j \in DOMAIN sym |-> sym'[j]]
      BY <1>8, <1>6 DEF SymTableOK
    <2>2. sym' \in [DOMAIN sym' -> SymType]
      BY <1>9, <1>10, <2>1
    <2>3. QED
      BY <1>6, <1>9, <2>2 DEF SymTableOK
  <1>13. /\ Reading' /\ StackOK' /\ EnvOK' /\ Bases' = Bases
         /\ tainted' = tainted /\ local_scope' = local_scope
    BY <1>2, <1>6, SameScopes DEF StackOK
  <1>14. Lex(sym', head, gl, lo, la, env, Bases)
    <2>1. \A l \in Scoped : Agree(env, env, Len(env), l)
      BY DEF Agree
    <2> HIDE DEF gl, lo, la
    <2>2. QED
      BY <1>6, <1>11, <2>1, Marked
  <1>15. LexOK'
    BY <1>13, <1>14 DEF LexOK
  <1>16. ~ tainted' => ScopeInv'
    <2> SUFFICES ASSUME ~ tainted PROVE ScopeInv'
      BY <1>13
    <2>1. local_scope = Len(env) - 1 /\ StructsOK(sym, env)
      BY <1>2 DEF ScopeInv
    <2>2. ASSUME NEW s \in 1 .. Len(env') PROVE SaySame(sym, sym', env, env', s)
      BY <1>2, <1>10, StructValues DEF SaySame
    <2>3. \A s \in 1 .. Len(env') : s \in 1 .. Len(env) /\ SaySame(sym, sym', env, env', s)
      BY <2>2
    <2>4. StructsOK(sym', env')
      BY <2>1, <2>3, StructsKept
    <2>5. QED
      BY <1>13, <2>1, <2>4 DEF ScopeInv
  <1>17. QED
    BY <1>12, <1>13, <1>15, <1>16, ReadOn DEF ReadInv

\* goto, to a label that is known or not.
LEMMA GotoStep ==
    ASSUME LexInv, NEW v \in Name, Goto(v) PROVE LexInv'
  <1>1. Reading
    BY DEF Goto, Reading
  <1>2. Push(<<"label", v>>, 0, "forward", "label") /\ Goes /\ env' = env
    BY DEF Goto
  <1>3. QED
    BY <1>1, <1>2, LabelPushed

\* A label, used before or not.
LEMMA LabelStep ==
    ASSUME LexInv, NEW v \in Name, Label(v) PROVE LexInv'
  <1> DEFINE k == <<"label", v>>
  <1>1. Reading /\ k \in Key
    BY ScopedIs DEF Label, Reading
  <1>2. CASE Push(k, 0, "defined", "label") /\ Goes /\ env' = env
    BY <1>1, <1>2, LabelPushed
  <1>3. CASE /\ sym[Find(k)].r = "forward"
             /\ sym' = [sym EXCEPT ![Find(k)].r = "defined"]
             /\ Goes /\ UNCHANGED <<head, stack, env>>
    BY <1>1, <1>3, LabelMarked
  <1>4. CASE Fail /\ UNCHANGED table
    BY <1>1, <1>4, RefusedStep
  <1>5. QED
    BY <1>2, <1>3, <1>4 DEF Label

-----------------------------------------------------------------------------
(* Structs                                                                 *)

\* A struct is in the table because a scope that is open declares it.
LEMMA StructMeans ==
    ASSUME Reading, StackOK, ReadInv, NEW v \in Name, NEW k \in Scoped,
           k = <<"struct", v>>, head[k] # NULL
    PROVE  \E n \in 1 .. Len(env) :
               /\ k \in DOMAIN env[n] /\ head[k] = env[n][k]
               /\ \A m \in 1 .. Len(env) : k \in DOMAIN env[m] => m <= n
  <1>1. Lex(sym, head, stack["global"], stack["local"], stack["label"], env, Bases)
    BY ReadsLex
  <1>2. Means(head[k], k, Len(env), env, sym)
    BY <1>1 DEF Lex, HeadMeans
  <1>3. ~ Implicit(head[k], k, sym)
    <2> SUFFICES ASSUME head[k] \in DOMAIN sym, sym[head[k]].r = "implicit",
                        sym[head[k]].v = k
                 PROVE  FALSE
      BY DEF Implicit
    <2>1. sym[head[k]].v \in {"identifier"} \X Name
      BY <1>1 DEF Lex, ImplicitsThere
    <2>2. QED
      BY <2>1
  <1>4. QED
    BY <1>2, <1>3 DEF Means

\* What the innermost scope declares is what the table finds.
LEMMA HeadOfTop ==
    ASSUME Reading, StackOK, ReadInv, NEW k \in Scoped, k \in DOMAIN env[Top]
    PROVE  head[k] = env[Top][k] /\ head[k] # NULL
  <1>1. /\ Lex(sym, head, stack["global"], stack["local"], stack["label"], env, Bases)
        /\ stack["global"] \in Seq(Syms) /\ stack["local"] \in Seq(Syms) /\ env \in Seq(Decls)
    BY ReadsLex
  <1>2. Top \in Nat /\ Top > 0 /\ Top \in 1 .. Len(env)
    BY TopIs DEF Top
  <1>3. PICK t \in 1 .. Len(env) : t = Top
    BY <1>2
  <1>4. Means(head[k], k, Len(env), env, sym)
    BY <1>1 DEF Lex, HeadMeans
  <1>5. k \in DOMAIN env[t]
    BY <1>3
  <1>6. head[k] = env[t][k]
    <2>1. PICK n \in 1 .. Len(env) : /\ head[k] = env[n][k]
                                     /\ \A m \in 1 .. Len(env) : k \in DOMAIN env[m] => m <= n
      BY <1>4, <1>5 DEF Means
    <2>2. n = t
      <3>1. t <= n
        BY <1>5, <2>1
      <3>2. QED
        BY <1>2, <1>3, <3>1 DEF Top
    <2>3. QED
      BY <2>1, <2>2
  <1>7. env[t][k] \in Syms
    BY <1>1, <1>5, ValueThere
  <1>8. QED
    BY <1>3, <1>6, <1>7 DEF Syms, NULL

\* A struct that is new in the innermost scope.
LEMMA StructPushed ==
    ASSUME LexInv, Reading, NEW v \in Name, NEW body \in BOOLEAN, Goes,
           ~ Known(v, body),
           Push(<<"struct", v>>, local_scope, IF body THEN "complete" ELSE "none",
                LocalOrGlobal),
           NowSays(IF body
                   THEN With(With(env[Top], <<"struct", v>>, Malloc), <<"body", v>>, TRUE)
                   ELSE With(env[Top], <<"struct", v>>, Malloc))
    PROVE  LexInv'
  <1> DEFINE r == IF body THEN "complete" ELSE "none"
             new == Malloc
             first == With(env[Top], <<"struct", v>>, new)
             now == IF body THEN With(first, <<"body", v>>, TRUE) ELSE first
  <1>1. StackOK /\ ReadInv /\ (~ tainted => ScopeInv) /\ local_scope \in Int
    BY Readers
  <1>2. pc' = pc /\ local_scope' = local_scope /\ blocks' = blocks /\ tainted' = tainted
    BY DEF Goes, run
  <1>3. PICK k \in Scoped, b \in Said : k = <<"struct", v>> /\ b = <<"body", v>>
    BY ScopedIs
  <1>4. k \in Key \cup {Field} /\ k \in Key /\ k \in Said /\ b \notin Scoped /\ b # k
    BY <1>3, ScopedIs
  <1>5. PICK onto \in Stacks : onto = LocalOrGlobal
    BY <1>1, LocalOrGlobalIs DEF Stacks
  <1>6. onto = IF pc = "file" THEN "global" ELSE "local"
    BY <1>1, <1>5, LocalOrGlobalIs
  <1>7. Push(k, local_scope, r, onto) /\ r \in Mark /\ r # "implicit"
    BY <1>3, <1>5 DEF Mark
  <1> HIDE DEF r
  <1>8. /\ new \in Syms /\ Grows(sym, sym', new)
        /\ sym'[new].sym_scope = local_scope /\ sym'[new].r = r
    BY <1>1, <1>4, <1>5, <1>7, PushedSym DEF ReadInv
  <1>9. Top \in Nat /\ Top > 0 /\ Top \in 1 .. Len(env) /\ env[Top] \in Decls
    BY <1>1, TopIs DEF Top
  <1>10. SaysToo(env[Top], first, k, new)
    <2>1. new \in Syms \cup {TRUE}
      BY <1>8
    <2> HIDE DEF new
    <2>2. SaysToo(env[Top], With(env[Top], k, new), k, new)
      BY <1>4, <1>9, <2>1, WithIs
    <2>3. QED
      BY <1>3, <2>2
  <1> HIDE DEF new, first
  <1>11. body => SaysToo(first, now, b, TRUE)
    <2>1. first \in Decls /\ TRUE \in Syms \cup {TRUE}
      BY <1>10 DEF SaysToo
    <2>2. SaysToo(first, With(first, b, TRUE), b, TRUE)
      BY <1>3, <2>1, WithIs
    <2>3. QED
      BY <1>3, <2>2
  <1>12. NowSays(now) /\ (~ body => now = first)
    BY DEF first, new
  <1> HIDE DEF now
  <1>13. now \in Decls
    BY <1>10, <1>11, <1>12 DEF SaysToo
  <1>14. /\ env' \in Seq(Decls) /\ Len(env') = Len(env) /\ env'[Top] = now
         /\ \A n \in 1 .. Top : n # Top => env'[n] = env[n]
    BY <1>1, <1>12, <1>13, NowSaysIs
  <1>15. /\ k \in DOMAIN now /\ now[k] = new
         /\ \A l : l # k /\ l # b => /\ l \in DOMAIN now <=> l \in DOMAIN env[Top]
                                     /\ l \in DOMAIN env[Top] => now[l] = env[Top][l]
         /\ b \in DOMAIN now <=> body \/ b \in DOMAIN env[Top]
    <2>1. CASE body
      BY <1>4, <1>10, <1>11, <2>1 DEF SaysToo
    <2>2. CASE ~ body
      BY <1>4, <1>10, <1>12, <2>2 DEF SaysToo
    <2>3. QED
      BY <2>1, <2>2
  <1>16. Declared(env, env', k, new)
    <2>1. \A l \in Scoped : l # k => /\ l \in DOMAIN env'[Top] <=> l \in DOMAIN env[Top]
                                     /\ l \in DOMAIN env[Top] => env'[Top][l] = env[Top][l]
      BY <1>4, <1>14, <1>15
    <2>2. QED
      BY <1>9, <1>14, <1>15, <2>1 DEF Declared, Top
  <1>17. StackOK' /\ ReadInv'
    <2>1. Declared(env, env', k, Malloc)
      BY <1>16 DEF new
    <2>2. QED
      BY <1>1, <1>2, <1>5, <1>6, <1>7, <1>14, <2>1, Declares1
  <1>18. ASSUME ~ tainted PROVE StructsOK(sym', env')
    <2>1. local_scope = Len(env) - 1 /\ StructsOK(sym, env)
      BY <1>1, <1>18 DEF ScopeInv
    <2>2. ~ body => k \notin DOMAIN env[Top]
      BY <1>1, <1>3, HeadOfTop DEF Known, Find
    <2> SUFFICES ASSUME NEW s \in 1 .. Len(env'), NEW w \in Name
                 PROVE  /\ <<"struct", w>> \in DOMAIN env'[s] =>
                               sym'[env'[s][<<"struct", w>>]].sym_scope = s - 1
                        /\ <<"body", w>> \in DOMAIN env'[s] <=>
                               /\ <<"struct", w>> \in DOMAIN env'[s]
                               /\ sym'[env'[s][<<"struct", w>>]].r = "complete"
      BY DEF StructsOK
    <2>3. PICK l, d : l = <<"struct", w>> /\ d = <<"body", w>>
      OBVIOUS
    <2>4. s \in 1 .. Len(env) /\ s \in 1 .. Top
      BY <1>14 DEF Top
    <2>5. /\ l \in DOMAIN env[s] => sym[env[s][l]].sym_scope = s - 1
          /\ d \in DOMAIN env[s] <=> l \in DOMAIN env[s] /\ sym[env[s][l]].r = "complete"
      BY <2>1, <2>3, <2>4 DEF StructsOK
    <2>6. l \in DOMAIN env[s] => sym'[env[s][l]] = sym[env[s][l]]
      BY <1>1, <1>8, <2>3, <2>4, StructValues DEF Grows
    <2>7. CASE s # Top
      <3>1. env'[s] = env[s]
        BY <1>14, <2>4, <2>7
      <3>2. QED
        BY <2>3, <2>5, <2>6, <3>1
    <2>8. CASE s = Top /\ w # v
      <3>1. l # k /\ l # b /\ d # k /\ d # b
        BY <1>3, <2>3, <2>8
      <3>2. QED
        BY <1>14, <1>15, <2>3, <2>5, <2>6, <2>8, <3>1
    <2>9. CASE s = Top /\ w = v
      <3>1. l = k /\ d = b
        BY <1>3, <2>3, <2>9
      <3>2. sym'[env'[s][k]].sym_scope = s - 1
        BY <1>8, <1>14, <1>15, <2>1, <2>9 DEF Top
      <3>3. sym'[env'[s][k]].r = r
        BY <1>8, <1>14, <1>15, <2>9
      <3>4. b \in DOMAIN env'[s] <=> body
        BY <1>14, <1>15, <2>2, <2>5, <2>9, <3>1
      <3>5. k \in DOMAIN env'[s] /\ (r = "complete" <=> body)
        BY <1>14, <1>15, <2>9 DEF r
      <3>6. QED
        BY <2>3, <3>1, <3>2, <3>3, <3>4, <3>5
    <2>10. QED
      BY <2>7, <2>8, <2>9
  <1>19. ~ tainted' => ScopeInv'
    BY <1>1, <1>2, <1>14, <1>18 DEF ScopeInv
  <1>20. QED
    BY <1>2, <1>17, <1>19, ReadSame, ReadOn

\* A struct that is there gets its body.
LEMMA StructCompleted ==
    ASSUME LexInv, Reading, NEW v \in Name, Goes, Known(v, TRUE),
           sym' = [sym EXCEPT ![Find(<<"struct", v>>)].r = "complete"],
           NowSays(With(env[Top], <<"body", v>>, TRUE)), UNCHANGED <<head, stack>>
    PROVE  LexInv'
  <1> DEFINE gl == stack["global"]
             lo == stack["local"]
             la == stack["label"]
             now == With(env[Top], <<"body", v>>, TRUE)
  <1>1. StackOK /\ ReadInv /\ (~ tainted => ScopeInv) /\ local_scope \in Int
    BY Readers
  <1>2. pc' = pc /\ local_scope' = local_scope /\ blocks' = blocks /\ tainted' = tainted
    BY DEF Goes, run
  <1>3. PICK k \in Scoped, b \in Said : k = <<"struct", v>> /\ b = <<"body", v>>
    BY ScopedIs
  <1>4. b \notin Scoped /\ b # k
    BY <1>3, ScopedIs
  <1>5. /\ head[k] # NULL /\ sym[head[k]].sym_scope = local_scope
        /\ sym' = [sym EXCEPT ![head[k]].r = "complete"]
    BY <1>3 DEF Known, Find
  <1>6. /\ SymTableOK /\ EnvOK /\ Lex(sym, head, gl, lo, la, env, Bases)
        /\ gl \in Seq(Syms) /\ lo \in Seq(Syms) /\ la \in Seq(Syms) /\ env \in Seq(Decls)
        /\ Len(env) > 0
    BY <1>1, ReadsLex
  <1>7. PICK n \in 1 .. Len(env) : k \in DOMAIN env[n] /\ head[k] = env[n][k]
    BY <1>1, <1>3, <1>5, StructMeans
  <1>8. PICK i : i = head[k]
    OBVIOUS
  <1>9. i \in DOMAIN sym /\ sym[i].v = k /\ sym[i].r # "implicit"
    <2>1. i \in DOMAIN sym /\ sym[i].v = k
      BY <1>1, <1>3, <1>7, <1>8, StructValues
    <2>2. sym[i].r = "implicit" => sym[i].v \in {"identifier"} \X Name
      BY <1>6, <2>1 DEF Lex, ImplicitsThere
    <2>3. k \notin {"identifier"} \X Name
      BY <1>3
    <2>4. QED
      BY <2>1, <2>2, <2>3
  <1>10. /\ sym' = [j \in DOMAIN sym |-> sym'[j]] /\ DOMAIN sym' = DOMAIN sym
         /\ \A j \in DOMAIN sym : j # i => sym'[j] = sym[j]
         /\ sym'[i] = [sym[i] EXCEPT !.r = "complete"]
    <2>1. sym' = [sym EXCEPT ![i].r = "complete"]
      BY <1>5, <1>8
    <2>2. sym \in [DOMAIN sym -> SymType]
      BY <1>6 DEF SymTableOK
    <2>3. QED
      BY <1>9, <2>1, <2>2
  <1>11. /\ sym'[i] \in SymType /\ sym'[i].v = sym[i].v /\ sym'[i].prev_tok = sym[i].prev_tok
         /\ sym'[i].sym_scope = sym[i].sym_scope /\ sym'[i].r = "complete"
    <2>1. sym[i] \in SymType
      BY <1>6, <1>9 DEF SymTableOK
    <2>2. QED
      BY <1>10, <2>1 DEF SymType, Mark
  <1>12. Retyped(sym, sym')
    <2>1. \A j \in DOMAIN sym : /\ sym'[j].v = sym[j].v /\ sym'[j].prev_tok = sym[j].prev_tok
                                /\ sym'[j].r = "implicit" <=> sym[j].r = "implicit"
      BY <1>9, <1>10, <1>11
    <2>2. QED
      BY <1>10, <2>1 DEF Retyped
  <1>13. SymTableOK'
    <2>1. \A j \in DOMAIN sym : sym'[j] \in SymType
      BY <1>6, <1>10, <1>11 DEF SymTableOK
    <2>2. sym' \in [DOMAIN sym' -> SymType]
      BY <1>10, <2>1
    <2>3. QED
      BY <1>6, <1>10, <2>2 DEF SymTableOK
  <1>14. Top \in Nat /\ Top > 0 /\ Top \in 1 .. Len(env) /\ env[Top] \in Decls
    BY <1>1, TopIs DEF Top
  <1>15. SaysToo(env[Top], now, b, TRUE)
    <2>1. TRUE \in Syms \cup {TRUE}
      OBVIOUS
    <2>2. SaysToo(env[Top], With(env[Top], b, TRUE), b, TRUE)
      BY <1>14, <2>1, WithIs
    <2>3. QED
      BY <1>3, <2>2
  <1>16. NowSays(now)
    OBVIOUS
  <1> HIDE DEF now
  <1>17. /\ env' \in Seq(Decls) /\ Len(env') = Len(env) /\ env'[Top] = now
         /\ \A m \in 1 .. Top : m # Top => env'[m] = env[m]
    <2>1. now \in Decls
      BY <1>15 DEF SaysToo
    <2>2. QED
      BY <1>1, <1>16, <2>1, NowSaysIs
  <1>18. \A l : l # b => /\ l \in DOMAIN now <=> l \in DOMAIN env[Top]
                         /\ l \in DOMAIN env[Top] => now[l] = env[Top][l]
    BY <1>15 DEF SaysToo
  <1>19. ASSUME NEW l \in Scoped PROVE Agree(env, env', Len(env), l)
    <2>1. \A m \in 1 .. Len(env) : m \in 1 .. Top
      BY DEF Top
    <2>2. l # b
      BY <1>4
    <2>3. QED
      BY <1>17, <1>18, <2>1, <2>2 DEF Agree
  <1>20. StackOK' /\ EnvOK' /\ Bases' = Bases
    <2>1. stack' = stack /\ local_scope' = local_scope
      BY <1>2
    <2>2. StackOK'
      BY <1>1, <2>1 DEF StackOK
    <2>3. stack'["local"] = stack["local"] /\ Len(stack["local"]) \in Nat
      BY <1>6, <2>1
    <2>4. (pc = "file" => stack["local"] = <<>>) /\ (pc # "file" => stack["local"] # <<>>)
      BY <1>6 DEF EnvOK
    <2>5. EnvOK' /\ Bases' = Bases
      BY <1>2, <1>6, <1>17, <2>3, <2>4, EnvStays
    <2>6. QED
      BY <2>2, <2>5
  <1>21. LexOK'
    <2> HIDE DEF gl, lo, la
    <2>1. \A l \in Scoped : Agree(env, env', Len(env), l)
      BY <1>19
    <2>2. Lex(sym', head, gl, lo, la, env', Bases)
      BY <1>6, <1>12, <1>17, <2>1, Marked
    <2>3. QED
      BY <1>20, <2>2 DEF LexOK, gl, lo, la
  <1>22. ASSUME ~ tainted PROVE StructsOK(sym', env')
    <2>1. local_scope = Len(env) - 1 /\ StructsOK(sym, env)
      BY <1>1, <1>22 DEF ScopeInv
    <2>2. n = Top
      <3>1. sym[head[k]].sym_scope = n - 1
        BY <1>3, <1>7, <2>1 DEF StructsOK
      <3>2. QED
        BY <1>5, <1>14, <2>1, <3>1 DEF Top
    <2> SUFFICES ASSUME NEW s \in 1 .. Len(env'), NEW w \in Name
                 PROVE  /\ <<"struct", w>> \in DOMAIN env'[s] =>
                               sym'[env'[s][<<"struct", w>>]].sym_scope = s - 1
                        /\ <<"body", w>> \in DOMAIN env'[s] <=>
                               /\ <<"struct", w>> \in DOMAIN env'[s]
                               /\ sym'[env'[s][<<"struct", w>>]].r = "complete"
      BY DEF StructsOK
    <2>3. PICK l, d : l = <<"struct", w>> /\ d = <<"body", w>>
      OBVIOUS
    <2>4. s \in 1 .. Len(env) /\ s \in 1 .. Top
      BY <1>17 DEF Top
    <2>5. /\ l \in DOMAIN env[s] => sym[env[s][l]].sym_scope = s - 1
          /\ d \in DOMAIN env[s] <=> l \in DOMAIN env[s] /\ sym[env[s][l]].r = "complete"
      BY <2>1, <2>3, <2>4 DEF StructsOK
    <2>6. /\ l \in DOMAIN env'[s] <=> l \in DOMAIN env[s]
          /\ l \in DOMAIN env[s] => env'[s][l] = env[s][l]
      <3>1. l # b
        BY <1>3, <2>3
      <3>2. QED
        BY <1>17, <1>18, <2>4, <3>1
    <2>7. CASE s = Top /\ w = v
      <3>1. l = k /\ d = b /\ env[s][k] = i /\ k \in DOMAIN env[s]
        BY <1>3, <1>7, <1>8, <2>2, <2>3, <2>7
      <3>2. b \in DOMAIN env'[s]
        BY <1>15, <1>17, <2>7 DEF SaysToo
      <3>3. QED
        BY <1>11, <2>3, <2>5, <2>6, <3>1, <3>2
    <2>8. CASE ~ (s = Top /\ w = v)
      <3>1. d \in DOMAIN env'[s] <=> d \in DOMAIN env[s]
        <4>1. s # Top \/ d # b
          BY <1>3, <2>3, <2>8
        <4>2. QED
          BY <1>15, <1>17, <2>4, <4>1 DEF SaysToo
      <3>2. l \in DOMAIN env[s] => sym'[env[s][l]] = sym[env[s][l]]
        <4> SUFFICES ASSUME l \in DOMAIN env[s] PROVE sym'[env[s][l]] = sym[env[s][l]]
          OBVIOUS
        <4>1. env[s][l] \in DOMAIN sym /\ sym[env[s][l]].v = l
          BY <1>1, <2>3, <2>4, StructValues
        <4>2. env[s][l] # i
          <5>1. CASE w # v
            BY <1>3, <1>9, <2>3, <4>1, <5>1
          <5>2. CASE s # Top
            BY <1>5, <1>8, <1>14, <2>1, <2>4, <2>5, <5>2 DEF Top
          <5>3. QED
            BY <2>8, <5>1, <5>2
        <4>3. QED
          BY <1>10, <4>1, <4>2
      <3>3. QED
        BY <2>3, <2>5, <2>6, <3>1, <3>2
    <2>9. QED
      BY <2>7, <2>8
  <1>23. ~ tainted' => ScopeInv'
    BY <1>1, <1>2, <1>17, <1>22 DEF ScopeInv
  <1>24. QED
    BY <1>2, <1>13, <1>20, <1>21, <1>23, ReadSame, ReadOn DEF ReadInv

\* struct v, with a body or without.
LEMMA StructStep ==
    ASSUME LexInv, NEW v \in Name, NEW body \in BOOLEAN, DeclareStruct(v, body)
    PROVE  LexInv'
  <1>1. Reading /\ Goes
    BY DEF DeclareStruct, Parsing, Reading
  <1>2. CASE /\ ~ Known(v, body)
             /\ Push(<<"struct", v>>, local_scope, IF body THEN "complete" ELSE "none",
                     LocalOrGlobal)
             /\ NowSays(IF body
                   THEN With(With(env[Top], <<"struct", v>>, Malloc), <<"body", v>>, TRUE)
                   ELSE With(env[Top], <<"struct", v>>, Malloc))
    BY <1>1, <1>2, StructPushed
  <1>3. CASE /\ body /\ Known(v, body)
             /\ sym' = [sym EXCEPT ![Find(<<"struct", v>>)].r = "complete"]
             /\ NowSays(With(env[Top], <<"body", v>>, TRUE)) /\ UNCHANGED <<head, stack>>
    <2>1. Known(v, TRUE)
      BY <1>3
    <2>2. QED
      BY <1>1, <1>3, <2>1, StructCompleted
  <1>4. QED
    BY <1>2, <1>3 DEF DeclareStruct, NowSays, Top

-----------------------------------------------------------------------------
(* Scopes are opened                                                       *)

\* Nothing is said in a scope that has just been opened.
LEMMA AppendIs ==
    ASSUME NEW S, NEW en \in Seq(S), NEW x \in S
    PROVE  Appended(en, Append(en, x), x) /\ Append(en, x) \in Seq(S)
  BY DEF Appended

\* A scope that says nothing.
LEMMA NothingIs == Nothing \in Decls /\ \A l : l \notin DOMAIN Nothing
  <1>1. DOMAIN Nothing = {}
    BY DEF Nothing
  <1>2. Nothing \in [{} -> Syms \cup {TRUE}]
    BY DEF Nothing
  <1>3. QED
    BY <1>1, <1>2 DEF Decls

\* Opening a scope tells nothing about structs.
LEMMA OpenedStructs ==
    ASSUME StackOK, ReadInv, StructsOK(sym, env), Appended(env, env', Nothing),
           Len(env) \in Nat, NEW new, sym' = sym \/ Grows(sym, sym', new)
    PROVE  StructsOK(sym', env')
  <1> SUFFICES ASSUME NEW s \in 1 .. Len(env'), NEW w \in Name
               PROVE  /\ <<"struct", w>> \in DOMAIN env'[s] =>
                             sym'[env'[s][<<"struct", w>>]].sym_scope = s - 1
                      /\ <<"body", w>> \in DOMAIN env'[s] <=>
                             /\ <<"struct", w>> \in DOMAIN env'[s]
                             /\ sym'[env'[s][<<"struct", w>>]].r = "complete"
    BY DEF StructsOK
  <1>1. CASE s \in 1 .. Len(env)
    <2>1. env'[s] = env[s]
      BY <1>1 DEF Appended
    <2>2. PICK l, d : l = <<"struct", w>> /\ d = <<"body", w>>
      OBVIOUS
    <2>3. /\ l \in DOMAIN env[s] => sym[env[s][l]].sym_scope = s - 1
          /\ d \in DOMAIN env[s] <=> l \in DOMAIN env[s] /\ sym[env[s][l]].r = "complete"
      BY <1>1, <2>2 DEF StructsOK
    <2>4. l \in DOMAIN env[s] => sym'[env[s][l]] = sym[env[s][l]]
      BY <1>1, <2>2, StructValues DEF Grows
    <2>5. QED
      BY <2>1, <2>2, <2>3, <2>4
  <1>2. CASE s \notin 1 .. Len(env)
    <2>1. env'[s] = Nothing
      BY <1>2 DEF Appended
    <2>2. QED
      BY <2>1, NothingIs
  <1>3. QED
    BY <1>1, <1>2

\* A function begins: its scope is above an anonymous Sym.
LEMMA FunctionBegun ==
    ASSUME LexInv, BeginFunction PROVE LexInv'
  <1> DEFINE gl == stack["global"]
             lo == stack["local"]
             la == stack["label"]
             new == Malloc
  <1>1. Reading /\ pc = "file"
    BY DEF BeginFunction, Reading
  <1>2. StackOK /\ ReadInv /\ (~ tainted => ScopeInv)
    BY <1>1, Readers
  <1>3. /\ SymTableOK /\ EnvOK /\ Lex(sym, head, gl, lo, la, env, Bases)
        /\ gl \in Seq(Syms) /\ lo \in Seq(Syms) /\ la \in Seq(Syms) /\ env \in Seq(Decls)
        /\ Len(env) > 0
    BY <1>1, <1>2, ReadsLex
  <1>4. /\ Push(Field, 0, "none", "local") /\ env' = Append(env, Nothing)
        /\ pc' = "params" /\ local_scope' = 1 /\ blocks' = blocks /\ tainted' = tainted
    BY DEF BeginFunction, run
  <1>5. Len(env) = 1 /\ blocks = <<>> /\ lo = <<>>
    BY <1>1, <1>3 DEF EnvOK
  <1>6. /\ new \in Syms /\ Grows(sym, sym', new) /\ NotIn(la, new)
        /\ sym'[new].v = Field /\ sym'[new].r = "none"
        /\ stack' \in [Stacks -> Seq(Syms)] /\ Appended(lo, lo', new)
        /\ \A s \in Stacks : s # "local" => stack'[s] = stack[s]
        /\ SymTableOK' /\ \A l \in Scoped : head'[l] = head[l]
    <2>1. PICK onto \in Stacks, r \in Mark, k \in Key \cup {Field} :
              onto = "local" /\ r = "none" /\ k = Field
      BY DEF Stacks, Mark
    <2>2. Push(k, 0, r, onto) /\ 0 \in Int
      BY <1>4, <2>1
    <2>3. /\ new \in Syms /\ Grows(sym, sym', new) /\ NotIn(stack["label"], new)
          /\ sym'[new].v = k /\ sym'[new].r = r
          /\ stack' \in [Stacks -> Seq(Syms)]
          /\ Appended(stack[onto], stack'[onto], new)
          /\ \A s \in Stacks : s # onto => stack'[s] = stack[s]
          /\ SymTableOK' /\ \A l \in Scoped : l # k => head'[l] = head[l]
      BY <1>2, <1>3, <2>2, PushedSym
    <2>4. QED
      BY <2>1, <2>3, ScopedIs
  <1> HIDE DEF new
  <1>7. gl' = gl /\ lo' \in Seq(Syms) /\ la' = la /\ Len(lo') = Len(lo) + 1
    BY <1>6, StacksAre DEF Stacks, Appended
  <1>8. Appended(env, env', Nothing) /\ env' \in Seq(Decls) /\ Len(env') = 2
    <2>1. Appended(env, env', Nothing) /\ env' \in Seq(Decls)
      BY <1>3, <1>4, NothingIs, AppendIs
    <2>2. QED
      BY <1>5, <2>1 DEF Appended
  <1>9. StackOK' /\ lo' # <<>>
    BY <1>4, <1>5, <1>6, <1>7 DEF StackOK
  <1>10. EnvOK'
    <2>1. BlocksOK(blocks', Len(lo'))
      BY <1>4, <1>5 DEF BlocksOK
    <2>2. QED
      BY <1>4, <1>5, <1>8, <1>9, <2>1 DEF EnvOK
  <1>11. /\ \A n \in 1 .. Len(env) : Bases'[n] = Bases[n]
         /\ Bases'[Len(env) + 1] = Len(lo)
    BY <1>5, <1>8 DEF Bases, Base
  <1>12. Lex(sym, head, gl, lo, la, env', Bases')
    <2> HIDE DEF gl, lo, la
    <2>1. PICK en2, b2 : en2 = env' /\ b2 = Bases'
      OBVIOUS
    <2>2. /\ Appended(env, en2, Nothing) /\ \A n \in 1 .. Len(env) : b2[n] = Bases[n]
          /\ b2[Len(env) + 1] = Len(lo)
      BY <1>8, <1>11, <2>1
    <2>3. Lex(sym, head, gl, lo, la, en2, b2)
      BY <1>3, <2>2, Opened
    <2>4. QED
      BY <2>1, <2>3
  <1>13. Lex(sym', head', gl, lo', la, env', Bases')
    <2>1. sym'[new].v \notin Scoped /\ sym'[new].r # "implicit"
      BY <1>6, ScopedIs
    <2> HIDE DEF gl, lo, la
    <2>2. QED
      BY <1>3, <1>6, <1>7, <1>8, <1>12, <2>1, PushedAside
  <1>14. LexOK'
    BY <1>7, <1>13 DEF LexOK
  <1>15. ~ tainted' => ScopeInv'
    BY <1>2, <1>4, <1>5, <1>6, <1>8, OpenedStructs DEF ScopeInv
  <1>16. Reading'
    BY <1>4 DEF Reading
  <1>17. QED
    BY <1>6, <1>9, <1>10, <1>14, <1>15, <1>16, ReadOn DEF ReadInv

\* The body of a function is one more scope.
LEMMA BodyOpened ==
    ASSUME LexInv, OpenBody PROVE LexInv'
  <1>1. Reading /\ pc = "params"
    BY DEF OpenBody, Reading
  <1>2. StackOK /\ ReadInv /\ (~ tainted => ScopeInv)
    BY <1>1, Readers
  <1>3. /\ pc' = "func" /\ blocks' = <<[base |-> Len(stack["local"]), is_expr |-> FALSE]>>
        /\ sym' = sym /\ head' = head /\ stack' = stack /\ local_scope' = local_scope
        /\ env' = env /\ tainted' = tainted
    BY <1>2, StacksAre DEF OpenBody, Block, table, run
  <1>4. stack["local"] \in Seq(Syms) /\ Len(env) = 2 /\ EnvOK /\ LexOK /\ SymTableOK
    BY <1>1, <1>2, StacksAre DEF ReadInv, EnvOK
  <1>5. Len(stack["local"]) \in Nat /\ Len(stack["local"]) > 0
    BY <1>1, <1>4 DEF EnvOK
  <1>6. EnvOK'
    <2>1. BlocksOK(blocks', Len(stack["local"]))
      BY <1>3, <1>5 DEF BlocksOK
    <2>2. QED
      BY <1>3, <1>4, <1>5, <2>1 DEF EnvOK
  <1>7. Bases' = Bases
    BY <1>3, <1>4 DEF Bases, Base
  <1>8. StackOK' /\ SymTableOK' /\ LexOK' /\ Reading' /\ (~ tainted' => ScopeInv')
    BY <1>2, <1>3, <1>4, <1>7 DEF StackOK, SymTableOK, LexOK, Reading, ScopeInv
  <1>9. QED
    BY <1>6, <1>8, ReadOn DEF ReadInv

\* A block is opened.
LEMMA BlockOpened ==
    ASSUME LexInv, NEW is_expr \in BOOLEAN, OpenBlock(is_expr) PROVE LexInv'
  <1> DEFINE gl == stack["global"]
             lo == stack["local"]
             la == stack["label"]
             blk == [base |-> Len(lo), is_expr |-> is_expr]
  <1>1. Reading /\ pc = "func"
    BY DEF OpenBlock, Reading
  <1>2. StackOK /\ ReadInv /\ (~ tainted => ScopeInv) /\ local_scope \in Int
    BY <1>1, Readers
  <1>3. /\ SymTableOK /\ EnvOK /\ Lex(sym, head, gl, lo, la, env, Bases)
        /\ gl \in Seq(Syms) /\ lo \in Seq(Syms) /\ la \in Seq(Syms) /\ env \in Seq(Decls)
        /\ Len(env) > 0
    BY <1>1, <1>2, ReadsLex
  <1>4. /\ pc' = pc /\ blocks' = Append(blocks, blk) /\ env' = Append(env, Nothing)
        /\ local_scope' = local_scope + 1 /\ sym' = sym /\ head' = head /\ stack' = stack
        /\ tainted' = tainted
    BY <1>2, StacksAre DEF OpenBlock, Block, table, run
  <1>5. /\ Len(env) = Len(blocks) + 1 /\ Len(env) > 1 /\ lo # <<>>
        /\ blocks \in Seq([base : Nat, is_expr : BOOLEAN])
        /\ BlocksOK(blocks, Len(lo))
    BY <1>1, <1>3 DEF EnvOK
  <1>6. Len(lo) \in Nat /\ Len(lo) > 0 /\ blk \in [base : Nat, is_expr : BOOLEAN]
    BY <1>3, <1>5
  <1>7. blk.base = Len(lo)
    OBVIOUS
  <1> HIDE DEF blk
  <1>8. /\ Appended(env, env', Nothing) /\ env' \in Seq(Decls) /\ Len(env') = Len(env) + 1
        /\ Appended(blocks, blocks', blk) /\ blocks' \in Seq([base : Nat, is_expr : BOOLEAN])
        /\ Len(blocks') = Len(blocks) + 1 /\ Len(blocks) \in Nat
    <2>1. Appended(env, env', Nothing) /\ env' \in Seq(Decls)
      BY <1>3, <1>4, NothingIs, AppendIs
    <2>2. Appended(blocks, blocks', blk) /\ blocks' \in Seq([base : Nat, is_expr : BOOLEAN])
      BY <1>4, <1>5, <1>6, AppendIs
    <2>3. QED
      BY <1>5, <2>1, <2>2 DEF Appended
  <1>9. BlocksOK(blocks', Len(lo'))
    <2>1. ASSUME NEW n \in 1 .. Len(blocks')
          PROVE  \/ n \in 1 .. Len(blocks) /\ blocks'[n] = blocks[n]
                 \/ n = Len(blocks') /\ blocks'[n] = blk
      <3>1. n \in 1 .. Len(blocks) \/ n = Len(blocks) + 1
        BY <1>8
      <3>2. QED
        BY <1>8, <3>1 DEF Appended
    <2>2. \A n \in 1 .. Len(blocks) : /\ blocks[n].base \in Nat /\ 0 < blocks[n].base
                                      /\ blocks[n].base <= Len(lo)
      BY <1>5 DEF BlocksOK
    <2>3. ASSUME NEW n \in 1 .. Len(blocks')
          PROVE  /\ blocks'[n].base \in Nat /\ 0 < blocks'[n].base
                 /\ blocks'[n].base <= Len(lo)
      BY <1>6, <1>7, <2>1, <2>2
    <2>4. ASSUME NEW m \in 1 .. Len(blocks'), NEW n \in 1 .. Len(blocks'), m <= n
          PROVE  blocks'[m].base <= blocks'[n].base
      <3>1. CASE n \in 1 .. Len(blocks) /\ blocks'[n] = blocks[n]
        <4>1. m \in 1 .. Len(blocks) /\ blocks'[m] = blocks[m]
          BY <1>8, <2>1, <2>4, <3>1
        <4>2. QED
          BY <1>5, <2>4, <3>1, <4>1 DEF BlocksOK
      <3>2. CASE n = Len(blocks') /\ blocks'[n] = blk
        BY <1>7, <2>3, <3>2
      <3>3. QED
        BY <2>1, <3>1, <3>2
    <2>5. QED
      BY <1>4, <2>3, <2>4 DEF BlocksOK
  <1>10. EnvOK'
    BY <1>1, <1>4, <1>5, <1>8, <1>9 DEF EnvOK
  <1>11. /\ \A n \in 1 .. Len(env) : Bases'[n] = Bases[n]
         /\ Bases'[Len(env) + 1] = Len(lo)
    <2>1. Len(env) \in Nat /\ Len(env) + 1 \in 1 .. Len(env') /\ ~ (Len(env) + 1 <= 2)
      BY <1>3, <1>5, <1>8
    <2>2. Bases'[Len(env) + 1] = blocks'[Len(env)].base
      BY <2>1 DEF Bases, Base
    <2>3. blocks'[Len(env)] = blk
      BY <1>5, <1>8 DEF Appended
    <2>4. ASSUME NEW n \in 1 .. Len(env) PROVE Bases'[n] = Bases[n]
      <3>1. n \in 1 .. Len(env')
        BY <1>8, <2>1
      <3>2. n > 2 => n - 1 \in 1 .. Len(blocks) /\ blocks'[n - 1] = blocks[n - 1]
        <4>1. n > 2 => n - 1 \in 1 .. Len(blocks)
          BY <1>5, <1>8
        <4>2. \A m \in 1 .. Len(blocks) : blocks'[m] = blocks[m]
          BY <1>8 DEF Appended
        <4>3. QED
          BY <4>1, <4>2
      <3>3. QED
        BY <2>1, <3>1, <3>2 DEF Bases, Base
    <2>5. QED
      BY <1>7, <2>2, <2>3, <2>4
  <1>12. Lex(sym, head, gl, lo, la, env', Bases')
    <2> HIDE DEF gl, lo, la
    <2>1. PICK en2, b2 : en2 = env' /\ b2 = Bases'
      OBVIOUS
    <2>2. /\ Appended(env, en2, Nothing) /\ \A n \in 1 .. Len(env) : b2[n] = Bases[n]
          /\ b2[Len(env) + 1] = Len(lo)
      BY <1>8, <1>11, <2>1
    <2>3. Lex(sym, head, gl, lo, la, en2, b2)
      BY <1>3, <2>2, Opened
    <2>4. QED
      BY <2>1, <2>3
  <1>13. LexOK' /\ SymTableOK' /\ StackOK' /\ Reading'
    BY <1>1, <1>2, <1>3, <1>4, <1>12 DEF LexOK, SymTableOK, StackOK, Reading
  <1>14. ~ tainted' => ScopeInv'
    BY <1>2, <1>3, <1>4, <1>8, OpenedStructs DEF ScopeInv
  <1>15. QED
    BY <1>10, <1>13, <1>14, ReadOn DEF ReadInv

-----------------------------------------------------------------------------
(* Scopes are closed                                                       *)

\* All but the last of a sequence.
LEMMA LastIs ==
    ASSUME NEW S, NEW q \in Seq(S), Len(q) > 1
    PROVE  /\ Len(q) \in Nat /\ Last(q) = q[Len(q)] /\ Front(q) \in Seq(S)
           /\ Len(Front(q)) = Len(q) - 1
           /\ \A n \in 1 .. (Len(q) - 1) : Front(q)[n] = q[n]
  <1>1. Len(q) \in Nat /\ \A n \in 1 .. Len(q) : q[n] \in S
    BY ElementOfSeq, LenProperties
  <1>2. /\ 1 \in Int /\ Len(q) - 1 \in Int /\ 1 <= Len(q) - 1
        /\ \A n \in 1 .. (Len(q) - 1) : q[n] \in S
    BY <1>1
  <1>3. /\ SubSeq(q, 1, Len(q) - 1) \in Seq(S)
        /\ Len(SubSeq(q, 1, Len(q) - 1)) =
               IF 1 <= Len(q) - 1 THEN (Len(q) - 1) - 1 + 1 ELSE 0
        /\ \A n \in 1 .. ((Len(q) - 1) - 1 + 1) : SubSeq(q, 1, Len(q) - 1)[n] = q[1 + n - 1]
    BY <1>2, SubSeqProperties
  <1>4. /\ Len(SubSeq(q, 1, Len(q) - 1)) = Len(q) - 1
        /\ \A n \in 1 .. (Len(q) - 1) : SubSeq(q, 1, Len(q) - 1)[n] = q[n]
    BY <1>1, <1>2, <1>3
  <1>5. QED
    BY <1>1, <1>3, <1>4 DEF Last, Front

\* The Syms above the beginning of a scope are no others'.
LEMMA OthersStay ==
    ASSUME NEW gl \in Seq(Syms), NEW lo \in Seq(Syms), NEW la,
           SymsOK(sym, gl, lo, la), NEW c \in Nat, c <= Len(lo),
           sym' = Freed(Range(Above(lo, c)))
    PROVE  /\ DOMAIN sym' \subseteq DOMAIN sym /\ \A i \in DOMAIN sym' : sym'[i] = sym[i]
           /\ \A n \in 1 .. Len(gl) : gl[n] \in DOMAIN sym'
           /\ \A n \in 1 .. c : lo[n] \in DOMAIN sym'
  <1>1. PICK popped \in Seq(Syms) :
            /\ popped = Above(lo, c) /\ Len(popped) = Len(lo) - c
            /\ \A n \in 1 .. (Len(lo) - c) : popped[n] = lo[c + n]
    BY CutAt
  <1>2. /\ \A i \in DOMAIN sym' : i \in DOMAIN sym /\ sym'[i] = sym[i]
        /\ \A i : i \in DOMAIN sym' <=>
               i \in DOMAIN sym /\ \A n \in 1 .. Len(popped) : i # popped[n]
    BY <1>1, Freeing
  <1>3. Len(lo) \in Nat /\ \A n \in 1 .. Len(popped) : c + n \in 1 .. Len(lo)
    BY <1>1
  <1>4. ASSUME NEW n \in 1 .. Len(gl) PROVE gl[n] \in DOMAIN sym'
    <2>1. gl[n] \in DOMAIN sym /\ \A m \in 1 .. Len(lo) : gl[n] # lo[m]
      BY DEF SymsOK
    <2>2. \A m \in 1 .. Len(popped) : gl[n] # popped[m]
      BY <1>1, <1>3, <2>1
    <2>3. QED
      BY <1>2, <2>1, <2>2
  <1>5. ASSUME NEW n \in 1 .. c PROVE lo[n] \in DOMAIN sym'
    <2>1. n \in 1 .. Len(lo)
      BY <1>3
    <2>2. lo[n] \in DOMAIN sym /\ \A m \in 1 .. Len(lo) : lo[n] = lo[m] => n = m
      BY <2>1 DEF SymsOK
    <2>3. \A m \in 1 .. Len(popped) : n # c + m
      BY <1>1
    <2>4. \A m \in 1 .. Len(popped) : lo[n] # popped[m]
      BY <1>1, <1>3, <2>2, <2>3
    <2>5. QED
      BY <1>2, <2>2, <2>4
  <1>6. QED
    BY <1>2, <1>4, <1>5

\* A block is closed: each name means again what it meant before.
LEMMA BlockClosed ==
    ASSUME LexInv, CloseBlock PROVE LexInv'
  <1> DEFINE gl == stack["global"]
             lo == stack["local"]
             la == stack["label"]
             base == Last(blocks).base
             t == Len(env) - 1
  <1>1. Reading /\ pc = "func" /\ Len(blocks) > 1
    BY DEF CloseBlock, Reading
  <1>2. StackOK /\ ReadInv /\ (~ tainted => ScopeInv) /\ local_scope \in Int
    BY <1>1, Readers
  <1>3. /\ SymTableOK /\ EnvOK /\ Lex(sym, head, gl, lo, la, env, Bases)
        /\ gl \in Seq(Syms) /\ lo \in Seq(Syms) /\ la \in Seq(Syms) /\ env \in Seq(Decls)
        /\ Len(env) > 0
    BY <1>1, <1>2, ReadsLex
  <1>4. /\ pc' = pc /\ blocks' = Front(blocks) /\ env' = Front(env) /\ tainted' = tainted
        /\ local_scope' = local_scope - 1 /\ head' = Unlinked(head, Above(lo, base))
        /\ \/ sym' = sym /\ stack' = stack
           \/ /\ sym' = Freed(Range(Above(lo, base)))
              /\ stack' = [stack EXCEPT !["local"] = Below(@, base)]
    BY <1>2, StacksAre DEF CloseBlock, run
  <1>5. /\ Len(env) = Len(blocks) + 1 /\ BlocksOK(blocks, Len(lo))
        /\ blocks \in Seq([base : Nat, is_expr : BOOLEAN])
    BY <1>1, <1>3 DEF EnvOK
  <1>6. /\ Len(blocks) \in Nat /\ Last(blocks) = blocks[Len(blocks)]
        /\ blocks' \in Seq([base : Nat, is_expr : BOOLEAN]) /\ Len(blocks') = Len(blocks) - 1
        /\ \A n \in 1 .. (Len(blocks) - 1) : blocks'[n] = blocks[n]
    BY <1>1, <1>4, <1>5, LastIs
  <1>7. /\ Len(env) \in Nat /\ t \in 1 .. (Len(env) - 1) /\ env' \in Seq(Decls)
        /\ Len(env') = t /\ \A n \in 1 .. t : env'[n] = env[n]
    <2>1. Len(env) > 1
      BY <1>1, <1>5, <1>6
    <2>2. /\ Len(env) \in Nat /\ env' \in Seq(Decls) /\ Len(env') = Len(env) - 1
          /\ \A n \in 1 .. (Len(env) - 1) : env'[n] = env[n]
      BY <1>3, <1>4, <2>1, LastIs
    <2>3. QED
      BY <2>1, <2>2
  <1>8. /\ base \in Nat /\ base > 0 /\ base <= Len(lo) /\ base = blocks[Len(blocks)].base
        /\ \A n \in 1 .. (Len(blocks) - 1) : blocks[n].base <= base
    BY <1>1, <1>5, <1>6 DEF BlocksOK
  <1>9. /\ Bases[t + 1] = base
        /\ \A n \in 1 .. t : Bases'[n] = Bases[n]
    <2>1. Bases[t + 1] = base
      <3>1. t + 1 = Len(env) /\ Len(env) > 2 /\ t + 1 \in 1 .. Len(env) /\ Len(env) - 1 = Len(blocks)
        BY <1>1, <1>5, <1>6, <1>7
      <3>2. QED
        BY <1>8, <3>1 DEF Bases, Base
    <2>2. ASSUME NEW n \in 1 .. t PROVE Bases'[n] = Bases[n]
      <3>1. n \in 1 .. Len(env') /\ n \in 1 .. Len(env)
        BY <1>7
      <3>2. n > 2 => n - 1 \in 1 .. (Len(blocks) - 1)
        BY <1>5, <1>6, <1>7
      <3>3. n > 2 => blocks'[n - 1] = blocks[n - 1]
        BY <1>6, <3>2
      <3>4. QED
        BY <1>7, <3>1, <3>3 DEF Bases, Base
    <2>3. QED
      BY <2>1, <2>2
  <1> HIDE DEF base, t
  <1>10. PICK popped \in Seq(Syms) :
             /\ popped = Above(lo, base) /\ Len(popped) = Len(lo) - base
             /\ \A n \in 1 .. (Len(lo) - base) : popped[n] = lo[base + n]
             /\ Below(lo, base) \in Seq(Syms) /\ Len(Below(lo, base)) = base
             /\ \A n \in 1 .. base : Below(lo, base)[n] = lo[n]
    <2>1. PICK p \in Seq(Syms), c \in Nat : p = lo /\ c = base /\ c <= Len(p)
      BY <1>3, <1>8
    <2>2. /\ Below(p, c) \in Seq(Syms) /\ Len(Below(p, c)) = c
          /\ \A n \in 1 .. c : Below(p, c)[n] = p[n]
          /\ Above(p, c) \in Seq(Syms) /\ Len(Above(p, c)) = Len(p) - c
          /\ \A n \in 1 .. (Len(p) - c) : Above(p, c)[n] = p[c + n]
      BY <2>1, CutAt
    <2>3. QED
      BY <2>1, <2>2
  <1>11. ASSUME NEW k \in Scoped PROVE PutBack(sym, head, head', lo, base, k)
    <2>1. Len(popped) >= Len(lo) - base /\ \A n \in 1 .. Len(popped) : ~ (n > Len(lo) - base)
      BY <1>3, <1>8, <1>10
    <2>2. PutBack(sym, head, Unlinked(head, popped), lo, base, k)
      BY <1>3, <1>8, <1>10, <2>1, PoppedHead
    <2>3. QED
      BY <1>4, <1>10, <2>2
  <1>12. /\ stack' \in [Stacks -> Seq(Syms)] /\ gl' = gl /\ la' = la /\ lo' \in Seq(Syms)
         /\ DOMAIN sym' \subseteq DOMAIN sym /\ \A i \in DOMAIN sym' : sym'[i] = sym[i]
         /\ \A n \in 1 .. Len(gl) : gl[n] \in DOMAIN sym'
         /\ base <= Len(lo') /\ Len(lo') <= Len(lo)
         /\ \A n \in 1 .. Len(lo') : lo'[n] = lo[n] /\ lo[n] \in DOMAIN sym'
         /\ sym' \in [DOMAIN sym' -> SymType]
    <2>1. SymsOK(sym, gl, lo, la)
      BY <1>3 DEF Lex
    <2>2. stack \in [Stacks -> Seq(Syms)] /\ sym \in [DOMAIN sym -> SymType]
      BY <1>2, <1>3 DEF StackOK, SymTableOK
    <2>3. CASE sym' = sym /\ stack' = stack
      BY <1>3, <1>8, <2>1, <2>2, <2>3 DEF SymsOK
    <2>4. CASE /\ sym' = Freed(Range(Above(lo, base)))
               /\ stack' = [stack EXCEPT !["local"] = Below(@, base)]
      <3>1. /\ stack' \in [Stacks -> Seq(Syms)] /\ gl' = gl /\ la' = la
            /\ lo' = Below(lo, base)
        BY <1>10, <2>2, <2>4, StacksAre DEF Stacks
      <3>2. /\ DOMAIN sym' \subseteq DOMAIN sym /\ \A i \in DOMAIN sym' : sym'[i] = sym[i]
            /\ \A n \in 1 .. Len(gl) : gl[n] \in DOMAIN sym'
            /\ \A n \in 1 .. base : lo[n] \in DOMAIN sym'
        BY <1>3, <1>8, <2>1, <2>4, OthersStay
      <3>3. sym' = [i \in DOMAIN sym' |-> sym'[i]]
        BY <1>10, <2>4, Freeing
      <3>4. sym' \in [DOMAIN sym' -> SymType]
        BY <2>2, <3>2, <3>3
      <3>5. QED
        BY <1>8, <1>10, <3>1, <3>2, <3>4
    <2>5. QED
      BY <1>4, <2>3, <2>4
  <1>13. Lex(sym', head', gl, lo', la, env', Bases')
    <2>0. PICK lo2 \in Seq(Syms) : lo2 = lo'
      BY <1>12
    <2>1. PICK en2, b2, sy2, hd2 :
              lo2 = lo' /\ en2 = env' /\ b2 = Bases' /\ sy2 = sym' /\ hd2 = head'
      BY <2>0
    <2>2. t \in 1 .. (Len(env) - 1) /\ LeavesOpen(env, en2, Bases, b2, t)
      BY <1>7, <1>9, <2>1 DEF t, LeavesOpen
    <2>3. LeavesThere(sym, sy2, gl, lo, lo2, Bases[t + 1])
      BY <1>9, <1>12, <2>1 DEF LeavesThere
    <2>4. PutsBack(sym, head, hd2, lo, Bases[t + 1])
      BY <1>9, <1>11, <2>1 DEF PutsBack
    <2> HIDE DEF gl, lo, la
    <2>5. la = la \/ Len(la) = 0
      OBVIOUS
    <2>6. Lex(sy2, hd2, gl, lo2, la, en2, b2)
      BY <1>3, <2>2, <2>3, <2>4, <2>5, Closed
    <2>7. QED
      BY <2>1, <2>6
  <1>14. head' \in [Key -> 0 .. MaxSyms]
    <2>1. \A n \in 1 .. Len(popped) : popped[n] \in DOMAIN sym
      <3>0. PICK q \in Nat, l \in Nat : q = Len(popped) /\ l = Len(lo) /\ q = l - base
        BY <1>3, <1>8, <1>10
      <3>1. \A n \in 1 .. Len(popped) : base + n \in 1 .. Len(lo)
        BY <1>8, <3>0
      <3>2. \A n \in 1 .. Len(lo) : lo[n] \in DOMAIN sym
        BY <1>3 DEF Lex, SymsOK
      <3>3. QED
        BY <1>10, <3>1, <3>2
    <2>2. QED
      <3>1. TableTypeOK /\ head \in [Key -> 0 .. MaxSyms]
        BY <1>2, <1>3 DEF TableTypeOK, StackOK, SymTableOK
      <3>2. QED
        BY <1>4, <1>10, <2>1, <3>1, UnlinkedType
  <1>15. SymTableOK'
    BY <1>3, <1>12, <1>14 DEF SymTableOK
  <1>16. EnvOK'
    <2>1. BlocksOK(blocks', Len(lo'))
      <3>1. Len(lo') \in Nat /\ Len(lo) \in Nat
        BY <1>3, <1>12
      <3>2. ASSUME NEW n \in 1 .. Len(blocks')
            PROVE  n \in 1 .. Len(blocks) /\ blocks'[n] = blocks[n] /\ blocks[n].base <= base
        BY <1>6, <1>8
      <3>3. ASSUME NEW n \in 1 .. Len(blocks')
            PROVE  /\ blocks'[n].base \in Nat /\ 0 < blocks'[n].base
                   /\ blocks'[n].base <= Len(lo')
        <4>1. blocks[n].base \in Nat /\ 0 < blocks[n].base
          BY <1>5, <3>2 DEF BlocksOK
        <4>2. base \in Nat /\ base <= Len(lo') /\ blocks[n].base <= base
          BY <1>8, <1>12, <3>2
        <4>3. QED
          BY <3>1, <3>2, <4>1, <4>2
      <3>4. ASSUME NEW m \in 1 .. Len(blocks'), NEW n \in 1 .. Len(blocks'), m <= n
            PROVE  blocks'[m].base <= blocks'[n].base
        BY <1>5, <3>2, <3>4 DEF BlocksOK
      <3>5. QED
        BY <3>3, <3>4 DEF BlocksOK
    <2>2. lo' # <<>>
      BY <1>8, <1>12
    <2>3. Len(env') = Len(blocks') + 1 /\ Len(env') > 1
      BY <1>1, <1>5, <1>6, <1>7 DEF t
    <2>4. QED
      BY <1>1, <1>4, <1>6, <1>7, <2>1, <2>2, <2>3 DEF EnvOK
  <1>17. LexOK'
    BY <1>12, <1>13 DEF LexOK
  <1>18. ASSUME ~ tainted PROVE ScopeInv'
    <2>1. local_scope = Len(env) - 1 /\ StructsOK(sym, env)
      BY <1>2, <1>18 DEF ScopeInv
    <2>2. ASSUME NEW s \in 1 .. Len(env')
          PROVE  s \in 1 .. Len(env) /\ SaySame(sym, sym', env, env', s)
      <3>1. s \in 1 .. t /\ s \in 1 .. Len(env) /\ env'[s] = env[s]
        BY <1>7 DEF t
      <3>2. ASSUME NEW k \in Scoped, k \in DOMAIN env[s]
            PROVE  sym'[env[s][k]] = sym[env[s][k]]
        <4>1. PICK lo2 \in Seq(Syms), en2 \in Seq(Decls) : lo2 = lo' /\ en2 = env'
          BY <1>7, <1>12
        <4>2. /\ Lex(sym', head', gl, lo2, la, en2, Bases')
              /\ s \in 1 .. Len(en2) /\ k \in DOMAIN en2[s]
          BY <1>13, <3>1, <3>2, <4>1
        <4> HIDE DEF gl, lo, la
        <4>3. en2[s][k] \in DOMAIN sym'
          BY <1>3, <4>2, ValueThere
        <4>4. QED
          BY <1>12, <3>1, <4>1, <4>3
      <3>3. SaySame(sym, sym', env, env', s)
        BY <3>1, <3>2, ScopedIs DEF SaySame
      <3>4. QED
        BY <3>1, <3>3
    <2>3. StructsOK(sym', env')
      BY <2>1, <2>2, StructsKept
    <2>4. QED
      BY <1>4, <1>7, <2>1, <2>3 DEF ScopeInv, t
  <1>19. StackOK'
    BY <1>2, <1>4, <1>12 DEF StackOK
  <1>20. QED
    BY <1>1, <1>4, <1>15, <1>16, <1>17, <1>18, <1>19, ReadSame, ReadOn DEF ReadInv

\* Every label of the function is defined, and its Sym is there.
LeavesFunction ==
    /\ Stuck = {} /\ pc' = "file" /\ local_scope' = local_scope - 1
    /\ blocks' = <<>> /\ env' = <<env[1]>> /\ tainted' = tainted
    /\ sym' = Freed(Range(stack["local"] \o stack["label"]))
    /\ head' = Unlinked(head, stack["local"] \o stack["label"])
    /\ stack' = [stack EXCEPT !["local"] = <<>>, !["label"] = <<>>]
\* The end of a function forgets its parameters and its labels.
LEMMA FunctionLeft ==
    ASSUME LexInv, Reading, pc = "func", Len(blocks) = 1, LeavesFunction
    PROVE  LexInv'
  <1> DEFINE gl == stack["global"]
             lo == stack["local"]
             la == stack["label"]
  <1>1. StackOK /\ ReadInv /\ (~ tainted => ScopeInv) /\ local_scope \in Int
    BY Readers
  <1>2. /\ SymTableOK /\ EnvOK /\ Lex(sym, head, gl, lo, la, env, Bases)
        /\ gl \in Seq(Syms) /\ lo \in Seq(Syms) /\ la \in Seq(Syms) /\ env \in Seq(Decls)
        /\ Len(env) > 0
    BY <1>1, ReadsLex
  <1>3. Len(env) = 2 /\ Bases[2] = 0
    BY <1>2 DEF EnvOK, Bases, Base
  <1>30. PICK p \in Nat, q \in Nat : p = Len(lo) /\ q = Len(la)
    BY <1>2
  <1>4. SymsOK(sym, gl, lo, la)
    BY <1>2 DEF Lex
  <1>5. /\ \A n \in 1 .. Len(gl) : gl[n] \in DOMAIN sym
        /\ \A n \in 1 .. Len(lo) : lo[n] \in DOMAIN sym
        /\ \A m \in 1 .. Len(gl), n \in 1 .. Len(lo) : gl[m] # lo[n]
        /\ \A n \in 1 .. Len(la) : /\ \A m \in 1 .. Len(gl) : la[n] # gl[m]
                                   /\ la[n] \in DOMAIN sym => sym[la[n]].v \in {"label"} \X Name
    BY <1>4 DEF SymsOK
  <1>6. \A n \in 1 .. Len(la) : la[n] \in DOMAIN sym /\ sym[la[n]].v \in {"label"} \X Name
    <2>1. DOMAIN la = 1 .. Len(la)
      BY <1>2
    <2>2. \A n \in DOMAIN la : la[n] \in DOMAIN sym
      BY <1>1, StacksAre DEF LeavesFunction, Stuck
    <2>3. QED
      BY <1>5, <2>1, <2>2
  <1>7. PICK popped \in Seq(Syms) :
            /\ popped = lo \o la /\ Len(popped) = p + q
            /\ \A i \in 1 .. (p + q) : popped[i] = IF i <= p THEN lo[i] ELSE la[i - p]
    <2>1. PICK l \in Seq(Syms), m \in Seq(Syms) : l = lo /\ m = la
      BY <1>2
    <2>2. /\ l \o m \in Seq(Syms) /\ Len(l \o m) = Len(l) + Len(m)
          /\ \A i \in 1 .. Len(l) + Len(m) :
                 (l \o m)[i] = IF i <= Len(l) THEN l[i] ELSE m[i - Len(l)]
      BY ConcatProperties
    <2>3. QED
      BY <1>30, <2>1, <2>2
  <1>8. ASSUME NEW n \in 1 .. Len(popped)
        PROVE  \/ n \in 1 .. p /\ popped[n] = lo[n]
               \/ n > p /\ n - p \in 1 .. q /\ popped[n] = la[n - p]
    <2>1. n \in 1 .. (p + q) /\ (n \in 1 .. p \/ (n > p /\ n - p \in 1 .. q))
      BY <1>7
    <2>2. popped[n] = IF n <= p THEN lo[n] ELSE la[n - p]
      BY <1>7, <2>1
    <2>3. QED
      BY <2>1, <2>2
  <1>9. \A n \in 1 .. Len(popped) : popped[n] \in DOMAIN sym
    BY <1>5, <1>6, <1>8, <1>30
  <1>10. sym' = Freed(Range(popped)) /\ head' = Unlinked(head, popped)
    BY <1>7 DEF LeavesFunction
  <1>11. /\ sym' = [i \in DOMAIN sym' |-> sym'[i]]
         /\ \A i \in DOMAIN sym' : i \in DOMAIN sym /\ sym'[i] = sym[i]
         /\ \A i : i \in DOMAIN sym' <=>
                i \in DOMAIN sym /\ \A n \in 1 .. Len(popped) : i # popped[n]
    BY <1>10, Freeing
  <1>12. \A n \in 1 .. Len(gl) : gl[n] \in DOMAIN sym'
    <2> SUFFICES ASSUME NEW n \in 1 .. Len(gl) PROVE gl[n] \in DOMAIN sym'
      OBVIOUS
    <2>1. ASSUME NEW m \in 1 .. Len(popped) PROVE gl[n] # popped[m]
      <3>1. CASE m \in 1 .. p /\ popped[m] = lo[m]
        BY <1>5, <1>30, <3>1
      <3>2. CASE m - p \in 1 .. q /\ popped[m] = la[m - p]
        BY <1>5, <1>30, <3>2
      <3>3. QED
        BY <1>8, <3>1, <3>2
    <2>2. QED
      BY <1>5, <1>11, <2>1
  <1>13. ASSUME NEW k \in Scoped PROVE PutBack(sym, head, head', lo, 0, k)
    <2>1. /\ 0 <= p /\ Len(popped) >= p - 0
          /\ \A n \in 1 .. (p - 0) : popped[n] = lo[0 + n]
      <3>1. ASSUME NEW n \in 1 .. (p - 0) PROVE popped[n] = lo[0 + n]
        <4>1. n \in 1 .. (p + q) /\ n <= p /\ 0 + n = n
          OBVIOUS
        <4>2. QED
          BY <1>7, <4>1
      <3>2. 0 <= p /\ Len(popped) >= p - 0
        BY <1>7
      <3>3. QED
        BY <3>1, <3>2
    <2>2. \A n \in 1 .. Len(popped) : n > p - 0 => sym[popped[n]].v \in {"label"} \X Name
      <3> SUFFICES ASSUME NEW n \in 1 .. Len(popped), n > p
                   PROVE  sym[popped[n]].v \in {"label"} \X Name
        OBVIOUS
      <3>1. n - p \in 1 .. q /\ popped[n] = la[n - p]
        BY <1>8
      <3>2. QED
        BY <1>6, <1>30, <3>1
    <2>3. PutBack(sym, head, Unlinked(head, popped), lo, 0, k)
      BY <1>2, <1>30, <2>1, <2>2, PoppedHead
    <2>4. QED
      BY <1>10, <2>3
  <1>14. /\ stack' \in [Stacks -> Seq(Syms)] /\ gl' = gl /\ lo' = <<>> /\ la' = <<>>
    <2>1. stack \in [Stacks -> Seq(Syms)] /\ <<>> \in Seq(Syms)
      BY <1>1 DEF StackOK
    <2>2. QED
      BY <2>1 DEF LeavesFunction, Stacks
  <1>15. /\ Len(env') = 1 /\ env'[1] = env[1] /\ env' \in Seq(Decls)
         /\ Bases'[1] = Bases[1] /\ Len(lo') = 0 /\ lo' \in Seq(Syms) /\ la' \in Seq(Syms)
    <2>1. Len(env') = 1 /\ env'[1] = env[1] /\ env[1] \in Decls
      <3>1. env[1] \in Decls
        <4>1. PICK en \in Seq(Decls) : en = env /\ Len(en) = 2
          BY <1>2, <1>3
        <4>2. 1 \in 1 .. Len(en)
          BY <4>1
        <4>3. QED
          BY <4>1, <4>2, ElementOfSeq
      <3>2. QED
        BY <3>1 DEF LeavesFunction
    <2>5. Len(<<>>) = 0 /\ <<>> \in Seq(Syms)
      OBVIOUS
    <2>2. env' \in Seq(Decls)
      <3>1. PICK e \in Decls : e = env[1]
        BY <2>1
      <3>2. <<e>> \in Seq(Decls)
        OBVIOUS
      <3>3. QED
        BY <3>1, <3>2 DEF LeavesFunction
    <2>3. Bases'[1] = Bases[1]
      BY <1>3, <2>1 DEF Bases, Base
    <2>4. QED
      BY <1>14, <2>1, <2>2, <2>3, <2>5
  <1>16. Lex(sym', head', gl, lo', la', env', Bases')
    <2>1. PICK lo2 \in Seq(Syms), la2 \in Seq(Syms), t \in {1} :
              lo2 = lo' /\ la2 = la' /\ t = 1
      BY <1>15
    <2>7. PICK en2, b2, sy2, hd2 : en2 = env' /\ b2 = Bases' /\ sy2 = sym' /\ hd2 = head'
      OBVIOUS
    <2>2. t \in 1 .. (Len(env) - 1) /\ LeavesOpen(env, en2, Bases, b2, t)
      BY <1>3, <1>15, <2>1, <2>7 DEF LeavesOpen
    <2>3. LeavesThere(sym, sy2, gl, lo, lo2, Bases[t + 1])
      BY <1>3, <1>11, <1>12, <1>15, <2>1, <2>7 DEF LeavesThere
    <2>4. PutsBack(sym, head, hd2, lo, Bases[t + 1])
      BY <1>3, <1>13, <2>1, <2>7 DEF PutsBack
    <2>8. la2 = la \/ Len(la2) = 0
      BY <1>14, <2>1
    <2> HIDE DEF gl, lo, la
    <2>5. Lex(sy2, hd2, gl, lo2, la2, en2, b2)
      BY <1>2, <2>2, <2>3, <2>4, <2>8, Closed
    <2>6. QED
      BY <2>1, <2>5, <2>7
  <1>17. SymTableOK'
    <2>1. TableTypeOK /\ head \in [Key -> 0 .. MaxSyms]
      BY <1>1, <1>2 DEF TableTypeOK, StackOK, SymTableOK
    <2>2. head' \in [Key -> 0 .. MaxSyms]
      BY <1>9, <1>10, <2>1, UnlinkedType
    <2>3. sym' \in [DOMAIN sym' -> SymType] /\ DOMAIN sym' \subseteq Syms
      BY <1>2, <1>11 DEF SymTableOK
    <2>4. QED
      BY <2>2, <2>3 DEF SymTableOK
  <1>18. EnvOK'
    <2>1. Len(blocks') = 0 /\ blocks' \in Seq([base : Nat, is_expr : BOOLEAN])
      BY DEF LeavesFunction
    <2>2. BlocksOK(blocks', Len(lo'))
      BY <2>1 DEF BlocksOK
    <2>3. QED
      BY <1>14, <1>15, <2>1, <2>2 DEF EnvOK, LeavesFunction
  <1>19. StackOK' /\ LexOK' /\ Reading'
    <2>1. StackOK'
      <3>1. local_scope' = local_scope - 1
        BY DEF LeavesFunction
      <3>2. local_scope' \in Int
        BY <1>1, <3>1
      <3>3. QED
        BY <1>14, <3>2 DEF StackOK
    <2>2. LexOK'
      BY <1>14, <1>16 DEF LexOK
    <2>3. Reading'
      BY DEF Reading, LeavesFunction
    <2>4. QED
      BY <2>1, <2>2, <2>3
  <1>20. ASSUME ~ tainted PROVE ScopeInv'
    <2>1. local_scope = Len(env) - 1 /\ StructsOK(sym, env)
      BY <1>1, <1>20 DEF ScopeInv
    <2>2. ASSUME NEW s \in 1 .. Len(env')
          PROVE  s \in 1 .. Len(env) /\ SaySame(sym, sym', env, env', s)
      <3>1. s \in 1 .. Len(env) /\ env'[s] = env[s]
        BY <1>3, <1>15
      <3>2. ASSUME NEW k \in Scoped, k \in DOMAIN env[s]
            PROVE  sym'[env[s][k]] = sym[env[s][k]]
        <4>1. PICK lo2 \in Seq(Syms), la2 \in Seq(Syms), en2 \in Seq(Decls) :
                  lo2 = lo' /\ la2 = la' /\ en2 = env'
          BY <1>15
        <4>2. /\ Lex(sym', head', gl, lo2, la2, en2, Bases')
              /\ s \in 1 .. Len(en2) /\ k \in DOMAIN en2[s]
          BY <1>16, <3>1, <3>2, <4>1
        <4> HIDE DEF gl, lo, la
        <4>3. en2[s][k] \in DOMAIN sym'
          BY <1>2, <4>2, ValueThere
        <4>4. QED
          BY <1>11, <3>1, <4>1, <4>3
      <3>3. SaySame(sym, sym', env, env', s)
        BY <3>1, <3>2, ScopedIs DEF SaySame
      <3>4. QED
        BY <3>1, <3>3
    <2>3. StructsOK(sym', env')
      BY <2>1, <2>2, StructsKept
    <2>4. QED
      BY <1>3, <1>15, <2>1, <2>3 DEF ScopeInv, LeavesFunction
  <1>21. QED
    BY <1>17, <1>18, <1>19, <1>20, ReadOn DEF ReadInv, LeavesFunction

\* The end of a function, or an error at a label that is not there.
LEMMA FunctionEnded ==
    ASSUME LexInv, EndFunction PROVE LexInv'
  <1>1. Reading /\ pc = "func" /\ Len(blocks) = 1 /\ LabelPop(local_scope - 1)
    BY DEF EndFunction, Reading
  <1>2. StackOK /\ ReadInv /\ local_scope \in Int /\ local_scope - 1 \in Int
    BY <1>1, Readers
  <1>3. CASE LeavesFunction
    BY <1>1, <1>3, FunctionLeft
  <1>4. CASE /\ FailIn(local_scope - 1)
             /\ stack' = [stack EXCEPT !["local"] = Below(@, Last(blocks).base)]
    <2>1. /\ blocks \in Seq([base : Nat, is_expr : BOOLEAN])
          /\ BlocksOK(blocks, Len(stack["local"])) /\ stack["local"] \in Seq(Syms)
      BY <1>2, StacksAre DEF ReadInv, EnvOK
    <2>2. Last(blocks) = blocks[1] /\ 1 \in 1 .. Len(blocks)
      BY <1>1, <2>1 DEF Last
    <2>3. blocks[1].base \in Nat /\ blocks[1].base <= Len(stack["local"])
      BY <2>1, <2>2 DEF BlocksOK
    <2>4. Below(stack["local"], Last(blocks).base) \in Seq(Syms)
      BY <2>1, <2>2, <2>3, CutAt
    <2>5. stack' \in [Stacks -> Seq(Syms)]
      BY <1>2, <1>4, <2>4 DEF StackOK
    <2>6. QED
      BY <1>2, <1>4, <2>5, FailsIn
  <1>5. CASE pc' = "crashed" /\ UNCHANGED <<table, local_scope>>
    <2>1. StackOK'
      BY <1>2, <1>5 DEF StackOK, table
    <2>2. QED
      BY <1>5, <2>1, ReadNoMore
  <1>6. QED
    BY <1>1, <1>2, <1>3, <1>4, <1>5, StacksAre DEF LabelPop, LeavesFunction, run

-----------------------------------------------------------------------------
(* Texts, and the invariant                                                *)

\* Empty stacks.
LEMMA NoStacksIs ==
    /\ NoStacks \in [Stacks -> Seq(Syms)]
    /\ NoStacks["global"] = <<>> /\ NoStacks["local"] = <<>>
  <1>1. <<>> \in Seq(Syms)
    OBVIOUS
  <1>2. /\ NoStacks["global"] = <<>> /\ NoStacks["local"] = <<>> /\ NoStacks["label"] = <<>>
        /\ DOMAIN NoStacks = Stacks
    BY DEF NoStacks, Stacks
  <1>3. NoStacks = [s \in DOMAIN NoStacks |-> NoStacks[s]]
    BY DEF NoStacks
  <1>4. \A s \in Stacks : NoStacks[s] \in Seq(Syms)
    BY <1>1, <1>2 DEF Stacks
  <1>5. QED
    BY <1>2, <1>3, <1>4

\* The end of the text.
LEMMA FileRead ==
    ASSUME LexInv, EndOfFile PROVE LexInv'
  <1>1. /\ Reading /\ pc = "file" /\ pc' = "end" /\ stack' = stack
        /\ local_scope' = local_scope /\ blocks' = blocks /\ tainted' = tainted
    BY DEF EndOfFile, Reading, table, run
  <1>2. StackOK /\ ReadInv /\ (~ tainted => ScopeInv)
    BY <1>1, Readers
  <1>3. Len(env) = 1 /\ blocks = <<>>
    BY <1>1, <1>2 DEF ReadInv, EnvOK
  <1>4. tainted \/ local_scope = 0
    BY <1>2, <1>3 DEF ScopeInv
  <1>5. StackOK'
    BY <1>1, <1>2 DEF StackOK
  <1>6. QED
    BY <1>1, <1>3, <1>4, <1>5, ReadNoMore

\* The end of the compilation: what the file declared is popped.
LEMMA CompileEnded ==
    ASSUME LexInv, EndCompile PROVE LexInv'
  <1>1. /\ pc = "end" /\ pc' = "compiled" /\ local_scope' = local_scope
        /\ stack' = [NoStacks EXCEPT !["label"] = stack["label"]]
        /\ blocks' = blocks /\ failed' = failed /\ tainted' = tainted
    BY StacksAre DEF EndCompile, LexInv, run
  <1>2. /\ StackOK /\ blocks = <<>>
        /\ ~ failed /\ ~ tainted => local_scope = 0
    BY <1>1 DEF LexInv
  <1>3. /\ stack' \in [Stacks -> Seq(Syms)]
        /\ stack'["global"] = <<>> /\ stack'["local"] = <<>>
    <2>1. <<>> \in Seq(Syms) /\ stack["label"] \in Seq(Syms)
      BY <1>2, StacksAre
    <2>2. QED
      BY <1>1, <2>1, NoStacksIs DEF Stacks
  <1>4. StackOK'
    BY <1>1, <1>2, <1>3 DEF StackOK
  <1>5. QED
    BY <1>1, <1>2, <1>3, <1>4 DEF LexInv, Reading

\* With one scope that says nothing, nothing means anything, whatever an earlier
\* text has left on the label stack.
LEMMA StartsLex ==
    ASSUME NEW la \in Seq(Syms), NEW b, b[1] = 0
    PROVE  Lex(Nothing, Empty, <<>>, <<>>, la, <<Nothing>>, b)
  <1>1. PICK e \in Seq(Syms), n \in Decls, en \in Seq(Decls), sy \in Decls :
            e = <<>> /\ n = Nothing /\ en = <<n>> /\ sy = Nothing
    <2>1. PICK n \in Decls : n = Nothing
      BY NothingIs
    <2>2. <<n>> \in Seq(Decls) /\ <<>> \in Seq(Syms)
      OBVIOUS
    <2>3. QED
      BY <2>1, <2>2
  <1>2. /\ Len(e) = 0 /\ Len(en) = 1 /\ en[1] = n
        /\ \A l : l \notin DOMAIN n /\ l \notin DOMAIN sy
    BY <1>1, NothingIs
  <1>3. BasesOK(b, en, e)
    BY <1>2 DEF BasesOK
  <1>4. SymsOK(sy, e, e, la)
    BY <1>2 DEF SymsOK
  <1>5. HeadMeans(sy, Empty, en)
    BY <1>2, ScopedIs DEF HeadMeans, Means, Empty
  <1>6. HidesMeaning(sy, e, en, b) /\ LocalsThere(sy, e, en, b)
    BY <1>2 DEF HidesMeaning, LocalsThere
  <1>7. GlobalsThere(sy, e, en) /\ ImplicitsThere(sy, e)
    BY <1>2 DEF GlobalsThere, ImplicitsThere
  <1>8. Lex(sy, Empty, e, e, la, en, b)
    BY <1>3, <1>4, <1>5, <1>6, <1>7 DEF Lex
  <1>9. en = <<Nothing>>
    BY <1>1
  <1>10. QED
    BY <1>1, <1>8, <1>9

\* A new compilation, after whatever an earlier text has left behind.
LEMMA StateMade ==
    ASSUME LexInv, NewState PROVE LexInv'
  <1>1. /\ pc \in {"none", "compiled"} /\ pc' = "file" /\ env' = <<Nothing>>
        /\ sym' = Nothing /\ head' = Empty /\ (tainted' <=> tainted \/ failed)
        /\ stack' = stack /\ local_scope' = local_scope /\ blocks' = blocks
    BY DEF NewState
  <1>2. /\ StackOK /\ blocks = <<>> /\ stack["global"] = <<>> /\ stack["local"] = <<>>
        /\ ~ failed /\ ~ tainted => local_scope = 0
    BY <1>1 DEF LexInv
  <1>3. StackOK' /\ Reading'
    BY <1>1, <1>2 DEF StackOK, Reading
  <1>4. SymTableOK'
    <2>1. DOMAIN Nothing = {}
      BY DEF Nothing
    <2>2. Nothing \in [DOMAIN Nothing -> SymType]
      BY <2>1 DEF Nothing
    <2>3. Empty \in [Key -> 0 .. MaxSyms]
      BY BoundsAssumption DEF Empty, NULL
    <2>4. QED
      BY <1>1, <2>1, <2>2, <2>3 DEF SymTableOK
  <1>5. Len(env') = 1 /\ env'[1] = Nothing /\ env' \in Seq(Decls)
    <2>1. PICK e \in Decls : e = Nothing
      BY NothingIs
    <2>2. Len(<<e>>) = 1 /\ <<e>>[1] = e /\ <<e>> \in Seq(Decls)
      OBVIOUS
    <2>3. env' = <<e>>
      BY <1>1, <2>1
    <2>4. QED
      BY <2>1, <2>2, <2>3
  <1>6. EnvOK'
    <2>1. Len(blocks') = 0 /\ blocks' \in Seq([base : Nat, is_expr : BOOLEAN])
      BY <1>1, <1>2
    <2>2. BlocksOK(blocks', Len(stack'["local"]))
      BY <2>1 DEF BlocksOK
    <2>3. QED
      BY <1>1, <1>2, <1>5, <2>1, <2>2 DEF EnvOK
  <1>7. LexOK'
    <2>1. stack["label"] \in Seq(Syms) /\ Bases'[1] = 0
      BY <1>2, <1>5, StacksAre DEF Bases, Base
    <2>2. PICK la \in Seq(Syms), b \in {Bases'} : la = stack["label"] /\ b = Bases'
      BY <2>1
    <2>3. Lex(Nothing, Empty, <<>>, <<>>, la, <<Nothing>>, b)
      BY <2>1, <2>2, StartsLex
    <2>4. QED
      BY <1>1, <1>2, <2>2, <2>3 DEF LexOK
  <1>8. ~ tainted' => ScopeInv'
    <2>1. StructsOK(sym', env')
      BY <1>5, NothingIs DEF StructsOK
    <2>2. QED
      BY <1>1, <1>2, <1>5, <2>1 DEF ScopeInv
  <1>9. QED
    BY <1>3, <1>4, <1>6, <1>7, <1>8, ReadOn DEF ReadInv

\* Before the first compilation, nothing is on a stack.
LEMMA LexStarts == Init => LexInv
  <1> SUFFICES ASSUME Init PROVE LexInv
    OBVIOUS
  <1>1. QED
    BY NoStacksIs DEF Init, LexInv, StackOK, Reading

\* Every step keeps what each name means, and what each Sym hides.
LEMMA LexInductive == LexInv /\ [Next]_vars => LexInv'
  <1> SUFFICES ASSUME LexInv, [Next]_vars PROVE LexInv'
    OBVIOUS
  <1>1. CASE Compile
    <2>1. CASE NewState
      BY <2>1, StateMade
    <2>2. CASE Error
      BY <2>2, RefusedStep DEF Error, Reading
    <2>3. CASE EndOfFile
      BY <2>3, FileRead
    <2>4. CASE EndCompile
      BY <2>4, CompileEnded
    <2>5. QED
      BY <1>1, <2>1, <2>2, <2>3, <2>4 DEF Compile
  <1>2. ASSUME NEW v \in Name, Declaration(v) PROVE LexInv'
    <2>1. CASE DeclareExtern(v)
      BY <2>1, ExternStep
    <2>2. CASE AlreadyDefined(v)
      BY <2>2, RefusedStep DEF AlreadyDefined, Parsing, Reading
    <2>3. ASSUME NEW is \in BOOLEAN, DeclareLocal(v, is) PROVE LexInv'
      BY <2>3, LocalStep
    <2>4. ASSUME NEW is \in BOOLEAN, DeclareStruct(v, is) PROVE LexInv'
      BY <2>4, StructStep
    <2>5. CASE CallImplicit(v)
      BY <2>5, ImplicitStep
    <2>6. CASE Goto(v)
      BY <2>6, GotoStep
    <2>7. CASE Label(v)
      BY <2>7, LabelStep
    <2>8. QED
      BY <1>2, <2>1, <2>2, <2>3, <2>4, <2>5, <2>6, <2>7 DEF Declaration
  <1>3. ASSUME NEW v \in Name, Function(v) PROVE LexInv'
    <2>1. CASE BeginFunction
      BY <2>1, FunctionBegun
    <2>2. CASE Parameter(v)
      BY <2>2, ParameterStep
    <2>3. CASE OpenBody
      BY <2>3, BodyOpened
    <2>4. CASE CloseBlock
      BY <2>4, BlockClosed
    <2>5. CASE EndFunction
      BY <2>5, FunctionEnded
    <2>6. ASSUME NEW is_expr \in BOOLEAN, OpenBlock(is_expr) PROVE LexInv'
      BY <2>6, BlockOpened
    <2>7. QED
      BY <1>3, <2>1, <2>2, <2>3, <2>4, <2>5, <2>6 DEF Function
  <1>4. CASE UNCHANGED vars
    BY <1>4 DEF vars, table, run, LexInv, StackOK, Reading, ReadInv, SymTableOK, EnvOK,
                LexOK, Bases, Base, ScopeInv
  <1>5. QED
    BY <1>1, <1>2, <1>3, <1>4 DEF Next

\* In every run, the table and what the Syms hide are what the open scopes say.
LEMMA LexInvariance == Spec => []LexInv
  BY LexStarts, LexInductive, PTL DEF Spec

\* What a name means is what the innermost scope that declares it says.
LEMMA MeaningIsLexical == LexInv => Lexical
  <1> SUFFICES ASSUME LexInv, Parsing, NEW k \in Scoped
               PROVE  IF Scopes(k) # {} THEN head[k] = Innermost(k)
                      ELSE head[k] = NULL \/ sym[head[k]].r = "implicit"
    BY DEF Lexical, Scoped
  <1>1. Reading
    BY DEF Parsing, Reading
  <1>2. StackOK /\ ReadInv
    BY <1>1, Readers
  <1>3. /\ Lex(sym, head, stack["global"], stack["local"], stack["label"], env, Bases)
        /\ env \in Seq(Decls)
    BY <1>1, <1>2, ReadsLex
  <1>4. Means(head[k], k, Len(env), env, sym)
    BY <1>3 DEF Lex, HeadMeans
  <1>5. Scopes(k) = {n \in 1 .. Len(env) : k \in DOMAIN env[n]}
    BY <1>3 DEF Scopes
  <1>6. CASE Scopes(k) # {}
    <2>1. PICK n \in 1 .. Len(env) :
              /\ k \in DOMAIN env[n] /\ head[k] = env[n][k]
              /\ \A m \in 1 .. Len(env) : k \in DOMAIN env[m] => m <= n
      BY <1>4, <1>5, <1>6 DEF Means
    <2>2. n \in Scopes(k) /\ \A m \in Scopes(k) : n >= m /\ m \in Nat
      BY <1>3, <1>5, <2>1
    <2>3. Max(Scopes(k)) = n
      <3>1. PICK x : x = Max(Scopes(k))
        OBVIOUS
      <3>2. x \in Scopes(k) /\ \A m \in Scopes(k) : x >= m
        BY <2>2, <3>1 DEF Max
      <3>3. n >= x /\ x >= n /\ x \in Nat /\ n \in Nat
        BY <2>2, <3>2
      <3>4. QED
        BY <3>1, <3>3
    <2>4. QED
      BY <1>6, <2>1, <2>3 DEF Innermost
  <1>7. CASE Scopes(k) = {}
    <2>1. \A n \in 1 .. Len(env) : k \notin DOMAIN env[n]
      BY <1>5, <1>7
    <2>2. QED
      BY <1>4, <1>7, <2>1 DEF Means, Implicit
  <1>8. QED
    BY <1>6, <1>7

\* A struct is refused as its own scope says.
LEMMA MeaningIsRefusal == LexInv => RefusesRightly
  <1> SUFFICES ASSUME LexInv, Parsing, ~ tainted, NEW v \in Name
               PROVE  Refuses(v) <=> <<"body", v>> \in DOMAIN env[Len(env)]
    BY DEF RefusesRightly
  <1>1. Reading
    BY DEF Parsing, Reading
  <1>2. StackOK /\ ReadInv /\ ScopeInv
    BY <1>1, Readers
  <1>3. PICK k \in Scoped, b \in Said : k = <<"struct", v>> /\ b = <<"body", v>>
    BY ScopedIs
  <1>4. Len(env) \in Nat /\ Len(env) \in 1 .. Len(env) /\ Top = Len(env)
    BY <1>1, <1>2, TopIs DEF Top
  <1>5. /\ local_scope = Len(env) - 1
        /\ \A n \in 1 .. Len(env) :
               /\ k \in DOMAIN env[n] => sym[env[n][k]].sym_scope = n - 1
               /\ b \in DOMAIN env[n] <=>
                      k \in DOMAIN env[n] /\ sym[env[n][k]].r = "complete"
    BY <1>2, <1>3 DEF ScopeInv, StructsOK
  <1>6. Refuses(v) <=> /\ head[k] # NULL /\ sym[head[k]].sym_scope = local_scope
                       /\ sym[head[k]].r = "complete"
    BY <1>3 DEF Refuses, Find
  <1>7. ASSUME head[k] # NULL, sym[head[k]].sym_scope = local_scope,
               sym[head[k]].r = "complete"
        PROVE  b \in DOMAIN env[Len(env)]
    <2>1. PICK n \in 1 .. Len(env) : k \in DOMAIN env[n] /\ head[k] = env[n][k]
      BY <1>1, <1>2, <1>3, <1>7, StructMeans
    <2>2. n = Len(env)
      BY <1>4, <1>5, <1>7, <2>1
    <2>3. QED
      BY <1>5, <1>7, <2>1, <2>2
  <1>8. ASSUME b \in DOMAIN env[Len(env)]
        PROVE  /\ head[k] # NULL /\ sym[head[k]].sym_scope = local_scope
               /\ sym[head[k]].r = "complete"
    <2>1. /\ k \in DOMAIN env[Len(env)] /\ sym[env[Len(env)][k]].r = "complete"
          /\ sym[env[Len(env)][k]].sym_scope = Len(env) - 1
      BY <1>4, <1>5, <1>8
    <2>2. head[k] = env[Len(env)][k] /\ head[k] # NULL
      BY <1>1, <1>2, <1>4, <2>1, HeadOfTop
    <2>3. QED
      BY <1>5, <2>1, <2>2
  <1>9. QED
    BY <1>3, <1>6, <1>7, <1>8

\* While a text is read, whatever was read before it and however that ended: what
\* the token table finds for a name is what the innermost scope that declares it
\* says, and for a name that no open scope declares nothing, or a function that was
\* called undeclared.
THEOREM NamesAreLexical == Spec => []Lexical
  BY LexInvariance, MeaningIsLexical, PTL

\* As long as no earlier text has failed: struct_decl refuses a body exactly if the
\* innermost scope has already given the struct one, not because of a struct of the
\* same name in a scope around.
THEOREM RefusalsAreRight == Spec => []RefusesRightly
  BY LexInvariance, MeaningIsRefusal, PTL
=============================================================================
