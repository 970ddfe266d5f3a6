-------------------------------- MODULE Scopes --------------------------------
(***************************************************************************)
(* The symbol stacks of the embedded compiler: tccgen.c:500-626 and what   *)
(* pushes and pops them (declarations, blocks, functions, labels),         *)
(* tccpp.c:1356-1408 for labels, libtcc.c:623-733 for the end of a         *)
(* compilation and the change of TCCStates.  The text that is compiled is  *)
(* the environment: any sequence of declarations, blocks and errors.       *)
(* Abstracted: types, code, macros, anonymous symbols; typedefs, __label__ *)
(* and inline functions are left out.  A Sym is a number, and a number     *)
(* that is on a stack but not in DOMAIN sym is a pointer to freed memory.  *)
(***************************************************************************)
EXTENDS Naturals, SequencesExt

CONSTANTS Name,        \* what a text can name
          MaxBlocks,   \* bound: blocks inside each other
          MaxSyms,     \* bound: Syms at a time
          MaxStates    \* bound: TCCStates one after the other

ASSUME BoundsAssumption == {MaxBlocks, MaxSyms, MaxStates} \subseteq Nat \ {0}

VARIABLES pc,            \* what is being parsed
          sym,           \* the Syms that are allocated
          head,          \* sym_identifier, sym_struct, sym_label of each token
          stack,         \* global_stack, local_stack, global_label_stack
          local_scope, blocks,        \* and the calls of block() under way
          nb_states, failed, tainted, \* this, an earlier compilation failed
          env            \* history: what each open scope has declared

table == <<sym, head, stack>>
run   == <<nb_states, failed, tainted>>
vars  == <<pc, table, local_scope, blocks, run, env>>

Space == {"identifier", "struct"}           \* of what obeys scopes
Key   == (Space \cup {"label"}) \X Name
Field == <<"field">>                        \* v & SYM_FIELD: not in the table
NULL  == 0
Syms  == 1 .. MaxSyms

Empty    == [k \in Key |-> NULL]
NoStacks == [global |-> <<>>, local |-> <<>>, label |-> <<>>]
Nothing  == <<>>                            \* the function without arguments

Init ==
    /\ pc = "none" /\ sym = Nothing /\ head = Empty /\ stack = NoStacks
    /\ local_scope = 0 /\ blocks = <<>> /\ env = <<>>
    /\ nb_states = 0 /\ failed = FALSE /\ tainted = FALSE

-----------------------------------------------------------------------------
(* sym_push2 and its callers.  A new Sym is any that is free.               *)

Find(k)    == head[k]                       \* sym_find, struct_find, label_find
LocalOrGlobal == IF stack.local # <<>> THEN "local" ELSE "global"
Room       == Cardinality(DOMAIN sym \cup Range(stack.label)) < MaxSyms
Malloc     == Min(Syms \ (DOMAIN sym \cup Range(stack.label)))

(* A Sym without prev_tok and out of the token table.                       *)
Linked(k, st, scope, r, onto) ==
    /\ sym' = [i \in DOMAIN sym \cup {Malloc} |->
                  IF i # Malloc THEN sym[i]
                  ELSE [v |-> k, sym_scope |-> scope, r |-> r,
                        prev_tok |-> IF k \in Key THEN head[k] ELSE NULL]]
    /\ stack' = [st EXCEPT ![onto] = Append(@, Malloc)]
    /\ head' = IF k \in Key THEN [head EXCEPT ![k] = Malloc] ELSE head

Push(k, scope, r, onto) == Room /\ Linked(k, stack, scope, r, onto)

(* Slips: what was hidden does not come back; Syms are not freed.           *)
UnlinkedForGood(h, popped) ==
    [k \in Key |->
        IF \E n \in DOMAIN popped : sym[popped[n]].v = k THEN NULL ELSE h[k]]

(* What sym_pop leaves of the token table: each Sym puts back what it hid,  *)
(* the one lowest on the stack last.                                        *)
Unlinked(h, popped) ==
    [k \in Key |->
        LET mine == {n \in DOMAIN popped : sym[popped[n]].v = k}
        IN  IF mine = {} THEN h[k] ELSE sym[popped[Min(mine)]].prev_tok]

Below(s, n)  == SubSeq(s, 1, n)
Above(s, n)  == SubSeq(s, n + 1, Len(s))
NotFreed(ids) == sym
Freed(ids)   == RestrictDomain(sym, LAMBDA i : i \notin ids)

(* An error is a longjmp to tcc_compile: the C stack is gone, the statics   *)
(* stay.                                                                    *)
FailIn(scope) ==
    /\ pc' = "end" /\ failed' = TRUE /\ blocks' = <<>> /\ env' = <<>>
    /\ local_scope' = scope /\ UNCHANGED <<nb_states, tainted>>
Fail == FailIn(local_scope)

Goes == UNCHANGED <<pc, local_scope, blocks, run>>
With(scope, k, what) ==
    [l \in DOMAIN scope \cup {k} |-> IF l = k THEN what ELSE scope[l]]
Declares(k) == env' = [env EXCEPT ![Len(env)] = With(@, k, Malloc)]

-----------------------------------------------------------------------------
(* Declarations.                                                            *)

Parsing == pc \in {"file", "func"}

(* A variable at file level or extern in a block: pushed unless it is known *)
(* already, and in no scope.                                                *)
DeclareExtern(v) ==
    LET k == <<"identifier", v>>
    IN  /\ Parsing /\ Find(k) = NULL /\ Goes
        /\ Push(k, 0, "none", LocalOrGlobal) /\ Declares(k)

(* decl_initializer_alloc of a local variable, sym_push with its test; a    *)
(* static one loses its scope after it.                                     *)
Hides(k)     == Find(k) # NULL /\ sym[Find(k)].sym_scope = local_scope

DeclareLocal(v, static) ==
    LET k == <<"identifier", v>>
    IN  /\ pc = "func"
        /\ Push(k, IF static THEN 0 ELSE local_scope, "none", "local")
        /\ IF Hides(k) THEN Fail ELSE Goes /\ Declares(k)

(* struct_decl: with a body it must be new in this scope, without one any   *)
(* that is visible will do.                                                 *)
Refuses(v) ==
    LET s == Find(<<"struct", v>>)
    IN  /\ s # NULL /\ sym[s].sym_scope = local_scope
        /\ sym[s].r = "complete"

KnownAnywhere(v, body) == Find(<<"struct", v>>) # NULL      \* slip
Known(v, body) ==
    LET s == Find(<<"struct", v>>)
    IN  s # NULL /\ (sym[s].sym_scope = local_scope \/ ~body)

DeclareStruct(v, body) ==
    LET k == <<"struct", v>>
        r == IF body THEN "complete" ELSE "none"
        Said(scope) == IF body THEN With(scope, <<"body", v>>, TRUE) ELSE scope
    IN  /\ Parsing /\ ~ (body /\ Refuses(v)) /\ Goes
        /\ \/ /\ ~ Known(v, body) /\ Push(k, local_scope, r, LocalOrGlobal)
              /\ env' = [env EXCEPT ![Len(env)] = Said(With(@, k, Malloc))]
           \/ /\ Known(v, body) /\ body
              /\ sym' = [sym EXCEPT ![Find(k)].r = r]
              /\ env' = [env EXCEPT ![Len(env)] = Said(@)]
              /\ UNCHANGED <<head, stack>>

AlreadyDefined(v) == Parsing /\ Refuses(v) /\ Fail /\ UNCHANGED table

(* A call of a function nobody has declared: external_global_sym.           *)
CallImplicit(v) ==
    LET k == <<"identifier", v>>
    IN  /\ pc = "func" /\ Find(k) = NULL /\ Goes
        /\ Push(k, 0, "implicit", "global") /\ UNCHANGED env

-----------------------------------------------------------------------------
(* Labels: block(), label_push.  They belong to the function.               *)

Goto(v) ==
    LET k == <<"label", v>>
    IN  /\ pc = "func" /\ Find(k) = NULL /\ Goes
        /\ Push(k, 0, "forward", "label") /\ UNCHANGED env

Label(v) ==
    LET k == <<"label", v>>
    IN  /\ pc = "func"
        /\ \/ /\ Find(k) = NULL /\ Push(k, 0, "defined", "label")
              /\ Goes /\ UNCHANGED env
           \/ /\ Find(k) # NULL /\ sym[Find(k)].r = "forward"
              /\ sym' = [sym EXCEPT ![Find(k)].r = "defined"]
              /\ Goes /\ UNCHANGED <<head, stack, env>>
           \/ /\ Find(k) # NULL /\ sym[Find(k)].r = "defined"
              /\ Fail /\ UNCHANGED table

(* Where label_pop gets stuck: at a label that is not defined or, without a *)
(* test, at one whose memory is no longer its own.                          *)
Stuck == {n \in DOMAIN stack.label :
            \/ stack.label[n] \notin DOMAIN sym
            \/ sym[stack.label[n]].r = "forward"}

LabelPop(scope) ==      \* at the end of a function, its blocks are popped
    \/ /\ Stuck = {} /\ pc' = "file" /\ local_scope' = scope
       /\ blocks' = <<>> /\ env' = <<env[1]>> /\ UNCHANGED run
       /\ sym' = Freed(Range(stack.local \o stack.label))
       /\ head' = Unlinked(head, stack.local \o stack.label)
       /\ stack' = [stack EXCEPT !.local = <<>>, !.label = <<>>]
    \/ /\ Stuck # {} /\ stack.label[Max(Stuck)] \in DOMAIN sym /\ FailIn(scope)
       /\ LET popped == Above(stack.local, Last(blocks).base)
                          \o Above(stack.label, Max(Stuck))
          IN  /\ sym' = Freed(Range(popped)) /\ head' = Unlinked(head, popped)
              /\ stack' = [stack EXCEPT !.local = Below(@, Last(blocks).base)]
    \/ /\ Stuck # {} /\ stack.label[Max(Stuck)] \notin DOMAIN sym
       /\ pc' = "crashed" /\ env' = <<>>
       /\ UNCHANGED <<table, local_scope, blocks, run>>

-----------------------------------------------------------------------------
(* gen_function and block().  The Sym of the function is there: it has been *)
(* declared, or called before.                                              *)

BeginFunction ==
    /\ pc = "file" /\ \E v \in Name : Find(<<"identifier", v>>) # NULL
    /\ Push(Field, 0, "none", "local") /\ env' = Append(env, Nothing)
    /\ pc' = "params" /\ local_scope' = 1 /\ UNCHANGED <<blocks, run>>

Parameter(v) ==
    LET k == <<"identifier", v>>
    IN  /\ pc = "params" /\ Push(k, local_scope, "none", "local")
        /\ IF Hides(k) THEN Fail ELSE Goes /\ Declares(k)

Block(is_expr) == [base |-> Len(stack.local), is_expr |-> is_expr]

OpenBody ==             \* local_scope back to 0 and up again
    /\ pc = "params" /\ pc' = "func" /\ blocks' = <<Block(FALSE)>>
    /\ UNCHANGED <<table, local_scope, run, env>>

OpenBlock(is_expr) ==
    /\ pc = "func" /\ Len(blocks) < MaxBlocks
    /\ blocks' = Append(blocks, Block(is_expr)) /\ env' = Append(env, Nothing)
    /\ local_scope' = local_scope + 1 /\ UNCHANGED <<pc, table, run>>

(* The Syms of a statement expression leave the table but stay on the stack *)
(* until the block around it ends.                                          *)
CloseBlock ==
    LET b == Last(blocks)
        popped == Above(stack.local, b.base)
    IN  /\ pc = "func" /\ Len(blocks) > 1
        /\ local_scope' = local_scope - 1 /\ head' = Unlinked(head, popped)
        /\ IF b.is_expr THEN UNCHANGED <<sym, stack>>
           ELSE /\ sym' = Freed(Range(popped))
                /\ stack' = [stack EXCEPT !.local = Below(@, b.base)]
        /\ blocks' = Front(blocks) /\ env' = Front(env)
        /\ UNCHANGED <<pc, run>>

EndFunction == pc = "func" /\ Len(blocks) = 1 /\ LabelPop(local_scope - 1)

-----------------------------------------------------------------------------
(* tcc_compile, and the next TCCState: tcc_cleanup leaves the statics of    *)
(* the parser as they are.                                                  *)

Error     == pc \in {"file", "params", "func"} /\ Fail /\ UNCHANGED table
EndOfFile == /\ pc = "file" /\ pc' = "end" /\ env' = <<>>
             /\ UNCHANGED <<table, local_scope, blocks, run>>

EndCompile ==
    /\ pc = "end" /\ pc' = "compiled"
    /\ head' = Unlinked(Unlinked(head, stack.global), stack.local)
    /\ sym' = Freed(Range(stack.global \o stack.local))
    /\ stack' = [NoStacks EXCEPT !.label = stack.label]
    /\ UNCHANGED <<local_scope, blocks, run, env>>

NewState ==
    /\ pc \in {"none", "compiled"} /\ nb_states < MaxStates
    /\ nb_states' = nb_states + 1 /\ pc' = "file" /\ env' = <<Nothing>>
    /\ sym' = Nothing /\ head' = Empty
    /\ tainted' = (tainted \/ failed) /\ failed' = FALSE
    /\ UNCHANGED <<stack, local_scope, blocks>>

Compile == NewState \/ Error \/ EndOfFile \/ EndCompile
Declaration(v) ==
    \/ DeclareExtern(v) \/ AlreadyDefined(v)
    \/ \E is \in BOOLEAN : DeclareLocal(v, is) \/ DeclareStruct(v, is)
    \/ CallImplicit(v) \/ Goto(v) \/ Label(v)
Function(v) ==
    \/ BeginFunction \/ Parameter(v) \/ OpenBody \/ CloseBlock \/ EndFunction
    \/ \E is_expr \in BOOLEAN : OpenBlock(is_expr)

Next == Compile \/ \E v \in Name : Declaration(v) \/ Function(v)

Spec == Init /\ [][Next]_vars

-----------------------------------------------------------------------------
(* The innermost scope that declares k, by the rules of C.                  *)
Scopes(k)    == {n \in DOMAIN env : k \in DOMAIN env[n]}
Innermost(k) == env[Max(Scopes(k))][k]

(* A name means what the innermost scope that is open says of it, whatever  *)
(* blocks and statement expressions have come and gone; if none declares    *)
(* it, nothing or a function that was called undeclared.                    *)
Lexical ==
    Parsing => \A k \in Space \X Name :
        IF Scopes(k) # {} THEN head[k] = Innermost(k)
        ELSE head[k] = NULL \/ sym[head[k]].r = "implicit"

(* A struct with a body is refused exactly if the scope that is open has    *)
(* one of its name with a body, unless an earlier text failed to compile.   *)
RefusesRightly ==
    Parsing /\ ~ tainted => \A v \in Name :
        Refuses(v) <=> <<"body", v>> \in DOMAIN env[Len(env)]

(* Every Sym is on one stack, at one place, and after a compilation none is *)
(* left, on a stack or in the table, as long as no text fails to compile.   *)
NothingLost ==
    LET all == stack.global \o stack.local \o stack.label
    IN  ~ failed /\ ~ tainted =>
          /\ DOMAIN sym = Range(all) /\ Cardinality(DOMAIN sym) = Len(all)
          /\ pc = "compiled" => all = <<>> /\ head = Empty

(* "cleanup all static data used during compilation" (libtcc.c:709): what   *)
(* is compiled now does not come upon the Syms of an earlier TCCState.      *)
StartsClean == pc # "crashed"
=============================================================================
