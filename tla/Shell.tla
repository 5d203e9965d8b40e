-------------------------------- MODULE Shell --------------------------------
(***************************************************************************)
(* The shell application, uapp/kshell: the syntax trees its parser builds  *)
(* (stmt.c, wordlist.c), their execution (kshell.c) and their destruction, *)
(* and the environment variables (varenv.c).  The generated parser is      *)
(* external: it makes nodes bottom up and gives each one a single parent.  *)
(***************************************************************************)
EXTENDS Integers, Sequences, SequencesExt, FiniteSets, FiniteSetsExt

CONSTANTS
    MaxNode_s, \* bound: nodes alive or leaked
    Ops,       \* expr_type_e of two operands used by the scripts
    Simple,    \* simple statements used: BUILT_IN, EXEC, PIPELINE
    Words,     \* names of variables
    Ints,      \* constants of the scripts
    Fuel       \* bound: iterations of a while executed before giving up

ASSUME ShellAssumption == Ops \subseteq {"AND", "OR", "PLUS", "MINUS", "MULT", "DIV", "EQ", "NEQ",
                                         "ASSIGN", "LT", "GT", "LEQ", "GEQ"}

VARIABLES
    tree,      \* tree[n]: the node n, a record, or << >> if it is not allocated
    held,      \* nodes without a parent, which the parser's stack refers to
    twice,     \* a destruction freed some node twice
    leaked,    \* conditions of the while statements destroyed
    dropped,   \* statements the actions of the grammar forget
    envars     \* values of the variables, 0 for the ones not set

shellVars == <<tree, held, twice, leaked, dropped, envars>>

NodeIds == 1 .. MaxNode_s
ShellInit ==
    /\ tree = [n \in NodeIds |-> << >>] /\ held = {} /\ twice = FALSE /\ leaked = {} /\ dropped = {}
    /\ envars = [w \in Words |-> 0]

Children(n) == {tree[n].e0, tree[n].e1, tree[n].e2, tree[n].nxt} \ {0}
Alive == {n \in NodeIds : tree[n] # << >>}
Statement(n) == tree[n].t \in {"EXPR", "BUILT_IN", "EXEC", "PIPELINE", "ENV_ASSIGN", "IF", "WHILE"}
HeldStmts == {n \in held : Statement(n)}
HeldExprs == {n \in held : ~Statement(n)}

-----------------------------------------------------------------------------
(***************************************************************************)
(* stmt_create, expr_create and the functions that set a new node.  e0, e1 *)
(* and e2 are the operands; the condition, the case taken when it is true  *)
(* and the other one; the condition and the body.                          *)
(***************************************************************************)
Make(t, e0, e1, e2, w, v) ==
    /\ Alive # NodeIds
    /\ LET new == Min(NodeIds \ Alive)
       IN /\ tree' = [tree EXCEPT ![new] = [t |-> t, e0 |-> e0, e1 |-> e1, e2 |-> e2, nxt |-> 0, word |-> w, v |-> v]]
          /\ held' = (held \ {e0, e1, e2}) \cup {new}
    /\ UNCHANGED <<twice, leaked, dropped, envars>>

expr_set_int(v) == Make("INT", 0, 0, 0, "", v)
expr_set_word(w) == Make("WORD", 0, 0, 0, w, 0)
expr_set_op(op, l, r) == l # r /\ Make(op, l, r, 0, "", 0)
expr_set_not(l) == Make("NOT", l, 0, 0, "", 0)
expr_set_stmt(s) == Make("STMT", s, 0, 0, "", 0)
stmt_set_expr(e) == Make("EXPR", e, 0, 0, "", 0)
stmt_set_simple(t, w, v) == Make(t, 0, 0, 0, w, v)
stmt_set_if_stmt(c, yes, no) == Cardinality({c, yes, no}) = 3 /\ Make("IF", c, yes, no, "", 0)
stmt_set_while_stmt(c, body) == c # body /\ Make("WHILE", c, body, 0, "", 0)

\* No rule uses the value of s any more.
Drop(s) ==
    /\ held' = held \ {s} /\ dropped' = dropped \cup {s}
    /\ UNCHANGED <<tree, twice, leaked, envars>>

\* The grammar chains to chkpnt, the statement reduced last: the one before, unless
\* the statement that follows has blocks of its own, which have moved chkpnt inside
\* it.  It then becomes the next of one of its own parts, which nothing reaches.
stmt_set_next(s, nxt) ==
    /\ s # nxt /\ tree[s].nxt = 0
    /\ \/ /\ tree[nxt].t \notin {"IF", "WHILE"}
          /\ tree' = [tree EXCEPT ![s].nxt = nxt]
          /\ held' = held \ {nxt}
          /\ UNCHANGED <<twice, leaked, dropped, envars>>
       \/ tree[nxt].t \in {"IF", "WHILE"} /\ Drop(nxt)

\* top_level && pipeline, top_level || pipeline and pipe_seq | stmt have the value
\* of their left part.
JoinStmts(left, right) == left # right /\ tree[right].nxt = 0 /\ Drop(right)

-----------------------------------------------------------------------------
(***************************************************************************)
(* Execution.  DIV divides its second operand, PLUS adds its first operand *)
(* to itself and NOT gives its operand, as the code does.                  *)
(***************************************************************************)
Bool(b) == IF b THEN 1 ELSE 0

RECURSIVE kshell_expr_eval(_, _)
kshell_expr_eval(n, env) ==
    IF n = 0 THEN 0
    ELSE LET e == tree[n]
             l == kshell_expr_eval(e.e0, env)
             r == kshell_expr_eval(e.e1, env)
         IN CASE e.t = "AND"   -> Bool(l # 0 /\ r # 0)
              [] e.t = "OR"    -> IF l # 0 THEN l ELSE Bool(r # 0)
              [] e.t = "PLUS"  -> l + l
              [] e.t = "MINUS" -> l - r
              [] e.t = "MULT"  -> l * r
              [] e.t = "DIV"   -> IF r # 0 THEN 1 ELSE 0
              [] e.t = "EQ"    -> Bool(l = r)
              [] e.t = "NEQ"   -> Bool(l # r)
              [] e.t = "LT"    -> Bool(l < r)
              [] e.t = "GT"    -> Bool(l > r)
              [] e.t = "LEQ"   -> Bool(l <= r)
              [] e.t = "GEQ"   -> Bool(l >= r)
              [] e.t = "NOT"   -> l
              [] e.t = "INT"   -> e.v
              [] e.t = "WORD"  -> env[e.word]
              [] OTHER         -> 0            \* ASSIGN and STMT: not implemented

\* st is the environment, the value of the last statement that has one, and
\* the iterations left.  A statement that has no value keeps the one before.
RECURSIVE kshell_stmt_execute(_, _)
RECURSIVE kshell_while_stmt_execute(_, _)
kshell_stmt_execute(n, st) ==
    IF n = 0 \/ st.fuel = 0 THEN st
    ELSE LET s    == tree[n]
             zero == [st EXCEPT !.ret = 0]
             cond == kshell_stmt_execute(s.e0, zero)
             next ==
                 CASE s.t = "EXPR"       -> [st EXCEPT !.ret = kshell_expr_eval(s.e0, st.env)]
                   [] s.t = "BUILT_IN"   -> [st EXCEPT !.ret = 1]
                   [] s.t = "ENV_ASSIGN" -> [st EXCEPT !.env[s.word] = s.v]
                   [] s.t = "IF"         -> kshell_stmt_execute(IF cond.ret # 0 THEN s.e1 ELSE s.e2, [cond EXCEPT !.ret = 0])
                   [] s.t = "WHILE"      -> kshell_while_stmt_execute(s, zero)
                   [] OTHER              -> st       \* EXEC and PIPELINE: not implemented
         IN kshell_stmt_execute(s.nxt, next)
kshell_while_stmt_execute(s, st) ==
    LET cond == kshell_stmt_execute(s.e0, [st EXCEPT !.ret = 0])
        body == kshell_stmt_execute(s.e1, [cond EXCEPT !.ret = 0, !.fuel = cond.fuel - 1])
    IN IF cond.fuel = 0 \/ cond.ret = 0 THEN [cond EXCEPT !.ret = st.ret]
       ELSE kshell_while_stmt_execute(s, body)

\* The environment a script leaves.  One that does not end within the bound is
\* not followed further.
Execute(s) ==
    LET st == kshell_stmt_execute(s, [env |-> envars, ret |-> 0, fuel |-> Fuel])
    IN st.fuel # 0 /\ envars' = st.env

Unset(w) == envars' = [envars EXCEPT ![w] = 0] /\ UNCHANGED <<tree, held, twice, leaked, dropped>>   \* kshell_unset_varenv

-----------------------------------------------------------------------------
(***************************************************************************)
(* stmt_destroy and expr_destroy: the test of the condition of a while is  *)
(* the wrong way round, so the condition stays allocated.                  *)
(***************************************************************************)
\* Mutant: the else branch is not destroyed.
Owned_then(s) == IF s.t = "WHILE" THEN <<s.e1, s.nxt>> ELSE <<s.e0, s.e1, s.nxt>>
Owned(s) == IF s.t = "WHILE" THEN <<s.e1, s.nxt>> ELSE <<s.e0, s.e1, s.e2, s.nxt>>

RECURSIVE Destroyed(_)
Destroyed(n) == IF n = 0 THEN << >>
                ELSE FoldLeft(LAMBDA gone, m : gone \o Destroyed(m), << >>, Owned(tree[n])) \o <<n>>

Destroy_(s) ==
    LET gone == Destroyed(s)
    IN /\ tree' = [n \in NodeIds |-> IF n \in Range(gone) THEN << >> ELSE tree[n]]
       /\ held' = held \ {s}
       /\ twice' = (Cardinality(Range(gone)) # Len(gone))
       /\ leaked' = leaked \cup {tree[n].e0 : n \in {m \in Range(gone) : tree[m].t = "WHILE"}}
       /\ UNCHANGED dropped

-----------------------------------------------------------------------------
(***************************************************************************)
(* The rules of the grammar.  A script is executed, then destroyed.        *)
(***************************************************************************)
ParseExpr ==
    \/ \E v \in Ints : expr_set_int(v)
    \/ \E w \in Words : expr_set_word(w)
    \/ \E op \in Ops, l, r \in HeldExprs : expr_set_op(op, l, r)
    \/ \E e \in HeldExprs : expr_set_not(e)
    \/ \E s \in HeldStmts : expr_set_stmt(s)

ParseStmt ==
    \/ \E e \in HeldExprs : stmt_set_expr(e)
    \/ \E t \in Simple : stmt_set_simple(t, "", 0)
    \/ \E w \in Words, v \in Ints : stmt_set_simple("ENV_ASSIGN", w, v)
    \/ \E c, yes \in HeldStmts, no \in HeldStmts \cup {0} : stmt_set_if_stmt(c, yes, no)
    \/ \E c, body \in HeldStmts : stmt_set_while_stmt(c, body)
    \/ \E s, nxt \in HeldStmts : stmt_set_next(s, nxt) \/ JoinStmts(s, nxt)

ParseList(s) == Execute(s) /\ Destroy_(s)

ShellNext ==
    \/ ParseExpr \/ ParseStmt
    \/ \E s \in HeldStmts : ParseList(s)
    \/ \E w \in Words : Unset(w)

ShellSpec == ShellInit /\ [][ShellNext]_shellVars

-----------------------------------------------------------------------------
\* Destroying a script frees every node below it exactly once and nothing a
\* live node refers to; what is neither freed nor held any more hangs from the
\* condition of a while that was destroyed or from a statement that the grammar
\* dropped, and from nothing else.
ScriptsAreFreedOnce ==
    /\ ~twice
    /\ \A n \in Alive : Children(n) \subseteq Alive
    /\ held \cup leaked \cup dropped \subseteq Alive
    /\ \A n \in Alive : Cardinality({m \in Alive : n \in Children(m)}) =
                            IF n \in held \cup leaked \cup dropped THEN 0 ELSE 1

\* Destroying a while statement frees its condition (stmt.h, while_stmt_destroy:
\* "destroys the victim and all the conditional block it represents").
WhileBlocksAreFreed == leaked = {}
=============================================================================
