------------------------------ MODULE BcParse ------------------------------
(***************************************************************************)
(* The parser of the builtin bc, bc-src/bc_parse.c: statements become      *)
(* bytecode with labels as they are read, and an expression is put in      *)
(* postfix order with a stack of operators.  A token is a string: a name,  *)
(* a number, or itself.  An error is a longjmp out of the parser: the rest *)
(* of the tokens is dropped.                                               *)
(***************************************************************************)
EXTENDS Integers, Sequences, SequencesExt

CONSTANTS Names, Numbers

Assigns == {"^=", "*=", "/=", "%=", "+=", "-=", "="}
Relations == {"==", "<=", ">=", "!=", "<", ">"}
PrefixOps == {"!", "neg"}
Binaries == {"^", "*", "/", "%", "+", "||", "&&"} \cup Relations
Globals == {"ibase", "obase", "last"}
Builtins1 == {"length", "sqrt", "abs"}
Builtins3 == {"modexp", "divmod"}
Starts == Names \cup Numbers \cup Globals \cup Builtins1 \cup Builtins3 \cup {"scale", "read"}
ExprTokens == Starts \cup Assigns \cup Binaries \cup {"!", "-", "++", "--", "(", ")"}

\* bc_parse_ops: a lower number binds tighter.
Prec(t) == CASE t \in PrefixOps -> 1 [] t = "^" -> 4 [] t \in {"*", "/", "%"} -> 5
             [] t \in {"+", "-"} -> 6 [] t \in Assigns -> 8 [] t \in Relations -> 9
             [] t = "&&" -> 10 [] t = "||" -> 11
LeftFirst(t) == t \notin PrefixOps \cup Assigns \cup {"^"}

\* The previous thing in an expression, as an instruction.
Variables == {"var", "elem", "scale"} \cup Globals
Leaves == Variables \cup Builtins1 \cup {"num", "array", "scale()", "read", "inc", "dec"}

\* Instructions [op, x]; an assignment's x tells whether its value is used.
Func(params) == [code |-> <<>>, labels |-> <<>>, autos |-> <<>>, nparams |-> params, void |-> FALSE]
Unread == [prev |-> "none", can |-> FALSE, exprs |-> 0, parens |-> 0, rparen |-> FALSE,
           arrayLast |-> FALSE, incdec |-> FALSE, bin |-> TRUE, done |-> FALSE, flags |-> {}]
NewParser == [toks |-> <<>>, i |-> 1, fns |-> [f \in {"main"} |-> Func(0)], f |-> "main",
              flags |-> << {} >>, exits |-> <<>>, conds |-> <<>>, ops |-> <<>>, auto |-> FALSE,
              err |-> FALSE, quit |-> FALSE, empty |-> FALSE, e |-> Unread]

Tok(p) == IF p.i \in DOMAIN p.toks THEN p.toks[p.i] ELSE "EOF"
LastTok(p) == IF p.i - 1 \in DOMAIN p.toks THEN p.toks[p.i - 1] ELSE "none"
Fail(p) == [p EXCEPT !.err = TRUE, !.toks = <<>>]
NextTok(p) == IF Tok(p) = "EOF" THEN Fail(p) ELSE [p EXCEPT !.i = @ + 1]
Expect(p, ts) == IF p.err \/ Tok(p) \notin ts THEN Fail(p) ELSE p
Past(p, t) == NextTok(Expect(p, {t}))

RECURSIVE SkipAny(_, _)
SkipAny(p, ts) == IF Tok(p) \in ts /\ ~p.err THEN SkipAny(NextTok(p), ts) ELSE p

Code(p) == p.fns[p.f].code
Labels(p) == p.fns[p.f].labels
Put(p, op, x) == IF p.err THEN p ELSE [p EXCEPT !.fns[p.f].code = Append(@, [op |-> op, x |-> x])]

Pop(s) == IF s = <<>> THEN s ELSE Front(s)
Top(p) == Last(p.flags)
Has(p, flag) == flag \in Top(p)
SetTop(p, flags) == [p EXCEPT !.flags[Len(p.flags)] = flags]

NoExec(p) == p.flags # << {} >>

\* bc_parse_isDelimiter(): may this token follow a statement?
IsDelimiter(p) ==
    LET Outer(k) == p.flags[Len(p.flags) + 1 - k]
        Passed(k) == \A j \in 1..(k - 1) : Outer(j) \cap {"ELSE", "LOOP_INNER"} # {}
        Open(k) == "BRACE" \in Outer(k) /\ LastTok(p) # "}"
        deepest == CHOOSE k \in DOMAIN p.flags : Passed(k) /\ (k = Len(p.flags) \/ ~Passed(k + 1))
    IN  \/ Tok(p) \in {";", "nl", "EOF"}
        \/ Tok(p) = "else" /\ (\A k \in 1..deepest : ~Open(k)) /\ "IF" \in Outer(deepest)
        \/ Tok(p) = "}" /\ \E k \in DOMAIN p.flags : "BRACE" \in p.flags[k]

TopFunc(p) == Len(p.flags) = 2 /\ Top(p) = {"BRACE", "FUNC_INNER", "FUNC"}

StartBody(p, flags) ==
    IF p.err THEN p ELSE [p EXCEPT !.flags = Append(@, flags \cup (Top(p) \cap {"FUNC", "LOOP"}) \cup {"BODY"})]

\* Labels: 0 is a label whose place is not known yet.
CreateLabel(p, at) == [p EXCEPT !.fns[p.f].labels = Append(@, at)]
CreateCondLabel(p) == [CreateLabel(p, Len(Code(p)) + 1) EXCEPT !.conds = Append(@, Len(Labels(p)) + 1)]
CreateExitLabel(p, loop) == [CreateLabel(p, 0) EXCEPT !.exits = Append(@, [loop |-> loop, idx |-> Len(Labels(p)) + 1])]
SetLabel(p) ==
    IF p.err \/ p.exits = <<>> THEN Fail(p)
    ELSE [p EXCEPT !.fns[p.f].labels[Last(p.exits).idx] = Len(Code(p)) + 1, !.exits = Front(@)]

NoElse(p) == SetLabel(SetTop(p, Top(p) \ {"IF_END"}))

RECURSIVE Expr(_, _, _), ExprLoop(_, _), Args(_, _, _)

-----------------------------------------------------------------------------
(* Expressions.                                                            *)

PopOp(p) ==
    LET t == Last(p.ops)
    IN  [Put(p, t, TRUE) EXCEPT !.ops = Front(@), !.e.exprs = @ - (IF t \in PrefixOps THEN 0 ELSE 1)]

\* bc_parse_operator(): first the operators that bind tighter.
RECURSIVE Operator(_, _, _)
Operator(p, t, start) ==
    IF /\ Len(p.ops) > start /\ Last(p.ops) # "("
       /\ \/ Prec(Last(p.ops)) < Prec(t)
          \/ Prec(Last(p.ops)) = Prec(t) /\ LeftFirst(t)
    THEN Operator(PopOp(p), t, start)
    ELSE [p EXCEPT !.ops = Append(@, t)]

RECURSIVE RightParen(_)
RightParen(p) ==
    IF p.ops = <<>> THEN Fail(p)
    ELSE IF Last(p.ops) = "(" THEN NextTok([p EXCEPT !.ops = Front(@)])
    ELSE RightParen(PopOp(p))

\* bc_parse_expr_status(): an expression that must not be empty.
NotEmpty(p) == IF p.empty THEN Fail([p EXCEPT !.empty = FALSE]) ELSE p
Needed(p, flags, next) == NotEmpty(Expr(p, (flags \ {"print"}) \cup {"needval"}, next))

Args(p, flags, n) ==
    IF p.err THEN p
    ELSE IF Tok(p) = ")" THEN (IF n > 0 /\ LastTok(p) = "," THEN Fail(p) ELSE Put(p, "call#", n))
    ELSE LET Next(q) == IF Tok(q) = "," THEN NextTok(q) ELSE q
         IN  Args(Next(Needed(p, flags \cup {"array"}, {")", ","})), flags, n + 1)

\* bc_parse_call(): the function may be defined later.
Called(p, name) ==
    LET fns == IF name \in DOMAIN p.fns THEN p.fns ELSE (name :> Func(0)) @@ p.fns
    IN  IF p.err THEN p
        ELSE NextTok([p EXCEPT !.fns = [fns EXCEPT ![p.f].code = Append(Front(@), [op |-> "call", x |-> <<Last(@).x, name>>])]])
Call(p, name, flags) == Called(Args(NextTok(p), flags, 0), name)

Name(p, flags) ==
    LET name == Tok(p)
        p1 == NextTok(p)
        p2 == NextTok(p1)
    IN  CASE Tok(p1) = "[" /\ Tok(p2) = "]" ->
                IF "array" \notin flags THEN Fail(p2)
                ELSE Put([NextTok(p2) EXCEPT !.e.prev = "array", !.e.can = FALSE], "array", name)
          [] Tok(p1) = "[" /\ Tok(p2) # "]" ->
                Put([Past(Needed(p2, flags \ {"array"}, {"]"}), "]") EXCEPT !.e.prev = "elem", !.e.can = TRUE], "elem", name)
          [] Tok(p1) = "(" ->
                IF "nocall" \in flags THEN Fail(p1)
                ELSE [Call(p1, name, flags) EXCEPT !.e.prev = "call", !.e.can = FALSE]
          [] OTHER -> Put([p1 EXCEPT !.e.prev = "var", !.e.can = TRUE], "var", name)

IncDec(p) ==
    LET op == IF Tok(p) = "++" THEN "+=" ELSE "-="
        q == [NextTok(p) EXCEPT !.e.prev = op, !.e.exprs = @ + 1]
        Place == CASE Tok(q) \in Names -> Name(q, (q.e.flags \ {"array"}) \cup {"nocall"})
               [] Tok(q) \in Globals -> NextTok(Put(q, Tok(q), TRUE))
               [] Tok(q) = "scale" -> LET s == NextTok(q) IN IF Tok(s) = "(" THEN Fail(s) ELSE Put(s, "scale", TRUE)
               [] OTHER -> Fail(q)
    IN  IF LastTok(p) \in {"++", "--", ")"} THEN Fail(p)
        ELSE IF p.e.prev \in Variables
        THEN IF ~p.e.can THEN Fail(p)
             ELSE LET inc == IF Tok(p) = "++" THEN "inc" ELSE "dec"
                  IN  NextTok(Put([p EXCEPT !.e.prev = inc, !.e.can = FALSE], inc, TRUE))
        ELSE Put(Put([Place EXCEPT !.e.can = FALSE], "one", TRUE), op, TRUE)

IsLeaf(p) == ~p.e.bin /\ (p.e.rparen \/ p.e.prev \in Leaves)

\* bc_parse_minus(): a minus after a leaf, a negation after anything else.
Minus(p, start) ==
    LET q == [NextTok(p) EXCEPT !.e.rparen = FALSE, !.e.can = FALSE]
    IN  IF IsLeaf(p) THEN Operator([q EXCEPT !.e.prev = "-", !.e.bin = TRUE, !.e.incdec = FALSE], "-", start)
        ELSE [q EXCEPT !.ops = Append(@, "neg"), !.e.prev = "neg", !.e.bin = FALSE]

OperatorToken(p, start) ==
    LET t == Tok(p)
        bad == \/ t \in Assigns /\ p.e.prev \notin Variables
               \/ t = "!" /\ ~p.e.bin /\ LastTok(p) # "!"
               \/ t # "!" /\ (p.e.prev \in PrefixOps \/ p.e.bin)
    IN  IF bad THEN Fail(p)
        ELSE NextTok(Operator([p EXCEPT !.e.prev = t, !.e.rparen = FALSE, !.e.incdec = FALSE, !.e.can = FALSE,
                                        !.e.bin = t # "!"], t, start))

Parenthesis(p) ==
    IF Tok(p) = "("
    THEN NextTok([p EXCEPT !.e.parens = @ + 1, !.e.rparen = FALSE, !.e.incdec = FALSE, !.e.can = FALSE,
                           !.ops = Append(@, "(")])
    ELSE IF LastTok(p) = "(" THEN [p EXCEPT !.empty = TRUE]
    ELSE IF p.e.bin \/ p.e.prev \in PrefixOps THEN Fail(p)
    ELSE IF p.e.parens = 0 THEN [p EXCEPT !.e.done = TRUE]
    ELSE IF p.e.arrayLast THEN Fail(p)
    ELSE RightParen([p EXCEPT !.e.parens = @ - 1, !.e.rparen = TRUE, !.e.bin = FALSE, !.e.incdec = FALSE])

Builtin1(p, op) ==
    LET flags == (p.e.flags \ {"array"}) \cup (IF op = "length" THEN {"array"} ELSE {})
        q == Past(Needed(Past(NextTok(p), "("), flags, {")"}), ")")
    IN  Put([q EXCEPT !.e.prev = op, !.e.can = FALSE, !.e.incdec = FALSE], op, TRUE)

Builtin3(p) ==
    LET op == Tok(p)
        Arg(q) == Past(Needed(q, p.e.flags, {","}), ",")
        Ref(q) == Past(Past(Past(NextTok(Expect(q, Names)), "["), "]"), ")")
        Done(q) == Put([q EXCEPT !.e.prev = op, !.e.can = FALSE, !.e.incdec = FALSE], op, TRUE)
        Third(q) ==
            IF op = "divmod" THEN Put(Put(Put(Put(Done(Ref(q)), "zero", TRUE), "elem", Tok(q)), "swap", TRUE), "=", FALSE)
            ELSE Done(Past(Needed(q, p.e.flags, {")"}), ")"))
    IN  Third(Arg(Arg(Past(NextTok(p), "("))))

\* A token that begins a leaf.
LeafToken(p) ==
    LET t == Tok(p)
        q == [p EXCEPT !.e.rparen = FALSE, !.e.bin = FALSE]
        Taken(r) == [r EXCEPT !.e.exprs = @ + 1]
        Named(r) == [r EXCEPT !.e.rparen = r.e.prev = "call", !.e.arrayLast = r.e.prev = "array"]
        after == NextTok(p)
    IN  IF IsLeaf(p) THEN Fail(p)
        ELSE CASE t \in Names -> Taken(Named(Name(q, q.e.flags \ {"nocall"})))
               [] t \in Numbers -> Taken(Put([NextTok(q) EXCEPT !.e.prev = "num", !.e.can = FALSE], "num", t))
               [] t \in Globals -> Taken(Put([NextTok(q) EXCEPT !.e.prev = t, !.e.can = TRUE], t, TRUE))
               [] t = "scale" /\ Tok(after) # "(" ->
                    Taken(Put([NextTok(q) EXCEPT !.e.prev = "scale", !.e.can = TRUE], "scale", TRUE))
               [] t = "scale" /\ Tok(after) = "(" ->
                    LET r == Past(Needed(NextTok(NextTok(q)), q.e.flags, {")"}), ")")
                    IN  Taken(Put([r EXCEPT !.e.prev = "scale()", !.e.can = FALSE], "scale()", TRUE))
               [] t \in Builtins1 -> Taken(Builtin1(q, t))
               [] t \in Builtins3 -> Taken(Builtin3(q))
               [] t = "read" ->
                    IF "noread" \in q.e.flags THEN Fail(p)
                    ELSE Taken(Put([Past(Past(NextTok(q), "("), ")") EXCEPT !.e.prev = t, !.e.can = FALSE, !.e.incdec = FALSE], t, TRUE))

ExprLoop(p, start) ==
    LET t == Tok(p)
        Go(q) == ExprLoop(IF t \in {"(", ")"} THEN q ELSE [q EXCEPT !.e.flags = @ \ {"array"}], start)
    IN  IF p.err \/ p.empty \/ p.e.done \/ t \notin ExprTokens THEN p
        ELSE IF p.e.arrayLast /\ t # ")" THEN Fail(p)
        ELSE CASE t \in {"++", "--"} ->
                    IF p.e.incdec THEN Fail(p)
                    ELSE Go([IncDec(p) EXCEPT !.e.rparen = FALSE, !.e.bin = FALSE, !.e.incdec = TRUE])
               [] t = "-" -> Go(Minus(p, start))
               [] t \in Assigns \cup Binaries \cup {"!"} -> Go(OperatorToken(p, start))
               [] t = "(" -> IF IsLeaf(p) THEN Fail(p) ELSE Go(Parenthesis(p))
               [] t = ")" -> Go(Parenthesis(p))
               [] t \in Starts -> Go(LeafToken(p))

\* What is left of the operators; assign: the last one is an assignment.
RECURSIVE Drain(_, _, _)
Drain(p, start, assign) ==
    IF Len(p.ops) <= start THEN <<p, assign>>
    ELSE IF Last(p.ops) = "(" THEN <<Fail(p), FALSE>>
    ELSE Drain([PopOp(p) EXCEPT !.e.incdec = FALSE], start, Last(p.ops) \in Assigns)

\* bc_parse_expr_err().  An assignment whose value is not used does not leave
\* it on the stack; any other value is printed or popped.
Unused(p) ==
    LET op == IF Code(p) = <<>> THEN "none" ELSE Last(Code(p)).op
        q == [p EXCEPT !.fns[p.f].code = Front(@)]
    IN  IF op \in {"inc", "dec"} THEN Put(Put(q, "one", TRUE), IF op = "inc" THEN "+=" ELSE "-=", FALSE)
        ELSE Put(q, op, FALSE)

Finish(p, assign, unused, flags, next, pfirst) ==
    LET valued == IF unused THEN Unused(p) ELSE p
        End(q) == IF "nl" \in next THEN q ELSE SkipAny(q, {"nl"})
    IN  End(IF "print" \in flags THEN (IF pfirst \/ ~assign THEN Put(valued, "print", TRUE) ELSE valued)
            ELSE IF "needval" \in flags \/ unused THEN valued
            ELSE Put(valued, "pop", TRUE))

Complete(p, assign, flags, next, pfirst) ==
    IF p.err \/ p.e.exprs # 1 \/ (Tok(p) \notin next /\ ~IsDelimiter(p)) THEN Fail(p)
    ELSE Finish(p, assign, ~("needval" \in flags \/ pfirst) /\ (assign \/ (p.e.incdec /\ "print" \notin flags)),
                flags, next, pfirst)

Expr(p, flags, next) ==
    LET begun == IF "noread" \in flags THEN p ELSE SkipAny(p, {"nl"})
        Drained(d) == Complete(d[1], d[2], flags, next, Tok(p) = "(")
        Finished(q) == IF q.err \/ q.empty THEN q ELSE Drained(Drain(q, Len(p.ops), FALSE))
    IN  [Finished(ExprLoop([begun EXCEPT !.e = [Unread EXCEPT !.flags = flags]], Len(p.ops))) EXCEPT !.e = p.e]
=============================================================================
