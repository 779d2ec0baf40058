---------------------------- MODULE BcStatements ----------------------------
(***************************************************************************)
(* The statements of the parser of the builtin bc, bc-src/bc_parse.c.  A   *)
(* statement may be read before its body is: flags is the stack of what is *)
(* open, exits the labels to be set where the innermost of them ends, and  *)
(* conds the labels its loops go back to.                                  *)
(***************************************************************************)
EXTENDS BcParse

RECURSIVE EndBody(_, _), EndLoop(_, _, _), Onward(_, _, _), Stmt(_), Params(_), Autos(_)

PopFlags(p) == [p EXCEPT !.flags = Pop(@)]

Else(p) ==
    LET label == Len(Labels(p)) + 1
    IN  IF p.err \/ ~Has(p, "IF_END") THEN Fail(p)
        ELSE NextTok(StartBody(CreateExitLabel(NoElse(Put(p, "jump", label)), FALSE), {"ELSE"}))

\* What ends with the body at the top of the flags.
CloseTop(p, hasBrace) ==
    LET loop == Has(p, "LOOP_INNER")
        back == IF loop THEN [Put(p, "jump", Last(p.conds)) EXCEPT !.conds = Front(@)] ELSE p
    IN  CASE loop \/ Has(p, "ELSE") -> PopFlags(SetLabel(back))
          [] ~(loop \/ Has(p, "ELSE")) /\ Has(p, "FUNC_INNER") ->
                PopFlags([Put(p, IF p.fns[p.f].void THEN "retvoid" ELSE "ret0", TRUE) EXCEPT !.f = "main"])
          [] ~(loop \/ Has(p, "ELSE") \/ Has(p, "FUNC_INNER")) /\ hasBrace /\ ~Has(p, "IF") -> PopFlags(p)
          [] OTHER -> p

\* The do-while loop of bc_parse_endBody(): the end of a body is the end of
\* those around it that are not in braces.
Onward(q, newElse, left) ==
    IF q.err THEN q
    ELSE IF Len(q.flags) > 1 /\ ~newElse /\ (~Has(q, "IF_END") \/ left) /\ ~Has(q, "BRACE")
    THEN EndLoop(q, left, FALSE)
    ELSE IF Len(q.flags) = 1 /\ left THEN Fail(q)
    ELSE IF left /\ Has(q, "BRACE") /\ Top(q) \cap {"FUNC_INNER", "LOOP_INNER", "IF", "ELSE", "IF_END"} = {}
    THEN PopFlags(q)
    ELSE q

Waits(p) == SetTop(p, Top(p) \cup {"IF_END"})
AfterIf(p, left) ==
    IF Tok(p) = "else" THEN Onward(Else(p), TRUE, left)
    ELSE Onward(IF left THEN NoElse(p) ELSE p, FALSE, left)

\* depth: how much was open before this body was closed.
Closed(p, depth, left) ==
    IF Has(p, "IF") /\ (Len(p.flags) = depth \/ ~Has(p, "BRACE"))
    THEN AfterIf(Waits(PopFlags(SkipAny(p, {"nl"}))), left)
    ELSE Onward(p, FALSE, left)

EndLoop(p, brace, hasBrace) ==
    IF p.err \/ (hasBrace /\ ~brace) THEN Fail(p)
    ELSE Closed(CloseTop(p, hasBrace), Len(p.flags), brace /\ ~hasBrace)

EndBody(p, brace) ==
    LET q == IF brace THEN NextTok(p) ELSE p
    IN  IF p.err \/ Len(p.flags) <= 1 THEN Fail(p)
        ELSE IF brace /\ ~IsDelimiter(q) /\ ~TopFunc(q) THEN Fail(q)
        ELSE EndLoop(q, brace, Has(p, "BRACE"))

\* bc_parse_endif(): at the end of the text the last if gets no else.
RECURSIVE EndIfs(_)
EndIfs(p) ==
    IF p.err \/ (Len(p.flags) = 1 /\ ~Has(p, "IF_END")) THEN p
    ELSE LET End(q) == IF Len(q.flags) > 1 THEN EndBody(q, FALSE) ELSE q
         IN  EndIfs(End(IF Has(p, "IF_END") THEN NoElse(p) ELSE p))
EndIf(p) ==
    IF ~NoExec(p) THEN p
    ELSE IF \E k \in DOMAIN p.flags : "BRACE" \in p.flags[k] THEN Fail(p)
    ELSE EndIfs(p)

Condition(p, next) == Past(Needed(p, {"rel"}, {next}), next)

If(p) ==
    LET Begun(q) == IF q.err THEN q
                    ELSE StartBody(CreateExitLabel(Put(q, "jumpzero", Len(Labels(q)) + 1), FALSE), {"IF"})
    IN  Begun(Condition(Past(NextTok(p), "("), ")"))

While(p) ==
    LET Begun(q) == IF q.err THEN q
                    ELSE StartBody(Put(q, "jumpzero", Last(q.exits).idx), {"LOOP", "LOOP_INNER"})
    IN  Begun(Condition(CreateExitLabel(CreateCondLabel(Past(NextTok(p), "(")), TRUE), ")"))

\* Four labels: the condition, the update, the body and the exit.
ForBegun(p) ==
    IF p.err \/ p.empty THEN Fail([p EXCEPT !.empty = FALSE])
    ELSE StartBody(NextTok(CreateExitLabel(CreateLabel(p, Len(Code(p)) + 1), TRUE)), {"LOOP", "LOOP_INNER"})
ForUpdate(p, cond) ==
    Put(Expect(IF Tok(p) = ")" THEN p ELSE Expr(p, {}, {")"}), {")"}), "jump", cond)
ForBody(p, cond) ==
    ForUpdate(CreateCondLabel(Put(Put(p, "jumpzero", cond + 3), "jump", cond + 2)), cond)
ForCondition(p, cond) ==
    ForBody(Past(IF Tok(p) = ";" THEN Put(p, "num", "1") ELSE Needed(p, {"rel"}, {";"}), ";"), cond)
ForInit(p) ==
    IF p.empty THEN Fail(p)
    ELSE ForCondition(CreateLabel(p, Len(Code(p)) + 1), Len(Labels(p)) + 1)
For(p) ==
    LET Open(q) == Past(IF Tok(q) = ";" THEN q ELSE Expr(q, {}, {";"}), ";")
    IN  ForBegun(ForInit(Open(Past(NextTok(p), "("))))

\* break: the exit of the innermost loop, past those of its ifs.
LoopExit(p) ==
    LET loops == {k \in DOMAIN p.exits : p.exits[k].loop}
        innermost == CHOOSE k \in loops : \A j \in loops : j <= k
    IN  IF ~Has(p, "LOOP") THEN Fail(p)
        ELSE NextTok(Put(p, "jump", IF Tok(p) = "break" THEN p.exits[innermost].idx ELSE Last(p.conds)))

\* bc_func_insert(): parameters and locals have names of their own.
Local(p, name, type) ==
    IF p.err \/ \E k \in DOMAIN p.fns[p.f].autos : p.fns[p.f].autos[k] = <<name, type>> THEN Fail(p)
    ELSE [p EXCEPT !.fns[p.f].autos = Append(@, <<name, type>>)]

Params(p) ==
    LET ref == Tok(p) = "*"
        p1 == Expect(IF ref THEN NextTok(p) ELSE p, Names)
        p2 == NextTok(p1)
        array == Tok(p2) = "["
        p3 == IF array THEN Past(NextTok(p2), "]") ELSE p2
        type == IF array THEN (IF ref THEN "ref" ELSE "array") ELSE "var"
        q == IF Tok(p3) = "," THEN NextTok(p3) ELSE p3
    IN  IF p.err THEN p
        ELSE IF Tok(p) = ")" THEN (IF LastTok(p) = "," THEN Fail(p) ELSE p)
        ELSE IF ref /\ ~array THEN Fail(p)
        ELSE Params([Local(q, Tok(p1), type) EXCEPT !.fns[p.f].nparams = @ + 1])

\* bc_parse_func(): a function of that name is forgotten.
Define(p) ==
    LET p1 == Expect(NextTok(p), Names \cup {"void"})
        void == Tok(p1) = "void"
        p2 == Expect(IF void THEN NextTok(p1) ELSE p1, Names)
        name == Tok(p2)
        p3 == Past(NextTok(p2), "(")
        q == Params([p3 EXCEPT !.f = name, !.fns = (name :> [Func(0) EXCEPT !.void = void]) @@ @])
    IN  IF p3.err THEN p3 ELSE NextTok(StartBody(q, {"FUNC", "FUNC_INNER"}))

Autos(p) ==
    LET p1 == NextTok(p)
        array == Tok(p1) = "["
        p2 == IF array THEN Past(NextTok(p1), "]") ELSE p1
        q == IF Tok(p2) = "," THEN NextTok(p2) ELSE p2
    IN  IF p.err THEN p
        ELSE IF Tok(p) \notin Names THEN (IF LastTok(p) \in {",", "auto"} \/ ~IsDelimiter(p) THEN Fail(p) ELSE p)
        ELSE Autos(Local(q, Tok(p), IF array THEN "array" ELSE "var"))

Auto(p) == IF p.auto THEN Autos([NextTok(p) EXCEPT !.auto = FALSE]) ELSE Fail(p)

Body(p, brace) ==
    LET open == SetTop(p, Top(p) \ {"BODY"})
        Line(q) == IF Tok(q) = "nl" THEN NextTok(q) ELSE q
        Single(q) == IF ~q.err /\ ~brace /\ ~Has(q, "BODY") /\ Len(p.flags) <= Len(q.flags) THEN EndBody(q, FALSE) ELSE q
    IN  IF p.err THEN p
        ELSE IF ~Has(open, "FUNC_INNER") THEN Single(Stmt(open))
        ELSE IF ~brace THEN Fail(open)
        ELSE Line(IF Tok(open) = "auto" THEN Auto([open EXCEPT !.auto = TRUE]) ELSE [open EXCEPT !.auto = TRUE])

Return(p) ==
    LET void == p.fns[p.f].void
        none == IF void THEN "retvoid" ELSE "ret0"
        p1 == NextTok(p)
        Valued(q) == IF q.empty THEN NextTok(Put([q EXCEPT !.empty = FALSE], none, TRUE))
                     ELSE IF void THEN Fail(q)
                     ELSE Put(q, "ret", TRUE)
    IN  IF ~Has(p, "FUNC") THEN Fail(p)
        ELSE IF IsDelimiter(p1) THEN Put(p1, none, TRUE)
        ELSE Valued(Expr(p1, {"needval"}, {"nl", ";", "}", "EOF"}))

RECURSIVE PrintStmt(_)
PrintStmt(p) ==
    LET Next(q) == IF Tok(q) = "," THEN PrintStmt(NextTok(q)) ELSE IF IsDelimiter(q) THEN q ELSE Fail(q)
    IN  IF p.err \/ IsDelimiter(p) THEN Fail(p)
        ELSE Next(Put(Needed(p, {}, {",", "nl", ";", "EOF"}), "printpop", TRUE))

Simple(p) ==
    LET t == Tok(p)
    IN  CASE t \in Starts \cup {"++", "--", "-", "!", "("} -> NotEmpty(Expr(p, {"print"}, {"nl", ";", "}", "EOF"}))
          [] t = "else" -> Else(p)
          [] t = ";" -> p
          [] t = "}" -> EndBody(p, TRUE)
          [] t \in {"break", "continue"} -> LoopExit(p)
          [] t = "for" -> For(p)
          [] t = "if" -> If(p)
          [] t = "while" -> While(p)
          [] t = "return" -> Return(p)
          [] t = "print" -> PrintStmt(NextTok(p))
          [] t = "halt" -> NextTok(Put(p, "halt", TRUE))
          [] t = "quit" -> [p EXCEPT !.quit = TRUE, !.toks = <<>>]
          [] OTHER -> Fail(p)

Stmt(p) ==
    LET begun == [p EXCEPT !.auto = FALSE]
        Single(q) == IF Len(q.flags) > 1 /\ ~Has(q, "BRACE") THEN EndBody(q, FALSE) ELSE q
        Delimited(q) == IF ~q.err /\ ~q.quit /\ q.flags = p.flags /\ ~IsDelimiter(q) THEN Fail(q)
                        ELSE SkipAny(q, {";", "nl"})
    IN  CASE p.err -> p
          [] ~p.err /\ Tok(p) = "nl" -> NextTok(p)
          [] ~p.err /\ Tok(p) = "auto" -> Auto(p)
          [] ~p.err /\ Tok(p) \notin {"nl", "auto", "else"} /\ Has(p, "IF_END") ->
                Single(NoElse(begun))
          [] ~p.err /\ Tok(p) = "{" /\ ~Has(p, "IF_END") ->
                IF Has(p, "BODY") THEN Body(NextTok(SetTop(begun, Top(p) \cup {"BRACE"})), TRUE)
                ELSE NextTok(StartBody(begun, {"BRACE"}))
          [] ~p.err /\ Tok(p) \notin {"nl", "auto", "else", "{"} /\ ~Has(p, "IF_END") /\ Has(p, "BODY") /\ ~Has(p, "BRACE") ->
                Body(begun, FALSE)
          [] OTHER -> Delimited(Simple(begun))

\* bc_parse_parse(): one statement.
Parse(p) ==
    LET ended == EndIf(p)
    IN  IF Tok(p) = "EOF" THEN Fail(p)
        ELSE IF Tok(p) = "define" THEN (IF NoExec(ended) \/ ended.err THEN Fail(ended) ELSE Define(ended))
        ELSE Stmt(p)
=============================================================================
