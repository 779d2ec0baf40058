----------------------------- MODULE Calculator -----------------------------
(***************************************************************************)
(* The builtin bc at work: a call of it reads a program from a file, from  *)
(* its standard input or from the text of -e, and runs each statement as   *)
(* soon as it has been read.  Its arithmetic is modelled beside that, on   *)
(* limbs: BcProgram computes with integers, and a case of its own shows    *)
(* what the operations and the conversions do with numbers and texts.      *)
(***************************************************************************)
EXTENDS BcReference

CONSTANTS
    Radix, BaseDigs, KaratsubaLen, DefSize, DivisorBound, BigDigMax,  \* see BcNum
    Cases,       \* a sequence of sets of cases
    Program(_)   \* the program of a case, as BcReference has programs

ASSUME NumAssumption ==
    /\ Radix \in Nat /\ Radix % 2 = 0 /\ BaseDigs \in Nat \ {0}
    /\ KaratsubaLen \in Nat \ {0, 1} /\ DefSize \in Nat \ {0}

B == INSTANCE BcCalc

VARIABLES
    case,     \* what is computed: its kind, and what that kind needs
    phase,    \* "new", "reading", "done"
    rest,     \* the lines of the program still to be read
    machine,  \* see NewMachine
    value     \* the result of an operation on numbers or texts
vars == <<case, phase, rest, machine, value>>

None == [error |-> "not computed"]
IsProgram == case.kind = "program"

Init ==
    /\ \E k \in DOMAIN Cases : case \in Cases[k]
    /\ phase = "new"
    /\ rest = <<>>
    /\ machine = NewMachine
    /\ value = None

\* An operation of bc_program_binOp(), bc_program_builtin() and the others.
Calculate ==
    /\ phase = "new" /\ case.kind = "number"
    /\ value' = B!Value(case)
    /\ phase' = "done"
    /\ UNCHANGED <<case, rest, machine>>

\* A number of a program, read and printed.
Convert ==
    /\ phase = "new" /\ case.kind = "text"
    /\ value' = B!Printed(case)
    /\ phase' = "done"
    /\ UNCHANGED <<case, rest, machine>>

Start ==
    /\ phase = "new" /\ IsProgram
    /\ rest' = Text(Program(case))
    /\ machine' = [machine EXCEPT !.input = Input(Program(case))]
    /\ phase' = "reading"
    /\ UNCHANGED <<case, value>>

\* bc_vm_file(): the text of a file is processed as one.
ReadFile ==
    /\ phase = "reading" /\ case.from = "file" /\ rest # <<>>
    /\ machine' = Process(machine, FlattenSeq(rest))
    /\ rest' = <<>>
    /\ UNCHANGED <<case, phase, value>>

\* bc_vm_stdin() and bc_vm_exprs(): line by line.
ReadLine ==
    /\ phase = "reading" /\ case.from # "file" /\ rest # <<>>
    /\ machine' = Process(machine, Head(rest))
    /\ rest' = Tail(rest)
    /\ UNCHANGED <<case, phase, value>>

\* The end of a text: bc_vm_exprs() leaves out what ends an if.
EndText ==
    /\ phase = "reading" /\ rest = <<>>
    /\ machine' = IF case.from = "option" THEN machine ELSE Ended(machine)
    /\ phase' = "done"
    /\ UNCHANGED <<case, rest, value>>

Next == Calculate \/ Convert \/ Start \/ ReadFile \/ ReadLine \/ EndText
Spec == Init /\ [][Next]_vars

-----------------------------------------------------------------------------
Done(kind) == phase = "done" /\ case.kind = kind

\* What is computed on limbs - with carries from limb to limb, a product by
\* halves, a quotient limb by limb from estimates, a root by iteration - is what
\* the operation is of the numbers the limbs stand for, at the scale bc gives
\* it, in the one form every number has.  A root may also be sought for ever
\* (see RootEnds).
NumbersRight == Done("number") => B!Calculated(case, value)

\* A text is read as the number it stands for in its base, and a number printed
\* in a base is the text that stands for it.
TextsRight == Done("text") => B!TextRight(case, value)

\* The program did what it means: it printed what the walk over its trees
\* prints, failed where that fails, and every global variable is what the walk
\* leaves in it - with precedences, jumps and labels, arguments, locals and
\* references to arrays all gone through the bytecode and its stacks.
ProgramMeans == Done("program") => Meant(Program(case), machine)

\* Between two statements, and between two lines that leave nothing open,
\* nothing is left of the calls there were: no result, no frame, no local, no
\* condition or exit of a loop.
NothingLeft ==
    /\ ~machine.leak
    /\ IsProgram /\ ~machine.err /\ ~machine.halted =>
        /\ Len(machine.stack) = 1 /\ machine.results = <<>>
        /\ \A n \in Names : Len(machine.vars[n]) = 1 /\ Len(machine.arrays[n]) = 1
        /\ ~NoExec(machine.p) => machine.p.exits = <<>> /\ machine.p.conds = <<>>

\* num.c: the loop of bc_num_sqrt() ends.
RootEnds == Done("number") => value # B!Endless
=============================================================================
