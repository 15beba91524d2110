----------------------------- MODULE ExprFrames -----------------------------
(***************************************************************************)
(* Goal-directed evaluation in the interpreter (runtime/interp.r): the     *)
(* stack machine that runs the icode of module LinkCode.  One stack holds  *)
(* values, expression frame markers (ef), generator frame markers (gf) and *)
(* procedure frames (pf); efp, gfp and pfp point at the innermost of each. *)
(* A suspension pushes a generator frame and copies the part of the stack  *)
(* that the expression around it had built; a failure goes back to the     *)
(* newest generator frame, or leaves the expression frame.                 *)
(*                                                                         *)
(* An operation written in C that suspends calls interp() again, so that   *)
(* the C stack holds the suspended C generators (cstack) and ilevel counts *)
(* the activations of interp(); every marker remembers the ilevel it was   *)
(* made at, and leaving the frame returns through the C generators above   *)
(* that level (the labels Unmark_uw, Eret_uw, ... of the code).            *)
(*                                                                         *)
(* A descriptor or a marker takes one cell of the stack, index 0 is NULL.  *)
(* Values are numbers (null is 0) and procedures.  Variables: parameters   *)
(* and the saved &subject, cells of the stack too; &pos, assignment and    *)
(* other variables are left out, a global name is its procedure.           *)
(***************************************************************************)
EXTENDS LinkCode

CONSTANTS
    MaxWrites,       \* writes that out records
    Main,            \* the number of the procedure main
    WordBits         \* width of a C integer

VARIABLES
    ipc,             \* address of the next instruction or operand
    stack,           \* the interpreter stack; rsp is its length
    efp, gfp, pfp,   \* indices of the current markers, 0 for NULL
    argp,            \* glbl_argp
    cstack,          \* the C generators that called interp(), newest last
    subject,         \* &subject
    at,              \* "run", or the label of interp.r control is at
    out              \* the values written so far, MaxWrites at most

frameVars == <<ipc, stack, efp, gfp, pfp, argp, cstack, subject, at, out>>

rsp    == Len(stack)
top    == stack[rsp]
ilevel == Len(cstack) + 1

(* The initial code segment istart is at the addresses below 0: invoke,    *)
(* its operand, and the Op_Quit that mterm also is.                        *)
IStart  == <<[op |-> "invoke"], [w |-> 0], [op |-> "quit"]>>
mterm   == -1
Cell(a) == IF a < 0 THEN IStart[a + 4] ELSE codeb[a + 1]

Val(v) == [k |-> "val", v |-> v]
Var(i) == [k |-> "var", loc |-> i]
Proc(k) == [k |-> "proc", num |-> k]

Deref(cell) == IF cell.k = "var" THEN stack[cell.loc] ELSE cell
\* The number that the cell i places below the top stands for.
Below(i) == Deref(stack[rsp - i]).v

\* main is declared without a parameter, the other procedures with one.
NParam(k) == IF k = Main THEN 0 ELSE 1

(* An expression frame marker, made at the top of the stack.               *)
Ef(failure) == [k |-> "ef", fail |-> failure, gfp |-> gfp, efp |-> efp,
                ilevel |-> ilevel]

FramesInit ==
    /\ ipc = -3
    /\ stack = <<[k |-> "ef", fail |-> mterm, gfp |-> 0, efp |-> 0,
                  ilevel |-> 1], Proc(Main)>>
    /\ efp = 1 /\ gfp = 0 /\ pfp = 0 /\ argp = 2
    /\ cstack = <<>>
    /\ subject = 0
    /\ at = "run"
    /\ out = <<>>

(* Fetching: the instruction, its operand word, and the address that a     *)
(* relative operand stands for.                                            *)
Fetch(op) == at = "run" /\ Cell(ipc).op = op
Operand   == Cell(ipc + 1).w
Target    == ipc + 2 + Operand

\* The first cell after the generator marker g, or if g is NULL after the
\* expression marker e: where the region to copy begins.
FirstWord(g, e) == (IF g # 0 THEN g ELSE e) + 1
Region(first, last) == SubSeq(stack, first, last)
Cut(i) == SubSeq(stack, 1, i)

-----------------------------------------------------------------------------
(* Operands and operations that give one result or none.                   *)

Push(cell, size) ==
    /\ stack' = Append(stack, cell)
    /\ ipc' = ipc + size
    /\ UNCHANGED <<efp, gfp, pfp, argp, cstack, subject, at, out>>

PushOperand ==
    \/ Fetch("int")    /\ Push(Val(Operand), 2)
    \/ Fetch("global") /\ Push(Proc(Operand), 2)
    \/ Fetch("arg")    /\ Push(Var(argp + Operand + 1), 2)
    \/ Fetch("pnull")  /\ Push(Val(0), 1)
    \/ Fetch("push1")  /\ Push(Val(1), 1)
    \/ Fetch("pushn1") /\ Push(Val(-1), 1)
    \/ Fetch("keywd")  /\ Push(Val(subject), 2)
    \/ Fetch("ccase")  /\ stack' = stack \o <<Val(0), stack[efp - 1]>>
                       /\ ipc' = ipc + 1
                       /\ UNCHANGED <<efp, gfp, pfp, argp, cstack, subject,
                                      at, out>>

Pop ==
    /\ Fetch("pop")
    /\ stack' = Cut(rsp - 1)
    /\ ipc' = ipc + 1
    /\ UNCHANGED <<efp, gfp, pfp, argp, cstack, subject, at, out>>

\* An operator with n arguments above Arg0 leaves its result in Arg0.
Return(n, v, size) ==
    /\ stack' = Append(Cut(rsp - n - 1), Val(v))
    /\ ipc' = ipc + size
    /\ UNCHANGED <<efp, gfp, pfp, argp, cstack, subject, at>>

\* A_Resume at C_rtn_term: the operation fails.
Fail(size) ==
    /\ at' = "efail"
    /\ ipc' = ipc + size
    /\ UNCHANGED <<stack, efp, gfp, pfp, argp, cstack, subject, out>>

\* A comparison gives its right operand or fails.
Compare(op, holds) ==
    /\ Fetch(op)
    /\ IF holds THEN Return(2, Below(0), 1) /\ UNCHANGED out ELSE Fail(1)

Operator ==
    \/ Fetch("plus")  /\ Return(2, Below(1) + Below(0), 1) /\ UNCHANGED out
    \/ Fetch("minus") /\ Return(2, Below(1) - Below(0), 1) /\ UNCHANGED out
    \/ Fetch("value") /\ Return(1, Below(0), 1) /\ UNCHANGED out
    \/ Compare("eqv", Below(1) = Below(0))
    \/ Compare("numgt", Below(1) > Below(0))

\* Invocation: Arg0 is below the arguments.
newargp == rsp - Operand
Calls(k) == Fetch("invoke") /\ Deref(stack[newargp]) = Proc(k)

\* The function write, whose number is 0, with one argument.
Write ==
    /\ Calls(0)
    /\ out' = IF Len(out) < MaxWrites THEN Append(out, Below(0)) ELSE out
    /\ Return(1, Below(0), 2)

\* A number selects one of the arguments, from the end if it is negative.
\* The argument is not dereferenced.
Select ==
    /\ Fetch("invoke") /\ Deref(stack[newargp]).k = "val"
    /\ LET v == Below(Operand)
           i == IF v > 0 THEN v ELSE v + Operand + 1
       IN  IF i \in 1..Operand
           THEN /\ stack' = Append(Cut(newargp - 1), stack[newargp + i])
                /\ ipc' = ipc + 2
                /\ UNCHANGED <<efp, gfp, pfp, argp, cstack, subject, at, out>>
           ELSE Fail(2)

Goto ==
    /\ Fetch("goto")
    /\ ipc' = Target
    /\ UNCHANGED <<stack, efp, gfp, pfp, argp, cstack, subject, at, out>>

-----------------------------------------------------------------------------
(* Expression frames.                                                      *)

NewFrame(failure, before, size) ==
    /\ stack' = Append(before, Ef(failure))
    /\ efp' = Len(before) + 1
    /\ gfp' = 0
    /\ ipc' = ipc + size
    /\ UNCHANGED <<pfp, argp, cstack, subject, at, out>>

Mark  == Fetch("mark")  /\ NewFrame(Target, stack, 2)
Mark0 == Fetch("mark0") /\ NewFrame(0, stack, 1)

\* The limit is the value on top; the frame of the limited expression
\* follows it.
Limit ==
    \/ Fetch("limit") /\ Below(0) # 0
                      /\ NewFrame(0, [stack EXCEPT ![rsp] = Deref(top)], 1)
    \/ Fetch("limit") /\ Below(0) = 0 /\ Fail(1)

Chfail ==
    /\ Fetch("chfail")
    /\ stack' = [stack EXCEPT ![efp].fail = Target]
    /\ ipc' = ipc + 2
    /\ UNCHANGED <<efp, gfp, pfp, argp, cstack, subject, at, out>>

\* Mutant: the generators of the frame stay the newest ones.
UnmarkKept ==
    /\ Fetch("unmark")
    /\ at' = "Unmark_uw"
    /\ ipc' = ipc + 1
    /\ UNCHANGED <<stack, efp, gfp, pfp, argp, cstack, subject, out>>

\* Leaving a frame begins with dropping its generators.
Unmark ==
    /\ Fetch("unmark")
    /\ gfp' = stack[efp].gfp
    /\ at' = "Unmark_uw"
    /\ ipc' = ipc + 1
    /\ UNCHANGED <<stack, efp, pfp, argp, cstack, subject, out>>

Eret ==
    /\ Fetch("eret")
    /\ gfp' = stack[efp].gfp
    /\ at' = "Eret_uw"
    /\ ipc' = ipc + 1
    /\ UNCHANGED <<stack, efp, pfp, argp, cstack, subject, out>>

-----------------------------------------------------------------------------
(* Suspensions.                                                            *)

\* A generator frame marker that is resumed at this address; that of a
\* procedure also keeps the procedure.
Gf(type, next) == [k |-> "gf", type |-> type, gfp |-> gfp, efp |-> efp,
                   ipc |-> next]
ProcGf(next) == [k |-> "gf", type |-> "P", gfp |-> gfp, efp |-> efp,
                 ipc |-> next, argp |-> argp, pfp |-> pfp]

Esusp ==
    /\ Fetch("esusp")
    /\ LET ef == stack[efp]
       IN  stack' = Append(stack, Gf("E", ipc + 1))
                      \o Region(FirstWord(ef.gfp, ef.efp), efp - 1)
                      \o <<top>>
    /\ gfp' = rsp + 1
    /\ efp' = stack[efp].efp
    /\ ipc' = ipc + 1
    /\ UNCHANGED <<pfp, argp, cstack, subject, at, out>>

\* The limit, below the frame's marker, counts down in place.
Lsusp ==
    /\ Fetch("lsusp")
    /\ LET ef   == stack[efp]
           left == stack[efp - 1].v - 1
           kept == [stack EXCEPT ![efp - 1] = Val(left)]
       IN  IF left > 0
           THEN /\ stack' = SubSeq(kept, 1, rsp - 1)
                              \o Region(FirstWord(ef.gfp, ef.efp), efp - 2)
                              \o <<top>>
                /\ gfp' = IF gfp = 0 THEN ef.gfp ELSE gfp
                /\ efp' = ef.efp
                /\ UNCHANGED at
           ELSE /\ stack' = [stack EXCEPT ![efp - 1] = top]
                /\ gfp' = ef.gfp
                /\ at' = "Lsusp_uw"
                /\ UNCHANGED efp
    /\ ipc' = ipc + 1
    /\ UNCHANGED <<pfp, argp, cstack, subject, out>>

\* If the procedure has saved a scanning environment, it and the current
\* one change places (Op_Psusp, and Op_Efail for G_Psusp).
SwapScan(s, pf) ==
    IF s[pf].scan = 0 THEN s
    ELSE [s EXCEPT ![s[pf].scan] = Val(subject)]
SwappedSubject(s, pf) ==
    IF s[pf].scan = 0 THEN subject ELSE s[s[pf].scan].v

\* Mutant: a parameter is suspended as a variable.
RetderefNone(cell) == cell

\* retderef(): a variable of the procedure that is left, or suspended, is
\* dereferenced.
Retderef(cell) ==
    IF cell.k = "var" /\ cell.loc \in argp..rsp THEN Deref(cell) ELSE cell

Psusp ==
    /\ Fetch("psusp")
    /\ LET pf == stack[pfp]
           s  == Append([stack EXCEPT ![rsp] = Retderef(top)], ProcGf(ipc + 1))
                   \o Region(FirstWord(pf.gfp, pf.efp), argp - 1)
                   \o <<Retderef(top)>>
       IN  /\ stack' = SwapScan(s, pfp)
           /\ subject' = SwappedSubject(s, pfp)
           /\ efp' = pf.efp /\ ipc' = pf.ipc
           /\ argp' = pf.argp /\ pfp' = pf.pfp
    /\ gfp' = rsp + 1
    /\ UNCHANGED <<cstack, at, out>>

\* A C generator with Arg0 at cargp suspends: it calls interp(), which
\* pushes a generator frame and copies the region up to Arg0 (before is
\* the stack with the result in place).
InterpCall(gen, before, next) ==
    /\ cstack' = Append(cstack, gen)
    /\ stack' = Append(before, Gf("C", next))
                  \o SubSeq(before, FirstWord(gfp, efp), gen.cargp)
    /\ gfp' = Len(before) + 1
    /\ ipc' = next
    /\ at' = "run"

\* The generator g of e1 to e2 by e3 has a value; its next one, in an integer
\* of the machine.
InRange(g) == IF g.by > 0 THEN g.from <= g.to ELSE g.from >= g.to
Counted(g) ==
    LET half == 2^(WordBits - 1)
    IN  [g EXCEPT !.from = ((@ + g.by + half) % (2 * half)) - half]

Toby ==
    /\ Fetch("toby")
    /\ LET cargp == rsp - 3
           g == [gen |-> "toby", cargp |-> cargp, pfp |-> pfp,
                 from |-> Below(2), to |-> Below(1), by |-> Below(0)]
       IN  IF InRange(g)
           THEN /\ InterpCall(g, [stack EXCEPT ![cargp] = Val(g.from)], ipc + 1)
                /\ UNCHANGED <<efp, pfp, argp, subject, out>>
           ELSE Fail(1)

\* Only the outermost scan of a procedure is noted in its frame.
NoteScan(s, i) ==
    IF s[pfp].scan = 0 THEN [s EXCEPT ![pfp].scan = i] ELSE s
ForgetScan(s, i) ==
    IF s[pfp].scan = i THEN [s EXCEPT ![pfp].scan = 0] ELSE s

Bscan ==
    /\ Fetch("bscan")
    /\ LET saved == rsp + 1                       \* Arg1
       IN  /\ InterpCall([gen |-> "bscan", cargp |-> rsp, pfp |-> pfp],
                         NoteScan(Append([stack EXCEPT ![rsp] = Var(saved)],
                                         Val(subject)), saved),
                         ipc + 1)
           /\ subject' = Below(0)
    /\ UNCHANGED <<efp, pfp, argp, out>>

Escan ==
    /\ Fetch("escan")
    /\ LET var == stack[rsp - 1]
           s   == [stack EXCEPT ![rsp - 1] = top, ![rsp] = var,
                                ![var.loc] = Val(subject)]
       IN  /\ InterpCall([gen |-> "escan", cargp |-> rsp - 1, pfp |-> pfp],
                         ForgetScan(s, var.loc), ipc + 1)
           /\ subject' = stack[var.loc].v
    /\ UNCHANGED <<efp, pfp, argp, out>>

-----------------------------------------------------------------------------
(* Calls and returns of procedures.                                        *)

\* Missing arguments are null, and excess ones are dropped.
Invoke ==
    /\ \E k \in DOMAIN entry :
         /\ Calls(k)
         /\ stack' = Append(Cut(newargp - 1), Proc(k))
              \o [i \in 1..NParam(k) |-> IF i <= Operand
                                        THEN Deref(stack[newargp + i])
                                        ELSE Val(0)]
              \o <<[k |-> "pf", argp |-> argp, pfp |-> pfp, ilevel |-> ilevel,
                    scan |-> 0, ipc |-> ipc + 2, gfp |-> gfp, efp |-> efp]>>
         /\ pfp' = newargp + NParam(k) + 1
         /\ ipc' = entry[k]
    /\ argp' = newargp
    /\ efp' = 0 /\ gfp' = 0
    /\ UNCHANGED <<cstack, subject, at, out>>

Pret ==
    /\ Fetch("pret")
    /\ stack' = [stack EXCEPT ![argp] = Retderef(top)]
    /\ at' = "Pret_uw"
    /\ UNCHANGED <<ipc, efp, gfp, pfp, argp, cstack, subject, out>>

Pfail ==
    /\ Fetch("pfail")
    /\ at' = "Pfail_uw"
    /\ UNCHANGED <<ipc, stack, efp, gfp, pfp, argp, cstack, subject, out>>

-----------------------------------------------------------------------------
(* Leaving frames: the code after the labels ending in _uw.                *)

\* Mutant: the last result of a limited expression leaves the C generators
\* where they are.
LevelOfLimit(label) ==
    CASE label = "Lsusp_uw"                 -> ilevel
      [] label \in {"Pret_uw", "Pfail_uw"} -> stack[pfp].ilevel
      [] OTHER                              -> stack[efp].ilevel

\* The level down to which the C generators have to go.
LevelOf(label) ==
    IF label \in {"Pret_uw", "Pfail_uw"} THEN stack[pfp].ilevel
    ELSE stack[efp].ilevel

\* What the newest C generator does once interp() returns to it: a scan
\* restores or exchanges &subject, unless the procedure has changed.
ScanCleanup ==
    LET g == cstack[ilevel - 1]
    IN  IF g.gen = "toby" \/ g.pfp # pfp
        THEN UNCHANGED <<stack, subject>>
        ELSE IF g.gen = "bscan"
        THEN /\ subject' = stack[g.cargp + 1].v
             /\ stack' = ForgetScan(stack, g.cargp + 1)
        ELSE LET loc == stack[g.cargp + 1].loc
             IN  /\ subject' = stack[loc].v
                 /\ stack' = NoteScan([stack EXCEPT ![loc] = Val(subject)],
                                      loc)

Unwind ==
    /\ at \in {"Unmark_uw", "Lsusp_uw", "Eret_uw", "Pret_uw", "Pfail_uw"}
    /\ LevelOf(at) < ilevel
    /\ ScanCleanup
    /\ cstack' = SubSeq(cstack, 1, ilevel - 2)
    /\ UNCHANGED <<ipc, efp, gfp, pfp, argp, at, out>>

Unwound(label) == at = label /\ LevelOf(label) >= ilevel

LeaveFrame ==
    /\ \/ Unwound("Unmark_uw") /\ stack' = Cut(efp - 1)
       \/ Unwound("Lsusp_uw")  /\ stack' = Cut(efp - 1)
       \/ Unwound("Eret_uw")   /\ stack' = Append(Cut(efp - 1), top)
    /\ efp' = stack[efp].efp
    /\ at' = "run"
    /\ UNCHANGED <<ipc, gfp, pfp, argp, cstack, subject, out>>

LeaveProc ==
    /\ \/ Unwound("Pret_uw")  /\ stack' = Cut(argp) /\ at' = "run"
       \/ Unwound("Pfail_uw") /\ at' = "efail" /\ UNCHANGED stack
    /\ LET pf == stack[pfp]
       IN  /\ efp' = pf.efp /\ gfp' = pf.gfp /\ ipc' = pf.ipc
           /\ argp' = pf.argp /\ pfp' = pf.pfp
    /\ UNCHANGED <<cstack, subject, out>>

-----------------------------------------------------------------------------
(* Failure.                                                                *)

Efail ==
    /\ Fetch("efail")
    /\ at' = "efail"
    /\ UNCHANGED <<ipc, stack, efp, gfp, pfp, argp, cstack, subject, out>>

\* No generator in the frame: leave it, and go on at its failure address,
\* or without one fail in the frame around it.
FailFrame ==
    /\ at = "efail" /\ gfp = 0 /\ efp # 0
    /\ LET ef == stack[efp]
       IN  /\ gfp' = ef.gfp /\ efp' = ef.efp
           /\ IF ef.fail = 0 THEN UNCHANGED <<at, ipc>>
              ELSE at' = "run" /\ ipc' = ef.fail
    /\ stack' = Cut(efp - 1)
    /\ UNCHANGED <<pfp, argp, cstack, subject, out>>

\* The newest generator frame; type says who is resumed.
ResumeFrame(type) ==
    /\ at = "efail" /\ gfp # 0 /\ stack[gfp].type = type
    /\ efp' = stack[gfp].efp
    /\ gfp' = stack[gfp].gfp
    /\ ipc' = stack[gfp].ipc

ResumeExpr ==
    /\ ResumeFrame("E")
    /\ stack' = Cut(gfp - 1)
    /\ UNCHANGED <<pfp, argp, cstack, subject, at, out>>

ResumeProc ==
    /\ ResumeFrame("P")
    /\ argp' = stack[gfp].argp /\ pfp' = stack[gfp].pfp
    /\ stack' = SwapScan(Cut(gfp - 1), stack[gfp].pfp)
    /\ subject' = SwappedSubject(stack, stack[gfp].pfp)
    /\ at' = "run"
    /\ UNCHANGED <<cstack, out>>

\* interp() returns A_Resume to the newest C generator.
ResumeC ==
    /\ ResumeFrame("C")
    /\ stack' = Cut(gfp - 1)
    /\ at' = "resumed"
    /\ UNCHANGED <<pfp, argp, cstack, subject, out>>

Dropped == SubSeq(cstack, 1, ilevel - 2)

\* "to" counts on: it calls interp() again from the level below.
TobyAgain ==
    /\ at = "resumed"
    /\ cstack[ilevel - 1].gen = "toby"
    /\ LET g == Counted(cstack[ilevel - 1])
       IN  /\ InRange(g)
           /\ cstack' = [cstack EXCEPT ![ilevel - 1] = g]
           /\ LET s == [stack EXCEPT ![g.cargp] = Val(g.from)]
              IN  stack' = Append(s, Gf("C", ipc))
                             \o SubSeq(s, FirstWord(gfp, efp), g.cargp)
           /\ gfp' = rsp + 1
           /\ at' = "run"
    /\ UNCHANGED <<ipc, efp, pfp, argp, subject, out>>

\* It has no further value, or it is a scan, which cleans up and fails.
FailC ==
    /\ at = "resumed"
    /\ LET g == cstack[ilevel - 1]
       IN  g.gen = "toby" => ~InRange(Counted(g))
    /\ ScanCleanup
    /\ cstack' = Dropped
    /\ at' = "efail"
    /\ UNCHANGED <<ipc, efp, gfp, pfp, argp, out>>

Quit ==
    /\ Fetch("quit")
    /\ at' = "quit"
    /\ UNCHANGED <<ipc, stack, efp, gfp, pfp, argp, cstack, subject, out>>

FramesNext ==
    \/ PushOperand \/ Pop \/ Operator \/ Write \/ Select \/ Goto
    \/ Mark \/ Mark0 \/ Limit \/ Chfail \/ Unmark \/ Eret
    \/ Esusp \/ Lsusp \/ Psusp \/ Toby \/ Bscan \/ Escan
    \/ Invoke \/ Pret \/ Pfail
    \/ Unwind \/ LeaveFrame \/ LeaveProc
    \/ Efail \/ FailFrame \/ ResumeExpr \/ ResumeProc \/ ResumeC
    \/ TobyAgain \/ FailC \/ Quit
=============================================================================
