------------------------------ MODULE TreeCode ------------------------------
(***************************************************************************)
(* The code generator of the Unicon translator (icont/tcode.c): traverse() *)
(* walks the parse tree of a procedure and writes ucode, the symbolic      *)
(* instructions of the stack machine.  A tree is a record                  *)
(* [n |-> kind of node, c |-> children, v |-> literal]; a list of ucode is *)
(* a sequence of records with an op and possibly a label or a number.      *)
(*                                                                         *)
(* A label is named by the node that allocates it: <<p, i>> is label       *)
(* lab + i of the alclab() call of the node at path p, so two nodes never  *)
(* share one.  Line, column and syntax directives (setloc) are left out.   *)
(***************************************************************************)
EXTENDS Naturals, Sequences, SequencesExt

Tree(kind, children) == [n |-> kind, c |-> children, v |-> 0]
Leaf(kind, value)    == [n |-> kind, c |-> <<>>, v |-> value]

Empty == Leaf("Empty", 0)

-----------------------------------------------------------------------------
(* One ucode line: emit, emitl, emitn (and emits), emitlab.                *)

Emit(op)     == <<[op |-> op]>>
EmitL(op, l) == <<[op |-> op, lab |-> l]>>
EmitN(op, k) == <<[op |-> op, num |-> k]>>
EmitLab(l)   == EmitL("lab", l)

(* The loop stack, innermost loop first: where next and break go, the      *)
(* number of expression frames open in the loop (markcount) and whether    *)
(* ltype is EVERY.  The last entry is the one N_Proc makes: no labels.     *)
NoLabel  == <<>>
ProcLoop == [next |-> NoLabel, brk |-> NoLabel, marks |-> 0, every |-> FALSE]
Loop(next, brk, every) ==
    [next |-> next, brk |-> brk, marks |-> 1, every |-> every]

Enter(x, loop)  == [x EXCEPT !.loops = <<loop>> \o @]
Leave(x)        == [x EXCEPT !.loops = Tail(@)]
Marked(x)       == [x EXCEPT !.loops[1].marks = @ + 1]
EveryDo(x)      == Marked([x EXCEPT !.loops[1].every = FALSE])

(* x.loops is the loop stack, x.endlab the label on top of the case stack. *)
RECURSIVE Traverse(_, _, _)
Sub(t, i, p, x) == Traverse(t.c[i], Append(p, i), x)

-----------------------------------------------------------------------------
(* Operands, operations and calls.                                         *)

GenBinop(t, p, x) ==
    Emit("pnull") \o Sub(t, 1, p, x) \o Sub(t, 2, p, x) \o Emit(t.v)

GenUnop(t, p, x) == Emit("pnull") \o Sub(t, 1, p, x) \o Emit(t.v)

GenTo(t, p, x) ==
    Emit("pnull") \o Sub(t, 1, p, x) \o Sub(t, 2, p, x) \o Emit("push1")
      \o Emit("toby")

GenToBy(t, p, x) ==
    Emit("pnull") \o Sub(t, 1, p, x) \o Sub(t, 2, p, x) \o Sub(t, 3, p, x)
      \o Emit("toby")

(* (e1, ..., en) is short for -1(e1, ..., en).                             *)
GenInvok(t, p, x) ==
    LET parts == [i \in DOMAIN t.c |-> IF i = 1 /\ t.c[1].n = "Empty"
                                       THEN Emit("pushn1")
                                       ELSE Sub(t, i, p, x)]
    IN  FlattenSeq(parts) \o EmitN("invoke", Len(t.c) - 1)

GenConj(t, p, x) == Sub(t, 1, p, x) \o Emit("pop") \o Sub(t, 2, p, x)

GenScan(t, p, x) ==
    Sub(t, 1, p, x) \o Emit("bscan") \o Sub(t, 2, p, x) \o Emit("escan")

-----------------------------------------------------------------------------
(* Control structures that are not loops.                                  *)

GenAlt(t, p, x) ==
    EmitL("mark", <<p, 0>>) \o Sub(t, 1, p, Marked(x)) \o Emit("esusp")
      \o EmitL("goto", <<p, 1>>)
      \o EmitLab(<<p, 0>>) \o Sub(t, 2, p, x)
      \o EmitLab(<<p, 1>>)

\* Mutant: failure repeats the expression without end.
GenBarMarked(t, p, x) ==
    EmitLab(<<p, 0>>) \o EmitL("mark", <<p, 0>>) \o Sub(t, 1, p, Marked(x))
      \o Emit("esusp")

GenBar(t, p, x) ==
    EmitLab(<<p, 0>>) \o Emit("mark0") \o Sub(t, 1, p, Marked(x))
      \o EmitL("chfail", <<p, 0>>) \o Emit("esusp")

GenIf(t, p, x) ==
    IF t.c[3].n = "Empty"
    THEN Emit("mark0") \o Sub(t, 1, p, Marked(x)) \o Emit("unmark")
           \o Sub(t, 2, p, x)
    ELSE EmitL("mark", <<p, 0>>) \o Sub(t, 1, p, Marked(x)) \o Emit("unmark")
           \o Sub(t, 2, p, x) \o EmitL("goto", <<p, 1>>)
           \o EmitLab(<<p, 0>>) \o Sub(t, 3, p, x)
           \o EmitLab(<<p, 1>>)

GenNot(t, p, x) ==
    EmitL("mark", <<p, 0>>) \o Sub(t, 1, p, Marked(x)) \o Emit("unmark")
      \o Emit("efail") \o EmitLab(<<p, 0>>) \o Emit("pnull")

(* e1 \ e2: the limit is evaluated first.                                  *)
GenLimit(t, p, x) ==
    Sub(t, 2, p, x) \o Emit("limit") \o Sub(t, 1, p, Marked(x))
      \o Emit("lsusp")

GenSlist(t, p, x) ==
    EmitL("mark", <<p, 0>>) \o Sub(t, 1, p, Marked(x)) \o Emit("unmark")
      \o EmitLab(<<p, 0>>) \o Sub(t, 2, p, x)

(* The default clause of a list of clauses: casesp->deftree.               *)
RECURSIVE DefTree(_)
DefTree(t) == IF t.n = "Clist" THEN DefTree(t.c[1]) \o DefTree(t.c[2])
              ELSE IF t.n = "Default" THEN <<t.c[1]>> ELSE <<>>

GenCase(t, p, x) ==
    LET deftree == DefTree(t.c[2])
    IN  Emit("mark0") \o Sub(t, 1, p, Marked(x)) \o Emit("eret")
          \o Sub(t, 2, p, [x EXCEPT !.endlab = <<p, 0>>])
          \o (IF deftree # <<>>
              THEN Emit("pop") \o Traverse(deftree[1], Append(p, 3), x)
              ELSE Emit("efail"))
          \o EmitLab(<<p, 0>>)

GenCcls(t, p, x) ==
    EmitL("mark", <<p, 0>>) \o Emit("ccase") \o Sub(t, 1, p, Marked(x))
      \o Emit("eqv") \o Emit("unmark") \o Emit("pop") \o Sub(t, 2, p, x)
      \o EmitL("goto", x.endlab) \o EmitLab(<<p, 0>>)

GenClist(t, p, x) == Sub(t, 1, p, x) \o Sub(t, 2, p, x)

-----------------------------------------------------------------------------
(* Loops, break and next.                                                  *)

(* The do clause of every and suspend, then the two labels.                *)
EveryTail(t, p, x) ==
    (IF t.c[2].n = "Empty" THEN <<>>
     ELSE Emit("mark0") \o Sub(t, 2, p, EveryDo(x)) \o Emit("unmark"))
      \o EmitLab(<<p, 0>>) \o Emit("efail") \o EmitLab(<<p, 1>>)

GenEvery(t, p, x) ==
    LET y == Enter(x, Loop(<<p, 0>>, <<p, 1>>, TRUE))
    IN  Emit("mark0") \o Sub(t, 1, p, y) \o Emit("pop") \o EveryTail(t, p, y)

GenSuspend(t, p, x) ==
    LET y == Enter(x, Loop(<<p, 0>>, <<p, 1>>, TRUE))
    IN  Emit("mark0") \o Sub(t, 1, p, y) \o Emit("psusp") \o Emit("pop")
          \o EveryTail(t, p, y)

(* The end that repeat, while and until share.                             *)
LoopTail(next, head, brk) ==
    EmitLab(next) \o Emit("unmark") \o EmitL("goto", head) \o EmitLab(brk)

GenRepeat(t, p, x) ==
    LET y == Enter(x, Loop(<<p, 1>>, <<p, 2>>, FALSE))
    IN  EmitLab(<<p, 0>>) \o EmitL("mark", <<p, 0>>) \o Sub(t, 1, p, y)
          \o LoopTail(<<p, 1>>, <<p, 0>>, <<p, 2>>)

GenWhile(t, p, x) ==
    LET y == Enter(x, Loop(<<p, 1>>, <<p, 2>>, FALSE))
    IN  EmitLab(<<p, 0>>) \o Emit("mark0") \o Sub(t, 1, p, y)
          \o (IF t.c[2].n = "Empty" THEN <<>>
              ELSE Emit("unmark") \o EmitL("mark", <<p, 0>>)
                     \o Sub(t, 2, p, y))
          \o LoopTail(<<p, 1>>, <<p, 0>>, <<p, 2>>)

GenUntil(t, p, x) ==
    LET y == Enter(x, Loop(<<p, 2>>, <<p, 3>>, FALSE))
    IN  EmitLab(<<p, 0>>) \o EmitL("mark", <<p, 1>>) \o Sub(t, 1, p, y)
          \o Emit("unmark") \o Emit("efail")
          \o EmitLab(<<p, 1>>) \o EmitL("mark", <<p, 0>>) \o Sub(t, 2, p, y)
          \o LoopTail(<<p, 2>>, <<p, 0>>, <<p, 3>>)

(* k unmark instructions.                                                  *)
Unmarks(k) == [i \in 1..k |-> [op |-> "unmark"]]

(* break e leaves the frames of the loop, then e belongs to the loop       *)
(* outside.                                                                *)
GenBreak(t, p, x) ==
    Unmarks(x.loops[1].marks) \o Sub(t, 1, p, Leave(x))
      \o EmitL("goto", x.loops[1].brk)

\* Mutants: the frame of the control clause of every counts as another one;
\* the frames of the loop stay open.
NextUnmarksEvery(loop) == loop.marks - 1
NextUnmarksNone(loop)  == 0

NextUnmarks(loop) ==
    IF ~loop.every /\ loop.marks > 1 THEN loop.marks - 1 ELSE 0

GenNext(x) ==
    Unmarks(NextUnmarks(x.loops[1])) \o EmitL("goto", x.loops[1].next)

-----------------------------------------------------------------------------
(* Procedures.                                                             *)

GenRet(t, p, x) ==
    IF t.v = "fail" THEN Emit("pfail")
    ELSE EmitL("mark", <<p, 0>>) \o Sub(t, 1, p, Marked(x)) \o Emit("pret")
           \o EmitLab(<<p, 0>>) \o Emit("pfail")

Traverse(t, p, x) ==
    CASE t.n = "Alt"     -> GenAlt(t, p, x)
      [] t.n = "Bar"     -> GenBar(t, p, x)
      [] t.n = "Binop"   -> GenBinop(t, p, x)
      [] t.n = "Break"   -> GenBreak(t, p, x)
      [] t.n = "Case"    -> GenCase(t, p, x)
      [] t.n = "Ccls"    -> GenCcls(t, p, x)
      [] t.n = "Clist"   -> GenClist(t, p, x)
      [] t.n = "Default" -> <<>>
      [] t.n = "Conj"    -> GenConj(t, p, x)
      [] t.n = "Empty"   -> Emit("pnull")
      [] t.n = "Every"   -> GenEvery(t, p, x)
      [] t.n = "Id"      -> EmitN("var", t.v)
      [] t.n = "If"      -> GenIf(t, p, x)
      [] t.n = "Int"     -> EmitN("int", t.v)
      [] t.n = "Invok"   -> GenInvok(t, p, x)
      [] t.n = "Key"     -> EmitN("keywd", t.v)
      [] t.n = "Limit"   -> GenLimit(t, p, x)
      [] t.n = "Next"    -> GenNext(x)
      [] t.n = "Not"     -> GenNot(t, p, x)
      [] t.n = "Repeat"  -> GenRepeat(t, p, x)
      [] t.n = "Ret"     -> GenRet(t, p, x)
      [] t.n = "Scan"    -> GenScan(t, p, x)
      [] t.n = "Slist"   -> GenSlist(t, p, x)
      [] t.n = "Suspend" -> GenSuspend(t, p, x)
      [] t.n = "To"      -> GenTo(t, p, x)
      [] t.n = "ToBy"    -> GenToBy(t, p, x)
      [] t.n = "Unop"    -> GenUnop(t, p, x)
      [] t.n = "Until"   -> GenUntil(t, p, x)
      [] t.n = "While"   -> GenWhile(t, p, x)

(* The ucode of procedure number k with this body (N_Proc).                *)
Codegen(k, body) ==
    EmitN("proc", k) \o Emit("declend")
      \o Traverse(body, <<>>, [loops |-> <<ProcLoop>>, endlab |-> NoLabel])
      \o Emit("pfail") \o Emit("end")
=============================================================================
