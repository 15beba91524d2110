----------------------------- MODULE Evaluation -----------------------------
(***************************************************************************)
(* A Unicon program on its way through the system: the translator makes    *)
(* ucode of its procedures (TreeCode), the linker makes icode of it        *)
(* (LinkCode), the interpreter runs it (ExprFrames), and what it writes is *)
(* compared with what the program means (ResultStream).                    *)
(***************************************************************************)
EXTENDS ExprFrames

CONSTANTS
    Programs,        \* programs: sequences of procedure bodies
    Rounds,          \* rounds of a loop that the reference spells out
    MaxStack         \* more cells than any of the programs needs

VARIABLES
    expected,        \* what the program should write
    complete         \* whether expected is all of it

vars == <<linkVars, frameVars, expected, complete>>

T == INSTANCE TreeCode
S == INSTANCE ResultStream

UcodeOf(program) ==
    T!FlattenSeq([k \in DOMAIN program |-> T!Codegen(k, program[k])])

Init ==
    \E program \in Programs :
        /\ LinkInit(UcodeOf(program))
        /\ FramesInit
        /\ LET s == S!Run(program, Main)
           IN  /\ expected = S!Writes(s)
               /\ complete = S!Complete(s)

Link == LinkNext /\ UNCHANGED <<frameVars, expected, complete>>
Run  == Gencoded /\ FramesNext /\ UNCHANGED <<linkVars, expected, complete>>

Next == Link \/ Run

Spec == Init /\ [][Next]_vars /\ WF_vars(Next)

-----------------------------------------------------------------------------
\* The first n elements of s.
Upto(s, n) == SubSeq(s, 1, IF n < Len(s) THEN n ELSE Len(s))

\* At every moment the program has written a beginning of what it should
\* write (as far as the reference goes), and when it quits all of it.  Any
\* slip of a control structure in traverse(), of a label in lcode.c or of a
\* frame in interp() shows as a write too many, too few or out of order.
WritesRight ==
    /\ LET n == Len(expected)
       IN  Upto(out, n) = Upto(expected, Len(out))
    /\ complete => Len(out) <= Len(expected)
    /\ complete /\ at = "quit" =>
         \/ out = expected
         \/ Len(out) = MaxWrites

\* A program whose evaluation is finite comes to Op_Quit.
Finishes == <>(at = "quit" \/ ~complete)

-----------------------------------------------------------------------------
(* The stacks.                                                             *)

\* The frames of suspended C generators, newest first, that failure would
\* come to from the generator frame g, the expression frame e and the
\* procedure frame p.
RECURSIVE CFrames(_, _, _)
CFrames(g, e, p) ==
    IF g # 0
    THEN LET gf == stack[g]
         IN  (IF gf.type = "C" THEN <<g>> ELSE <<>>)
               \o CFrames(gf.gfp, gf.efp, IF gf.type = "P" THEN gf.pfp ELSE p)
    ELSE IF e # 0 THEN CFrames(stack[e].gfp, stack[e].efp, p)
    ELSE IF p # 0 THEN CFrames(stack[p].gfp, stack[p].efp, stack[p].pfp)
    ELSE <<>>

\* The C stack and the interpreter stack agree: the frames that failure can
\* come to are those of the C generators that are suspended, in the same
\* order, each above the arguments of its own generator and none in
\* between; and the level that a frame noted when it was made is the number
\* of generators outside it.  interp() relies on it when it returns
\* A_Resume or an unwinding signal to whoever called it.
GeneratorsMatch ==
    at = "run" =>
        LET frames == CFrames(gfp, efp, pfp)
            n      == Len(frames)
        IN  /\ n = ilevel - 1
            /\ \A i \in 1..n :
                 LET cargp == cstack[ilevel - i].cargp
                 IN  /\ cargp < frames[i]
                     /\ i < n => frames[i + 1] < cargp
            /\ efp # 0 => stack[efp].ilevel =
                 Len(CFrames(stack[efp].gfp, stack[efp].efp, pfp)) + 1
            /\ pfp # 0 => stack[pfp].ilevel =
                 Len(CFrames(stack[pfp].gfp, stack[pfp].efp, stack[pfp].pfp))
                   + 1

\* The markers are what their pointers say, the innermost ones nest, a
\* failure always finds a frame, the region a suspension copies begins
\* in the stack and not at the address 0 of a missing frame, and no variable
\* outlives the cell it refers to, however results move and frames are cut.
FramesSound ==
    /\ gfp # 0 => /\ gfp \in 1..rsp /\ stack[gfp].k = "gf"
                  /\ at \in {"run", "efail"} => gfp > efp
    /\ efp # 0 => efp \in (pfp + 1)..rsp /\ stack[efp].k = "ef"
    /\ pfp # 0 => pfp <= rsp /\ stack[pfp].k = "pf" /\ argp < pfp
    /\ at = "efail" /\ gfp = 0 => efp # 0
    /\ \A i \in 1..rsp : stack[i].k = "var" =>
         stack[i].loc <= rsp /\ stack[stack[i].loc].k = "val"
    /\ Gencoded /\ at = "run" =>
         /\ Fetch("esusp") \/ Fetch("lsusp") =>
              FirstWord(stack[efp].gfp, stack[efp].efp) \in 2..efp
         /\ Fetch("toby") \/ Fetch("bscan") \/ Fetch("escan") =>
              FirstWord(gfp, efp) \in 2..rsp

\* A loop leaves nothing behind on the stack, however often it goes round:
\* the programs that never finish stay below MaxStack too.
NoLeak == rsp <= MaxStack
=============================================================================
