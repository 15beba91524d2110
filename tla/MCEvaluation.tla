---------------------------- MODULE MCEvaluation ----------------------------
(* Programs for TLC: every way to put a few leaves into two nested control *)
(* structures, and calls of a procedure p in one of them.                  *)
EXTENDS Evaluation

N(kind, children) == T!Tree(kind, children)
Lit(k)   == T!Leaf("Int", k)
Name(k)  == T!Leaf("Id", k)
W(e)     == N("Invok", <<Name(0), e>>)
Call     == N("Invok", <<Name(2)>>)
Fails    == T!Leaf("Key", "fail")
OneTwo   == N("To", <<Lit(1), Lit(2)>>)
Subject  == [n |-> "Unop", c |-> <<T!Leaf("Key", "subject")>>, v |-> "value"]
Plus(a, b)  == [n |-> "Binop", c |-> <<a, b>>, v |-> "plus"]
Minus(a, b) == [n |-> "Binop", c |-> <<a, b>>, v |-> "minus"]
ReturnStat(e) == [n |-> "Ret", c |-> <<e>>, v |-> "return"]
FailStat == [n |-> "Ret", c |-> <<T!Empty>>, v |-> "fail"]
Clauses(sel, e, default) ==
    N("Clist", <<N("Ccls", <<sel, e>>), N("Default", <<default>>)>>)

Leaves == {Fails, OneTwo, W(Subject),
           N("Break", <<W(Lit(5))>>), N("Next", <<>>)}

(* A structure with h in one place and writes in the others.               *)
Around(h) ==
    { N("Alt", <<h, W(Lit(3))>>), N("Alt", <<W(Lit(3)), h>>),
      N("Bar", <<h>>), N("Limit", <<N("Bar", <<h>>), Lit(3)>>),
      N("Conj", <<h, W(Lit(3))>>), N("Conj", <<OneTwo, h>>),
      N("If", <<h, W(Lit(3)), W(Lit(4))>>), N("If", <<h, W(Lit(3)), T!Empty>>),
      N("If", <<Fails, Lit(1), h>>),
      N("Not", <<h>>),
      N("Limit", <<h, Lit(2)>>),
      N("Limit", <<N("Alt", <<h, W(Lit(3))>>), OneTwo>>),
      N("Limit", <<W(OneTwo), h>>),
      N("Every", <<h, T!Empty>>), N("Every", <<h, W(Lit(4))>>),
      N("Every", <<OneTwo, h>>),
      N("While", <<h, T!Empty>>), N("While", <<h, W(Lit(4))>>),
      N("While", <<W(Lit(4)), h>>),
      N("Until", <<h, W(Lit(4))>>), N("Until", <<Fails, h>>),
      N("Repeat", <<h>>),
      N("Slist", <<h, W(Lit(4))>>), N("Slist", <<W(Lit(4)), h>>),
      N("Scan", <<Lit(7), h>>), N("Scan", <<h, W(Subject)>>),
      N("Case", <<h, Clauses(Lit(1), W(Lit(3)), W(Lit(4)))>>),
      N("Case", <<Lit(1), Clauses(h, W(Lit(3)), W(Lit(4)))>>),
      N("Case", <<Lit(1), N("Ccls", <<Lit(1), h>>)>>),
      N("Case", <<Lit(2), Clauses(Lit(1), W(Lit(3)), h)>>),
      Plus(h, OneTwo), N("To", <<h, Lit(2)>>), W(h) }

(* Bodies of p around h.                                                   *)
Bodies(h) ==
    { N("Suspend", <<h, T!Empty>>), N("Suspend", <<h, W(Lit(4))>>),
      N("Suspend", <<OneTwo, h>>),
      N("Scan", <<Lit(8), N("Suspend", <<h, T!Empty>>)>>),
      N("Scan", <<Lit(8), ReturnStat(h)>>),
      N("Every", <<h, FailStat>>), ReturnStat(h),
      N("Every", <<N("Suspend", <<OneTwo, T!Empty>>), h>>) }

Statement(e) == N("Slist", <<e, T!Empty>>)
\* every write(e); write(&subject)
MainOf(e) ==
    N("Slist", <<N("Every", <<W(e), T!Empty>>), Statement(W(Subject))>>)

OneProc ==
    {<<MainOf(e)>> :
        e \in UNION {Around(f) : f \in UNION {Around(l) : l \in Leaves}}}
ProcLeaves == {Fails, OneTwo, W(Subject)}
TwoProcs ==
    {<<MainOf(e), Statement(b)>> :
        e \in Around(Call), b \in UNION {Bodies(f) : f \in ProcLeaves}}

(* Calls with too many arguments and too few, and procedures that suspend  *)
(* or return their parameter, call themselves, or select an argument.      *)
X          == Name(Param)
P(args)    == N("Invok", <<Name(2)>> \o args)
XGreater(k) == [n |-> "Binop", c |-> <<X, Lit(k)>>, v |-> "numgt"]
Results    == {X, N("Alt", <<X, OneTwo>>), N("ToBy", <<X, Lit(4), Lit(2)>>),
               N("ToBy", <<Lit(2), X, Minus(Lit(0), Lit(1))>>),
               N("Limit", <<N("Alt", <<X, P(<<Lit(0)>>)>>), X>>),
               N("Scan", <<X, N("Alt", <<X, Subject>>)>>),
               N("Case", <<X, Clauses(N("Alt", <<Lit(1), X>>), X, Lit(5))>>),
               N("Invok", <<T!Empty, OneTwo, X>>),
               N("Invok", <<OneTwo, X, Lit(3)>>),
               N("Invok", <<X, Lit(3), N("Alt", <<X, Lit(4)>>)>>)}
Recursion == N("Alt", <<P(<<Minus(X, Lit(1))>>), X>>)
CallsOfP  == {P(<<>>), P(<<OneTwo>>), P(<<Lit(2), W(Lit(3))>>),
              P(<<P(<<Lit(1)>>)>>), N("Limit", <<P(<<OneTwo>>), Lit(3)>>),
              N("Conj", <<P(<<Lit(2)>>), P(<<Lit(1)>>)>>),
              N("Invok", <<P(<<Lit(1)>>), Lit(3), Lit(4)>>)}
ParamBodies ==
    UNION {{N("Suspend", <<r, T!Empty>>), ReturnStat(r)} : r \in Results}
    \cup {N("If", <<XGreater(0), s, T!Empty>>) :
             s \in {N("Suspend", <<Recursion, T!Empty>>),
                    N("Suspend", <<Recursion, W(X)>>), ReturnStat(Recursion)}}
Parameters ==
    {<<MainOf(e), Statement(b)>> : e \in CallsOfP, b \in ParamBodies}

-----------------------------------------------------------------------------
(* Values are numbers in ExprFrames.  Programs are left out in which null, *)
(* or a string (every value of &subject is one), gets to an operation that *)
(* tells it from a number: arithmetic stops with a run-time error there,   *)
(* a scan cannot take null, and the string "1" does not select the clause  *)
(* of 1.                                                                   *)

\* What the results of t may be besides numbers, if x.par is what the
\* parameter may be and x.call what the results of procedure 2 may be.
RECURSIVE Kinds(_, _)
Kinds(t, x) ==
    LET K(i) == Kinds(t.c[i], x)
    IN  CASE t.n \in {"Empty", "Not"} -> {"null"}
          [] t.n = "Unop" -> {"string"}
          [] t.n = "Id"   -> x.par
          [] t.n = "Invok" -> IF t.c[1] = Name(2) THEN x.call
                              ELSE UNION {K(i) : i \in 2 .. Len(t.c)}
          [] t.n \in {"Bar", "Limit", "Default"} -> K(1)
          [] t.n \in {"Conj", "Slist", "Scan", "Ccls", "Case"} -> K(2)
          [] t.n \in {"Alt", "Clist"} -> K(1) \cup K(2)
          [] t.n = "If" -> K(2) \cup (IF t.c[3] = T!Empty THEN {} ELSE K(3))
          [] OTHER -> {}

RECURSIVE WellTyped(_, _)
WellTyped(t, x) ==
    LET K(i) == Kinds(t.c[i], x)
    IN  /\ \A i \in DOMAIN t.c : WellTyped(t.c[i], x)
        /\ t.n \in {"Binop", "To", "ToBy"} => \A i \in DOMAIN t.c : K(i) = {}
        /\ t.n = "Limit" => K(2) = {}
        /\ t.n = "Invok" /\ t.c[1].n \notin {"Id", "Empty"} => K(1) = {}
        /\ t.n = "Scan" => "null" \notin K(1)
        /\ t.n \in {"Case", "Ccls"} => "string" \notin K(1)

\* What procedure 2 suspends and returns, and what it is called with.
RECURSIVE Returned(_, _), Passed(_, _)
Returned(t, x) ==
    UNION ({Returned(t.c[i], x) : i \in DOMAIN t.c}
             \cup IF t.n \in {"Suspend", "Ret"} THEN {Kinds(t.c[1], x)} ELSE {})
Passed(t, x) ==
    UNION ({Passed(t.c[i], x) : i \in DOMAIN t.c}
             \cup IF t.n # "Invok" \/ t.c[1] # Name(2) THEN {}
                  ELSE IF Len(t.c) = 1 THEN {{"null"}}
                  ELSE {Kinds(t.c[2], x)})

Typed(p) ==
    LET After(x)  == [par  |-> UNION {Passed(p[i], x) : i \in DOMAIN p},
                      call |-> UNION {Returned(p[i], x) : i \in DOMAIN p}]
        none      == [par |-> {}, call |-> {}]
        x         == After(After(After(After(none))))
    IN  \A i \in DOMAIN p : WellTyped(p[i], x)

MCPrograms == {p \in OneProc \cup TwoProcs \cup Parameters : Typed(p)}

\* traverse() keeps its promise to the linker.
ASSUME UcodeWellFormed == \A p \in MCPrograms : WellFormed(UcodeOf(p))
=============================================================================
