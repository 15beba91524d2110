---------------------------- MODULE ResultStream ----------------------------
(***************************************************************************)
(* What an expression of the language means, without a machine: evaluating *)
(* it yields a stream, a sequence of results with the writes done before   *)
(* each of them, and an end.  This is the reference that the code of       *)
(* module TreeCode, run by module ExprFrames, is compared with.            *)
(*                                                                         *)
(* An item of a stream is a result, a write, or a value that the procedure *)
(* suspends.  The end says why there is no further result: the expression  *)
(* failed, it left its loop (break, with the stream of the expression that *)
(* break carries; next), it left its procedure (return, fail), or the      *)
(* stream was cut because a loop went round Rounds times.                  *)
(***************************************************************************)
EXTENDS Integers, Sequences, SequencesExt, FiniteSetsExt

CONSTANT Rounds      \* rounds of a loop that a stream spells out

Item(kind, v) == [k |-> kind, v |-> v]
End(kind)     == [k |-> kind]

Ended(end)  == [items |-> <<>>, end |-> end]
Failure     == Ended(End("fail"))
Cut         == Ended(End("cut"))
Yield(s)    == [items |-> s, end |-> End("fail")]
Result(v)   == Yield(<<Item("result", v)>>)

\* s, and when s fails u.
Then(s, u) ==
    IF s.end.k = "fail" THEN [items |-> s.items \o u.items, end |-> u.end]
    ELSE s

\* The stream F(v) in place of every result v of s.
Each(s, F(_)) ==
    FoldRight(LAMBDA i, u : IF i.k = "result" THEN Then(F(i.v), u)
                            ELSE [u EXCEPT !.items = <<i>> \o @],
              s.items, Ended(s.end))

Results(s)  == {i \in DOMAIN s.items : s.items[i].k = "result"}
HasResult(s) == Results(s) # {}

\* At most n results, n > 0.
Take(s, n) ==
    IF Cardinality(Results(s)) < n THEN s
    ELSE LET last == CHOOSE i \in Results(s) :
                        Cardinality({j \in Results(s) : j <= i}) = n
         IN  Yield(SubSeq(s.items, 1, last))

First(s)   == Take(s, 1)
Silent(s)  == [s EXCEPT !.items =
                 SelectSeq(@, LAMBDA i : i.k # "result")]
\* For s with a result: the value of its first one.
Value(s)   == s.items[Min(Results(s))].v

\* Evaluate c for one result: yes if it has one, no if it fails.
Decide(c, yes, no) ==
    IF HasResult(First(c)) THEN Then(Silent(First(c)), yes) ELSE Then(c, no)

\* The stream of an expression that is evaluated once for its effects.
Once(s) == Silent(First(s))

\* next ends a round, break ends the loop.
CatchNext(s)  == IF s.end.k = "next" THEN [s EXCEPT !.end = End("fail")] ELSE s
CatchBreak(s) ==
    IF s.end.k = "break"
    THEN [items |-> s.items \o s.end.rest.items, end |-> s.end.rest.end]
    ELSE s

-----------------------------------------------------------------------------
(* The environment of an evaluation: &subject, the parameter of the        *)
(* procedure, the bodies of all procedures, and for every loop around      *)
(* the expression the subject at its start and whether the expression is   *)
(* in the control clause of every or suspend, where next is failure.       *)

InLoop(env, control) ==
    [env EXCEPT !.loops = <<[subject |-> env.subject, control |-> control]>>
                            \o @]
OutOfLoop(env) ==
    [env EXCEPT !.subject = env.loops[1].subject, !.loops = Tail(@)]
\* The environment of the body of a procedure with these arguments.
CallEnv(env, args) ==
    [env EXCEPT !.loops = <<>>, !.param = IF args = <<>> THEN 0 ELSE args[1]]

RECURSIVE Stream(_, _), BarOf(_, _), RoundsOf(_, _, _), DefaultOf(_),
          ClausesOf(_), ArgsOf(_, _)

\* |e: e again and again, until it gives no result.
BarOf(s, n) ==
    IF n = 0 THEN Cut
    ELSE IF HasResult(s) THEN Then(s, BarOf(s, n - 1)) ELSE s

\* while, until and repeat: one round and then the others.
RoundsOf(t, env, n) ==
    LET c    == First(Stream(t.c[1], env))
        ok   == IF t.n = "Until" THEN c.end.k = "fail" /\ ~HasResult(c)
                ELSE HasResult(c)
        over == IF t.n = "Until" THEN HasResult(c)
                ELSE t.n = "While" /\ c.end.k = "fail" /\ ~HasResult(c)
        body == IF t.n = "Repeat" \/ ~ok THEN Failure
                ELSE Once(Stream(t.c[2], env))
    IN  IF n = 0 THEN Cut
        ELSE IF over THEN Silent(c)
        ELSE Then(CatchNext(Then(Silent(c), body)), RoundsOf(t, env, n - 1))

\* every and suspend: the do clause for each result, Before(v) first.
EveryOf(t, env, Before(_)) ==
    CatchBreak(
      Each(Stream(t.c[1], InLoop(env, TRUE)),
           LAMBDA v : Then(Before(v),
                           CatchNext(Once(Stream(t.c[2],
                                                 InLoop(env, FALSE)))))))

ClausesOf(t) == IF t.n = "Clist" THEN ClausesOf(t.c[1]) \o ClausesOf(t.c[2])
                ELSE IF t.n = "Ccls" THEN <<t>> ELSE <<>>
DefaultOf(t) == IF t.n = "Clist" THEN DefaultOf(t.c[1]) \o DefaultOf(t.c[2])
                ELSE IF t.n = "Default" THEN <<t.c[1]>> ELSE <<>>

\* The first clause with a selector that has v among its results.
CaseOf(t, v, env) ==
    LET default == DefaultOf(t.c[2])
        Keep(s) == Each(s, LAMBDA w : IF w = v THEN Result(w) ELSE Failure)
    IN  FoldRight(LAMBDA cl, others :
                      Decide(Keep(Stream(cl.c[1], env)),
                             Stream(cl.c[2], env), others),
                  ClausesOf(t.c[2]),
                  IF default = <<>> THEN Failure ELSE Stream(default[1], env))

\* A call: what the body suspends are the results, and what it returns the
\* last one.
CallOf(body, env, args) ==
    LET s     == Silent(Stream(body, CallEnv(env, args)))
        items == [i \in DOMAIN s.items |->
                    IF s.items[i].k = "suspend"
                    THEN Item("result", s.items[i].v) ELSE s.items[i]]
    IN  CASE s.end.k = "return" ->
               Yield(Append(items, Item("result", s.end.v)))
          [] s.end.k = "pfail"  -> Yield(items)
          [] OTHER              -> [items |-> items, end |-> s.end]

\* v, v + by, ... as far as w, up or down.
UpTo(v, w, by) ==
    LET n == IF by > 0 THEN (w - v) \div by ELSE (v - w) \div (-by)
    IN  IF n < 0 THEN Failure
        ELSE Yield([i \in 1..(n + 1) |-> Item("result", v + (i - 1) * by)])

\* All tuples of results of ts, the last one varying fastest.
ArgsOf(ts, env) ==
    IF ts = <<>> THEN Result(<<>>)
    ELSE Each(Stream(Head(ts), env),
              LAMBDA v : Each(ArgsOf(Tail(ts), env),
                              LAMBDA args : Result(<<v>> \o args)))

\* v(args): the argument number v, from the end if v < 0.
Selected(v, args) ==
    IF v \in DOMAIN args THEN Result(args[v])
    ELSE IF -v \in DOMAIN args THEN Result(args[Len(args) + 1 + v])
    ELSE Failure

\* What is invoked is the function write, a procedure of the program, or a
\* number, which is -1 when there is none.
InvokOf(t, env) ==
    LET callee == Head(t.c)
        args   == ArgsOf(Tail(t.c), env)
    IN  CASE callee.n = "Id" /\ callee.v \in 0 .. Len(env.bodies) ->
               Each(args, LAMBDA a :
                 IF callee.v = 0
                 THEN Yield(<<Item("write", a[1]), Item("result", a[1])>>)
                 ELSE CallOf(env.bodies[callee.v], env, a))
          [] callee.n = "Empty" -> Each(args, LAMBDA a : Selected(-1, a))
          [] OTHER -> Each(Stream(callee, env), LAMBDA v :
                        Each(args, LAMBDA a : Selected(v, a)))

Stream(t, env) ==
    CASE t.n = "Int"   -> Result(t.v)
      [] t.n = "Empty" -> Result(0)
      [] t.n = "Id"    -> Result(env.param)
      [] t.n = "Key"   -> IF t.v = "fail" THEN Failure ELSE Result(env.subject)
      [] t.n = "Unop"  -> Stream(t.c[1], env)
      [] t.n = "Binop" ->
           Each(Stream(t.c[1], env), LAMBDA v :
             Each(Stream(t.c[2], env), LAMBDA w :
               IF t.v = "plus" THEN Result(v + w)
               ELSE IF t.v = "minus" THEN Result(v - w)
               ELSE IF v > w THEN Result(w) ELSE Failure))
      [] t.n = "To" ->
           Each(Stream(t.c[1], env), LAMBDA v :
             Each(Stream(t.c[2], env), LAMBDA w :
               UpTo(v, w, 1)))
      [] t.n = "ToBy" ->
           Each(Stream(t.c[1], env), LAMBDA v :
             Each(Stream(t.c[2], env), LAMBDA w :
               Each(Stream(t.c[3], env), LAMBDA by : UpTo(v, w, by))))
      [] t.n = "Invok" -> InvokOf(t, env)
      [] t.n = "Conj"  -> Each(Stream(t.c[1], env),
                               LAMBDA v : Stream(t.c[2], env))
      [] t.n = "Scan"  ->
           Each(Stream(t.c[1], env),
                LAMBDA v : Stream(t.c[2], [env EXCEPT !.subject = v]))
      [] t.n = "Alt"   -> Then(Stream(t.c[1], env), Stream(t.c[2], env))
      [] t.n = "Bar"   -> BarOf(Stream(t.c[1], env), Rounds)
      [] t.n = "If"    ->
           Decide(Stream(t.c[1], env), Stream(t.c[2], env),
                  IF t.c[3].n = "Empty" THEN Failure
                  ELSE Stream(t.c[3], env))
      [] t.n = "Not"   -> Decide(Stream(t.c[1], env), Failure, Result(0))
      [] t.n = "Limit" ->
           Each(Stream(t.c[2], env),
                LAMBDA v : IF v = 0 THEN Failure
                           ELSE Take(Stream(t.c[1], env), v))
      [] t.n = "Slist" ->
           Decide(Stream(t.c[1], env), Stream(t.c[2], env),
                  Stream(t.c[2], env))
      [] t.n = "Case"  ->
           LET c == First(Stream(t.c[1], env))
           IN  IF HasResult(c) THEN Then(Silent(c), CaseOf(t, Value(c), env))
               ELSE c
      [] t.n = "Every"   -> EveryOf(t, env, LAMBDA v : Failure)
      [] t.n = "Suspend" -> EveryOf(t, env,
                                    LAMBDA v : Yield(<<Item("suspend", v)>>))
      [] t.n \in {"Repeat", "While", "Until"} ->
           CatchBreak(RoundsOf(t, InLoop(env, FALSE), Rounds))
      [] t.n = "Break" ->
           Ended([k |-> "break", rest |-> Stream(t.c[1], OutOfLoop(env))])
      [] t.n = "Next"  ->
           IF env.loops[1].control THEN Failure ELSE Ended(End("next"))
      [] t.n = "Ret"   ->
           IF t.v = "fail" THEN Ended(End("pfail"))
           ELSE LET c == First(Stream(t.c[1], env))
                IN  IF HasResult(c)
                    THEN Then(Silent(c), Ended([k |-> "return",
                                                v |-> Value(c)]))
                    ELSE Then(c, Ended(End("pfail")))

\* What the program writes: main is called once, and Complete says that
\* nothing was cut.
Run(bodies, main) ==
    First(CallOf(bodies[main], [subject |-> 0, param |-> 0, loops |-> <<>>,
                                bodies |-> bodies], <<>>))
Writes(s)   == LET w == SelectSeq(s.items, LAMBDA i : i.k = "write")
               IN  [i \in DOMAIN w |-> w[i].v]
Complete(s) == s.end.k = "fail"
=============================================================================
