------------------------------ MODULE Environments ------------------------------
(***************************************************************************)
(* What a call of a function promises to a script: every activation has    *)
(* variables of its own, a ByRef parameter stands for the very variable    *)
(* that was passed, statics and globals are shared, and what a function    *)
(* returns reaches the expression it was called from.  There are no        *)
(* backups, buffers or memory here.  FunctionCalls implements it.          *)
(***************************************************************************)
EXTENDS Naturals, Sequences
LOCAL INSTANCE Functions

CONSTANTS
  Funcs,       \* the script's functions
  NoFunc,      \* stands for the code of a thread outside of functions
  Params,      \* Params[f]: its parameters, [var, byref, optional, default]
  Locals,      \* Locals[f]: its other local variables
  Statics,     \* Statics[f]: its static variables
  Globals,     \* the script's global variables
  NoVar,       \* no variable
  Texts,       \* what may be assigned other than the empty text
  HostFuncs,   \* the functions a host calls
  Sets,        \* the assignments of the script's lines, [do, var, text]
  Lines,       \* its calls, [do, func, arg] and of their line [calls, yields, out]
  Results      \* what its functions return, [do, in, of]

VARIABLES
  env,   \* shared: the values of statics and globals;
         \* acts: the activations, innermost last
  said   \* what the script did last

ParamVars(f) == {Params[f][j].var : j \in DOMAIN Params[f]}
Own(f) == IF f = NoFunc THEN {} ELSE ParamVars(f) \cup Locals[f]
Shared == Globals \cup UNION {Statics[f] : f \in Funcs}
AllVars == Shared \cup UNION {Own(f) : f \in Funcs}
Visible(f) == Own(f) \cup Globals \cup (IF f = NoFunc THEN {} ELSE Statics[f])

Value(x) == [at |-> 0, of |-> NoVar, val |-> x]        \* an entry with a value
Alias(p) == [at |-> p[1], of |-> p[2], val |-> ""]     \* one that stands for another

\* A line with calls of functions: how many, the result of which of them its operator
\* yields, where that goes, and the results that are back.
NoLine == [calls |-> 0, yields |-> 0, out |-> NoVar, held |-> <<>>]

Activation(f, entries) == [func |-> f, env |-> entries, line |-> NoLine]

-----------------------------------------------------------------------------
(* What a step of the script makes of the environment e.                   *)

Top(e) == Len(e.acts)
Func(e) == e.acts[Top(e)].func

\* Which variable v is to the innermost activation: of which one, 0 for shared.
Place(e, v) ==
  IF v \in Shared THEN <<0, v>>
  ELSE LET entry == e.acts[Top(e)].env[v]
       IN IF entry.of = NoVar THEN <<Top(e), v>> ELSE <<entry.at, entry.of>>
Read(e, v) == LET p == Place(e, v)
              IN IF p[1] = 0 THEN e.shared[p[2]] ELSE e.acts[p[1]].env[p[2]].val
Write(e, v, x) ==
  LET p == Place(e, v)
  IN IF v = NoVar THEN e
     ELSE IF p[1] = 0 THEN [e EXCEPT !.shared[p[2]] = x]
     ELSE [e EXCEPT !.acts[p[1]].env[p[2]].val = x]

WithLine(e, line) == [e EXCEPT !.acts[Top(e)].line = line]
Entered(e, f, entries) == [e EXCEPT !.acts = Append(@, Activation(f, entries))]
Left(e, k) == [e EXCEPT !.acts = SubSeq(@, 1, k)]

\* No thread is in the middle of a line, so that the next may begin.
Between(e) == IF e.acts = <<>> THEN TRUE ELSE e.acts[Top(e)].line.held = <<>>

-----------------------------------------------------------------------------
Set(e, l) == Write(e, l.var, l.text)

\* The parameters' entries, for the actual parameters arg.
Entry(e, f, arg, j) ==
  LET p == Params[f][j]
  IN CASE j > Len(arg) -> Value(p.default)
       [] j <= Len(arg) /\ arg[j] \in Texts -> Value(arg[j])
       [] j <= Len(arg) /\ arg[j] \notin Texts /\ p.byref -> Alias(Place(e, arg[j]))
       [] OTHER -> Value(Read(e, arg[j]))
Entries(e, f, arg) ==
  [v \in Own(f) |-> IF v \in ParamVars(f)
                    THEN Entry(e, f, arg, CHOOSE j \in DOMAIN Params[f] : Params[f][j].var = v)
                    ELSE Value("")]

Line(e, l) == IF Between(e)
              THEN [calls |-> l.calls, yields |-> l.yields, out |-> l.out, held |-> <<>>]
              ELSE e.acts[Top(e)].line

\* A text for a ByRef parameter makes the line's result blank.
Call(e, l) ==
  IF \E j \in DOMAIN l.arg : Params[l.func][j].byref /\ l.arg[j] \in Texts
  THEN Write(WithLine(e, NoLine), Line(e, l).out, "")
  ELSE Entered(WithLine(e, Line(e, l)), l.func, Entries(e, l.func, l.arg))

\* The line assigns one of its results when the last of its calls is back.
Return(e, r) ==
  LET below == Left(e, Top(e) - 1)
      line == IF Top(e) = 1 THEN NoLine ELSE e.acts[Top(e) - 1].line
      results == Append(line.held, IF r.in = "var" THEN Read(e, r.of) ELSE r.of)
  IN IF line.calls = 0 THEN below
     ELSE IF Len(results) < line.calls THEN WithLine(below, [line EXCEPT !.held = results])
     ELSE Write(WithLine(below, NoLine), line.out, results[line.yields])

\* The innermost thread ends: no line waits for its outermost activation.
Exit(e) == LET bases == {i \in 1 .. Top(e) : i = 1 \/ e.acts[i - 1].line.calls = 0}
           IN Left(e, (CHOOSE i \in bases : \A j \in bases : j <= i) - 1)

HostCall(e, f, arg) ==
  Entered(e, f, [v \in Own(f) |-> IF v \in ParamVars(f)
                                  THEN Value(arg[CHOOSE j \in DOMAIN arg : Params[f][j].var = v])
                                  ELSE Value("")])

-----------------------------------------------------------------------------
Init == /\ env = [shared |-> [v \in Shared |-> ""], acts |-> <<>>]
        /\ said = [do |-> "none"]

\* The variables of the statement l are visible where it is executed.
Sees(vs) == vs \cap AllVars \subseteq Visible(Func(env))

InLine == env.acts # <<>>
Next ==
  \/ /\ InLine /\ Between(env) /\ said' \in Sets /\ Sees({said'.var})
     /\ env' = Set(env, said')
  \/ /\ InLine /\ said' \in Lines /\ Sees({said'.out} \cup Range(said'.arg))
     /\ env' = Call(env, said')
  \/ /\ InLine /\ Between(env) /\ Func(env) # NoFunc /\ said' \in Results /\ Sees({said'.of})
     /\ env' = Return(env, said')
  \/ InLine /\ Between(env) /\ said' = [do |-> "exit"] /\ env' = Exit(env)
  \/ Between(env) /\ said' = [do |-> "thread"] /\ env' = Entered(env, NoFunc, <<>>)
  \/ Between(env) /\ \E f \in HostFuncs : \E arg \in [DOMAIN Params[f] -> Texts] :
       said' = [do |-> "host", func |-> f, arg |-> arg] /\ env' = HostCall(env, f, arg)

Spec == Init /\ [][Next]_<<env, said>>
=============================================================================
