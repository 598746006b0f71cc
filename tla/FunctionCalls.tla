----------------------------- MODULE FunctionCalls ------------------------------
(***************************************************************************)
(* Calls of the script's own functions and the memory of variables:        *)
(* ExpandExpression's call of a function (script_expression.cpp), the      *)
(* methods of Var that assign, free, back up and restore (var.cpp, var.h), *)
(* Func::Call (script.h), ExpandArgs' private deref buffer and callFunc    *)
(* (exports.cpp).                                                          *)
(*                                                                         *)
(* A function's variables exist once.  While an instance of it runs, a new *)
(* one, called recursively or by a thread that interrupts, backs them up   *)
(* and restores them when it ends.  Between two lines another thread may   *)
(* interrupt; within a line only the functions it calls run.               *)
(***************************************************************************)
EXTENDS Naturals, Sequences, FiniteSets

CONSTANTS
  Funcs, NoFunc, Params, Locals, Statics, Globals, NoVar, Texts, HostFuncs,
  Sets, Lines, Results,   \* as in Environments
  Size,       \* Size[x]: 1, fits in SimpleHeap's blocks for variables, or 2
  LostResults,\* whether the lines of which LosesResult is true are considered
  MaxFrames,  \* bound on the activations at once
  MaxThreads, \* bound on the threads among them
  MaxLines    \* bound on the lines executed

VARIABLES
  mem,        \* the variables, sDerefBuf and what has been allocated
  frames,     \* the activations of functions and threads, innermost last
  said,       \* what the script did last: no step depends on it
  lines       \* how many lines have been executed

vars == <<mem, frames, said, lines>>

ParamVars(f) == {Params[f][j].var : j \in DOMAIN Params[f]}
Own(f) == IF f = NoFunc THEN {} ELSE ParamVars(f) \cup Locals[f]
StaticVars == UNION {Statics[f] : f \in Funcs}
Vars == Globals \cup StaticVars \cup UNION {Own(f) : f \in Funcs}
Visible(f) == Own(f) \cup Globals \cup (IF f = NoFunc THEN {} ELSE Statics[f])

\* A function's variables are its own, and its parameters have different names.
Param == [var : Vars, byref : BOOLEAN, optional : BOOLEAN, default : Texts \cup {""}]
ASSUME CallsAssumption ==
  /\ NoFunc \notin Funcs /\ NoVar \notin Vars /\ IsFiniteSet(Vars)
  /\ "" \notin Texts /\ Vars \cap (Texts \cup {""}) = {}
  /\ Size \in [Texts -> 1 .. 2]
  /\ \A f \in Funcs :
       /\ Params[f] \in Seq(Param)
       /\ \A j, k \in DOMAIN Params[f] : Params[f][j].var = Params[f][k].var => j = k
       /\ Own(f) \cap (Globals \cup StaticVars) = {}
       /\ \A e \in Funcs \ {f} : Own(f) \cap Own(e) = {}
  /\ HostFuncs \subseteq Funcs
  /\ Sets \subseteq [do : {"set"}, var : Vars, text : Texts \cup {""}]
  /\ \A l \in Lines :
       /\ l.do = "call" /\ l.func \in Funcs /\ l.out \in Vars \cup {NoVar}
       /\ l.arg \in Seq(Vars \cup Texts \cup {""}) /\ Len(l.arg) <= Len(Params[l.func])
       /\ l.calls \in 1 .. 2 /\ l.yields \in 1 .. l.calls
  /\ \A r \in Results :
       /\ r.do = "return"
       /\ \/ r.in = "var" /\ r.of \in Vars
          \/ r.in = "text" /\ r.of \in Texts \cup {""}
          \/ r.in = "buf" /\ r.of \in Texts
  /\ MaxFrames \in Nat /\ MaxThreads \in Nat /\ MaxLines \in Nat

\* A Var: mAliasFor, mHowAllocated, the class of mCapacity and mContents.
Var == [alias : Vars \cup {NoVar}, how : {"none", "simple", "malloc"},
        cap : 0 .. 2, val : Texts \cup {""}]
NewVar == [alias |-> NoVar, how |-> "none", cap |-> 0, val |-> ""]

\* Does it hold a malloc'd block?
Owned(r) == r.how = "malloc" /\ r.cap > 0

-----------------------------------------------------------------------------
(* Var's methods.                                                          *)

Resolve(m, v) == IF m.var[v].alias = NoVar THEN v ELSE m.var[v].alias
Contents(m, v) == m.var[Resolve(m, v)].val

\* The variables vs become blank; the blocks of those in gone are freed.
Blanked(m, vs, gone) ==
  [m EXCEPT !.var = [v \in Vars |->
       IF v \in gone THEN [@[v] EXCEPT !.val = "", !.cap = 0]
       ELSE IF v \in vs THEN [@[v] EXCEPT !.val = ""] ELSE @[v]],
     !.allocs = @ - Cardinality(gone)]

\* Free of v, which is no alias: a small block is kept if it may be used again.
Free(m, v, always) ==
  Blanked(m, {v}, IF Owned(m.var[v]) /\ (always \/ m.var[v].cap = 2) THEN {v} ELSE {})

Assign(m, w, x) ==
  LET v == Resolve(m, w)
      r == m.var[v]
      n == Size[x]
  IN CASE x = "" -> Free(m, v, FALSE)
       [] x # "" /\ n <= r.cap -> [m EXCEPT !.var[v].val = x]
       [] x # "" /\ n > r.cap /\ n = 1 /\ r.how # "malloc" ->
            [m EXCEPT !.var[v] = [r EXCEPT !.how = "simple", !.cap = 1, !.val = x],
                      !.simple = @ + 1]
       [] OTHER ->
            [m EXCEPT !.var[v] = [r EXCEPT !.how = "malloc", !.cap = n, !.val = x],
                      !.allocs = @ + 1 - (IF Owned(r) THEN 1 ELSE 0)]

\* The variable takes the deref buffer, which holds x, as its memory.
AcceptNewMem(m, w, x) ==
  LET v == Resolve(m, w)
  IN [Free(m, v, TRUE) EXCEPT !.var[v].how = "malloc", !.var[v].cap = 2,
                              !.var[v].val = x, !.buf = FALSE]

\* The parameter p stands for the variable v, or for what v stands for.
UpdateAlias(m, p, v) ==
  IF Resolve(m, v) = p THEN m ELSE [m EXCEPT !.var[p].alias = Resolve(m, v)]

ConvertToNonAlias(m, p) == [m EXCEPT !.var[p].alias = NoVar]

-----------------------------------------------------------------------------
(* Backup and restore.                                                     *)

None == <<>>    \* no backup

KeepsSimple(m, f) ==                                                 \* mutant
  [m EXCEPT !.var = [v \in Vars |-> IF v \in Own(f) THEN [@[v] EXCEPT !.how = "none", !.cap = 0, !.val = ""] ELSE @[v]],
            !.allocs = @ + 1]
RestoresUnfreed(m, f, bkp) ==                                        \* mutant
  IF bkp = None THEN Blanked(m, Own(f), {})
  ELSE [m EXCEPT !.var = [v \in Vars |-> IF v \in DOMAIN bkp THEN bkp[v] ELSE @[v]],
                 !.allocs = @ - 1]

\* The next layer is never given a block of SimpleHeap, which cannot be freed.
BackupFunctionVars(m, f) ==
  [m EXCEPT !.var = [v \in Vars |->
       IF v \in Own(f) THEN [@[v] EXCEPT !.how = "malloc", !.cap = 0, !.val = ""] ELSE @[v]],
     !.allocs = @ + (IF Own(f) = {} THEN 0 ELSE 1)]

\* Statics keep their values, and aliases are left alone: what they stand for belongs
\* to another function.
FreeAndRestore(m, f, bkp) ==
  LET mine == {v \in Own(f) : m.var[v].alias = NoVar}
      m1 == Blanked(m, mine, {v \in mine : Owned(m.var[v])})
  IN IF bkp = None THEN m1
     ELSE [m1 EXCEPT !.var = [v \in Vars |-> IF v \in DOMAIN bkp THEN bkp[v] ELSE @[v]],
                     !.allocs = @ - 1]

-----------------------------------------------------------------------------
(* The deref buffer: a line keeps the one it finds for itself, its calls   *)
(* make new ones, and it puts its own back when it is done.                *)

NoLine == [calls |-> 0, yields |-> 0, out |-> NoVar, held |-> <<>>]

FreesTheirs(m) == [m EXCEPT !.buf = TRUE, !.allocs = @ - 1]           \* mutant
WithBuf(m) == [m EXCEPT !.buf = TRUE, !.allocs = @ + (IF m.buf THEN 0 ELSE 1)]
TakeBuf(m) == [WithBuf(m) EXCEPT !.buf = FALSE]
PutBack(m) == [m EXCEPT !.buf = TRUE, !.allocs = @ - (IF m.buf THEN 1 ELSE 0)]

-----------------------------------------------------------------------------
(* The call of a function.                                                 *)

Instances(f) == Cardinality({i \in DOMAIN frames : frames[i].func = f})
Frame(f, bkp) == [func |-> f, bkp |-> bkp, line |-> NoLine]
Top == Len(frames)
CurrentFunc == frames[Top].func
Between == IF frames = <<>> THEN TRUE ELSE frames[Top].line.held = <<>>

\* An actual parameter: a variable or a text.
IsVar(a) == a \notin Texts \cup {""}
Reads(m, a) == IF IsVar(a) THEN Contents(m, a) ELSE a

NotConverted(m, f, arg) == arg                                       \* mutant

\* By-value variables are read before the backup clears them.
Converted(m, f, arg) ==
  [j \in DOMAIN arg |-> IF Params[f][j].byref THEN arg[j] ELSE Reads(m, arg[j])]

BindOne(m, p, j, arg) ==
  CASE j > Len(arg) -> Assign(IF p.byref THEN ConvertToNonAlias(m, p.var) ELSE m,
                              p.var, p.default)
    [] j <= Len(arg) /\ p.byref -> UpdateAlias(m, p.var, arg[j])
    [] OTHER -> Assign(m, p.var, Reads(m, arg[j]))

\* From the last parameter to the first, as far as the first from on.
Bind(m, f, arg, from) ==
  LET ps == Params[f]
      after[j \in from .. Len(ps) + 1] ==
        IF j > Len(ps) THEN m ELSE BindOne(after[j + 1], ps[j], j, arg)
  IN after[from]

\* Known to the help file: a function's own variable passed to it ByRef.
PassesItsOwn(f, arg) ==
  \E j \in DOMAIN arg : Params[f][j].byref /\ IsVar(arg[j]) /\ Resolve(mem, arg[j]) \in Own(f)

IsNonStaticLocal(f, v) == v \in Own(f)

\* The result would go through a ByRef parameter of another function to a variable
\* of a suspended activation of f, and be lost when f's variables are restored.
LosesResult(f, out) ==
  /\ Instances(f) > 0 /\ CurrentFunc # f
  /\ out # NoVar /\ Resolve(mem, out) \in Own(f)

-----------------------------------------------------------------------------
(* Lines.                                                                  *)

Init == /\ mem = [var |-> [v \in Vars |-> NewVar], buf |-> FALSE, allocs |-> 0, simple |-> 0]
        /\ frames = <<>>
        /\ said = [do |-> "none"]
        /\ lines = 0

Execute == lines < MaxLines /\ lines' = lines + 1

\* An assignment without a call.
Set == /\ frames # <<>> /\ Between /\ Execute
       /\ \E l \in Sets : /\ l.var \in Visible(CurrentFunc)
                         /\ said' = l
                         /\ mem' = Assign(WithBuf(mem), l.var, l.text)
       /\ UNCHANGED frames

\* The variables of the line are those of the function it is in, and what is not
\* passed is optional.
CanRead(l) ==
  /\ l.out \in Visible(CurrentFunc) \cup {NoVar}
  /\ \A j \in DOMAIN l.arg : IsVar(l.arg[j]) => l.arg[j] \in Visible(CurrentFunc)
  /\ \A j \in Len(l.arg) + 1 .. Len(Params[l.func]) : Params[l.func][j].optional

\* A ByRef parameter got something else than a variable: the expression ends.
RefusedCall(m, f, arg, bkp, out) ==
  LET bad == {j \in DOMAIN arg : Params[f][j].byref /\ ~IsVar(arg[j])}
      last == CHOOSE j \in bad : \A k \in bad : k <= j
      m1 == PutBack(FreeAndRestore(Bind(m, f, arg, last + 1), f, bkp))
  IN /\ bad # {}
     /\ mem' = IF out = NoVar THEN m1 ELSE Assign(m1, out, "")
     /\ frames' = [frames EXCEPT ![Top].line = NoLine]

Bound(m, f, arg, bkp, line) ==
  /\ \A j \in DOMAIN arg : Params[f][j].byref => IsVar(arg[j])
  /\ Top < MaxFrames
  /\ mem' = Bind(m, f, arg, 1)
  /\ frames' = Append([frames EXCEPT ![Top].line = line], Frame(f, bkp))

Call ==
  /\ frames # <<>>
  /\ \E l \in Lines :
       LET f == l.func
           line == IF Between THEN [calls |-> l.calls, yields |-> l.yields, out |-> l.out, held |-> <<>>]
                   ELSE frames[Top].line
           m0 == IF Between THEN TakeBuf(mem) ELSE mem
           live == Instances(f) > 0
           bkp == IF live THEN [v \in Own(f) |-> mem.var[v]] ELSE None
           m1 == IF live THEN BackupFunctionVars(m0, f) ELSE m0
           arg == IF live THEN Converted(m0, f, l.arg) ELSE l.arg
       IN /\ CanRead(l)
          /\ said' = l
          /\ IF Between THEN Execute
             ELSE /\ <<l.calls, l.yields, l.out>> = <<line.calls, line.yields, line.out>>
                  /\ UNCHANGED lines
          /\ ~PassesItsOwn(f, l.arg)
          /\ LostResults \/ ~LosesResult(f, l.out)
          /\ RefusedCall(m1, f, arg, bkp, line.out) \/ Bound(m1, f, arg, bkp, line)

-----------------------------------------------------------------------------
(* Return and what the caller does with the result, which is a literal,    *)
(* the contents of a variable or, when it is computed, in the deref buffer.*)

ResultText(m, r) == IF r.in = "var" THEN Contents(m, r.of) ELSE r.of

\* Is the variable the result goes to among those about to be restored?
AboutToBeRestored(f, bkp, caller, out) ==
  bkp # None /\ caller = f /\ IsNonStaticLocal(f, out)

\* The last operation is the call itself: its result is assigned while the
\* function's variables still exist.
Shortcut(m, f, bkp, out, r) ==
  FreeAndRestore(CASE out = NoVar -> m
                   [] out # NoVar /\ r.in = "buf" /\ Size[r.of] = 2 -> AcceptNewMem(m, out, r.of)
                   [] OTHER -> Assign(m, out, ResultText(m, r)), f, bkp)

\* The result is copied before the function's variables are freed.
Persistent(m, f, bkp, r) == <<ResultText(m, r), FreeAndRestore(m, f, bkp)>>

EndLine(m, n) == /\ mem' = PutBack(m)
                 /\ frames' = [SubSeq(frames, 1, n) EXCEPT ![n].line = NoLine]

Deliver(m, n, f, bkp, r) ==
  LET line == frames[n].line
      kept == Persistent(m, f, bkp, r)
      results == Append(line.held, kept[1])
  IN IF line.calls = 1 /\ (line.out = NoVar
                           \/ ~AboutToBeRestored(f, bkp, frames[n].func, line.out))
     THEN EndLine(Shortcut(m, f, bkp, line.out, r), n)
     ELSE IF Len(results) < line.calls
     THEN /\ mem' = kept[2]
          /\ frames' = [SubSeq(frames, 1, n) EXCEPT ![n].line.held = results]
     ELSE EndLine(IF line.out = NoVar THEN kept[2]
                  ELSE Assign(kept[2], line.out, results[line.yields]), n)

Return ==
  /\ frames # <<>> /\ Between /\ CurrentFunc # NoFunc
  /\ \E r \in {r \in Results : r.in = "var" => r.of \in Visible(CurrentFunc)} :
    /\ said' = r
    /\ LET top == frames[Top]
           m == IF r.in = "buf" THEN WithBuf(mem) ELSE mem
       IN IF Top = 1 \/ frames[Top - 1].line.calls = 0
          THEN /\ mem' = FreeAndRestore(m, top.func, top.bkp)     \* callFunc
               /\ frames' = SubSeq(frames, 1, Top - 1)
          ELSE Deliver(m, Top - 1, top.func, top.bkp, r)
  /\ UNCHANGED lines

\* A thread's outermost activation is one that no line waits for.
Bases == {i \in 1 .. Top : i = 1 \/ frames[i - 1].line.calls = 0}

\* Exit, or an error: every call of the thread is abandoned, none is assigned.
\* A thread's own code ends so as well.
Unwound(k) ==
  LET back[i \in k .. Top + 1] ==       \* the memory when i and what is above are gone
        IF i > Top THEN mem
        ELSE LET m == IF frames[i].func = NoFunc THEN back[i + 1]
                      ELSE FreeAndRestore(back[i + 1], frames[i].func, frames[i].bkp)
             IN IF i = k THEN m ELSE PutBack(m)
  IN back[k]

Exit ==
  /\ frames # <<>> /\ Between
  /\ LET k == CHOOSE i \in Bases : \A j \in Bases : j <= i
     IN /\ mem' = Unwound(k)
        /\ frames' = SubSeq(frames, 1, k - 1)
  /\ said' = [do |-> "exit"]
  /\ UNCHANGED lines

-----------------------------------------------------------------------------
(* Other threads.                                                          *)

Interrupts == Between /\ Top < MaxFrames /\ Cardinality(Bases) < MaxThreads

Thread == /\ Interrupts
          /\ frames' = Append(frames, Frame(NoFunc, None))
          /\ said' = [do |-> "thread"]
          /\ UNCHANGED <<mem, lines>>

\* callFunc: the message of a host's ahkFunction, with one text per parameter.
CallFunc ==
  /\ Interrupts /\ Execute
  /\ \E f \in HostFuncs : \E arg \in [DOMAIN Params[f] -> Texts] :
       LET live == Instances(f) > 0
           given[j \in 0 .. Len(arg)] ==
             IF j = 0 THEN IF live THEN BackupFunctionVars(mem, f) ELSE mem
             ELSE Assign(given[j - 1], Params[f][j].var, arg[j])
       IN /\ said' = [do |-> "host", func |-> f, arg |-> arg]
          /\ mem' = given[Len(arg)]
          /\ frames' = Append(frames, Frame(f, IF live THEN [v \in Own(f) |-> mem.var[v]]
                                               ELSE None))

\* The timer between two lines: a buffer that has become large is given back.
DerefTimeout == /\ Between /\ mem.buf
                /\ mem' = [mem EXCEPT !.buf = FALSE, !.allocs = @ - 1]
                /\ UNCHANGED <<frames, said, lines>>

Next == Set \/ Call \/ Return \/ Exit \/ Thread \/ CallFunc \/ DerefTimeout

Spec == Init /\ [][Next]_vars

-----------------------------------------------------------------------------
(* Properties.                                                             *)

TypeOK ==
  /\ mem \in [var : [Vars -> Var], buf : BOOLEAN, allocs : Nat, simple : Nat]
  /\ lines \in 0 .. MaxLines
  /\ said.do \in {"none", "set", "call", "return", "exit", "thread", "host"}
  /\ Top <= MaxFrames
  /\ \A i \in 1 .. Top :
       /\ frames[i].func \in Funcs \cup {NoFunc}
       /\ frames[i].bkp = None \/ frames[i].bkp \in [Own(frames[i].func) -> Var]
       /\ frames[i].line.calls \in 0 .. 2
       /\ frames[i].line.yields \in 0 .. frames[i].line.calls
       /\ frames[i].line.out \in Visible(frames[i].func) \cup {NoVar}
       /\ Len(frames[i].line.held) <= 1

Owners ==
  Cardinality({v \in Vars : Owned(mem.var[v])})
  + Cardinality({p \in (1 .. Top) \X Vars :
                   /\ p[2] \in DOMAIN frames[p[1]].bkp
                   /\ Owned(frames[p[1]].bkp[p[2]])})
  + Cardinality({i \in 1 .. Top : frames[i].bkp # None})
  + Cardinality({i \in 1 .. Top : frames[i].line.calls > 0})
  + (IF mem.buf THEN 1 ELSE 0)

\* Every block of memory that has been allocated and not freed has exactly one owner:
\* a variable, a backup of one, a backup itself, a line or sDerefBuf.  No way out of a
\* call - a result, a refused parameter, Exit - leaks a block or frees it twice.
MemoryOwned == mem.allocs = Owners

\* SimpleHeap's memory is never given back.  However often functions call themselves
\* or interrupt each other, each variable takes at most one of its blocks.
SimpleHeapBounded == mem.simple <= Cardinality(Vars)

-----------------------------------------------------------------------------
(* What a script sees.                                                     *)

\* The activation whose variables are those of f for activation i, and whose
\* backup holds them when a later one of f runs.
InstanceFor(i, f) ==
  LET is == {j \in 1 .. i : frames[j].func = f}
  IN IF is = {} THEN 0 ELSE CHOOSE j \in is : \A k \in is : k <= j

VarOf(i, v) ==
  LET later == {j \in i + 1 .. Top : frames[j].func = frames[i].func}
  IN IF later = {} THEN mem.var[v]
     ELSE frames[CHOOSE j \in later : \A k \in later : j <= k].bkp[v]

OwnerOf(w) == IF \E f \in Funcs : w \in Own(f) THEN CHOOSE f \in Funcs : w \in Own(f) ELSE NoFunc

Env(i) ==
  [v \in Own(frames[i].func) |->
     LET r == VarOf(i, v)
     IN IF r.alias = NoVar THEN [at |-> 0, of |-> NoVar, val |-> r.val]
        ELSE [at |-> IF OwnerOf(r.alias) = NoFunc THEN 0 ELSE InstanceFor(i - 1, OwnerOf(r.alias)),
              of |-> r.alias, val |-> ""]]

Abstract == INSTANCE Environments WITH env <-
  [shared |-> [v \in Globals \cup StaticVars |-> mem.var[v].val],
   acts |-> [i \in 1 .. Top |->
              [func |-> frames[i].func, env |-> Env(i), line |-> frames[i].line]]]

\* Backing up, aliasing, freeing and restoring are invisible to a script: every call,
\* return, interruption and Exit does to the variables it sees what it would do if
\* each activation had variables of its own (Environments).
EachCallItsOwnVariables == Abstract!Spec
=============================================================================
