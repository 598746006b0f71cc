----------------------------- MODULE FlowOfControl -----------------------------
(***************************************************************************)
(* Flow of control: how the loader links the lines of a script             *)
(* (PreparseBlocks, PreparseIfElse) and how Line::ExecUntil runs them by    *)
(* recursion, one C frame for every IF, ELSE, loop, block, Gosub and        *)
(* function call that is under way (script.cpp).                           *)
(*                                                                         *)
(* A line is its kind.  What a condition, an item or a command yields is a *)
(* choice; "parse" stands for the loops over strings and files read line    *)
(* by line, "files" for those over folders and registry keys, which go on   *)
(* into subfolders, "group" for GroupActivate and "call" for a line with a   *)
(* function call.  The return of a frame to its callers has no effect       *)
(* anyone else sees before the next line runs: one step does all of it.     *)
(***************************************************************************)
EXTENDS Naturals, Sequences, SequencesExt

CONSTANTS
  Kinds,               \* the kinds of lines that are written
  MaxNesting,          \* blocks that may be open where another begins (1000)
  MaxLines,            \* bound: lines of the script
  MaxDepth,            \* bound: frames of ExecUntil on the stack
  MaxIterations,       \* bound: iterations of a loop
  MaxFolders,          \* bound: folders entered after a jump
  MaxLaunches,         \* bound: threads launched after the first
  LaunchLines,         \* bound: lines of a script others are launched over
  MayAppend(_, _),     \* bound: the lines that are written (script, next kind)
  Admitted(_, _, _)    \* bound: the scripts that are loaded (script, label, dynamic)

ASSUME NestingAssumption == MaxNesting \in Nat

ASSUME BoundsAssumption ==
  /\ MaxLines \in Nat /\ MaxDepth \in Nat \ {0} /\ MaxIterations \in Nat
  /\ MaxFolders \in Nat /\ MaxLaunches \in Nat /\ LaunchLines \in Nat

VARIABLES
  script,     \* the kinds of the lines as written, in order
  label,      \* the line the only label stands on (mJumpToLine), 0 for none
  dynamic,    \* TRUE when Goto and Gosub name their label through a variable
  status,     \* "building", "rejected" or "running"
  parent,     \* Line::mParentLine, 0 for none
  related,    \* Line::mRelatedLine of the flow-of-control lines
  frames,     \* the C stack: calls of ExecUntil, innermost last
  g,          \* the members of the thread's settings that flow of control uses
  launches    \* threads launched so far, for the bound

vars == <<script, label, dynamic, status, parent, related, frames, g, launches>>

-----------------------------------------------------------------------------
(* Loading.                                                                *)

LoopKinds == {"loop", "parse", "files"}
Owners    == {"if"} \cup LoopKinds          \* ACT_IS_IF, ACT_LOOP, ACT_REPEAT
Opens     == {"{", "func{"}                 \* ACT_BLOCK_BEGIN; mAttribute set
Jumps     == {"goto", "gosub"}

\* One ACT_EXIT is added before PreparseBlocks and two after it.
Line(s, l) == IF l \in 1 .. Len(s) THEN s[l] ELSE "exit"
LastLine(s) == Len(s) + 3
Lines(s) == 1 .. LastLine(s)

\* The blocks open before each line: the recursion of PreparseBlocks.
OpenBlocks(s) ==
  LET O[l \in 1 .. Len(s) + 1] ==
        IF l = 1 THEN <<>>
        ELSE CASE s[l - 1] \in Opens -> Append(O[l - 1], l - 1)
               [] s[l - 1] = "}" /\ O[l - 1] # <<>> -> Front(O[l - 1])
               [] OTHER -> O[l - 1]
  IN O

CallsResolved(s) ==
  (\E l \in 1 .. Len(s) : s[l] = "call") => \E l \in 1 .. Len(s) : s[l] = "func{"

\* nest_level, as every block finds it.
NestingOK(s) == \A l \in 1 .. Len(s) : s[l] \in Opens => Len(OpenBlocks(s)[l]) <= MaxNesting

\* PreparseBlocks: every brace has its partner, every call its function.
BlocksOK(s) ==
  /\ CallsResolved(s)
  /\ NestingOK(s)
  /\ \A l \in 1 .. Len(s) : s[l] = "}" => OpenBlocks(s)[l] # <<>>
  /\ OpenBlocks(s)[Len(s) + 1] = <<>>

\* The line below an IF, ELSE or loop belongs to it, any other to its block.
\* The last two Exits come too late for PreparseBlocks.
Parents(s) ==
  [l \in Lines(s) |->
     IF l > Len(s) + 1 THEN 0
     ELSE IF l > 1 /\ Line(s, l - 1) \in Owners \cup {"else"} THEN l - 1
     ELSE IF OpenBlocks(s)[l] = <<>> THEN 0
     ELSE Last(OpenBlocks(s)[l])]

\* Line::IsJumpValid, by the chain of parents p.
IsJumpValid(p, from, target) ==
  LET A[x \in DOMAIN p] == p[target] = x \/ (p[x] # 0 /\ A[p[x]])
  IN p[target] = 0 \/ (p[from] # 0 /\ A[p[from]])

\* PreparseIfElse from line l on: the line it returns, 0 for an error or the
\* physical end of the script.  In mode "one" it returns after one statement,
\* in mode "block" at the end of the block.
Preparsed(s, p, lab, dyn) ==
  LET JumpOK(l) == dyn \/ (lab # 0 /\ IsJumpValid(p, l, lab))
      P[q \in (0 .. LastLine(s)) \X {"all", "block", "one"} \X BOOLEAN] ==
        LET l == q[1]
            mode == q[2]
            inLoop == q[3]
            k == Line(s, l)
            GoOn(x) == IF x = 0 \/ mode = "one" THEN x ELSE P[<<x, mode, inLoop>>]
            Body(x, loop) == IF Line(s, x) \in {"else", "}"} THEN 0 ELSE P[<<x, "one", loop>>]
            next == IF l = LastLine(s) THEN 0 ELSE l + 1
        IN CASE l = 0 -> 0
             [] l = LastLine(s) -> IF mode = "all" THEN l ELSE 0
             [] k \in Owners ->
                  LET e == Body(l + 1, inLoop \/ k \in LoopKinds)
                  IN IF e = 0 THEN 0
                     ELSE IF Line(s, e) # "else" THEN GoOn(e)
                     ELSE IF k \in LoopKinds THEN IF mode = "one" THEN e ELSE 0
                     ELSE GoOn(Body(e + 1, inLoop))
             [] k \in Opens -> LET e == P[<<l + 1, "block", inLoop>>]
                               IN IF e = 0 THEN 0 ELSE GoOn(e + 1)
             [] k = "}" -> IF mode = "one" THEN 0 ELSE l
             [] k \in {"break", "continue"} /\ ~inLoop -> 0
             [] k \in Jumps /\ ~JumpOK(l) -> 0
             [] k = "else" -> 0
             [] OTHER -> GoOn(next)
  IN P

\* AddLine rejects a label on an ELSE, on a block's end or on a function.
LabelOK(s, lab) == lab = 0 \/ Line(s, lab) \notin {"else", "}", "func{"}

\* A function ends where no block is open; until then no other may begin.
FunctionsApart(s) ==
  \A l, m \in 1 .. Len(s) :
    l < m /\ s[l] = "func{" /\ s[m] = "func{" => \E x \in l + 1 .. m : OpenBlocks(s)[x] = <<>>

\* LoadFromFile: all stages succeed.
Accepted(s, lab, dyn) ==
  /\ LabelOK(s, lab)
  /\ FunctionsApart(s)
  /\ BlocksOK(s)
  /\ Preparsed(s, Parents(s), lab, dyn)[<<1, "all", FALSE>>] # 0

\* What the two passes leave in mRelatedLine of an accepted script: the line
\* after a block, after an ELSE's body, after a loop's or an IF's body (its
\* ELSE where it has one).
RelatedLines(s) ==
  LET P == Preparsed(s, Parents(s), 0, TRUE)
      Close(l) == CHOOSE c \in l + 1 .. Len(s) :
                    s[c] = "}" /\ OpenBlocks(s)[c] = Append(OpenBlocks(s)[l], l)
  IN [l \in Lines(s) |->
        IF Line(s, l) \in Owners \cup {"else"} THEN P[<<l + 1, "one", TRUE>>]
        ELSE IF Line(s, l) \in Opens THEN Close(l) + 1
        ELSE 0]

-----------------------------------------------------------------------------
(* The stack of ExecUntil.                                                 *)

Modes   == {"return", "block", "one"}  \* UNTIL_RETURN, UNTIL_BLOCK_END, ONLY_ONE_LINE
Results == {"OK", "FAIL", "EARLY_RETURN", "EARLY_EXIT", "LOOP_BREAK", "LOOP_CONTINUE"}
Phases  == {"line", "if", "else", "block", "test", "loop", "gosub", "call", "called"}
Values  == [mLoopIteration : Nat, mLoopItem : Nat, CurrentLabel : Nat, CurrentFunc : BOOLEAN]

\* g as a thread finds it (g_default).
Fresh == [mLoopIteration |-> 0, mLoopItem |-> 0, CurrentLabel |-> 0, CurrentFunc |-> FALSE]

\* saved is what the frame keeps of g over the call it makes, under (in the base
\* frame of a thread) the interrupted thread's g.  cont and jump are a loop's
\* continue_main_loop and jump_to_line, folder counts the passes made after a
\* jump.
Frame(l, mode, thread, under) ==
  [line |-> l, mode |-> mode, phase |-> "line", thread |-> thread, under |-> under,
   saved |-> Fresh, cont |-> FALSE, jump |-> 0, folder |-> 0]

\* The frame goes on at line l; what it kept over its call is dead.
At(c, l) == Frame(l, c.mode, c.thread, c.under)
Stay(c, v) == [stay |-> TRUE, frame |-> c, g |-> v]
Pass(res, jump, v) == [stay |-> FALSE, res |-> res, jump |-> jump, g |-> v]
Outcomes == [stay : {FALSE}, res : Results, jump : 0 .. LastLine(script), g : Values]

Aborts   == {"FAIL", "EARLY_RETURN", "EARLY_EXIT"}
Unwinds  == Aborts \cup {"LOOP_BREAK", "LOOP_CONTINUE"}

TakesAnyJump(c, jump, end, v) ==                                     \* mutant
  Stay(At(c, IF jump # 0 THEN jump ELSE end), v)

\* A jump that this frame's line is on the level of goes there; any other is
\* passed to the caller; with none, end is next.
GoOn(c, jump, end, v) ==
  IF jump # 0 /\ parent[jump] # parent[c.line] THEN Pass("OK", jump, v)
  ELSE Stay(At(c, IF jump # 0 THEN jump ELSE end), v)

\* The part common to IF, ELSE and block once the jump to the line itself is
\* dealt with.
AfterBody(c, res, jump, end, v) ==
  IF c.mode = "one" THEN Pass(res, jump, v)
  ELSE IF res \in Unwinds THEN Pass(res, 0, v)
  ELSE GoOn(c, jump, end, v)

RunsIntoElse(c, res, jump, v) ==                                     \* mutant
  AfterBody(c, res, jump, related[c.line], v)

ElseAssumed(c, res, jump, v) ==                                      \* mutant
  AfterBody(c, res, jump, related[related[c.line]], v)

AfterIf(c, res, jump, v) ==
  LET r == related[c.line]
  IN IF jump = c.line THEN Stay(At(c, c.line), v)
     ELSE AfterBody(c, res, jump, IF Line(script, r) = "else" THEN related[r] ELSE r, v)

AfterElse(c, res, jump, v) == AfterBody(c, res, jump, related[c.line], v)

PassesOwnJump(c, res, jump, v) ==                                    \* mutant
  AfterBody(c, res, jump, related[c.line], v)

AfterBlock(c, res, jump, v) ==
  IF jump = c.line THEN Stay(At(c, c.line), v)
  ELSE AfterBody(c, res, jump, related[c.line], v)

\* The end of ACT_LOOP, whichever of its functions ran the loop.
AfterLoop(c, res, v0) ==
  LET v == [v0 EXCEPT !.mLoopIteration = c.saved.mLoopIteration,
                      !.mLoopItem = c.saved.mLoopItem]
  IN IF res \in Aborts THEN Pass(res, 0, v)
     ELSE IF c.cont THEN Stay(At(c, c.line), v)
     ELSE IF c.mode = "one" THEN Pass("OK", c.jump, v)
     ELSE GoOn(c, c.jump, related[c.line], v)

\* One iteration is over.  A jump ends the pass over the items; the loops over
\* folders go on to look for subfolders even then.
AfterIteration(c, res, jump, v) ==
  LET d == IF jump = 0 THEN c
           ELSE IF jump = c.line THEN [c EXCEPT !.cont = TRUE] ELSE [c EXCEPT !.jump = jump]
  IN IF res \in Aborts \cup {"LOOP_BREAK"} THEN AfterLoop(c, res, v)
     ELSE IF jump # 0 /\ Line(script, c.line) # "files" THEN AfterLoop(d, "OK", v)
     ELSE Stay([d EXCEPT !.phase = "test"],
               IF jump # 0 THEN v ELSE [v EXCEPT !.mLoopIteration = @ + 1])

\* Label::Execute returns to Gosub or GroupActivate.
AfterGosub(c, res, v0) ==
  LET v == [v0 EXCEPT !.CurrentLabel = c.saved.CurrentLabel]
  IN IF res \in {"FAIL", "EARLY_EXIT"} THEN Pass(res, 0, v)
     ELSE IF c.mode = "one" THEN Pass(IF res = "EARLY_RETURN" THEN "OK" ELSE res, 0, v)
     ELSE Stay(At(c, c.line + 1), v)

StaysInFunc(c, res, v) ==                                            \* mutant
  IF res \in {"FAIL", "EARLY_EXIT"} THEN Pass(res, 0, v)
  ELSE Stay([At(c, c.line) EXCEPT !.phase = "called"], v)

\* Func::Call returns to ExpandArgs; unless it aborts, the line goes on.
AfterCall(c, res, v0) ==
  LET v == [v0 EXCEPT !.CurrentFunc = c.saved.CurrentFunc]
  IN IF res \in {"FAIL", "EARLY_EXIT"} THEN Pass(res, 0, v)
     ELSE Stay([At(c, c.line) EXCEPT !.phase = "called"], v)

Caller(c, res, jump, v) ==
  CASE c.phase = "if"    -> AfterIf(c, res, jump, v)
    [] c.phase = "else"  -> AfterElse(c, res, jump, v)
    [] c.phase = "block" -> AfterBlock(c, res, jump, v)
    [] c.phase = "loop"  -> AfterIteration(c, res, jump, v)
    [] c.phase = "gosub" -> AfterGosub(c, res, v)
    [] c.phase = "call"  -> AfterCall(c, res, v)

\* The frames fs and the settings once the last of fs has returned res and
\* asked for jump: its callers react one after the other, up to the first that
\* stays or to the base of the thread.
Unwound(fs, res, jump, v0) ==
  LET U[n \in 1 .. Len(fs)] ==
        [o \in Outcomes |->
           IF fs[n].thread THEN [frames |-> SubSeq(fs, 1, n - 1), g |-> fs[n].under]
           ELSE LET c == Caller(fs[n - 1], o.res, o.jump, o.g)
                IN IF c.stay THEN [frames |-> Append(SubSeq(fs, 1, n - 2), c.frame), g |-> c.g]
                   ELSE U[n - 1][c]]
  IN U[Len(fs)][Pass(res, jump, v0)]

-----------------------------------------------------------------------------
(* The steps of ExecUntil.                                                 *)

Top == Last(frames)
InPhase(ph) == status = "running" /\ frames # <<>> /\ Top.phase = ph
On(kinds) == InPhase("line") /\ Line(script, Top.line) \in kinds

Settled == UNCHANGED <<script, label, dynamic, status, parent, related, launches>>

\* The innermost frame returns.
Return(res, jump) ==
  LET u == Unwound(frames, res, jump, g)
  IN frames' = u.frames /\ g' = u.g

\* It goes on at line l.
Move(l) == frames' = Append(Front(frames), At(Top, l)) /\ UNCHANGED g

\* It calls ExecUntil for line l and waits in phase ph.
Enter(c, ph, l, mode, v) ==
  /\ Len(frames) < MaxDepth
  /\ frames' = Append(Append(Front(frames), [c EXCEPT !.phase = ph]),
                      Frame(l, mode, FALSE, Fresh))
  /\ g' = v

\* A command, or what is left of a line whose function call returned.
Perform ==
  /\ On({"cmd"}) \/ InPhase("called")
  /\ \/ IF Top.mode = "one" THEN Return("OK", 0) ELSE Move(Top.line + 1)
     \/ Return("FAIL", 0)
  /\ Settled

IfTrue == /\ On({"if"})
          /\ Enter(Top, "if", Top.line + 1, "one", g)
          /\ Settled

IfFalse ==
  /\ On({"if"})
  /\ LET r == related[Top.line]
     IN IF Line(script, r) = "else"
        THEN Enter([Top EXCEPT !.line = r], "else", r + 1, "one", g)
        ELSE IF Top.mode = "one" THEN Return("OK", 0) ELSE Move(r)
  /\ Settled

IfFails == /\ On({"if"})
           /\ Return("FAIL", 0)
           /\ Settled

\* ACT_LOOP up to the first test of PerformLoop and its variants.
Loop ==
  /\ On(LoopKinds)
  /\ frames' = Append(Front(frames), [Top EXCEPT !.phase = "test", !.saved = g])
  /\ g' = [g EXCEPT !.mLoopIteration = 1]
  /\ Settled

\* An invalid parameter, or no memory for a copy of the string to parse.
LoopFails == /\ On({"files", "parse"})
             /\ Return("FAIL", 0)
             /\ Settled

Iterate ==
  /\ InPhase("test")
  /\ LET late == Top.cont \/ Top.jump # 0
         item == Line(script, Top.line) # "loop"
     IN /\ IF late THEN Top.folder < MaxFolders ELSE g.mLoopIteration <= MaxIterations
        /\ Enter([Top EXCEPT !.folder = IF late THEN @ + 1 ELSE @], "loop", Top.line + 1, "one",
                 IF item THEN [g EXCEPT !.mLoopItem = Top.line] ELSE g)
  /\ Settled

\* The frames fs and the settings once the loop that is last of fs is over.
LoopOver(fs, v) ==
  LET o == AfterLoop(Last(fs), "OK", v)
  IN IF o.stay THEN [frames |-> Append(Front(fs), o.frame), g |-> o.g]
     ELSE Unwound(fs, o.res, o.jump, o.g)

LoopDone ==
  /\ InPhase("test")
  /\ LET u == LoopOver(frames, g) IN frames' = u.frames /\ g' = u.g
  /\ Settled

\* A Goto whose target is not on this frame's level is left to its callers.
Goto ==
  /\ On({"goto"})
  /\ IF label = 0 \/ ~IsJumpValid(parent, Top.line, label) THEN Return("FAIL", 0)
     ELSE LET v == [g EXCEPT !.CurrentLabel = label]
          IN IF Top.mode = "one" \/ parent[Top.line] # parent[label]
             THEN LET u == Unwound(frames, "OK", label, v)
                  IN frames' = u.frames /\ g' = u.g
             ELSE frames' = Append(Front(frames), At(Top, label)) /\ g' = v
  /\ Settled

\* Label::Execute.
Gosub ==
  /\ On({"gosub"}) \/ (On({"group"}) /\ label # 0)
  /\ IF label = 0 \/ ~IsJumpValid(parent, Top.line, label) THEN Return("FAIL", 0)
     ELSE Enter([Top EXCEPT !.saved = g], "gosub", label, "return",
                [g EXCEPT !.CurrentLabel = label])
  /\ Settled

\* GroupActivate without a subroutine to run.
GroupOnly == /\ On({"group"})
             /\ IF Top.mode = "one" THEN Return("OK", 0) ELSE Move(Top.line + 1)
             /\ Settled

\* Func::Call: the body begins below the function's brace.
Call ==
  /\ On({"call"})
  /\ \E l \in 1 .. Len(script) :
       /\ script[l] = "func{"
       /\ Enter([Top EXCEPT !.saved = g], "call", l + 1, "block", [g EXCEPT !.CurrentFunc = TRUE])
  /\ Settled

ReturnLine == /\ On({"return"})
              /\ Return(IF Top.mode = "return" THEN "OK" ELSE "EARLY_RETURN", 0)
              /\ Settled

BreakOrContinue ==
  /\ On({"break", "continue"})
  /\ Return(IF Line(script, Top.line) = "break" THEN "LOOP_BREAK" ELSE "LOOP_CONTINUE", 0)
  /\ Settled

\* In a persistent script.
Exit == /\ On({"exit"})
        /\ Return("EARLY_EXIT", 0)
        /\ Settled

BlockBegin == /\ On({"{"})
              /\ Enter(Top, "block", Top.line + 1, "block", g)
              /\ Settled

\* The body of a function is passed over.
FunctionBody == /\ On({"func{"})
                /\ Move(related[Top.line])
                /\ Settled

BlockEnd == /\ On({"}"})
            /\ Return(IF Top.mode = "block" THEN "OK" ELSE "FAIL", 0)
            /\ Settled

\* Perform does not know ACT_ELSE.
ElseLine == /\ On({"else"})
            /\ Return("FAIL", 0)
            /\ Settled

-----------------------------------------------------------------------------
AddLine ==
  /\ status = "building"
  /\ Len(script) < MaxLines
  /\ \E k \in Kinds : MayAppend(script, k) /\ script' = Append(script, k)
  /\ UNCHANGED <<label, dynamic, status, parent, related, frames, g, launches>>

\* LoadFromFile once all lines are read, and the auto-execute section's start.
Load ==
  /\ status = "building"
  /\ \E lab \in 0 .. Len(script) + 1, dyn \in BOOLEAN :
       /\ Admitted(script, lab, dyn)
       /\ label' = lab /\ dynamic' = dyn
       /\ IF Accepted(script, lab, dyn)
          THEN /\ status' = "running"
               /\ parent' = Parents(script) /\ related' = RelatedLines(script)
               /\ frames' = <<Frame(1, "return", TRUE, Fresh)>>
          ELSE /\ status' = "rejected"
               /\ UNCHANGED <<parent, related, frames>>
  /\ UNCHANGED <<script, g, launches>>

\* Another thread starts at the label, between two lines or when none runs.
Launch ==
  /\ status = "running" /\ label # 0
  /\ frames = <<>> \/ InPhase("line")
  /\ launches < MaxLaunches /\ Len(script) <= LaunchLines /\ Len(frames) < MaxDepth
  /\ launches' = launches + 1
  /\ frames' = Append(frames, Frame(label, "return", TRUE, g))
  /\ g' = [Fresh EXCEPT !.CurrentLabel = label]
  /\ UNCHANGED <<script, label, dynamic, status, parent, related>>

Init ==
  /\ script = <<>> /\ label = 0 /\ dynamic = FALSE /\ status = "building"
  /\ parent = <<>> /\ related = <<>>
  /\ frames = <<>> /\ g = Fresh /\ launches = 0

Next ==
  \/ AddLine \/ Load \/ Launch
  \/ Perform \/ IfTrue \/ IfFalse \/ IfFails
  \/ Loop \/ LoopFails \/ Iterate \/ LoopDone
  \/ Goto \/ Gosub \/ GroupOnly \/ Call
  \/ ReturnLine \/ BreakOrContinue \/ Exit
  \/ BlockBegin \/ FunctionBody \/ BlockEnd \/ ElseLine

Spec == Init /\ [][Next]_vars

-----------------------------------------------------------------------------
(* The activations of Structured: stretches of frames fs that begin at the   *)
(* base of a thread, of a Gosub or of a function call.                       *)

Begins(fs, i) == i = 1 \/ fs[i].thread \/ fs[i - 1].phase \in {"gosub", "call"}
Ends(fs, i)   == i = Len(fs) \/ Begins(fs, i + 1)

\* What A_Index is for the loop of frame x: what the next loop or thread saved.
IterationOf(fs, v, x) ==
  LET savers == {i \in x + 1 .. Len(fs) : fs[i].thread \/ fs[i].phase \in {"test", "loop"}}
      i == CHOOSE j \in savers : \A k \in savers : j <= k
  IN IF savers = {} THEN v.mLoopIteration
     ELSE IF fs[i].thread THEN fs[i].under.mLoopIteration
     ELSE fs[i].saved.mLoopIteration

ActivationAt(fs, v, i) ==
  LET j == CHOOSE x \in i .. Len(fs) : Ends(fs, x) /\ \A y \in i .. x - 1 : ~Ends(fs, y)
      open == IF fs[j].phase = "test" THEN j ELSE j - 1
  IN [at     |-> fs[j].line,
      phase  |-> IF fs[j].phase \in {"test", "called"} THEN fs[j].phase ELSE "line",
      thread |-> fs[i].thread,
      func   |-> i > 1 /\ fs[i - 1].phase = "call",
      ctx    |-> [x \in 1 .. open - i + 1 |->
                    [head |-> fs[i + x - 1].line,
                     iteration |-> IF fs[i + x - 1].phase \in {"test", "loop"}
                                   THEN IterationOf(fs, v, i + x - 1) ELSE 0]]]

\* A jump that a loop over folders holds back while it looks for subfolders is
\* made, as far as the text is concerned.
Late(fs) == fs # <<>> /\ Last(fs).phase = "test" /\ (Last(fs).cont \/ Last(fs).jump # 0)
Settling ==
  LET S[n \in 0 .. Len(frames)] ==
        IF n = 0 THEN [frames |-> frames, g |-> g]
        ELSE LET s == S[n - 1] IN IF Late(s.frames) THEN LoopOver(s.frames, s.g) ELSE s
  IN S[Len(frames)]

ActivationsOf(fs, v) ==
  LET begins == {i \in 1 .. Len(fs) : Begins(fs, i)}
      A[i \in 0 .. Len(fs)] ==
        IF i = 0 THEN <<>>
        ELSE IF i \in begins THEN Append(A[i - 1], ActivationAt(fs, v, i)) ELSE A[i - 1]
  IN A[Len(fs)]

\* (The sets of one element have TLC evaluate it once.)
Activations ==
  IF Late(frames) THEN CHOOSE r \in {ActivationsOf(s.frames, s.g) : s \in {Settling}} : TRUE
  ELSE ActivationsOf(frames, g)

Text == INSTANCE Structured WITH acts <- Activations

\* The pointers and the recursion give every script the meaning its text has:
\* what is loaded is what is well formed, every line is followed by the line
\* the text says, jumps, breaks and returns lead where they should through any
\* number of frames, and A_Index is right in every activation.
FollowsTheText == Text!Spec

-----------------------------------------------------------------------------
\* The variables have their types.
TypeOK ==
  /\ script \in Seq(Kinds) /\ Len(script) <= MaxLines
  /\ label \in 0 .. MaxLines + 1 /\ dynamic \in BOOLEAN
  /\ status \in {"building", "rejected", "running"}
  /\ status = "running" => /\ parent \in [Lines(script) -> 0 .. LastLine(script)]
                           /\ related \in [Lines(script) -> 0 .. LastLine(script)]
  /\ frames \in Seq([line : Lines(script), mode : Modes, phase : Phases, thread : BOOLEAN,
                     under : Values, saved : Values, cont : BOOLEAN,
                     jump : 0 .. LastLine(script), folder : 0 .. MaxFolders])
  /\ g \in Values
  /\ launches \in 0 .. MaxLaunches

\* A function is defined where the body of an IF, an ELSE or a loop belongs: a
\* frame that is to run one statement goes past it to the next.
FunctionOnBody(s) ==
  \E l \in 1 .. Len(s) : s[l] = "func{" /\ Line(s, l - 1) \in Owners \cup {"else"}

\* A frame runs only lines that lie within the statement its caller waits for:
\* a jump is never taken up by a frame that is too deep for it (script.cpp:9874).
\* (A frame that runs an ELSE stands on the ELSE, which has no parent of its own.)
RunsWithin ==
  ~FunctionOnBody(script) =>
  \A i \in 1 .. Len(frames) - 1 :
    frames[i].phase \in {"if", "else", "block", "loop"} /\ frames[i + 1].phase # "else" =>
      LET E[x \in 0 .. LastLine(script)] == x # 0 /\ (parent[x] = frames[i].line \/ E[parent[x]])
      IN E[frames[i + 1].line]

\* A frame meets the end of the block or function whose body it was called for
\* and of no other, and no ELSE, but for subroutines: one whose label is inside
\* a block and that does not return before it meets the end of that block, "a
\* Gosub without Return" (script.cpp:9464-9473), and one whose label stands on
\* the body of an IF, an ELSE or a loop meets the ELSE below it.
EndsMetByOwner ==
  ~FunctionOnBody(script) =>
  \A i \in 1 .. Len(frames) :
    frames[i].phase = "line" =>
      /\ Line(script, frames[i].line) = "else" =>
           frames[i].mode = "return" /\ label # 0 /\ Line(script, parent[label]) \in Owners \cup {"else"}
      /\ Line(script, frames[i].line) = "}" =>
           \/ /\ frames[i].mode = "block" /\ i > 1
              /\ \/ frames[i - 1].phase = "block" /\ frames[i - 1].line = parent[frames[i].line]
                 \/ frames[i - 1].phase = "call" /\ Line(script, parent[frames[i].line]) = "func{"
           \/ /\ frames[i].mode = "return" /\ label # 0
              /\ OpenBlocks(script)[frames[i].line] = OpenBlocks(script)[label]

\* While a line runs, the loop item it sees is that of the innermost loop that
\* has one, in its own thread, and A_ThisFunc is set exactly inside a call:
\* each is restored on every way out (script.cpp:9322-9349, script.h:1858-1866).
BuiltinsCurrent ==
  InPhase("line") =>
    LET base == CHOOSE i \in 1 .. Len(frames) :
                  frames[i].thread /\ \A j \in i + 1 .. Len(frames) : ~frames[j].thread
        items == {i \in base .. Len(frames) :
                    frames[i].phase = "loop" /\ Line(script, frames[i].line) # "loop"}
    IN /\ g.mLoopItem = IF items = {} THEN 0
                        ELSE frames[CHOOSE i \in items : \A j \in items : j <= i].line
       /\ g.CurrentFunc = \E i \in base .. Len(frames) : frames[i].phase = "call"
=============================================================================
