------------------------------ MODULE Structured ------------------------------
(***************************************************************************)
(* What flow of control promises to a script, stated over the text of the  *)
(* script alone: which scripts are well formed, which statement follows    *)
(* which, where Goto, Gosub, Break, Continue and Return lead and what      *)
(* A_Index is.  It knows nothing of the pointers the loader sets up, of    *)
(* the recursion of ExecUntil or of the values saved on its stack: an      *)
(* activation (a thread, a Gosub, a function call) is a place in the text  *)
(* and the list of statements it has entered.  FlowOfControl implements it.*)
(***************************************************************************)
EXTENDS Naturals, Sequences, FiniteSets, SequencesExt

CONSTANTS
  Kinds,              \* the kinds of lines that are written
  MaxNesting,         \* the blocks that a block may be within
  Admitted(_, _, _)   \* the scripts considered (script, label, dynamic)

VARIABLES
  script,   \* the kinds of the lines as written
  label,    \* the line the only label stands on, 0 for none
  dynamic,  \* whether jumps name their label through a variable
  status,   \* "building", "rejected" or "running"
  acts      \* the activations, innermost last

vars == <<script, label, dynamic, status, acts>>

-----------------------------------------------------------------------------
(* The grammar.                                                            *)

LoopKinds == {"loop", "parse", "files"}
Owners    == {"if"} \cup LoopKinds
Opens     == {"{", "func{"}
Jumps     == {"goto", "gosub"}

Exits(s) == s \o <<"exit", "exit", "exit">>   \* what the loader appends

\* The line after the statement that begins on line l, 0 if none does.  (E also
\* yields the line after the block that goes on with line l.)
After(s) ==
  LET k == Exits(s)
      Size == Len(k)
      E[q \in (0 .. Size + 1) \X {"statement", "block"}] ==
        LET l == q[1]
            e == E[<<l + 1, "statement">>]
        IN IF l = 0 \/ l > Size THEN 0
           ELSE IF q[2] = "block"
           THEN IF k[l] = "}" THEN l + 1 ELSE E[<<E[<<l, "statement">>], "block">>]
           ELSE IF k[l] \in {"else", "}"} THEN 0
           ELSE IF k[l] \in Opens THEN E[<<l + 1, "block">>]
           ELSE IF k[l] \notin Owners THEN l + 1
           ELSE IF k[l] = "if" /\ e \in 1 .. Size /\ k[e] = "else" THEN E[<<e + 1, "statement">>]
           ELSE e
  IN [l \in 1 .. Size + 1 |-> E[<<l, "statement">>]]

\* The IF that line l is the ELSE of, 0 if there is none.
IfOf(s, l) ==
  LET k == Exits(s)
      owners == {i \in 1 .. l - 1 : k[i] = "if" /\ After(s)[i + 1] = l}
  IN IF owners = {} THEN 0 ELSE CHOOSE i \in owners : \A j \in owners : j <= i

\* The statements and branches that line l is in, by their first lines.
Around(s, l) ==
  LET k == Exits(s)
  IN {h \in 1 .. l - 1 : \/ k[h] \in Opens /\ l < After(s)[h]
                         \/ k[h] \in Owners \cup {"else"} /\ l < After(s)[h + 1]}

\* The one whose level l is on, 0 for the outermost level.  An ELSE is on the
\* level of its block, even when its IF is the body of another statement.
Level(s, l) ==
  LET k == Exits(s)
      heads == {h \in Around(s, l) : k[l] = "else" => k[h] \in Opens}
  IN IF heads = {} THEN 0 ELSE CHOOSE h \in heads : \A j \in heads : j <= h

\* A jump may lead to the level of any statement it is in, level by level.
Reachable(s, from, to) ==
  LET R[x \in 0 .. from] == Level(s, to) = x \/ (x # 0 /\ R[Level(s, x)])
  IN R[Level(s, from)]

\* How many blocks a line is in.
Depth(s, l) == Cardinality({h \in Around(s, l) : Exits(s)[h] \in Opens})

\* The script is a list of statements, every ELSE has its IF, every Break is
\* in a loop, every call has a function, every jump a label it may go to,
\* blocks are not nested too deep, and a function begins outside the outermost
\* blocks of the functions above it.
WellFormed(s, lab, dyn) ==
  LET k == Exits(s)
      L[l \in 0 .. Len(k) + 1] ==
        IF l = 0 THEN FALSE ELSE IF l = Len(k) + 1 THEN TRUE ELSE L[After(s)[l]]
      At(S) == {l \in 1 .. Len(s) : k[l] \in S}
  IN /\ L[1]
     /\ \A l \in At({"break", "continue"}) :
          \E h \in Around(s, l) : k[h] \in LoopKinds
     /\ At({"call"}) # {} => At({"func{"}) # {}
     /\ \A l \in At(Opens) : Depth(s, l) <= MaxNesting
     /\ \A l, m \in At({"func{"}), h \in 1 .. Len(s) :
          l < m /\ h \in Around(s, l) \cup {l} /\ k[h] \in Opens => After(s)[h] <= m
     /\ lab # 0 => k[lab] \notin {"else", "}", "func{"}
     /\ ~dyn => \A l \in At(Jumps) : lab # 0 /\ Reachable(s, l, lab)

-----------------------------------------------------------------------------
(* Activations.                                                            *)

Entry(h, i) == [head |-> h, iteration |-> i]

Activation(l, thread, func) ==
  [at |-> l, phase |-> "line", ctx |-> <<>>, thread |-> thread, func |-> func]

Kind(l) == Exits(script)[l]
To(a, l, n) == [a EXCEPT !.at = l, !.phase = "line", !.ctx = SubSeq(@, 1, n)]

\* The statement on line l, entered within the first n of a's statements, is
\* complete: the next line of its block follows, or the next iteration of its
\* loop, or whatever follows the IF it is a branch of.
Finish(a, l, n) ==
  LET F[m \in 0 .. n, x \in 1 .. Len(script) + 3] ==
        IF m = 0 THEN To(a, After(script)[x], 0)
        ELSE LET h == a.ctx[m].head
             IN CASE Kind(h) \in Opens -> To(a, After(script)[x], m)
                  [] Kind(h) \in LoopKinds ->
                       [To(a, h, m) EXCEPT !.phase = "test",
                                           !.ctx[m].iteration = @ + 1]
                  [] Kind(h) = "if" -> F[m - 1, h]
                  [] OTHER -> F[m - 1, IfOf(script, h)]
  IN F[n, l]

Complete(a, l) == Finish(a, l, Len(a.ctx))

\* The innermost activation ends by a Return, or by a Break or Continue that
\* no loop of its own takes up.  Such a Break goes on in the caller only when
\* the Gosub is by itself the body of a statement.
LoopOf(a) ==
  LET loops == {i \in 1 .. Len(a.ctx) : Kind(a.ctx[i].head) \in LoopKinds}
  IN IF loops = {} THEN 0 ELSE CHOOSE i \in loops : \A j \in loops : j <= i

Sole(a) == a.ctx # <<>> /\ Kind(Last(a.ctx).head) \notin Opens

Ended(as, how) ==
  LET E[n \in 1 .. Len(as), h \in {"return", "break", "continue"}] ==
        LET a == as[n]
            i == LoopOf(a)
            below == SubSeq(as, 1, n - 1)
        IN IF h # "return" /\ i # 0
           THEN Append(below, IF h = "break" THEN Finish(a, a.ctx[i].head, i - 1)
                                             ELSE Finish(a, a.at, i))
           ELSE IF a.thread THEN below
           ELSE IF a.func
           THEN Append(Front(below), [Last(below) EXCEPT !.phase = "called"])
           ELSE IF h = "return" \/ ~Sole(Last(below))
           THEN Append(Front(below), Complete(Last(below), Last(below).at))
           ELSE E[n - 1, h]
  IN E[Len(as), how]

\* The innermost thread ends, with all its activations.
ThreadOver(as) ==
  LET bases == {i \in 1 .. Len(as) : as[i].thread}
  IN SubSeq(as, 1, (CHOOSE i \in bases : \A j \in bases : j <= i) - 1)

\* A jump leaves every statement that does not enclose its target.  One that
\* leaves the block the activation began in ends the activation.
Jumped(as, l) ==
  LET a == Last(as)
      level(i) == IF i > 0 THEN a.ctx[i].head
                  ELSE Level(script, IF a.ctx = <<>> THEN a.at ELSE a.ctx[1].head)
      levels == {i \in 0 .. Len(a.ctx) : level(i) = Level(script, l)}
  IN IF levels = {} THEN Ended(as, "return")
     ELSE Append(Front(as), To(a, l, CHOOSE i \in levels : \A j \in levels : j <= i))

-----------------------------------------------------------------------------
Top == Last(acts)
On(kinds) == /\ status = "running"
             /\ acts # <<>>
             /\ Top.phase = "line"
             /\ Kind(Top.at) \in kinds
             /\ UNCHANGED <<script, label, dynamic, status>>

Become(a)   == acts' = Append(Front(acts), a)
Begin(a)    == acts' = Append(acts, a)
EnterBody(h, i) == Become([Top EXCEPT !.at = h + 1, !.phase = "line",
                                      !.ctx = Append(@, Entry(h, i))])

Write == /\ status = "building"
         /\ \E k \in Kinds : script' = Append(script, k)
         /\ UNCHANGED <<label, dynamic, status, acts>>

Load ==
  /\ status = "building"
  /\ label' \in 0 .. Len(script) + 1
  /\ dynamic' \in BOOLEAN
  /\ Admitted(script, label', dynamic')
  /\ status' = IF WellFormed(script, label', dynamic') THEN "running" ELSE "rejected"
  /\ acts' = IF status' = "running" THEN <<Activation(1, TRUE, FALSE)>> ELSE <<>>
  /\ UNCHANGED script

Launch == /\ status = "running"
          /\ label # 0
          /\ acts = <<>> \/ Top.phase = "line"
          /\ Begin(Activation(label, TRUE, FALSE))
          /\ UNCHANGED <<script, label, dynamic, status>>

\* A command, or the rest of a line whose function call has returned.
Perform == /\ \/ On({"cmd"})
              \/ /\ status = "running" /\ acts # <<>> /\ Top.phase = "called"
                 /\ UNCHANGED <<script, label, dynamic, status>>
           /\ \/ Become(Complete(Top, Top.at))
              \/ acts' = ThreadOver(acts)

If == /\ On({"if"})
      /\ \/ EnterBody(Top.at, 0)
         \/ LET e == After(script)[Top.at + 1]
            IN IF Kind(e) = "else" THEN EnterBody(e, 0)
                                   ELSE Become(Complete(Top, Top.at))
         \/ acts' = ThreadOver(acts)

Loop == /\ On(LoopKinds)
        /\ \/ Become([Top EXCEPT !.phase = "test",
                                 !.ctx = Append(@, Entry(Top.at, 1))])
           \/ acts' = ThreadOver(acts)

Test == /\ status = "running" /\ acts # <<>> /\ Top.phase = "test"
        /\ \/ Become([Top EXCEPT !.at = @ + 1, !.phase = "line"])
           \/ Become(Finish(Top, Top.at, Len(Top.ctx) - 1))
           \/ acts' = ThreadOver(acts)
        /\ UNCHANGED <<script, label, dynamic, status>>

Block == /\ On({"{"})
         /\ EnterBody(Top.at, 0)

PassFunction == /\ On({"func{"})
                /\ Become(To(Top, After(script)[Top.at], Len(Top.ctx)))

BlockEnd == /\ On({"}"})
            /\ IF Top.ctx # <<>> /\ Kind(Last(Top.ctx).head) \in Opens
               THEN Become(Finish(Top, Last(Top.ctx).head, Len(Top.ctx) - 1))
               ELSE acts' = IF Top.func THEN Ended(acts, "return") ELSE ThreadOver(acts)

\* Only a subroutine that began inside the IF can run into its ELSE.
Else == /\ On({"else"})
        /\ acts' = ThreadOver(acts)

Goto == /\ On({"goto"})
        /\ acts' = IF label # 0 /\ Reachable(script, Top.at, label)
                   THEN Jumped(acts, label) ELSE ThreadOver(acts)

Gosub == /\ On({"gosub", "group"})
         /\ \/ IF label # 0 /\ Reachable(script, Top.at, label)
               THEN Begin(Activation(label, FALSE, FALSE)) ELSE acts' = ThreadOver(acts)
            \/ Kind(Top.at) = "group" /\ Become(Complete(Top, Top.at))

Call == /\ On({"call"})
        /\ \E l \in 1 .. Len(script) :
             Kind(l) = "func{" /\ Begin(Activation(l + 1, FALSE, TRUE))

Return == /\ On({"return", "break", "continue"})
          /\ acts' = Ended(acts, Kind(Top.at))

Exit == /\ On({"exit"})
        /\ acts' = ThreadOver(acts)

Init == /\ script = <<>> /\ label = 0 /\ dynamic = FALSE
        /\ status = "building" /\ acts = <<>>

Next == \/ Write \/ Load \/ Launch \/ Perform \/ If \/ Loop \/ Test \/ Block
        \/ PassFunction \/ BlockEnd \/ Else \/ Goto \/ Gosub \/ Call \/ Return \/ Exit

Spec == Init /\ [][Next]_vars
=============================================================================
