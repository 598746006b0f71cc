-------------------------------- MODULE MCFlow --------------------------------
(* Scripts for FlowOfControl: all that are short enough, less those that add *)
(* nothing and, for the refinement, those in which a Goto is known to be     *)
(* lost in a single-line body.                                              *)
EXTENDS FlowOfControl

Uses(s, kinds) == \E l \in 1 .. Len(s) : s[l] \in kinds

Rare == {"continue", "exit", "group", "parse", "files"}

\* The longest scripts are of nothing but braces, those one line shorter of the
\* commoner kinds and, unless of braces too, with their braces balanced.
MayExtend(s, k) ==
  LET n == Len(s) + 1
      braces == k \in {"{", "}"} /\ ~Uses(s, Kinds \ {"{", "}"})
  IN /\ n = MaxLines => braces
     /\ k \in Rare \/ Uses(s, Rare) => n < MaxLines - 1
     /\ k \in {"group", "files"} \/ Uses(s, {"group", "files"}) => n < MaxLines - 2
     /\ n = MaxLines - 1 => braces \/ BlocksOK(Append(s, k))

\* A label and a variable for it only where they make a difference, no two
\* plain commands in a row, one GroupActivate, nothing below a line that leaves
\* for good.
Useful(s, lab, dyn) ==
  /\ lab # 0 <=> Uses(s, Jumps \cup {"group"}) \/ (MaxLaunches > 0 /\ Len(s) <= LaunchLines)
  /\ dyn => /\ Uses(s, Jumps)
            /\ ~Accepted(s, lab, FALSE)
  /\ \A l \in 1 .. Len(s) - 1 :
       /\ s[l] = "cmd" /\ s[l + 1] = "cmd" => lab = l + 1
       /\ s[l] \in {"goto", "return", "break", "continue", "exit"} =>
            s[l + 1] \in {"else", "}"} \/ lab = l + 1
  /\ \A l, m \in 1 .. Len(s) : s[l] = "group" /\ s[m] = "group" => l = m
  /\ ~FunctionOnBody(s)

\* Not a Goto to itself that is by itself the body of another statement.
KeepsJumps(s, lab) ==
  LET p == Parents(s)
  IN lab # 0 /\ p[lab] # 0 /\ Line(s, p[lab]) \notin Opens => Line(s, lab) # "goto"

RunScripts(s, lab, dyn) == Useful(s, lab, dyn) /\ KeepsJumps(s, lab)
=============================================================================
