---------------------------- MODULE ExpressionTrees -----------------------------
(***************************************************************************)
(* What an expression means, given as a tree: its operator and its         *)
(* operands.  Written writes a tree down with as few parentheses as the      *)
(* precedence of the operators allows, and Outcome is what the expression  *)
(* does to the variables.  Numbers are naturals.                           *)
(***************************************************************************)
EXTENDS Naturals, Sequences

\* A number, a variable, or an operator and its operands.  Rank orders the operators from
\* the loosest to the tightest.
Rank(t) ==
  CASE t.op = "comma" -> 1 [] t.op \in {"assign", "add_to"} -> 2 [] t.op = "iff" -> 3
    [] t.op = "or" -> 4 [] t.op = "and" -> 5 [] t.op = "low_not" -> 6 [] t.op = "equal" -> 7
    [] t.op = "join" -> 8 [] t.op = "plus" -> 9 [] t.op = "high_not" -> 10
    [] t.op = "power" -> 11 [] OTHER -> 12

Assigns(t) == t.op \in {"assign", "add_to"}
Not(t) == t.op \in {"low_not", "high_not"}

Sign(s) == [sym |-> s, v |-> 0, circ |-> 0]
Word(s, v) == [sym |-> s, v |-> v, circ |-> 0]
Parens(ls) == <<Sign("OPAREN")>> \o ls \o <<Sign("CPAREN")>>

Infix(op) ==
  CASE op = "comma" -> <<Sign("COMMA")>> [] op = "or" -> <<Sign("OR")>>
    [] op = "and" -> <<Sign("AND")>> [] op = "equal" -> <<Sign("EQUAL")>>
    [] op = "plus" -> <<Sign("PLUS")>> [] op = "power" -> <<Sign("POWER")>>
    [] op = "join" -> <<Sign("CONCAT")>>

\* The lexemes of a tree, and the rank of the loosest operator whose right side is open:
\* more to the right would become part of it.  A right operand needs no parentheses if
\* it is an assignment, which takes only the variable before it, or, after **, a not.
RECURSIVE Written(_)
Written(t) ==
  LET rank == Rank(t)
      Left(k) == LET p == Written(k) IN IF p.open < rank THEN Parens(p.lexemes) ELSE p.lexemes
      Bare(k, atLeast) == Rank(k) >= atLeast \/ Assigns(k) \/ (t.op = "power" /\ Not(k))
      Right(k, atLeast) == IF Bare(k, atLeast) THEN Written(k).lexemes
                           ELSE Parens(Written(k).lexemes)
      Open(k, atLeast) == IF Bare(k, atLeast) /\ Written(k).open < rank THEN Written(k).open
                          ELSE rank
  IN CASE t.op = "number" -> [lexemes |-> <<Word("OPERAND", t.v)>>, open |-> 13]
       [] t.op = "var" -> [lexemes |-> <<Word("VAR", t.v)>>, open |-> 13]
       [] t.op = "before" -> [lexemes |-> <<Sign("INCREMENT"), Word("VAR", t.v)>>, open |-> 13]
       [] t.op = "after" -> [lexemes |-> <<Word("VAR", t.v), Sign("INCREMENT")>>, open |-> 13]
       [] t.op = "func" ->
            LET arg == [i \in DOMAIN t.of |->
                          IF Rank(t.of[i]) = 1 THEN Parens(Written(t.of[i]).lexemes)
                          ELSE Written(t.of[i]).lexemes]
            IN [open |-> 13,
                lexemes |-> <<Word("FUNC", Len(t.of))>>
                  \o Parens(IF t.of = <<>> THEN <<>> ELSE IF Len(t.of) = 1 THEN arg[1]
                            ELSE arg[1] \o <<Sign("COMMA")>> \o arg[2])]
       [] Not(t) ->
            [open |-> Open(t.of[1], rank),
             lexemes |-> <<Sign(IF t.op = "low_not" THEN "LOWNOT" ELSE "HIGHNOT")>>
               \o Right(t.of[1], rank)]
       [] Assigns(t) ->
            [open |-> Open(t.of[1], rank),
             lexemes |-> <<Word("VAR", t.v), Sign(IF t.op = "assign" THEN "ASSIGN" ELSE "ASSIGN_ADD")>>
               \o Right(t.of[1], rank)]
       [] t.op = "iff" ->
            LET cond == Written(t.of[1])
            IN [open |-> Open(t.of[3], rank),
                lexemes |-> (IF cond.open <= rank THEN Parens(cond.lexemes) ELSE cond.lexemes)
                  \o <<Sign("IFF_THEN")>> \o Right(t.of[2], rank)
                  \o <<Sign("IFF_ELSE")>> \o Right(t.of[3], rank)]
       [] OTHER ->
            [open |-> Open(t.of[2], rank + 1),
             lexemes |-> Left(t.of[1])
               \o (IF t.op = "join" /\ Right(t.of[2], rank + 1)[1].sym \in {"OPERAND", "VAR", "FUNC", "OPAREN"}
                     THEN <<>> ELSE Infix(t.op))       \* side by side
               \o Right(t.of[2], rank + 1)]

\* What evaluating a tree yields, a number or a reference to a variable, and how it leaves
\* the variables.  An operator reads its operands when both have been evaluated.
Read(e, m) == IF e.ref THEN m[e.v] ELSE e.v
Number(n, m) == [e |-> [ref |-> FALSE, v |-> n], m |-> m]
Ref(x, m) == [e |-> [ref |-> TRUE, v |-> x], m |-> m]
Truth(b) == IF b THEN 1 ELSE 0

Digits(n) == IF n < 10 THEN 1 ELSE IF n < 100 THEN 2 ELSE IF n < 1000 THEN 3 ELSE 4

RECURSIVE Value(_, _)
Value(t, m) ==
  LET a == Value(t.of[1], m)
      b == Value(t.of[2], a.m)
      x == Read(a.e, b.m)
      y == Read(b.e, b.m)
      first == Read(a.e, a.m)
  IN CASE t.op = "number" -> Number(t.v, m)
       [] t.op = "var" -> Ref(t.v, m)
       [] t.op = "before" -> Ref(t.v, [m EXCEPT ![t.v] = @ + 1])
       [] t.op = "after" -> Number(m[t.v], [m EXCEPT ![t.v] = @ + 1])
       [] t.op = "func" -> LET last == IF Len(t.of) = 1 THEN a ELSE b
                           IN IF t.of = <<>> THEN Number(0, m) ELSE Number(Read(last.e, last.m), last.m)
       [] Not(t) -> Number(Truth(first = 0), a.m)
       [] t.op = "assign" -> Ref(t.v, [a.m EXCEPT ![t.v] = first])
       [] t.op = "add_to" -> Ref(t.v, [a.m EXCEPT ![t.v] = @ + first])
       [] t.op = "comma" -> [e |-> a.e, m |-> b.m]
       [] t.op = "and" -> IF first = 0 THEN Number(0, a.m) ELSE Number(Truth(y # 0), b.m)
       [] t.op = "or" -> IF first # 0 THEN Number(1, a.m) ELSE Number(Truth(y # 0), b.m)
       [] t.op = "iff" -> IF first # 0 THEN b ELSE Value(t.of[3], a.m)
       [] t.op = "equal" -> Number(Truth(x = y), b.m)
       [] t.op = "join" -> Number(x * 10 ^ Digits(y) + y, b.m)
       [] t.op = "plus" -> Number(x + y, b.m)
       [] t.op = "power" -> Number(IF y = 0 THEN 1 ELSE x ^ y, b.m)

\* The variables after d := t.
Outcome(t, d, m) == LET r == Value(t, m) IN [r.m EXCEPT ![d] = Read(r.e, r.m)]
=============================================================================
