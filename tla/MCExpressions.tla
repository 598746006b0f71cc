----------------------------- MODULE MCExpressions ------------------------------
(* Instances of Expressions: every expression of up to two operators        *)
(* one within the other, and every sequence of up to MaxLexemes lexemes    *)
(* with balanced parentheses.                                              *)
EXTENDS Expressions, FiniteSets, TLC

CONSTANTS vx, vr, MaxLexemes, Deep

T == INSTANCE ExpressionTrees

Leaf(op, v) == [op |-> op, v |-> v, of |-> <<>>]
Node(op, v, of) == [op |-> op, v |-> v, of |-> of]

Leaves == {Leaf("number", 0), Leaf("number", 2), Leaf("var", vx), Leaf("after", vx)}
Binaries == {"comma", "or", "and", "equal", "join", "plus", "power"}

\* The trees with an operand in as and the others in bs.
Grown(as, bs) ==
  {Node(op, vx, <<a>>) : op \in {"low_not", "high_not", "assign", "add_to", "func"}, a \in as}
  \cup {Node(op, vx, <<a, b>>) : op \in Binaries \cup {"func"}, a \in as, b \in bs}
  \cup {Node(op, vx, <<b, a>>) : op \in Binaries \cup {"func"}, a \in as, b \in bs}
  \cup {Node("iff", vx, <<a, b, c>>) : a \in as, b \in bs, c \in bs}
  \cup {Node("iff", vx, <<b, a, c>>) : a \in as, b \in bs, c \in bs}
  \cup {Node("iff", vx, <<b, c, a>>) : a \in as, b \in bs, c \in bs}

Once == Grown(Leaves, Leaves) \cup {Leaf("before", vx), Leaf("func", vx)}
Few == {Leaf("number", 0), Leaf("after", vx)}

\* A comma between statements is not supported within the parentheses of a function, "KNOWN
\* LIMITATION".
Supported(t) == t.op = "func" => \A i \in DOMAIN t.of : t.of[i].op # "comma"

Trees == IF Deep THEN {t \in Leaves \cup Once \cup Grown(Once, Few) : Supported(t)}
         ELSE {Node("iff", vx, <<Leaf("number", a), Leaf("number", 3), Leaf("number", 4)>>) : a \in {0, 2}}

StartHere == vx :> 1 @@ vr :> 5

Known(t, d) ==
  LET lexemes == T!Written(t).lexemes
  IN [lexemes |-> lexemes, out |-> d,
      means |-> {IF Fits(Tokens(lexemes)) THEN T!Outcome(t, d, StartHere)
                 ELSE [StartHere EXCEPT ![d] = Blank]}]

Signs == {"OPAREN", "CPAREN", "PLUS", "INCREMENT", "LOWNOT", "AND", "OR", "IFF_THEN", "IFF_ELSE",
          "ASSIGN", "ASSIGN_ADD", "COMMA", "EQUAL", "CONCAT"}
Lexemes == {Operator(s) : s \in Signs} \cup {Token("OPERAND", 2), Token("VAR", vx)}
Balanced(ls) ==
  /\ \A n \in 0 .. Len(ls) : Cardinality({k \in 1 .. n : ls[k].sym = "CPAREN"})
                             <= Cardinality({k \in 1 .. n : ls[k].sym = "OPAREN"})
  /\ Cardinality({k \in DOMAIN ls : ls[k].sym = "CPAREN"})
     = Cardinality({k \in DOMAIN ls : ls[k].sym = "OPAREN"})

\* Nothing is said of what lexemes in no particular order should do.
Unknown(ls) == [lexemes |-> ls, out |-> vr, means |-> {}]

TextsHere ==
  {Known(t, d) : t \in Trees, d \in {vx, vr}}
  \cup {Unknown(ls) : ls \in {s \in UNION {[1 .. n -> Lexemes] : n \in 1 .. MaxLexemes} : Balanced(s)}}
=============================================================================
