--------------------------- MODULE Expressions_proofs ---------------------------
(***************************************************************************)
(* Proofs about Expressions, for every expression, however malformed: a    *)
(* short circuit finds the token it skips to, the stack holds operands,    *)
(* each once, and no array is written beyond its end.                      *)
(***************************************************************************)
EXTENDS Expressions, InductionLemmas, FiniteSetTheorems

-----------------------------------------------------------------------------
(* The inductive invariant.                                                *)

TokensOf(S, circuits) == Seq([sym : S, v : Values \cup Vars, circ : circuits])
Injective(s) == \A p, q \in DOMAIN s : s[p] = s[q] => p = q

Circuits == {"IFF_THEN", "IFF_ELSE", "AND", "OR"}

\* The tokens hold what suits them; only the lexemes have signs that mean two things.
TokensOK ==
  /\ \A k \in DOMAIN tok : HoldsItsValue(tok[k])
  /\ phase \in {"text", "infix"} => OpensWithParen(tok)
  /\ phase = "text" => /\ tok \in TokensOf(Symbols \cup {"PLUS", "INCREMENT"}, {0})
                       /\ at = 1 /\ stack = <<>> /\ post = <<>> /\ funcs = 0
  /\ phase \in {"infix", "postfix"} => tok \in TokensOf(Symbols, Nat)

\* The tokens on the stack s, below the token a, are in their infix order.
StackOK(s, a) ==
  /\ s # <<>> /\ s[1] = 0
  /\ \A j \in DOMAIN s : s[j] < a
  /\ \A i, j \in DOMAIN s : i < j => s[i] < s[j]

\* A token is in postfix[], po, once, and then not on the stack.
PostOK(po, s, a) ==
  /\ Injective(po)
  /\ \A p \in DOMAIN po : po[p] < a /\ \A j \in DOMAIN s : po[p] # s[j]

FuncsOn(t, s) == {j \in DOMAIN s : s[j] # 0 /\ t[s[j]].sym = "FUNC"}

\* A circuit token comes later in postfix[], or is still on the stack and will.
Pending(t, po, s) ==
  /\ \A k \in DOMAIN t : t[k].circ # 0 => \E p \in DOMAIN po : po[p] = k
  /\ \A p \in DOMAIN po : t[po[p]].circ # 0 =>
       \/ \E q \in DOMAIN po : p < q /\ po[q] = t[po[p]].circ
       \/ \E j \in DOMAIN s : s[j] = t[po[p]].circ /\ t[s[j]].sym \in Circuits

InfixOK ==
  /\ at \in 1 .. Len(tok) + 1
  /\ StackOK(stack, at)
  /\ PostOK(post, stack, at)
  /\ Len(post) + Len(stack) <= at
  /\ Cardinality(FuncsOn(tok, stack)) <= funcs /\ funcs < at
  /\ Pending(tok, post, stack)

PostfixOK ==
  /\ at \in 1 .. Len(post) + 1
  /\ Injective(post)
  /\ Len(stack) < at
  /\ CircuitAhead

IInv ==
  /\ TypeOK
  /\ TokensOK
  /\ phase = "infix" => InfixOK
  /\ phase = "postfix" => PostfixOK

-----------------------------------------------------------------------------
(* The lexemes become tokens.                                              *)

Lexeme == [sym : Symbols \cup {"PLUS", "INCREMENT"}, v : Values \cup Vars, circ : {0}]
Fresh == [sym : Symbols, v : Values \cup Vars, circ : {0}]

\* Every symbol of an operator is a symbol.
LEMMA OperatorIsFresh ==
  ASSUME NEW s \in {"ADD", "POST_INCREMENT", "PRE_INCREMENT", "CONCAT"}
  PROVE  /\ Operator(s) \in Fresh /\ HoldsItsValue(Operator(s))
         /\ Operator(s).sym = s
BY DEF Operator, Token, Fresh, Symbols, Infixes, Operands, Assignments, HoldsItsValue, Values

\* What holds of the tokens made of the lexemes up to the lexeme l.
Made(toks, l) ==
  /\ toks \in Seq(Fresh)
  /\ \A k \in DOMAIN toks : HoldsItsValue(toks[k])
  /\ \A k \in DOMAIN toks : toks[k].sym = "FUNC" =>
       IF k = Len(toks) THEN l.sym = "FUNC" ELSE toks[k + 1].sym = "OPAREN"

\* Appending a token that suits what precedes it.
LEMMA AppendMade ==
  ASSUME NEW toks \in Seq(Fresh), \A k \in DOMAIN toks : HoldsItsValue(toks[k]),
         \A k \in DOMAIN toks : k # Len(toks) /\ toks[k].sym = "FUNC" => toks[k + 1].sym = "OPAREN",
         NEW t \in Fresh, HoldsItsValue(t),
         toks # <<>> /\ toks[Len(toks)].sym = "FUNC" => t.sym = "OPAREN"
  PROVE  /\ Append(toks, t) \in Seq(Fresh)
         /\ \A k \in DOMAIN Append(toks, t) : HoldsItsValue(Append(toks, t)[k])
         /\ \A k \in DOMAIN Append(toks, t) :
              k # Len(Append(toks, t)) /\ Append(toks, t)[k].sym = "FUNC"
                => Append(toks, t)[k + 1].sym = "OPAREN"
         /\ Append(toks, t) # <<>> /\ Append(toks, t)[Len(Append(toks, t))] = t
<1> DEFINE s == Append(toks, t)
           n == Len(toks)
<1>0. n \in Nat /\ DOMAIN toks = 1 .. n
  OBVIOUS
<1>1. /\ s \in Seq(Fresh) /\ Len(s) = n + 1 /\ DOMAIN s = 1 .. n + 1
      /\ s[n + 1] = t /\ \A k \in 1 .. n : s[k] = toks[k]
  OBVIOUS
<1> HIDE DEF s, n
<1>2. ASSUME NEW k \in 1 .. n + 1 PROVE HoldsItsValue(s[k])
  <2>1. k = n + 1 \/ k \in 1 .. n
    BY <1>0
  <2> QED BY <1>0, <1>1, <2>1
<1>3. ASSUME NEW k \in 1 .. n + 1, k # n + 1, s[k].sym = "FUNC" PROVE s[k + 1].sym = "OPAREN"
  <2>1. k \in 1 .. n /\ s[k] = toks[k]
    BY <1>0, <1>1, <1>3
  <2>2. CASE k = n
    <3>1. toks # <<>>
      BY <1>0, <2>1
    <3> QED BY <1>0, <1>1, <1>3, <2>1, <2>2, <3>1
  <2>3. CASE k # n
    <3>0. k \in 1 .. n
      BY <2>1
    <3>1. k + 1 \in 1 .. n /\ k \in DOMAIN toks
      BY <1>0, <2>3, <3>0
    <3>2. toks[k].sym = "FUNC"
      BY <1>3, <2>1
    <3>3. toks[k + 1].sym = "OPAREN"
      BY <2>3, <3>1, <3>2 DEF n
    <3> QED BY <1>0, <1>1, <3>1, <3>3
  <2> QED BY <2>2, <2>3
<1>4. s # <<>>
  BY <1>0, <1>1
<1> QED BY <1>0, <1>1, <1>2, <1>3, <1>4 DEF s, n

\* Lexed preserves it, and all it needs is a lexeme.
LEMMA LexedType ==
  ASSUME NEW toks \in Seq(Fresh), NEW l \in Lexeme
  PROVE  Lexed(toks, l) \in Seq(Fresh)
<1>1. /\ Operator("ADD") \in Fresh /\ Operator("POST_INCREMENT") \in Fresh
      /\ Operator("PRE_INCREMENT") \in Fresh /\ Operator("CONCAT") \in Fresh
  BY OperatorIsFresh
<1>2. l.sym \notin {"PLUS", "INCREMENT"} => l \in Fresh
  BY DEF Lexeme, Fresh
<1>3. l.sym \in Operands \cup {"FUNC", "OPAREN"} => l.sym \notin {"PLUS", "INCREMENT"}
  BY DEF Operands
<1> DEFINE y == toks # <<>> /\ Last(toks).sym \in YieldsAnOperand
           o == Operator(IF y THEN "POST_INCREMENT" ELSE "PRE_INCREMENT")
<1>4. Lexed(toks, l) =
        CASE l.sym = "PLUS" -> IF y THEN Append(toks, Operator("ADD")) ELSE toks
          [] l.sym = "INCREMENT" -> Append(toks, o)
          [] l.sym \in Operands \cup {"FUNC", "OPAREN"} /\ y -> toks \o <<Operator("CONCAT"), l>>
          [] OTHER -> Append(toks, l)
  BY DEF Lexed
<1>5. o \in Fresh
  BY <1>1
<1> HIDE DEF y, o
<1>6. CASE l.sym = "PLUS"
  <2>1. Lexed(toks, l) = IF y THEN Append(toks, Operator("ADD")) ELSE toks
    BY <1>3, <1>4, <1>6
  <2> QED BY <1>1, <2>1
<1>7. CASE l.sym = "INCREMENT"
  <2>1. Lexed(toks, l) = Append(toks, o)
    BY <1>3, <1>4, <1>7
  <2> QED BY <1>5, <2>1
<1>8. CASE l.sym \in Operands \cup {"FUNC", "OPAREN"} /\ y
  <2>1. Lexed(toks, l) = toks \o <<Operator("CONCAT"), l>> /\ l \in Fresh
    BY <1>2, <1>3, <1>4, <1>8
  <2> QED BY <1>1, <2>1
<1>9. CASE l.sym \notin {"PLUS", "INCREMENT"} /\ ~(l.sym \in Operands \cup {"FUNC", "OPAREN"} /\ y)
  <2>1. Lexed(toks, l) = Append(toks, l) /\ l \in Fresh
    BY <1>2, <1>4, <1>9
  <2> QED BY <2>1
<1> QED BY <1>6, <1>7, <1>8, <1>9

\* Lexed passes it on from one lexeme to the next.
LEMMA LexedMade ==
  ASSUME NEW toks, NEW l0, Made(toks, l0), NEW l \in Lexeme, HoldsItsValue(l),
         l0.sym = "FUNC" => l.sym = "OPAREN"
  PROVE  Made(Lexed(toks, l), l)
<1>1. /\ toks \in Seq(Fresh) /\ Len(toks) \in Nat /\ DOMAIN toks = 1 .. Len(toks)
      /\ \A k \in DOMAIN toks : HoldsItsValue(toks[k])
      /\ \A k \in DOMAIN toks : k # Len(toks) /\ toks[k].sym = "FUNC" => toks[k + 1].sym = "OPAREN"
      /\ toks # <<>> /\ toks[Len(toks)].sym = "FUNC" => l.sym = "OPAREN"
  BY DEF Made
<1> DEFINE F(s, e) ==
      /\ s \in Seq(Fresh)
      /\ \A k \in DOMAIN s : HoldsItsValue(s[k])
      /\ \A k \in DOMAIN s : k # Len(s) /\ s[k].sym = "FUNC" => s[k + 1].sym = "OPAREN"
      /\ s # <<>> /\ s[Len(s)] = e
<1>2. ASSUME NEW s, NEW e, F(s, e), e.sym = "FUNC" => l.sym = "FUNC"
      PROVE  Made(s, l)
  <2>1. \A k \in DOMAIN s : s[k].sym = "FUNC" =>
           IF k = Len(s) THEN l.sym = "FUNC" ELSE s[k + 1].sym = "OPAREN"
    BY <1>2
  <2> QED BY <1>2, <2>1 DEF Made
<1> DEFINE y == toks # <<>> /\ Last(toks).sym \in YieldsAnOperand
           o == Operator(IF y THEN "POST_INCREMENT" ELSE "PRE_INCREMENT")
           add == Operator("ADD")
           concat == Operator("CONCAT")
<1>3. /\ o \in Fresh /\ HoldsItsValue(o) /\ o.sym \in {"POST_INCREMENT", "PRE_INCREMENT"}
      /\ add \in Fresh /\ HoldsItsValue(add) /\ add.sym = "ADD"
      /\ concat \in Fresh /\ HoldsItsValue(concat) /\ concat.sym = "CONCAT"
  BY OperatorIsFresh
<1>4. Lexed(toks, l) =
        CASE l.sym = "PLUS" -> IF y THEN Append(toks, add) ELSE toks
          [] l.sym = "INCREMENT" -> Append(toks, o)
          [] l.sym \in Operands \cup {"FUNC", "OPAREN"} /\ y -> toks \o <<concat, l>>
          [] OTHER -> Append(toks, l)
  BY DEF Lexed
<1>5. y => toks # <<>> /\ toks[Len(toks)].sym # "FUNC"
  BY DEF YieldsAnOperand, Operands, Last
<1>6. l.sym \notin {"PLUS", "INCREMENT"} => l \in Fresh
  BY DEF Lexeme, Fresh
<1>7. l.sym \in Operands \cup {"FUNC", "OPAREN"} => l.sym \notin {"PLUS", "INCREMENT"}
  BY DEF Operands
<1>8. ASSUME NEW t \in Fresh, HoldsItsValue(t),
             toks # <<>> /\ toks[Len(toks)].sym = "FUNC" => t.sym = "OPAREN"
      PROVE  F(Append(toks, t), t)
  BY <1>1, <1>8, AppendMade
<1> HIDE DEF y, o, add, concat
<1>9. CASE l.sym = "PLUS"
  <2>1. Lexed(toks, l) = IF y THEN Append(toks, add) ELSE toks
    BY <1>4, <1>7, <1>9
  <2>2. l.sym # "OPAREN" /\ l0.sym # "FUNC"
    BY <1>9
  <2>3. CASE y
    <3>1. F(Append(toks, add), add)
      BY <1>3, <1>5, <1>8, <2>3
    <3> HIDE DEF F
    <3>2. Made(Append(toks, add), l)
      BY <1>2, <1>3, <3>1
    <3> QED BY <2>1, <2>3, <3>2
  <2>4. CASE ~y
    <3>1. Made(toks, l)
      BY <2>2 DEF Made
    <3> QED BY <2>1, <2>4, <3>1
  <2> QED BY <2>3, <2>4
<1>10. CASE l.sym = "INCREMENT"
  <2>1. Lexed(toks, l) = Append(toks, o)
    BY <1>4, <1>7, <1>10
  <2>2. F(Append(toks, o), o)
    BY <1>1, <1>3, <1>8, <1>10
  <2> HIDE DEF F
  <2> QED BY <1>2, <1>3, <2>1, <2>2
<1>11. CASE l.sym \in Operands \cup {"FUNC", "OPAREN"} /\ y
  <2> DEFINE s == Append(toks, concat)
  <2>1. Lexed(toks, l) = toks \o <<concat, l>> /\ l \in Fresh
    BY <1>4, <1>6, <1>7, <1>11
  <2>2. toks \o <<concat, l>> = Append(s, l)
    BY <1>1, <1>3, <2>1
  <2>3. F(s, concat)
    BY <1>3, <1>5, <1>8, <1>11
  <2> HIDE DEF s
  <2>4. s \in Seq(Fresh) /\ s[Len(s)].sym # "FUNC"
    BY <1>3, <2>3
  <2>5. F(Append(s, l), l)
    BY <2>1, <2>3, <2>4, AppendMade
  <2> HIDE DEF F
  <2>6. Made(Append(s, l), l)
    BY <1>2, <2>5
  <2> QED BY <2>1, <2>2, <2>6
<1>12. CASE l.sym \notin {"PLUS", "INCREMENT"} /\ ~(l.sym \in Operands \cup {"FUNC", "OPAREN"} /\ y)
  <2>1. Lexed(toks, l) = Append(toks, l) /\ l \in Fresh
    BY <1>4, <1>6, <1>12
  <2>2. F(Append(toks, l), l)
    BY <1>1, <1>8, <2>1
  <2> HIDE DEF F
  <2> QED BY <1>2, <2>1, <2>2
<1> QED BY <1>9, <1>10, <1>11, <1>12

\* The lexemes of an expression become tokens that hold what suits them, and each
\* function has its parenthesis.
LEMMA TokensAreMade ==
  ASSUME NEW lexemes \in Seq(Lexeme), \A k \in DOMAIN lexemes : HoldsItsValue(lexemes[k]),
         OpensWithParen(lexemes)
  PROVE  /\ Tokens(lexemes) \in Seq(Fresh)
         /\ \A k \in DOMAIN Tokens(lexemes) : HoldsItsValue(Tokens(lexemes)[k])
         /\ OpensWithParen(Tokens(lexemes))
<1> DEFINE N == Len(lexemes)
           T == Seq(Fresh)
           G == [n \in 1 .. N |-> [s \in T |-> Lexed(s, lexemes[n])]]
           Body(f) == [n \in 0 .. N |-> IF n = 0 THEN <<>> ELSE Lexed(f[n - 1], lexemes[n])]
           toks == CHOOSE f : f = Body(f)
<1>1. /\ N \in Nat /\ DOMAIN lexemes = 1 .. N
      /\ \A n \in 1 .. N : lexemes[n] \in Lexeme
  OBVIOUS
<1>2. \A n \in 1 .. N, s \in T : Lexed(s, lexemes[n]) \in T
  BY <1>1, LexedType
<1>3. <<>> \in T
  OBVIOUS
<1>4. G \in [1 .. N -> [T -> T]]
  <2> HIDE DEF T, N
  <2> QED BY <1>2
<1> HIDE DEF G, N, T
<1>5. \E f : Recursive(f, G, N, T, <<>>)
  <2> DEFINE e == <<>>
  <2>1. N \in Nat /\ e \in T /\ StepsOn(G, N, T)
    BY <1>1, <1>3, <1>4 DEF StepsOn
  <2> HIDE DEF e
  <2>2. \E f : Recursive(f, G, N, T, e)
    BY <2>1, Recursion, Zenon
  <2> QED BY <2>2 DEF e
<1>6. PICK f : f \in [0 .. N -> T] /\ f[0] = <<>> /\ \A n \in 1 .. N : f[n] = G[n][f[n - 1]]
  BY <1>5 DEF Recursive
<1>7. ASSUME NEW n \in 1 .. N PROVE f[n] = Lexed(f[n - 1], lexemes[n])
  <2>1. n - 1 \in 0 .. N
    BY <1>1
  <2>2. f[n - 1] \in T
    BY <1>6, <2>1
  <2> QED BY <1>6, <2>2 DEF G
<1>8. f = Body(f)
  <2>1. \A n \in 0 .. N : n = 0 \/ n \in 1 .. N
    BY <1>1
  <2>2. \A n \in 0 .. N : f[n] = IF n = 0 THEN <<>> ELSE Lexed(f[n - 1], lexemes[n])
    BY <1>6, <1>7, <2>1
  <2> QED BY <1>6, <2>2
<1>9. toks = Body(toks)
  BY <1>8, Zenon
<1>10. Tokens(lexemes) = toks[N]
  BY DEF Tokens, N
<1> HIDE DEF toks
<1>11. toks[0] = <<>> /\ \A n \in 1 .. N : toks[n] = Lexed(toks[n - 1], lexemes[n])
  BY <1>1, <1>9
<1> DEFINE Lex(n) == IF n = 0 THEN Operator("ADD") ELSE lexemes[n]
           S == {n \in 0 .. N : Made(toks[n], Lex(n))}
<1>12. 0 \in S
  <2>1. Made(<<>>, Lex(0))
    BY DEF Made
  <2> QED BY <1>1, <1>11, <2>1
<1>13. ASSUME NEW n \in 0 .. N - 1, n \in S PROVE n + 1 \in S
  <2>1. n + 1 \in 1 .. N /\ n + 1 \in 0 .. N /\ (n + 1) - 1 = n /\ n + 1 # 0
    BY <1>1
  <2>2. toks[n + 1] = Lexed(toks[n], lexemes[n + 1])
    BY <1>11, <2>1
  <2>3. Lex(n).sym = "FUNC" => lexemes[n + 1].sym = "OPAREN"
    <3>1. CASE n = 0
      BY <3>1 DEF Operator, Token
    <3>2. CASE n # 0
      <4>1. n \in DOMAIN lexemes /\ Lex(n) = lexemes[n]
        BY <1>1, <3>2
      <4> QED BY <4>1 DEF OpensWithParen
    <3> QED BY <3>1, <3>2
  <2>4. lexemes[n + 1] \in Lexeme /\ HoldsItsValue(lexemes[n + 1]) /\ Made(toks[n], Lex(n))
    BY <1>1, <1>13, <2>1
  <2>5. Lex(n + 1) = lexemes[n + 1]
    BY <2>1
  <2> HIDE DEF Lex
  <2>6. Made(Lexed(toks[n], lexemes[n + 1]), lexemes[n + 1])
    BY <2>3, <2>4, LexedMade
  <2> QED BY <2>1, <2>2, <2>5, <2>6
<1>14. N \in S
  <2> HIDE DEF S
  <2> QED BY <1>1, <1>12, <1>13, Induction
<1> DEFINE r == Tokens(lexemes)
<1>15. Made(r, Lex(N))
  BY <1>10, <1>14
<1>16. Lex(N).sym # "FUNC"
  <2>1. CASE N = 0
    BY <2>1 DEF Operator, Token
  <2>2. CASE N # 0
    <3>1. N \in DOMAIN lexemes /\ N + 1 \notin DOMAIN lexemes /\ Lex(N) = lexemes[N]
      BY <1>1, <2>2
    <3> QED BY <3>1 DEF OpensWithParen
  <2> QED BY <2>1, <2>2
<1> HIDE DEF r, Lex
<1>17. ASSUME NEW k \in DOMAIN r, r[k].sym = "FUNC"
       PROVE  k + 1 \in DOMAIN r /\ r[k + 1].sym = "OPAREN"
  <2>1. r \in Seq(Fresh) /\ k # Len(r) /\ r[k + 1].sym = "OPAREN"
    BY <1>15, <1>16, <1>17 DEF Made
  <2>2. k + 1 \in DOMAIN r
    BY <2>1
  <2> QED BY <2>1, <2>2
<1>18. r \in Seq(Fresh) /\ \A k \in DOMAIN r : HoldsItsValue(r[k])
  BY <1>15 DEF Made
<1> QED BY <1>17, <1>18 DEF r, OpensWithParen

-----------------------------------------------------------------------------
(* Values.                                                                 *)

LEMMA ScaleType == ASSUME NEW b \in Nat PROVE Scale(b) \in Nat
<1> DEFINE D == 0 .. b
           m == [n \in D |-> n]
           Step(n, f) == IF n < 10 THEN 10 ELSE 10 * f[n \div 10]
           G == [n \in D |-> [f \in [D -> Nat] |-> Step(n, f)]]
           Body(f) == [n \in D |-> Step(n, f)]
           s == CHOOSE f : f = Body(f)
<1>1. ASSUME NEW n \in D, ~(n < 10) PROVE n \div 10 \in D /\ m[n \div 10] < m[n]
  <2>1. n \div 10 \in D /\ n \div 10 < n
    BY <1>1
  <2> QED BY <2>1
<1>2. m \in [D -> 0 .. b]
  OBVIOUS
<1> HIDE DEF D, m
<1>3. ASSUME NEW n \in D, NEW f \in [D -> Nat] PROVE Step(n, f) \in Nat
  <2>1. CASE n < 10
    BY <2>1
  <2>2. CASE ~(n < 10)
    <3>1. f[n \div 10] \in Nat
      BY <1>1, <2>2
    <3> QED BY <2>2, <3>1
  <2> QED BY <2>1, <2>2
<1>4. G \in [D -> [[D -> Nat] -> Nat]]
  BY <1>3
<1>5. Local(G, D, m, Nat)
  <2>1. ASSUME NEW n \in D, NEW f \in [D -> Nat], NEW g \in [D -> Nat],
               \A q \in D : m[q] < m[n] => f[q] = g[q]
        PROVE  Step(n, f) = Step(n, g)
    BY <1>1, <2>1
  <2>2. \A n \in D : \A f \in [D -> Nat] : G[n][f] = Step(n, f)
    OBVIOUS
  <2> HIDE DEF G, Step
  <2> QED BY <2>1, <2>2 DEF Local
<1>6. \E f : Solves(f, G, D, Nat)
  <2> DEFINE T == Nat
  <2> HIDE DEF G
  <2>1. Measure(m, D, b) /\ StepsOver(G, D, T) /\ Local(G, D, m, T)
    BY <1>2, <1>4, <1>5 DEF Measure, StepsOver
  <2>2. T # {}
    OBVIOUS
  <2> HIDE DEF T
  <2>3. \E f : Solves(f, G, D, T)
    BY <2>1, <2>2, RecursionByMeasure, Zenon
  <2> QED BY <2>3 DEF T
<1>7. PICK f : f \in [D -> Nat] /\ \A n \in D : f[n] = G[n][f]
  <2> HIDE DEF G
  <2> QED BY <1>6 DEF Solves
<1>8. f = Body(f)
  <2>1. \A n \in D : f[n] = Step(n, f)
    BY <1>7
  <2> HIDE DEF Step
  <2> QED BY <1>7, <2>1
<1>9. s = Body(s)
  BY <1>8, Zenon
<1>10. Scale(b) = s[b]
  BY DEF Scale, D
<1> HIDE DEF s
<1>11. \A n \in D : s[n] = Step(n, s)
  <2> HIDE DEF Step
  <2> QED BY <1>9
<1> DEFINE Q == {k \in 0 .. b : \A n \in D : n <= k => s[n] \in Nat}
<1>12. 0 \in Q
  BY <1>11 DEF D
<1>13. ASSUME NEW k \in 0 .. b - 1, k \in Q PROVE k + 1 \in Q
  <2>1. ASSUME NEW n \in D, n <= k + 1 PROVE s[n] \in Nat
    <3>1. CASE n < 10
      BY <1>11, <3>1
    <3>2. CASE ~(n < 10)
      <4>1. n \div 10 \in D /\ n \div 10 <= k
        BY <1>1, <2>1, <3>2 DEF D, m
      <4>2. s[n \div 10] \in Nat
        BY <1>13, <4>1
      <4> QED BY <1>11, <3>2, <4>2
    <3> QED BY <3>1, <3>2
  <2> QED BY <2>1
<1>14. b \in Q
  <2> HIDE DEF Q
  <2> QED BY <1>12, <1>13, Induction
<1> QED BY <1>10, <1>14 DEF D

LEMMA PowType == ASSUME NEW a \in Nat, NEW b \in Nat PROVE Pow(a, b) \in Nat
<1> DEFINE T == Nat
           e == 1
           G == [n \in 1 .. b |-> [x \in T |-> a * x]]
           Body(f) == [n \in 0 .. b |-> IF n = 0 THEN 1 ELSE a * f[n - 1]]
           p == CHOOSE f : f = Body(f)
<1>1. StepsOn(G, b, T)
  BY DEF StepsOn
<1>2. \E f : Recursive(f, G, b, T, e)
  <2>1. e \in T
    OBVIOUS
  <2> HIDE DEF G, T, e
  <2> QED BY <1>1, <2>1, Recursion, Zenon
<1>3. PICK f : f \in [0 .. b -> Nat] /\ f[0] = 1 /\ \A n \in 1 .. b : f[n] = G[n][f[n - 1]]
  BY <1>2 DEF Recursive
<1>4. ASSUME NEW n \in 1 .. b PROVE f[n] = a * f[n - 1]
  <2>1. n - 1 \in 0 .. b
    OBVIOUS
  <2>2. f[n - 1] \in Nat
    BY <1>3, <2>1
  <2> QED BY <1>3, <2>2
<1>5. f = Body(f)
  <2>1. \A n \in 0 .. b : f[n] = IF n = 0 THEN 1 ELSE a * f[n - 1]
    BY <1>3, <1>4
  <2> QED BY <1>3, <2>1
<1>6. p = Body(p)
  BY <1>5, Zenon
<1>7. Pow(a, b) = p[b]
  BY DEF Pow
<1> HIDE DEF p
<1>8. p[0] = 1 /\ \A n \in 1 .. b : p[n] = a * p[n - 1]
  BY <1>6
<1> DEFINE S == {n \in 0 .. b : p[n] \in Nat}
<1>9. 0 \in S
  BY <1>8
<1>10. ASSUME NEW n \in 0 .. b - 1, n \in S PROVE n + 1 \in S
  <2>1. n + 1 \in 1 .. b /\ n + 1 \in 0 .. b /\ (n + 1) - 1 = n
    OBVIOUS
  <2>2. p[n + 1] = a * p[n] /\ p[n] \in Nat
    BY <1>8, <1>10, <2>1
  <2>3. a * p[n] \in Nat
    BY <2>2
  <2> QED BY <2>1, <2>2, <2>3
<1>11. b \in S
  <2> HIDE DEF S
  <2> QED BY <1>9, <1>10, Induction
<1> QED BY <1>7, <1>11

\* A token that may stand on the stack while an expression is evaluated.
IsOperand(o) ==
  /\ o \in [sym : Symbols, v : Values \cup Vars, circ : Nat]
  /\ o.sym \in Operands /\ HoldsItsValue(o)

Memory == [Vars -> Values]

LEMMA TextType ==
  ASSUME NEW o, IsOperand(o), NEW m \in Memory
  PROVE  /\ Text(o, m) \in Values /\ (IsNumber(o, m) => Text(o, m) \in Nat)
         /\ o.sym = "VAR" => o.v \in Vars
BY DEF IsOperand, Text, IsNumber, Memory, HoldsItsValue, Values

LEMMA JoinType ==
  ASSUME NEW a \in Values, NEW b \in Values PROVE Join(a, b) \in Values
<1>1. CASE a = Blank \/ b = Blank
  BY <1>1 DEF Join
<1>2. CASE a # Blank /\ b # Blank
  <2>1. a \in Nat /\ b \in Nat /\ Scale(b) \in Nat
    BY <1>2, ScaleType DEF Values
  <2>2. a * Scale(b) \in Nat
    BY <2>1
  <2>3. a * Scale(b) + b \in Nat
    BY <2>1, <2>2
  <2>4. Join(a, b) = a * Scale(b) + b
    BY <1>2 DEF Join
  <2> QED BY <2>3, <2>4 DEF Values
<1> QED BY <1>1, <1>2

LEMMA OperandTokens ==
  ASSUME NEW n \in Values
  PROVE  /\ IsOperand(Integer(n)) /\ Integer(n).v = n
         /\ IsOperand(Nothing) /\ Nothing.v = Blank
         /\ \A s \in {"STRING", "OPERAND"} : IsOperand(Token(s, n)) /\ Token(s, n).v = n
BY DEF IsOperand, Integer, Nothing, Token, Symbols, Operands, HoldsItsValue, Values

LEMMA BoolType == \A b : IsOperand(Bool(b)) /\ Bool(b).circ = 0
<1>1. 0 \in Values /\ 1 \in Values
  BY DEF Values
<1>2. IsOperand(Integer(0)) /\ IsOperand(Integer(1))
  BY <1>1, OperandTokens
<1>3. Integer(0).circ = 0 /\ Integer(1).circ = 0
  BY DEF Integer, Token
<1> QED BY <1>2, <1>3 DEF Bool

LEMMA BinaryType ==
  ASSUME NEW s, NEW l, NEW r, IsOperand(l), IsOperand(r), NEW m \in Memory
  PROVE  IsOperand(Binary(s, l, r, m)) /\ Binary(s, l, r, m).v \in Values
<1> DEFINE a == Text(l, m)
           b == Text(r, m)
<1>1. /\ a \in Values /\ b \in Values
      /\ IsNumber(l, m) => a \in Nat
      /\ IsNumber(r, m) => b \in Nat
  BY TextType
<1>2. Binary(s, l, r, m) =
        IF s = "CONCAT"
          THEN Token(IF "STRING" \in {l.sym, r.sym} THEN "STRING" ELSE "OPERAND", Join(a, b))
        ELSE IF s = "EQUAL" THEN Bool(a = b)
        ELSE IF ~(IsNumber(l, m) /\ IsNumber(r, m)) THEN Nothing
        ELSE Integer(IF s = "POWER" THEN Pow(a, b) ELSE a + b)
  BY DEF Binary
<1> HIDE DEF a, b
<1>3. CASE s = "CONCAT"
  <2>1. Join(a, b) \in Values
    BY <1>1, JoinType
  <2> QED BY <1>2, <1>3, <2>1, OperandTokens
<1>4. CASE s # "CONCAT" /\ s = "EQUAL"
  <2>1. Binary(s, l, r, m) = Bool(a = b)
    BY <1>2, <1>4
  <2>2. Bool(a = b).v \in Values
    BY DEF Bool, Integer, Token, Values
  <2> QED BY <2>1, <2>2, BoolType
<1>5. CASE s # "CONCAT" /\ s # "EQUAL" /\ ~(IsNumber(l, m) /\ IsNumber(r, m))
  <2>1. Binary(s, l, r, m) = Nothing
    BY <1>2, <1>5
  <2>2. Blank \in Values
    BY DEF Values
  <2> QED BY <2>1, <2>2, OperandTokens
<1>6. CASE s # "CONCAT" /\ s # "EQUAL" /\ IsNumber(l, m) /\ IsNumber(r, m)
  <2> DEFINE x == IF s = "POWER" THEN Pow(a, b) ELSE a + b
  <2>0. a \in Nat /\ b \in Nat
    BY <1>1, <1>6
  <2>1. Pow(a, b) \in Nat /\ a + b \in Nat
    BY <2>0, PowType
  <2>2. x \in Values
    BY <2>1 DEF Values
  <2>3. Binary(s, l, r, m) = Integer(x)
    BY <1>2, <1>6
  <2> HIDE DEF x
  <2> QED BY <2>2, <2>3, OperandTokens
<1> QED BY <1>3, <1>4, <1>5, <1>6


-----------------------------------------------------------------------------
(* Short circuits.                                                         *)

\* The token d, if it is one, comes in postfix[] after p.
Ahead(d, p) == d # 0 => \E q \in p + 1 .. Len(post) : post[q] = d

\* However many operators are decided at once, evaluation goes on further ahead, and no
\* further than the end of postfix[].
LEMMA ShortCircuitGoesAhead ==
  ASSUME NEW L \in Nat, L = Len(post), NEW p \in 1 .. L, NEW c, Ahead(c, p), NEW true,
         \A q \in p + 1 .. L : Ahead(tok[post[q]].circ, q)
  PROVE  /\ ShortCircuit(true, p, c).next \in p + 1 .. L + 1
         /\ ShortCircuit(true, p, c).kept \in BOOLEAN
<1> DEFINE D == p .. L
           T == [next : p + 1 .. L + 1, kept : BOOLEAN]
           m == [q \in D |-> L - q]
           Of(q) == IF q = p THEN c ELSE tok[post[q]].circ
           Step(q, f) ==
             IF Of(q) = 0 THEN [next |-> q + 1, kept |-> TRUE]
             ELSE IF tok[Of(q)].sym = "IFF_THEN"
               THEN [next |-> (IF true THEN q ELSE Position(Of(q), q)) + 1, kept |-> FALSE]
             ELSE IF true = (tok[Of(q)].sym = "OR") THEN f[Position(Of(q), q)]
             ELSE [next |-> q + 1, kept |-> FALSE]
           G == [q \in D |-> [f \in [D -> T] |-> Step(q, f)]]
           Body(f) == [q \in D |-> Step(q, f)]
           s == CHOOSE f : f = Body(f)
<1>1. ASSUME NEW q \in D, Of(q) # 0
      PROVE  Position(Of(q), q) \in q + 1 .. L
  <2>1. Ahead(Of(q), q)
    <3>1. q = p \/ q \in p + 1 .. L
      OBVIOUS
    <3> QED BY <3>1
  <2>2. \E r \in q + 1 .. L : post[r] = Of(q)
    BY <1>1, <2>1 DEF Ahead
  <2> HIDE DEF Of
  <2> QED BY <2>2 DEF Position
<1>2. ASSUME NEW q \in D, Of(q) # 0
      PROVE  /\ Position(Of(q), q) \in D /\ m[Position(Of(q), q)] < m[q]
             /\ Position(Of(q), q) + 1 \in p + 1 .. L + 1
  <2> DEFINE r == Position(Of(q), q)
  <2>1. r \in q + 1 .. L
    BY <1>1, <1>2
  <2> HIDE DEF r, Of
  <2>2. r \in D /\ L - r < L - q /\ r + 1 \in p + 1 .. L + 1
    BY <2>1
  <2> QED BY <2>2 DEF r
<1>3. m \in [D -> 0 .. L]
  OBVIOUS
<1>4. \A q \in D : q + 1 \in p + 1 .. L + 1
  OBVIOUS
<1>5. /\ [next |-> p + 1, kept |-> TRUE] \in T
      /\ \A n \in p + 1 .. L + 1 : [next |-> n, kept |-> TRUE] \in T /\ [next |-> n, kept |-> FALSE] \in T
  OBVIOUS
<1> HIDE DEF D, T, m, Of
<1>6. ASSUME NEW q \in D, NEW f \in [D -> T] PROVE Step(q, f) \in T
  <2>1. CASE Of(q) = 0
    BY <1>4, <1>5, <2>1
  <2>2. CASE Of(q) # 0 /\ tok[Of(q)].sym = "IFF_THEN"
    <3> DEFINE n == (IF true THEN q ELSE Position(Of(q), q)) + 1
    <3>1. n \in p + 1 .. L + 1
      BY <1>2, <1>4, <2>2
    <3>2. Step(q, f) = [next |-> n, kept |-> FALSE]
      BY <2>2
    <3> HIDE DEF n, Step
    <3> QED BY <1>5, <3>1, <3>2
  <2>3. CASE Of(q) # 0 /\ tok[Of(q)].sym # "IFF_THEN"
    <3>1. f[Position(Of(q), q)] \in T
      BY <1>2, <2>3
    <3>2. [next |-> q + 1, kept |-> FALSE] \in T
      BY <1>4, <1>5
    <3> QED BY <2>3, <3>1, <3>2
  <2> QED BY <2>1, <2>2, <2>3
<1>7. G \in [D -> [[D -> T] -> T]]
  BY <1>6
<1>8. Local(G, D, m, T)
  <2>1. ASSUME NEW q \in D, NEW f \in [D -> T], NEW g \in [D -> T],
               \A r \in D : m[r] < m[q] => f[r] = g[r]
        PROVE  Step(q, f) = Step(q, g)
    <3>1. Of(q) # 0 => f[Position(Of(q), q)] = g[Position(Of(q), q)]
      BY <1>2, <2>1
    <3> QED BY <3>1
  <2>2. \A q \in D : \A f \in [D -> T] : G[q][f] = Step(q, f)
    OBVIOUS
  <2> HIDE DEF G, Step
  <2> QED BY <2>1, <2>2 DEF Local
<1>9. \E f : Solves(f, G, D, T)
  <2> HIDE DEF G
  <2>1. Measure(m, D, L) /\ StepsOver(G, D, T)
    BY <1>3, <1>7 DEF Measure, StepsOver
  <2>2. T # {}
    BY <1>5
  <2> QED BY <1>8, <2>1, <2>2, RecursionByMeasure, Zenon
<1>10. PICK f : f \in [D -> T] /\ \A q \in D : f[q] = G[q][f]
  <2> HIDE DEF G
  <2> QED BY <1>9 DEF Solves
<1>11. f = Body(f)
  <2>1. \A q \in D : f[q] = Step(q, f)
    BY <1>10
  <2> HIDE DEF Step
  <2> QED BY <1>10, <2>1
<1>12. s = Body(s)
  BY <1>11, Zenon
<1>13. ShortCircuit(true, p, c) = s[p]
  BY DEF ShortCircuit, D, Of
<1> HIDE DEF s
<1>14. \A q \in D : s[q] = Step(q, s)
  <2> HIDE DEF Step
  <2> QED BY <1>12
<1> DEFINE S == {q \in D : s[q] \in T}
<1>15. \A q \in p .. L : q \in S
  <2> DEFINE A(q) == \A r \in D : m[r] < m[q] => s[r] \in T
  <2>1. ASSUME NEW q \in D, A(q) PROVE s[q] \in T
    <3>1. Of(q) # 0 => s[Position(Of(q), q)] \in T
      BY <1>2, <2>1
    <3>2. CASE Of(q) = 0
      BY <1>4, <1>5, <1>14, <3>2
    <3>3. CASE Of(q) # 0 /\ tok[Of(q)].sym = "IFF_THEN"
      <4> DEFINE n == (IF true THEN q ELSE Position(Of(q), q)) + 1
      <4>1. n \in p + 1 .. L + 1
        BY <1>2, <1>4, <3>3
      <4>2. Step(q, s) = [next |-> n, kept |-> FALSE]
        BY <3>3
      <4> HIDE DEF n, Step
      <4> QED BY <1>5, <1>14, <4>1, <4>2
    <3>4. CASE Of(q) # 0 /\ tok[Of(q)].sym # "IFF_THEN"
      <4>1. [next |-> q + 1, kept |-> FALSE] \in T
        BY <1>4, <1>5
      <4> QED BY <1>14, <3>1, <3>4, <4>1
    <3> QED BY <3>2, <3>3, <3>4
  <2> DEFINE Q == {k \in 0 .. L : \A q \in D : m[q] <= k => s[q] \in T}
  <2> HIDE DEF Step
  <2>2. 0 \in Q
    <3>1. ASSUME NEW q \in D, m[q] <= 0 PROVE s[q] \in T
      <4>1. A(q)
        BY <1>3, <3>1
      <4> QED BY <2>1, <4>1
    <3> QED BY <3>1
  <2>3. ASSUME NEW k \in 0 .. L - 1, k \in Q PROVE k + 1 \in Q
    <3>1. ASSUME NEW q \in D, m[q] <= k + 1 PROVE s[q] \in T
      <4>1. A(q)
        <5>1. ASSUME NEW r \in D, m[r] < m[q] PROVE s[r] \in T
          <6>1. m[r] <= k
            BY <1>3, <3>1, <5>1
          <6> QED BY <2>3, <6>1
        <5> QED BY <5>1
      <4> QED BY <2>1, <4>1
    <3>2. k + 1 \in 0 .. L
      OBVIOUS
    <3> QED BY <3>1, <3>2
  <2>4. L \in Q
    <3> HIDE DEF Q
    <3>1. L \in Nat /\ \A k \in 0 .. (L - 1) : k \in Q => k + 1 \in Q
      BY <2>3
    <3>2. \A k \in 0 .. L : k \in Q
      BY <2>2, <3>1, Induction, Zenon
    <3> QED BY <3>1, <3>2
  <2>5. \A q \in D : m[q] <= L
    BY <1>3
  <2>6. \A q \in D : s[q] \in T
    BY <2>4, <2>5
  <2> QED BY <2>6 DEF D
<1>16. s[p] \in T
  BY <1>15
<1> QED BY <1>13, <1>16 DEF T


-----------------------------------------------------------------------------
(* What a step from infix to postfix does to the tokens and the arrays.    *)

LEMMA StackPops ==
  ASSUME NEW a \in Nat, NEW s \in Seq(Nat), StackOK(s, a), Last(s) # 0
  PROVE  /\ Front(s) \in Seq(Nat) /\ Len(Front(s)) = Len(s) - 1 /\ Len(s) > 1
         /\ \A j \in 1 .. Len(s) - 1 : Front(s)[j] = s[j]
         /\ StackOK(Front(s), a) /\ \A j \in DOMAIN Front(s) : Front(s)[j] < Last(s)
         /\ Last(s) = s[Len(s)] /\ Last(s) < a
<1> DEFINE n == Len(s)
           f == Front(s)
<1>1. n \in Nat /\ DOMAIN s = 1 .. n /\ n # 0 /\ Last(s) = s[n] /\ s[1] = 0
  BY DEF StackOK, Last
<1>2. n > 1
  BY <1>1
<1>3. f \in Seq(Nat) /\ Len(f) = n - 1 /\ DOMAIN f = 1 .. n - 1 /\ \A j \in 1 .. n - 1 : f[j] = s[j]
  BY <1>1, <1>2 DEF Front
<1> HIDE DEF n, f
<1>4. \A j \in 1 .. n - 1 : j \in 1 .. n /\ j < n /\ n \in 1 .. n
  BY <1>1
<1>5. f # <<>> /\ f[1] = 0
  BY <1>1, <1>2, <1>3
<1>6. \A i, j \in DOMAIN s : i < j => s[i] < s[j]
  BY DEF StackOK
<1>7. \A j \in DOMAIN s : s[j] < a
  BY DEF StackOK
<1>8. StackOK(f, a)
  <2>1. \A j \in DOMAIN f : f[j] < a
    BY <1>1, <1>3, <1>4, <1>7
  <2>2. \A i, j \in DOMAIN f : i < j => f[i] < f[j]
    BY <1>1, <1>3, <1>4, <1>6
  <2> QED BY <1>5, <2>1, <2>2 DEF StackOK
<1>9. \A j \in DOMAIN f : f[j] < Last(s)
  BY <1>1, <1>3, <1>4, <1>6
<1>10. Last(s) < a
  BY <1>1, <1>2, <1>7
<1> QED BY <1>1, <1>2, <1>3, <1>8, <1>9, <1>10 DEF n, f

LEMMA StackGrows ==
  ASSUME NEW a \in Nat, NEW s \in Seq(Nat), StackOK(s, a),
         NEW k \in Nat, NEW b \in Nat, a <= b, k < b, \A j \in DOMAIN s : s[j] < k
  PROVE  StackOK(Append(s, k), b) /\ StackOK(s, b) /\ Append(s, k) \in Seq(Nat)
<1> DEFINE n == Len(s)
           u == Append(s, k)
<1>1. n \in Nat /\ DOMAIN s = 1 .. n /\ n # 0 /\ s[1] = 0 /\ \A j \in 1 .. n : s[j] \in Nat
  BY DEF StackOK
<1>2. u \in Seq(Nat) /\ DOMAIN u = 1 .. n + 1 /\ u[n + 1] = k /\ \A j \in 1 .. n : u[j] = s[j]
  OBVIOUS
<1> HIDE DEF u, n
<1>3. u # <<>> /\ u[1] = 0
  BY <1>1, <1>2
<1>4. \A j \in 1 .. n + 1 : j = n + 1 \/ (j \in 1 .. n /\ j # n + 1)
  BY <1>1
<1>5. \A j \in DOMAIN s : s[j] < a
  BY DEF StackOK
<1>6. \A j \in DOMAIN s : s[j] < b
  BY <1>1, <1>5
<1>7. \A j \in DOMAIN u : u[j] < b
  BY <1>1, <1>2, <1>4, <1>6
<1>8. ASSUME NEW i \in 1 .. n + 1, NEW j \in 1 .. n + 1, i < j PROVE u[i] < u[j]
  <2>1. i \in 1 .. n
    BY <1>1, <1>8
  <2>2. CASE j = n + 1
    BY <1>1, <1>2, <2>1, <2>2
  <2>3. CASE j \in 1 .. n
    <3>1. s[i] < s[j]
      BY <1>1, <1>8, <2>1, <2>3 DEF StackOK
    <3> QED BY <1>2, <2>1, <2>3, <3>1
  <2> QED BY <1>4, <2>2, <2>3
<1>9. StackOK(u, b)
  BY <1>2, <1>3, <1>7, <1>8 DEF StackOK
<1>10. StackOK(s, b)
  BY <1>6 DEF StackOK
<1> QED BY <1>2, <1>9, <1>10 DEF u

LEMMA PostGrows ==
  ASSUME NEW a, NEW s, NEW po \in Seq(Nat), NEW k \in Nat, PostOK(po, s, a), NEW b, NEW u,
         \A p \in DOMAIN po : po[p] < b /\ po[p] # k /\ \A j \in DOMAIN u : po[p] # u[j],
         k < b, \A j \in DOMAIN u : k # u[j]
  PROVE  PostOK(Append(po, k), u, b)
<1> DEFINE n == Len(po)
           q == Append(po, k)
<1>1. /\ n \in Nat /\ DOMAIN po = 1 .. n
      /\ DOMAIN q = 1 .. n + 1 /\ q[n + 1] = k /\ \A p \in 1 .. n : q[p] = po[p]
  OBVIOUS
<1> HIDE DEF n, q
<1>2. \A p \in 1 .. n + 1 : p = n + 1 \/ p \in 1 .. n
  BY <1>1
<1>3. Injective(q)
  <2>1. \A p, r \in 1 .. n : po[p] = po[r] => p = r
    BY <1>1 DEF PostOK, Injective
  <2> QED BY <1>1, <1>2, <2>1 DEF Injective
<1>4. \A p \in DOMAIN q : q[p] < b /\ \A j \in DOMAIN u : q[p] # u[j]
  BY <1>1, <1>2
<1> QED BY <1>3, <1>4 DEF PostOK, q

\* Tokens change their circuit token, and an = may become a :=.
Kept(t, u) ==
  /\ DOMAIN u = DOMAIN t
  /\ \A k \in DOMAIN t : /\ u[k].v = t[k].v
                         /\ u[k].sym = t[k].sym \/ (t[k].sym = "EQUAL" /\ u[k].sym = "ASSIGN")

LEMMA KeptTokens ==
  ASSUME NEW t, NEW u, Kept(t, u), \A k \in DOMAIN t : HoldsItsValue(t[k]), OpensWithParen(t)
  PROVE  (\A k \in DOMAIN u : HoldsItsValue(u[k])) /\ OpensWithParen(u)
<1>1. ASSUME NEW k \in DOMAIN u PROVE HoldsItsValue(u[k])
  <2>1. k \in DOMAIN t /\ HoldsItsValue(t[k]) /\ u[k].v = t[k].v
        /\ (u[k].sym = t[k].sym \/ (t[k].sym = "EQUAL" /\ u[k].sym = "ASSIGN"))
    BY DEF Kept
  <2> QED BY <2>1 DEF HoldsItsValue, Operands
<1>2. ASSUME NEW k \in DOMAIN u, u[k].sym = "FUNC"
      PROVE  k + 1 \in DOMAIN u /\ u[k + 1].sym = "OPAREN"
  <2>1. t[k].sym = "FUNC" /\ k \in DOMAIN t
    BY <1>2 DEF Kept
  <2>2. k + 1 \in DOMAIN t /\ t[k + 1].sym = "OPAREN"
    BY <2>1 DEF OpensWithParen
  <2> QED BY <2>2 DEF Kept
<1> QED BY <1>1, <1>2 DEF OpensWithParen

TokenSet == [sym : Symbols, v : Values \cup Vars, circ : Nat]

LEMMA KeptWhenMoved ==
  ASSUME NEW t \in TokensOf(Symbols, Nat), NEW k \in DOMAIN t, NEW c \in Nat
  PROVE  LET u == [t EXCEPT ![k].circ = c]
         IN /\ u \in TokensOf(Symbols, Nat) /\ Len(u) = Len(t) /\ Kept(t, u)
            /\ u[k].circ = c /\ \A i \in DOMAIN t \ {k} : u[i].circ = t[i].circ
<1> DEFINE u == [t EXCEPT ![k].circ = c]
           e == [t[k] EXCEPT !.circ = c]
<1>0. t \in Seq(TokenSet)
  BY DEF TokensOf, TokenSet
<1>1. t[k] \in [sym : Symbols, v : Values \cup Vars, circ : Nat]
  <2>1. t[k] \in TokenSet
    BY <1>0
  <2> QED BY <2>1 DEF TokenSet
<1>2. /\ e \in TokenSet
      /\ e.sym = t[k].sym /\ e.v = t[k].v /\ e.circ = c
  BY <1>1 DEF TokenSet
<1>3. u = [t EXCEPT ![k] = e]
  OBVIOUS
<1> HIDE DEF e, u
<1>4. /\ u \in Seq(TokenSet) /\ Len(u) = Len(t) /\ DOMAIN u = DOMAIN t
      /\ u[k] = e /\ \A i \in DOMAIN t \ {k} : u[i] = t[i]
  BY <1>0, <1>2, <1>3
<1>5. Kept(t, u)
  BY <1>2, <1>4 DEF Kept
<1> QED BY <1>2, <1>4, <1>5 DEF u, TokensOf, TokenSet

\* Circuit tokens remain pending: those of tokens already in postfix[], unless changed to
\* one that is pending, and those of new ones.
StillPending(t, po, s, u, qo, r) ==
  /\ \A p \in DOMAIN po : p \in DOMAIN qo /\ qo[p] = po[p]
  /\ \A p \in DOMAIN po, q \in DOMAIN qo \ DOMAIN po : p < q
  /\ \A p \in DOMAIN qo :
       \/ p \in DOMAIN po /\ u[qo[p]].circ = t[po[p]].circ
       \/ u[qo[p]].circ = 0
       \/ \E j \in DOMAIN r : r[j] = u[qo[p]].circ /\ u[r[j]].sym \in Circuits
  /\ \A j \in DOMAIN s : s[j] # 0 /\ t[s[j]].sym \in Circuits =>
       \/ \E i \in DOMAIN r : r[i] = s[j] /\ u[s[j]].sym \in Circuits
       \/ \E q \in DOMAIN qo \ DOMAIN po : qo[q] = s[j]
  /\ \A k \in DOMAIN u : u[k].circ # 0 => \E p \in DOMAIN qo : qo[p] = k

LEMMA PendingStep ==
  ASSUME NEW t, NEW po, NEW s, Pending(t, po, s), NEW u, NEW qo, NEW r,
         StillPending(t, po, s, u, qo, r)
  PROVE  Pending(u, qo, r)
<1>1. ASSUME NEW p \in DOMAIN qo, u[qo[p]].circ # 0
      PROVE  \/ \E q \in DOMAIN qo : p < q /\ qo[q] = u[qo[p]].circ
             \/ \E j \in DOMAIN r : r[j] = u[qo[p]].circ /\ u[r[j]].sym \in Circuits
  <2>1. CASE p \in DOMAIN po /\ u[qo[p]].circ = t[po[p]].circ
    <3>1. \/ \E q \in DOMAIN po : p < q /\ po[q] = t[po[p]].circ
          \/ \E j \in DOMAIN s : s[j] = t[po[p]].circ /\ t[s[j]].sym \in Circuits
      BY <1>1, <2>1 DEF Pending
    <3>2. CASE \E q \in DOMAIN po : p < q /\ po[q] = t[po[p]].circ
      BY <2>1, <3>2 DEF StillPending
    <3>3. CASE \E j \in DOMAIN s : s[j] = t[po[p]].circ /\ t[s[j]].sym \in Circuits
      <4>1. PICK j \in DOMAIN s : s[j] = t[po[p]].circ /\ t[s[j]].sym \in Circuits
        BY <3>3
      <4>2. s[j] # 0
        BY <1>1, <2>1, <4>1
      <4>3. \/ \E i \in DOMAIN r : r[i] = s[j] /\ u[s[j]].sym \in Circuits
            \/ \E q \in DOMAIN qo \ DOMAIN po : qo[q] = s[j]
        BY <4>1, <4>2 DEF StillPending
      <4>4. \A q \in DOMAIN qo \ DOMAIN po : q \in DOMAIN qo /\ p < q
        BY <2>1 DEF StillPending
      <4> QED BY <2>1, <4>1, <4>3, <4>4
    <3> QED BY <3>1, <3>2, <3>3
  <2>2. CASE \E j \in DOMAIN r : r[j] = u[qo[p]].circ /\ u[r[j]].sym \in Circuits
    BY <2>2
  <2> QED BY <1>1, <2>1, <2>2 DEF StillPending
<1> QED BY <1>1 DEF Pending, StillPending


\* How many functions are on the stack.
LEMMA FuncsCounted ==
  ASSUME NEW t, NEW s \in Seq(Nat)
  PROVE  IsFiniteSet(FuncsOn(t, s)) /\ Cardinality(FuncsOn(t, s)) \in Nat
<1>1. FuncsOn(t, s) \subseteq 1 .. Len(s) /\ IsFiniteSet(1 .. Len(s))
  <2>1. Len(s) \in Nat /\ DOMAIN s = 1 .. Len(s)
    OBVIOUS
  <2>2. 1 \in Int /\ Len(s) \in Int
    BY <2>1
  <2> QED BY <2>1, <2>2, FS_Interval DEF FuncsOn
<1>2. IsFiniteSet(FuncsOn(t, s))
  BY <1>1, FS_Subset
<1> QED BY <1>2, FS_CardinalityType

LEMMA FuncsPop ==
  ASSUME NEW t, NEW u, NEW s \in Seq(Nat), NEW f \in Seq(Nat), s # <<>>,
         Len(f) = Len(s) - 1, \A j \in 1 .. Len(s) - 1 : f[j] = s[j],
         \A j \in DOMAIN s : s[j] # 0 => (u[s[j]].sym = "FUNC" <=> t[s[j]].sym = "FUNC")
  PROVE  /\ Cardinality(FuncsOn(u, f)) <= Cardinality(FuncsOn(t, s))
         /\ s[Len(s)] # 0 /\ t[s[Len(s)]].sym = "FUNC"
              => Cardinality(FuncsOn(u, f)) <= Cardinality(FuncsOn(t, s)) - 1
<1> DEFINE A == FuncsOn(t, s)
           B == FuncsOn(u, f)
           n == Len(s)
<1>1. n \in Nat /\ n # 0 /\ DOMAIN s = 1 .. n /\ DOMAIN f = 1 .. n - 1 /\ n \notin 1 .. n - 1
      /\ n \in 1 .. n /\ \A j \in 1 .. n - 1 : j \in 1 .. n
  OBVIOUS
<1>2. B \subseteq A /\ n \notin B
  BY <1>1 DEF FuncsOn
<1>3. s[n] # 0 /\ t[s[n]].sym = "FUNC" => n \in A
  BY <1>1 DEF FuncsOn
<1>4. IsFiniteSet(A) /\ Cardinality(A) \in Nat
  BY FuncsCounted
<1> HIDE DEF A, B
<1>5. IsFiniteSet(B) /\ Cardinality(B) <= Cardinality(A)
  BY <1>2, <1>4, FS_Subset
<1>6. ASSUME n \in A PROVE Cardinality(B) <= Cardinality(A) - 1
  <2>1. IsFiniteSet(A \ {n}) /\ Cardinality(A \ {n}) = Cardinality(A) - 1
    BY <1>4, <1>6, FS_RemoveElement
  <2>2. B \subseteq A \ {n}
    BY <1>2
  <2>3. Cardinality(B) <= Cardinality(A \ {n})
    BY <2>1, <2>2, FS_Subset
  <2> QED BY <2>1, <2>3
<1> QED BY <1>3, <1>5, <1>6 DEF A, B

LEMMA FuncsPush ==
  ASSUME NEW t, NEW u, NEW s \in Seq(Nat), NEW k \in Nat,
         \A j \in DOMAIN s : s[j] # 0 => (u[s[j]].sym = "FUNC" <=> t[s[j]].sym = "FUNC")
  PROVE  /\ Cardinality(FuncsOn(u, Append(s, k))) <= Cardinality(FuncsOn(t, s)) + 1
         /\ u[k].sym # "FUNC" =>
              Cardinality(FuncsOn(u, Append(s, k))) <= Cardinality(FuncsOn(t, s))
<1> DEFINE A == FuncsOn(t, s)
           r == Append(s, k)
           B == FuncsOn(u, r)
           n == Len(s) + 1
<1>1. /\ n \in Nat /\ DOMAIN s = 1 .. n - 1 /\ DOMAIN r = 1 .. n /\ r \in Seq(Nat)
      /\ r[n] = k /\ \A j \in 1 .. n - 1 : r[j] = s[j]
      /\ \A j \in 1 .. n : j = n \/ j \in 1 .. n - 1
  OBVIOUS
<1> HIDE DEF r, n
<1>2. B \subseteq A \cup {n}
  BY <1>1 DEF FuncsOn
<1>3. u[k].sym # "FUNC" => B \subseteq A
  BY <1>1 DEF FuncsOn
<1>4. IsFiniteSet(A) /\ Cardinality(A) \in Nat /\ Cardinality(B) \in Nat
  BY <1>1, FuncsCounted
<1> HIDE DEF A, B
<1>5. IsFiniteSet(A \cup {n}) /\ Cardinality(A \cup {n}) <= Cardinality(A) + 1
  <2>1. /\ IsFiniteSet(A \cup {n})
        /\ Cardinality(A \cup {n}) = IF n \in A THEN Cardinality(A) ELSE Cardinality(A) + 1
    BY <1>4, FS_AddElement
  <2> QED BY <1>4, <2>1
<1>6. Cardinality(B) <= Cardinality(A \cup {n}) /\ Cardinality(A \cup {n}) \in Nat
  BY <1>2, <1>5, FS_Subset, FS_CardinalityType
<1>7. u[k].sym # "FUNC" => Cardinality(B) <= Cardinality(A)
  BY <1>3, <1>4, FS_Subset
<1> QED BY <1>4, <1>5, <1>6, <1>7 DEF A, B, r

-----------------------------------------------------------------------------
(* The steps from infix to postfix.                                        *)

LEMMA InSeq ==
  ASSUME NEW S, NEW R, NEW s \in Seq(S), \A j \in DOMAIN s : s[j] \in R
  PROVE  s \in Seq(R)
OBVIOUS

\* The shapes of the variables then.
LEMMA InfixShapes ==
  ASSUME IInv, phase = "infix"
  PROVE  /\ tok \in TokensOf(Symbols, Nat) /\ Len(tok) \in Nat /\ DOMAIN tok = 1 .. Len(tok)
         /\ \A k \in DOMAIN tok : tok[k].circ \in 0 .. Len(tok) /\ tok[k].sym \in Symbols
         /\ \A k \in DOMAIN tok : HoldsItsValue(tok[k])
         /\ OpensWithParen(tok)
         /\ stack \in Seq(Nat) /\ post \in Seq(Nat)
         /\ \A j \in DOMAIN stack : stack[j] \in 0 .. Len(tok)
         /\ \A p \in DOMAIN post : post[p] \in DOMAIN tok
         /\ at \in Nat /\ funcs \in Nat
         /\ InfixOK
<1>1. tok \in TokensOf(Symbols, Nat)
  BY DEF IInv, TokensOK
<1>2. Len(tok) \in Nat /\ DOMAIN tok = 1 .. Len(tok) /\ \A k \in DOMAIN tok : tok[k].sym \in Symbols
  <2>1. tok \in Seq(TokenSet)
    BY <1>1 DEF TokensOf, TokenSet
  <2>2. \A k \in DOMAIN tok : tok[k] \in TokenSet
    BY <2>1
  <2> QED BY <2>1, <2>2 DEF TokenSet
<1>3. stack \in Seq(0 .. Len(tok)) /\ post \in Seq(DOMAIN tok)
  BY DEF IInv, TypeOK
<1>4. stack \in Seq(Nat) /\ post \in Seq(Nat)
  BY <1>2, <1>3, InSeq
<1>5. /\ \A k \in DOMAIN tok : tok[k].circ \in 0 .. Len(tok)
      /\ at \in Nat /\ funcs \in Nat
  <2>1. Len(post) \in Nat
    BY <1>3
  <2> QED BY <1>2, <2>1 DEF IInv, TypeOK
<1> QED BY <1>1, <1>2, <1>3, <1>4, <1>5 DEF IInv, TokensOK

\* What is enough for the invariant to hold after such a step.
LEMMA StillInfix ==
  ASSUME IInv, phase = "infix", phase' = "infix", UNCHANGED <<mem, out, astray>>,
         tok' \in TokensOf(Symbols, Nat), Len(tok') = Len(tok), Kept(tok, tok'),
         \A k \in DOMAIN tok' : tok'[k].circ \in 0 .. Len(tok),
         stack' \in Seq(Nat), post' \in Seq(Nat), \A p \in DOMAIN post' : post'[p] # 0,
         at' \in 1 .. Len(tok) + 1, funcs' \in Nat,
         StackOK(stack', at'), PostOK(post', stack', at'), Len(post') + Len(stack') <= at',
         Cardinality(FuncsOn(tok', stack')) <= funcs', funcs' < at',
         Pending(tok', post', stack')
  PROVE  IInv'
<1>1. Len(tok) \in Nat /\ \A k \in DOMAIN tok : HoldsItsValue(tok[k])
  BY InfixShapes
<1>2. (\A k \in DOMAIN tok' : HoldsItsValue(tok'[k])) /\ OpensWithParen(tok')
  BY <1>1, InfixShapes, KeptTokens
<1>3. DOMAIN tok' = 1 .. Len(tok)
  BY InfixShapes DEF Kept
<1>4. stack' \in Seq(0 .. Len(tok))
  <2>1. \A j \in DOMAIN stack' : stack'[j] \in Nat /\ stack'[j] < at'
    BY DEF StackOK
  <2>2. \A j \in DOMAIN stack' : stack'[j] \in 0 .. Len(tok)
    BY <1>1, <2>1
  <2> QED BY <2>2, InSeq
<1>5. post' \in Seq(1 .. Len(tok))
  <2>1. \A p \in DOMAIN post' : post'[p] \in Nat /\ post'[p] < at'
    BY DEF PostOK
  <2>2. \A p \in DOMAIN post' : post'[p] \in 1 .. Len(tok)
    BY <1>1, <2>1
  <2> QED BY <2>2, InSeq
<1>6. /\ Len(post') \in Nat /\ Len(stack') \in Nat /\ Len(stack') # 0
  BY DEF StackOK
<1>7. /\ Len(post') <= Len(tok) /\ Len(stack') <= Len(tok) + 1
      /\ at' \in 1 .. Len(tok) + Len(post') + 1 /\ funcs' \in 0 .. Len(tok)
  BY <1>1, <1>6
<1>8. Len(tok) < MaxTokens /\ mem \in [Vars -> Values] /\ out \in Vars /\ astray \in BOOLEAN
  BY DEF IInv, TypeOK
<1>9. TypeOK'
  BY <1>3, <1>4, <1>5, <1>7, <1>8 DEF TypeOK
<1>10. TokensOK'
  BY <1>2 DEF TokensOK
<1>11. InfixOK'
  BY DEF InfixOK
<1> QED BY <1>9, <1>10, <1>11 DEF IInv


LEMMA TopIs ==
  ASSUME IInv, phase = "infix"
  PROVE  /\ Last(stack) = stack[Len(stack)] /\ Len(stack) \in DOMAIN stack
         /\ Top = "BEGIN" <=> Last(stack) = 0
         /\ Top # "BEGIN" => Last(stack) \in DOMAIN tok /\ Top = tok[Last(stack)].sym
<1>1. stack # <<>> /\ stack \in Seq(Nat)
  BY InfixShapes DEF InfixOK, StackOK
<1>2. Last(stack) = stack[Len(stack)] /\ Len(stack) \in DOMAIN stack
  BY <1>1 DEF Last
<1>3. Last(stack) \in 0 .. Len(tok) /\ DOMAIN tok = 1 .. Len(tok) /\ Len(tok) \in Nat
  BY <1>2, InfixShapes
<1>4. \A k \in DOMAIN tok : tok[k].sym # "BEGIN"
  BY InfixShapes DEF Symbols, Operands, Infixes, Assignments
<1>5. CASE Last(stack) = 0
  BY <1>2, <1>5 DEF Top, SymOf
<1>6. CASE Last(stack) # 0
  <2>1. Last(stack) \in DOMAIN tok
    BY <1>3, <1>6
  <2> QED BY <1>2, <1>4, <1>6, <2>1 DEF Top, SymOf
<1> QED BY <1>5, <1>6

\* The token k, which is not in postfix[], is appended to it.
LEMMA MovedToPostfix ==
  ASSUME IInv, phase = "infix", NEW k \in DOMAIN tok, \A p \in DOMAIN post : post[p] # k,
         NEW c \in 0 .. Len(tok), ToPostfix(k, c)
  PROVE  /\ tok' \in TokensOf(Symbols, Nat) /\ Len(tok') = Len(tok) /\ Kept(tok, tok')
         /\ \A i \in DOMAIN tok' : tok'[i].circ \in 0 .. Len(tok)
         /\ \A i \in DOMAIN tok : tok[i].sym \in Circuits => tok'[i].sym \in Circuits
         /\ \A i \in DOMAIN tok : tok'[i].sym = "FUNC" <=> tok[i].sym = "FUNC"
         /\ post' = Append(post, k) /\ post' \in Seq(Nat) /\ \A p \in DOMAIN post' : post'[p] # 0
         /\ Len(post) \in Nat /\ DOMAIN post = 1 .. Len(post) /\ DOMAIN post' = 1 .. Len(post) + 1
         /\ Len(post') = Len(post) + 1 /\ post'[Len(post) + 1] = k
         /\ \A p \in DOMAIN post : post'[p] = post[p] /\ tok'[post[p]].circ = tok[post[p]].circ
         /\ tok'[k].circ = c
         /\ \A i \in DOMAIN tok' : tok'[i].circ # 0 => \E p \in DOMAIN post' : post'[p] = i
<1>1. /\ tok \in TokensOf(Symbols, Nat) /\ Len(tok) \in Nat /\ post \in Seq(Nat) /\ k \in Nat /\ k # 0
      /\ c \in Nat /\ DOMAIN tok = 1 .. Len(tok)
      /\ \A p \in DOMAIN post : post[p] \in DOMAIN tok
      /\ \A i \in DOMAIN tok : tok[i].circ \in 0 .. Len(tok)
  <2>1. /\ tok \in TokensOf(Symbols, Nat) /\ Len(tok) \in Nat /\ post \in Seq(Nat)
        /\ DOMAIN tok = 1 .. Len(tok)
        /\ \A p \in DOMAIN post : post[p] \in DOMAIN tok
        /\ \A i \in DOMAIN tok : tok[i].circ \in 0 .. Len(tok)
    BY InfixShapes
  <2> QED BY <2>1
<1>2. tok' = [tok EXCEPT ![k].circ = c] /\ post' = Append(post, k)
  BY DEF ToPostfix
<1>3. /\ tok' \in TokensOf(Symbols, Nat) /\ Len(tok') = Len(tok) /\ Kept(tok, tok')
      /\ tok'[k].circ = c /\ \A i \in DOMAIN tok \ {k} : tok'[i].circ = tok[i].circ
  <2>1. LET u == [tok EXCEPT ![k].circ = c]
        IN /\ u \in TokensOf(Symbols, Nat) /\ Len(u) = Len(tok) /\ Kept(tok, u)
           /\ u[k].circ = c /\ \A i \in DOMAIN tok \ {k} : u[i].circ = tok[i].circ
    BY <1>1, KeptWhenMoved
  <2> QED BY <1>2, <2>1
<1>4. DOMAIN tok' = DOMAIN tok
  BY <1>3 DEF Kept
<1>5. \A i \in DOMAIN tok' : tok'[i].circ \in 0 .. Len(tok)
  BY <1>1, <1>3, <1>4
<1>6. /\ \A i \in DOMAIN tok : tok[i].sym \in Circuits => tok'[i].sym \in Circuits
      /\ \A i \in DOMAIN tok : tok'[i].sym = "FUNC" <=> tok[i].sym = "FUNC"
  BY <1>3 DEF Kept, Circuits
<1>7. /\ Len(post) \in Nat /\ DOMAIN post = 1 .. Len(post) /\ DOMAIN post' = 1 .. Len(post) + 1
      /\ Len(post') = Len(post) + 1 /\ post'[Len(post) + 1] = k
      /\ post' \in Seq(Nat)
      /\ \A p \in DOMAIN post : post'[p] = post[p]
  BY <1>1, <1>2
<1>8. \A p \in DOMAIN post : tok'[post[p]].circ = tok[post[p]].circ
  BY <1>1, <1>3
<1>9. \A p \in DOMAIN post' : post'[p] # 0
  <2>1. \A p \in DOMAIN post' : p = Len(post) + 1 \/ p \in DOMAIN post
    BY <1>7
  <2>2. \A p \in DOMAIN post : post[p] # 0
    BY <1>1
  <2> QED BY <1>1, <1>7, <2>1, <2>2
<1>10. ASSUME NEW i \in DOMAIN tok', tok'[i].circ # 0 PROVE \E p \in DOMAIN post' : post'[p] = i
  <2>1. CASE i = k
    <3>1. Len(post) + 1 \in DOMAIN post'
      BY <1>7
    <3> QED BY <1>7, <2>1, <3>1
  <2>2. CASE i # k
    <3>1. i \in DOMAIN tok /\ tok[i].circ # 0
      BY <1>3, <1>4, <1>10, <2>2
    <3>2. \E p \in DOMAIN post : post[p] = i
      BY <3>1, InfixShapes DEF InfixOK, Pending
    <3>3. \A p \in DOMAIN post : p \in DOMAIN post'
      BY <1>7
    <3> QED BY <1>7, <3>2, <3>3
  <2> QED BY <2>1, <2>2
<1> QED BY <1>2, <1>3, <1>5, <1>6, <1>7, <1>8, <1>9, <1>10

LEMMA PopKeeps ==
  ASSUME IInv, phase = "infix", Converting, PopIntoPostfix, Top # "BEGIN"
  PROVE  IInv'
<1> DEFINE k == Last(stack)
           n == Len(stack)
<1>1. /\ phase' = "infix" /\ UNCHANGED <<mem, out, astray, at, funcs>>
      /\ stack' = Front(stack) /\ ToPostfix(k, 0)
  BY DEF Converting, PopIntoPostfix
<1>2. /\ k # 0 /\ k \in DOMAIN tok /\ k = stack[n] /\ n \in DOMAIN stack
  BY TopIs
<1>3. /\ stack \in Seq(Nat) /\ post \in Seq(Nat) /\ at \in Nat /\ at \in 1 .. Len(tok) + 1
      /\ Len(tok) \in Nat /\ funcs \in Nat /\ n \in Nat /\ DOMAIN stack = 1 .. n
      /\ StackOK(stack, at) /\ PostOK(post, stack, at) /\ Len(post) + Len(stack) <= at
      /\ Cardinality(FuncsOn(tok, stack)) <= funcs /\ funcs < at
      /\ Pending(tok, post, stack)
      /\ \A j \in DOMAIN stack : stack[j] # 0 => stack[j] \in DOMAIN tok
  <2>1. \A j \in DOMAIN stack : stack[j] \in 0 .. Len(tok)
    BY InfixShapes
  <2>2. DOMAIN tok = 1 .. Len(tok) /\ Len(tok) \in Nat
    BY InfixShapes
  <2> QED BY <2>1, <2>2, InfixShapes DEF InfixOK
<1>4. \A p \in DOMAIN post : post[p] # k
  BY <1>2, <1>3 DEF PostOK
<1>5. /\ Front(stack) \in Seq(Nat) /\ Len(Front(stack)) = n - 1 /\ n > 1
      /\ \A j \in 1 .. n - 1 : Front(stack)[j] = stack[j]
      /\ StackOK(Front(stack), at) /\ \A j \in DOMAIN Front(stack) : Front(stack)[j] < k
      /\ k < at
  BY <1>2, <1>3, StackPops
<1> DEFINE f == Front(stack)
<1>6. DOMAIN f = 1 .. n - 1 /\ \A j \in 1 .. n - 1 : j \in DOMAIN stack
  BY <1>3, <1>5
<1>7. /\ tok' \in TokensOf(Symbols, Nat) /\ Len(tok') = Len(tok) /\ Kept(tok, tok')
      /\ \A i \in DOMAIN tok' : tok'[i].circ \in 0 .. Len(tok)
      /\ \A i \in DOMAIN tok : tok[i].sym \in Circuits => tok'[i].sym \in Circuits
      /\ \A i \in DOMAIN tok : tok'[i].sym = "FUNC" <=> tok[i].sym = "FUNC"
      /\ post' = Append(post, k) /\ post' \in Seq(Nat) /\ \A p \in DOMAIN post' : post'[p] # 0
      /\ Len(post) \in Nat /\ DOMAIN post = 1 .. Len(post) /\ DOMAIN post' = 1 .. Len(post) + 1
      /\ Len(post') = Len(post) + 1 /\ post'[Len(post) + 1] = k
      /\ \A p \in DOMAIN post : post'[p] = post[p] /\ tok'[post[p]].circ = tok[post[p]].circ
      /\ tok'[k].circ = 0
      /\ \A i \in DOMAIN tok' : tok'[i].circ # 0 => \E p \in DOMAIN post' : post'[p] = i
  <2>1. 0 \in 0 .. Len(tok)
    BY <1>3
  <2> DEFINE c == 0
  <2>2. c \in 0 .. Len(tok) /\ ToPostfix(k, c) /\ c = 0
    BY <1>1, <2>1
  <2> HIDE DEF c, k
  <2> QED BY <1>2, <1>4, <2>2, MovedToPostfix
<1> HIDE DEF f, k, n
<1>8. PostOK(post', f, at)
  <2>1. \A p \in DOMAIN post : post[p] < at /\ post[p] # k /\ \A j \in DOMAIN f : post[p] # f[j]
    BY <1>3, <1>4, <1>5, <1>6 DEF PostOK, f
  <2>2. \A j \in DOMAIN f : k # f[j]
    <3>1. f \in Seq(Nat) /\ \A j \in DOMAIN f : f[j] < k
      BY <1>5 DEF f
    <3>2. k \in Nat
      BY <1>2, <1>3
    <3> QED BY <3>1, <3>2
  <2>3. k \in Nat /\ k < at
    BY <1>2, <1>3, <1>5
  <2> QED BY <1>3, <1>7, <2>1, <2>2, <2>3, PostGrows
<1>9. Pending(tok', post', f)
  <2>1. \A p \in DOMAIN post : p \in DOMAIN post' /\ post'[p] = post[p]
    BY <1>7
  <2>2. \A p \in DOMAIN post, q \in DOMAIN post' \ DOMAIN post : p < q
    BY <1>7
  <2>3. ASSUME NEW p \in DOMAIN post'
        PROVE  \/ p \in DOMAIN post /\ tok'[post'[p]].circ = tok[post[p]].circ
               \/ tok'[post'[p]].circ = 0
               \/ \E j \in DOMAIN f : f[j] = tok'[post'[p]].circ /\ tok'[f[j]].sym \in Circuits
    <3>1. p = Len(post) + 1 \/ p \in DOMAIN post
      BY <1>7
    <3> QED BY <1>7, <3>1
  <2>4. ASSUME NEW j \in DOMAIN stack, stack[j] # 0, tok[stack[j]].sym \in Circuits
        PROVE  \/ \E i \in DOMAIN f : f[i] = stack[j] /\ tok'[stack[j]].sym \in Circuits
               \/ \E q \in DOMAIN post' \ DOMAIN post : post'[q] = stack[j]
    <3>1. CASE j = n
      <4>1. Len(post) + 1 \in DOMAIN post' \ DOMAIN post
        BY <1>7
      <4> QED BY <1>2, <1>7, <3>1, <4>1
    <3>2. CASE j # n
      <4>1. j \in DOMAIN f /\ f[j] = stack[j]
        BY <1>3, <1>5, <1>6, <3>2 DEF f
      <4> QED BY <1>3, <1>7, <2>4, <4>1
    <3> QED BY <3>1, <3>2
  <2>5. Pending(tok, post, stack)
    BY <1>3
  <2>6. \A i \in DOMAIN tok' : tok'[i].circ # 0 => \E p \in DOMAIN post' : post'[p] = i
    BY <1>7
  <2>7. StillPending(tok, post, stack, tok', post', f)
    BY <2>1, <2>2, <2>3, <2>4, <2>6 DEF StillPending
  <2> QED BY <2>5, <2>7, PendingStep
<1>10. Cardinality(FuncsOn(tok', f)) <= funcs
  <2>1. stack # <<>> /\ Len(f) = Len(stack) - 1 /\ \A j \in 1 .. Len(stack) - 1 : f[j] = stack[j]
    BY <1>3, <1>5 DEF f, n, StackOK
  <2>2. \A j \in DOMAIN stack : stack[j] # 0 => (tok'[stack[j]].sym = "FUNC" <=> tok[stack[j]].sym = "FUNC")
    BY <1>3, <1>7
  <2>3. f \in Seq(Nat)
    BY <1>5 DEF f
  <2>4. Cardinality(FuncsOn(tok', f)) <= Cardinality(FuncsOn(tok, stack))
    BY <1>3, <2>1, <2>2, <2>3, FuncsPop
  <2>5. Cardinality(FuncsOn(tok', f)) \in Nat /\ Cardinality(FuncsOn(tok, stack)) \in Nat
    BY <1>3, <2>3, FuncsCounted
  <2> QED BY <1>3, <2>4, <2>5
<1>11. Len(post') + Len(f) <= at
  BY <1>3, <1>5, <1>7 DEF f, n
<1>12. f \in Seq(Nat) /\ StackOK(f, at) /\ stack' = f
  BY <1>1, <1>5 DEF f
<1>13. /\ stack' \in Seq(Nat) /\ at' \in 1 .. Len(tok) + 1 /\ funcs' \in Nat
       /\ StackOK(stack', at') /\ PostOK(post', stack', at') /\ Len(post') + Len(stack') <= at'
       /\ Cardinality(FuncsOn(tok', stack')) <= funcs' /\ funcs' < at'
       /\ Pending(tok', post', stack')
  BY <1>1, <1>3, <1>8, <1>9, <1>10, <1>11, <1>12
<1> QED BY <1>1, <1>7, <1>13, StillInfix


\* What is used of the invariant in the steps below.
LEMMA InfixFacts ==
  ASSUME IInv, phase = "infix"
  PROVE  /\ stack \in Seq(Nat) /\ post \in Seq(Nat) /\ at \in Nat /\ at \in 1 .. Len(tok) + 1
         /\ Len(tok) \in Nat /\ funcs \in Nat
         /\ Len(stack) \in Nat /\ DOMAIN stack = 1 .. Len(stack)
         /\ Len(post) \in Nat /\ DOMAIN post = 1 .. Len(post)
         /\ StackOK(stack, at) /\ PostOK(post, stack, at) /\ Len(post) + Len(stack) <= at
         /\ Cardinality(FuncsOn(tok, stack)) <= funcs /\ funcs < at
         /\ Pending(tok, post, stack)
         /\ \A j \in DOMAIN stack : stack[j] # 0 => stack[j] \in DOMAIN tok
         /\ \A j \in DOMAIN stack : stack[j] < at
         /\ \A p \in DOMAIN post : post[p] < at /\ post[p] \in DOMAIN tok /\ post[p] # 0
<1>1. \A j \in DOMAIN stack : stack[j] \in 0 .. Len(tok)
  BY InfixShapes
<1>2. DOMAIN tok = 1 .. Len(tok) /\ Len(tok) \in Nat
  BY InfixShapes
<1>3. \A p \in DOMAIN post : post[p] # 0 /\ post[p] \in DOMAIN tok
  BY <1>2, InfixShapes
<1>4. /\ \A j \in DOMAIN stack : stack[j] < at
      /\ \A p \in DOMAIN post : post[p] < at
  BY InfixShapes DEF InfixOK, StackOK, PostOK
<1>5. /\ stack \in Seq(Nat) /\ post \in Seq(Nat) /\ at \in Nat /\ funcs \in Nat
  BY InfixShapes
<1>6. /\ at \in 1 .. Len(tok) + 1
      /\ StackOK(stack, at) /\ PostOK(post, stack, at) /\ Len(post) + Len(stack) <= at
      /\ Cardinality(FuncsOn(tok, stack)) <= funcs /\ funcs < at
      /\ Pending(tok, post, stack)
  BY InfixShapes DEF InfixOK
<1>7. /\ Len(stack) \in Nat /\ DOMAIN stack = 1 .. Len(stack)
      /\ Len(post) \in Nat /\ DOMAIN post = 1 .. Len(post)
  BY <1>5
<1>8. \A j \in DOMAIN stack : stack[j] # 0 => stack[j] \in DOMAIN tok
  BY <1>1, <1>2
<1> QED BY <1>2, <1>3, <1>4, <1>5, <1>6, <1>7, <1>8

\* The tokens below at are as before, but for a circuit token.
Steady(t, u) ==
  /\ u \in TokensOf(Symbols, Nat) /\ Len(u) = Len(t) /\ Kept(t, u)
  /\ \A i \in DOMAIN u : u[i].circ \in 0 .. Len(t)

LEMMA SteadyKinds ==
  ASSUME NEW t, NEW u, Steady(t, u)
  PROVE  /\ DOMAIN u = DOMAIN t
         /\ \A i \in DOMAIN t : t[i].sym \in Circuits => u[i].sym \in Circuits
         /\ \A i \in DOMAIN t : u[i].sym = "FUNC" <=> t[i].sym = "FUNC"
BY DEF Steady, Kept, Circuits

\* The infix token at is read, the stack becoming r, which has no more than what was on
\* it, of the circuit tokens all, and at itself.
LEMMA ReadKeeps ==
  ASSUME IInv, phase = "infix", phase' = "infix", UNCHANGED <<mem, out, astray, post>>,
         Steady(tok, tok'),
         \A p \in DOMAIN post :
           \/ tok'[post[p]].circ = tok[post[p]].circ
           \/ \E j \in DOMAIN stack' : stack'[j] = tok'[post[p]].circ /\ tok'[stack'[j]].sym \in Circuits,
         \A i \in DOMAIN tok' : tok'[i].circ # 0 => tok[i].circ # 0 \/ \E p \in DOMAIN post : post[p] = i,
         \A j \in DOMAIN stack : stack[j] # 0 /\ tok[stack[j]].sym \in Circuits =>
           \E i \in DOMAIN stack' : stack'[i] = stack[j],
         stack' \in Seq(Nat), StackOK(stack', at'),
         \A j \in DOMAIN stack' : stack'[j] >= at \/ \E i \in DOMAIN stack : stack'[j] = stack[i],
         at' \in 1 .. Len(tok) + 1, at < at', Len(post) + Len(stack') <= at',
         funcs' \in Nat, Cardinality(FuncsOn(tok', stack')) <= funcs', funcs' < at'
  PROVE  IInv'
<1>1. /\ post' = post /\ post \in Seq(Nat) /\ at \in Nat /\ at' \in Nat
      /\ PostOK(post, stack, at) /\ Pending(tok, post, stack)
      /\ \A p \in DOMAIN post : post[p] < at /\ post[p] \in DOMAIN tok /\ post[p] # 0
      /\ \A j \in DOMAIN stack : stack[j] # 0 => stack[j] \in DOMAIN tok
  BY InfixFacts
<1>2. /\ DOMAIN tok' = DOMAIN tok
      /\ \A i \in DOMAIN tok : tok[i].sym \in Circuits => tok'[i].sym \in Circuits
  BY SteadyKinds
<1>3. PostOK(post', stack', at')
  <2>1. Injective(post)
    BY <1>1 DEF PostOK
  <2>2. ASSUME NEW p \in DOMAIN post, NEW j \in DOMAIN stack' PROVE post[p] # stack'[j]
    <3>1. CASE stack'[j] >= at
      <4>1. post[p] < at /\ post[p] \in Nat /\ stack'[j] \in Nat
        BY <1>1
      <4> QED BY <1>1, <3>1, <4>1
    <3>2. CASE \E i \in DOMAIN stack : stack'[j] = stack[i]
      BY <1>1, <3>2 DEF PostOK
    <3> QED BY <3>1, <3>2
  <2>3. \A p \in DOMAIN post : post[p] < at'
    <3>1. \A p \in DOMAIN post : post[p] \in Nat /\ post[p] < at
      BY <1>1
    <3> QED BY <1>1, <3>1
  <2> QED BY <1>1, <2>1, <2>2, <2>3 DEF PostOK
<1>4. Pending(tok', post', stack')
  <2>1. \A i \in DOMAIN tok' : tok'[i].circ # 0 => \E p \in DOMAIN post : post[p] = i
    <3>1. \A i \in DOMAIN tok : tok[i].circ # 0 => \E p \in DOMAIN post : post[p] = i
      BY <1>1 DEF Pending
    <3> QED BY <1>2, <3>1
  <2>2. \A j \in DOMAIN stack : stack[j] # 0 /\ tok[stack[j]].sym \in Circuits =>
           \E i \in DOMAIN stack' : stack'[i] = stack[j] /\ tok'[stack[j]].sym \in Circuits
    BY <1>1, <1>2
  <2>3. StillPending(tok, post, stack, tok', post, stack')
    BY <2>1, <2>2 DEF StillPending
  <2> QED BY <1>1, <2>3, PendingStep
<1>5. \A p \in DOMAIN post' : post'[p] # 0
  BY <1>1
<1>6. /\ tok' \in TokensOf(Symbols, Nat) /\ Len(tok') = Len(tok) /\ Kept(tok, tok')
      /\ \A i \in DOMAIN tok' : tok'[i].circ \in 0 .. Len(tok)
  BY DEF Steady
<1>7. post' \in Seq(Nat) /\ Len(post') + Len(stack') <= at'
  BY <1>1
<1> QED BY <1>3, <1>4, <1>5, <1>6, <1>7, StillInfix

\* In particular when it goes onto the stack, or is left out.
LEMMA PushKeeps ==
  ASSUME IInv, phase = "infix", phase' = "infix", UNCHANGED <<mem, out, astray, post, funcs>>,
         at <= Len(tok), at' = at + 1, stack' \in {stack, Append(stack, at)},
         Steady(tok, tok'), tok[at].sym # "FUNC",
         \A p \in DOMAIN post :
           \/ tok'[post[p]].circ = tok[post[p]].circ
           \/ tok'[post[p]].circ = at /\ tok[at].sym \in Circuits /\ stack' = Append(stack, at),
         \A i \in DOMAIN tok' : tok'[i].circ # 0 => tok[i].circ # 0 \/ \E p \in DOMAIN post : post[p] = i
  PROVE  IInv'
<1> DEFINE n == Len(stack)
           r == Append(stack, at)
<1>1. /\ stack \in Seq(Nat) /\ at \in Nat /\ Len(tok) \in Nat /\ funcs \in Nat /\ n \in Nat
      /\ at \in 1 .. Len(tok) + 1 /\ DOMAIN stack = 1 .. n /\ Len(post) \in Nat
      /\ StackOK(stack, at) /\ Len(post) + n <= at /\ funcs < at
      /\ Cardinality(FuncsOn(tok, stack)) <= funcs
      /\ \A j \in DOMAIN stack : stack[j] # 0 => stack[j] \in DOMAIN tok
      /\ \A j \in DOMAIN stack : stack[j] < at
  BY InfixFacts
<1>2. at \in DOMAIN tok
  <2>1. DOMAIN tok = 1 .. Len(tok)
    BY InfixShapes
  <2> QED BY <1>1, <2>1
<1>3. /\ DOMAIN tok' = DOMAIN tok
      /\ \A i \in DOMAIN tok : tok[i].sym \in Circuits => tok'[i].sym \in Circuits
      /\ \A i \in DOMAIN tok : tok'[i].sym = "FUNC" <=> tok[i].sym = "FUNC"
  BY SteadyKinds
<1>4. StackOK(r, at + 1) /\ StackOK(stack, at + 1) /\ r \in Seq(Nat)
  <2>1. at + 1 \in Nat /\ at <= at + 1 /\ at < at + 1
    BY <1>1
  <2> QED BY <1>1, <2>1, StackGrows
<1>5. /\ DOMAIN r = 1 .. n + 1 /\ Len(r) = n + 1 /\ r[n + 1] = at
      /\ \A j \in 1 .. n : r[j] = stack[j]
  BY <1>1
<1>6. /\ Cardinality(FuncsOn(tok', r)) <= funcs
      /\ Cardinality(FuncsOn(tok', stack)) <= funcs
  <2>1. \A j \in DOMAIN stack : stack[j] # 0 => (tok'[stack[j]].sym = "FUNC" <=> tok[stack[j]].sym = "FUNC")
    BY <1>1, <1>3
  <2>2. tok'[at].sym # "FUNC"
    BY <1>2, <1>3
  <2>3. Cardinality(FuncsOn(tok', r)) <= Cardinality(FuncsOn(tok, stack))
    BY <1>1, <2>1, <2>2, FuncsPush
  <2>4. FuncsOn(tok', stack) = FuncsOn(tok, stack)
    BY <2>1 DEF FuncsOn
  <2>5. Cardinality(FuncsOn(tok', r)) \in Nat /\ Cardinality(FuncsOn(tok, stack)) \in Nat
    BY <1>1, <1>4, FuncsCounted
  <2> HIDE DEF r
  <2>6. Cardinality(FuncsOn(tok', r)) <= funcs
    BY <1>1, <2>3, <2>5
  <2> QED BY <1>1, <2>4, <2>6
<1> HIDE DEF r, n
<1>7. /\ stack' = stack \/ stack' = r
      /\ stack' \in Seq(Nat) /\ StackOK(stack', at')
      /\ Cardinality(FuncsOn(tok', stack')) <= funcs'
  BY <1>1, <1>4, <1>6 DEF r
<1>8. /\ at' \in 1 .. Len(tok) + 1 /\ at < at' /\ Len(post) + Len(stack') <= at'
      /\ funcs' \in Nat /\ funcs' < at'
  BY <1>1, <1>5, <1>7 DEF n
<1>9. \A j \in 1 .. n : j \in DOMAIN r /\ r[j] = stack[j]
  BY <1>1, <1>5
<1>10. \A j \in DOMAIN stack : \E i \in DOMAIN stack' : stack'[i] = stack[j]
  BY <1>1, <1>7, <1>9
<1>11. \A j \in DOMAIN stack' : stack'[j] >= at \/ \E i \in DOMAIN stack : stack'[j] = stack[i]
  <2>1. \A j \in DOMAIN r : j = n + 1 \/ j \in 1 .. n
    BY <1>1, <1>5
  <2>2. at >= at
    BY <1>1
  <2> QED BY <1>1, <1>5, <1>7, <2>1, <2>2
<1>12. \A p \in DOMAIN post :
         \/ tok'[post[p]].circ = tok[post[p]].circ
         \/ \E j \in DOMAIN stack' : stack'[j] = tok'[post[p]].circ /\ tok'[stack'[j]].sym \in Circuits
  <2>1. ASSUME NEW p \in DOMAIN post, tok'[post[p]].circ = at, tok[at].sym \in Circuits, stack' = r
        PROVE  \E j \in DOMAIN stack' : stack'[j] = tok'[post[p]].circ /\ tok'[stack'[j]].sym \in Circuits
    <3>1. n + 1 \in DOMAIN r /\ r[n + 1] = at /\ tok'[at].sym \in Circuits
      BY <1>1, <1>2, <1>3, <1>5, <2>1
    <3> QED BY <2>1, <3>1
  <2> QED BY <2>1 DEF r
<1> QED BY <1>7, <1>8, <1>10, <1>11, <1>12, ReadKeeps

LEMMA SameTokens == ASSUME IInv, phase = "infix" PROVE Steady(tok, tok)
BY InfixShapes DEF Steady, Kept


\* The token k goes to postfix[], the stack becoming one without it.
LEMMA MoveKeeps ==
  ASSUME IInv, phase = "infix", phase' = "infix", UNCHANGED <<mem, out, astray>>,
         NEW k \in DOMAIN tok, \A p \in DOMAIN post : post[p] # k, k < at',
         NEW c \in 0 .. Len(tok), ToPostfix(k, c),
         c = 0 \/ \E j \in DOMAIN stack' : stack'[j] = c /\ tok[c].sym \in Circuits,
         \A j \in DOMAIN stack : stack[j] # 0 /\ tok[stack[j]].sym \in Circuits =>
           stack[j] = k \/ \E i \in DOMAIN stack' : stack'[i] = stack[j],
         stack' \in Seq(Nat), StackOK(stack', at'),
         \A j \in DOMAIN stack' :
           stack'[j] # k /\ (stack'[j] >= at \/ \E i \in DOMAIN stack : stack'[j] = stack[i]),
         at' \in 1 .. Len(tok) + 1, at <= at', Len(post) + 1 + Len(stack') <= at',
         funcs' \in Nat, Cardinality(FuncsOn(tok', stack')) <= funcs', funcs' < at'
  PROVE  IInv'
<1>1. /\ post \in Seq(Nat) /\ at \in Nat /\ at' \in Nat /\ Len(tok) \in Nat
      /\ PostOK(post, stack, at) /\ Pending(tok, post, stack)
      /\ \A p \in DOMAIN post : post[p] < at /\ post[p] \in DOMAIN tok /\ post[p] # 0
      /\ \A j \in DOMAIN stack : stack[j] # 0 => stack[j] \in DOMAIN tok
  BY InfixFacts
<1>2. /\ tok' \in TokensOf(Symbols, Nat) /\ Len(tok') = Len(tok) /\ Kept(tok, tok')
      /\ \A i \in DOMAIN tok' : tok'[i].circ \in 0 .. Len(tok)
      /\ \A i \in DOMAIN tok : tok[i].sym \in Circuits => tok'[i].sym \in Circuits
      /\ post' = Append(post, k) /\ post' \in Seq(Nat) /\ \A p \in DOMAIN post' : post'[p] # 0
      /\ Len(post) \in Nat /\ DOMAIN post = 1 .. Len(post) /\ DOMAIN post' = 1 .. Len(post) + 1
      /\ Len(post') = Len(post) + 1 /\ post'[Len(post) + 1] = k
      /\ \A p \in DOMAIN post : post'[p] = post[p] /\ tok'[post[p]].circ = tok[post[p]].circ
      /\ tok'[k].circ = c
      /\ \A i \in DOMAIN tok' : tok'[i].circ # 0 => \E p \in DOMAIN post' : post'[p] = i
  BY MovedToPostfix
<1>3. k \in Nat /\ DOMAIN tok = 1 .. Len(tok)
  <2>1. DOMAIN tok = 1 .. Len(tok)
    BY InfixShapes
  <2> QED BY <2>1
<1>4. PostOK(post', stack', at')
  <2>1. ASSUME NEW p \in DOMAIN post, NEW j \in DOMAIN stack' PROVE post[p] # stack'[j]
    <3>1. CASE stack'[j] >= at
      <4>1. post[p] < at /\ post[p] \in Nat /\ stack'[j] \in Nat
        BY <1>1
      <4> QED BY <1>1, <3>1, <4>1
    <3>2. CASE \E i \in DOMAIN stack : stack'[j] = stack[i]
      BY <1>1, <3>2 DEF PostOK
    <3> QED BY <3>1, <3>2
  <2>2. \A p \in DOMAIN post : post[p] < at'
    <3>1. \A p \in DOMAIN post : post[p] \in Nat /\ post[p] < at
      BY <1>1
    <3> QED BY <1>1, <3>1
  <2>3. /\ \A p \in DOMAIN post : post[p] < at' /\ post[p] # k /\ \A j \in DOMAIN stack' : post[p] # stack'[j]
        /\ \A j \in DOMAIN stack' : k # stack'[j]
    BY <2>1, <2>2
  <2> QED BY <1>1, <1>2, <1>3, <2>3, PostGrows
<1>5. Pending(tok', post', stack')
  <2>1. \A p \in DOMAIN post : p \in DOMAIN post' /\ post'[p] = post[p]
    BY <1>2
  <2>2. \A p \in DOMAIN post, q \in DOMAIN post' \ DOMAIN post : p < q
    BY <1>2
  <2>3. c = 0 \/ \E j \in DOMAIN stack' : stack'[j] = c /\ tok'[c].sym \in Circuits
    <3>1. c # 0 => c \in DOMAIN tok
      BY <1>1, <1>3
    <3> QED BY <1>2, <3>1
  <2>4. ASSUME NEW p \in DOMAIN post'
        PROVE  \/ p \in DOMAIN post /\ tok'[post'[p]].circ = tok[post[p]].circ
               \/ tok'[post'[p]].circ = 0
               \/ \E j \in DOMAIN stack' : stack'[j] = tok'[post'[p]].circ /\ tok'[stack'[j]].sym \in Circuits
    <3>1. p = Len(post) + 1 \/ p \in DOMAIN post
      BY <1>2
    <3> QED BY <1>2, <2>3, <3>1
  <2>5. ASSUME NEW j \in DOMAIN stack, stack[j] # 0, tok[stack[j]].sym \in Circuits
        PROVE  \/ \E i \in DOMAIN stack' : stack'[i] = stack[j] /\ tok'[stack[j]].sym \in Circuits
               \/ \E q \in DOMAIN post' \ DOMAIN post : post'[q] = stack[j]
    <3>1. CASE stack[j] = k
      <4>1. Len(post) + 1 \in DOMAIN post' \ DOMAIN post
        BY <1>2
      <4> QED BY <1>2, <3>1, <4>1
    <3>2. CASE stack[j] # k
      BY <1>1, <1>2, <2>5, <3>2
    <3> QED BY <3>1, <3>2
  <2>6. \A i \in DOMAIN tok' : tok'[i].circ # 0 => \E p \in DOMAIN post' : post'[p] = i
    BY <1>2
  <2>7. StillPending(tok, post, stack, tok', post', stack')
    BY <2>1, <2>2, <2>4, <2>5, <2>6 DEF StillPending
  <2> QED BY <1>1, <2>7, PendingStep
<1>6. Len(post') + Len(stack') <= at'
  BY <1>2
<1> QED BY <1>2, <1>4, <1>5, <1>6, StillInfix

LEMMA OperandKeeps == ASSUME IInv, Operand PROVE IInv'
<1>1. /\ phase = "infix" /\ phase' = "infix" /\ UNCHANGED <<mem, out, astray, stack, funcs>>
      /\ Infix \in Operands /\ ToPostfix(at, 0) /\ at' = at + 1
  BY DEF Operand, Converting
<1>2. /\ stack \in Seq(Nat) /\ at \in Nat /\ at \in 1 .. Len(tok) + 1 /\ Len(tok) \in Nat /\ funcs \in Nat
      /\ Len(stack) \in Nat /\ Len(post) \in Nat
      /\ StackOK(stack, at) /\ Len(post) + Len(stack) <= at
      /\ Cardinality(FuncsOn(tok, stack)) <= funcs /\ funcs < at
      /\ \A j \in DOMAIN stack : stack[j] # 0 => stack[j] \in DOMAIN tok
      /\ \A j \in DOMAIN stack : stack[j] < at
      /\ \A p \in DOMAIN post : post[p] < at
  BY <1>1, InfixFacts
<1>3. at \in DOMAIN tok /\ at <= Len(tok)
  <2>1. at <= Len(tok)
    BY <1>1, <1>2 DEF Infix, Operands
  <2>2. DOMAIN tok = 1 .. Len(tok)
    BY <1>1, InfixShapes
  <2> QED BY <1>2, <2>1, <2>2
<1> DEFINE k == at
           c == 0
<1>4. k \in DOMAIN tok /\ c \in 0 .. Len(tok) /\ c = 0 /\ ToPostfix(k, c) /\ k = at
  BY <1>1, <1>2, <1>3
<1>5. \A p \in DOMAIN post : post[p] # k
  BY <1>2
<1>6. StackOK(stack', at')
  <2>1. k \in Nat /\ at + 1 \in Nat /\ at <= at + 1 /\ k < at + 1
    BY <1>2
  <2>2. StackOK(stack, at + 1)
    BY <1>2, <2>1, StackGrows
  <2> QED BY <1>1, <2>2
<1>7. Cardinality(FuncsOn(tok', stack')) <= funcs'
  <2>1. \A i \in DOMAIN tok : tok'[i].sym = "FUNC" <=> tok[i].sym = "FUNC"
    <3> HIDE DEF k, c
    <3> QED BY <1>1, <1>4, <1>5, MovedToPostfix
  <2>2. FuncsOn(tok', stack) = FuncsOn(tok, stack)
    BY <1>2, <2>1 DEF FuncsOn
  <2> QED BY <1>1, <1>2, <2>2
<1>8. \A j \in DOMAIN stack' : stack'[j] # k /\ \E i \in DOMAIN stack : stack'[j] = stack[i]
  <2>1. \A j \in DOMAIN stack : stack[j] # k
    BY <1>2
  <2> QED BY <1>1, <2>1
<1>9. /\ at' \in 1 .. Len(tok) + 1 /\ at <= at' /\ k < at' /\ funcs' < at' /\ funcs' \in Nat
      /\ Len(post) + 1 + Len(stack') <= at'
  BY <1>1, <1>2, <1>3
<1>10. stack' \in Seq(Nat) /\ stack' = stack
  BY <1>1, <1>2
<1> HIDE DEF k, c
<1> QED BY <1>1, <1>4, <1>5, <1>6, <1>7, <1>8, <1>9, <1>10, MoveKeeps


LEMMA AbnormalEndKeeps == ASSUME IInv, AbnormalEnd PROVE IInv'
<1>1. /\ phase' = "done" /\ mem' = [mem EXCEPT ![out] = Blank]
      /\ UNCHANGED <<tok, at, stack, post, funcs, out, astray>>
  BY DEF AbnormalEnd
<1>2. mem' \in [Vars -> Values]
  <2>1. mem \in [Vars -> Values] /\ Blank \in Values
    BY DEF IInv, TypeOK, Values
  <2> QED BY <1>1, <2>1
<1>3. TypeOK'
  BY <1>1, <1>2 DEF IInv, TypeOK
<1>4. TokensOK'
  BY <1>1 DEF IInv, TokensOK
<1> QED BY <1>1, <1>3, <1>4 DEF IInv

\* The parenthesis on the stack that is closed, without a function.
LEMMA CloseParenKeeps == ASSUME IInv, CloseParen PROVE IInv'
<1>1. /\ phase = "infix" /\ UNCHANGED <<mem, out, astray>> /\ Infix = "CPAREN" /\ Top # "BEGIN" /\ Converting
  BY DEF CloseParen, Converting
<1>2. CASE Top # "OPAREN"
  <2>1. PopIntoPostfix
    BY <1>2 DEF CloseParen
  <2> QED BY <1>1, <2>1, PopKeeps
<1>3. CASE Top = "OPAREN"
  <2> DEFINE f == Front(stack)
             n == Len(stack)
  <2>1. /\ at' = at + 1 /\ UNCHANGED phase
        /\ IF SymOf(Last(f)) = "FUNC"
             THEN /\ stack' = Front(f) /\ funcs' = funcs - 1
                  /\ ToPostfix(Last(f), 0)
             ELSE stack' = f /\ UNCHANGED <<funcs, post, tok>>
    BY <1>3 DEF CloseParen
  <2>2. /\ stack \in Seq(Nat) /\ at \in Nat /\ at \in 1 .. Len(tok) + 1 /\ Len(tok) \in Nat /\ funcs \in Nat
        /\ n \in Nat /\ DOMAIN stack = 1 .. n /\ Len(post) \in Nat
        /\ StackOK(stack, at) /\ Len(post) + n <= at
        /\ Cardinality(FuncsOn(tok, stack)) <= funcs /\ funcs < at
        /\ \A j \in DOMAIN stack : stack[j] # 0 => stack[j] \in DOMAIN tok
        /\ \A p \in DOMAIN post : post[p] < at
        /\ PostOK(post, stack, at)
    BY <1>1, InfixFacts
  <2>3. /\ Last(stack) # 0 /\ Last(stack) = stack[n] /\ tok[stack[n]].sym = "OPAREN"
    BY <1>1, <1>3, TopIs
  <2>4. at <= Len(tok)
    BY <1>1, <2>2 DEF Infix
  <2>5. /\ f \in Seq(Nat) /\ Len(f) = n - 1 /\ n > 1
        /\ \A j \in 1 .. n - 1 : f[j] = stack[j]
        /\ StackOK(f, at)
    BY <2>2, <2>3, StackPops
  <2>6. DOMAIN f = 1 .. n - 1 /\ \A j \in 1 .. n - 1 : j \in DOMAIN stack
    BY <2>2, <2>5
  <2>7. \A j \in DOMAIN f : \E i \in DOMAIN stack : f[j] = stack[i]
    BY <2>5, <2>6
  <2>8. stack # <<>>
    BY <2>2 DEF StackOK
  <2>9. /\ Cardinality(FuncsOn(tok, f)) <= Cardinality(FuncsOn(tok, stack))
        /\ Cardinality(FuncsOn(tok, f)) \in Nat /\ Cardinality(FuncsOn(tok, stack)) \in Nat
    BY <2>2, <2>5, <2>8, FuncsPop, FuncsCounted
  <2>10. \A j \in DOMAIN stack : stack[j] # 0 /\ tok[stack[j]].sym \in Circuits =>
            j \in DOMAIN f /\ f[j] = stack[j]
    <3>1. ASSUME NEW j \in DOMAIN stack, tok[stack[j]].sym \in Circuits PROVE j # n
      BY <2>3, <3>1 DEF Circuits
    <3>2. \A j \in 1 .. n : j # n => j \in 1 .. n - 1
      <4>1. n \in Nat
        BY <2>2
      <4> HIDE DEF n
      <4> QED BY <4>1
    <3>3. DOMAIN stack = 1 .. n
      BY <2>2
    <3> HIDE DEF n
    <3> QED BY <2>5, <2>6, <3>1, <3>2, <3>3
  <2> HIDE DEF f
  <2>11. CASE SymOf(Last(f)) # "FUNC"
    <3>1. stack' = f /\ UNCHANGED <<funcs, post, tok>>
      BY <2>1, <2>11
    <3>2. StackOK(f, at + 1)
      <4>1. at + 1 \in Nat /\ at <= at + 1 /\ at < at + 1 /\ \A j \in DOMAIN f : f[j] < at
        BY <2>2, <2>5 DEF StackOK
      <4> QED BY <2>2, <2>5, <4>1, StackGrows
    <3>3. Steady(tok, tok')
      <4>1. Steady(tok, tok)
        BY <1>1, SameTokens
      <4> QED BY <3>1, <4>1
    <3>4. \A p \in DOMAIN post : tok'[post[p]].circ = tok[post[p]].circ
      BY <3>1
    <3>5. \A i \in DOMAIN tok' : tok'[i].circ # 0 => tok[i].circ # 0
      BY <3>1
    <3>6. \A j \in DOMAIN stack : stack[j] # 0 /\ tok[stack[j]].sym \in Circuits =>
             \E i \in DOMAIN stack' : stack'[i] = stack[j]
      BY <2>10, <3>1
    <3>7. /\ stack' \in Seq(Nat) /\ StackOK(stack', at')
          /\ \A j \in DOMAIN stack' : \E i \in DOMAIN stack : stack'[j] = stack[i]
      BY <2>1, <2>5, <2>7, <3>1, <3>2
    <3>8. /\ at' \in 1 .. Len(tok) + 1 /\ at < at' /\ Len(post) + Len(stack') <= at'
          /\ funcs' \in Nat /\ funcs' < at'
      BY <2>1, <2>2, <2>4, <2>5, <3>1
    <3>9. Cardinality(FuncsOn(tok', stack')) <= funcs'
      BY <2>2, <2>9, <3>1
    <3>10. phase' = "infix" /\ UNCHANGED <<mem, out, astray, post>>
      BY <1>1, <2>1, <3>1
    <3> QED BY <1>1, <3>3, <3>4, <3>5, <3>6, <3>7, <3>8, <3>9, <3>10, ReadKeeps
  <2>12. CASE SymOf(Last(f)) = "FUNC"
    <3> DEFINE k == Last(f)
               g == Front(f)
               c == 0
    <3>1. stack' = g /\ funcs' = funcs - 1 /\ ToPostfix(k, c) /\ at' = at + 1 /\ phase' = "infix"
      BY <1>1, <2>1, <2>12
    <3>2. k # 0 /\ tok[k].sym = "FUNC"
      BY <2>12 DEF SymOf
    <3>3. /\ g \in Seq(Nat) /\ Len(g) = n - 2
          /\ \A j \in 1 .. n - 2 : g[j] = f[j]
          /\ StackOK(g, at) /\ (\A j \in DOMAIN g : g[j] < k) /\ k < at
          /\ k = f[n - 1] /\ n - 1 > 1 /\ Len(f) = n - 1
      <4>1. /\ g \in Seq(Nat) /\ Len(g) = Len(f) - 1 /\ Len(f) > 1
            /\ \A j \in 1 .. Len(f) - 1 : g[j] = f[j]
            /\ StackOK(g, at) /\ (\A j \in DOMAIN g : g[j] < k) /\ k < at
            /\ k = f[Len(f)]
        BY <2>2, <2>5, <3>2, StackPops
      <4> HIDE DEF g, k
      <4>2. (n - 1) - 1 = n - 2
        BY <2>2
      <4> QED BY <2>2, <2>5, <4>1, <4>2
    <3> HIDE DEF g, k, c
    <3>4. /\ DOMAIN g = 1 .. n - 2 /\ \A j \in 1 .. n - 2 : j \in 1 .. n - 1
          /\ n - 1 \in DOMAIN f /\ n - 1 \in DOMAIN stack /\ n - 1 \in 1 .. n - 1
      <4>1. n \in Nat /\ n - 1 > 1
        BY <2>2, <3>3
      <4>2. DOMAIN g = 1 .. Len(g) /\ Len(g) = n - 2
        BY <3>3
      <4>3. n - 1 \in 1 .. n - 1 /\ \A j \in 1 .. n - 2 : j \in 1 .. n - 1
        BY <4>1
      <4> HIDE DEF n
      <4> QED BY <2>6, <4>2, <4>3
    <3>5. k = stack[n - 1] /\ k \in DOMAIN tok /\ k \in Nat
      <4>1. f[n - 1] = stack[n - 1] /\ k = f[n - 1]
        BY <2>5, <3>3, <3>4
      <4>2. n - 1 \in DOMAIN stack
        BY <3>4
      <4>3. k \in DOMAIN tok
        BY <2>2, <3>2, <4>1, <4>2
      <4>4. DOMAIN tok = 1 .. Len(tok)
        BY <1>1, InfixShapes
      <4> QED BY <4>1, <4>3, <4>4
    <3>6. c \in 0 .. Len(tok) /\ c = 0
      BY <2>2 DEF c
    <3>7. \A p \in DOMAIN post : post[p] # k
      BY <2>2, <3>4, <3>5 DEF PostOK
    <3>8. \A j \in DOMAIN stack : stack[j] # 0 /\ tok[stack[j]].sym \in Circuits =>
             \E i \in DOMAIN stack' : stack'[i] = stack[j]
      <4>1. ASSUME NEW j \in DOMAIN stack, stack[j] # 0, tok[stack[j]].sym \in Circuits
            PROVE  j \in DOMAIN g /\ g[j] = stack[j]
        <5>1. j \in DOMAIN f /\ f[j] = stack[j] /\ j # n - 1
          BY <2>10, <3>2, <3>5, <4>1 DEF Circuits
        <5>2. j \in 1 .. n - 2
          BY <2>2, <2>6, <5>1
        <5> QED BY <3>3, <3>4, <5>1, <5>2
      <4> QED BY <3>1, <4>1
    <3>9. \A j \in DOMAIN stack' : stack'[j] # k /\ \E i \in DOMAIN stack : stack'[j] = stack[i]
      <4>1. ASSUME NEW j \in DOMAIN g PROVE g[j] # k /\ \E i \in DOMAIN stack : g[j] = stack[i]
        <5>1. g[j] \in Nat /\ g[j] < k
          BY <3>3
        <5>2. j \in DOMAIN f /\ g[j] = f[j]
          BY <2>6, <3>3, <3>4
        <5> QED BY <2>7, <3>5, <5>1, <5>2
      <4> QED BY <3>1, <4>1
    <3>10. StackOK(stack', at') /\ stack' \in Seq(Nat)
      <4>1. at + 1 \in Nat /\ at <= at + 1 /\ at < at + 1 /\ \A j \in DOMAIN g : g[j] < at
        BY <2>2, <3>3 DEF StackOK
      <4>2. StackOK(g, at + 1)
        BY <2>2, <3>3, <4>1, StackGrows
      <4> QED BY <3>1, <3>3, <4>2
    <3>11. \A i \in DOMAIN tok : tok'[i].sym = "FUNC" <=> tok[i].sym = "FUNC"
      BY <1>1, <3>1, <3>5, <3>6, <3>7, MovedToPostfix
    <3>12. Cardinality(FuncsOn(tok', stack')) <= funcs' /\ funcs' \in Nat
      <4>1. \A j \in DOMAIN f : f[j] # 0 => (tok'[f[j]].sym = "FUNC" <=> tok[f[j]].sym = "FUNC")
        BY <2>2, <2>5, <2>6, <3>11
      <4>2. f # <<>> /\ Len(g) = Len(f) - 1 /\ \A j \in 1 .. Len(f) - 1 : g[j] = f[j]
        <5>1. (n - 1) - 1 = n - 2
          BY <2>2
        <5> QED BY <3>3, <5>1, <3>4
      <4>3. f[Len(f)] # 0 /\ tok[f[Len(f)]].sym = "FUNC"
        BY <3>2, <3>3
      <4>4. Cardinality(FuncsOn(tok', g)) <= Cardinality(FuncsOn(tok, f)) - 1
        BY <2>5, <3>3, <4>1, <4>2, <4>3, FuncsPop
      <4>5. Cardinality(FuncsOn(tok', g)) \in Nat
        BY <3>3, FuncsCounted
      <4> QED BY <2>2, <2>9, <3>1, <4>4, <4>5
    <3>13. /\ at' \in 1 .. Len(tok) + 1 /\ at <= at' /\ k < at' /\ funcs' < at'
           /\ Len(post) + 1 + Len(stack') <= at'
      <4>1. Len(stack') = n - 2 /\ at' = at + 1 /\ funcs' = funcs - 1
        BY <3>1, <3>3
      <4>2. n \in Nat /\ at \in Nat /\ funcs \in Nat /\ Len(tok) \in Nat /\ Len(post) \in Nat
        BY <2>2
      <4>3. Len(post) + n <= at /\ funcs < at /\ at <= Len(tok) /\ k < at /\ k \in Nat
        BY <2>2, <2>4, <3>3, <3>5
      <4> HIDE DEF n
      <4> QED BY <4>1, <4>2, <4>3
    <3> QED BY <1>1, <3>1, <3>5, <3>6, <3>7, <3>8, <3>9, <3>10, <3>12, <3>13, MoveKeeps
  <2> QED BY <2>11, <2>12
<1> QED BY <1>2, <1>3


\* A function's parenthesis goes onto the stack with it.
LEMMA OpenParenKeeps == ASSUME IInv, OpenParen PROVE IInv'
<1>1. /\ phase = "infix" /\ phase' = "infix" /\ UNCHANGED <<mem, out, astray, tok, post>>
      /\ Infix \in {"FUNC", "OPAREN"}
      /\ IF Infix = "FUNC"
           THEN stack' = stack \o <<at, at + 1>> /\ funcs' = funcs + 1 /\ at' = at + 2
           ELSE stack' = Append(stack, at) /\ at' = at + 1 /\ UNCHANGED funcs
  BY DEF OpenParen, Converting
<1> DEFINE n == Len(stack)
<1>2. /\ stack \in Seq(Nat) /\ at \in Nat /\ at \in 1 .. Len(tok) + 1 /\ Len(tok) \in Nat /\ funcs \in Nat
      /\ n \in Nat /\ DOMAIN stack = 1 .. n /\ Len(post) \in Nat
      /\ StackOK(stack, at) /\ Len(post) + n <= at
      /\ Cardinality(FuncsOn(tok, stack)) <= funcs /\ funcs < at
      /\ \A j \in DOMAIN stack : stack[j] < at
  BY <1>1, InfixFacts
<1>3. at <= Len(tok) /\ at \in DOMAIN tok /\ tok[at].sym = Infix /\ DOMAIN tok = 1 .. Len(tok)
  <2>1. at <= Len(tok) /\ tok[at].sym = Infix
    BY <1>1, <1>2 DEF Infix
  <2>2. DOMAIN tok = 1 .. Len(tok)
    BY <1>1, InfixShapes
  <2> QED BY <1>2, <2>1, <2>2
<1>4. Steady(tok, tok')
  <2>1. Steady(tok, tok)
    BY <1>1, SameTokens
  <2> QED BY <1>1, <2>1
<1>5. CASE Infix # "FUNC"
  <2>1. at' = at + 1 /\ stack' \in {stack, Append(stack, at)} /\ UNCHANGED funcs /\ tok[at].sym # "FUNC"
    BY <1>1, <1>3, <1>5
  <2>2. /\ \A p \in DOMAIN post : tok'[post[p]].circ = tok[post[p]].circ
        /\ \A i \in DOMAIN tok' : tok'[i].circ # 0 => tok[i].circ # 0
    BY <1>1
  <2> QED BY <1>1, <1>3, <1>4, <2>1, <2>2, PushKeeps
<1>6. CASE Infix = "FUNC"
  <2> DEFINE r == Append(stack, at)
             s == Append(r, at + 1)
  <2>1. stack' = s /\ funcs' = funcs + 1 /\ at' = at + 2
    <3>1. stack \o <<at, at + 1>> = s
      BY <1>2
    <3> QED BY <1>1, <1>6, <3>1
  <2>2. at + 1 <= Len(tok) /\ tok[at + 1].sym = "OPAREN"
    <3>1. at + 1 \in DOMAIN tok /\ tok[at + 1].sym = "OPAREN"
      BY <1>1, <1>3, <1>6, InfixShapes DEF OpensWithParen
    <3> QED BY <1>3, <3>1
  <2>3. StackOK(r, at + 1) /\ r \in Seq(Nat)
    <3>1. at + 1 \in Nat /\ at <= at + 1 /\ at < at + 1
      BY <1>2
    <3> QED BY <1>2, <3>1, StackGrows
  <2>4. StackOK(s, at + 2) /\ s \in Seq(Nat)
    <3>1. \A j \in DOMAIN r : r[j] < at + 1
      BY <2>3 DEF StackOK
    <3>2. at + 1 \in Nat /\ at + 2 \in Nat /\ at + 1 <= at + 2 /\ at + 1 < at + 2
      BY <1>2
    <3> HIDE DEF r
    <3> QED BY <2>3, <3>1, <3>2, StackGrows
  <2>5. /\ Len(r) = n + 1 /\ DOMAIN r = 1 .. n + 1 /\ r[n + 1] = at /\ \A j \in 1 .. n : r[j] = stack[j]
    BY <1>2
  <2>6. /\ Len(s) = n + 2 /\ DOMAIN s = 1 .. n + 2 /\ s[n + 2] = at + 1 /\ \A j \in 1 .. n + 1 : s[j] = r[j]
    <3>1. Len(r) + 1 = n + 2
      BY <1>2, <2>5
    <3> HIDE DEF r
    <3> QED BY <2>3, <2>5, <3>1
  <2> HIDE DEF r, s, n
  <2>7. /\ \A j \in 1 .. n : j \in DOMAIN s /\ s[j] = stack[j]
        /\ \A j \in DOMAIN s : j \in 1 .. n \/ s[j] = at \/ s[j] = at + 1
    <3>1. /\ \A j \in 1 .. n : j \in 1 .. n + 1 /\ j \in 1 .. n + 2
          /\ \A j \in 1 .. n + 2 : j \in 1 .. n \/ (j = n + 1 /\ j \in 1 .. n + 1) \/ j = n + 2
      BY <1>2
    <3> QED BY <2>5, <2>6, <3>1
  <2>8. \A j \in DOMAIN stack' : stack'[j] >= at \/ \E i \in DOMAIN stack : stack'[j] = stack[i]
    <3>1. at >= at /\ at + 1 >= at
      BY <1>2
    <3> QED BY <1>2, <2>1, <2>7, <3>1
  <2>9. \A j \in DOMAIN stack : \E i \in DOMAIN stack' : stack'[i] = stack[j]
    BY <1>2, <2>1, <2>7
  <2>10. Cardinality(FuncsOn(tok', stack')) <= funcs'
    <3>1. Cardinality(FuncsOn(tok, r)) <= Cardinality(FuncsOn(tok, stack)) + 1
      BY <1>2, FuncsPush DEF r
    <3>2. Cardinality(FuncsOn(tok, s)) <= Cardinality(FuncsOn(tok, r))
      <4>1. at + 1 \in Nat /\ tok[at + 1].sym # "FUNC"
        BY <1>2, <2>2
      <4> QED BY <2>3, <4>1, FuncsPush DEF s
    <3>3. /\ Cardinality(FuncsOn(tok, r)) \in Nat /\ Cardinality(FuncsOn(tok, s)) \in Nat
          /\ Cardinality(FuncsOn(tok, stack)) \in Nat
      BY <1>2, <2>3, <2>4, FuncsCounted
    <3>4. Cardinality(FuncsOn(tok, s)) <= funcs + 1
      BY <1>2, <3>1, <3>2, <3>3
    <3> QED BY <1>1, <2>1, <3>4
  <2>11. /\ at' \in 1 .. Len(tok) + 1 /\ at < at' /\ Len(post) + Len(stack') <= at'
         /\ funcs' \in Nat /\ funcs' < at'
    BY <1>2, <2>1, <2>2, <2>6
  <2>12. stack' \in Seq(Nat) /\ StackOK(stack', at')
    BY <2>1, <2>4
  <2>13. /\ \A p \in DOMAIN post : tok'[post[p]].circ = tok[post[p]].circ
         /\ \A i \in DOMAIN tok' : tok'[i].circ # 0 => tok[i].circ # 0
    BY <1>1
  <2> QED BY <1>1, <1>4, <2>8, <2>9, <2>10, <2>11, <2>12, <2>13, ReadKeeps
<1> QED BY <1>5, <1>6

\* The ? learns its :, which takes its place on the stack.
LEMMA ElseKeeps == ASSUME IInv, Else PROVE IInv'
<1>1. /\ phase = "infix" /\ UNCHANGED <<mem, out, astray>> /\ Infix = "IFF_ELSE" /\ Top # "BEGIN" /\ Converting
  BY DEF Else, Converting
<1>2. CASE Top # "IFF_THEN"
  <2>1. PopIntoPostfix
    BY <1>2 DEF Else
  <2> QED BY <1>1, <2>1, PopKeeps
<1>3. CASE Top = "IFF_THEN"
  <2> DEFINE f == Front(stack)
             n == Len(stack)
             k == Last(stack)
             c == at
             r == Append(f, at)
  <2>1. /\ at' = at + 1 /\ phase' = "infix" /\ funcs' = funcs
        /\ ToPostfix(k, c) /\ stack' = r
    BY <1>1, <1>3 DEF Else
  <2>2. /\ stack \in Seq(Nat) /\ at \in Nat /\ at \in 1 .. Len(tok) + 1 /\ Len(tok) \in Nat /\ funcs \in Nat
        /\ n \in Nat /\ DOMAIN stack = 1 .. n /\ Len(post) \in Nat
        /\ StackOK(stack, at) /\ Len(post) + n <= at
        /\ Cardinality(FuncsOn(tok, stack)) <= funcs /\ funcs < at
        /\ \A j \in DOMAIN stack : stack[j] # 0 => stack[j] \in DOMAIN tok
        /\ PostOK(post, stack, at)
    BY <1>1, InfixFacts
  <2>3. /\ k # 0 /\ k = stack[n] /\ n \in DOMAIN stack /\ k \in DOMAIN tok
    BY <1>1, TopIs
  <2>4. at <= Len(tok) /\ tok[at].sym = "IFF_ELSE" /\ DOMAIN tok = 1 .. Len(tok) /\ at \in DOMAIN tok
    <3>1. at <= Len(tok) /\ tok[at].sym = "IFF_ELSE"
      BY <1>1, <2>2 DEF Infix
    <3>2. DOMAIN tok = 1 .. Len(tok)
      BY <1>1, InfixShapes
    <3> QED BY <2>2, <3>1, <3>2
  <2>5. /\ f \in Seq(Nat) /\ Len(f) = n - 1 /\ n > 1
        /\ \A j \in 1 .. n - 1 : f[j] = stack[j]
        /\ StackOK(f, at) /\ (\A j \in DOMAIN f : f[j] < k) /\ k < at
    BY <2>2, <2>3, StackPops
  <2>18. n \in Nat /\ DOMAIN stack = 1 .. n
    BY <2>2
  <2> HIDE DEF f, n, k
  <2>6. /\ DOMAIN f = 1 .. n - 1 /\ \A j \in 1 .. n - 1 : j \in DOMAIN stack
        /\ \A j \in 1 .. n : j = n \/ j \in 1 .. n - 1
    <3>1. DOMAIN f = 1 .. Len(f)
      BY <2>5
    <3> QED BY <2>5, <2>18, <3>1
  <2>7. StackOK(r, at + 1) /\ r \in Seq(Nat)
    <3>1. at + 1 \in Nat /\ at <= at + 1 /\ at < at + 1
      BY <2>2
    <3>2. \A j \in DOMAIN f : f[j] < at
      BY <2>5 DEF StackOK
    <3> QED BY <2>2, <2>5, <3>1, <3>2, StackGrows
  <2>8. /\ Len(r) = n /\ DOMAIN r = 1 .. n /\ r[n] = at
        /\ \A j \in 1 .. n - 1 : j \in DOMAIN r /\ r[j] = f[j]
    <3>1. Len(f) + 1 = n
      BY <2>5, <2>18
    <3>2. Len(r) = Len(f) + 1 /\ DOMAIN r = 1 .. Len(f) + 1 /\ r[Len(f) + 1] = at /\ \A j \in 1 .. Len(f) : r[j] = f[j]
      BY <2>5
    <3>3. \A j \in 1 .. n - 1 : j \in 1 .. n
      BY <2>18
    <3> HIDE DEF r
    <3> QED BY <2>5, <3>1, <3>2, <3>3
  <2> HIDE DEF r, c
  <2>9. c \in 0 .. Len(tok) /\ c = at
    BY <2>2, <2>4 DEF c
  <2>10. \A p \in DOMAIN post : post[p] # k
    BY <2>2, <2>3 DEF PostOK
  <2>11. \E j \in DOMAIN stack' : stack'[j] = c /\ tok[c].sym \in Circuits
    <3>1. n \in DOMAIN r
      BY <2>2, <2>3, <2>8
    <3> QED BY <2>1, <2>4, <2>8, <2>9, <3>1 DEF Circuits
  <2>12. \A j \in DOMAIN stack : stack[j] # 0 /\ tok[stack[j]].sym \in Circuits =>
           stack[j] = k \/ \E i \in DOMAIN stack' : stack'[i] = stack[j]
    BY <2>1, <2>2, <2>3, <2>5, <2>6, <2>8
  <2>13. k \in Nat
    BY <2>2, <2>3
  <2>14. \A j \in DOMAIN stack' :
           stack'[j] # k /\ (stack'[j] >= at \/ \E i \in DOMAIN stack : stack'[j] = stack[i])
    <3>1. ASSUME NEW j \in 1 .. n - 1 PROVE r[j] # k /\ r[j] = stack[j] /\ j \in DOMAIN stack
      <4>1. r[j] = f[j] /\ f[j] \in Nat /\ f[j] < k /\ f[j] = stack[j]
        BY <2>5, <2>6, <2>8
      <4> QED BY <2>6, <2>13, <4>1
    <3>2. r[n] # k /\ r[n] >= at
      BY <2>2, <2>5, <2>8, <2>13
    <3> QED BY <2>1, <2>6, <2>8, <3>1, <3>2
  <2>15. Cardinality(FuncsOn(tok', stack')) <= funcs'
    <3>1. \A i \in DOMAIN tok : tok'[i].sym = "FUNC" <=> tok[i].sym = "FUNC"
      BY <1>1, <2>1, <2>3, <2>9, <2>10, MovedToPostfix
    <3>2. /\ \A j \in DOMAIN stack : stack[j] # 0 => (tok'[stack[j]].sym = "FUNC" <=> tok[stack[j]].sym = "FUNC")
          /\ tok'[at].sym # "FUNC"
      BY <2>2, <2>4, <3>1
    <3>3. \A j \in DOMAIN f : f[j] # 0 => (tok'[f[j]].sym = "FUNC" <=> tok'[f[j]].sym = "FUNC")
      OBVIOUS
    <3>4. Cardinality(FuncsOn(tok', r)) <= Cardinality(FuncsOn(tok', f))
      BY <2>2, <2>5, <3>2, <3>3, FuncsPush DEF r
    <3>5. stack # <<>> /\ Len(f) = Len(stack) - 1 /\ \A j \in 1 .. Len(stack) - 1 : f[j] = stack[j]
      BY <2>2, <2>5 DEF n, StackOK
    <3>6. Cardinality(FuncsOn(tok', f)) <= Cardinality(FuncsOn(tok, stack))
      BY <2>2, <2>5, <3>2, <3>5, FuncsPop
    <3>7. /\ Cardinality(FuncsOn(tok', r)) \in Nat /\ Cardinality(FuncsOn(tok', f)) \in Nat
          /\ Cardinality(FuncsOn(tok, stack)) \in Nat
      BY <2>2, <2>5, <2>7, FuncsCounted
    <3>8. Cardinality(FuncsOn(tok', r)) <= funcs
      BY <2>2, <3>4, <3>6, <3>7
    <3> QED BY <2>1, <3>8
  <2>16. /\ at' \in 1 .. Len(tok) + 1 /\ at <= at' /\ k < at' /\ funcs' < at' /\ funcs' \in Nat
         /\ Len(post) + 1 + Len(stack') <= at'
    <3>1. Len(stack') = n /\ at' = at + 1 /\ funcs' = funcs
      BY <2>1, <2>8
    <3> QED BY <2>2, <2>4, <2>5, <2>13, <3>1
  <2>17. stack' \in Seq(Nat) /\ StackOK(stack', at')
    BY <2>1, <2>7
  <2> QED BY <1>1, <2>1, <2>3, <2>9, <2>10, <2>11, <2>12, <2>14, <2>15, <2>16, <2>17, MoveKeeps
<1> QED BY <1>2, <1>3


\* At the end no circuit token is left on the stack.
LEMMA EndOfInfixKeeps == ASSUME IInv, EndOfInfix PROVE IInv'
<1>1. /\ phase = "infix" /\ UNCHANGED <<mem, out, astray>> /\ Converting
  BY DEF EndOfInfix, Converting
<1>2. CASE Top # "BEGIN"
  <2>1. PopIntoPostfix
    BY <1>2 DEF EndOfInfix
  <2> QED BY <1>1, <1>2, <2>1, PopKeeps
<1>3. CASE Top = "BEGIN"
  <2>1. phase' = "postfix" /\ stack' = <<>> /\ at' = 1 /\ UNCHANGED <<tok, post, funcs>>
    BY <1>3 DEF EndOfInfix
  <2>2. /\ stack \in Seq(Nat) /\ Len(tok) \in Nat /\ StackOK(stack, at)
        /\ Len(stack) \in Nat /\ DOMAIN stack = 1 .. Len(stack)
        /\ Len(post) \in Nat /\ DOMAIN post = 1 .. Len(post)
        /\ PostOK(post, stack, at) /\ Pending(tok, post, stack)
    BY <1>1, InfixFacts
  <2>3. stack[Len(stack)] = 0 /\ Len(stack) \in DOMAIN stack
    BY <1>1, <1>3, TopIs
  <2>4. \A j \in DOMAIN stack : stack[j] = 0
    <3>1. ASSUME NEW j \in DOMAIN stack PROVE stack[j] = 0
      <4>1. CASE j = Len(stack)
        BY <2>3, <4>1
      <4>2. CASE j # Len(stack)
        <5>1. j < Len(stack)
          BY <2>2, <4>2
        <5>2. stack[j] < stack[Len(stack)] /\ stack[j] \in Nat
          BY <2>2, <2>3, <5>1 DEF StackOK
        <5> QED BY <2>3, <5>2
      <4> QED BY <4>1, <4>2
    <3> QED BY <3>1
  <2>5. ASSUME NEW p \in 1 .. Len(post), tok[post[p]].circ # 0
        PROVE  \E q \in p + 1 .. Len(post) : post[q] = tok[post[p]].circ
    <3>1. \E q \in DOMAIN post : p < q /\ post[q] = tok[post[p]].circ
      BY <2>2, <2>4, <2>5 DEF Pending
    <3>2. \A q \in DOMAIN post : p < q => q \in p + 1 .. Len(post)
      BY <2>2
    <3> QED BY <3>1, <3>2
  <2>6. CircuitAhead'
    <3>1. \A p \in at' .. Len(post') : tok'[post'[p]].circ # 0 =>
             \E q \in p + 1 .. Len(post') : post'[q] = tok'[post'[p]].circ
      BY <2>1, <2>5
    <3>2. DOMAIN stack' = {}
      BY <2>1
    <3> QED BY <3>1, <3>2 DEF CircuitAhead
  <2>7. PostfixOK'
    <3>1. Injective(post')
      BY <2>1, <2>2 DEF PostOK
    <3>2. at' \in 1 .. Len(post') + 1 /\ Len(stack') < at'
      BY <2>1, <2>2
    <3> QED BY <2>6, <3>1, <3>2 DEF PostfixOK
  <2>8. TypeOK'
    <3>1. /\ at' \in 1 .. Len(tok') + Len(post') + 1
          /\ stack' \in Seq(0 .. Len(tok')) /\ Len(stack') <= Len(tok') + 1
      BY <2>1, <2>2
    <3>2. /\ \A k \in DOMAIN tok : tok[k].circ \in 0 .. Len(tok)
          /\ post \in Seq(DOMAIN tok)
          /\ Len(tok) < MaxTokens
          /\ Len(post) <= Len(tok)
          /\ funcs \in 0 .. Len(tok)
          /\ mem \in [Vars -> Values]
          /\ out \in Vars /\ astray \in BOOLEAN
      BY <1>1 DEF IInv, TypeOK
    <3> QED BY <1>1, <2>1, <3>1, <3>2 DEF TypeOK
  <2>9. TokensOK'
    <3>1. /\ \A k \in DOMAIN tok : HoldsItsValue(tok[k])
          /\ OpensWithParen(tok) /\ tok \in TokensOf(Symbols, Nat)
      BY <1>1 DEF IInv, TokensOK
    <3> QED BY <2>1, <3>1 DEF TokensOK
  <2> QED BY <2>1, <2>7, <2>8, <2>9 DEF IInv
<1> QED BY <1>2, <1>3

\* SYM_BEGIN gives way to every operator.
LEMMA BeginGivesWay == \A s \in Infixes : GoesAbove("BEGIN", s)
<1>1. Precedence("BEGIN") = 0
  BY DEF Precedence, Assignments
<1>2. /\ Precedence("POST_INCREMENT") = 82 /\ Precedence("PRE_INCREMENT") = 77
      /\ Precedence("COMMA") = 6 /\ Precedence("IFF_THEN") = 11
      /\ Precedence("OR") = 16 /\ Precedence("AND") = 20 /\ Precedence("LOWNOT") = 25
  BY DEF Precedence, Assignments
<1>3. /\ Precedence("EQUAL") = 30 /\ Precedence("CONCAT") = 38 /\ Precedence("ADD") = 58
      /\ Precedence("HIGHNOT") = 67 /\ Precedence("POWER") = 72
  BY DEF Precedence, Assignments
<1>4. \A s \in Infixes \ Assignments : Precedence(s) \in Nat /\ Precedence(s) > 0
  BY <1>2, <1>3 DEF Infixes
<1>5. ASSUME NEW n \in Nat, n > 0 PROVE 0 < n + (n % 2)
  <2>1. n % 2 \in Nat
    OBVIOUS
  <2> QED BY <1>5, <2>1
<1>6. \A s \in Infixes \ Assignments : Precedence("BEGIN") < Precedence(s) + (Precedence(s) % 2)
  BY <1>1, <1>4, <1>5
<1> QED BY <1>6 DEF GoesAbove

LEMMA InfixOperatorKeeps == ASSUME IInv, InfixOperator PROVE IInv'
<1>1. /\ phase = "infix" /\ UNCHANGED <<mem, out, astray>> /\ Infix \in Infixes /\ Converting
  BY DEF InfixOperator, Converting
<1>2. CASE ~GoesAbove(Top, Infix)
  <2>1. PopIntoPostfix
    BY <1>2 DEF InfixOperator
  <2>2. Top # "BEGIN"
    BY <1>1, <1>2, BeginGivesWay
  <2> QED BY <1>1, <2>1, <2>2, PopKeeps
<1>3. CASE GoesAbove(Top, Infix)
  <2> DEFINE C == CompletesLeft(Infix)
             E == Infix = "COMMA" /\ funcs = 0
             New(k) == IF k \in C THEN [tok[k] EXCEPT !.circ = at]
                       ELSE IF E /\ k \in AssignsAfterComma THEN [tok[k] EXCEPT !.sym = "ASSIGN"]
                       ELSE tok[k]
  <2>1. /\ phase' = "infix" /\ UNCHANGED <<post, funcs>> /\ at' = at + 1
        /\ stack' = IF Infix = "COMMA" /\ funcs > 0 THEN stack ELSE Append(stack, at)
        /\ tok' = [k \in DOMAIN tok |-> New(k)]
    BY <1>1, <1>3 DEF InfixOperator
  <2>2. /\ at \in Nat /\ at \in 1 .. Len(tok) + 1 /\ Len(tok) \in Nat
        /\ Len(post) \in Nat /\ DOMAIN post = 1 .. Len(post) /\ post \in Seq(Nat)
        /\ \A p \in DOMAIN post : post[p] < at /\ post[p] \in DOMAIN tok
        /\ PostOK(post, stack, at)
    BY <1>1, InfixFacts
  <2>3. tok \in Seq(TokenSet) /\ DOMAIN tok = 1 .. Len(tok) /\ \A k \in DOMAIN tok : tok[k].circ \in 0 .. Len(tok)
    BY <1>1, InfixShapes DEF TokensOf, TokenSet
  <2>4. at <= Len(tok) /\ at \in DOMAIN tok /\ tok[at].sym = Infix
    BY <1>1, <2>2, <2>3 DEF Infix, Infixes, Assignments
  <2>5. \A k \in C : \E p \in DOMAIN post : post[p] = k
    <3>1. post # <<>> => Last(post) = post[Len(post)] /\ Len(post) \in DOMAIN post
      BY <2>2 DEF Last
    <3> QED BY <3>1 DEF CompletesLeft
  <2>6. C # {} => Infix \in Circuits /\ stack' = Append(stack, at)
    BY <2>1 DEF CompletesLeft, Circuits
  <2>7. \A k \in AssignsAfterComma : tok[k].sym = "EQUAL" /\ k > at
    <3>1. ASSUME NEW k \in AssignsAfterComma PROVE tok[k].sym = "EQUAL" /\ k > at
      <4>1. /\ k \in DOMAIN tok /\ k > at + 1 /\ (k - at) % 2 = 0
            /\ \A j \in at + 1 .. k : IF (j - at) % 2 = 1 THEN tok[j].sym = "VAR" ELSE tok[j].sym = "EQUAL"
        BY DEF AssignsAfterComma
      <4>2. k \in Nat /\ k \in at + 1 .. k /\ k > at
        BY <2>2, <2>3, <4>1
      <4>3. ~((k - at) % 2 = 1)
        BY <4>1
      <4> QED BY <4>1, <4>2, <4>3
    <3> QED BY <3>1
  <2> HIDE DEF C, E
  <2>8. ASSUME NEW k \in DOMAIN tok
        PROVE  /\ New(k) \in TokenSet /\ New(k).circ \in 0 .. Len(tok)
               /\ New(k).v = tok[k].v
               /\ New(k).sym = tok[k].sym \/ (tok[k].sym = "EQUAL" /\ New(k).sym = "ASSIGN")
               /\ New(k).circ = tok[k].circ \/ (k \in C /\ New(k).circ = at)
    <3>1. tok[k] \in TokenSet /\ tok[k].circ \in 0 .. Len(tok)
      BY <2>3
    <3>2. at \in Nat /\ at \in 0 .. Len(tok)
      BY <2>2, <2>4
    <3>3. CASE k \in C
      <4> DEFINE e == [tok[k] EXCEPT !.circ = at]
      <4>1. e \in TokenSet /\ e.circ = at /\ e.v = tok[k].v /\ e.sym = tok[k].sym
        BY <3>1, <3>2 DEF TokenSet
      <4>2. New(k) = e
        BY <3>3
      <4> HIDE DEF e, New
      <4> QED BY <3>2, <3>3, <4>1, <4>2
    <3>4. CASE k \notin C /\ E /\ k \in AssignsAfterComma
      <4> DEFINE e == [tok[k] EXCEPT !.sym = "ASSIGN"]
      <4>1. "ASSIGN" \in Symbols
        BY DEF Symbols, Infixes, Assignments
      <4>2. e \in TokenSet /\ e.circ = tok[k].circ /\ e.v = tok[k].v /\ e.sym = "ASSIGN"
        BY <3>1, <4>1 DEF TokenSet
      <4>3. New(k) = e
        BY <3>4
      <4> HIDE DEF e, New
      <4> QED BY <2>7, <3>1, <3>4, <4>2, <4>3
    <3>5. CASE k \notin C /\ ~(E /\ k \in AssignsAfterComma)
      <4>1. New(k) = tok[k]
        BY <3>5
      <4> HIDE DEF New
      <4> QED BY <3>1, <4>1
    <3> QED BY <3>3, <3>4, <3>5
  <2> HIDE DEF New
  <2>9. Steady(tok, tok')
    <3>1. tok' \in Seq(TokenSet) /\ Len(tok') = Len(tok) /\ DOMAIN tok' = DOMAIN tok
      <4>1. tok' \in [1 .. Len(tok) -> TokenSet]
        BY <2>1, <2>3, <2>8
      <4>2. Len(tok) \in Nat /\ DOMAIN tok = 1 .. Len(tok)
        BY <2>2, <2>3
      <4>3. DOMAIN tok' = 1 .. Len(tok)
        BY <4>1
      <4>4. tok' \in Seq(TokenSet) /\ Len(tok') = Len(tok)
        BY <4>1, <4>2
      <4> QED BY <4>2, <4>3, <4>4
    <3>2. Kept(tok, tok')
      BY <2>1, <2>8, <3>1 DEF Kept
    <3>3. \A i \in DOMAIN tok' : tok'[i].circ \in 0 .. Len(tok)
      BY <2>1, <2>8
    <3> QED BY <3>1, <3>2, <3>3 DEF Steady, TokensOf, TokenSet
  <2>10. tok[at].sym # "FUNC"
    BY <1>1, <2>4 DEF Infixes, Assignments
  <2>11. \A p \in DOMAIN post :
           \/ tok'[post[p]].circ = tok[post[p]].circ
           \/ tok'[post[p]].circ = at /\ tok[at].sym \in Circuits /\ stack' = Append(stack, at)
    BY <2>1, <2>2, <2>4, <2>6, <2>8
  <2>12. \A i \in DOMAIN tok' : tok'[i].circ # 0 => tok[i].circ # 0 \/ \E p \in DOMAIN post : post[p] = i
    BY <2>1, <2>5, <2>8
  <2>13. stack' \in {stack, Append(stack, at)}
    BY <2>1
  <2> QED BY <1>1, <2>1, <2>4, <2>9, <2>10, <2>11, <2>12, <2>13, PushKeeps
<1> QED BY <1>2, <1>3


-----------------------------------------------------------------------------
(* The beginning.                                                          *)

LEMMA InitHolds == Init => IInv
<1> SUFFICES ASSUME Init PROVE IInv
  OBVIOUS
<1>1. PICK t \in Texts :
        /\ phase = "text" /\ tok = t.lexemes /\ out = t.out
        /\ at = 1 /\ stack = <<>> /\ post = <<>> /\ funcs = 0 /\ mem = Start /\ astray = FALSE
  BY DEF Init
<1>2. IsText(t)
  BY TextsAssumption
<1>3. /\ tok \in TokensOf(Symbols \cup {"PLUS", "INCREMENT"}, {0})
      /\ \A k \in DOMAIN tok : HoldsItsValue(tok[k])
      /\ OpensWithParen(tok) /\ out \in Vars
  BY <1>1, <1>2 DEF IsText, TokensOf
<1>4. tok \in Seq(Lexeme) /\ Len(tok) \in Nat
  BY <1>3 DEF TokensOf, Lexeme
<1>5. \A k \in DOMAIN tok : tok[k].circ \in 0 .. Len(tok)
  <2>1. \A k \in DOMAIN tok : tok[k] \in Lexeme
    BY <1>4
  <2>2. 0 \in 0 .. Len(tok)
    BY <1>4
  <2> QED BY <2>1, <2>2 DEF Lexeme
<1>6. /\ stack \in Seq(0 .. Len(tok)) /\ post \in Seq(DOMAIN tok)
      /\ Len(stack) = 0 /\ Len(post) = 0
  BY <1>1
<1>7. TypeOK
  <2>1. at \in 1 .. Len(tok) + Len(post) + 1 /\ funcs \in 0 .. Len(tok)
        /\ Len(post) <= Len(tok) /\ Len(stack) <= Len(tok) + 1
    BY <1>1, <1>4, <1>6
  <2>2. astray \in BOOLEAN /\ mem \in [Vars -> Values]
    BY <1>1, StartAssumption
  <2> QED BY <1>1, <1>3, <1>5, <1>6, <2>1, <2>2 DEF TypeOK
<1>8. TokensOK
  BY <1>1, <1>3 DEF TokensOK
<1> QED BY <1>1, <1>7, <1>8 DEF IInv

LEMMA TokenizeKeeps == ASSUME IInv, Tokenize PROVE IInv'
<1>1. /\ phase = "text"
      /\ tok \in TokensOf(Symbols \cup {"PLUS", "INCREMENT"}, {0})
      /\ at = 1 /\ stack = <<>> /\ post = <<>> /\ funcs = 0
      /\ \A k \in DOMAIN tok : HoldsItsValue(tok[k])
      /\ OpensWithParen(tok)
  BY DEF Tokenize, IInv, TokensOK
<1>2. CASE ~Fits(Tokens(tok))
  BY <1>2, AbnormalEndKeeps DEF Tokenize
<1>3. CASE Fits(Tokens(tok))
  <2> DEFINE r == Tokens(tok)
  <2>1. /\ phase' = "infix" /\ tok' = r /\ stack' = <<0>>
        /\ UNCHANGED <<at, post, funcs, mem, out, astray>>
    BY <1>3 DEF Tokenize
  <2>2. tok \in Seq(Lexeme)
    BY <1>1 DEF TokensOf, Lexeme
  <2>3. r \in Seq(Fresh) /\ (\A k \in DOMAIN r : HoldsItsValue(r[k])) /\ OpensWithParen(r)
    BY <1>1, <2>2, TokensAreMade
  <2>4. Len(r) <= MaxTokens - 1
    BY <1>3 DEF Fits
  <2> HIDE DEF r
  <2>5. Len(r) \in Nat /\ DOMAIN r = 1 .. Len(r) /\ Len(r) < MaxTokens
    BY <2>3, <2>4, MaxTokensAssumption
  <2>6. r \in TokensOf(Symbols, Nat) /\ \A k \in DOMAIN r : r[k].circ = 0
    <3>1. Fresh \subseteq TokenSet
      BY DEF Fresh, TokenSet
    <3>2. \A k \in DOMAIN r : r[k] \in Fresh
      BY <2>3
    <3>3. r \in Seq(TokenSet)
      BY <2>3, <3>1
    <3> QED BY <3>2, <3>3 DEF TokensOf, TokenSet, Fresh
  <2>7. /\ stack' \in Seq(Nat) /\ Len(stack') = 1 /\ DOMAIN stack' = {1} /\ stack'[1] = 0
        /\ at' = 1 /\ post' = <<>> /\ funcs' = 0 /\ Len(post') = 0 /\ DOMAIN post' = {}
    BY <1>1, <2>1
  <2>8. TypeOK'
    <3>1. /\ \A k \in DOMAIN tok' : tok'[k].circ \in 0 .. Len(tok')
          /\ at' \in 1 .. Len(tok') + Len(post') + 1
          /\ Len(tok') < MaxTokens
          /\ Len(post') <= Len(tok') /\ Len(stack') <= Len(tok') + 1
          /\ funcs' \in 0 .. Len(tok')
      BY <2>1, <2>5, <2>6, <2>7
    <3>2. stack' \in Seq(0 .. Len(tok')) /\ post' \in Seq(DOMAIN tok')
      BY <2>1, <2>5, <2>7
    <3>3. mem' \in [Vars -> Values] /\ out' \in Vars /\ astray' \in BOOLEAN
      BY <2>1 DEF IInv, TypeOK
    <3> QED BY <2>1, <3>1, <3>2, <3>3 DEF TypeOK
  <2>9. TokensOK'
    BY <2>1, <2>3, <2>6 DEF TokensOK
  <2>10. StackOK(stack', at')
    <3>1. stack' # <<>>
      BY <2>7
    <3>2. /\ \A j \in DOMAIN stack' : stack'[j] < at'
          /\ \A i, j \in DOMAIN stack' : i < j => stack'[i] < stack'[j]
      BY <2>7
    <3> QED BY <2>7, <3>1, <3>2 DEF StackOK
  <2>11. PostOK(post', stack', at')
    BY <2>7 DEF PostOK, Injective
  <2>12. Cardinality(FuncsOn(tok', stack')) <= funcs'
    <3>1. FuncsOn(tok', stack') = {}
      BY <2>7 DEF FuncsOn
    <3> QED BY <2>7, <3>1, FS_EmptySet
  <2>13. Pending(tok', post', stack')
    BY <2>1, <2>6, <2>7 DEF Pending
  <2>14. InfixOK'
    <3>1. at' \in 1 .. Len(tok') + 1 /\ Len(post') + Len(stack') <= at' /\ funcs' < at'
      BY <2>1, <2>5, <2>7
    <3> QED BY <2>10, <2>11, <2>12, <2>13, <3>1 DEF InfixOK
  <2> QED BY <2>1, <2>8, <2>9, <2>14 DEF IInv
<1> QED BY <1>2, <1>3

-----------------------------------------------------------------------------
(* Evaluation.                                                             *)

LEMMA PostfixFacts ==
  ASSUME IInv, phase = "postfix"
  PROVE  /\ tok \in Seq(TokenSet) /\ Len(tok) \in Nat /\ DOMAIN tok = 1 .. Len(tok)
         /\ \A k \in DOMAIN tok : tok[k].circ \in 0 .. Len(tok) /\ HoldsItsValue(tok[k])
         /\ stack \in Seq(Nat) /\ Len(stack) \in Nat /\ DOMAIN stack = 1 .. Len(stack)
         /\ post \in Seq(Nat) /\ Len(post) \in Nat /\ DOMAIN post = 1 .. Len(post)
         /\ \A p \in DOMAIN post : post[p] \in DOMAIN tok
         /\ at \in 1 .. Len(post) + 1 /\ at \in Nat /\ Injective(post) /\ Len(stack) < at
         /\ \A p \in at .. Len(post) : Ahead(tok[post[p]].circ, p)
         /\ \A j \in DOMAIN stack :
              /\ IsOperand(tok[stack[j]]) /\ tok[stack[j]].circ = 0 /\ stack[j] \in DOMAIN tok
              /\ \E p \in 1 .. at - 1 : post[p] = stack[j]
              /\ \A i \in DOMAIN stack : stack[i] = stack[j] => i = j
         /\ mem \in Memory /\ out \in Vars /\ astray \in BOOLEAN
<1>1. /\ tok \in TokensOf(Symbols, Nat) /\ \A k \in DOMAIN tok : HoldsItsValue(tok[k])
  BY DEF IInv, TokensOK
<1>2. /\ tok \in Seq(TokenSet) /\ Len(tok) \in Nat /\ DOMAIN tok = 1 .. Len(tok)
      /\ \A k \in DOMAIN tok : tok[k] \in TokenSet
  <2>1. tok \in Seq(TokenSet)
    BY <1>1 DEF TokensOf, TokenSet
  <2> QED BY <2>1
<1>3. /\ \A k \in DOMAIN tok : tok[k].circ \in 0 .. Len(tok)
      /\ stack \in Seq(0 .. Len(tok)) /\ post \in Seq(DOMAIN tok)
      /\ mem \in Memory /\ out \in Vars /\ astray \in BOOLEAN
  BY DEF IInv, TypeOK, Memory
<1>4. /\ stack \in Seq(Nat) /\ post \in Seq(Nat)
      /\ Len(stack) \in Nat /\ DOMAIN stack = 1 .. Len(stack)
      /\ Len(post) \in Nat /\ DOMAIN post = 1 .. Len(post)
      /\ \A p \in DOMAIN post : post[p] \in DOMAIN tok
  BY <1>2, <1>3, InSeq
<1>5. /\ at \in 1 .. Len(post) + 1 /\ Injective(post) /\ Len(stack) < at /\ CircuitAhead
  BY DEF IInv, PostfixOK
<1>6. at \in Nat
  BY <1>4, <1>5
<1>7. \A p \in at .. Len(post) : Ahead(tok[post[p]].circ, p)
  BY <1>5 DEF CircuitAhead, Ahead
<1>8. ASSUME NEW j \in DOMAIN stack
      PROVE  /\ IsOperand(tok[stack[j]]) /\ tok[stack[j]].circ = 0 /\ stack[j] \in DOMAIN tok
             /\ \E p \in 1 .. at - 1 : post[p] = stack[j]
             /\ \A i \in DOMAIN stack : stack[i] = stack[j] => i = j
  <2>1. /\ tok[stack[j]].sym \in Operands /\ tok[stack[j]].circ = 0
        /\ \E p \in 1 .. at - 1 : post[p] = stack[j]
        /\ \A i \in DOMAIN stack : stack[i] = stack[j] => i = j
    BY <1>5 DEF CircuitAhead
  <2>2. \A p \in 1 .. at - 1 : p \in DOMAIN post
    BY <1>4, <1>5
  <2>3. stack[j] \in DOMAIN tok
    BY <1>4, <2>1, <2>2
  <2>4. IsOperand(tok[stack[j]])
    BY <1>1, <1>2, <2>1, <2>3 DEF IsOperand, TokenSet
  <2> QED BY <2>1, <2>3, <2>4
<1> QED BY <1>1, <1>2, <1>3, <1>4, <1>5, <1>6, <1>7, <1>8


\* An evaluation step: the token evaluated, k, becomes e, the stack is cut to its first m
\* elements and k may be pushed, if it is an operand without circuit token, and evaluation
\* goes on further ahead.
LEMMA StepKeeps ==
  ASSUME IInv, phase = "postfix", at <= Len(post),
         phase' = "postfix", UNCHANGED <<post, funcs, out>>,
         mem' \in Memory, astray' \in BOOLEAN,
         NEW k, k = post[at], NEW e \in TokenSet, HoldsItsValue(e), e.circ \in 0 .. Len(tok),
         tok' = [tok EXCEPT ![k] = e],
         at' \in at + 1 .. Len(post) + 1,
         NEW m \in 0 .. Len(stack), NEW s, s = SubSeq(stack, 1, m),
         stack' = s \/ (IsOperand(e) /\ e.circ = 0 /\ stack' = Append(s, k))
  PROVE  IInv'
<1> DEFINE L == Len(post)
           N == Len(tok)
           n == Len(stack)
<1>1. /\ tok \in Seq(TokenSet) /\ N \in Nat /\ DOMAIN tok = 1 .. N
      /\ \A i \in DOMAIN tok : tok[i].circ \in 0 .. N /\ HoldsItsValue(tok[i])
      /\ stack \in Seq(Nat) /\ n \in Nat /\ DOMAIN stack = 1 .. n
      /\ post \in Seq(Nat) /\ L \in Nat /\ DOMAIN post = 1 .. L
      /\ \A q \in 1 .. L : post[q] \in DOMAIN tok
  BY PostfixFacts
<1>2. /\ at \in 1 .. L /\ at \in Nat /\ Injective(post) /\ n < at
      /\ \A q \in at .. L : Ahead(tok[post[q]].circ, q)
  <2>1. at \in 1 .. L + 1 /\ Injective(post) /\ n < at /\ at \in Nat
        /\ \A q \in at .. L : Ahead(tok[post[q]].circ, q)
    BY PostfixFacts
  <2> HIDE DEF L
  <2>2. at <= L
    BY DEF L
  <2> QED BY <1>1, <2>1, <2>2
<1>3. \A j \in 1 .. n :
        /\ IsOperand(tok[stack[j]]) /\ tok[stack[j]].circ = 0 /\ stack[j] \in DOMAIN tok
        /\ \E q \in 1 .. at - 1 : post[q] = stack[j]
        /\ \A i \in 1 .. n : stack[i] = stack[j] => i = j
  BY PostfixFacts
<1>4. L <= N /\ funcs \in 0 .. N /\ N < MaxTokens /\ out \in Vars
      /\ post \in Seq(DOMAIN tok)
  BY DEF IInv, TypeOK
<1>5. k \in 1 .. N
  BY <1>1, <1>2
<1>6. /\ m \in 0 .. n /\ s = SubSeq(stack, 1, m) /\ at' \in at + 1 .. L + 1
      /\ e.circ \in 0 .. N
  OBVIOUS
<1>7. /\ tok' \in Seq(TokenSet) /\ Len(tok') = N /\ DOMAIN tok' = 1 .. N /\ tok'[k] = e
      /\ \A i \in 1 .. N : i # k => tok'[i] = tok[i]
  BY <1>1, <1>5
<1> HIDE DEF L, N, n
<1>8. /\ Len(s) = m /\ DOMAIN s = 1 .. m /\ \A j \in 1 .. m : s[j] = stack[j]
      /\ s \in Seq(Nat) /\ 1 .. m \subseteq 1 .. n /\ m \in Nat
  BY <1>1, <1>6 DEF n
<1>20. at' \in Nat /\ at \in 1 .. at' - 1 /\ \A q \in 1 .. at - 1 : q \in 1 .. at' - 1
  <2> DEFINE a == at
             b == at'
  <2>1. L \in Nat /\ a \in Nat /\ a >= 1 /\ b \in a + 1 .. L + 1
    BY <1>1, <1>2, <1>6
  <2> HIDE DEF a, b
  <2>2. b \in Nat /\ a \in 1 .. b - 1
    BY <2>1
  <2>3. \A q \in 1 .. a - 1 : q \in 1 .. b - 1
    BY <2>1
  <2> QED BY <2>2, <2>3 DEF a, b
<1>9. \A j \in 1 .. m : /\ s[j] # k
                        /\ s[j] \in 1 .. N /\ tok'[s[j]] = tok[s[j]]
                        /\ IsOperand(tok'[s[j]]) /\ tok'[s[j]].circ = 0
                        /\ \E q \in 1 .. at - 1 : post[q] = s[j]
                        /\ \A i \in 1 .. m : s[i] = s[j] => i = j
  <2> SUFFICES ASSUME NEW j \in 1 .. m
               PROVE  /\ s[j] # k
                      /\ s[j] \in 1 .. N /\ tok'[s[j]] = tok[s[j]]
                      /\ IsOperand(tok'[s[j]]) /\ tok'[s[j]].circ = 0
                      /\ \E q \in 1 .. at - 1 : post[q] = s[j]
                      /\ \A i \in 1 .. m : s[i] = s[j] => i = j
    OBVIOUS
  <2>1. s[j] = stack[j] /\ j \in 1 .. n
    BY <1>8
  <2>2. PICK q \in 1 .. at - 1 : post[q] = stack[j]
    BY <1>3, <2>1
  <2>3. q \in 1 .. L /\ q # at
    BY <1>1, <1>2
  <2>4. s[j] # k
    BY <1>1, <1>2, <2>1, <2>2, <2>3 DEF Injective
  <2>5. \A i \in 1 .. m : s[i] = s[j] => i = j
    <3> SUFFICES ASSUME NEW i \in 1 .. m, s[i] = s[j] PROVE i = j
      OBVIOUS
    <3>1. i \in 1 .. n /\ stack[i] = stack[j]
      BY <1>8, <2>1
    <3> QED BY <1>3, <2>1, <3>1
  <2> QED BY <1>1, <1>3, <1>7, <2>1, <2>2, <2>4, <2>5
<1>10. \A i \in 1 .. N : HoldsItsValue(tok'[i]) /\ tok'[i].circ \in 0 .. N
  BY <1>1, <1>6, <1>7
<1>11. /\ stack' \in Seq(Nat)
       /\ DOMAIN stack' = 1 .. Len(stack') /\ Len(stack') \in Nat /\ Len(stack') <= m + 1
       /\ \A j \in 1 .. Len(stack') :
            \/ j \in 1 .. m /\ stack'[j] = s[j]
            \/ j = m + 1 /\ stack'[j] = k /\ IsOperand(e) /\ e.circ = 0
  <2>1. CASE stack' = s
    BY <1>8, <2>1
  <2>2. CASE IsOperand(e) /\ e.circ = 0 /\ stack' = Append(s, k)
    <3>1. k \in Nat
      BY <1>1, <1>5
    <3>2. /\ stack' \in Seq(Nat) /\ Len(stack') = m + 1 /\ DOMAIN stack' = 1 .. m + 1
          /\ stack'[m + 1] = k /\ \A j \in 1 .. m : stack'[j] = s[j]
      BY <1>8, <2>2, <3>1
    <3>3. \A j \in 1 .. m + 1 : j = m + 1 \/ j \in 1 .. m
      BY <1>8
    <3> QED BY <1>8, <2>2, <3>2, <3>3
  <2> QED BY <2>1, <2>2
<1> DEFINE w == Len(stack')
<1> HIDE DEF w
<1>12. /\ w \in Nat /\ w <= m + 1 /\ DOMAIN stack' = 1 .. w /\ stack' \in Seq(Nat)
       /\ \A j \in 1 .. w : \/ j \in 1 .. m /\ stack'[j] = s[j]
                            \/ j = m + 1 /\ stack'[j] = k /\ IsOperand(e) /\ e.circ = 0
  BY <1>11 DEF w
<1>13. ASSUME NEW j \in 1 .. w
       PROVE  /\ stack'[j] \in 1 .. N
              /\ IsOperand(tok'[stack'[j]]) /\ tok'[stack'[j]].circ = 0
              /\ \E q \in 1 .. at' - 1 : post[q] = stack'[j]
              /\ \A i \in 1 .. w : stack'[i] = stack'[j] => i = j
  <2>1. CASE j \in 1 .. m /\ stack'[j] = s[j]
    <3>1. PICK q \in 1 .. at - 1 : post[q] = s[j]
      BY <1>9, <2>1
    <3>2. q \in 1 .. at' - 1
      BY <1>20, <3>1
    <3>3. ASSUME NEW i \in 1 .. w, stack'[i] = stack'[j] PROVE i = j
      <4>1. \/ i \in 1 .. m /\ stack'[i] = s[i]
            \/ i = m + 1 /\ stack'[i] = k
        BY <1>12
      <4>2. s[j] # k
        BY <1>9, <2>1
      <4>3. i \in 1 .. m /\ s[i] = s[j]
        BY <2>1, <3>3, <4>1, <4>2
      <4> QED BY <1>9, <2>1, <4>3
    <3>4. \E r \in 1 .. at' - 1 : post[r] = stack'[j]
      BY <2>1, <3>1, <3>2
    <3>5. s[j] \in 1 .. N /\ IsOperand(tok'[s[j]]) /\ tok'[s[j]].circ = 0
      BY <1>9, <2>1
    <3> QED BY <2>1, <3>3, <3>4, <3>5
  <2>2. CASE j = m + 1 /\ stack'[j] = k /\ IsOperand(e) /\ e.circ = 0
    <3>1. at \in 1 .. at' - 1 /\ post[at] = k
      BY <1>20
    <3>2. ASSUME NEW i \in 1 .. w, stack'[i] = stack'[j] PROVE i = j
      <4>1. \/ i \in 1 .. m /\ stack'[i] = s[i]
            \/ i = m + 1 /\ stack'[i] = k
        BY <1>12
      <4>2. i \in 1 .. m => s[i] # k
        BY <1>9
      <4> QED BY <2>2, <3>2, <4>1, <4>2
    <3>3. \E q \in 1 .. at' - 1 : post[q] = stack'[j]
      BY <2>2, <3>1
    <3>4. stack'[j] \in 1 .. N /\ tok'[stack'[j]] = e
      BY <1>5, <1>7, <2>2
    <3> QED BY <2>2, <3>2, <3>3, <3>4
  <2> QED BY <1>12, <2>1, <2>2
<1>14. \A q \in at' .. L : Ahead(tok'[post[q]].circ, q)
  <2> SUFFICES ASSUME NEW q \in at' .. L PROVE Ahead(tok'[post[q]].circ, q)
    OBVIOUS
  <2>1. q \in at .. L /\ q \in 1 .. L /\ q # at
    BY <1>1, <1>2, <1>6
  <2>2. post[q] # k /\ post[q] \in 1 .. N
    BY <1>1, <1>2, <2>1 DEF Injective
  <2>3. tok'[post[q]] = tok[post[q]]
    BY <1>7, <2>2
  <2> QED BY <1>2, <2>1, <2>3
<1>15. at' \in 1 .. L + 1 /\ w < at' /\ w <= N + 1 /\ at' \in 1 .. N + L + 1
  <2> DEFINE a == at
             b == at'
  <2>1. /\ a \in Nat /\ b \in a + 1 .. L + 1 /\ L \in Nat /\ N \in Nat /\ L <= N /\ a \in 1 .. L
        /\ w \in Nat /\ w <= m + 1 /\ m \in 0 .. n /\ n \in Nat /\ n < a
    BY <1>1, <1>2, <1>4, <1>6, <1>12
  <2> HIDE DEF a, b
  <2>2. b \in 1 .. L + 1 /\ b \in 1 .. N + L + 1
    BY <2>1
  <2>3. w < b /\ w <= N + 1
    BY <2>1
  <2> QED BY <2>2, <2>3 DEF a, b
<1>16. CircuitAhead'
  <2>1. \A q \in at' .. Len(post') :
          tok'[post'[q]].circ # 0 =>
            \E r \in q + 1 .. Len(post') : post'[r] = tok'[post'[q]].circ
    BY <1>14 DEF Ahead, L
  <2>2. \A j \in DOMAIN stack' :
          /\ tok'[stack'[j]].sym \in Operands /\ tok'[stack'[j]].circ = 0
          /\ \E q \in 1 .. at' - 1 : post'[q] = stack'[j]
          /\ \A i \in DOMAIN stack' : stack'[i] = stack'[j] => i = j
    <3>1. \A j \in 1 .. w : tok'[stack'[j]].sym \in Operands /\ tok'[stack'[j]].circ = 0
      BY <1>13 DEF IsOperand
    <3>2. \A j \in 1 .. w : \E q \in 1 .. at' - 1 : post'[q] = stack'[j]
      BY <1>13
    <3>3. \A j \in 1 .. w : \A i \in 1 .. w : stack'[i] = stack'[j] => i = j
      BY <1>13
    <3>4. DOMAIN stack' = 1 .. w
      BY <1>12
    <3> SUFFICES ASSUME NEW j \in DOMAIN stack'
                 PROVE  /\ tok'[stack'[j]].sym \in Operands /\ tok'[stack'[j]].circ = 0
                        /\ \E q \in 1 .. at' - 1 : post'[q] = stack'[j]
                        /\ \A i \in DOMAIN stack' : stack'[i] = stack'[j] => i = j
      OBVIOUS
    <3>5. j \in 1 .. w
      BY <3>4
    <3>6. \A i \in DOMAIN stack' : stack'[i] = stack'[j] => i = j
      BY <3>3, <3>4, <3>5
    <3>7. tok'[stack'[j]].sym \in Operands /\ tok'[stack'[j]].circ = 0
      BY <3>1, <3>5
    <3>8. \E q \in 1 .. at' - 1 : post'[q] = stack'[j]
      BY <3>2, <3>5
    <3> QED BY <3>6, <3>7, <3>8
  <2> QED BY <2>1, <2>2 DEF CircuitAhead
<1>17. PostfixOK'
  BY <1>2, <1>15, <1>16 DEF PostfixOK, Injective, L, w
<1>18. TokensOK'
  <2>1. tok' \in TokensOf(Symbols, Nat)
    BY <1>7 DEF TokensOf, TokenSet
  <2> QED BY <1>7, <1>10, <2>1 DEF TokensOK
<1>19. TypeOK'
  <2>1. stack' \in Seq(0 .. N)
    <3>1. \A j \in DOMAIN stack' : stack'[j] \in 0 .. N
      <4> DEFINE z == stack'
      <4>1. \A j \in 1 .. w : z[j] \in 1 .. N
        BY <1>13
      <4> HIDE DEF z
      <4>2. \A j \in 1 .. w : z[j] \in 0 .. N
        BY <1>1, <4>1
      <4> QED BY <1>12, <4>2 DEF z
    <3> QED BY <1>12, <3>1, InSeq
  <2>2. /\ \A i \in DOMAIN tok' : tok'[i].circ \in 0 .. Len(tok')
        /\ at' \in 1 .. Len(tok') + Len(post') + 1
        /\ Len(tok') < MaxTokens
        /\ Len(post') <= Len(tok') /\ Len(stack') <= Len(tok') + 1
        /\ funcs' \in 0 .. Len(tok')
    BY <1>4, <1>7, <1>10, <1>15 DEF L, w
  <2>3. stack' \in Seq(0 .. Len(tok')) /\ post' \in Seq(DOMAIN tok')
    BY <1>1, <1>4, <1>7, <2>1
  <2>4. mem' \in [Vars -> Values] /\ out' \in Vars /\ astray' \in BOOLEAN
    BY <1>4 DEF Memory
  <2> QED BY <2>2, <2>3, <2>4 DEF TypeOK
<1> QED BY <1>17, <1>18, <1>19 DEF IInv


\* A token pushed as an operand, or not pushed because it decides the operator whose left
\* operand it completes.
LEMMA PushThisTokenKeeps ==
  ASSUME IInv, phase = "postfix", at <= Len(post), UNCHANGED <<post, funcs, out>>,
         mem' \in Memory, astray' \in BOOLEAN,
         NEW o, IsOperand(o), NEW c \in 0 .. Len(tok),
         NEW p \in at .. Len(post), Ahead(c, p),
         NEW m \in 0 .. Len(stack), PushThisToken(o, c, p, SubSeq(stack, 1, m))
  PROVE  IInv'
<1> DEFINE true == IsTrue(o, mem')
           go == ShortCircuit(true, p, c)
           s == SubSeq(stack, 1, m)
           e == IF c # 0 /\ go.kept THEN Bool(true) ELSE [o EXCEPT !.circ = c]
           k == post[at]
           L == Len(post)
<1>1. /\ at' = go.next /\ phase' = phase
      /\ stack' = IF go.kept THEN Append(s, k) ELSE s
      /\ tok' = [tok EXCEPT ![k] = e]
  BY DEF PushThisToken
<1>2. L \in Nat /\ at \in Nat /\ at >= 1 /\ p \in 1 .. L /\ c \in 0 .. Len(tok) /\ Len(tok) \in Nat
  <2>1. L \in Nat /\ at \in 1 .. L + 1 /\ at \in Nat /\ Len(tok) \in Nat
    BY PostfixFacts
  <2> HIDE DEF L
  <2>2. p \in at .. L
    BY DEF L
  <2> QED BY <2>1, <2>2
<1>3. \A q \in p + 1 .. L : Ahead(tok[post[q]].circ, q)
  <2>1. \A q \in at .. L : Ahead(tok[post[q]].circ, q)
    BY PostfixFacts
  <2>2. \A q \in p + 1 .. L : q \in at .. L
    BY <1>2
  <2> QED BY <2>1, <2>2
<1>4. go.next \in p + 1 .. L + 1 /\ go.kept \in BOOLEAN
  BY <1>2, <1>3, ShortCircuitGoesAhead
<1>5. at' \in at + 1 .. L + 1
  <2> DEFINE a == at
             b == at'
  <2>1. b \in p + 1 .. L + 1 /\ p \in a .. L /\ a \in Nat /\ L \in Nat
    BY <1>1, <1>2, <1>4
  <2> HIDE DEF a, b, L
  <2>2. b \in a + 1 .. L + 1
    BY <2>1
  <2> QED BY <2>2 DEF a, b
<1>6. /\ IsOperand(Bool(true)) /\ Bool(true).circ = 0
  BY BoolType
<1>7. IsOperand([o EXCEPT !.circ = c]) /\ [o EXCEPT !.circ = c].circ = c
  BY <1>2 DEF IsOperand, HoldsItsValue
<1>8. IsOperand(e) /\ e.circ \in {0, c} /\ (go.kept => e.circ = 0)
  BY <1>6, <1>7
<1> HIDE DEF e, go, true
<1>9. e \in TokenSet /\ HoldsItsValue(e) /\ e.circ \in 0 .. Len(tok)
  BY <1>2, <1>8 DEF IsOperand, TokenSet
<1>10. stack' = s \/ (IsOperand(e) /\ e.circ = 0 /\ stack' = Append(s, k))
  BY <1>1, <1>4, <1>8
<1> HIDE DEF s, k
<1>11. k = post[at] /\ s = SubSeq(stack, 1, m) /\ phase' = "postfix" /\ tok' = [tok EXCEPT ![k] = e]
  BY <1>1 DEF s, k
<1> QED BY <1>5, <1>9, <1>10, <1>11, StepKeeps DEF L

\* An operand that an operator pops.
LEMMA Popped ==
  ASSUME IInv, phase = "postfix", NEW n \in Nat, n < Len(stack)
  PROVE  IsOperand(tok[Last(Under(n))]) /\ tok[Last(Under(n))].circ = 0
<1> DEFINE h == Len(stack)
<1>1. /\ stack \in Seq(Nat) /\ h \in Nat
      /\ \A j \in 1 .. h : IsOperand(tok[stack[j]]) /\ tok[stack[j]].circ = 0
  BY PostfixFacts
<1>2. h - n \in 1 .. h
  <2> HIDE DEF h
  <2>1. n < h
    BY DEF h
  <2> QED BY <1>1, <2>1
<1>3. Len(Under(n)) = h - n /\ Under(n)[h - n] = stack[h - n]
  BY <1>1, <1>2 DEF Under
<1>4. Last(Under(n)) = stack[h - n]
  BY <1>3 DEF Last
<1> QED BY <1>1, <1>2, <1>4

LEMMA OnTop ==
  ASSUME IInv, phase = "postfix", stack # <<>>
  PROVE  IsOperand(tok[Last(stack)]) /\ tok[Last(stack)].circ = 0
<1>1. stack \in Seq(Nat) /\ \A j \in 1 .. Len(stack) : IsOperand(tok[stack[j]]) /\ tok[stack[j]].circ = 0
  BY PostfixFacts
<1>2. Len(stack) \in 1 .. Len(stack) /\ Last(stack) = stack[Len(stack)]
  BY <1>1 DEF Last
<1> QED BY <1>1, <1>2

\* The stack when n operands have been popped.
LEMMA UnderIs ==
  ASSUME IInv, phase = "postfix", NEW n \in Nat, n <= Len(stack)
  PROVE  /\ Len(stack) - n \in 0 .. Len(stack)
         /\ Under(n) = SubSeq(stack, 1, Len(stack) - n)
         /\ Under(n) = <<>> <=> Len(stack) = n
<1> DEFINE h == Len(stack)
<1>1. stack \in Seq(Nat) /\ h \in Nat /\ n <= h
  BY PostfixFacts
<1>2. h - n \in 0 .. h /\ (h - n = 0 <=> h = n)
  <2> HIDE DEF h
  <2> QED BY <1>1
<1>3. Len(Under(n)) = h - n /\ Under(n) \in Seq(Nat)
  BY <1>1, <1>2 DEF Under
<1>4. Under(n) = <<>> <=> h - n = 0
  <2> HIDE DEF h
  <2> QED BY <1>1, <1>2, <1>3
<1> QED BY <1>2, <1>4 DEF Under

\* The token evaluated.
LEMMA ThisFacts ==
  ASSUME IInv, phase = "postfix", at <= Len(post)
  PROVE  /\ This \in TokenSet /\ HoldsItsValue(This) /\ This.circ \in 0 .. Len(tok)
         /\ Ahead(This.circ, at) /\ at \in at .. Len(post)
         /\ at \in DOMAIN post /\ post[at] \in DOMAIN tok
<1>1. /\ tok \in Seq(TokenSet) /\ DOMAIN tok = 1 .. Len(tok)
      /\ \A k \in DOMAIN tok : tok[k].circ \in 0 .. Len(tok) /\ HoldsItsValue(tok[k])
      /\ Len(post) \in Nat /\ DOMAIN post = 1 .. Len(post)
      /\ \A p \in DOMAIN post : post[p] \in DOMAIN tok
      /\ at \in 1 .. Len(post) + 1 /\ at \in Nat
      /\ \A p \in at .. Len(post) : Ahead(tok[post[p]].circ, p)
  BY PostfixFacts
<1>2. at \in at .. Len(post) /\ at \in DOMAIN post
  BY <1>1
<1> QED BY <1>1, <1>2 DEF This


\* An operator that pops n operands and pushes its result.
LEMMA PushResultKeeps ==
  ASSUME IInv, NEW S, Evaluating(S), mem' \in Memory, astray' \in BOOLEAN,
         NEW o, IsOperand(o), NEW n \in Nat, n <= Len(stack),
         PushThisToken(o, This.circ, at, Under(n))
  PROVE  IInv'
<1> DEFINE c == This.circ
           m == Len(stack) - n
<1>1. phase = "postfix" /\ at <= Len(post) /\ UNCHANGED <<post, funcs, out>>
  BY DEF Evaluating
<1>2. c \in 0 .. Len(tok) /\ at \in at .. Len(post) /\ Ahead(c, at)
  BY <1>1, ThisFacts
<1>3. m \in 0 .. Len(stack) /\ Under(n) = SubSeq(stack, 1, m)
  BY <1>1, UnderIs
<1>4. PushThisToken(o, c, at, SubSeq(stack, 1, m))
  BY <1>3
<1> HIDE DEF c, m
<1> QED BY <1>1, <1>2, <1>3, <1>4, PushThisTokenKeeps

LEMMA Unchanged ==
  ASSUME IInv PROVE mem \in Memory /\ astray \in BOOLEAN
BY DEF IInv, TypeOK, Memory

LEMMA EvalOperandKeeps == ASSUME IInv, EvalOperand PROVE IInv'
<1>1. /\ Evaluating(Operands) /\ UNCHANGED <<mem, astray>>
      /\ PushThisToken(This, This.circ, at, stack)
      /\ phase = "postfix" /\ at <= Len(post) /\ This.sym \in Operands
  BY DEF EvalOperand, Evaluating, This
<1>2. IsOperand(This)
  BY <1>1, ThisFacts DEF IsOperand, TokenSet
<1>3. mem' \in Memory /\ astray' \in BOOLEAN
  BY <1>1, Unchanged
<1>4. /\ stack \in Seq(Nat) /\ 0 <= Len(stack)
      /\ Under(0) = stack
  <2>1. stack \in Seq(Nat)
    BY <1>1, PostfixFacts
  <2>2. Under(0) = SubSeq(stack, 1, Len(stack) - 0)
    BY DEF Under
  <2>3. Len(stack) - 0 = Len(stack) /\ SubSeq(stack, 1, Len(stack)) = stack
    BY <2>1
  <2> QED BY <2>1, <2>2, <2>3
<1> DEFINE n == 0
<1>5. n \in Nat /\ n <= Len(stack) /\ PushThisToken(This, This.circ, at, Under(n))
  BY <1>1, <1>4
<1> HIDE DEF n
<1> QED BY <1>1, <1>2, <1>3, <1>5, PushResultKeeps

LEMMA EvalFuncKeeps == ASSUME IInv, EvalFunc PROVE IInv'
<1> DEFINE S == {"FUNC"}
           n == This.v
           last == IF n = 0 THEN Nothing ELSE tok[Last(stack)]
           o == Integer(IF IsNumber(last, mem) THEN Text(last, mem) ELSE 0)
<1>1. /\ Evaluating(S) /\ n <= Len(stack) /\ UNCHANGED <<mem, astray>>
      /\ PushThisToken(o, This.circ, at, Under(n))
      /\ phase = "postfix" /\ at <= Len(post) /\ This.sym = "FUNC"
  BY DEF EvalFunc, Evaluating, This
<1>2. n \in Nat
  BY <1>1, ThisFacts DEF HoldsItsValue
<1>3. IsOperand(last)
  <2>1. CASE n = 0
    <3>1. Blank \in Values
      BY DEF Values
    <3> QED BY <2>1, <3>1, OperandTokens
  <2>2. CASE n # 0
    <3>1. stack # <<>>
      BY <1>1, <1>2, <2>2
    <3> QED BY <1>1, <2>2, <3>1, OnTop
  <2> QED BY <2>1, <2>2
<1> HIDE DEF last
<1>4. IsOperand(o)
  <2>1. Text(last, mem) \in Values /\ 0 \in Values
    BY <1>3, Unchanged, TextType DEF Values
  <2> QED BY <2>1, OperandTokens
<1>5. mem' \in Memory /\ astray' \in BOOLEAN
  BY <1>1, Unchanged
<1> HIDE DEF S, o, n
<1> QED BY <1>1, <1>2, <1>4, <1>5, PushResultKeeps

\* The step that leaves the tokens as they are and goes on with the next.
LEMMA GoOnKeeps ==
  ASSUME IInv, NEW S, Evaluating(S), phase' = phase, mem' \in Memory, astray' \in BOOLEAN,
         tok' = tok, at' = at + 1, NEW n \in Nat, n <= Len(stack), stack' = Under(n)
  PROVE  IInv'
<1> DEFINE k == post[at]
           e == tok[k]
           m == Len(stack) - n
           s == SubSeq(stack, 1, m)
<1>1. phase = "postfix" /\ at <= Len(post) /\ UNCHANGED <<post, funcs, out>>
  BY DEF Evaluating
<1>2. e \in TokenSet /\ HoldsItsValue(e) /\ e.circ \in 0 .. Len(tok) /\ k \in DOMAIN tok
  BY <1>1, ThisFacts DEF This
<1>3. tok \in Seq(TokenSet) /\ at \in Nat /\ Len(post) \in Nat
  BY <1>1, PostfixFacts
<1>4. tok' = [tok EXCEPT ![k] = e]
  BY <1>2, <1>3
<1>5. at' \in at + 1 .. Len(post) + 1
  <2>1. at + 1 \in at + 1 .. Len(post) + 1
    BY <1>1, <1>3
  <2> QED BY <2>1
<1>6. m \in 0 .. Len(stack) /\ stack' = s
  BY <1>1, UnderIs
<1>7. k = post[at] /\ s = SubSeq(stack, 1, m) /\ phase' = "postfix"
  BY <1>1
<1> HIDE DEF k, e, m, s
<1> QED BY <1>1, <1>2, <1>4, <1>5, <1>6, <1>7, StepKeeps

LEMMA EvalElseKeeps == ASSUME IInv, EvalElse PROVE IInv'
<1> DEFINE S == {"IFF_ELSE"}
<1>1. /\ Evaluating(S) /\ UNCHANGED <<mem, astray>>
      /\ phase = "postfix"
  BY DEF EvalElse, Evaluating
<1>2. mem' \in Memory /\ astray' \in BOOLEAN
  BY <1>1, Unchanged
<1>3. stack \in Seq(Nat) /\ Len(stack) \in Nat
  BY <1>1, PostfixFacts
<1>4. CASE This.circ # 0 /\ stack # <<>>
  <2> DEFINE n == 1
             o == tok[Last(stack)]
  <2>1. PushThisToken(o, This.circ, at, Under(n))
    BY <1>4 DEF EvalElse
  <2>2. IsOperand(o)
    BY <1>1, <1>4, OnTop
  <2>3. n \in Nat /\ n <= Len(stack)
    BY <1>3, <1>4
  <2> HIDE DEF S, n, o
  <2> QED BY <1>1, <1>2, <2>1, <2>2, <2>3, PushResultKeeps
<1>5. CASE ~(This.circ # 0 /\ stack # <<>>)
  <2> DEFINE n == 0
  <2>1. at' = at + 1 /\ UNCHANGED <<phase, tok, stack>>
    BY <1>5 DEF EvalElse
  <2>2. stack' = Under(n) /\ n \in Nat /\ n <= Len(stack)
    <3>1. Len(stack) - 0 = Len(stack) /\ SubSeq(stack, 1, Len(stack)) = stack
      BY <1>3
    <3> QED BY <1>3, <2>1, <3>1 DEF Under
  <2> HIDE DEF S, n
  <2> QED BY <1>1, <1>2, <2>1, <2>2, GoOnKeeps
<1> QED BY <1>4, <1>5

LEMMA EvalCommaKeeps == ASSUME IInv, EvalComma PROVE IInv'
<1> DEFINE S == {"COMMA"}
           n == 1
<1>1. /\ Evaluating(S) /\ stack # <<>> /\ stack' = Under(n) /\ at' = at + 1
      /\ astray' = (astray \/ This.circ # 0) /\ UNCHANGED <<phase, tok, mem>>
      /\ phase = "postfix"
  BY DEF EvalComma, Evaluating
<1>2. mem' \in Memory /\ astray' \in BOOLEAN
  BY <1>1, Unchanged
<1>3. n \in Nat /\ n <= Len(stack)
  <2>1. stack \in Seq(Nat)
    BY <1>1, PostfixFacts
  <2> QED BY <1>1, <2>1
<1> HIDE DEF S, n
<1> QED BY <1>1, <1>2, <1>3, GoOnKeeps

LEMMA EvalUnaryKeeps == ASSUME IInv, EvalUnary PROVE IInv'
<1> DEFINE S == {"AND", "OR", "LOWNOT", "HIGHNOT"}
           n == 1
           o == Bool(IsTrue(tok[Last(stack)], mem) = (This.sym \in {"AND", "OR"}))
<1>1. /\ Evaluating(S) /\ stack # <<>> /\ UNCHANGED <<mem, astray>>
      /\ PushThisToken(o, This.circ, at, Under(n))
      /\ phase = "postfix"
  BY DEF EvalUnary, Evaluating
<1>2. mem' \in Memory /\ astray' \in BOOLEAN
  BY <1>1, Unchanged
<1>3. n \in Nat /\ n <= Len(stack)
  <2>1. stack \in Seq(Nat)
    BY <1>1, PostfixFacts
  <2> QED BY <1>1, <2>1
<1>4. IsOperand(o)
  BY BoolType
<1> HIDE DEF S, n, o
<1> QED BY <1>1, <1>2, <1>3, <1>4, PushResultKeeps


\* What lies in memory after an assignment.
LEMMA AssignType ==
  ASSUME NEW m \in Memory, NEW x \in Vars, NEW y \in Values
  PROVE  [m EXCEPT ![x] = y] \in Memory
BY DEF Memory

LEMMA EvalIncrementKeeps == ASSUME IInv, EvalIncrement PROVE IInv'
<1> DEFINE S == {"PRE_INCREMENT", "POST_INCREMENT"}
           one == 1
           r == tok[Last(stack)]
           n == Text(r, mem)
           o == IF r.sym # "VAR" THEN Nothing
                ELSE IF This.sym = "PRE_INCREMENT" THEN r
                ELSE IF n = Blank THEN Nothing ELSE Integer(n)
           x == IF n = Blank THEN Blank ELSE n + 1
<1>1. /\ Evaluating(S) /\ stack # <<>> /\ astray' = astray
      /\ mem' = IF r.sym = "VAR" THEN [mem EXCEPT ![r.v] = x] ELSE mem
      /\ PushThisToken(o, This.circ, at, Under(one))
      /\ phase = "postfix"
  BY DEF EvalIncrement, Evaluating
<1>2. mem \in Memory /\ astray' \in BOOLEAN
  BY <1>1, Unchanged
<1>3. one \in Nat /\ one <= Len(stack)
  <2>1. stack \in Seq(Nat)
    BY <1>1, PostfixFacts
  <2> QED BY <1>1, <2>1
<1>4. IsOperand(r)
  BY <1>1, OnTop
<1> HIDE DEF r
<1>5. n \in Values /\ (r.sym = "VAR" => r.v \in Vars)
  BY <1>2, <1>4, TextType
<1>6. x \in Values
  BY <1>5 DEF Values
<1> HIDE DEF n
<1>7. IsOperand(o)
  BY <1>4, <1>5, OperandTokens
<1> HIDE DEF S, o, one, x
<1>8. mem' \in Memory
  BY <1>1, <1>2, <1>5, <1>6, AssignType
<1> QED BY <1>1, <1>2, <1>3, <1>7, <1>8, PushResultKeeps

\* After which the code reads what is no operand: nothing is claimed of what it does then.
LEMMA UndefinedKeeps ==
  ASSUME IInv, Undefined, UNCHANGED <<post, funcs, out>>, mem' \in Memory
  PROVE  IInv'
<1>1. phase' = "undefined" /\ astray' = TRUE /\ UNCHANGED <<tok, at, stack>>
  BY DEF Undefined
<1>2. TypeOK'
  BY <1>1 DEF IInv, TypeOK, Memory
<1>3. TokensOK'
  BY <1>1 DEF IInv, TokensOK
<1> QED BY <1>1, <1>2, <1>3 DEF IInv

LEMMA DoneKeeps ==
  ASSUME IInv, phase' = "done", UNCHANGED <<tok, at, stack, post, funcs, out>>,
         mem' \in Memory, astray' \in BOOLEAN
  PROVE  IInv'
<1>1. TypeOK'
  BY DEF IInv, TypeOK, Memory
<1>2. TokensOK'
  BY DEF IInv, TokensOK
<1> QED BY <1>1, <1>2 DEF IInv

\* The operands of an operator that takes two.
LEMMA TwoPopped ==
  ASSUME IInv, phase = "postfix", Len(stack) >= 2
  PROVE  /\ IsOperand(tok[Last(stack)]) /\ IsOperand(tok[Last(Under(1))])
         /\ Len(stack) \in Nat /\ 2 <= Len(stack)
         /\ Under(2) # <<>> => IsOperand(tok[Last(Under(2))]) /\ 3 <= Len(stack)
<1> DEFINE one == 1
           two == 2
<1>1. stack \in Seq(Nat) /\ Len(stack) \in Nat
  BY PostfixFacts
<1>2. stack # <<>> /\ one < Len(stack) /\ two <= Len(stack) /\ one \in Nat /\ two \in Nat
  BY <1>1
<1>3. IsOperand(tok[Last(stack)])
  BY <1>2, OnTop
<1>4. Under(two) # <<>> => two < Len(stack)
  <2>1. Under(two) = <<>> <=> Len(stack) = two
    <3> HIDE DEF two
    <3> QED BY <1>2, UnderIs
  <2> DEFINE h == Len(stack)
  <2>2. h \in Nat /\ two <= h
    BY <1>1, <1>2
  <2> HIDE DEF h
  <2>3. h # two => two < h
    BY <2>2
  <2> HIDE DEF two
  <2> QED BY <2>1, <2>3 DEF h
<1> HIDE DEF one, two
<1>5. IsOperand(tok[Last(Under(one))])
  BY <1>2, Popped
<1>6. Under(two) # <<>> => IsOperand(tok[Last(Under(two))])
  BY <1>2, <1>4, Popped
<1>7. two < Len(stack) => 3 <= Len(stack)
  BY <1>1 DEF two
<1> QED BY <1>1, <1>2, <1>3, <1>4, <1>5, <1>6, <1>7 DEF one, two

LEMMA EvalAssignKeeps == ASSUME IInv, EvalAssign PROVE IInv'
<1> DEFINE S == {"ASSIGN"}
           left == tok[Last(Under(1))]
           right == tok[Last(Under(2))]
           two == 2
           three == 3
<1>1. /\ Evaluating(S) /\ phase = "postfix" /\ Len(stack) >= 2
      /\ UNCHANGED <<post, funcs, out>>
      /\ IF left.sym # "VAR"
           THEN UNCHANGED <<mem, astray>> /\ PushThisToken(Nothing, This.circ, at, Under(two))
         ELSE IF Under(2) = <<>> THEN Undefined /\ UNCHANGED mem
         ELSE /\ mem' = [mem EXCEPT ![left.v] = Text(right, mem)]
              /\ astray' = TRUE
              /\ PushThisToken(left, This.circ, at, Under(three))
  BY DEF EvalAssign, Evaluating
<1>2. mem \in Memory /\ astray \in BOOLEAN
  BY Unchanged
<1>3. /\ IsOperand(left) /\ two <= Len(stack) /\ two \in Nat /\ three \in Nat
      /\ Under(2) # <<>> => IsOperand(right) /\ three <= Len(stack)
  BY <1>1, TwoPopped
<1>4. IsOperand(Nothing)
  <2>1. Blank \in Values
    BY DEF Values
  <2> QED BY <2>1, OperandTokens
<1> HIDE DEF S, left, right, two, three
<1>5. CASE left.sym # "VAR"
  <2>1. mem' \in Memory /\ astray' \in BOOLEAN /\ PushThisToken(Nothing, This.circ, at, Under(two))
    BY <1>1, <1>2, <1>5
  <2> QED BY <1>1, <1>3, <1>4, <2>1, PushResultKeeps
<1>6. CASE left.sym = "VAR" /\ Under(2) = <<>>
  <2>1. Undefined /\ mem' \in Memory
    BY <1>1, <1>2, <1>6
  <2> QED BY <1>1, <2>1, UndefinedKeeps
<1>7. CASE left.sym = "VAR" /\ Under(2) # <<>>
  <2>1. /\ mem' = [mem EXCEPT ![left.v] = Text(right, mem)] /\ astray' = TRUE
        /\ PushThisToken(left, This.circ, at, Under(three))
    BY <1>1, <1>7
  <2>2. left.v \in Vars /\ Text(right, mem) \in Values
    BY <1>2, <1>3, <1>7, TextType
  <2>3. mem' \in Memory /\ astray' \in BOOLEAN
    BY <1>2, <2>1, <2>2, AssignType
  <2> QED BY <1>1, <1>3, <1>7, <2>1, <2>3, PushResultKeeps
<1> QED BY <1>5, <1>6, <1>7

LEMMA EvalAssignAddKeeps == ASSUME IInv, EvalAssignAdd PROVE IInv'
<1> DEFINE S == {"ASSIGN_ADD"}
           left == tok[Last(Under(1))]
           right == tok[Last(stack)]
           o == Binary("ADD", left, right, mem)
           two == 2
<1>1. /\ Evaluating(S) /\ phase = "postfix" /\ Len(stack) >= 2 /\ astray' = astray
      /\ IF left.sym # "VAR"
           THEN mem' = mem /\ PushThisToken(Nothing, This.circ, at, Under(two))
           ELSE mem' = [mem EXCEPT ![left.v] = o.v] /\ PushThisToken(left, This.circ, at, Under(two))
  BY DEF EvalAssignAdd, Evaluating
<1>2. mem \in Memory /\ astray' \in BOOLEAN
  BY <1>1, Unchanged
<1>3. /\ IsOperand(left) /\ IsOperand(right) /\ two <= Len(stack) /\ two \in Nat
  BY <1>1, TwoPopped
<1>4. IsOperand(Nothing)
  <2>1. Blank \in Values
    BY DEF Values
  <2> QED BY <2>1, OperandTokens
<1> HIDE DEF S, left, right, two
<1>5. o.v \in Values
  BY <1>2, <1>3, BinaryType
<1>6. left.sym = "VAR" => left.v \in Vars
  BY <1>2, <1>3, TextType
<1> HIDE DEF o
<1>7. mem' \in Memory
  BY <1>1, <1>2, <1>5, <1>6, AssignType
<1>8. CASE left.sym # "VAR"
  <2>1. PushThisToken(Nothing, This.circ, at, Under(two))
    BY <1>1, <1>8
  <2> QED BY <1>1, <1>2, <1>3, <1>4, <1>7, <2>1, PushResultKeeps
<1>9. CASE left.sym = "VAR"
  <2>1. PushThisToken(left, This.circ, at, Under(two))
    BY <1>1, <1>9
  <2> QED BY <1>1, <1>2, <1>3, <1>7, <2>1, PushResultKeeps
<1> QED BY <1>8, <1>9

LEMMA EvalBinaryKeeps == ASSUME IInv, EvalBinary PROVE IInv'
<1> DEFINE S == {"ADD", "POWER", "EQUAL"}
           left == tok[Last(Under(1))]
           right == tok[Last(stack)]
           sym == This.sym
           o == Binary(sym, left, right, mem)
           two == 2
<1>1. /\ Evaluating(S) /\ phase = "postfix" /\ Len(stack) >= 2 /\ UNCHANGED <<mem, astray>>
      /\ PushThisToken(o, This.circ, at, Under(two))
  BY DEF EvalBinary, Evaluating
<1>2. mem \in Memory /\ mem' \in Memory /\ astray' \in BOOLEAN
  BY <1>1, Unchanged
<1>3. /\ IsOperand(left) /\ IsOperand(right) /\ two <= Len(stack) /\ two \in Nat
  BY <1>1, TwoPopped
<1> HIDE DEF S, left, right, two, sym
<1>4. IsOperand(o)
  BY <1>2, <1>3, BinaryType
<1> HIDE DEF o
<1> QED BY <1>1, <1>2, <1>3, <1>4, PushResultKeeps


\* Which variables a concatenation may build its result in.
LEMMA BuiltInType ==
  ASSUME IInv, phase = "postfix", Len(stack) >= 2, NEW d \in BuiltIn
  PROVE  d \in Vars /\ (d # out => LooksAhead)
<1>1. out \in Vars /\ mem \in Memory
  BY Unchanged DEF IInv, TypeOK
<1>2. CASE Under(2) = <<>> /\ at = Len(post)
  <2>1. d = out
    BY <1>2 DEF BuiltIn
  <2> QED BY <1>1, <2>1
<1>3. CASE ~(Under(2) = <<>> /\ at = Len(post))
  <2>1. LooksAhead /\ d = tok[Last(Under(2))].v
    BY <1>3 DEF BuiltIn
  <2>2. Under(2) # <<>> /\ tok[Last(Under(2))].sym = "VAR"
    BY <2>1 DEF LooksAhead
  <2>3. IsOperand(tok[Last(Under(2))])
    BY <2>2, TwoPopped
  <2> HIDE DEF Under
  <2>4. d \in Vars
    BY <1>1, <2>1, <2>2, <2>3, TextType
  <2> QED BY <2>1, <2>4
<1> QED BY <1>2, <1>3

LEMMA ConcatInPlaceKeeps ==
  ASSUME IInv, phase = "postfix", Len(stack) >= 2, at <= Len(post), UNCHANGED <<post, funcs, out>>,
         NEW l, NEW r, IsOperand(l), IsOperand(r), NEW d \in BuiltIn, ConcatInPlace(d, l, r)
  PROVE  IInv'
<1> DEFINE m == IF IsDestination(l, d) THEN mem ELSE [mem EXCEPT ![d] = Blank]
           y == Join(Text(l, m), Text(r, m))
           two == 2
           c == tok[post[at + 1]].circ
           p == at + 1
<1>1. /\ mem' = [mem EXCEPT ![d] = y]
      /\ IF d = out THEN /\ phase' = "done" /\ UNCHANGED <<tok, at, stack>>
                         /\ astray' = (astray \/ LooksAhead)
         ELSE IF r.sym # "VAR" THEN Undefined
         ELSE astray' = TRUE /\ PushThisToken(r, c, p, Under(two))
  BY DEF ConcatInPlace
<1>2. mem \in Memory /\ astray \in BOOLEAN
  BY Unchanged
<1>3. d \in Vars /\ (d # out => LooksAhead)
  BY BuiltInType
<1>4. Blank \in Values
  BY DEF Values
<1>5. m \in Memory
  BY <1>2, <1>3, <1>4, AssignType
<1> HIDE DEF m
<1>6. Text(l, m) \in Values /\ Text(r, m) \in Values
  BY <1>5, TextType
<1>7. y \in Values
  BY <1>6, JoinType
<1> HIDE DEF y
<1>8. mem' \in Memory
  BY <1>1, <1>2, <1>3, <1>7, AssignType
<1>9. CASE d = out
  <2>1. phase' = "done" /\ UNCHANGED <<tok, at, stack, post, funcs, out>>
    BY <1>1, <1>9
  <2>2. astray' \in BOOLEAN
    BY <1>1, <1>2, <1>9
  <2> QED BY <1>8, <2>1, <2>2, DoneKeeps
<1>10. CASE d # out /\ r.sym # "VAR"
  <2>1. Undefined
    BY <1>1, <1>10
  <2> QED BY <1>8, <2>1, UndefinedKeeps
<1>11. CASE d # out /\ r.sym = "VAR"
  <2>1. astray' = TRUE /\ PushThisToken(r, c, p, Under(two))
    BY <1>1, <1>11
  <2>2. at < Len(post)
    BY <1>3, <1>11 DEF LooksAhead
  <2>3. /\ Len(post) \in Nat /\ at \in Nat /\ at >= 1 /\ DOMAIN post = 1 .. Len(post)
        /\ \A k \in DOMAIN tok : tok[k].circ \in 0 .. Len(tok)
        /\ \A q \in DOMAIN post : post[q] \in DOMAIN tok
        /\ \A q \in at .. Len(post) : Ahead(tok[post[q]].circ, q)
    BY PostfixFacts
  <2>4. p \in at .. Len(post) /\ p \in DOMAIN post
    <3> DEFINE L == Len(post)
               a == at
    <3>1. a \in Nat /\ L \in Nat /\ a < L /\ a >= 1 /\ DOMAIN post = 1 .. L
      BY <2>2, <2>3
    <3> HIDE DEF L, a
    <3>2. a + 1 \in a .. L /\ a + 1 \in DOMAIN post
      BY <3>1
    <3> QED BY <3>2 DEF L, a
  <2>5. c \in 0 .. Len(tok) /\ Ahead(c, p)
    BY <2>3, <2>4
  <2> DEFINE k == Len(stack) - two
  <2>6. k \in 0 .. Len(stack) /\ Under(two) = SubSeq(stack, 1, k)
    <3>1. two \in Nat /\ two <= Len(stack)
      BY TwoPopped
    <3> HIDE DEF two
    <3> QED BY <3>1, UnderIs
  <2> HIDE DEF two, c, p, k
  <2>7. PushThisToken(r, c, p, SubSeq(stack, 1, k)) /\ astray' \in BOOLEAN
    BY <2>1, <2>6
  <2> QED BY <1>8, <2>4, <2>5, <2>6, <2>7, PushThisTokenKeeps
<1> QED BY <1>9, <1>10, <1>11

LEMMA EvalConcatKeeps == ASSUME IInv, EvalConcat PROVE IInv'
<1> DEFINE S == {"CONCAT"}
           l == tok[Last(Under(1))]
           r == tok[Last(stack)]
           o == Binary("CONCAT", l, r, mem)
           two == 2
<1>1. /\ Evaluating(S) /\ phase = "postfix" /\ Len(stack) >= 2 /\ at <= Len(post)
      /\ UNCHANGED <<post, funcs, out>>
      /\ \/ \E d \in BuiltIn : ConcatInPlace(d, l, r)
         \/ UNCHANGED <<mem, astray>> /\ PushThisToken(o, This.circ, at, Under(two))
  BY DEF EvalConcat, Evaluating
<1>2. mem \in Memory /\ astray \in BOOLEAN
  BY Unchanged
<1>3. /\ IsOperand(l) /\ IsOperand(r) /\ two <= Len(stack) /\ two \in Nat
  BY <1>1, TwoPopped
<1> HIDE DEF S, l, r, two
<1>4. IsOperand(o)
  BY <1>2, <1>3, BinaryType
<1> HIDE DEF o
<1>5. CASE \E d \in BuiltIn : ConcatInPlace(d, l, r)
  BY <1>1, <1>3, <1>5, ConcatInPlaceKeeps
<1>6. CASE UNCHANGED <<mem, astray>> /\ PushThisToken(o, This.circ, at, Under(two))
  BY <1>1, <1>2, <1>3, <1>4, <1>6, PushResultKeeps
<1> QED BY <1>1, <1>5, <1>6

LEMMA EvalThenKeeps == ASSUME IInv, EvalThen PROVE IInv'
<1> DEFINE one == 1
           two == 2
           o == tok[Last(Under(one))]
           p == Position(This.circ, at)
           c == o.circ
<1>1. /\ phase = "postfix" /\ at <= Len(post) /\ stack # <<>> /\ This.circ # 0
      /\ UNCHANGED <<post, funcs, out>> /\ mem' = mem
      /\ IF Under(one) = <<>> THEN Undefined
         ELSE astray' = TRUE /\ PushThisToken(o, c, p, Under(two))
  BY DEF EvalThen, Evaluating
<1>2. mem' \in Memory
  BY <1>1, Unchanged
<1>3. CASE Under(one) = <<>>
  BY <1>1, <1>2, <1>3, UndefinedKeeps
<1>4. CASE Under(one) # <<>>
  <2>1. astray' = TRUE /\ PushThisToken(o, c, p, Under(two))
    BY <1>1, <1>4
  <2>2. stack \in Seq(Nat) /\ Len(stack) \in Nat /\ Len(post) \in Nat /\ at \in Nat /\ Len(tok) \in Nat
    BY <1>1, PostfixFacts
  <2>3. one \in Nat /\ two \in Nat /\ one <= Len(stack)
    BY <1>1, <2>2
  <2>4. Len(stack) # one
    <3> HIDE DEF one
    <3> QED BY <1>1, <1>4, <2>3, UnderIs
  <2>5. one < Len(stack) /\ two <= Len(stack)
    <3> DEFINE h == Len(stack)
    <3>1. h \in Nat /\ one <= h /\ h # one
      BY <2>2, <2>3, <2>4
    <3> HIDE DEF h
    <3>2. one < h /\ two <= h
      BY <3>1
    <3> QED BY <3>2 DEF h
  <2>6. IsOperand(o) /\ c = 0
    <3> HIDE DEF one
    <3> QED BY <1>1, <2>3, <2>5, Popped
  <2>7. p \in at .. Len(post)
    <3>1. Ahead(This.circ, at)
      BY <1>1, ThisFacts
    <3> DEFINE d == This.circ
    <3> HIDE DEF d
    <3>2. \E q \in at + 1 .. Len(post) : post[q] = d
      BY <1>1, <3>1 DEF Ahead, d
    <3>3. Position(d, at) \in at + 1 .. Len(post)
      BY <3>2 DEF Position
    <3>4. Position(d, at) \in at .. Len(post)
      BY <2>2, <3>3
    <3> QED BY <3>4 DEF d
  <2>8. c \in 0 .. Len(tok) /\ Ahead(c, p)
    BY <2>2, <2>6 DEF Ahead
  <2> DEFINE k == Len(stack) - two
  <2>9. k \in 0 .. Len(stack) /\ Under(two) = SubSeq(stack, 1, k)
    <3> HIDE DEF two
    <3> QED BY <1>1, <2>3, <2>5, UnderIs
  <2> HIDE DEF one, two, c, p, k, o
  <2>10. PushThisToken(o, c, p, SubSeq(stack, 1, k)) /\ astray' \in BOOLEAN
    BY <2>1, <2>9
  <2> QED BY <1>1, <1>2, <2>6, <2>7, <2>8, <2>9, <2>10, PushThisTokenKeeps
<1> QED BY <1>3, <1>4

LEMMA NormalEndKeeps == ASSUME IInv, NormalEnd PROVE IInv'
<1>1. /\ phase = "postfix" /\ Len(stack) = 1
      /\ phase' = "done" /\ mem' = [mem EXCEPT ![out] = Text(tok[stack[1]], mem)]
      /\ UNCHANGED <<tok, at, stack, post, funcs, out, astray>>
  BY DEF NormalEnd
<1>2. mem \in Memory /\ astray \in BOOLEAN /\ out \in Vars
  BY Unchanged DEF IInv, TypeOK
<1>3. IsOperand(tok[stack[1]])
  <2>1. stack \in Seq(Nat) /\ \A j \in DOMAIN stack : IsOperand(tok[stack[j]])
    BY <1>1, PostfixFacts
  <2>2. 1 \in DOMAIN stack
    BY <1>1, <2>1
  <2> QED BY <2>1, <2>2
<1>4. Text(tok[stack[1]], mem) \in Values
  BY <1>2, <1>3, TextType
<1>5. mem' \in Memory
  BY <1>1, <1>2, <1>4, AssignType
<1> QED BY <1>1, <1>2, <1>5, DoneKeeps


-----------------------------------------------------------------------------
(* The invariant holds.                                                    *)

LEMMA NextKeeps == ASSUME IInv, Next PROVE IInv'
<1>1. NoLaterEnd => AbnormalEnd
  BY DEF NoLaterEnd
<1>2. Malformed => AbnormalEnd
  BY DEF Malformed
<1>3. NotOneResult => AbnormalEnd
  BY DEF NotOneResult
<1> QED
  BY <1>1, <1>2, <1>3, TokenizeKeeps, OperandKeeps, CloseParenKeeps, OpenParenKeeps, ElseKeeps,
     EndOfInfixKeeps, InfixOperatorKeeps, AbnormalEndKeeps, EvalOperandKeeps, EvalFuncKeeps,
     EvalElseKeeps, EvalThenKeeps, EvalCommaKeeps, EvalUnaryKeeps, EvalIncrementKeeps,
     EvalAssignKeeps, EvalAssignAddKeeps, EvalBinaryKeeps, EvalConcatKeeps, NormalEndKeeps
  DEF Next

LEMMA StutterKeeps == ASSUME IInv, UNCHANGED vars PROVE IInv'
<1>1. UNCHANGED <<phase, tok, at, stack, post, funcs, mem, out, astray>>
  BY DEF vars
<1> QED
  BY <1>1 DEF IInv, TypeOK, TokensOK, InfixOK, PostfixOK, CircuitAhead, OpensWithParen, StackOK,
              PostOK, Injective, FuncsOn, Pending

LEMMA Invariant == Spec => []IInv
<1>1. Init => IInv
  BY InitHolds
<1>2. IInv /\ [Next]_vars => IInv'
  BY NextKeeps, StutterKeeps
<1> QED BY <1>1, <1>2, PTL DEF Spec

\* ExpandExpression stays within its arrays: whatever the expression, and however many
\* tokens infix[] has room for, there is room for the end mark, what lies on the stack and
\* in postfix[] are tokens of the expression, and a variable only ever receives a value.
THEOREM ExpressionsTypeOK == Spec => []TypeOK
<1>1. IInv => TypeOK
  BY DEF IInv
<1> QED BY <1>1, Invariant, PTL

\* "Should always be found, so no need to check postfix_count": however malformed the
\* expression, a short circuit finds the token it skips to before the end of postfix[],
\* and what awaits its operator on the stack is an operand that has been evaluated, once,
\* and decides nothing any more.
THEOREM ShortCircuitsFindTheirTokens == Spec => []CircuitAhead
<1>1. IInv => CircuitAhead
  BY DEF IInv, PostfixOK, CircuitAhead
<1> QED BY <1>1, Invariant, PTL


=============================================================================
