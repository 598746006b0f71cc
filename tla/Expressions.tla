------------------------------ MODULE Expressions -------------------------------
(***************************************************************************)
(* Line::ExpandExpression (script_expression.cpp): the lexemes of an       *)
(* expression become tokens in infix order, then in postfix order, and     *)
(* these are evaluated.  A token carries a circuit token: the AND, OR or ? *)
(* whose left operand it completes, or the : of a ?.  Evaluation skips     *)
(* forward to that token when what lies between is not to be evaluated.    *)
(*                                                                         *)
(* The tokens are mutable: evaluation turns an operator into the operand   *)
(* it yields.  A variable stays a reference until an operator reads it.    *)
(* There is one operator, or a few, for each row of the precedence table   *)
(* and each kind of handling; numbers are naturals and texts are digits.   *)
(***************************************************************************)
EXTENDS Naturals, Sequences, SequencesExt

CONSTANTS
  Vars,       \* the script's variables
  Blank,      \* the empty text
  Texts,      \* the expressions: what they consist of and what they should do
  Start,      \* the contents of the variables beforehand
  MaxTokens   \* MAX_TOKENS

VARIABLES
  phase,      \* the part of ExpandExpression being executed
  tok,        \* infix[]: the tokens, or the lexemes at first
  at,         \* this_infix, or i while evaluating
  stack,      \* stack[]: indices of tokens, 0 being SYM_BEGIN
  post,       \* postfix[]: indices of tokens
  funcs,      \* functions_on_stack
  mem,        \* the contents of the variables
  out,        \* output_var
  meant,      \* what mem should be in the end: no step depends on it
  astray      \* whether an operand was taken that is not the operator's own

vars == <<phase, tok, at, stack, post, funcs, mem, out, meant, astray>>

Operands == {"STRING", "INTEGER", "VAR", "OPERAND"}
YieldsAnOperand == Operands \cup {"POST_INCREMENT", "CPAREN"}
Assignments == {"ASSIGN", "ASSIGN_ADD"}

Precedence(s) ==
  CASE s = "BEGIN" -> 0 [] s = "POST_INCREMENT" -> 82 [] s \in {"CPAREN", "OPAREN"} -> 4
    [] s = "COMMA" -> 6 [] s \in Assignments -> 7 [] s \in {"IFF_ELSE", "IFF_THEN"} -> 11
    [] s = "OR" -> 16 [] s = "AND" -> 20 [] s = "LOWNOT" -> 25 [] s = "EQUAL" -> 30
    [] s = "CONCAT" -> 38 [] s = "ADD" -> 58 [] s = "HIGHNOT" -> 67 [] s = "POWER" -> 72
    [] s = "PRE_INCREMENT" -> 77 [] s = "FUNC" -> 86

\* v is a number or text, a variable, or a function's number of parameters.
Token(s, v) == [sym |-> s, v |-> v, circ |-> 0]
Operator(s) == Token(s, Blank)
Integer(n) == Token("INTEGER", n)
Nothing == Token("STRING", Blank)

Infixes == {"POST_INCREMENT", "PRE_INCREMENT", "COMMA", "IFF_THEN", "OR", "AND", "LOWNOT",
            "EQUAL", "CONCAT", "ADD", "HIGHNOT", "POWER"} \cup Assignments
Symbols == Operands \cup Infixes \cup {"FUNC", "OPAREN", "CPAREN", "IFF_ELSE"}
Values == Nat \cup {Blank}

\* What the token t holds suits its symbol.
HoldsItsValue(t) ==
  /\ t.sym = "VAR" => t.v \in Vars
  /\ t.sym \in Operands \ {"VAR"} => t.v \in Values
  /\ t.sym = "FUNC" => t.v \in Nat

\* A function's name is the one that a parenthesis follows.
OpensWithParen(toks) ==
  \A k \in DOMAIN toks :
    toks[k].sym = "FUNC" => k + 1 \in DOMAIN toks /\ toks[k + 1].sym = "OPAREN"

IsText(t) ==
  /\ t.lexemes \in Seq([sym : Symbols \cup {"PLUS", "INCREMENT"}, v : Values \cup Vars, circ : {0}])
  /\ \A k \in DOMAIN t.lexemes : HoldsItsValue(t.lexemes[k])
  /\ OpensWithParen(t.lexemes)
  /\ t.out \in Vars

ASSUME TextsAssumption == \A t \in Texts : IsText(t)
ASSUME StartAssumption == Start \in [Vars -> Values]
ASSUME MaxTokensAssumption == MaxTokens \in Nat

-----------------------------------------------------------------------------
(* The lexemes.  + and ++ mean different things after an operand, and two  *)
(* operands in a row are concatenated.                                     *)

Lexed(toks, l) ==
  LET yields == toks # <<>> /\ Last(toks).sym \in YieldsAnOperand
  IN CASE l.sym = "PLUS" -> IF yields THEN Append(toks, Operator("ADD")) ELSE toks
       [] l.sym = "INCREMENT" ->
            Append(toks, Operator(IF yields THEN "POST_INCREMENT" ELSE "PRE_INCREMENT"))
       [] l.sym \in Operands \cup {"FUNC", "OPAREN"} /\ yields ->
            toks \o <<Operator("CONCAT"), l>>
       [] OTHER -> Append(toks, l)

Tokens(lexemes) ==
  LET toks[n \in 0 .. Len(lexemes)] ==
        IF n = 0 THEN <<>> ELSE Lexed(toks[n - 1], lexemes[n])
  IN toks[Len(lexemes)]

FillsTheArray(toks) == Len(toks) <= MaxTokens                        \* mutant

\* Room is left for SYM_INVALID, which marks the end.
Fits(toks) == Len(toks) <= MaxTokens - 1

Init ==
  \E t \in Texts :
    /\ phase = "text" /\ tok = t.lexemes /\ meant = t.means /\ out = t.out
    /\ at = 1 /\ stack = <<>> /\ post = <<>> /\ funcs = 0 /\ mem = Start /\ astray = FALSE

\* abnormal_end: the output variable becomes blank; what has been done remains done.
AbnormalEnd ==
  /\ phase' = "done" /\ mem' = [mem EXCEPT ![out] = Blank]
  /\ UNCHANGED <<tok, at, stack, post, funcs, out, meant, astray>>

Tokenize ==
  /\ phase = "text"
  /\ IF Fits(Tokens(tok))
       THEN /\ phase' = "infix" /\ tok' = Tokens(tok) /\ stack' = <<0>>
            /\ UNCHANGED <<at, post, funcs, mem, out, meant, astray>>
       ELSE AbnormalEnd

-----------------------------------------------------------------------------
(* From infix to postfix: one iteration of the loop.                       *)

Infix == IF at <= Len(tok) THEN tok[at].sym ELSE "INVALID"
SymOf(k) == IF k = 0 THEN "BEGIN" ELSE tok[k].sym
Top == SymOf(Last(stack))

Converting == phase = "infix" /\ UNCHANGED <<mem, out, meant, astray>>

\* The token k is appended to postfix[] with the circuit token c.
ToPostfix(k, c) == post' = Append(post, k) /\ tok' = [tok EXCEPT ![k].circ = c]

PopIntoPostfix ==
  /\ stack' = Front(stack) /\ ToPostfix(Last(stack), 0)
  /\ UNCHANGED <<phase, at, funcs>>

Operand ==
  /\ Converting /\ Infix \in Operands
  /\ ToPostfix(at, 0) /\ at' = at + 1
  /\ UNCHANGED <<phase, stack, funcs>>

CloseParen ==
  /\ Converting /\ Infix = "CPAREN" /\ Top # "BEGIN"
  /\ IF Top # "OPAREN" THEN PopIntoPostfix
     ELSE LET under == Front(stack)
          IN /\ at' = at + 1 /\ UNCHANGED phase
             /\ IF SymOf(Last(under)) = "FUNC"
                  THEN /\ stack' = Front(under) /\ funcs' = funcs - 1
                       /\ ToPostfix(Last(under), 0)
                  ELSE stack' = under /\ UNCHANGED <<funcs, post, tok>>

\* A function goes onto the stack together with its parenthesis.
OpenParen ==
  /\ Converting /\ Infix \in {"FUNC", "OPAREN"}
  /\ IF Infix = "FUNC"
       THEN stack' = stack \o <<at, at + 1>> /\ funcs' = funcs + 1 /\ at' = at + 2
       ELSE stack' = Append(stack, at) /\ at' = at + 1 /\ UNCHANGED funcs
  /\ UNCHANGED <<phase, tok, post>>

\* The ? on top of the stack learns which : is its own.
Else ==
  /\ Converting /\ Infix = "IFF_ELSE" /\ Top # "BEGIN"
  /\ IF Top # "IFF_THEN" THEN PopIntoPostfix
     ELSE /\ ToPostfix(Last(stack), at)
          /\ stack' = Append(Front(stack), at) /\ at' = at + 1
          /\ UNCHANGED <<phase, funcs>>

EndOfInfix ==
  /\ Converting /\ Infix = "INVALID" /\ Top # "OPAREN"
  /\ IF Top # "BEGIN" THEN PopIntoPostfix
     ELSE phase' = "postfix" /\ stack' = <<>> /\ at' = 1 /\ UNCHANGED <<tok, post, funcs>>

NoLaterEnd ==
  /\ phase = "infix"
  /\ \/ Infix \in {"CPAREN", "IFF_ELSE"} /\ Top = "BEGIN"
     \/ Infix = "INVALID" /\ Top = "OPAREN"
  /\ AbnormalEnd

\* Does the operator s go onto the stack, above the operator there?  An odd precedence
\* means right to left; an assignment takes only the variable before it.
GoesAbove(above, s) ==
  \/ Precedence(above) < Precedence(s) + (Precedence(s) % 2)
  \/ s \in Assignments
  \/ above = "POWER" /\ s \in {"HIGHNOT", "LOWNOT"}

\* The = signs after a comma that become := because each follows a variable.
AssignsAfterComma ==
  {k \in DOMAIN tok : k > at + 1 /\ (k - at) % 2 = 0
     /\ \A j \in at + 1 .. k : IF (j - at) % 2 = 1 THEN tok[j].sym = "VAR" ELSE tok[j].sym = "EQUAL"}

\* The token that completes the operand to the left of s, an operator that may not
\* evaluate what is to its right.
CompletesLeft(s) ==
  IF s \in {"IFF_THEN", "OR", "AND"} /\ post # <<>> THEN {Last(post)} ELSE {}

InfixOperator ==
  /\ Converting /\ Infix \in Infixes
  /\ IF ~GoesAbove(Top, Infix) THEN PopIntoPostfix
     ELSE /\ at' = at + 1
          /\ stack' = IF Infix = "COMMA" /\ funcs > 0 THEN stack ELSE Append(stack, at)
          /\ tok' = [k \in DOMAIN tok |->
               IF k \in CompletesLeft(Infix) THEN [tok[k] EXCEPT !.circ = at]
               ELSE IF Infix = "COMMA" /\ funcs = 0 /\ k \in AssignsAfterComma
                      THEN [tok[k] EXCEPT !.sym = "ASSIGN"]
               ELSE tok[k]]
          /\ UNCHANGED <<phase, post, funcs>>

-----------------------------------------------------------------------------
(* Values.                                                                 *)

Text(o, m) == IF o.sym = "VAR" THEN m[o.v] ELSE o.v
IsNumber(o, m) == o.sym # "STRING" /\ Text(o, m) # Blank
IsTrue(o, m) == Text(o, m) # (IF IsNumber(o, m) THEN 0 ELSE Blank)
Bool(b) == Integer(IF b THEN 1 ELSE 0)

\* The least power of ten, ten at least, that exceeds b.
Scale(b) ==
  LET s[n \in 0 .. b] == IF n < 10 THEN 10 ELSE 10 * s[n \div 10]
  IN s[b]

\* One text after the other.  (A leading zero is dropped: only texts that are compared as
\* texts would tell.)
Join(a, b) == IF a = Blank THEN b ELSE IF b = Blank THEN a ELSE a * Scale(b) + b

\* qmathPow: 0 to the power 0 is 1.
Pow(a, b) ==
  LET p[n \in 0 .. b] == IF n = 0 THEN 1 ELSE a * p[n - 1]
  IN p[b]

Binary(s, l, r, m) ==
  LET a == Text(l, m)
      b == Text(r, m)
  IN IF s = "CONCAT"
       THEN Token(IF "STRING" \in {l.sym, r.sym} THEN "STRING" ELSE "OPERAND", Join(a, b))
     ELSE IF s = "EQUAL" THEN Bool(a = b)
     ELSE IF ~(IsNumber(l, m) /\ IsNumber(r, m)) THEN Nothing
     ELSE Integer(IF s = "POWER" THEN Pow(a, b) ELSE a + b)

-----------------------------------------------------------------------------
(* Evaluation: one iteration of the loop over postfix[].                   *)

Evaluating(s) ==
  /\ phase = "postfix" /\ at <= Len(post) /\ tok[post[at]].sym \in s
  /\ UNCHANGED <<post, funcs, out, meant>>

This == tok[post[at]]
Under(n) == SubSeq(stack, 1, Len(stack) - n)

\* Where the token d lies beyond p: evaluation skips forward to it.
Position(d, p) == CHOOSE q \in p + 1 .. Len(post) : post[q] = d

LeavesTheQuestion(true, p, c) ==                                     \* mutant
  LET f[q \in p .. Len(post)] ==
        LET d == IF q = p THEN c ELSE tok[post[q]].circ
        IN IF d = 0 THEN [next |-> q + 1, kept |-> TRUE]
           ELSE IF true = (tok[d].sym = "OR") THEN f[Position(d, q)]
           ELSE [next |-> q + 1, kept |-> FALSE]
  IN f[p]

\* An operand that is true, or is not, at p, has the circuit token c.  Is it kept as an
\* operand, and where does evaluation go on?  A false condition leaves out what precedes
\* its ?; an AND or OR that is decided leaves out its right side and may, as the left
\* operand at q, decide another.
ShortCircuit(true, p, c) ==
  LET f[q \in p .. Len(post)] ==
        LET d == IF q = p THEN c ELSE tok[post[q]].circ
        IN IF d = 0 THEN [next |-> q + 1, kept |-> TRUE]
           ELSE IF tok[d].sym = "IFF_THEN"
             THEN [next |-> (IF true THEN q ELSE Position(d, q)) + 1, kept |-> FALSE]
           ELSE IF true = (tok[d].sym = "OR") THEN f[Position(d, q)]
           ELSE [next |-> q + 1, kept |-> FALSE]
  IN f[p]

PushesTheCondition(o, c, p, s) ==                                    \* mutant
  LET k == post[at]
      go == ShortCircuit(IsTrue(o, mem'), p, c)
  IN /\ at' = go.next /\ UNCHANGED phase
     /\ stack' = Append(s, k) /\ tok' = [tok EXCEPT ![k] = [o EXCEPT !.circ = c]]

\* push_this_token: the token evaluated, now at p, becomes the operand o with circuit
\* token c, the stack being s beneath it.
PushThisToken(o, c, p, s) ==
  LET k == post[at]
      go == ShortCircuit(IsTrue(o, mem'), p, c)
  IN /\ at' = go.next /\ UNCHANGED phase
     /\ stack' = IF go.kept THEN Append(s, k) ELSE s
     /\ tok' = [tok EXCEPT ![k] = IF c # 0 /\ go.kept THEN Bool(IsTrue(o, mem'))
                                  ELSE [o EXCEPT !.circ = c]]

\* What the code then reads is no operand: anything may happen.
Undefined == phase' = "undefined" /\ astray' = TRUE /\ UNCHANGED <<tok, at, stack>>

EvalOperand ==
  /\ Evaluating(Operands)
  /\ UNCHANGED <<mem, astray>> /\ PushThisToken(This, This.circ, at, stack)

\* A built-in function, which stands for those that return a number: its last parameter,
\* or 0 if it has none.
EvalFunc ==
  /\ Evaluating({"FUNC"}) /\ This.v <= Len(stack)
  /\ UNCHANGED <<mem, astray>>
  /\ LET last == IF This.v = 0 THEN Nothing ELSE tok[Last(stack)]
     IN PushThisToken(Integer(IF IsNumber(last, mem) THEN Text(last, mem) ELSE 0),
                      This.circ, at, Under(This.v))

\* The : of a condition that was false: its operand is the result.
EvalElse ==
  /\ Evaluating({"IFF_ELSE"}) /\ UNCHANGED <<mem, astray>>
  /\ IF This.circ # 0 /\ stack # <<>>
       THEN PushThisToken(tok[Last(stack)], This.circ, at, Under(1))
       ELSE at' = at + 1 /\ UNCHANGED <<phase, tok, stack>>

\* The ? of a condition that was true.  Its operand has been popped into right when the
\* code pops another and takes that as the result.
EvalThen ==
  /\ Evaluating({"IFF_THEN"}) /\ stack # <<>> /\ This.circ # 0
  /\ UNCHANGED mem
  /\ IF Under(1) = <<>> THEN Undefined
     ELSE /\ astray' = TRUE
          /\ PushThisToken(tok[Last(Under(1))], tok[Last(Under(1))].circ,
                           Position(This.circ, at), Under(2))

\* The right side is discarded.  The comma may itself complete the left operand of an AND,
\* an OR or a ?, but its circuit token is not looked at.
EvalComma ==
  /\ Evaluating({"COMMA"}) /\ stack # <<>>
  /\ stack' = Under(1) /\ at' = at + 1
  /\ astray' = (astray \/ This.circ # 0)
  /\ UNCHANGED <<phase, tok, mem>>

\* AND and OR have become unary by the time they are evaluated.
EvalUnary ==
  /\ Evaluating({"AND", "OR", "LOWNOT", "HIGHNOT"}) /\ stack # <<>>
  /\ UNCHANGED <<mem, astray>>
  /\ PushThisToken(Bool(IsTrue(tok[Last(stack)], mem) = (This.sym \in {"AND", "OR"})),
                   This.circ, at, Under(1))

EvalIncrement ==
  /\ Evaluating({"PRE_INCREMENT", "POST_INCREMENT"}) /\ stack # <<>> /\ UNCHANGED astray
  /\ LET r == tok[Last(stack)]
         n == Text(r, mem)
     IN /\ mem' = IF r.sym = "VAR"
                    THEN [mem EXCEPT ![r.v] = IF n = Blank THEN Blank ELSE n + 1] ELSE mem
        /\ PushThisToken(IF r.sym # "VAR" THEN Nothing
                         ELSE IF This.sym = "PRE_INCREMENT" THEN r
                         ELSE IF n = Blank THEN Nothing ELSE Integer(n),
                         This.circ, at, Under(1))

\* x := right.  The code has popped right and the variable when it pops another operand
\* and assigns that.
EvalAssign ==
  /\ Evaluating({"ASSIGN"}) /\ Len(stack) >= 2
  /\ LET left == tok[Last(Under(1))]
     IN IF left.sym # "VAR"
          THEN UNCHANGED <<mem, astray>> /\ PushThisToken(Nothing, This.circ, at, Under(2))
        ELSE IF Under(2) = <<>> THEN Undefined /\ UNCHANGED mem
        ELSE /\ mem' = [mem EXCEPT ![left.v] = Text(tok[Last(Under(2))], mem)]
             /\ astray' = TRUE
             /\ PushThisToken(left, This.circ, at, Under(3))

EvalAssignAdd ==
  /\ Evaluating({"ASSIGN_ADD"}) /\ Len(stack) >= 2 /\ UNCHANGED astray
  /\ LET left == tok[Last(Under(1))]
         o == Binary("ADD", left, tok[Last(stack)], mem)
     IN IF left.sym # "VAR"
          THEN UNCHANGED mem /\ PushThisToken(Nothing, This.circ, at, Under(2))
          ELSE mem' = [mem EXCEPT ![left.v] = o.v] /\ PushThisToken(left, This.circ, at, Under(2))

EvalBinary ==
  /\ Evaluating({"ADD", "POWER", "EQUAL"}) /\ Len(stack) >= 2
  /\ UNCHANGED <<mem, astray>>
  /\ PushThisToken(Binary(This.sym, tok[Last(Under(1))], tok[Last(stack)], mem),
                   This.circ, at, Under(2))

\* The variable that a concatenation may build its result in: that of the whole
\* expression, or that of a := which comes next.
LooksAhead ==
  /\ at < Len(post) /\ tok[post[at + 1]].sym = "ASSIGN"
  /\ Under(2) # <<>> /\ tok[Last(Under(2))].sym = "VAR"

BuiltIn ==
  IF Under(2) = <<>> /\ at = Len(post) THEN {out}
  ELSE IF LooksAhead THEN {tok[Last(Under(2))].v} ELSE {}

\* Is the operand o the contents of the variable d?
IsDestination(o, d) == o.sym = "VAR" /\ o.v = d

\* It is appended to its left operand if that is the variable and there is room, or
\* copied there if neither operand is the variable, whose memory is given up first.
ConcatInPlace(d, l, r) ==
  /\ \/ IsDestination(l, d)
     \/ ~IsDestination(l, d) /\ ~IsDestination(r, d)
  /\ LET m == IF IsDestination(l, d) THEN mem ELSE [mem EXCEPT ![d] = Blank]
     IN mem' = [mem EXCEPT ![d] = Join(Text(l, m), Text(r, m))]
  /\ IF d = out THEN /\ phase' = "done" /\ UNCHANGED <<tok, at, stack>>
                     /\ astray' = (astray \/ LooksAhead)
     ELSE IF r.sym # "VAR" THEN Undefined
     ELSE /\ astray' = TRUE     \* the := is skipped, but the variable stays on the stack
          /\ PushThisToken(r, tok[post[at + 1]].circ, at + 1, Under(2))

EvalConcat ==
  /\ Evaluating({"CONCAT"}) /\ Len(stack) >= 2
  /\ LET l == tok[Last(Under(1))]
         r == tok[Last(stack)]
     IN \/ \E d \in BuiltIn : ConcatInPlace(d, l, r)
        \/ /\ \A d \in BuiltIn : IsDestination(l, d) \/ IsDestination(r, d)
           /\ UNCHANGED <<mem, astray>>
           /\ PushThisToken(Binary("CONCAT", l, r, mem), This.circ, at, Under(2))

\* How many operands the operator s pops before it does anything.
Arity(t) ==
  CASE t.sym = "FUNC" -> t.v
    [] t.sym \in {"ASSIGN", "ASSIGN_ADD", "ADD", "POWER", "EQUAL", "CONCAT"} -> 2
    [] t.sym \in Operands \cup {"IFF_ELSE"} -> 0
    [] OTHER -> 1

\* An operator without its operands, or a ? without its :.
Malformed ==
  /\ phase = "postfix" /\ at <= Len(post)
  /\ \/ Len(stack) < Arity(This)
     \/ This.sym = "IFF_THEN" /\ This.circ = 0
  /\ AbnormalEnd

NormalEnd ==
  /\ phase = "postfix" /\ at > Len(post) /\ Len(stack) = 1
  /\ phase' = "done" /\ mem' = [mem EXCEPT ![out] = Text(tok[stack[1]], mem)]
  /\ UNCHANGED <<tok, at, stack, post, funcs, out, meant, astray>>

NotOneResult ==
  phase = "postfix" /\ at > Len(post) /\ Len(stack) # 1 /\ AbnormalEnd

Next ==
  \/ Tokenize
  \/ Operand \/ CloseParen \/ OpenParen \/ Else \/ EndOfInfix \/ NoLaterEnd \/ InfixOperator
  \/ EvalOperand \/ EvalFunc \/ EvalElse \/ EvalThen \/ EvalComma \/ EvalUnary
  \/ EvalIncrement \/ EvalAssign \/ EvalAssignAdd \/ EvalBinary \/ EvalConcat
  \/ Malformed \/ NormalEnd \/ NotOneResult

Spec == Init /\ [][Next]_vars

-----------------------------------------------------------------------------
(* Properties.                                                             *)

\* A token on a stack or in postfix[] is a token of the expression; infix[] has room for
\* the end mark, and no array is written beyond its end.
TypeOK ==
  /\ phase \in {"text", "infix", "postfix", "done", "undefined"}
  /\ \A k \in DOMAIN tok : tok[k].circ \in 0 .. Len(tok)
  /\ at \in 1 .. Len(tok) + Len(post) + 1
  /\ stack \in Seq(0 .. Len(tok)) /\ post \in Seq(DOMAIN tok)
  /\ phase \in {"infix", "postfix"} => Len(tok) < MaxTokens
  /\ Len(post) <= Len(tok) /\ Len(stack) <= Len(tok) + 1
  /\ funcs \in 0 .. Len(tok)
  /\ mem \in [Vars -> Values]
  /\ out \in Vars /\ astray \in BOOLEAN

\* A short circuit always finds the token it skips to, and does not run past the end of
\* postfix[]: "Should always be found, so no need to check postfix_count."
\* However malformed the expression: the circuit token of what is still to be evaluated
\* lies ahead of it, and what has been evaluated awaits its operator on the stack as an
\* operand, once.
CircuitAhead ==
  phase = "postfix" =>
    /\ \A p \in at .. Len(post) :
         tok[post[p]].circ # 0 => \E q \in p + 1 .. Len(post) : post[q] = tok[post[p]].circ
    /\ \A j \in DOMAIN stack :
         /\ tok[stack[j]].sym \in Operands /\ tok[stack[j]].circ = 0
         /\ \E p \in 1 .. at - 1 : post[p] = stack[j]
         /\ \A i \in DOMAIN stack : stack[i] = stack[j] => i = j

\* The expression does what its structure says it does, to every variable and to the
\* output variable: operators bind as the precedence table says, nothing that is to be
\* left out is evaluated, and a result is built in the memory of a variable only when it
\* does not need what is there.
DoesWhatItSays == phase = "done" /\ ~astray /\ meant # {} => mem \in meant

\* The same of every expression, nested := and ? : with a true condition included.
TakesItsOwnOperands ==
  phase # "undefined" /\ (phase = "done" /\ meant # {} => mem \in meant)
=============================================================================
