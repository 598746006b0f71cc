------------------------- MODULE FunctionCalls_proofs -------------------------
(***************************************************************************)
(* Theorems about calls of functions and the memory of their variables,    *)
(* for any functions, parameters, lines and results, any number of         *)
(* activations and threads.                                                *)
(***************************************************************************)
EXTENDS FunctionCalls, InductionLemmas, SequenceTheorems, FiniteSetTheorems

Text == Texts \cup {""}

LEMMA VarsKnown ==
  /\ IsFiniteSet(Vars) /\ NoVar \notin Vars /\ NoFunc \notin Funcs
  /\ Own(NoFunc) = {} /\ Visible(NoFunc) \subseteq Vars
  /\ \A f \in Funcs : Own(f) \subseteq Vars /\ Visible(f) \subseteq Vars
  /\ \A f \in Funcs : Own(f) \cap (Globals \cup StaticVars) = {}
  /\ \A f, e \in Funcs : f # e => Own(f) \cap Own(e) = {}
<1>1. /\ IsFiniteSet(Vars) /\ NoVar \notin Vars /\ NoFunc \notin Funcs
      /\ \A f \in Funcs : Own(f) \cap (Globals \cup StaticVars) = {}
      /\ \A f \in Funcs : \A e \in Funcs \ {f} : Own(f) \cap Own(e) = {}
  BY CallsAssumption
<1>2. Own(NoFunc) = {}
  BY DEF Own
<1>3. \A f \in Funcs : Own(f) \subseteq Vars /\ Statics[f] \subseteq Vars
  BY DEF Vars, StaticVars
<1>4. Globals \subseteq Vars
  BY DEF Vars
<1>5. Visible(NoFunc) \subseteq Vars
  BY <1>2, <1>4 DEF Visible
<1>6. \A f \in Funcs : Visible(f) \subseteq Vars
  BY <1>1, <1>3, <1>4 DEF Visible
<1> QED BY <1>1, <1>2, <1>3, <1>5, <1>6

LEMMA ParamsKnown ==
  ASSUME NEW f \in Funcs
  PROVE  /\ Len(Params[f]) \in Nat /\ DOMAIN Params[f] = 1 .. Len(Params[f])
         /\ \A j \in DOMAIN Params[f] :
              /\ Params[f][j] \in Param /\ Params[f][j].var \in Own(f)
              /\ Params[f][j].byref \in BOOLEAN /\ Params[f][j].default \in Text
         /\ \A j, k \in DOMAIN Params[f] : Params[f][j].var = Params[f][k].var => j = k
<1>1. /\ Params[f] \in Seq(Param)
      /\ \A j, k \in DOMAIN Params[f] : Params[f][j].var = Params[f][k].var => j = k
  BY CallsAssumption
<1>2. /\ Len(Params[f]) \in Nat /\ DOMAIN Params[f] = 1 .. Len(Params[f])
      /\ \A j \in DOMAIN Params[f] : Params[f][j] \in Param
  BY <1>1
<1>3. ASSUME NEW j \in DOMAIN Params[f] PROVE Params[f][j].var \in Own(f)
  BY VarsKnown, <1>3 DEF Own, ParamVars
<1>4. ASSUME NEW j \in DOMAIN Params[f]
      PROVE Params[f][j].byref \in BOOLEAN /\ Params[f][j].default \in Text
  BY <1>2 DEF Param, Text
<1> QED BY <1>1, <1>2, <1>3, <1>4

-------------------------------------------------------------------------------
(* What each method of Var does to the memory. *)

\* SimpleHeap's chunks are small, and a variable without memory has no capacity.
SoundVar == {r \in Var : /\ r.how = "none" => r.cap = 0
                         /\ r.how = "simple" => r.cap = 1}
Memory == [var : [Vars -> SoundVar], buf : BOOLEAN, allocs : Int, simple : Nat]

Owning(m) == {v \in Vars : Owned(m.var[v])}
Has(b) == IF b THEN 1 ELSE 0
Block(r) == IF Owned(r) THEN 1 ELSE 0

\* The blocks that neither a variable nor sDerefBuf owns.
Surplus(m) == (m.allocs - Cardinality(Owning(m))) - Has(m.buf)

\* Nothing but the memory and the contents of v changes, and no block is lost.
Writes(m, n, v) ==
  /\ n \in Memory
  /\ \A u \in Vars : u # v => n.var[u] = m.var[u]
  /\ n.var[v].alias = m.var[v].alias
  /\ m.var[v].how # "none" => n.var[v].how # "none"
  /\ m.var[v].how = "malloc" => n.var[v].how = "malloc"
  /\ \/ n.simple = m.simple
     \/ n.simple = m.simple + 1 /\ m.var[v].how = "none" /\ n.var[v].how # "none"
  /\ Surplus(n) = Surplus(m)

LEMMA Fields ==
  ASSUME NEW m \in Memory
  PROVE  /\ m.var \in [Vars -> SoundVar] /\ m.buf \in BOOLEAN
         /\ m.allocs \in Int /\ m.simple \in Nat
         /\ \A v \in Vars : /\ m.var[v] \in SoundVar /\ m.var[v] \in Var
                            /\ m.var[v].alias \in Vars \cup {NoVar}
                            /\ m.var[v].how \in {"none", "simple", "malloc"}
                            /\ m.var[v].cap \in 0 .. 2 /\ m.var[v].val \in Text
BY DEF Memory, SoundVar, Var, Text

LEMMA Resolved ==
  ASSUME NEW m \in Memory, NEW v \in Vars
  PROVE  Resolve(m, v) \in Vars /\ Contents(m, v) \in Text
<1>1. m.var[v].alias \in Vars \cup {NoVar}
  BY Fields
<1>2. Resolve(m, v) \in Vars
  BY <1>1 DEF Resolve
<1> QED BY <1>2, Fields DEF Contents

LEMMA OwningCounted ==
  ASSUME NEW m, NEW W
  PROVE  /\ Cardinality(Owning(m)) \in Nat /\ IsFiniteSet(Owning(m))
         /\ Cardinality(Owning(m) \cap W) \in Nat /\ Cardinality(Owning(m) \ W) \in Nat
         /\ Cardinality(Owning(m)) =
              Cardinality(Owning(m) \cap W) + Cardinality(Owning(m) \ W)
<1> DEFINE A == Owning(m) \cap W
           B == Owning(m) \ W
<1>1. IsFiniteSet(Owning(m))
  BY VarsKnown, FS_Subset DEF Owning
<1>2. IsFiniteSet(A) /\ IsFiniteSet(B)
  BY <1>1, FS_Subset
<1>3. A \cap B = {} /\ A \cup B = Owning(m)
  OBVIOUS
<1> HIDE DEF A, B
<1>5. /\ Cardinality(A) \in Nat /\ Cardinality(B) \in Nat /\ Cardinality({}) = 0
      /\ Cardinality(Owning(m)) \in Nat
  BY <1>1, <1>2, FS_CardinalityType, FS_EmptySet
<1>4. Cardinality(A \cup B) = Cardinality(A) + Cardinality(B) - Cardinality(A \cap B)
  BY <1>2, FS_Union
<1>6. Cardinality(Owning(m)) = Cardinality(A) + Cardinality(B)
  <2> DEFINE a == Cardinality(A)
             b == Cardinality(B)
  <2>1. Cardinality(Owning(m)) = a + b - 0
    BY <1>3, <1>4, <1>5
  <2>2. a \in Nat /\ b \in Nat
    BY <1>5
  <2> HIDE DEF a, b
  <2>3. a + b - 0 = a + b
    BY <2>2
  <2> QED BY <2>1, <2>3 DEF a, b
<1> QED BY <1>1, <1>5, <1>6 DEF A, B

LEMMA HasTyped ==
  ASSUME NEW b
  PROVE  Has(b) \in Int
BY DEF Has

LEMMA SurplusTyped ==
  ASSUME NEW m \in Memory
  PROVE  Surplus(m) \in Int
<1> DEFINE c == Cardinality(Owning(m))
           b == Has(m.buf)
           a == m.allocs
<1>1. c \in Nat /\ b \in Int /\ a \in Int
  <2>1. c \in Nat
    BY OwningCounted
  <2>2. a \in Int
    BY Fields
  <2>3. b \in Int
    BY Zenon, HasTyped
  <2> QED BY <2>1, <2>2, <2>3
<1>2. Surplus(m) = (a - c) - b
  BY DEF Surplus
<1> HIDE DEF a, b, c
<1> QED BY <1>1, <1>2

LEMMA OneOwner ==
  ASSUME NEW m, NEW n, NEW v \in Vars,
         \A u \in Vars : u # v => (Owned(n.var[u]) <=> Owned(m.var[u]))
  PROVE  Cardinality(Owning(n)) - Block(n.var[v]) =
         Cardinality(Owning(m)) - Block(m.var[v])
<1>1. Owning(n) \ {v} = Owning(m) \ {v}
  BY DEF Owning
<1>2. ASSUME NEW k PROVE Cardinality(Owning(k) \cap {v}) = Block(k.var[v])
  <2>1. CASE Owned(k.var[v])
    <3>1. Owning(k) \cap {v} = {v}
      BY <2>1 DEF Owning
    <3> QED BY <2>1, <3>1, FS_Singleton DEF Block, Has
  <2>2. CASE ~Owned(k.var[v])
    <3>1. Owning(k) \cap {v} = {}
      BY <2>2 DEF Owning
    <3> QED BY <2>2, <3>1, FS_EmptySet DEF Block, Has
  <2> QED BY <2>1, <2>2
<1>3. Cardinality(Owning(n) \cap {v}) = Block(n.var[v])
  BY <1>2
<1>4. Cardinality(Owning(m) \cap {v}) = Block(m.var[v])
  BY <1>2
<1>5. /\ Cardinality(Owning(n)) = Cardinality(Owning(n) \cap {v}) + Cardinality(Owning(n) \ {v})
      /\ Cardinality(Owning(n)) \in Nat /\ Cardinality(Owning(n) \cap {v}) \in Nat
      /\ Cardinality(Owning(n) \ {v}) \in Nat
  BY OwningCounted
<1>6. /\ Cardinality(Owning(m)) = Cardinality(Owning(m) \cap {v}) + Cardinality(Owning(m) \ {v})
      /\ Cardinality(Owning(m)) \in Nat /\ Cardinality(Owning(m) \cap {v}) \in Nat
      /\ Cardinality(Owning(m) \ {v}) \in Nat
  BY OwningCounted
<1>7. ASSUME NEW a \in Nat, NEW b \in Nat, NEW c \in Nat, a = b + c PROVE a - b = c
  BY <1>7
<1>8. Cardinality(Owning(n)) - Block(n.var[v]) = Cardinality(Owning(n) \ {v})
  BY <1>3, <1>5, <1>7
<1>9. Cardinality(Owning(m)) - Block(m.var[v]) = Cardinality(Owning(m) \ {v})
  BY <1>4, <1>6, <1>7
<1> QED BY <1>1, <1>8, <1>9

\* One variable is written, and the count of blocks follows.
LEMMA WritesOne ==
  ASSUME NEW m \in Memory, NEW n \in Memory, NEW v \in Vars,
         \A u \in Vars : u # v => n.var[u] = m.var[u],
         n.var[v].alias = m.var[v].alias,
         m.var[v].how # "none" => n.var[v].how # "none",
         m.var[v].how = "malloc" => n.var[v].how = "malloc",
         \/ n.simple = m.simple
         \/ n.simple = m.simple + 1 /\ m.var[v].how = "none" /\ n.var[v].how # "none",
         (n.allocs - Block(n.var[v])) - Has(n.buf)
           = (m.allocs - Block(m.var[v])) - Has(m.buf)
  PROVE  Writes(m, n, v)
<1>1. /\ m.allocs \in Int /\ m.buf \in BOOLEAN /\ n.allocs \in Int /\ n.buf \in BOOLEAN
  BY Fields
<1>2. \A u \in Vars : u # v => (Owned(n.var[u]) <=> Owned(m.var[u]))
  OBVIOUS
<1>3. Cardinality(Owning(n)) - Block(n.var[v]) = Cardinality(Owning(m)) - Block(m.var[v])
  BY <1>2, OneOwner
<1>4. Surplus(n) = Surplus(m)
  <2> DEFINE a == Cardinality(Owning(n))
             b == Cardinality(Owning(m))
             p == Block(n.var[v])
             q == Block(m.var[v])
             x == Has(n.buf)
             y == Has(m.buf)
             N == n.allocs
             M == m.allocs
  <2>1. a - p = b - q /\ (N - p) - x = (M - q) - y
    BY <1>3
  <2>2. /\ p \in Int /\ q \in Int /\ x \in Int /\ y \in Int /\ N \in Int /\ M \in Int
    BY <1>1 DEF Block, Has
  <2>3. a \in Nat /\ b \in Nat
    BY OwningCounted
  <2>4. Surplus(n) = (N - a) - x /\ Surplus(m) = (M - b) - y
    BY DEF Surplus
  <2> HIDE DEF a, b, p, q, x, y, N, M
  <2>5. N - a - x = M - b - y
    BY <2>1, <2>2, <2>3
  <2> QED BY <2>4, <2>5
<1> QED BY <1>4 DEF Writes

\* What remains of a variable that becomes blank.
LEMMA BlankOne ==
  ASSUME NEW m \in Memory, NEW v \in Vars, NEW gone \in {{}, {v}},
         gone # {} => Owned(m.var[v])
  PROVE  /\ Writes(m, Blanked(m, {v}, gone), v)
         /\ Blanked(m, {v}, gone).buf = m.buf
         /\ Blanked(m, {v}, gone).simple = m.simple
         /\ gone # {} => ~Owned(Blanked(m, {v}, gone).var[v])
<1> DEFINE n == Blanked(m, {v}, gone)
           f == [u \in Vars |-> IF u \in gone THEN [m.var[u] EXCEPT !.val = "", !.cap = 0]
                                 ELSE IF u \in {v} THEN [m.var[u] EXCEPT !.val = ""] ELSE m.var[u]]
           r == m.var[v]
           s == [alias |-> r.alias, how |-> r.how,
                 cap |-> IF gone = {} THEN r.cap ELSE 0, val |-> ""]
<1>4. /\ m.var \in [Vars -> SoundVar] /\ m.buf \in BOOLEAN /\ m.allocs \in Int /\ m.simple \in Nat
  BY Fields
<1>3. r \in SoundVar /\ r \in Var
  BY Fields
<1>5. Cardinality(gone) = IF gone = {} THEN 0 ELSE 1
  BY FS_EmptySet, FS_Singleton
<1>6. n = [m EXCEPT !.var = f, !.allocs = @ - Cardinality(gone)]
  BY DEF Blanked
<1>7. f = [m.var EXCEPT ![v] = s]
  <2>1. (IF v \in gone THEN [r EXCEPT !.val = "", !.cap = 0] ELSE [r EXCEPT !.val = ""]) = s
    BY <1>3 DEF Var
  <2> HIDE DEF s
  <2> QED BY <1>4, <2>1
<1>8. s \in SoundVar /\ s.alias = r.alias /\ s.how = r.how /\ s.cap = (IF gone = {} THEN r.cap ELSE 0)
  <2> HIDE DEF r
  <2>1. s.alias = r.alias /\ s.how = r.how /\ s.cap = (IF gone = {} THEN r.cap ELSE 0)
    OBVIOUS
  <2>2. gone # {} => r.how = "malloc"
    BY DEF r, Owned
  <2>3. /\ r.alias \in Vars \cup {NoVar} /\ r.how \in {"none", "simple", "malloc"} /\ r.cap \in 0 .. 2
        /\ (r.how = "none" => r.cap = 0) /\ (r.how = "simple" => r.cap = 1)
    BY <1>3 DEF SoundVar, Var
  <2>4. s \in Var
    BY <2>1, <2>3 DEF Var
  <2>5. gone = {} \/ r.how = "malloc"
    BY <2>2
  <2> HIDE DEF s
  <2> QED BY <2>1, <2>3, <2>4, <2>5 DEF SoundVar
<1> HIDE DEF n, f, s, r
<1>10. /\ n.var = f /\ n.buf = m.buf /\ n.simple = m.simple /\ n.allocs = m.allocs - Cardinality(gone)
  BY <1>6 DEF Memory
<1>9. (n.allocs - Block(s)) - Has(n.buf) = (m.allocs - Block(r)) - Has(m.buf)
  <2>1. CASE gone = {}
    <3>1. Owned(s) <=> Owned(r)
      BY <1>8, <2>1 DEF Owned
    <3>2. n.allocs = m.allocs
      BY <1>4, <1>5, <1>10, <2>1
    <3> QED BY <1>10, <3>1, <3>2 DEF Block, Has
  <2>2. CASE gone # {}
    <3>1. ~Owned(s) /\ Owned(r)
      BY <1>8, <2>2 DEF Owned, r
    <3>2. n.allocs = m.allocs - 1
      BY <1>4, <1>5, <1>10, <2>2
    <3>3. n.allocs - Block(s) = m.allocs - Block(r)
      BY <1>4, <3>1, <3>2 DEF Block, Has
    <3> QED BY <1>10, <3>3
  <2> QED BY <2>1, <2>2
<1>11. n \in Memory
  <2>1. Cardinality(gone) \in Int /\ m.allocs - Cardinality(gone) \in Int
    BY <1>4, <1>5
  <2>2. f \in [Vars -> SoundVar]
    BY <1>4, <1>7, <1>8
  <2> QED BY <1>4, <1>6, <2>1, <2>2 DEF Memory
<1>13. n.var[v] = s /\ \A u \in Vars : u # v => n.var[u] = m.var[u]
  BY <1>4, <1>7, <1>10
<1>12. Writes(m, n, v)
  BY <1>8, <1>9, <1>10, <1>11, <1>13, WritesOne DEF r
<1>14. gone # {} => ~Owned(n.var[v])
  BY <1>8, <1>13 DEF Owned
<1> QED BY <1>10, <1>12, <1>14 DEF n

LEMMA Frees ==
  ASSUME NEW m \in Memory, NEW v \in Vars, NEW always \in BOOLEAN
  PROVE  /\ Writes(m, Free(m, v, always), v)
         /\ Free(m, v, always).buf = m.buf /\ Free(m, v, always).simple = m.simple
         /\ always => ~Owned(Free(m, v, always).var[v])
<1> DEFINE gone == IF Owned(m.var[v]) /\ (always \/ m.var[v].cap = 2) THEN {v} ELSE {}
<1>1. gone \in {{}, {v}} /\ (gone # {} => Owned(m.var[v]))
  OBVIOUS
<1>2. Free(m, v, always) = Blanked(m, {v}, gone)
  BY DEF Free
<1>3. always /\ gone = {} => ~Owned(m.var[v])
  OBVIOUS
<1>6. gone \in {{}, {v}} /\ (gone # {} => Owned(m.var[v]))
  OBVIOUS
<1> HIDE DEF gone
<1>4. /\ Writes(m, Blanked(m, {v}, gone), v) /\ Blanked(m, {v}, gone).buf = m.buf
      /\ Blanked(m, {v}, gone).simple = m.simple
      /\ gone # {} => ~Owned(Blanked(m, {v}, gone).var[v])
  BY <1>6, BlankOne
<1>5. gone = {} /\ ~Owned(m.var[v]) => ~Owned(Blanked(m, {v}, gone).var[v])
  <2>1. gone = {} => Blanked(m, {v}, gone).var[v] = [m.var[v] EXCEPT !.val = ""]
    BY Fields DEF Blanked, Memory
  <2>2. m.var[v] \in Var
    BY Fields
  <2>3. [m.var[v] EXCEPT !.val = ""].how = m.var[v].how /\ [m.var[v] EXCEPT !.val = ""].cap = m.var[v].cap
    BY <2>2 DEF Var
  <2> QED BY <2>1, <2>3 DEF Owned
<1> QED BY <1>2, <1>3, <1>4, <1>5

\* The memory with v replaced.
Put(m, v, s, b, a, p) ==
  [m EXCEPT !.var = [@ EXCEPT ![v] = s], !.buf = b, !.allocs = a, !.simple = p]

LEMMA PutOne ==
  ASSUME NEW m \in Memory, NEW v \in Vars, NEW s \in SoundVar,
         NEW b \in BOOLEAN, NEW a \in Int, NEW p \in Nat
  PROVE  /\ Put(m, v, s, b, a, p) \in Memory
         /\ Put(m, v, s, b, a, p).var[v] = s
         /\ \A u \in Vars : u # v => Put(m, v, s, b, a, p).var[u] = m.var[u]
         /\ Put(m, v, s, b, a, p).buf = b /\ Put(m, v, s, b, a, p).allocs = a
         /\ Put(m, v, s, b, a, p).simple = p
<1>1. m.var \in [Vars -> SoundVar]
  BY Fields
<1>2. [m.var EXCEPT ![v] = s] \in [Vars -> SoundVar]
  BY <1>1
<1> QED BY <1>1, <1>2 DEF Memory, Put

\* s may take the place of v's memory, with a and b for the blocks and the buffer.
Replaces(m, v, s) ==
  /\ s.alias = m.var[v].alias
  /\ m.var[v].how # "none" => s.how # "none"
  /\ m.var[v].how = "malloc" => s.how = "malloc"
Taken(m, v, s, p) ==
  \/ p = m.simple
  \/ p = m.simple + 1 /\ m.var[v].how = "none" /\ s.how # "none"
Balanced(m, v, s, b, a) ==
  (a - Block(s)) - Has(b) = (m.allocs - Block(m.var[v])) - Has(m.buf)

LEMMA PutWrites ==
  ASSUME NEW m \in Memory, NEW v \in Vars, NEW s \in SoundVar,
         NEW b \in BOOLEAN, NEW a \in Int, NEW p \in Nat,
         Replaces(m, v, s), Taken(m, v, s, p), Balanced(m, v, s, b, a)
  PROVE  Writes(m, Put(m, v, s, b, a, p), v)
<1> DEFINE n == Put(m, v, s, b, a, p)
<1>1. /\ n \in Memory /\ n.var[v] = s /\ \A u \in Vars : u # v => n.var[u] = m.var[u]
      /\ n.buf = b /\ n.allocs = a /\ n.simple = p
  BY PutOne
<1> HIDE DEF n
<1>2. Writes(m, n, v)
  BY <1>1, WritesOne DEF Replaces, Taken, Balanced
<1> QED BY <1>2 DEF n

\* A variable with other memory.
LEMMA RecordRemade ==
  ASSUME NEW A, NEW H, NEW C, NEW X, NEW r \in [alias : A, how : H, cap : C, val : X],
         NEW h \in H, NEW c \in C, NEW x \in X
  PROVE  LET s == [r EXCEPT !.how = h, !.cap = c, !.val = x]
         IN /\ s \in [alias : A, how : H, cap : C, val : X]
            /\ s.alias = r.alias /\ s.how = h /\ s.cap = c
OBVIOUS

HasMemory(s, r, h, c) == s.alias = r.alias /\ s.how = h /\ s.cap = c

LEMMA Remade ==
  ASSUME NEW r \in SoundVar, NEW h \in {"none", "simple", "malloc"}, NEW c \in 0 .. 2,
         NEW x \in Text, (h = "none" => c = 0), (h = "simple" => c = 1),
         NEW s, s = [r EXCEPT !.how = h, !.cap = c, !.val = x]
  PROVE  s \in SoundVar /\ HasMemory(s, r, h, c)
<1>1. r \in Var
  BY DEF SoundVar
<1>2. s \in Var /\ s.alias = r.alias /\ s.how = h /\ s.cap = c
  BY <1>1, RecordRemade, Zenon DEF Var, Text
<1>3. s \in SoundVar
  BY <1>2 DEF SoundVar
<1> QED BY <1>2, <1>3 DEF HasMemory

Rewritten(m, v, x) == [m EXCEPT !.var[v].val = x]
Simple(m, v, r, x) ==
  [m EXCEPT !.var[v] = [r EXCEPT !.how = "simple", !.cap = 1, !.val = x], !.simple = @ + 1]
Malloced(m, v, r, x, size) ==
  [m EXCEPT !.var[v] = [r EXCEPT !.how = "malloc", !.cap = size, !.val = x],
            !.allocs = @ + 1 - (IF Owned(r) THEN 1 ELSE 0)]

OneOfThree(m, n, v, r, x, size) ==
  /\ size <= r.cap /\ ~(size > r.cap) => n = Rewritten(m, v, x)
  /\ ~(size <= r.cap) /\ size > r.cap /\ size = 1 /\ r.how # "malloc"
       => n = Simple(m, v, r, x)
  /\ ~(size <= r.cap) /\ ~(size = 1 /\ r.how # "malloc")
       => n = Malloced(m, v, r, x, size)

LEMMA AssignIs ==
  ASSUME NEW m, NEW w, NEW x, NEW v, NEW r, v = Resolve(m, w), r = m.var[v], x # "",
         NEW size, size = Size[x], NEW n, n = Assign(m, w, x)
  PROVE  OneOfThree(m, n, v, r, x, size)
<1>1. size <= r.cap /\ ~(size > r.cap) => n = Rewritten(m, v, x)
  BY Zenon DEF Assign, Rewritten
<1>2. ~(size <= r.cap) /\ size > r.cap /\ size = 1 /\ r.how # "malloc"
      => n = Simple(m, v, r, x)
  BY Zenon DEF Assign, Simple
<1>3. ~(size <= r.cap) /\ ~(size = 1 /\ r.how # "malloc")
      => n = Malloced(m, v, r, x, size)
  BY Zenon DEF Assign, Malloced
<1> QED BY <1>1, <1>2, <1>3, Zenon DEF OneOfThree

LEMMA AssignBlank ==
  ASSUME NEW m, NEW w, NEW x, x = ""
  PROVE  Assign(m, w, x) = Free(m, Resolve(m, w), FALSE)
BY Zenon DEF Assign

LEMMA Assigns ==
  ASSUME NEW m \in Memory, NEW w \in Vars, NEW x \in Text
  PROVE  /\ Writes(m, Assign(m, w, x), Resolve(m, w))
         /\ Assign(m, w, x).buf = m.buf
<1>1. PICK v \in Vars : v = Resolve(m, w)
  BY Resolved
<1>2. PICK r \in SoundVar : r = m.var[v]
  BY Fields
<1>4. /\ r \in Var /\ r.alias \in Vars \cup {NoVar} /\ r.how \in {"none", "simple", "malloc"}
      /\ r.cap \in 0 .. 2 /\ (r.how = "none" => r.cap = 0) /\ (r.how = "simple" => r.cap = 1)
  BY DEF SoundVar, Var
<1>5. m.buf \in BOOLEAN /\ m.allocs \in Int /\ m.simple \in Nat /\ m.var \in [Vars -> SoundVar]
  BY Fields
<1>6. CASE x = ""
  <2>1. Assign(m, w, x) = Free(m, v, FALSE)
    BY <1>1, <1>6, AssignBlank
  <2> DEFINE no == FALSE
  <2>2. no \in BOOLEAN
    OBVIOUS
  <2>3. Assign(m, w, x) = Free(m, v, no)
    BY <2>1
  <2> HIDE DEF no
  <2> QED BY <1>1, <2>2, <2>3, Frees
<1>7. CASE x # ""
  <2> DEFINE n == Assign(m, w, x)
             size == Size[x]
  <2>2. size \in 1 .. 2
    <3>1. Size \in [Texts -> 1 .. 2]
      BY CallsAssumption
    <3>2. x \in Texts
      BY <1>7 DEF Text
    <3> QED BY <3>1, <3>2
  <2>3. OneOfThree(m, n, v, r, x, size)
    BY <1>1, <1>2, <1>7, AssignIs
  <2> HIDE DEF n, size
  <2>4. CASE size <= r.cap
    <3> DEFINE s == [r EXCEPT !.val = x]
    <3>1. n = [m EXCEPT !.var[v].val = x]
      BY <1>4, <2>2, <2>3, <2>4 DEF OneOfThree, Rewritten
    <3>2. n = Put(m, v, s, m.buf, m.allocs, m.simple)
      BY <1>2, <1>5, <3>1 DEF Memory, Put
    <3>3. s \in SoundVar /\ s.alias = r.alias /\ s.how = r.how /\ s.cap = r.cap
      BY <1>4 DEF SoundVar, Var, Text
    <3> HIDE DEF s
    <3>4. Block(s) = Block(r)
      BY <3>3 DEF Block, Owned
    <3>5. m.simple = m.simple /\ (m.allocs - Block(s)) - Has(m.buf) = (m.allocs - Block(m.var[v])) - Has(m.buf)
      BY <1>2, <3>4
    <3>6. Replaces(m, v, s) /\ Taken(m, v, s, m.simple) /\ Balanced(m, v, s, m.buf, m.allocs)
      <4>1. Replaces(m, v, s)
        BY <1>2, <3>3 DEF Replaces
      <4>2. Taken(m, v, s, m.simple)
        BY <1>5 DEF Taken
      <4> QED BY <3>5, <4>1, <4>2, Zenon DEF Balanced
    <3>7. Writes(m, Put(m, v, s, m.buf, m.allocs, m.simple), v)
      BY <1>5, <3>3, <3>6, PutWrites
    <3> QED BY <1>1, <1>5, <3>2, <3>3, <3>7, PutOne DEF n
  <2>5. CASE size > r.cap /\ size = 1 /\ r.how # "malloc"
    <3> DEFINE s == [r EXCEPT !.how = "simple", !.cap = 1, !.val = x]
               more == m.simple + 1
    <3>1. n = [m EXCEPT !.var[v] = s, !.simple = @ + 1]
      BY <1>4, <2>2, <2>3, <2>5 DEF OneOfThree, Simple
    <3>2. n = Put(m, v, s, m.buf, m.allocs, more)
      BY <1>2, <1>5, <3>1 DEF Memory, Put
    <3>3. s \in SoundVar /\ s.alias = r.alias /\ s.how = "simple" /\ s.cap = 1
      <4> DEFINE h == "simple"
                 c == 1
      <4>1. h \in {"none", "simple", "malloc"} /\ c \in 0 .. 2 /\ (h = "none" => c = 0) /\ (h = "simple" => c = 1)
        OBVIOUS
      <4>2. s = [r EXCEPT !.how = h, !.cap = c, !.val = x]
        OBVIOUS
      <4>3. h = "simple" /\ c = 1
        OBVIOUS
      <4> HIDE DEF h, c, s
      <4>4. s \in SoundVar /\ HasMemory(s, r, h, c)
        BY <4>1, <4>2, Remade
      <4> QED BY <4>3, <4>4 DEF HasMemory
    <3>4. r.how = "none"
      BY <1>4, <2>5
    <3>5. more \in Nat
      BY <1>5
    <3> HIDE DEF s
    <3>6. Block(s) = Block(r) /\ s.how # "none"
      BY <3>3, <3>4 DEF Block, Owned
    <3>7. Writes(m, Put(m, v, s, m.buf, m.allocs, more), v)
      BY <1>2, <1>5, <3>3, <3>4, <3>5, <3>6, PutWrites DEF Replaces, Taken, Balanced
    <3> QED BY <1>1, <1>5, <3>2, <3>3, <3>5, <3>7, PutOne DEF n
  <2>6. CASE size > r.cap /\ ~(size = 1 /\ r.how # "malloc")
    <3> DEFINE s == [r EXCEPT !.how = "malloc", !.cap = size, !.val = x]
               more == m.allocs + 1 - Block(r)
    <3>1. n = [m EXCEPT !.var[v] = s, !.allocs = more]
      <4>1. ~(size <= r.cap)
        BY <1>4, <2>2, <2>6
      <4> QED BY <2>3, <2>6, <4>1, Zenon DEF OneOfThree, Block, Malloced
    <3>2. n = Put(m, v, s, m.buf, more, m.simple)
      BY <1>2, <1>5, <3>1 DEF Memory, Put
    <3>3. s \in SoundVar /\ s.alias = r.alias /\ s.how = "malloc" /\ s.cap > 0
      <4> DEFINE h == "malloc"
      <4>1. h \in {"none", "simple", "malloc"} /\ size \in 0 .. 2 /\ (h = "none" => size = 0) /\ (h = "simple" => size = 1)
        BY <2>2
      <4>2. s = [r EXCEPT !.how = h, !.cap = size, !.val = x]
        OBVIOUS
      <4>3. h = "malloc" /\ size > 0
        BY <2>2
      <4> HIDE DEF h, s
      <4>4. s \in SoundVar /\ HasMemory(s, r, h, size)
        BY <4>1, <4>2, Remade
      <4> QED BY <4>3, <4>4 DEF HasMemory
    <3>4. Block(r) \in {0, 1}
      BY DEF Block
    <3>5. more \in Int /\ more - 1 = m.allocs - Block(r)
      BY <1>5, <3>4
    <3> HIDE DEF s, more
    <3>6. Block(s) = 1 /\ s.how # "none"
      BY <3>3 DEF Block, Owned
    <3>7. (more - Block(s)) - Has(m.buf) = (m.allocs - Block(m.var[v])) - Has(m.buf)
      BY <1>2, <3>5, <3>6
    <3>9. Replaces(m, v, s) /\ Taken(m, v, s, m.simple) /\ Balanced(m, v, s, m.buf, more)
      <4>1. Replaces(m, v, s)
        BY <1>2, <3>3 DEF Replaces
      <4>2. Taken(m, v, s, m.simple)
        BY <1>5 DEF Taken
      <4> QED BY <3>7, <4>1, <4>2, Zenon DEF Balanced
    <3>8. Writes(m, Put(m, v, s, m.buf, more, m.simple), v)
      BY <1>5, <3>3, <3>5, <3>9, PutWrites
    <3> QED BY <1>1, <1>5, <3>2, <3>3, <3>5, <3>8, PutOne DEF n
  <2>7. size <= r.cap \/ size > r.cap
    BY <1>4, <2>2
  <2> QED BY <2>4, <2>5, <2>6, <2>7
<1> QED BY <1>6, <1>7

\* Writes one after the other to the same variable.
LEMMA WritesTwice ==
  ASSUME NEW m \in Memory, NEW n \in Memory, NEW k, NEW v \in Vars,
         Writes(m, n, v), Writes(n, k, v), n.simple = m.simple \/ k.simple = n.simple
  PROVE  Writes(m, k, v)
<1>1. n.simple \in Nat /\ m.simple \in Nat
  BY Fields
<1> QED BY <1>1 DEF Writes

LEMMA Accepts ==
  ASSUME NEW m \in Memory, NEW w \in Vars, NEW x \in Text, m.buf = TRUE
  PROVE  Writes(m, AcceptNewMem(m, w, x), Resolve(m, w))
<1>1. PICK v \in Vars : v = Resolve(m, w)
  BY Resolved
<1> DEFINE yes == TRUE
           f == Free(m, v, yes)
           s == [[[f.var[v] EXCEPT !.how = "malloc"] EXCEPT !.cap = 2] EXCEPT !.val = x]
           b == ~yes
<1>2. yes \in BOOLEAN /\ yes /\ b \in BOOLEAN
  OBVIOUS
<1> HIDE DEF yes
<1>3. Writes(m, f, v) /\ f.buf = m.buf /\ f.simple = m.simple /\ ~Owned(f.var[v])
  BY <1>2, Frees
<1>4. f \in Memory
  BY <1>3 DEF Writes
<1> HIDE DEF f
<1>5. /\ f.allocs \in Int /\ f.simple \in Nat /\ f.var \in [Vars -> SoundVar]
      /\ f.var[v] \in Var
  BY <1>4, Fields
<1>6. AcceptNewMem(m, w, x) = Put(f, v, s, b, f.allocs, f.simple)
  <2>1. AcceptNewMem(m, w, x) = [f EXCEPT !.var[v].how = "malloc", !.var[v].cap = 2,
                                          !.var[v].val = x, !.buf = FALSE]
    BY <1>1 DEF AcceptNewMem, f, yes
  <2>2. [[[f.var EXCEPT ![v].how = "malloc"] EXCEPT ![v].cap = 2] EXCEPT ![v].val = x]
          = [f.var EXCEPT ![v] = s]
    BY <1>5
  <2>3. b = FALSE
    BY DEF yes
  <2> HIDE DEF s, b
  <2> QED BY <1>4, <2>1, <2>2, <2>3 DEF Memory, Put
<1>7. s \in SoundVar /\ s.alias = f.var[v].alias /\ s.how = "malloc" /\ s.cap = 2
  <2> DEFINE h == "malloc"
             c == 2
             r == f.var[v]
  <2>1. h \in {"none", "simple", "malloc"} /\ c \in 0 .. 2 /\ (h = "none" => c = 0) /\ (h = "simple" => c = 1)
    OBVIOUS
  <2>2. s = [r EXCEPT !.how = h, !.cap = c, !.val = x]
    OBVIOUS
  <2>3. h = "malloc" /\ c = 2
    OBVIOUS
  <2>4. r \in SoundVar
    BY <1>5
  <2> HIDE DEF h, c, r, s
  <2>5. s \in SoundVar /\ HasMemory(s, r, h, c)
    BY <2>1, <2>2, <2>4, Remade
  <2> QED BY <2>3, <2>5 DEF r, HasMemory
<1> HIDE DEF s
<1>8. (f.allocs - Block(s)) - Has(b) = (f.allocs - Block(f.var[v])) - Has(f.buf)
  <2>1. Block(s) = 1 /\ Block(f.var[v]) = 0
    BY <1>3, <1>7 DEF Block, Owned
  <2>2. Has(b) = 0 /\ Has(f.buf) = 1
    BY <1>2, <1>3 DEF Has
  <2> QED BY <1>5, <2>1, <2>2
<1> HIDE DEF b
<1>9. Writes(f, Put(f, v, s, b, f.allocs, f.simple), v)
  <2>1. Replaces(f, v, s) /\ Taken(f, v, s, f.simple) /\ Balanced(f, v, s, b, f.allocs)
    <3>1. Replaces(f, v, s)
      BY <1>7 DEF Replaces
    <3>2. Taken(f, v, s, f.simple)
      BY <1>5 DEF Taken
    <3> QED BY <1>8, <3>1, <3>2, Zenon DEF Balanced
  <2> QED BY <1>2, <1>4, <1>5, <1>7, <2>1, PutWrites
<1> QED BY <1>1, <1>3, <1>4, <1>6, <1>9, WritesTwice

-------------------------------------------------------------------------------
(* The stack of activations: frames fs, of which k are there. *)

Runs(fs, k, f) == \E j \in 1 .. k : fs[j].func = f

\* An activation has a backup of what it found, if it found an instance.
Backed(fs, i) == Own(fs[i].func) # {} /\ Runs(fs, i - 1, fs[i].func)
BackupsRight(fs, k) ==
  \A i \in 1 .. k :
    /\ fs[i].func \in Funcs \cup {NoFunc}
    /\ Backed(fs, i) => fs[i].bkp \in [Own(fs[i].func) -> SoundVar]
    /\ ~Backed(fs, i) => fs[i].bkp = None

\* What is above a backup, and above it in turn, is not of SimpleHeap.
Layered(m, fs, k) ==
  \A j \in 1 .. k : \A v \in DOMAIN fs[j].bkp :
    /\ m.var[v].how = "malloc"
    /\ \A i \in 1 .. j - 1 : v \in DOMAIN fs[i].bkp => fs[j].bkp[v].how = "malloc"

\* The variables that have had memory beneath all that has been backed up.
Used(m, fs, k) ==
  {v \in Vars : /\ m.var[v].how # "none"
                /\ \A j \in 1 .. k : v \in DOMAIN fs[j].bkp => fs[j].bkp[v].how # "none"}

Base(m, fs, k) ==
  /\ m \in Memory /\ BackupsRight(fs, k) /\ Layered(m, fs, k)
  /\ m.simple <= Cardinality(Used(m, fs, k))

LEMMA UsedCounted ==
  ASSUME NEW m, NEW fs, NEW k
  PROVE  /\ IsFiniteSet(Used(m, fs, k)) /\ Cardinality(Used(m, fs, k)) \in Nat
         /\ Cardinality(Used(m, fs, k)) <= Cardinality(Vars)
<1>1. Used(m, fs, k) \subseteq Vars
  BY DEF Used
<1> QED BY <1>1, VarsKnown, FS_Subset, FS_CardinalityType

LEMMA BackedUp ==
  ASSUME NEW fs, NEW k \in Nat, BackupsRight(fs, k), NEW j \in 1 .. k
  PROVE  /\ DOMAIN fs[j].bkp = (IF Backed(fs, j) THEN Own(fs[j].func) ELSE {})
         /\ fs[j].bkp = None <=> ~Backed(fs, j)
         /\ DOMAIN fs[j].bkp \subseteq Own(fs[j].func) /\ Own(fs[j].func) \subseteq Vars
         /\ \A v \in DOMAIN fs[j].bkp : fs[j].bkp[v] \in SoundVar
<1>1. /\ Backed(fs, j) => fs[j].bkp \in [Own(fs[j].func) -> SoundVar]
      /\ ~Backed(fs, j) => fs[j].bkp = None
      /\ fs[j].func \in Funcs \cup {NoFunc}
  BY DEF BackupsRight
<1>2. DOMAIN None = {}
  BY DEF None
<1>3. Own(fs[j].func) \subseteq Vars
  BY <1>1, VarsKnown
<1>4. CASE Backed(fs, j)
  <2>1. Own(fs[j].func) # {}
    BY <1>4 DEF Backed
  <2>2. DOMAIN fs[j].bkp = Own(fs[j].func)
    BY <1>1, <1>4
  <2>3. fs[j].bkp # None
    BY <1>2, <2>1, <2>2
  <2>4. \A v \in DOMAIN fs[j].bkp : fs[j].bkp[v] \in SoundVar
    BY <1>1, <1>4, <2>2
  <2> QED BY <1>3, <1>4, <2>2, <2>3, <2>4
<1>5. CASE ~Backed(fs, j)
  BY <1>1, <1>2, <1>3, <1>5
<1> QED BY <1>4, <1>5

\* A write to a variable.
LEMMA WriteKeepsBase ==
  ASSUME NEW m, NEW n, NEW v \in Vars, NEW fs, NEW k \in Nat,
         Base(m, fs, k), Writes(m, n, v)
  PROVE  Base(n, fs, k)
<1>1. m \in Memory /\ n \in Memory /\ BackupsRight(fs, k) /\ Layered(m, fs, k)
  BY DEF Base, Writes
<1>2. \A u \in Vars : /\ m.var[u].how = "malloc" => n.var[u].how = "malloc"
                      /\ m.var[u].how # "none" => n.var[u].how # "none"
  BY DEF Writes
<1>3. Layered(n, fs, k)
  <2>1. \A j \in 1 .. k : DOMAIN fs[j].bkp \subseteq Vars
    BY <1>1, BackedUp
  <2> SUFFICES ASSUME NEW j \in 1 .. k, NEW u \in DOMAIN fs[j].bkp
               PROVE  /\ n.var[u].how = "malloc"
                      /\ \A i \in 1 .. j - 1 :
                           u \in DOMAIN fs[i].bkp => fs[j].bkp[u].how = "malloc"
    BY DEF Layered
  <2>2. /\ m.var[u].how = "malloc"
        /\ \A i \in 1 .. j - 1 : u \in DOMAIN fs[i].bkp => fs[j].bkp[u].how = "malloc"
    BY <1>1 DEF Layered
  <2>3. u \in Vars
    BY <2>1
  <2>4. n.var[u].how = "malloc"
    BY <1>2, <2>2, <2>3, Zenon
  <2> QED BY <2>2, <2>4
<1>4. Used(m, fs, k) \subseteq Used(n, fs, k)
  <2> SUFFICES ASSUME NEW u \in Used(m, fs, k) PROVE u \in Used(n, fs, k)
    OBVIOUS
  <2>1. u \in Vars /\ m.var[u].how # "none"
    BY DEF Used
  <2>2. n.var[u].how # "none"
    BY <1>2, <2>1, Zenon
  <2> QED BY <2>1, <2>2 DEF Used
<1> DEFINE M == Used(m, fs, k)
           N == Used(n, fs, k)
<1>5. /\ IsFiniteSet(M) /\ IsFiniteSet(N)
      /\ Cardinality(M) \in Nat /\ Cardinality(N) \in Nat
  BY UsedCounted
<1>6. /\ m.simple \in Nat /\ m.simple <= Cardinality(M)
  BY <1>1, Fields DEF Base
<1>7. CASE n.simple = m.simple
  <2>1. Cardinality(M) <= Cardinality(N)
    BY <1>4, <1>5, FS_Subset
  <2>2. n.simple <= Cardinality(N)
    BY <1>5, <1>6, <1>7, <2>1
  <2> QED BY <1>1, <1>3, <2>2 DEF Base
<1>8. CASE n.simple = m.simple + 1 /\ m.var[v].how = "none" /\ n.var[v].how # "none"
  <2>1. v \notin M
    BY <1>8 DEF Used
  <2>2. v \in N
    <3>1. \A j \in 1 .. k : v \notin DOMAIN fs[j].bkp
      BY <1>1, <1>8 DEF Layered
    <3> QED BY <1>8, <3>1 DEF Used
  <2>3. M \cup {v} \subseteq N
    BY <1>4, <2>2
  <2>4. Cardinality(M \cup {v}) = Cardinality(M) + 1
    BY <1>5, <2>1, FS_AddElement
  <2>5. Cardinality(M \cup {v}) <= Cardinality(N)
    BY <1>5, <2>3, FS_Subset
  <2> HIDE DEF M, N
  <2>6. n.simple <= Cardinality(N)
    BY <1>5, <1>6, <1>8, <2>4, <2>5
  <2> QED BY <1>1, <1>3, <2>6 DEF Base, N
<1>9. \/ n.simple = m.simple
      \/ n.simple = m.simple + 1 /\ m.var[v].how = "none" /\ n.var[v].how # "none"
  BY DEF Writes
<1> QED BY <1>7, <1>8, <1>9

\* Everything but variables, and aliases, do not matter to the memory's kind.
SameKinds(m, n) ==
  /\ n \in Memory /\ n.simple = m.simple
  /\ \A v \in Vars : n.var[v].how = m.var[v].how

LEMMA KindsKeepBase ==
  ASSUME NEW m, NEW n, NEW fs, NEW k \in Nat, Base(m, fs, k), SameKinds(m, n)
  PROVE  Base(n, fs, k)
<1>1. \A j \in 1 .. k : DOMAIN fs[j].bkp \subseteq Vars
  BY BackedUp DEF Base
<1>2. Layered(n, fs, k)
  BY <1>1 DEF Base, Layered, SameKinds
<1>3. Used(n, fs, k) = Used(m, fs, k)
  BY DEF Used, SameKinds
<1> QED BY <1>2, <1>3 DEF Base, SameKinds

\* The new activation, the k-th, finds the memory m and leaves n.
Pushed(m, n, fs, k) ==
  /\ n \in Memory /\ n.simple = m.simple
  /\ \A v \in Vars :
       IF v \in DOMAIN fs[k].bkp
       THEN /\ fs[k].bkp[v] = m.var[v] /\ n.var[v].alias = m.var[v].alias
            /\ n.var[v].how = "malloc" /\ ~Owned(n.var[v])
       ELSE n.var[v] = m.var[v]

LEMMA PushKeepsBase ==
  ASSUME NEW m, NEW n, NEW fs, NEW k \in Nat \ {0}, Base(m, fs, k - 1),
         BackupsRight(fs, k), Pushed(m, n, fs, k)
  PROVE  Base(n, fs, k)
<1>1. \A j \in 1 .. k : DOMAIN fs[j].bkp \subseteq Vars
  BY BackedUp
<1>2. Layered(n, fs, k)
  <2> SUFFICES ASSUME NEW j \in 1 .. k, NEW v \in DOMAIN fs[j].bkp
               PROVE  /\ n.var[v].how = "malloc"
                      /\ \A i \in 1 .. j - 1 :
                           v \in DOMAIN fs[i].bkp => fs[j].bkp[v].how = "malloc"
    BY DEF Layered
  <2>1. v \in Vars
    BY <1>1
  <2>2. CASE j = k
    <3>1. \A i \in 1 .. j - 1 : v \in DOMAIN fs[i].bkp => m.var[v].how = "malloc"
      BY <2>2 DEF Base, Layered
    <3> QED BY <2>1, <2>2, <3>1 DEF Pushed
  <2>3. CASE j \in 1 .. k - 1
    <3>1. /\ m.var[v].how = "malloc"
          /\ \A i \in 1 .. j - 1 :
               v \in DOMAIN fs[i].bkp => fs[j].bkp[v].how = "malloc"
      BY <2>3 DEF Base, Layered
    <3> QED BY <2>1, <3>1 DEF Pushed
  <2> QED BY <2>2, <2>3
<1>3. Used(n, fs, k) = Used(m, fs, k - 1)
  <2> SUFFICES ASSUME NEW v \in Vars
               PROVE v \in Used(n, fs, k) <=> v \in Used(m, fs, k - 1)
    BY DEF Used
  <2>1. CASE v \in DOMAIN fs[k].bkp
    BY <2>1 DEF Used, Pushed
  <2>2. CASE v \notin DOMAIN fs[k].bkp
    BY <2>2 DEF Used, Pushed
  <2> QED BY <2>1, <2>2
<1> QED BY <1>2, <1>3 DEF Base, Pushed

\* The k-th activation's variables are freed and those it found restored.
Popped(m, n, fs, k) ==
  /\ n \in Memory /\ n.simple = m.simple
  /\ \A v \in Vars :
       IF v \in DOMAIN fs[k].bkp THEN n.var[v] = fs[k].bkp[v]
       ELSE n.var[v].alias = m.var[v].alias /\ n.var[v].how = m.var[v].how

LEMMA PopKeepsBase ==
  ASSUME NEW m, NEW n, NEW fs, NEW k \in Nat \ {0}, Base(m, fs, k), Popped(m, n, fs, k)
  PROVE  Base(n, fs, k - 1)
<1>1. \A j \in 1 .. k : DOMAIN fs[j].bkp \subseteq Vars
  BY BackedUp DEF Base
<1>2. BackupsRight(fs, k - 1)
  BY DEF Base, BackupsRight
<1>3. Layered(n, fs, k - 1)
  <2> SUFFICES ASSUME NEW j \in 1 .. k - 1, NEW v \in DOMAIN fs[j].bkp
               PROVE  /\ n.var[v].how = "malloc"
                      /\ \A i \in 1 .. j - 1 :
                           v \in DOMAIN fs[i].bkp => fs[j].bkp[v].how = "malloc"
    BY DEF Layered
  <2>1. v \in Vars
    BY <1>1
  <2>2. /\ m.var[v].how = "malloc"
        /\ \A i \in 1 .. j - 1 : v \in DOMAIN fs[i].bkp => fs[j].bkp[v].how = "malloc"
    BY DEF Base, Layered
  <2>3. v \in DOMAIN fs[k].bkp => fs[k].bkp[v].how = "malloc"
    BY DEF Base, Layered
  <2> QED BY <2>1, <2>2, <2>3 DEF Popped
<1>4. Used(n, fs, k - 1) = Used(m, fs, k)
  <2> SUFFICES ASSUME NEW v \in Vars
               PROVE v \in Used(n, fs, k - 1) <=> v \in Used(m, fs, k)
    BY DEF Used
  <2>1. CASE v \in DOMAIN fs[k].bkp
    <3>1. m.var[v].how = "malloc"
      BY <2>1 DEF Base, Layered
    <3> QED BY <2>1, <3>1 DEF Used, Popped
  <2>2. CASE v \notin DOMAIN fs[k].bkp
    BY <2>2 DEF Used, Popped
  <2> QED BY <2>1, <2>2
<1> QED BY <1>2, <1>3, <1>4 DEF Base, Popped

-------------------------------------------------------------------------------
(* What calls and lines do to the memory. *)

\* The blocks that an activation's backup stands for: those in it, and its own.
Kept(fr) == {v \in DOMAIN fr.bkp : Owned(fr.bkp[v])}
Weight(fr) == IF fr.bkp = None THEN 0 ELSE 1 + Cardinality(Kept(fr))

MadeOf(n, m, F, a) ==
  n.var = F /\ n.allocs = a /\ n.buf = m.buf /\ n.simple = m.simple

LEMMA MemoryIs ==
  ASSUME NEW m \in Memory, NEW F \in [Vars -> SoundVar], NEW a \in Int, NEW n,
         n = [m EXCEPT !.var = F, !.allocs = a]
  PROVE  n \in Memory /\ MadeOf(n, m, F, a)
BY DEF Memory, MadeOf

LEMMA BackupIs ==
  ASSUME NEW m \in Memory, NEW f \in Funcs, NEW fs, NEW k,
         fs[k].bkp = [v \in Own(f) |-> m.var[v]]
  PROVE  /\ Pushed(m, BackupFunctionVars(m, f), fs, k)
         /\ BackupFunctionVars(m, f).buf = m.buf
         /\ Surplus(BackupFunctionVars(m, f)) = Surplus(m) + Weight(fs[k])
<1> DEFINE n == BackupFunctionVars(m, f)
           none == "malloc"
           zero == 0
           blank == ""
           New(r) == [r EXCEPT !.how = none, !.cap = zero, !.val = blank]
           F == [v \in Vars |-> IF v \in Own(f) THEN New(m.var[v]) ELSE m.var[v]]
           a == m.allocs + (IF Own(f) = {} THEN 0 ELSE 1)
<1>1. Own(f) \subseteq Vars
  BY VarsKnown
<1>2. /\ none \in {"none", "simple", "malloc"} /\ zero \in 0 .. 2 /\ blank \in Text
      /\ (none = "none" => zero = 0) /\ (none = "simple" => zero = 1)
  BY DEF Text
<1>3. n = [m EXCEPT !.var = F, !.allocs = a]
  BY DEF BackupFunctionVars
<1>4. zero = 0 /\ none = "malloc"
  OBVIOUS
<1> HIDE DEF none, zero, blank, n
<1>5. ASSUME NEW r \in SoundVar
      PROVE  New(r) \in SoundVar /\ HasMemory(New(r), r, none, zero)
  <2> DEFINE s == New(r)
  <2>1. s = [r EXCEPT !.how = none, !.cap = zero, !.val = blank]
    OBVIOUS
  <2> HIDE DEF s
  <2>2. s \in SoundVar /\ HasMemory(s, r, none, zero)
    BY <1>2, <2>1, Remade
  <2> QED BY <2>2 DEF s
<1>6. \A v \in Vars : m.var[v] \in SoundVar
  BY Fields
<1> HIDE DEF New
<1>7. F \in [Vars -> SoundVar]
  BY <1>5, <1>6
<1>8. a \in Int
  BY Fields
<1>9. /\ n \in Memory /\ n.var = F /\ n.allocs = a /\ n.buf = m.buf /\ n.simple = m.simple
  <2> HIDE DEF F, a
  <2>1. n \in Memory /\ MadeOf(n, m, F, a)
    BY <1>3, <1>7, <1>8, MemoryIs
  <2> QED BY <2>1 DEF MadeOf
<1>10. DOMAIN fs[k].bkp = Own(f) /\ \A v \in Own(f) : fs[k].bkp[v] = m.var[v]
  OBVIOUS
<1>11. \A v \in Own(f) : /\ n.var[v].alias = m.var[v].alias
                         /\ n.var[v].how = "malloc" /\ ~Owned(n.var[v])
  <2> SUFFICES ASSUME NEW v \in Own(f)
               PROVE /\ n.var[v].alias = m.var[v].alias
                     /\ n.var[v].how = "malloc" /\ ~Owned(n.var[v])
    OBVIOUS
  <2>1. n.var[v] = New(m.var[v])
    BY <1>1, <1>9
  <2>2. HasMemory(New(m.var[v]), m.var[v], none, zero)
    BY <1>1, <1>5, <1>6
  <2> QED BY <1>4, <2>1, <2>2 DEF HasMemory, Owned
<1>12. \A v \in Vars \ Own(f) : n.var[v] = m.var[v]
  BY <1>9
<1>13. Pushed(m, n, fs, k)
  BY <1>9, <1>10, <1>11, <1>12 DEF Pushed
<1>14. Owning(n) = Owning(m) \ Own(f)
  BY <1>1, <1>11, <1>12 DEF Owning
<1>15. Kept(fs[k]) = Owning(m) \cap Own(f)
  BY <1>1, <1>10 DEF Kept, Owning
<1>16. fs[k].bkp = None <=> Own(f) = {}
  <2>1. DOMAIN None = {}
    BY DEF None
  <2>2. CASE Own(f) = {}
    <3>1. [v \in {} |-> m.var[v]] = None
      BY DEF None
    <3> QED BY <2>2, <3>1
  <2>3. CASE Own(f) # {}
    BY <1>10, <2>1, <2>3
  <2> QED BY <2>2, <2>3
<1>17. Surplus(n) = Surplus(m) + Weight(fs[k])
  <2> DEFINE x == Cardinality(Owning(m) \ Own(f))
             y == Cardinality(Owning(m) \cap Own(f))
             b == Has(m.buf)
             A == m.allocs
  <2>1. x \in Nat /\ y \in Nat /\ Cardinality(Owning(m)) = y + x
    BY OwningCounted
  <2>2. A \in Int /\ b \in Int
    BY Fields DEF Has
  <2>3. Surplus(n) = (a - x) - b
    BY <1>9, <1>14 DEF Surplus
  <2>4. Surplus(m) = (A - (y + x)) - b
    BY <2>1 DEF Surplus
  <2>5. CASE Own(f) = {}
    <3>1. y = 0
      BY <2>5, FS_EmptySet
    <3>2. a = A /\ Weight(fs[k]) = 0
      BY <1>16, <2>2, <2>5 DEF Weight
    <3> HIDE DEF x, y, A, a, b
    <3> QED BY <2>1, <2>2, <2>3, <2>4, <3>1, <3>2
  <2>6. CASE Own(f) # {}
    <3>1. a = A + 1
      BY <2>6
    <3>2. Weight(fs[k]) = 1 + y
      BY <1>15, <1>16, <2>6 DEF Weight
    <3> HIDE DEF x, y, A, a, b
    <3> QED BY <2>1, <2>2, <2>3, <2>4, <3>1, <3>2
  <2> QED BY <2>5, <2>6
<1> QED BY <1>9, <1>13, <1>17 DEF n

\* A variable with another text, and one without memory.
LEMMA Retexted ==
  ASSUME NEW r \in SoundVar, NEW x \in Text, NEW s, s = [r EXCEPT !.val = x]
  PROVE  s \in SoundVar /\ HasMemory(s, r, r.how, r.cap)
<1>1. /\ r \in Var /\ r.how \in {"none", "simple", "malloc"} /\ r.cap \in 0 .. 2
      /\ (r.how = "none" => r.cap = 0) /\ (r.how = "simple" => r.cap = 1)
  BY DEF SoundVar, Var
<1>2. s \in Var /\ s.alias = r.alias /\ s.how = r.how /\ s.cap = r.cap
  BY <1>1 DEF Var, Text
<1>3. s \in SoundVar
  BY <1>1, <1>2 DEF SoundVar
<1> QED BY <1>2, <1>3 DEF HasMemory

LEMMA Emptied ==
  ASSUME NEW r \in SoundVar, r.how = "malloc", NEW x \in Text, NEW c \in 0 .. 2,
         NEW s, s = [r EXCEPT !.val = x, !.cap = c]
  PROVE  s \in SoundVar /\ HasMemory(s, r, r.how, c)
<1>1. r \in Var
  BY DEF SoundVar
<1> DEFINE t == [r EXCEPT !.val = x]
<1>2. t \in Var /\ t.alias = r.alias /\ t.how = r.how
  BY <1>1 DEF Var, Text
<1>3. s = [t EXCEPT !.cap = c]
  BY DEF t
<1> HIDE DEF t
<1>4. s \in Var /\ s.alias = t.alias /\ s.how = t.how /\ s.cap = c
  BY <1>2, <1>3 DEF Var
<1>5. s \in SoundVar
  BY <1>2, <1>4 DEF SoundVar
<1> QED BY <1>2, <1>4, <1>5 DEF HasMemory

\* What remains of the variables vs, of which those in gone held blocks.
Emptying(m, n, vs, gone) ==
  /\ n \in Memory /\ n.buf = m.buf /\ n.simple = m.simple
  /\ \A v \in Vars : /\ n.var[v].alias = m.var[v].alias /\ n.var[v].how = m.var[v].how
                     /\ Owned(n.var[v]) <=> Owned(m.var[v]) /\ v \notin gone
                     /\ v \notin vs => n.var[v] = m.var[v]

LEMMA Blanks ==
  ASSUME NEW m \in Memory, NEW vs \in SUBSET Vars, NEW gone \in SUBSET vs,
         \A v \in gone : Owned(m.var[v])
  PROVE  /\ Emptying(m, Blanked(m, vs, gone), vs, gone)
         /\ Surplus(Blanked(m, vs, gone)) = Surplus(m)
<1> DEFINE n == Blanked(m, vs, gone)
           blank == ""
           zero == 0
           One(r) == [r EXCEPT !.val = blank, !.cap = zero]
           Two(r) == [r EXCEPT !.val = blank]
           F == [v \in Vars |-> IF v \in gone THEN One(m.var[v])
                                ELSE IF v \in vs THEN Two(m.var[v]) ELSE m.var[v]]
           a == m.allocs - Cardinality(gone)
<1>1. blank \in Text /\ zero \in 0 .. 2 /\ zero = 0
  BY DEF Text
<1>2. n = [m EXCEPT !.var = F, !.allocs = a]
  BY DEF Blanked
<1>3. \A v \in Vars : m.var[v] \in SoundVar
  BY Fields
<1> HIDE DEF blank, zero, n
<1>4. ASSUME NEW v \in gone
      PROVE  One(m.var[v]) \in SoundVar /\ HasMemory(One(m.var[v]), m.var[v], m.var[v].how, zero)
  <2> DEFINE r == m.var[v]
             s == One(r)
  <2>1. r \in SoundVar /\ r.how = "malloc"
    BY <1>3 DEF Owned
  <2>2. s = [r EXCEPT !.val = blank, !.cap = zero]
    OBVIOUS
  <2> HIDE DEF r, s
  <2>3. s \in SoundVar /\ HasMemory(s, r, r.how, zero)
    BY <1>1, <2>1, <2>2, Emptied
  <2> QED BY <2>3 DEF r, s
<1>5. ASSUME NEW v \in Vars
      PROVE  Two(m.var[v]) \in SoundVar
             /\ HasMemory(Two(m.var[v]), m.var[v], m.var[v].how, m.var[v].cap)
  <2> DEFINE r == m.var[v]
             s == Two(r)
  <2>1. r \in SoundVar
    BY <1>3
  <2>2. s = [r EXCEPT !.val = blank]
    OBVIOUS
  <2> HIDE DEF r, s
  <2>3. s \in SoundVar /\ HasMemory(s, r, r.how, r.cap)
    BY <1>1, <2>1, <2>2, Retexted
  <2> QED BY <2>3 DEF r, s
<1> HIDE DEF One, Two
<1>6. F \in [Vars -> SoundVar]
  BY <1>3, <1>4, <1>5
<1>7. IsFiniteSet(gone) /\ Cardinality(gone) \in Nat
  <2>1. gone \subseteq Vars
    OBVIOUS
  <2> QED BY <2>1, VarsKnown, FS_Subset, FS_CardinalityType
<1>8. a \in Int
  BY <1>7, Fields
<1>9. /\ n \in Memory /\ n.var = F /\ n.allocs = a /\ n.buf = m.buf /\ n.simple = m.simple
  <2> HIDE DEF F, a
  <2>1. n \in Memory /\ MadeOf(n, m, F, a)
    BY <1>2, <1>6, <1>8, MemoryIs
  <2> QED BY <2>1 DEF MadeOf
<1>10. ASSUME NEW v \in Vars
       PROVE  /\ n.var[v].alias = m.var[v].alias /\ n.var[v].how = m.var[v].how
              /\ Owned(n.var[v]) <=> Owned(m.var[v]) /\ v \notin gone
              /\ v \notin vs => n.var[v] = m.var[v]
  <2>1. CASE v \in gone
    <3>1. n.var[v] = One(m.var[v])
      BY <1>9, <2>1
    <3>2. HasMemory(One(m.var[v]), m.var[v], m.var[v].how, zero)
      BY <1>4, <2>1
    <3>3. /\ n.var[v].alias = m.var[v].alias /\ n.var[v].how = m.var[v].how
          /\ n.var[v].cap = 0
      BY <1>1, <3>1, <3>2 DEF HasMemory
    <3>4. ~Owned(n.var[v])
      BY <3>3 DEF Owned
    <3> QED BY <2>1, <3>3, <3>4
  <2>2. CASE v \in vs \ gone
    <3>1. n.var[v] = Two(m.var[v])
      BY <1>9, <2>2
    <3>2. HasMemory(Two(m.var[v]), m.var[v], m.var[v].how, m.var[v].cap)
      BY <1>5
    <3>3. /\ n.var[v].alias = m.var[v].alias /\ n.var[v].how = m.var[v].how
          /\ n.var[v].cap = m.var[v].cap
      BY <3>1, <3>2 DEF HasMemory
    <3>4. Owned(n.var[v]) <=> Owned(m.var[v])
      BY <3>3 DEF Owned
    <3> QED BY <2>2, <3>3, <3>4
  <2>3. CASE v \notin vs
    <3>1. n.var[v] = m.var[v]
      BY <1>9, <2>3
    <3> QED BY <2>3, <3>1
  <2> QED BY <2>1, <2>2, <2>3
<1>11. Emptying(m, n, vs, gone)
  BY <1>9, <1>10 DEF Emptying
<1>12. Owning(n) = Owning(m) \ gone /\ Owning(m) \cap gone = gone
  BY <1>10 DEF Owning
<1>13. Surplus(n) = Surplus(m)
  <2> DEFINE x == Cardinality(Owning(m) \ gone)
             y == Cardinality(gone)
             b == Has(m.buf)
             A == m.allocs
  <2>1. x \in Nat /\ y \in Nat /\ Cardinality(Owning(m)) = y + x
    BY <1>12, OwningCounted
  <2>2. A \in Int /\ b \in Int
    BY Fields DEF Has
  <2>3. Surplus(n) = ((A - y) - x) - b
    BY <1>9, <1>12 DEF Surplus
  <2>4. Surplus(m) = (A - (y + x)) - b
    BY <2>1 DEF Surplus
  <2> HIDE DEF x, y, A, b
  <2> QED BY <2>1, <2>2, <2>3, <2>4
<1> QED BY <1>11, <1>13 DEF n

\* No variable of f that stands for another holds a block.
RefsOwnNothing(m, f) == \A v \in Own(f) : m.var[v].alias # NoVar => ~Owned(m.var[v])

LEMMA RestoreIs ==
  ASSUME NEW m \in Memory, NEW f \in Funcs, NEW fs, NEW k,
         fs[k].bkp = None \/ fs[k].bkp \in [Own(f) -> SoundVar]
  PROVE  LET n == FreeAndRestore(m, f, fs[k].bkp)
         IN /\ Popped(m, n, fs, k) /\ n.buf = m.buf
            /\ \A v \in Vars \ Own(f) : n.var[v] = m.var[v]
            /\ RefsOwnNothing(m, f) =>
                 /\ Surplus(n) = Surplus(m) - Weight(fs[k])
                 /\ fs[k].bkp = None => \A v \in Own(f) : ~Owned(n.var[v])
<1> DEFINE bkp == fs[k].bkp
           n == FreeAndRestore(m, f, bkp)
           mine == {v \in Own(f) : m.var[v].alias = NoVar}
           gone == {v \in mine : Owned(m.var[v])}
           m1 == Blanked(m, mine, gone)
           F == [v \in Vars |-> IF v \in DOMAIN bkp THEN bkp[v] ELSE m1.var[v]]
           a == m1.allocs - 1
<1>1. Own(f) \subseteq Vars
  BY VarsKnown
<1>2. mine \in SUBSET Vars /\ gone \in SUBSET mine /\ \A v \in gone : Owned(m.var[v])
  BY <1>1
<1>3. n = IF bkp = None THEN m1 ELSE [m1 EXCEPT !.var = F, !.allocs = a]
  BY DEF FreeAndRestore
<1>4. DOMAIN None = {}
  BY DEF None
<1>5. RefsOwnNothing(m, f) => Owning(m1) \cap Own(f) = {}
  <2> SUFFICES ASSUME RefsOwnNothing(m, f), NEW v \in Own(f) PROVE ~Owned(m1.var[v])
    BY DEF Owning
  <2>1. Owned(m.var[v]) => v \in gone
    BY DEF RefsOwnNothing
  <2> HIDE DEF mine, gone, m1
  <2>2. Emptying(m, m1, mine, gone)
    BY <1>2, Blanks DEF m1
  <2> QED BY <1>1, <2>1, <2>2 DEF Emptying
<1>6. Emptying(m, m1, mine, gone) /\ Surplus(m1) = Surplus(m)
  <2> HIDE DEF mine, gone
  <2> QED BY <1>2, Blanks
<1>7. mine \subseteq Own(f)
  OBVIOUS
<1> HIDE DEF mine, gone, m1, n
<1>8. /\ m1 \in Memory /\ m1.buf = m.buf /\ m1.simple = m.simple
      /\ \A v \in Vars : m1.var[v].alias = m.var[v].alias /\ m1.var[v].how = m.var[v].how
      /\ \A v \in Vars \ Own(f) : m1.var[v] = m.var[v]
  BY <1>6, <1>7 DEF Emptying
<1>9. CASE bkp = None
  <2>1. n = m1 /\ DOMAIN bkp = {}
    BY <1>3, <1>4, <1>9
  <2>2. Popped(m, n, fs, k)
    BY <1>8, <2>1 DEF Popped
  <2>3. n.buf = m.buf /\ \A v \in Vars \ Own(f) : n.var[v] = m.var[v]
    BY <1>8, <2>1
  <2>4. RefsOwnNothing(m, f) => \A v \in Own(f) : ~Owned(n.var[v])
    BY <1>1, <1>5, <2>1 DEF Owning
  <2>5. Weight(fs[k]) = 0
    BY <1>9 DEF Weight
  <2>6. Surplus(n) = Surplus(m) - Weight(fs[k])
    <3>1. Surplus(m) \in Int
      BY SurplusTyped
    <3> QED BY <1>6, <2>1, <2>5, <3>1
  <2> QED BY <2>2, <2>3, <2>4, <2>6 DEF n
<1>10. CASE bkp # None
  <2>1. n = [m1 EXCEPT !.var = F, !.allocs = a]
    BY <1>3, <1>10
  <2>2. DOMAIN bkp = Own(f) /\ \A v \in Own(f) : bkp[v] \in SoundVar
    BY <1>10
  <2>3. F \in [Vars -> SoundVar]
    <3>1. \A v \in Vars : m1.var[v] \in SoundVar
      BY <1>8, Fields
    <3> QED BY <2>2, <3>1
  <2>4. a \in Int
    BY <1>8, Fields
  <2>5. /\ n \in Memory /\ n.var = F /\ n.allocs = a /\ n.buf = m1.buf /\ n.simple = m1.simple
    <3> HIDE DEF F, a
    <3>1. n \in Memory /\ MadeOf(n, m1, F, a)
      BY <1>8, <2>1, <2>3, <2>4, MemoryIs
    <3> QED BY <3>1 DEF MadeOf
  <2>6. /\ \A v \in Own(f) : n.var[v] = bkp[v]
        /\ \A v \in Vars \ Own(f) : n.var[v] = m1.var[v]
    BY <1>1, <2>2, <2>5
  <2>7. Popped(m, n, fs, k)
    BY <1>8, <2>2, <2>5, <2>6 DEF Popped
  <2>8. n.buf = m.buf /\ \A v \in Vars \ Own(f) : n.var[v] = m.var[v]
    BY <1>8, <2>5, <2>6
  <2>9. ASSUME RefsOwnNothing(m, f) PROVE Surplus(n) = Surplus(m) - Weight(fs[k])
    <3>1. Owning(n) \cap Own(f) = Kept(fs[k])
      BY <1>1, <2>2, <2>6 DEF Owning, Kept
    <3>2. Owning(n) \ Own(f) = Owning(m1)
      BY <1>1, <1>5, <2>6, <2>9 DEF Owning
    <3> DEFINE x == Cardinality(Owning(m1))
               y == Cardinality(Kept(fs[k]))
               b == Has(m1.buf)
               A == m1.allocs
    <3>3. x \in Nat /\ y \in Nat /\ Cardinality(Owning(n)) = y + x
      BY <3>1, <3>2, OwningCounted
    <3>4. A \in Int /\ b \in Int
      BY <1>8, Fields DEF Has
    <3>5. Surplus(n) = ((A - 1) - (y + x)) - b
      BY <2>5, <3>3 DEF Surplus
    <3>6. Surplus(m1) = (A - x) - b
      BY DEF Surplus
    <3>7. Weight(fs[k]) = 1 + y
      BY <1>10 DEF Weight
    <3> HIDE DEF x, y, A, b
    <3> QED BY <1>6, <3>3, <3>4, <3>5, <3>6, <3>7
  <2> QED BY <1>10, <2>7, <2>8, <2>9 DEF n
<1> QED BY <1>9, <1>10

-------------------------------------------------------------------------------
(* sDerefBuf, and aliases. *)

\* Only the buffer changes: x blocks more than before have another owner.
BufferMoves(m, n, x) ==
  n \in Memory /\ n.var = m.var /\ n.simple = m.simple /\ Surplus(n) = Surplus(m) + x

BufferIs(n, m, b, a) ==
  /\ n \in Memory /\ n.var = m.var /\ n.simple = m.simple /\ n.buf = b /\ n.allocs = a
Differ(m, b, a, x) == a - Has(b) = (m.allocs - Has(m.buf)) + x

LEMMA BufferTyped ==
  ASSUME NEW m \in Memory, NEW b \in BOOLEAN, NEW a \in Int, NEW n,
         n = [m EXCEPT !.buf = b, !.allocs = a]
  PROVE  BufferIs(n, m, b, a)
BY DEF Memory, BufferIs

LEMMA Buffers ==
  ASSUME NEW m \in Memory, NEW b \in BOOLEAN, NEW a \in Int, NEW x \in Int,
         NEW n, BufferIs(n, m, b, a), Differ(m, b, a, x)
  PROVE  BufferMoves(m, n, x)
<1>1. n \in Memory /\ n.var = m.var /\ n.simple = m.simple /\ n.buf = b /\ n.allocs = a
  BY DEF BufferIs
<1>2. Owning(n) = Owning(m)
  BY <1>1 DEF Owning
<1>3. Surplus(n) = Surplus(m) + x
  <2> DEFINE c == Cardinality(Owning(m))
             h == Has(m.buf)
             g == Has(b)
             A == m.allocs
  <2>1. c \in Nat /\ h \in Int /\ g \in Int /\ A \in Int
    <3>1. c \in Nat
      BY OwningCounted
    <3>2. A \in Int
      BY Fields
    <3>3. h \in Int /\ g \in Int
      BY Zenon, HasTyped
    <3> QED BY <3>1, <3>2, <3>3
  <2>2. Surplus(n) = (a - c) - g /\ Surplus(m) = (A - c) - h
    BY <1>1, <1>2 DEF Surplus
  <2>3. a - g = (A - h) + x
    BY DEF Differ
  <2> HIDE DEF c, h, g, A
  <2> QED BY <2>1, <2>2, <2>3
<1> QED BY <1>1, <1>3 DEF BufferMoves

LEMMA WithBufIs ==
  ASSUME NEW m \in Memory
  PROVE  BufferMoves(m, WithBuf(m), 0) /\ WithBuf(m).buf = TRUE
<1> DEFINE b == TRUE
           a == m.allocs + (IF m.buf THEN 0 ELSE 1)
           n == WithBuf(m)
           z == 0
<1>1. m.buf \in BOOLEAN /\ m.allocs \in Int
  BY Fields
<1>2. n = [m EXCEPT !.buf = b, !.allocs = a] /\ b \in BOOLEAN /\ a \in Int /\ z \in Int
  BY <1>1 DEF WithBuf
<1>3. Differ(m, b, a, z)
  BY <1>1 DEF Has, Differ
<1>4. b = TRUE /\ z = 0
  OBVIOUS
<1> HIDE DEF a, b, n, z
<1>5. BufferIs(n, m, b, a)
  BY <1>2, BufferTyped
<1>6. BufferMoves(m, n, z)
  BY <1>2, <1>3, <1>5, Buffers
<1> QED BY <1>4, <1>5, <1>6 DEF n, BufferIs

LEMMA TakeBufIs ==
  ASSUME NEW m \in Memory
  PROVE  BufferMoves(m, TakeBuf(m), 1)
<1> DEFINE w == WithBuf(m)
           b == FALSE
           a == w.allocs
           n == TakeBuf(m)
           z == 1
<1>1. BufferMoves(m, w, 0) /\ w.buf = TRUE
  BY WithBufIs
<1>2. w \in Memory
  BY <1>1 DEF BufferMoves
<1>3. a \in Int /\ w.buf \in BOOLEAN
  BY <1>2, Fields
<1>4. b \in BOOLEAN /\ z \in Int /\ z = 1
  OBVIOUS
<1>5. n = [w EXCEPT !.buf = b, !.allocs = a]
  <2>1. n = [w EXCEPT !.buf = FALSE]
    BY DEF TakeBuf
  <2>2. b = FALSE
    OBVIOUS
  <2> HIDE DEF w, n, b
  <2> QED BY <1>2, <2>1, <2>2 DEF Memory
<1>6. Differ(w, b, a, z)
  <2> DEFINE A == w.allocs
  <2>1. Has(w.buf) = 1 /\ Has(b) = 0
    BY <1>1 DEF Has
  <2>2. A \in Int
    BY <1>3
  <2> HIDE DEF A
  <2>3. A - 0 = (A - 1) + 1
    BY <2>2
  <2> QED BY <2>1, <2>3, Zenon DEF Differ, A
<1> HIDE DEF w, a, b, n, z
<1>7. BufferIs(n, w, b, a)
  BY <1>2, <1>3, <1>4, <1>5, BufferTyped
<1>8. BufferMoves(w, n, z)
  BY <1>2, <1>3, <1>4, <1>6, <1>7, Buffers
<1>9. Surplus(m) \in Int
  BY SurplusTyped
<1> QED BY <1>1, <1>4, <1>8, <1>9 DEF BufferMoves, n

LEMMA PutBackIs ==
  ASSUME NEW m \in Memory
  PROVE  BufferMoves(m, PutBack(m), -1)
<1> DEFINE b == TRUE
           a == m.allocs - (IF m.buf THEN 1 ELSE 0)
           n == PutBack(m)
           z == -1
<1>1. m.buf \in BOOLEAN /\ m.allocs \in Int
  BY Fields
<1>2. n = [m EXCEPT !.buf = b, !.allocs = a] /\ b \in BOOLEAN /\ a \in Int /\ z \in Int
  BY <1>1 DEF PutBack
<1>3. Differ(m, b, a, z)
  BY <1>1 DEF Has, Differ
<1>4. z = -1
  OBVIOUS
<1> HIDE DEF a, b, n, z
<1>5. BufferIs(n, m, b, a)
  BY <1>2, BufferTyped
<1>6. BufferMoves(m, n, z)
  BY <1>2, <1>3, <1>5, Buffers
<1> QED BY <1>4, <1>6 DEF n

LEMMA MovesKeepKinds ==
  ASSUME NEW m, NEW n, NEW x, BufferMoves(m, n, x)
  PROVE  SameKinds(m, n)
BY DEF BufferMoves, SameKinds

\* The alias of p becomes w.
Aliases(m, n, p, w) ==
  /\ n \in Memory /\ n.buf = m.buf /\ n.simple = m.simple
  /\ n.var[p].alias = w
  /\ \A v \in Vars : /\ v # p => n.var[v] = m.var[v]
                     /\ n.var[v].how = m.var[v].how
                     /\ Owned(n.var[v]) <=> Owned(m.var[v])
  /\ Surplus(n) = Surplus(m)

LEMMA AliasIs ==
  ASSUME NEW m \in Memory, NEW p \in Vars, NEW w \in Vars \cup {NoVar}
  PROVE  Aliases(m, [m EXCEPT !.var[p].alias = w], p, w)
<1> DEFINE n == [m EXCEPT !.var[p].alias = w]
           r == m.var[p]
           s == [r EXCEPT !.alias = w]
           F == [m.var EXCEPT ![p] = s]
           a == m.allocs
<1>1. r \in SoundVar /\ m.var \in [Vars -> SoundVar] /\ a \in Int
  BY Fields
<1>2. s \in SoundVar /\ s.alias = w /\ s.how = r.how /\ s.cap = r.cap
  <2> HIDE DEF r
  <2>1. s \in Var /\ s.alias = w /\ s.how = r.how /\ s.cap = r.cap
    BY <1>1 DEF SoundVar, Var
  <2> HIDE DEF s
  <2> QED BY <1>1, <2>1 DEF SoundVar
<1>3. n = [m EXCEPT !.var = F, !.allocs = a]
  BY <1>1 DEF Memory
<1> HIDE DEF n, r, s
<1>4. F \in [Vars -> SoundVar]
  BY <1>1, <1>2
<1>5. /\ n \in Memory /\ n.var = F /\ n.allocs = a /\ n.buf = m.buf /\ n.simple = m.simple
  <2> HIDE DEF F, a
  <2>1. n \in Memory /\ MadeOf(n, m, F, a)
    BY <1>1, <1>3, <1>4, MemoryIs
  <2> QED BY <2>1 DEF MadeOf
<1>6. n.var[p] = s /\ \A v \in Vars : v # p => n.var[v] = m.var[v]
  BY <1>1, <1>5
<1>7. Owned(s) <=> Owned(r)
  BY <1>2 DEF Owned
<1>8. \A v \in Vars : /\ n.var[v].how = m.var[v].how
                      /\ Owned(n.var[v]) <=> Owned(m.var[v])
  BY <1>2, <1>6, <1>7 DEF r
<1>9. Owning(n) = Owning(m)
  BY <1>8 DEF Owning
<1>10. Surplus(n) = Surplus(m)
  BY <1>5, <1>9 DEF Surplus
<1>11. n.var[p].alias = w
  BY <1>2, <1>6
<1>12. Aliases(m, n, p, w)
  BY <1>5, <1>6, <1>8, <1>10, <1>11 DEF Aliases
<1> QED BY <1>12 DEF n

LEMMA AliasesKeepKinds ==
  ASSUME NEW m, NEW n, NEW p, NEW w, Aliases(m, n, p, w)
  PROVE  SameKinds(m, n)
BY DEF Aliases, SameKinds

-------------------------------------------------------------------------------
(* The actual parameters. *)

Arg == Vars \cup Text

\* Those from the from-th on can be bound.
ArgsRight(f, arg, from) ==
  /\ arg \in Seq(Arg) /\ Len(arg) <= Len(Params[f])
  /\ \A j \in DOMAIN arg : j >= from /\ Params[f][j].byref => arg[j] \in Vars

LEMMA ReadsText ==
  ASSUME NEW m \in Memory, NEW a \in Arg
  PROVE  Reads(m, a) \in Text
<1>1. CASE IsVar(a)
  <2>1. a \in Vars
    BY <1>1 DEF IsVar, Arg, Text
  <2> QED BY <1>1, <2>1, Resolved DEF Reads
<1>2. CASE ~IsVar(a)
  BY <1>2 DEF Reads, IsVar, Text
<1> QED BY <1>1, <1>2

LEMMA BindOneIs ==
  ASSUME NEW m, NEW p, NEW j \in Nat, NEW arg, NEW len \in Nat, len = Len(arg), NEW n,
         n = BindOne(m, p, j, arg), p.byref \in BOOLEAN
  PROVE  /\ j > len => n = Assign(IF p.byref THEN ConvertToNonAlias(m, p.var) ELSE m,
                                  p.var, p.default)
         /\ j <= len /\ p.byref => n = UpdateAlias(m, p.var, arg[j])
         /\ j <= len /\ ~p.byref => n = Assign(m, p.var, Reads(m, arg[j]))
<1>1. (j > len => ~(j <= len)) /\ (j <= len => ~(j > len))
  OBVIOUS
<1>2. j > len /\ ~(j <= len) => n = Assign(IF p.byref THEN ConvertToNonAlias(m, p.var) ELSE m,
                                           p.var, p.default)
  BY Zenon DEF BindOne
<1>3. j <= len /\ p.byref /\ ~(j > len) => n = UpdateAlias(m, p.var, arg[j])
  BY Zenon DEF BindOne
<1>4. j <= len /\ ~p.byref /\ ~(j > len) => n = Assign(m, p.var, Reads(m, arg[j]))
  BY Zenon DEF BindOne
<1> QED BY <1>1, <1>2, <1>3, <1>4

\* The parameter v is given another alias, a value, or both.
Aliased(m, n, v) == \E w \in Vars \cup {NoVar} : Aliases(m, n, v, w)
ParameterBound(m, n, v) ==
  \/ n = m \/ Aliased(m, n, v)
  \/ \E u \in Memory : /\ u = m \/ Aliased(m, u, v)
                       /\ Writes(u, n, Resolve(u, v)) /\ n.buf = u.buf

LEMMA ConvertIs ==
  ASSUME NEW m \in Memory, NEW p \in Vars
  PROVE  Aliases(m, ConvertToNonAlias(m, p), p, NoVar)
<1> DEFINE w == NoVar
<1>1. w \in Vars \cup {NoVar}
  OBVIOUS
<1>2. ConvertToNonAlias(m, p) = [m EXCEPT !.var[p].alias = w]
  BY DEF ConvertToNonAlias
<1> HIDE DEF w
<1>3. Aliases(m, [m EXCEPT !.var[p].alias = w], p, w)
  BY <1>1, AliasIs
<1> QED BY <1>2, <1>3 DEF w

LEMMA UpdateIs ==
  ASSUME NEW m \in Memory, NEW p \in Vars, NEW v \in Vars
  PROVE  IF Resolve(m, v) = p THEN UpdateAlias(m, p, v) = m
         ELSE Aliases(m, UpdateAlias(m, p, v), p, Resolve(m, v))
<1>1. CASE Resolve(m, v) = p
  BY <1>1 DEF UpdateAlias
<1>2. CASE Resolve(m, v) # p
  <2> DEFINE w == Resolve(m, v)
  <2>1. w \in Vars \cup {NoVar}
    BY Resolved
  <2>2. UpdateAlias(m, p, v) = [m EXCEPT !.var[p].alias = w]
    BY <1>2 DEF UpdateAlias
  <2> HIDE DEF w
  <2>3. Aliases(m, [m EXCEPT !.var[p].alias = w], p, w)
    BY <2>1, AliasIs
  <2> QED BY <1>2, <2>2, <2>3 DEF w
<1> QED BY <1>1, <1>2

LEMMA BindsOne ==
  ASSUME NEW m \in Memory, NEW f \in Funcs, NEW arg, NEW from \in Nat,
         ArgsRight(f, arg, from), NEW j \in DOMAIN Params[f], j >= from
  PROVE  ParameterBound(m, BindOne(m, Params[f][j], j, arg), Params[f][j].var)
<1> DEFINE p == Params[f][j]
           n == BindOne(m, p, j, arg)
           v == p.var
           len == Len(arg)
<1>1. /\ v \in Own(f) /\ v \in Vars /\ p.byref \in BOOLEAN /\ p.default \in Text /\ j \in Nat
  BY ParamsKnown, VarsKnown
<1>2. /\ arg \in Seq(Arg) /\ len \in Nat /\ DOMAIN arg = 1 .. len /\ j >= 1
  BY ParamsKnown DEF ArgsRight
<1> HIDE DEF p, n, len, v
<1>3. /\ j > len => n = Assign(IF p.byref THEN ConvertToNonAlias(m, v) ELSE m, v, p.default)
      /\ j <= len /\ p.byref => n = UpdateAlias(m, v, arg[j])
      /\ j <= len /\ ~p.byref => n = Assign(m, v, Reads(m, arg[j]))
  BY <1>1, <1>2, BindOneIs DEF n, len, v
<1>4. CASE j > len
  <2> DEFINE u == IF p.byref THEN ConvertToNonAlias(m, v) ELSE m
  <2>1. u = m \/ Aliased(m, u, v)
    <3>1. CASE p.byref
      <4>1. Aliases(m, u, v, NoVar)
        BY <1>1, <3>1, ConvertIs
      <4> QED BY <4>1 DEF Aliased
    <3> QED BY <3>1
  <2> HIDE DEF u
  <2>2. u \in Memory
    BY <2>1 DEF Aliased, Aliases
  <2>3. n = Assign(u, v, p.default)
    BY <1>3, <1>4 DEF u
  <2>4. Writes(u, n, Resolve(u, v)) /\ n.buf = u.buf
    BY <1>1, <2>2, <2>3, Assigns
  <2>5. ParameterBound(m, n, v)
    BY <2>1, <2>2, <2>4 DEF ParameterBound
  <2> QED BY <2>5 DEF n, p, v
<1>5. CASE j <= len /\ p.byref
  <2>1. arg[j] \in Vars /\ n = UpdateAlias(m, v, arg[j])
    <3>1. j \in DOMAIN arg
      BY <1>1, <1>2, <1>5
    <3> QED BY <1>3, <1>5, <3>1 DEF ArgsRight, p
  <2>2. IF Resolve(m, arg[j]) = v THEN n = m ELSE Aliases(m, n, v, Resolve(m, arg[j]))
    BY <1>1, <2>1, UpdateIs
  <2>3. Resolve(m, arg[j]) \in Vars
    BY <2>1, Resolved
  <2>4. ParameterBound(m, n, v)
    BY <2>2, <2>3 DEF ParameterBound, Aliased
  <2> QED BY <2>4 DEF n, p, v
<1>6. CASE j <= len /\ ~p.byref
  <2>1. arg[j] \in Arg
    BY <1>1, <1>2, <1>6
  <2>2. Reads(m, arg[j]) \in Text
    BY <2>1, ReadsText
  <2>3. Writes(m, n, Resolve(m, v)) /\ n.buf = m.buf
    BY <1>1, <1>3, <1>6, <2>2, Assigns
  <2>4. ParameterBound(m, n, v)
    BY <2>3 DEF ParameterBound
  <2> QED BY <2>4 DEF n, p, v
<1>7. j > len \/ j <= len
  BY <1>1, <1>2
<1> QED BY <1>1, <1>4, <1>5, <1>6, <1>7

LEMMA BoundTyped ==
  ASSUME NEW m \in Memory, NEW n, NEW v, ParameterBound(m, n, v)
  PROVE  n \in Memory
BY DEF ParameterBound, Aliased, Aliases, Writes

\* What holds of the memory m, and is passed on by the binding of each parameter
\* from the last to the from-th, holds of what Bind returns.
LEMMA BindInduction ==
  ASSUME NEW m \in Memory, NEW f \in Funcs, NEW arg,
         NEW from \in 1 .. Len(Params[f]) + 1, ArgsRight(f, arg, from),
         NEW I, m \in I[Len(Params[f]) + 1],
         \A j \in from .. Len(Params[f]) : \A x \in Memory :
            x \in I[j + 1] => BindOne(x, Params[f][j], j, arg) \in I[j]
  PROVE  Bind(m, f, arg, from) \in Memory /\ Bind(m, f, arg, from) \in I[from]
<1> DEFINE L == Len(Params[f])
           N == L + 1
           ps == Params[f]
           G == [n \in from .. (N - 1) |-> [x \in Memory |-> BindOne(x, ps[n], n, arg)]]
           Body(g) == [j \in from .. L + 1 |->
                         IF j > L THEN m ELSE BindOne(g[j + 1], ps[j], j, arg)]
           after == CHOOSE g : g = Body(g)
<1>1. L \in Nat /\ N \in Nat /\ from \in 0 .. N /\ from \in Nat /\ DOMAIN ps = 1 .. L
  BY ParamsKnown
<1>2. ASSUME NEW j \in from .. (N - 1), NEW x \in Memory
      PROVE BindOne(x, ps[j], j, arg) \in Memory
  <2>1. j \in DOMAIN ps /\ j >= from
    BY <1>1
  <2>2. ParameterBound(x, BindOne(x, ps[j], j, arg), ps[j].var)
    BY <1>1, <2>1, BindsOne
  <2> QED BY <2>2, BoundTyped
<1>3. StepsDown(G, from, N, Memory)
  BY <1>2 DEF StepsDown
<1>4. Bind(m, f, arg, from) = after[from]
  BY DEF Bind
<1>5. L = Len(Params[f]) /\ N = L + 1
  OBVIOUS
<1> HIDE DEF L, N, after
<1>6. PICK g : RecursiveDown(g, G, from, N, Memory, m)
  <2> HIDE DEF G
  <2> QED BY <1>1, <1>3, RecursionDown, Zenon
<1>7. /\ g \in [from .. N -> Memory] /\ g[N] = m
      /\ \A n \in from .. (N - 1) : g[n] = G[n][g[n + 1]]
  BY <1>6 DEF RecursiveDown
<1>8. ASSUME NEW j \in from .. N
      PROVE  g[j] = IF j > L THEN m ELSE BindOne(g[j + 1], ps[j], j, arg)
  <2>1. CASE j > L
    <3>1. j = N
      BY <1>1, <1>5, <2>1
    <3> QED BY <1>7, <2>1, <3>1
  <2>2. CASE ~(j > L)
    <3>1. j \in from .. (N - 1) /\ j + 1 \in from .. N
      BY <1>1, <1>5, <2>2
    <3>2. g[j + 1] \in Memory /\ g[j] = G[j][g[j + 1]]
      BY <1>7, <3>1
    <3>3. G[j][g[j + 1]] = BindOne(g[j + 1], ps[j], j, arg)
      BY <3>1, <3>2
    <3> QED BY <2>2, <3>2, <3>3
  <2> QED BY <2>1, <2>2
<1>9. g = Body(g)
  <2> DEFINE b == Body(g)
  <2>1. \A j \in from .. N : g[j] = b[j]
    BY <1>5, <1>8
  <2>2. b = [j \in from .. N |-> b[j]] /\ g = [j \in from .. N |-> g[j]]
    BY <1>5, <1>7
  <2> HIDE DEF b
  <2> QED BY <2>1, <2>2 DEF b
<1>10. after = Body(after)
  BY <1>9, Zenon DEF after
<1> HIDE DEF G
<1>11. after[N] = m /\ \A j \in from .. (N - 1) : after[j] = BindOne(after[j + 1], ps[j], j, arg)
  <2>1. ASSUME NEW j \in from .. N
        PROVE after[j] = IF j > L THEN m ELSE BindOne(after[j + 1], ps[j], j, arg)
    BY <1>5, <1>10, <2>1
  <2>2. N \in from .. N /\ N > L
    BY <1>1, <1>5
  <2>3. \A j \in from .. (N - 1) : j \in from .. N /\ ~(j > L)
    BY <1>1, <1>5
  <2> QED BY <2>1, <2>2, <2>3
<1> HIDE DEF ps
<1> DEFINE S == {j \in from .. N : after[j] \in Memory /\ after[j] \in I[j]}
<1>12. N \in S
  BY <1>1, <1>5, <1>11
<1>13. ASSUME NEW j \in from .. (N - 1), j + 1 \in S PROVE j \in S
  <2>1. after[j + 1] \in Memory /\ after[j + 1] \in I[j + 1]
    BY <1>13
  <2>2. after[j] = BindOne(after[j + 1], ps[j], j, arg)
    BY <1>11
  <2>3. j \in from .. L /\ j \in from .. N
    BY <1>1, <1>5
  <2>4. BindOne(after[j + 1], ps[j], j, arg) \in I[j]
    BY <1>5, <2>1, <2>3 DEF ps
  <2>5. after[j] \in Memory
    BY <1>2, <2>1, <2>2
  <2> QED BY <2>2, <2>3, <2>4, <2>5
<1> HIDE DEF S
<1>14. from \in S
  <2>1. \A j \in from .. N : j \in S
    BY <1>1, <1>12, <1>13, InductionDownTo
  <2>2. from \in from .. N
    BY <1>1
  <2> QED BY <2>1, <2>2
<1> QED BY <1>4, <1>14 DEF S

-------------------------------------------------------------------------------
(* The activations, and what is done to the last of them. *)

Backup == UNION {[Own(f) -> SoundVar] : f \in Funcs}
LineState ==
  [calls : 0 .. 2, yields : 0 .. 2, out : Vars \cup {NoVar}, held : Seq(Text)]
Activation == [func : Funcs \cup {NoFunc}, bkp : Backup \cup {None}, line : LineState]

\* A line that waits has results left to wait for.
LineRight(fr) ==
  \/ fr.line = NoLine
  \/ /\ fr.line.calls \in 1 .. 2 /\ fr.line.yields \in 1 .. fr.line.calls
     /\ fr.line.out \in Visible(fr.func) \cup {NoVar}
     /\ Len(fr.line.held) < fr.line.calls

\* Where a line waits, the activation above it is one of a function; the last
\* waits for nothing, or is between two calls of its line.
Stack(fs) ==
  /\ fs \in Seq(Activation)
  /\ \A i \in 1 .. Len(fs) : LineRight(fs[i])
  /\ \A i \in 1 .. Len(fs) - 1 : fs[i].line.calls > 0 => fs[i + 1].func \in Funcs
  /\ Len(fs) > 0 => fs[Len(fs)].line.calls = 0 \/ fs[Len(fs)].line.held # <<>>

SameCalls(fs, gs, k) == \A i \in 1 .. k : fs[i].func = gs[i].func /\ fs[i].bkp = gs[i].bkp

\* gs is fs with another line at n, where fs is cut off.
Relined(fs, gs, n, l) ==
  /\ gs \in Seq(Activation) /\ Len(gs) = n /\ SameCalls(fs, gs, n) /\ gs[n].line = l
  /\ \A i \in 1 .. n - 1 : gs[i] = fs[i]
Cut(fs, gs, n) ==
  gs \in Seq(Activation) /\ Len(gs) = n /\ \A i \in 1 .. n : gs[i] = fs[i]
Pushes(fs, gs, fr) ==
  /\ gs \in Seq(Activation) /\ Len(gs) = Len(fs) + 1 /\ gs[Len(fs) + 1] = fr
  /\ \A i \in 1 .. Len(fs) : gs[i] = fs[i]

LEMMA NoLineTyped ==
  NoLine \in LineState /\ NoLine.calls = 0 /\ NoLine.held = <<>> /\ NoLine.out = NoVar
<1>1. <<>> \in Seq(Text)
  OBVIOUS
<1> QED BY <1>1 DEF NoLine, LineState

LEMMA StackFields ==
  ASSUME NEW fs, fs \in Seq(Activation)
  PROVE  /\ Len(fs) \in Nat /\ DOMAIN fs = 1 .. Len(fs)
         /\ \A i \in 1 .. Len(fs) :
              /\ fs[i] \in Activation /\ fs[i].func \in Funcs \cup {NoFunc}
              /\ fs[i].bkp \in Backup \cup {None} /\ fs[i].line \in LineState
              /\ fs[i].line.calls \in 0 .. 2 /\ fs[i].line.out \in Vars \cup {NoVar}
              /\ fs[i].line.yields \in 0 .. 2 /\ fs[i].line.held \in Seq(Text)
<1>1. /\ Len(fs) \in Nat /\ DOMAIN fs = 1 .. Len(fs)
      /\ \A i \in 1 .. Len(fs) : fs[i] \in Activation
  OBVIOUS
<1>2. ASSUME NEW fr \in Activation
      PROVE  /\ fr.func \in Funcs \cup {NoFunc}
             /\ fr.bkp \in Backup \cup {None} /\ fr.line \in LineState
  BY DEF Activation
<1>3. ASSUME NEW l \in LineState
      PROVE  /\ l.calls \in 0 .. 2 /\ l.out \in Vars \cup {NoVar}
             /\ l.yields \in 0 .. 2 /\ l.held \in Seq(Text)
  BY DEF LineState
<1> QED BY <1>1, <1>2, <1>3

LEMMA SetLine ==
  ASSUME NEW fs, fs \in Seq(Activation), NEW n \in 1 .. Len(fs), NEW l \in LineState,
         n = Len(fs), NEW gs, gs = [fs EXCEPT ![n].line = l]
  PROVE  Relined(fs, gs, n, l)
<1> DEFINE fr == [fs[n] EXCEPT !.line = l]
<1>1. fs[n] \in Activation /\ Len(fs) \in Nat /\ DOMAIN fs = 1 .. Len(fs)
  BY StackFields
<1>2. fr \in Activation /\ fr.func = fs[n].func /\ fr.bkp = fs[n].bkp /\ fr.line = l
  BY <1>1 DEF Activation
<1>3. gs = [fs EXCEPT ![n] = fr]
  OBVIOUS
<1> HIDE DEF fr
<1>4. gs \in Seq(Activation) /\ Len(gs) = Len(fs)
  BY <1>1, <1>2, <1>3
<1>5. gs[n] = fr /\ \A i \in 1 .. Len(fs) : i # n => gs[i] = fs[i]
  BY <1>1, <1>3
<1>6. SameCalls(fs, gs, n)
  BY <1>1, <1>2, <1>5 DEF SameCalls
<1>7. \A i \in 1 .. n - 1 : gs[i] = fs[i]
  BY <1>1, <1>5
<1> QED BY <1>2, <1>4, <1>5, <1>6, <1>7 DEF Relined

LEMMA CutIs ==
  ASSUME NEW fs, fs \in Seq(Activation), NEW n \in 0 .. Len(fs)
  PROVE  Cut(fs, SubSeq(fs, 1, n), n)
<1> DEFINE gs == SubSeq(fs, 1, n)
<1>1. Len(fs) \in Nat
  OBVIOUS
<1>2. gs \in Seq(Activation) /\ Len(gs) = n /\ \A i \in 1 .. n : gs[i] = fs[i]
  BY <1>1
<1> HIDE DEF gs
<1>3. Cut(fs, gs, n)
  BY <1>2 DEF Cut
<1> QED BY <1>3 DEF gs

LEMMA RelinedCut ==
  ASSUME NEW fs, NEW hs, NEW gs, NEW n, NEW l, Cut(fs, hs, n), Relined(hs, gs, n, l)
  PROVE  Relined(fs, gs, n, l)
<1>1. SameCalls(fs, gs, n)
  BY DEF Relined, Cut, SameCalls
<1>2. n \in Nat
  <2>1. gs \in Seq(Activation) /\ Len(gs) = n
    BY DEF Relined
  <2> QED BY <2>1, StackFields
<1>3. \A i \in 1 .. n - 1 : gs[i] = fs[i]
  BY <1>2 DEF Relined, Cut
<1> QED BY <1>1, <1>3 DEF Relined

LEMMA CutThenSet ==
  ASSUME NEW fs, fs \in Seq(Activation), NEW n \in 1 .. Len(fs), NEW l \in LineState,
         NEW gs, gs = [SubSeq(fs, 1, n) EXCEPT ![n].line = l]
  PROVE  Relined(fs, gs, n, l)
<1> DEFINE hs == SubSeq(fs, 1, n)
<1>1. Len(fs) \in Nat /\ n \in 0 .. Len(fs)
  OBVIOUS
<1>2. Cut(fs, hs, n)
  BY <1>1, CutIs
<1>3. gs = [hs EXCEPT ![n].line = l]
  OBVIOUS
<1> HIDE DEF hs
<1>4. hs \in Seq(Activation) /\ n = Len(hs) /\ n \in 1 .. Len(hs)
  BY <1>1, <1>2 DEF Cut
<1>5. Relined(hs, gs, n, l)
  BY <1>3, <1>4, SetLine
<1> QED BY <1>2, <1>5, RelinedCut

\* The line gets another result.
LEMMA HeldLine ==
  ASSUME NEW l \in LineState, NEW hs \in Seq(Text), NEW k, k = [l EXCEPT !.held = hs]
  PROVE  /\ k \in LineState /\ k.held = hs /\ k.calls = l.calls
         /\ k.yields = l.yields /\ k.out = l.out
BY DEF LineState

LEMMA CutThenHold ==
  ASSUME NEW fs, fs \in Seq(Activation), NEW n \in 1 .. Len(fs), NEW hs \in Seq(Text),
         NEW gs, gs = [SubSeq(fs, 1, n) EXCEPT ![n].line.held = hs],
         NEW l, l = [fs[n].line EXCEPT !.held = hs]
  PROVE  Relined(fs, gs, n, l)
<1> DEFINE ss == SubSeq(fs, 1, n)
<1>1. Len(fs) \in Nat /\ n \in 0 .. Len(fs) /\ n \in 1 .. n
  OBVIOUS
<1>2. Cut(fs, ss, n)
  BY <1>1, CutIs
<1>3. gs = [ss EXCEPT ![n].line.held = hs]
  OBVIOUS
<1> HIDE DEF ss
<1>4. ss[n] = fs[n] /\ ss \in Seq(Activation) /\ Len(ss) = n
  BY <1>1, <1>2 DEF Cut
<1>5. gs = [ss EXCEPT ![n].line = l]
  BY <1>3, <1>4
<1>6. fs[n].line \in LineState
  BY StackFields
<1>7. l \in LineState
  BY <1>6, HeldLine
<1>8. Relined(ss, gs, n, l)
  BY <1>1, <1>4, <1>5, <1>7, SetLine
<1> QED BY <1>2, <1>8, RelinedCut

LEMMA FrameTyped ==
  ASSUME NEW f \in Funcs \cup {NoFunc}, NEW b \in Backup \cup {None}
  PROVE  /\ Frame(f, b) \in Activation /\ Frame(f, b).func = f
         /\ Frame(f, b).bkp = b /\ Frame(f, b).line = NoLine
BY NoLineTyped DEF Frame, Activation

LEMMA PushIs ==
  ASSUME NEW fs, fs \in Seq(Activation), NEW fr \in Activation
  PROVE  Pushes(fs, Append(fs, fr), fr)
BY DEF Pushes

\* How the stack stays right.
LEMMA PushKeepsStack ==
  ASSUME NEW fs, Stack(fs), NEW f \in Funcs \cup {NoFunc}, NEW b \in Backup \cup {None},
         Len(fs) > 0 => (fs[Len(fs)].line.calls > 0 => f \in Funcs),
         NEW gs, Pushes(fs, gs, Frame(f, b))
  PROVE  Stack(gs)
<1> DEFINE k == Len(fs)
           fr == Frame(f, b)
<1>1. fr.func = f /\ fr.line = NoLine
  BY FrameTyped
<1>2. k \in Nat
  BY StackFields DEF Stack
<1> HIDE DEF fr
<1>3. Len(gs) = k + 1 /\ gs[k + 1] = fr /\ gs \in Seq(Activation)
      /\ \A i \in 1 .. k : gs[i] = fs[i]
  BY DEF Pushes, fr
<1>4. \A i \in 1 .. k + 1 : LineRight(gs[i])
  <2>1. LineRight(fr)
    BY <1>1 DEF LineRight
  <2>2. \A i \in 1 .. k : LineRight(fs[i])
    BY DEF Stack
  <2> HIDE DEF k
  <2>3. \A i \in 1 .. k + 1 : i = k + 1 \/ i \in 1 .. k
    BY <1>2
  <2> QED BY <1>3, <2>1, <2>2, <2>3
<1>5. \A i \in 1 .. k : gs[i].line.calls > 0 => gs[i + 1].func \in Funcs
  <2> SUFFICES ASSUME NEW i \in 1 .. k, gs[i].line.calls > 0 PROVE gs[i + 1].func \in Funcs
    OBVIOUS
  <2>1. fs[i].line.calls > 0
    BY <1>3
  <2>2. CASE i = k
    BY <1>1, <1>3, <2>1, <2>2
  <2>3. CASE i # k
    <3>1. i \in 1 .. k - 1 /\ i + 1 \in 1 .. k
      BY <1>2, <2>3
    <3> QED BY <1>3, <2>1, <3>1 DEF Stack
  <2> QED BY <2>2, <2>3
<1>6. gs[k + 1].line.calls = 0
  BY <1>1, <1>3, NoLineTyped
<1>7. (k + 1) - 1 = k
  BY <1>2
<1> HIDE DEF k
<1> QED BY <1>3, <1>4, <1>5, <1>6, <1>7 DEF Stack

LEMMA CutKeepsStack ==
  ASSUME NEW fs, Stack(fs), NEW n \in 0 .. Len(fs), NEW gs, Cut(fs, gs, n),
         n > 0 => fs[n].line.calls = 0
  PROVE  Stack(gs)
<1>1. Len(fs) \in Nat /\ Len(gs) = n /\ gs \in Seq(Activation)
      /\ \A i \in 1 .. n : gs[i] = fs[i]
  BY StackFields DEF Stack, Cut
<1>2. \A i \in 1 .. n : LineRight(gs[i])
  BY <1>1 DEF Stack
<1>3. \A i \in 1 .. n - 1 : gs[i].line.calls > 0 => gs[i + 1].func \in Funcs
  <2> SUFFICES ASSUME NEW i \in 1 .. n - 1, gs[i].line.calls > 0
               PROVE gs[i + 1].func \in Funcs
    OBVIOUS
  <2>1. i \in 1 .. Len(fs) - 1 /\ i \in 1 .. n /\ i + 1 \in 1 .. n
    BY <1>1
  <2> QED BY <1>1, <2>1 DEF Stack
<1>4. n > 0 => gs[n].line.calls = 0
  BY <1>1
<1> QED BY <1>1, <1>2, <1>3, <1>4 DEF Stack

\* The new line waits for the next of its results, or for nothing.
LEMMA RelineKeepsStack ==
  ASSUME NEW fs, Stack(fs), NEW n \in 1 .. Len(fs), NEW l \in LineState,
         NEW gs, Relined(fs, gs, n, l), LineRight(gs[n]), l.calls = 0 \/ l.held # <<>>
  PROVE  Stack(gs)
<1>1. /\ Len(fs) \in Nat /\ Len(gs) = n /\ gs \in Seq(Activation) /\ gs[n].line = l
      /\ \A i \in 1 .. n - 1 : gs[i] = fs[i]
  BY StackFields DEF Stack, Relined
<1>2. \A i \in 1 .. n : LineRight(gs[i])
  <2>1. \A i \in 1 .. n - 1 : LineRight(gs[i])
    BY <1>1 DEF Stack
  <2>2. \A i \in 1 .. n : i = n \/ i \in 1 .. n - 1
    OBVIOUS
  <2> QED BY <2>1, <2>2
<1>3. \A i \in 1 .. n - 1 : gs[i].line.calls > 0 => gs[i + 1].func \in Funcs
  <2> SUFFICES ASSUME NEW i \in 1 .. n - 1, gs[i].line.calls > 0
               PROVE gs[i + 1].func \in Funcs
    OBVIOUS
  <2>1. i \in 1 .. Len(fs) - 1 /\ i + 1 \in 1 .. n /\ gs[i] = fs[i]
    BY <1>1
  <2>2. fs[i + 1].func \in Funcs
    BY <2>1 DEF Stack
  <2>3. SameCalls(fs, gs, n)
    BY DEF Relined
  <2> QED BY <2>1, <2>2, <2>3 DEF SameCalls
<1> QED BY <1>1, <1>2, <1>3 DEF Stack

-------------------------------------------------------------------------------
(* SimpleHeap: what each step does to the memory. *)

LEMMA SameCallsKeepBase ==
  ASSUME NEW m, NEW fs, NEW gs, NEW k \in Nat, Base(m, fs, k), SameCalls(fs, gs, k)
  PROVE  Base(m, gs, k)
<1>1. \A i \in 1 .. k : gs[i].func = fs[i].func /\ gs[i].bkp = fs[i].bkp
  BY DEF SameCalls
<1>2. \A i \in 1 .. k : Backed(gs, i) <=> Backed(fs, i)
  <2> SUFFICES ASSUME NEW i \in 1 .. k PROVE Backed(gs, i) <=> Backed(fs, i)
    OBVIOUS
  <2>1. \A j \in 1 .. i - 1 : j \in 1 .. k
    OBVIOUS
  <2>2. \A f : Runs(gs, i - 1, f) <=> Runs(fs, i - 1, f)
    BY <1>1, <2>1 DEF Runs
  <2> QED BY <1>1, <2>2 DEF Backed
<1>3. BackupsRight(gs, k)
  BY <1>1, <1>2 DEF Base, BackupsRight
<1>4. Layered(m, gs, k)
  <2>1. \A j \in 1 .. k : \A i \in 1 .. j - 1 : i \in 1 .. k
    OBVIOUS
  <2> QED BY <1>1, <2>1 DEF Base, Layered
<1>5. Used(m, gs, k) = Used(m, fs, k)
  BY <1>1 DEF Used
<1> QED BY <1>3, <1>4, <1>5 DEF Base

LEMMA AssignKeepsBase ==
  ASSUME NEW m, NEW fs, NEW k \in Nat, Base(m, fs, k), NEW w \in Vars, NEW x \in Text
  PROVE  Base(Assign(m, w, x), fs, k)
<1>1. m \in Memory
  BY DEF Base
<1>2. PICK v \in Vars : v = Resolve(m, w)
  BY <1>1, Resolved
<1>3. Writes(m, Assign(m, w, x), v)
  BY <1>1, <1>2, Assigns
<1> QED BY <1>3, WriteKeepsBase

LEMMA MovesKeepBase ==
  ASSUME NEW m, NEW fs, NEW k \in Nat, Base(m, fs, k), NEW n, NEW x, BufferMoves(m, n, x)
  PROVE  Base(n, fs, k)
BY MovesKeepKinds, KindsKeepBase

LEMMA BoundKeepsBase ==
  ASSUME NEW m, NEW fs, NEW k \in Nat, Base(m, fs, k), NEW v \in Vars, NEW n,
         ParameterBound(m, n, v)
  PROVE  Base(n, fs, k)
<1>1. ASSUME NEW u, Aliased(m, u, v) PROVE Base(u, fs, k)
  <2>1. PICK w : Aliases(m, u, v, w)
    BY <1>1 DEF Aliased
  <2> QED BY <2>1, AliasesKeepKinds, KindsKeepBase
<1>2. ASSUME NEW u \in Memory, u = m \/ Aliased(m, u, v), Writes(u, n, Resolve(u, v))
      PROVE Base(n, fs, k)
  <2>1. Base(u, fs, k)
    BY <1>1, <1>2
  <2>2. Resolve(u, v) \in Vars
    BY Resolved
  <2> QED BY <1>2, <2>1, <2>2, WriteKeepsBase
<1> QED BY <1>1, <1>2 DEF ParameterBound

LEMMA BindKeepsBase ==
  ASSUME NEW m, NEW fs, NEW k \in Nat, Base(m, fs, k), NEW f \in Funcs, NEW arg,
         NEW from \in 1 .. Len(Params[f]) + 1, ArgsRight(f, arg, from)
  PROVE  Base(Bind(m, f, arg, from), fs, k)
<1> DEFINE L == Len(Params[f])
           I == [j \in 1 .. L + 1 |-> {x \in Memory : Base(x, fs, k)}]
<1>1. m \in Memory /\ L \in Nat /\ DOMAIN Params[f] = 1 .. L
  BY ParamsKnown DEF Base
<1>2. \A j \in 1 .. L + 1 : I[j] = {x \in Memory : Base(x, fs, k)}
  OBVIOUS
<1> HIDE DEF I
<1>3. ASSUME NEW j \in from .. L, NEW x \in Memory, x \in I[j + 1]
      PROVE  BindOne(x, Params[f][j], j, arg) \in I[j]
  <2> DEFINE p == Params[f][j].var
             n == BindOne(x, Params[f][j], j, arg)
  <2>1. j \in DOMAIN Params[f] /\ j \in 1 .. L + 1 /\ j + 1 \in 1 .. L + 1 /\ j >= from
    BY <1>1
  <2>2. p \in Vars
    BY <2>1, ParamsKnown, VarsKnown
  <2>3. ParameterBound(x, n, p)
    BY <2>1, BindsOne
  <2>4. Base(x, fs, k)
    BY <1>2, <1>3, <2>1
  <2> HIDE DEF n, p
  <2>5. Base(n, fs, k) /\ n \in Memory
    BY <2>2, <2>3, <2>4, BoundKeepsBase, BoundTyped
  <2>6. n \in I[j]
    BY <1>2, <2>1, <2>5
  <2> QED BY <2>6 DEF n
<1>4. m \in I[L + 1]
  BY <1>1, <1>2
<1>5. Bind(m, f, arg, from) \in I[from]
  BY <1>1, <1>3, <1>4, BindInduction
<1> QED BY <1>2, <1>5

\* The next activation: what it finds is backed up if it finds an instance.
Enters(m, n, fs, gs, k, f) ==
  /\ SameCalls(fs, gs, k) /\ gs[k + 1].func = f
  /\ IF Runs(fs, k, f)
     THEN /\ gs[k + 1].bkp = [v \in Own(f) |-> m.var[v]]
          /\ n = BackupFunctionVars(m, f)
     ELSE gs[k + 1].bkp = None /\ n = m

LEMMA BackupsRightNext ==
  ASSUME NEW fs, NEW gs, NEW k \in Nat, BackupsRight(fs, k), SameCalls(fs, gs, k),
         gs[k + 1].func \in Funcs \cup {NoFunc},
         Backed(gs, k + 1) => gs[k + 1].bkp \in [Own(gs[k + 1].func) -> SoundVar],
         ~Backed(gs, k + 1) => gs[k + 1].bkp = None
  PROVE  BackupsRight(gs, k + 1)
<1>1. \A i \in 1 .. k + 1 : i = k + 1 \/ i \in 1 .. k
  OBVIOUS
<1>2. \A i \in 1 .. k : gs[i].func = fs[i].func /\ gs[i].bkp = fs[i].bkp
  BY DEF SameCalls
<1>3. ASSUME NEW i \in 1 .. k PROVE Backed(gs, i) <=> Backed(fs, i)
  <2>1. \A j \in 1 .. i - 1 : j \in 1 .. k
    OBVIOUS
  <2> QED BY <1>2, <2>1 DEF Backed, Runs
<1>4. ASSUME NEW i \in 1 .. k
      PROVE  /\ gs[i].func \in Funcs \cup {NoFunc}
             /\ Backed(gs, i) => gs[i].bkp \in [Own(gs[i].func) -> SoundVar]
             /\ ~Backed(gs, i) => gs[i].bkp = None
  BY <1>2, <1>3 DEF BackupsRight
<1> QED BY <1>1, <1>4 DEF BackupsRight

LEMMA EntersIs ==
  ASSUME NEW m, NEW n, NEW fs, NEW gs, NEW k \in Nat, Base(m, fs, k),
         NEW f \in Funcs, Enters(m, n, fs, gs, k, f)
  PROVE  /\ BackupsRight(gs, k + 1) /\ Pushed(m, n, gs, k + 1) /\ n.buf = m.buf
         /\ Surplus(n) = Surplus(m) + Weight(gs[k + 1])
<1>1. m \in Memory /\ SameCalls(fs, gs, k) /\ gs[k + 1].func = f
  BY DEF Base, Enters
<1>2. Own(f) \subseteq Vars /\ f \in Funcs \cup {NoFunc}
  BY VarsKnown
<1>3. Runs(gs, k, f) <=> Runs(fs, k, f)
  BY <1>1 DEF Runs, SameCalls
<1>4. (k + 1) - 1 = k
  OBVIOUS
<1>5. Backed(gs, k + 1) <=> Own(f) # {} /\ Runs(fs, k, f)
  BY <1>1, <1>3, <1>4 DEF Backed
<1>6. CASE Runs(fs, k, f)
  <2>1. gs[k + 1].bkp = [v \in Own(f) |-> m.var[v]] /\ n = BackupFunctionVars(m, f)
    BY <1>6 DEF Enters
  <2>2. gs[k + 1].bkp \in [Own(f) -> SoundVar]
    BY <1>1, <1>2, <2>1, Fields
  <2>3. Own(f) = {} => gs[k + 1].bkp = None
    <3>1. [v \in {} |-> m.var[v]] = None
      BY DEF None
    <3> QED BY <2>1, <3>1
  <2>4. Pushed(m, n, gs, k + 1) /\ n.buf = m.buf
        /\ Surplus(n) = Surplus(m) + Weight(gs[k + 1])
    BY <1>1, <2>1, BackupIs
  <2>5. /\ Backed(gs, k + 1) => gs[k + 1].bkp \in [Own(f) -> SoundVar]
        /\ ~Backed(gs, k + 1) => gs[k + 1].bkp = None
    BY <1>5, <1>6, <2>2, <2>3
  <2> QED BY <1>1, <1>2, <2>4, <2>5, BackupsRightNext DEF Base
<1>7. CASE ~Runs(fs, k, f)
  <2>1. gs[k + 1].bkp = None /\ n = m /\ DOMAIN None = {}
    BY <1>7 DEF Enters, None
  <2>2. Pushed(m, n, gs, k + 1)
    BY <1>1, <2>1 DEF Pushed
  <2>3. Weight(gs[k + 1]) = 0 /\ Surplus(m) \in Int
    BY <1>1, <2>1, SurplusTyped DEF Weight
  <2>4. Surplus(n) = Surplus(m) + Weight(gs[k + 1])
    BY <2>1, <2>3
  <2>5. /\ Backed(gs, k + 1) => gs[k + 1].bkp \in [Own(f) -> SoundVar]
        /\ ~Backed(gs, k + 1) => gs[k + 1].bkp = None
    BY <1>5, <1>7, <2>1
  <2> QED BY <1>1, <1>2, <2>1, <2>2, <2>4, <2>5, BackupsRightNext DEF Base
<1> QED BY <1>6, <1>7

LEMMA EntersKeepsBase ==
  ASSUME NEW m, NEW n, NEW fs, NEW gs, NEW k \in Nat, Base(m, fs, k),
         NEW f \in Funcs, Enters(m, n, fs, gs, k, f)
  PROVE  Base(n, gs, k + 1)
<1>1. BackupsRight(gs, k + 1) /\ Pushed(m, n, gs, k + 1)
  BY EntersIs
<1>2. Base(m, gs, k)
  BY SameCallsKeepBase DEF Enters
<1> DEFINE K == k + 1
<1>3. K \in Nat \ {0} /\ K - 1 = k
  OBVIOUS
<1> HIDE DEF K
<1>4. Base(m, gs, K - 1) /\ BackupsRight(gs, K) /\ Pushed(m, n, gs, K)
  BY <1>1, <1>2, <1>3 DEF K
<1>5. Base(n, gs, K)
  BY <1>3, <1>4, PushKeepsBase
<1> QED BY <1>5 DEF K

\* The last activation's variables are freed and restored.
LEMMA LeavesKeepsBase ==
  ASSUME NEW m, NEW fs, NEW k \in Nat \ {0}, Base(m, fs, k), fs[k].func \in Funcs
  PROVE  Base(FreeAndRestore(m, fs[k].func, fs[k].bkp), fs, k - 1)
<1>1. m \in Memory /\ k \in 1 .. k
  BY DEF Base
<1>2. fs[k].bkp = None \/ fs[k].bkp \in [Own(fs[k].func) -> SoundVar]
  BY <1>1 DEF Base, BackupsRight
<1>3. Popped(m, FreeAndRestore(m, fs[k].func, fs[k].bkp), fs, k)
  BY <1>1, <1>2, RestoreIs
<1> QED BY <1>3, PopKeepsBase

\* A thread's own activation has no variables.
LEMMA ThreadKeepsBase ==
  ASSUME NEW m, NEW fs, NEW k \in Nat \ {0}, fs[k].func = NoFunc
  PROVE  /\ Base(m, fs, k) => fs[k].bkp = None /\ Base(m, fs, k - 1)
         /\ Base(m, fs, k - 1) /\ fs[k].bkp = None => Base(m, fs, k)
<1>1. k \in 1 .. k /\ ~Backed(fs, k) /\ DOMAIN None = {}
  BY VarsKnown DEF Backed, None
<1>2. ASSUME Base(m, fs, k) PROVE fs[k].bkp = None /\ Base(m, fs, k - 1)
  <2>1. fs[k].bkp = None
    BY <1>1, <1>2 DEF Base, BackupsRight
  <2>2. Popped(m, m, fs, k)
    BY <1>1, <1>2, <2>1 DEF Popped, Base
  <2> QED BY <1>2, <2>1, <2>2, PopKeepsBase
<1>3. ASSUME Base(m, fs, k - 1), fs[k].bkp = None PROVE Base(m, fs, k)
  <2>1. Pushed(m, m, fs, k)
    BY <1>1, <1>3 DEF Pushed, Base
  <2>2. BackupsRight(fs, k)
    <3>1. \A i \in 1 .. k : i = k \/ i \in 1 .. k - 1
      OBVIOUS
    <3> QED BY <1>1, <1>3, <3>1 DEF Base, BackupsRight
  <2> QED BY <1>3, <2>1, <2>2, PushKeepsBase
<1> QED BY <1>2, <1>3

-------------------------------------------------------------------------------
(* Exit's way through the activations, and a host's through the parameters. *)

Left(x, i) ==
  IF frames[i].func = NoFunc THEN x ELSE FreeAndRestore(x, frames[i].func, frames[i].bkp)
UnwindOne(x, i, k) == IF i = k THEN Left(x, i) ELSE PutBack(Left(x, i))

LEMMA LeftTyped ==
  ASSUME BackupsRight(frames, Top), NEW i \in 1 .. Top, NEW k, NEW x \in Memory
  PROVE  Left(x, i) \in Memory /\ UnwindOne(x, i, k) \in Memory
<1>1. /\ frames[i].func \in Funcs \cup {NoFunc}
      /\ frames[i].bkp = None \/ frames[i].bkp \in [Own(frames[i].func) -> SoundVar]
  BY DEF BackupsRight
<1>2. Left(x, i) \in Memory
  <2>1. CASE frames[i].func = NoFunc
    BY <2>1 DEF Left
  <2>2. CASE frames[i].func # NoFunc
    <3>1. frames[i].func \in Funcs
      BY <1>1, <2>2
    <3>2. Popped(x, FreeAndRestore(x, frames[i].func, frames[i].bkp), frames, i)
      BY <1>1, <3>1, RestoreIs
    <3> QED BY <2>2, <3>2 DEF Left, Popped
  <2> QED BY <2>1, <2>2
<1>3. BufferMoves(Left(x, i), PutBack(Left(x, i)), -1)
  BY <1>2, PutBackIs
<1> QED BY <1>2, <1>3 DEF UnwindOne, BufferMoves

LEMMA UnwindInduction ==
  ASSUME mem \in Memory, Top \in Nat, BackupsRight(frames, Top), NEW k \in 1 .. Top,
         NEW I, mem \in I[Top + 1],
         \A i \in k .. Top : \A x \in Memory : x \in I[i + 1] => UnwindOne(x, i, k) \in I[i]
  PROVE  Unwound(k) \in Memory /\ Unwound(k) \in I[k]
<1> DEFINE N == Top + 1
           One(x, i) ==
             LET m == IF frames[i].func = NoFunc THEN x
                      ELSE FreeAndRestore(x, frames[i].func, frames[i].bkp)
             IN IF i = k THEN m ELSE PutBack(m)
           G == [i \in k .. (N - 1) |-> [x \in Memory |-> UnwindOne(x, i, k)]]
           Body(g) == [i \in k .. Top + 1 |-> IF i > Top THEN mem ELSE One(g[i + 1], i)]
           back == CHOOSE g : g = Body(g)
<1>1. N \in Nat /\ k \in 0 .. N /\ k \in Nat /\ N = Top + 1
  OBVIOUS
<1>2. ASSUME NEW i \in k .. (N - 1), NEW x \in Memory PROVE UnwindOne(x, i, k) \in Memory
  <2>1. i \in 1 .. Top
    BY <1>1
  <2> QED BY <2>1, LeftTyped
<1>3. StepsDown(G, k, N, Memory)
  BY <1>2 DEF StepsDown
<1>4. Unwound(k) = back[k]
  BY DEF Unwound
<1>5. \A x, i : One(x, i) = UnwindOne(x, i, k)
  BY DEF UnwindOne, Left
<1> HIDE DEF N, back, One
<1>6. PICK g : RecursiveDown(g, G, k, N, Memory, mem)
  <2> HIDE DEF G
  <2> QED BY <1>1, <1>3, RecursionDown, Zenon
<1>7. /\ g \in [k .. N -> Memory] /\ g[N] = mem
      /\ \A n \in k .. (N - 1) : g[n] = G[n][g[n + 1]]
  BY <1>6 DEF RecursiveDown
<1>8. ASSUME NEW j \in k .. N
      PROVE  g[j] = IF j > Top THEN mem ELSE One(g[j + 1], j)
  <2>1. CASE j > Top
    <3>1. j = N
      BY <1>1, <2>1
    <3> QED BY <1>7, <2>1, <3>1
  <2>2. CASE ~(j > Top)
    <3>1. j \in k .. (N - 1) /\ j + 1 \in k .. N
      BY <1>1, <2>2
    <3>2. g[j + 1] \in Memory /\ g[j] = G[j][g[j + 1]]
      BY <1>7, <3>1
    <3>3. G[j][g[j + 1]] = UnwindOne(g[j + 1], j, k)
      BY <3>1, <3>2
    <3> QED BY <1>5, <2>2, <3>2, <3>3
  <2> QED BY <2>1, <2>2
<1>9. g = Body(g)
  <2> DEFINE b == Body(g)
  <2>1. \A j \in k .. N : g[j] = b[j]
    BY <1>1, <1>8
  <2>2. b = [j \in k .. N |-> b[j]] /\ g = [j \in k .. N |-> g[j]]
    BY <1>1, <1>7
  <2> HIDE DEF b
  <2> QED BY <2>1, <2>2 DEF b
<1>10. back = Body(back)
  BY <1>9, Zenon DEF back
<1> HIDE DEF G
<1>11. back[N] = mem /\ \A j \in k .. (N - 1) : back[j] = UnwindOne(back[j + 1], j, k)
  <2>1. ASSUME NEW j \in k .. N
        PROVE back[j] = IF j > Top THEN mem ELSE One(back[j + 1], j)
    BY <1>1, <1>10, <2>1
  <2>2. N \in k .. N /\ N > Top
    BY <1>1
  <2>3. \A j \in k .. (N - 1) : j \in k .. N /\ ~(j > Top)
    BY <1>1
  <2> QED BY <1>5, <2>1, <2>2, <2>3
<1> DEFINE S == {j \in k .. N : back[j] \in Memory /\ back[j] \in I[j]}
<1>12. N \in S
  BY <1>1, <1>11
<1>13. ASSUME NEW j \in k .. (N - 1), j + 1 \in S PROVE j \in S
  <2>1. back[j + 1] \in Memory /\ back[j + 1] \in I[j + 1]
    BY <1>13
  <2>2. back[j] = UnwindOne(back[j + 1], j, k)
    BY <1>11
  <2>3. j \in k .. Top /\ j \in k .. N
    BY <1>1
  <2>4. UnwindOne(back[j + 1], j, k) \in I[j]
    BY <2>1, <2>3
  <2>5. back[j] \in Memory
    BY <1>2, <2>1, <2>2
  <2> QED BY <2>2, <2>3, <2>4, <2>5
<1> HIDE DEF S
<1>14. k \in S
  <2>1. \A j \in k .. N : j \in S
    BY <1>1, <1>12, <1>13, InductionDownTo
  <2>2. k \in k .. N
    BY <1>1
  <2> QED BY <2>1, <2>2
<1> QED BY <1>4, <1>14 DEF S

\* The parameters that a host gives, one after the other.
Given(m, f, arg) ==
  LET given[j \in 0 .. Len(arg)] ==
        IF j = 0 THEN m ELSE Assign(given[j - 1], Params[f][j].var, arg[j])
  IN given[Len(arg)]

LEMMA GivenInduction ==
  ASSUME NEW m \in Memory, NEW f \in Funcs, NEW arg \in [DOMAIN Params[f] -> Texts],
         NEW I, m \in I[0],
         \A j \in 1 .. Len(Params[f]) : \A x \in Memory :
            x \in I[j - 1] => Assign(x, Params[f][j].var, arg[j]) \in I[j]
  PROVE  /\ Len(arg) = Len(Params[f])
         /\ Given(m, f, arg) \in Memory /\ Given(m, f, arg) \in I[Len(Params[f])]
<1> DEFINE L == Len(arg)
           One(x, j) == Assign(x, Params[f][j].var, arg[j])
           G == [j \in 1 .. L |-> [x \in Memory |-> One(x, j)]]
           Body(g) == [j \in 0 .. L |-> IF j = 0 THEN m ELSE One(g[j - 1], j)]
           given == CHOOSE g : g = Body(g)
<1>1. /\ Len(Params[f]) \in Nat /\ DOMAIN Params[f] = 1 .. Len(Params[f])
      /\ L = Len(Params[f])
  <2>1. Len(Params[f]) \in Nat /\ DOMAIN Params[f] = 1 .. Len(Params[f])
    BY ParamsKnown
  <2>2. arg \in [1 .. Len(Params[f]) -> Texts]
    BY <2>1
  <2> QED BY <2>1, <2>2
<1>2. ASSUME NEW j \in 1 .. L, NEW x \in Memory PROVE One(x, j) \in Memory
  <2>1. j \in DOMAIN Params[f]
    BY <1>1
  <2>2. arg[j] \in Text /\ Params[f][j].var \in Vars
    BY <2>1, ParamsKnown, VarsKnown DEF Text
  <2> QED BY <2>2, Assigns, Resolved DEF Writes
<1>3. StepsOn(G, L, Memory)
  BY <1>2 DEF StepsOn
<1>4. Given(m, f, arg) = given[L]
  BY DEF Given
<1>5. L \in Nat
  BY <1>1
<1> HIDE DEF L, given, One
<1>6. PICK g : Recursive(g, G, L, Memory, m)
  <2> HIDE DEF G
  <2> QED BY <1>3, <1>5, Recursion, Zenon
<1>7. /\ g \in [0 .. L -> Memory] /\ g[0] = m
      /\ \A n \in 1 .. L : g[n] = G[n][g[n - 1]]
  BY <1>6 DEF Recursive
<1>8. ASSUME NEW j \in 0 .. L
      PROVE  g[j] = IF j = 0 THEN m ELSE One(g[j - 1], j)
  <2>1. CASE j = 0
    BY <1>7, <2>1
  <2>2. CASE j # 0
    <3>1. j \in 1 .. L /\ j - 1 \in 0 .. L
      BY <1>5, <2>2
    <3>2. g[j - 1] \in Memory /\ g[j] = G[j][g[j - 1]]
      BY <1>7, <3>1
    <3>3. G[j][g[j - 1]] = One(g[j - 1], j)
      BY <3>1, <3>2
    <3> QED BY <2>2, <3>2, <3>3
  <2> QED BY <2>1, <2>2
<1>9. g = Body(g)
  <2> DEFINE b == Body(g)
  <2>1. \A j \in 0 .. L : g[j] = b[j]
    BY <1>8
  <2>2. b = [j \in 0 .. L |-> b[j]] /\ g = [j \in 0 .. L |-> g[j]]
    BY <1>7
  <2> HIDE DEF b
  <2> QED BY <2>1, <2>2 DEF b
<1>10. given = Body(given)
  BY <1>9, Zenon DEF given
<1> HIDE DEF G
<1>11. given[0] = m /\ \A j \in 1 .. L : given[j] = One(given[j - 1], j)
  <2>1. ASSUME NEW j \in 0 .. L
        PROVE given[j] = IF j = 0 THEN m ELSE One(given[j - 1], j)
    BY <1>10, <2>1
  <2>2. 0 \in 0 .. L /\ \A j \in 1 .. L : j \in 0 .. L /\ j # 0
    BY <1>5
  <2> QED BY <2>1, <2>2
<1> DEFINE S == {j \in 0 .. L : given[j] \in Memory /\ given[j] \in I[j]}
<1>12. 0 \in S
  BY <1>5, <1>11
<1>13. ASSUME NEW j \in 0 .. (L - 1), j \in S PROVE j + 1 \in S
  <2> DEFINE i == j + 1
  <2>1. i \in 1 .. L /\ i - 1 = j /\ i \in 0 .. L
    BY <1>5
  <2> HIDE DEF i
  <2>2. given[i - 1] \in Memory /\ given[i - 1] \in I[i - 1]
    BY <1>13, <2>1
  <2>3. given[i] = One(given[i - 1], i)
    BY <1>11, <2>1
  <2>4. One(given[i - 1], i) \in I[i]
    BY <1>1, <2>1, <2>2 DEF One, L
  <2>5. given[i] \in Memory
    BY <1>2, <2>1, <2>2, <2>3
  <2>6. i \in S
    BY <2>1, <2>3, <2>4, <2>5
  <2> QED BY <2>6 DEF i
<1> HIDE DEF S
<1>14. L \in S
  <2>1. \A j \in 0 .. L : j \in S
    BY <1>5, <1>12, <1>13, Induction
  <2>2. L \in 0 .. L
    BY <1>5
  <2> QED BY <2>1, <2>2
<1> QED BY <1>1, <1>4, <1>14 DEF S, L

-------------------------------------------------------------------------------
(* The activations and the blocks of SimpleHeap, step by step. *)

Inv == Stack(frames) /\ Base(mem, frames, Top)

LEMMA LinesKnown ==
  ASSUME NEW l \in Lines
  PROVE  /\ l.do = "call" /\ l.func \in Funcs /\ l.out \in Vars \cup {NoVar}
         /\ l.arg \in Seq(Arg) /\ Len(l.arg) \in Nat /\ DOMAIN l.arg = 1 .. Len(l.arg)
         /\ Len(l.arg) <= Len(Params[l.func])
         /\ l.calls \in 1 .. 2 /\ l.yields \in 1 .. l.calls
<1>1. /\ l.do = "call" /\ l.func \in Funcs /\ l.out \in Vars \cup {NoVar}
      /\ l.arg \in Seq(Vars \cup Texts \cup {""}) /\ Len(l.arg) <= Len(Params[l.func])
      /\ l.calls \in 1 .. 2 /\ l.yields \in 1 .. l.calls
  BY CallsAssumption
<1>2. Vars \cup Texts \cup {""} = Arg
  BY DEF Arg, Text
<1>3. l.arg \in Seq(Arg)
  BY <1>1, <1>2
<1>4. Len(l.arg) \in Nat /\ DOMAIN l.arg = 1 .. Len(l.arg)
  BY <1>3
<1> QED BY <1>1, <1>3, <1>4, Zenon

LEMMA ResultsKnown ==
  ASSUME NEW r \in Results, NEW m \in Memory, r.in = "var" => r.of \in Vars
  PROVE  /\ r.do = "return" /\ ResultText(m, r) \in Text
         /\ r.in = "buf" => r.of \in Texts
<1>1. /\ r.do = "return"
      /\ \/ r.in = "var" /\ r.of \in Vars
         \/ r.in = "text" /\ r.of \in Texts \cup {""}
         \/ r.in = "buf" /\ r.of \in Texts
  BY CallsAssumption
<1> DEFINE var == "var"
           text == "text"
           buf == "buf"
<1>2. var # text /\ var # buf /\ text # buf
  OBVIOUS
<1>3. r.in = var \/ r.in = text \/ r.in = buf
  BY <1>1
<1>4. r.in = buf => r.of \in Texts
  BY <1>1
<1>5. r.in # var => r.of \in Text
  BY <1>1 DEF Text
<1>6. r.in = var => Contents(m, r.of) \in Text
  BY Resolved
<1> QED BY <1>1, <1>4, <1>5, <1>6 DEF ResultText

LEMMA SetsKnown ==
  ASSUME NEW l \in Sets PROVE l.var \in Vars /\ l.text \in Text /\ l.do = "set"
<1>1. l \in [do : {"set"}, var : Vars, text : Text]
  BY CallsAssumption DEF Text
<1> QED BY <1>1

LEMMA Instanced ==
  ASSUME frames \in Seq(Activation), NEW f
  PROVE  Instances(f) > 0 <=> Runs(frames, Top, f)
<1> DEFINE is == {i \in DOMAIN frames : frames[i].func = f}
<1>1. Top \in Nat /\ DOMAIN frames = 1 .. Top
  BY StackFields DEF Top
<1>2. IsFiniteSet(is)
  <2>1. IsFiniteSet(1 .. Top)
    BY <1>1, FS_Interval
  <2> QED BY <1>1, <2>1, FS_Subset
<1>3. Runs(frames, Top, f) <=> is # {}
  BY <1>1 DEF Runs
<1> HIDE DEF is
<1>4. Cardinality(is) \in Nat /\ (Cardinality(is) = 0 <=> is = {})
  BY <1>2, FS_CardinalityType, FS_EmptySet
<1>5. Cardinality(is) > 0 <=> is # {}
  BY <1>4
<1> QED BY <1>3, <1>5 DEF Instances, is

\* The actual parameters after the backup.
LEMMA ConvertedArgs ==
  ASSUME NEW m \in Memory, NEW l \in Lines
  PROVE  LET arg == Converted(m, l.func, l.arg)
         IN /\ arg \in Seq(Arg) /\ Len(arg) = Len(l.arg)
            /\ \A j \in DOMAIN l.arg :
                 arg[j] = IF Params[l.func][j].byref THEN l.arg[j] ELSE Reads(m, l.arg[j])
<1> DEFINE L == Len(l.arg)
           One(j) == IF Params[l.func][j].byref THEN l.arg[j] ELSE Reads(m, l.arg[j])
           arg == [j \in DOMAIN l.arg |-> One(j)]
<1>1. l.arg \in Seq(Arg) /\ L \in Nat /\ DOMAIN l.arg = 1 .. L
  BY LinesKnown
<1>2. \A j \in DOMAIN l.arg : One(j) \in Arg
  <2>1. \A j \in DOMAIN l.arg : l.arg[j] \in Arg
    BY <1>1
  <2> QED BY <2>1, ReadsText DEF Arg
<1>3. arg \in [1 .. L -> Arg]
  BY <1>1, <1>2
<1>4. arg \in Seq(Arg) /\ Len(arg) = L
  BY <1>1, <1>3
<1>5. \A j \in DOMAIN l.arg : arg[j] = One(j)
  OBVIOUS
<1> QED BY <1>4, <1>5 DEF Converted

LEMMA CallArgs ==
  ASSUME NEW m \in Memory, NEW l \in Lines, NEW arg,
         arg = l.arg \/ arg = Converted(m, l.func, l.arg)
  PROVE  /\ arg \in Seq(Arg) /\ Len(arg) = Len(l.arg) /\ DOMAIN arg = DOMAIN l.arg
         /\ Len(arg) \in Nat /\ Len(arg) <= Len(Params[l.func])
<1>1. arg \in Seq(Arg) /\ Len(arg) = Len(l.arg)
  BY LinesKnown, ConvertedArgs
<1>2. DOMAIN arg = 1 .. Len(arg)
  BY <1>1
<1> QED BY <1>1, <1>2, LinesKnown

LEMMA ArgIsVar ==
  ASSUME NEW a \in Arg PROVE IsVar(a) => a \in Vars
BY DEF Arg, Text, IsVar

\* The ByRef parameter that is refused is the last that is not a variable.
LEMMA Refused ==
  ASSUME NEW f \in Funcs, NEW arg \in Seq(Arg), Len(arg) <= Len(Params[f]),
         NEW bad, bad = {j \in DOMAIN arg : Params[f][j].byref /\ ~IsVar(arg[j])}, bad # {},
         NEW last, last = CHOOSE j \in bad : \A k \in bad : k <= j
  PROVE  /\ last \in bad /\ last + 1 \in 1 .. Len(Params[f]) + 1
         /\ ArgsRight(f, arg, last + 1)
<1>1. /\ Len(arg) \in Nat /\ DOMAIN arg = 1 .. Len(arg) /\ Len(Params[f]) \in Nat
      /\ \A j \in DOMAIN arg : arg[j] \in Arg
  BY ParamsKnown
<1>2. bad \subseteq 0 .. Len(arg)
  BY <1>1
<1>3. \E j \in bad : \A k \in bad : k <= j
  BY <1>1, <1>2, GreatestNumber
<1>4. last \in bad /\ \A k \in bad : k <= last
  BY <1>3, Zenon
<1>5. last \in 1 .. Len(arg)
  BY <1>1, <1>4
<1>6. last + 1 \in 1 .. Len(Params[f]) + 1
  BY <1>1, <1>5
<1>7. ASSUME NEW j \in DOMAIN arg, j >= last + 1, Params[f][j].byref PROVE arg[j] \in Vars
  <2>1. ~(j <= last)
    BY <1>1, <1>5, <1>7
  <2>2. j \notin bad
    BY <1>4, <2>1
  <2> QED BY <1>1, <1>7, <2>2, ArgIsVar
<1> QED BY <1>1, <1>4, <1>6, <1>7 DEF ArgsRight

LEMMA AllRight ==
  ASSUME NEW f \in Funcs, NEW arg \in Seq(Arg), Len(arg) <= Len(Params[f]),
         \A j \in DOMAIN arg : Params[f][j].byref => IsVar(arg[j])
  PROVE  ArgsRight(f, arg, 1) /\ 1 \in 1 .. Len(Params[f]) + 1
<1>1. \A j \in DOMAIN arg : arg[j] \in Arg
  OBVIOUS
<1>2. \A j \in DOMAIN arg : Params[f][j].byref => arg[j] \in Vars
  BY <1>1, ArgIsVar
<1>3. Len(Params[f]) \in Nat
  BY ParamsKnown
<1> QED BY <1>2, <1>3 DEF ArgsRight

LEMMA InitInv ==
  ASSUME Init PROVE Inv
<1>1. frames = <<>> /\ Len(frames) = 0 /\ frames \in Seq(Activation)
  BY DEF Init
<1>2. Stack(frames)
  BY <1>1 DEF Stack
<1>3. mem = [var |-> [v \in Vars |-> NewVar], buf |-> FALSE, allocs |-> 0, simple |-> 0]
  BY DEF Init
<1>4. NewVar \in SoundVar
  <2>1. NewVar \in Var
    BY DEF NewVar, Var
  <2> QED BY <2>1 DEF NewVar, SoundVar
<1>5. mem \in Memory /\ mem.simple = 0
  BY <1>3, <1>4 DEF Memory
<1>6. 0 <= Cardinality(Used(mem, frames, 0))
  BY UsedCounted
<1>7. Base(mem, frames, 0)
  BY <1>5, <1>6 DEF Base, BackupsRight, Layered
<1> QED BY <1>1, <1>2, <1>7 DEF Inv, Top

LEMMA InvFields ==
  ASSUME Inv
  PROVE  /\ frames \in Seq(Activation) /\ Top \in Nat /\ Top = Len(frames)
         /\ mem \in Memory /\ Base(mem, frames, Top) /\ BackupsRight(frames, Top)
         /\ frames # <<>> => Top \in 1 .. Top /\ Top \in Nat \ {0}
<1>1. frames \in Seq(Activation) /\ Base(mem, frames, Top) /\ Top = Len(frames)
  BY DEF Inv, Stack, Top
<1>2. Top \in Nat
  BY <1>1
<1>3. frames # <<>> => Top # 0
  BY <1>1
<1> QED BY <1>1, <1>2, <1>3 DEF Base

LEMMA WithBufKeepsBase ==
  ASSUME NEW m, NEW fs, NEW k \in Nat, Base(m, fs, k)
  PROVE  Base(WithBuf(m), fs, k) /\ Base(TakeBuf(m), fs, k) /\ Base(PutBack(m), fs, k)
<1>1. m \in Memory
  BY DEF Base
<1>2. BufferMoves(m, WithBuf(m), 0) /\ BufferMoves(m, TakeBuf(m), 1)
      /\ BufferMoves(m, PutBack(m), -1)
  BY <1>1, WithBufIs, TakeBufIs, PutBackIs
<1> QED BY <1>2, MovesKeepBase

LEMMA SetKeeps ==
  ASSUME Inv, Set PROVE Inv'
<1>1. PICK l \in Sets : mem' = Assign(WithBuf(mem), l.var, l.text)
  BY DEF Set
<1>2. frames' = frames /\ Top' = Top
  BY DEF Set, Top
<1>3. Base(WithBuf(mem), frames, Top)
  BY InvFields, WithBufKeepsBase
<1>4. Base(mem', frames, Top)
  BY <1>1, <1>3, InvFields, SetsKnown, AssignKeepsBase
<1> QED BY <1>2, <1>4 DEF Inv

\* The activation that a call or a host starts.
LEMMA NextFrame ==
  ASSUME NEW m \in Memory, NEW f \in Funcs, NEW bkp,
         bkp = [v \in Own(f) |-> m.var[v]] \/ bkp = None
  PROVE  /\ bkp \in Backup \cup {None} /\ Frame(f, bkp) \in Activation
         /\ Frame(f, bkp).func = f /\ Frame(f, bkp).bkp = bkp
<1>1. Own(f) \subseteq Vars
  BY VarsKnown
<1>2. bkp \in [Own(f) -> SoundVar] \/ bkp = None
  BY <1>1, Fields
<1>3. bkp \in Backup \cup {None}
  BY <1>2 DEF Backup
<1> QED BY <1>3, FrameTyped

\* m0 is the memory when the line has taken its buffer; hs the activations with
\* that of the call.
Called(m0, m1, hs, f, bkp) ==
  /\ hs = Append(frames, Frame(f, bkp)) /\ bkp \in Backup \cup {None}
  /\ hs \in Seq(Activation) /\ Len(hs) = Top + 1 /\ Base(m0, frames, Top)
  /\ Enters(m0, m1, frames, hs, Top, f) /\ hs[Top + 1].bkp = bkp

LEMMA CallIsPush ==
  ASSUME Inv, frames # <<>>, NEW f \in Funcs,
         NEW m0, m0 = mem \/ m0 = TakeBuf(mem),
         NEW m1, m1 = IF Instances(f) > 0 THEN BackupFunctionVars(m0, f) ELSE m0,
         NEW bkp, bkp = IF Instances(f) > 0 THEN [v \in Own(f) |-> mem.var[v]] ELSE None,
         NEW hs, hs = Append(frames, Frame(f, bkp))
  PROVE  Called(m0, m1, hs, f, bkp)
<1>1. frames \in Seq(Activation) /\ Top \in Nat /\ Top = Len(frames) /\ mem \in Memory
      /\ Base(mem, frames, Top)
  BY InvFields
<1>2. Base(m0, frames, Top)
  BY <1>1, WithBufKeepsBase
<1>3. m0.var = mem.var
  BY <1>1, TakeBufIs DEF BufferMoves
<1>4. Instances(f) > 0 <=> Runs(frames, Top, f)
  BY <1>1, Instanced
<1>5. /\ bkp \in Backup \cup {None} /\ Frame(f, bkp) \in Activation
      /\ Frame(f, bkp).func = f /\ Frame(f, bkp).bkp = bkp
  <2>1. bkp = [v \in Own(f) |-> mem.var[v]] \/ bkp = None
    OBVIOUS
  <2> QED BY <1>1, <2>1, NextFrame
<1>6. Pushes(frames, hs, Frame(f, bkp))
  BY <1>1, <1>5, PushIs
<1>7. /\ hs \in Seq(Activation) /\ Len(hs) = Top + 1
      /\ hs[Top + 1].func = f /\ hs[Top + 1].bkp = bkp /\ SameCalls(frames, hs, Top)
  BY <1>1, <1>5, <1>6 DEF Pushes, SameCalls
<1>8. Enters(m0, m1, frames, hs, Top, f)
  BY <1>3, <1>4, <1>7 DEF Enters
<1> QED BY <1>2, <1>5, <1>7, <1>8 DEF Called

LEMMA CalledBase ==
  ASSUME Inv, NEW m0, NEW m1, NEW hs, NEW f \in Funcs, NEW bkp, Called(m0, m1, hs, f, bkp)
  PROVE  Base(m1, hs, Top + 1) /\ SameCalls(frames, hs, Top) /\ hs[Top + 1].func = f
<1>1. Top \in Nat
  BY InvFields
<1>2. Base(m1, hs, Top + 1)
  BY <1>1, EntersKeepsBase DEF Called
<1> QED BY <1>2 DEF Called, Enters

\* A call's first line is the caller's that starts to wait.
LineOfCall(l, line) ==
  /\ line \in LineState
  /\ \/ line = frames[Top].line /\ line.calls > 0
     \/ /\ line = [calls |-> l.calls, yields |-> l.yields, out |-> l.out, held |-> <<>>]
        /\ frames[Top].line.calls = 0

LEMMA CallLine ==
  ASSUME Inv, frames # <<>>, NEW l \in Lines, l.out \in Visible(CurrentFunc) \cup {NoVar},
         NEW line,
         line = IF Between
                THEN [calls |-> l.calls, yields |-> l.yields, out |-> l.out, held |-> <<>>]
                ELSE frames[Top].line
  PROVE  /\ LineOfCall(l, line) /\ line.out \in Vars \cup {NoVar}
         /\ line.calls > 0 /\ line.calls \in 1 .. 2 /\ line.yields \in 1 .. line.calls
         /\ line.out \in Visible(CurrentFunc) \cup {NoVar} /\ Len(line.held) < line.calls
<1>1. /\ frames \in Seq(Activation) /\ Top \in 1 .. Top /\ Top = Len(frames) /\ Stack(frames)
  BY InvFields DEF Inv
<1>2. /\ frames[Top].line \in LineState /\ LineRight(frames[Top])
      /\ frames[Top].line.calls = 0 \/ frames[Top].line.held # <<>>
      /\ frames[Top].line.calls \in 0 .. 2
  BY <1>1, StackFields DEF Stack
<1>3. Between <=> frames[Top].line.held = <<>>
  BY DEF Between
<1>4. CASE Between
  <2>1. line = [calls |-> l.calls, yields |-> l.yields, out |-> l.out, held |-> <<>>]
    BY <1>4
  <2>2. <<>> \in Seq(Text) /\ Len(<<>>) = 0
    OBVIOUS
  <2>3. /\ l.calls \in 1 .. 2 /\ l.yields \in 1 .. l.calls /\ l.out \in Vars \cup {NoVar}
        /\ l.calls \in 0 .. 2 /\ l.yields \in 0 .. 2 /\ l.calls > 0
    BY LinesKnown
  <2>4. line \in LineState
    <3> DEFINE h == <<>>
    <3>1. h \in Seq(Text)
      BY <2>2
    <3>2. line = [calls |-> l.calls, yields |-> l.yields, out |-> l.out, held |-> h]
      BY <2>1
    <3> HIDE DEF h
    <3>3. /\ l.calls \in 0 .. 2 /\ l.yields \in 0 .. 2 /\ l.out \in Vars \cup {NoVar}
      BY <2>3
    <3>4. [calls |-> l.calls, yields |-> l.yields, out |-> l.out, held |-> h] \in LineState
      BY <3>1, <3>3 DEF LineState
    <3> QED BY <3>2, <3>4
  <2>5. line.calls = l.calls /\ line.yields = l.yields /\ line.out = l.out /\ line.held = <<>>
    BY <2>1
  <2>6. frames[Top].line.calls = 0
    BY <1>2, <1>3, <1>4
  <2>7. LineOfCall(l, line)
    BY <2>1, <2>4, <2>6 DEF LineOfCall
  <2>8. Len(line.held) < line.calls
    BY <2>2, <2>3, <2>5
  <2> QED BY <2>3, <2>5, <2>7, <2>8
<1>5. CASE ~Between
  <2>1. line = frames[Top].line
    BY <1>5
  <2>2. line.held # <<>>
    BY <1>3, <1>5, <2>1
  <2>3. line # NoLine
    BY <2>2, NoLineTyped
  <2>4. /\ line.calls \in 1 .. 2 /\ line.yields \in 1 .. line.calls
        /\ line.out \in Visible(CurrentFunc) \cup {NoVar} /\ Len(line.held) < line.calls
    BY <1>2, <2>1, <2>3 DEF LineRight, CurrentFunc
  <2>5. line.out \in Vars \cup {NoVar}
    BY <1>1, <2>1, StackFields
  <2>6. line.calls > 0
    BY <2>4
  <2>7. LineOfCall(l, line)
    BY <1>2, <2>1, <2>6 DEF LineOfCall
  <2> QED BY <2>4, <2>5, <2>6, <2>7
<1> QED BY <1>4, <1>5

LEMMA RefusedKeeps ==
  ASSUME Inv, frames # <<>>, NEW f \in Funcs, NEW m0, NEW m1, NEW hs, NEW bkp,
         Called(m0, m1, hs, f, bkp), NEW arg \in Seq(Arg), Len(arg) <= Len(Params[f]),
         NEW out \in Vars \cup {NoVar}, RefusedCall(m1, f, arg, bkp, out)
  PROVE  Inv'
<1> DEFINE bad == {j \in DOMAIN arg : Params[f][j].byref /\ ~IsVar(arg[j])}
           last == CHOOSE j \in bad : \A k \in bad : k <= j
           from == last + 1
           m2 == Bind(m1, f, arg, from)
           m3 == FreeAndRestore(m2, f, bkp)
           m4 == PutBack(m3)
<1>1. /\ bad # {} /\ mem' = (IF out = NoVar THEN m4 ELSE Assign(m4, out, ""))
      /\ frames' = [frames EXCEPT ![Top].line = NoLine]
  BY DEF RefusedCall
<1>2. from \in 1 .. Len(Params[f]) + 1 /\ ArgsRight(f, arg, from)
  <2> HIDE DEF bad
  <2> DEFINE b == bad
  <2>1. from = last + 1 /\ last = CHOOSE j \in b : \A k \in b : k <= j
    OBVIOUS
  <2>2. b = {j \in DOMAIN arg : Params[f][j].byref /\ ~IsVar(arg[j])} /\ b # {}
    BY <1>1 DEF bad
  <2> HIDE DEF b, last
  <2> QED BY <2>1, <2>2, Refused
<1> HIDE DEF bad, from
<1>3. Top \in Nat /\ Top + 1 \in Nat \ {0} /\ (Top + 1) - 1 = Top /\ Top \in 1 .. Top
      /\ frames \in Seq(Activation) /\ Top = Len(frames)
  BY InvFields
<1>4. Base(m1, hs, Top + 1) /\ SameCalls(frames, hs, Top)
      /\ hs[Top + 1].func = f /\ hs[Top + 1].bkp = bkp
  BY CalledBase DEF Called
<1>5. Base(m2, hs, Top + 1)
  BY <1>2, <1>3, <1>4, BindKeepsBase
<1> HIDE DEF m2
<1>6. Base(m3, hs, Top)
  <2> DEFINE K == Top + 1
  <2>1. K \in Nat \ {0} /\ K - 1 = Top /\ Base(m2, hs, K)
        /\ hs[K].func = f /\ hs[K].bkp = bkp
    BY <1>3, <1>4, <1>5
  <2> HIDE DEF K
  <2>2. Base(FreeAndRestore(m2, hs[K].func, hs[K].bkp), hs, K - 1)
    BY <2>1, LeavesKeepsBase
  <2> QED BY <2>1, <2>2
<1>7. Base(m4, hs, Top)
  BY <1>3, <1>6, WithBufKeepsBase
<1> HIDE DEF m3, m4
<1>8. Base(mem', hs, Top)
  <2>1. CASE out = NoVar
    BY <1>1, <1>7, <2>1
  <2>2. CASE out # NoVar
    <3> DEFINE x == ""
    <3>1. x \in Text /\ mem' = Assign(m4, out, x) /\ out \in Vars
      BY <1>1, <2>2 DEF Text
    <3> HIDE DEF x
    <3> QED BY <1>3, <1>7, <3>1, AssignKeepsBase
  <2> QED BY <2>1, <2>2
<1>9. Relined(frames, frames', Top, NoLine)
  BY <1>1, <1>3, NoLineTyped, SetLine
<1>10. Len(frames') = Top /\ SameCalls(hs, frames', Top) /\ frames'[Top].line = NoLine
  BY <1>4, <1>9 DEF Relined, SameCalls
<1>11. Base(mem', frames', Len(frames'))
  BY <1>3, <1>8, <1>10, SameCallsKeepBase
<1>12. Stack(frames')
  <2>1. LineRight(frames'[Top]) /\ Stack(frames)
    BY <1>10 DEF LineRight, Inv
  <2> QED BY <1>3, <1>9, <2>1, NoLineTyped, RelineKeepsStack
<1> QED BY <1>11, <1>12 DEF Inv, Top

LEMMA BoundKeeps ==
  ASSUME Inv, frames # <<>>, NEW l \in Lines, NEW f \in Funcs, NEW m0, NEW m1, NEW hs,
         NEW bkp, Called(m0, m1, hs, f, bkp),
         NEW arg \in Seq(Arg), Len(arg) <= Len(Params[f]), NEW line, LineOfCall(l, line),
         line.calls \in 1 .. 2, line.yields \in 1 .. line.calls,
         line.out \in Visible(CurrentFunc) \cup {NoVar}, Len(line.held) < line.calls,
         Bound(m1, f, arg, bkp, line)
  PROVE  Inv'
<1> DEFINE gs == [frames EXCEPT ![Top].line = line]
           fr == Frame(f, bkp)
<1>1. /\ \A j \in DOMAIN arg : Params[f][j].byref => IsVar(arg[j])
      /\ mem' = Bind(m1, f, arg, 1) /\ frames' = Append(gs, fr)
  BY DEF Bound
<1>2. ArgsRight(f, arg, 1) /\ 1 \in 1 .. Len(Params[f]) + 1
  BY <1>1, AllRight
<1>3. /\ Top \in Nat /\ Top + 1 \in Nat /\ Top \in 1 .. Top
      /\ frames \in Seq(Activation) /\ Top = Len(frames) /\ Stack(frames)
  BY InvFields DEF Inv
<1>4. Base(m1, hs, Top + 1) /\ SameCalls(frames, hs, Top)
      /\ hs[Top + 1].func = f /\ hs[Top + 1].bkp = bkp /\ bkp \in Backup \cup {None}
  BY CalledBase DEF Called
<1>5. Base(mem', hs, Top + 1)
  <2> DEFINE from == 1
  <2>1. ArgsRight(f, arg, from) /\ from \in 1 .. Len(Params[f]) + 1
        /\ mem' = Bind(m1, f, arg, from)
    BY <1>1, <1>2
  <2> HIDE DEF from
  <2> QED BY <1>3, <1>4, <2>1, BindKeepsBase
<1>6. line \in LineState
  BY DEF LineOfCall
<1>7. Relined(frames, gs, Top, line)
  BY <1>3, <1>6, SetLine
<1>8. /\ fr \in Activation /\ fr.func = f /\ fr.bkp = bkp /\ fr.line = NoLine
  BY <1>4, FrameTyped
<1> HIDE DEF gs, fr
<1>9. /\ gs \in Seq(Activation) /\ Len(gs) = Top /\ gs[Top].line = line
      /\ SameCalls(frames, gs, Top) /\ \A i \in 1 .. Top - 1 : gs[i] = frames[i]
  BY <1>7 DEF Relined
<1>10. Pushes(gs, frames', fr)
  BY <1>1, <1>8, <1>9, PushIs
<1>11. /\ Len(frames') = Top + 1 /\ frames'[Top + 1] = fr /\ frames' \in Seq(Activation)
       /\ \A i \in 1 .. Top : frames'[i] = gs[i]
  BY <1>9, <1>10 DEF Pushes
<1>12. SameCalls(hs, frames', Top + 1)
  <2>1. \A i \in 1 .. Top + 1 : i = Top + 1 \/ i \in 1 .. Top
    BY <1>3
  <2> QED BY <1>4, <1>8, <1>9, <1>11, <2>1 DEF SameCalls
<1>13. Base(mem', frames', Len(frames'))
  BY <1>3, <1>5, <1>11, <1>12, SameCallsKeepBase
<1>14. Stack(frames')
  <2>1. \A i \in 1 .. Top : LineRight(gs[i])
    <3>1. LineRight(gs[Top])
      <4>1. gs[Top].func = CurrentFunc
        BY <1>3, <1>9 DEF SameCalls, CurrentFunc
      <4> QED BY <1>9, <4>1 DEF LineRight
    <3>2. \A i \in 1 .. Top - 1 : LineRight(gs[i])
      BY <1>3, <1>9 DEF Stack
    <3>3. \A i \in 1 .. Top : i = Top \/ i \in 1 .. Top - 1
      BY <1>3
    <3> QED BY <3>1, <3>2, <3>3
  <2>2. LineRight(fr)
    BY <1>8 DEF LineRight
  <2>3. \A i \in 1 .. Top + 1 : LineRight(frames'[i])
    <3>1. \A i \in 1 .. Top + 1 : i = Top + 1 \/ i \in 1 .. Top
      BY <1>3
    <3> QED BY <1>11, <2>1, <2>2, <3>1
  <2>4. ASSUME NEW i \in 1 .. Top, frames'[i].line.calls > 0
        PROVE frames'[i + 1].func \in Funcs
    <3>1. CASE i = Top
      BY <1>8, <1>11, <3>1
    <3>2. CASE i # Top
      <4>1. i \in 1 .. Top - 1 /\ i + 1 \in 1 .. Top /\ i \in 1 .. Len(frames) - 1
        BY <1>3, <3>2
      <4>2. frames'[i] = frames[i] /\ frames'[i + 1] = gs[i + 1]
        BY <1>9, <1>11, <4>1
      <4>3. frames[i + 1].func \in Funcs
        BY <1>3, <2>4, <4>1, <4>2 DEF Stack
      <4> QED BY <1>9, <4>1, <4>2, <4>3 DEF SameCalls
    <3> QED BY <3>1, <3>2
  <2>5. (Top + 1) - 1 = Top /\ frames'[Top + 1].line.calls = 0
    BY <1>3, <1>8, <1>11, NoLineTyped
  <2> QED BY <1>11, <2>3, <2>4, <2>5 DEF Stack
<1> QED BY <1>13, <1>14 DEF Inv, Top

LEMMA CallKeeps ==
  ASSUME Inv, Call PROVE Inv'
<1>1. frames # <<>>
  BY DEF Call
<1>2. PICK l \in Lines :
        LET f == l.func
            line == IF Between
                    THEN [calls |-> l.calls, yields |-> l.yields, out |-> l.out, held |-> <<>>]
                    ELSE frames[Top].line
            m0 == IF Between THEN TakeBuf(mem) ELSE mem
            live == Instances(f) > 0
            bkp == IF live THEN [v \in Own(f) |-> mem.var[v]] ELSE None
            m1 == IF live THEN BackupFunctionVars(m0, f) ELSE m0
            arg == IF live THEN Converted(m0, f, l.arg) ELSE l.arg
        IN /\ CanRead(l)
           /\ RefusedCall(m1, f, arg, bkp, line.out) \/ Bound(m1, f, arg, bkp, line)
  BY DEF Call
<1> DEFINE f == l.func
           line == IF Between
                   THEN [calls |-> l.calls, yields |-> l.yields, out |-> l.out, held |-> <<>>]
                   ELSE frames[Top].line
           m0 == IF Between THEN TakeBuf(mem) ELSE mem
           live == Instances(f) > 0
           bkp == IF live THEN [v \in Own(f) |-> mem.var[v]] ELSE None
           m1 == IF live THEN BackupFunctionVars(m0, f) ELSE m0
           arg == IF live THEN Converted(m0, f, l.arg) ELSE l.arg
           hs == Append(frames, Frame(f, bkp))
<1>3. RefusedCall(m1, f, arg, bkp, line.out) \/ Bound(m1, f, arg, bkp, line)
  BY <1>2
<1>4. f \in Funcs /\ l.out \in Visible(CurrentFunc) \cup {NoVar}
  BY <1>2, LinesKnown DEF CanRead
<1>5. /\ LineOfCall(l, line) /\ line.out \in Vars \cup {NoVar}
      /\ line.calls \in 1 .. 2 /\ line.yields \in 1 .. line.calls
      /\ line.out \in Visible(CurrentFunc) \cup {NoVar} /\ Len(line.held) < line.calls
  <2> DEFINE k == line
  <2>1. k = IF Between
            THEN [calls |-> l.calls, yields |-> l.yields, out |-> l.out, held |-> <<>>]
            ELSE frames[Top].line
    OBVIOUS
  <2> HIDE DEF k
  <2>2. /\ LineOfCall(l, k) /\ k.out \in Vars \cup {NoVar}
        /\ k.calls \in 1 .. 2 /\ k.yields \in 1 .. k.calls
        /\ k.out \in Visible(CurrentFunc) \cup {NoVar} /\ Len(k.held) < k.calls
    BY <1>1, <1>4, <2>1, CallLine
  <2> QED BY <2>2 DEF k
<1>6. m0 = mem \/ m0 = TakeBuf(mem)
  OBVIOUS
<1>7. m0 \in Memory
  <2>1. mem \in Memory
    BY InvFields
  <2> QED BY <2>1, TakeBufIs DEF BufferMoves
<1>8. Called(m0, m1, hs, f, bkp)
  <2> HIDE DEF m0
  <2>1. m1 = IF Instances(f) > 0 THEN BackupFunctionVars(m0, f) ELSE m0
    OBVIOUS
  <2>2. bkp = IF Instances(f) > 0 THEN [v \in Own(f) |-> mem.var[v]] ELSE None
    OBVIOUS
  <2>3. hs = Append(frames, Frame(f, bkp))
    OBVIOUS
  <2> HIDE DEF m1, bkp, hs, f
  <2> QED BY <1>1, <1>4, <1>6, <2>1, <2>2, <2>3, CallIsPush
<1>9. arg \in Seq(Arg) /\ Len(arg) <= Len(Params[f])
  <2>1. arg = l.arg \/ arg = Converted(m0, l.func, l.arg)
    OBVIOUS
  <2> HIDE DEF arg, m0
  <2> QED BY <1>7, <2>1, CallArgs
<1> HIDE DEF f, line, m0, m1, bkp, arg, hs
<1>10. CASE RefusedCall(m1, f, arg, bkp, line.out)
  BY <1>1, <1>4, <1>5, <1>8, <1>9, <1>10, RefusedKeeps
<1>11. CASE Bound(m1, f, arg, bkp, line)
  BY <1>1, <1>4, <1>5, <1>8, <1>9, <1>11, BoundKeeps
<1> QED BY <1>3, <1>10, <1>11

\* What the shortcut stores before the function's variables are freed.
Stored(m, out, r) ==
  CASE out = NoVar -> m
    [] out # NoVar /\ r.in = "buf" /\ Size[r.of] = 2 -> AcceptNewMem(m, out, r.of)
    [] OTHER -> Assign(m, out, ResultText(m, r))

LEMMA StoredIs ==
  ASSUME NEW m, NEW out, NEW r
  PROVE  \/ out = NoVar /\ Stored(m, out, r) = m
         \/ /\ out # NoVar /\ r.in = "buf" /\ Size[r.of] = 2
            /\ Stored(m, out, r) = AcceptNewMem(m, out, r.of)
         \/ out # NoVar /\ Stored(m, out, r) = Assign(m, out, ResultText(m, r))
<1> DEFINE buf == r.in = "buf" /\ Size[r.of] = 2
<1>1. Stored(m, out, r) = CASE out = NoVar -> m
                            [] out # NoVar /\ buf -> AcceptNewMem(m, out, r.of)
                            [] OTHER -> Assign(m, out, ResultText(m, r))
  BY Zenon DEF Stored
<1>2. CASE out = NoVar
  <2>1. ~(out # NoVar /\ buf)
    BY <1>2
  <2> HIDE DEF buf
  <2> QED BY <1>1, <1>2, <2>1, Zenon
<1>3. CASE out # NoVar /\ buf
  <2>1. Stored(m, out, r) = AcceptNewMem(m, out, r.of)
    <3> HIDE DEF buf
    <3> QED BY <1>1, <1>3, Zenon
  <2> QED BY <1>3, <2>1
<1>4. CASE out # NoVar /\ ~buf
  <2>1. Stored(m, out, r) = Assign(m, out, ResultText(m, r))
    <3> HIDE DEF buf
    <3> QED BY <1>1, <1>4, Zenon
  <2> QED BY <1>4, <2>1
<1> QED BY <1>2, <1>3, <1>4

LEMMA StoredWrites ==
  ASSUME NEW m \in Memory, NEW out \in Vars, NEW r \in Results,
         r.in = "var" => r.of \in Vars, r.in = "buf" => m.buf = TRUE
  PROVE  Writes(m, Stored(m, out, r), Resolve(m, out))
<1>1. out # NoVar
  BY VarsKnown
<1>2. CASE r.in = "buf" /\ Stored(m, out, r) = AcceptNewMem(m, out, r.of)
  <2>1. r.of \in Text
    BY <1>2, ResultsKnown DEF Text
  <2>2. Writes(m, AcceptNewMem(m, out, r.of), Resolve(m, out))
    BY <1>2, <2>1, Accepts
  <2> QED BY <1>2, <2>2
<1>3. CASE Stored(m, out, r) = Assign(m, out, ResultText(m, r))
  <2>1. ResultText(m, r) \in Text
    BY ResultsKnown
  <2>2. Writes(m, Assign(m, out, ResultText(m, r)), Resolve(m, out))
    BY <2>1, Assigns
  <2> QED BY <1>3, <2>2
<1> QED BY <1>1, <1>2, <1>3, StoredIs

LEMMA StoredKeepsBase ==
  ASSUME NEW m, NEW fs, NEW k \in Nat, Base(m, fs, k), NEW out \in Vars \cup {NoVar},
         NEW r \in Results, r.in = "var" => r.of \in Vars, r.in = "buf" => m.buf = TRUE
  PROVE  Base(Stored(m, out, r), fs, k)
<1>1. m \in Memory
  BY DEF Base
<1>2. CASE out = NoVar
  BY <1>2, StoredIs
<1>3. CASE out # NoVar
  <2>1. out \in Vars /\ Resolve(m, out) \in Vars
    BY <1>1, <1>3, Resolved
  <2>2. Writes(m, Stored(m, out, r), Resolve(m, out))
    BY <1>1, <2>1, StoredWrites
  <2> QED BY <2>1, <2>2, WriteKeepsBase
<1> QED BY <1>2, <1>3

\* The line is over: it gives its buffer back.
LEMMA EndLineKeeps ==
  ASSUME Inv, NEW n \in 1 .. Top, NEW m, Base(m, frames, n), EndLine(m, n)
  PROVE  Inv'
<1>1. mem' = PutBack(m) /\ frames' = [SubSeq(frames, 1, n) EXCEPT ![n].line = NoLine]
  BY DEF EndLine
<1>2. frames \in Seq(Activation) /\ Top = Len(frames) /\ n \in Nat /\ Stack(frames)
  BY InvFields DEF Inv
<1>3. Base(mem', frames, n)
  BY <1>1, <1>2, WithBufKeepsBase
<1>4. Relined(frames, frames', n, NoLine)
  BY <1>1, <1>2, NoLineTyped, CutThenSet
<1>5. Len(frames') = n /\ SameCalls(frames, frames', n) /\ frames'[n].line = NoLine
  BY <1>4 DEF Relined
<1>6. Base(mem', frames', Len(frames'))
  BY <1>2, <1>3, <1>5, SameCallsKeepBase
<1>7. Stack(frames')
  <2>1. LineRight(frames'[n])
    BY <1>5 DEF LineRight
  <2>2. NoLine \in LineState /\ NoLine.calls = 0
    BY NoLineTyped
  <2> QED BY <1>2, <1>4, <2>1, <2>2, RelineKeepsStack
<1> QED BY <1>6, <1>7 DEF Inv, Top

\* The result is kept: results are those the line has now.
LEMMA ResultsHeld ==
  ASSUME NEW l \in LineState, NEW x \in Text, NEW results, results = Append(l.held, x)
  PROVE  /\ results \in Seq(Text) /\ Len(results) = Len(l.held) + 1 /\ results # <<>>
         /\ Len(l.held) \in Nat /\ DOMAIN results = 1 .. Len(results)
<1>1. l.held \in Seq(Text)
  BY DEF LineState
<1> QED BY <1>1

LEMMA DeliverKeeps ==
  ASSUME Inv, NEW n, n = Top - 1, Top > 1, NEW m, Base(m, frames, Top),
         NEW f \in Funcs, f = frames[Top].func, NEW bkp, bkp = frames[Top].bkp,
         NEW r \in Results, r.in = "var" => r.of \in Vars, r.in = "buf" => m.buf = TRUE,
         frames[n].line.calls # 0, Deliver(m, n, f, bkp, r)
  PROVE  Inv'
<1> DEFINE line == frames[n].line
           x == ResultText(m, r)
           back == FreeAndRestore(m, f, bkp)
           results == Append(line.held, x)
           short == /\ line.calls = 1
                    /\ \/ line.out = NoVar
                       \/ ~AboutToBeRestored(f, bkp, frames[n].func, line.out)
           l == [line EXCEPT !.held = results]
<1>1. /\ frames \in Seq(Activation) /\ Top = Len(frames) /\ Top \in Nat \ {0}
      /\ n \in 1 .. Top /\ n \in Nat /\ Stack(frames) /\ Top - 1 = n
  <2>1. Top \in Nat /\ frames \in Seq(Activation) /\ Top = Len(frames) /\ Stack(frames)
    BY InvFields DEF Inv
  <2> QED BY <2>1
<1>2. m \in Memory
  BY DEF Base
<1>3. Base(back, frames, n)
  BY <1>1, LeavesKeepsBase
<1>4. /\ line \in LineState /\ line.calls \in 1 .. 2 /\ line.yields \in 1 .. line.calls
      /\ line.out \in Visible(frames[n].func) \cup {NoVar}
      /\ line.out \in Vars \cup {NoVar}
      /\ Len(line.held) < line.calls
  <2>1. LineRight(frames[n]) /\ line \in LineState /\ line.out \in Vars \cup {NoVar}
    BY <1>1, StackFields DEF Stack
  <2>2. line # NoLine
    BY NoLineTyped
  <2> QED BY <2>1, <2>2 DEF LineRight
<1>5. x \in Text
  BY <1>2, ResultsKnown
<1>6. /\ results \in Seq(Text) /\ Len(results) = Len(line.held) + 1 /\ results # <<>>
      /\ Len(line.held) \in Nat /\ DOMAIN results = 1 .. Len(results)
  <2> DEFINE k == line
             y == x
             res == results
  <2>1. k \in LineState /\ y \in Text /\ res = Append(k.held, y)
    BY <1>4, <1>5
  <2> HIDE DEF k, y, res
  <2>2. /\ res \in Seq(Text) /\ Len(res) = Len(k.held) + 1 /\ res # <<>>
        /\ Len(k.held) \in Nat /\ DOMAIN res = 1 .. Len(res)
    BY <2>1, ResultsHeld
  <2> QED BY <2>2 DEF k, res
<1>7. \/ short /\ EndLine(Shortcut(m, f, bkp, line.out, r), n)
      \/ /\ Len(results) < line.calls /\ mem' = back
         /\ frames' = [SubSeq(frames, 1, n) EXCEPT ![n].line.held = results]
      \/ /\ ~(Len(results) < line.calls)
         /\ EndLine(IF line.out = NoVar THEN back
                    ELSE Assign(back, line.out, results[line.yields]), n)
  BY Zenon DEF Deliver, Persistent
<1> HIDE DEF back, results, x, short
<1>8. CASE EndLine(Shortcut(m, f, bkp, line.out, r), n)
  <2> DEFINE s == Stored(m, line.out, r)
  <2>1. Shortcut(m, f, bkp, line.out, r) = FreeAndRestore(s, f, bkp)
    BY DEF Shortcut, Stored
  <2>2. Base(s, frames, Top)
    BY <1>1, <1>4, StoredKeepsBase
  <2> HIDE DEF s
  <2>3. Base(FreeAndRestore(s, f, bkp), frames, n)
    BY <1>1, <2>2, LeavesKeepsBase
  <2> QED BY <1>1, <1>8, <2>1, <2>3, EndLineKeeps
<1>9. CASE /\ Len(results) < line.calls /\ mem' = back
           /\ frames' = [SubSeq(frames, 1, n) EXCEPT ![n].line.held = results]
  <2>1. l \in LineState /\ l.held = results /\ l.calls = line.calls
        /\ l.yields = line.yields /\ l.out = line.out
    <3> DEFINE k == line
               j == l
    <3>1. k \in LineState /\ j = [k EXCEPT !.held = results]
      BY <1>4
    <3> HIDE DEF k, j
    <3>2. j \in LineState /\ j.held = results /\ j.calls = k.calls
          /\ j.yields = k.yields /\ j.out = k.out
      BY <1>6, <3>1, HeldLine
    <3> QED BY <3>2 DEF k, j
  <2>2. Relined(frames, frames', n, l)
    BY <1>1, <1>6, <1>9, CutThenHold
  <2> HIDE DEF l
  <2>3. Len(frames') = n /\ SameCalls(frames, frames', n) /\ frames'[n].line = l
        /\ frames'[n].func = frames[n].func
    BY <1>1, <2>2 DEF Relined, SameCalls
  <2>4. LineRight(frames'[n])
    BY <1>4, <1>9, <2>1, <2>3 DEF LineRight
  <2>5. l.held # <<>>
    BY <1>6, <2>1
  <2>6. Stack(frames')
    BY <1>1, <2>1, <2>2, <2>4, <2>5, RelineKeepsStack
  <2>7. Base(mem', frames', Len(frames'))
    BY <1>1, <1>3, <1>9, <2>3, SameCallsKeepBase
  <2> QED BY <2>6, <2>7 DEF Inv, Top
<1>10. CASE /\ ~(Len(results) < line.calls)
            /\ EndLine(IF line.out = NoVar THEN back
                       ELSE Assign(back, line.out, results[line.yields]), n)
  <2> DEFINE out == line.out
             y == results[line.yields]
             s == IF out = NoVar THEN back ELSE Assign(back, out, y)
  <2>1. y \in Text
    <3>1. line.yields \in 1 .. Len(results)
      BY <1>4, <1>6, <1>10
    <3> QED BY <1>6, <3>1
  <2>2. out \in Vars \cup {NoVar}
    BY <1>4
  <2> HIDE DEF out, y
  <2>3. Base(s, frames, n)
    BY <1>1, <1>3, <2>1, <2>2, AssignKeepsBase
  <2>4. EndLine(s, n)
    BY <1>10 DEF out, y
  <2> HIDE DEF s
  <2> QED BY <1>1, <2>3, <2>4, EndLineKeeps
<1> QED BY <1>7, <1>8, <1>9, <1>10

LEMMA ReturnKeeps ==
  ASSUME Inv, Return PROVE Inv'
<1>1. frames # <<>> /\ CurrentFunc # NoFunc
  BY DEF Return
<1>2. PICK r \in Results :
        /\ r.in = "var" => r.of \in Visible(CurrentFunc)
        /\ LET top == frames[Top]
               m == IF r.in = "buf" THEN WithBuf(mem) ELSE mem
           IN IF Top = 1 \/ frames[Top - 1].line.calls = 0
              THEN /\ mem' = FreeAndRestore(m, top.func, top.bkp)
                   /\ frames' = SubSeq(frames, 1, Top - 1)
              ELSE Deliver(m, Top - 1, top.func, top.bkp, r)
  BY DEF Return
<1> DEFINE m == IF r.in = "buf" THEN WithBuf(mem) ELSE mem
           f == frames[Top].func
           bkp == frames[Top].bkp
           n == Top - 1
<1>3. /\ frames \in Seq(Activation) /\ Top \in Nat \ {0} /\ Top = Len(frames) /\ Top \in 1 .. Top
      /\ mem \in Memory /\ Base(mem, frames, Top) /\ Stack(frames)
      /\ n \in Nat /\ n \in 0 .. Len(frames)
  <2>1. /\ frames \in Seq(Activation) /\ Top \in Nat \ {0} /\ Top = Len(frames)
        /\ mem \in Memory /\ Base(mem, frames, Top) /\ Stack(frames)
    BY <1>1, InvFields DEF Inv
  <2> QED BY <2>1
<1>4. f \in Funcs
  <2>1. f \in Funcs \cup {NoFunc}
    BY <1>3, StackFields
  <2> QED BY <1>1, <2>1 DEF CurrentFunc
<1>5. r.in = "var" => r.of \in Vars
  BY <1>2, <1>4, VarsKnown DEF CurrentFunc
<1>6. Base(m, frames, Top) /\ (r.in = "buf" => m.buf = TRUE)
  <2>1. Base(WithBuf(mem), frames, Top) /\ WithBuf(mem).buf = TRUE
    BY <1>3, WithBufKeepsBase, WithBufIs
  <2> QED BY <1>3, <2>1
<1>7. IF Top = 1 \/ frames[n].line.calls = 0
      THEN mem' = FreeAndRestore(m, f, bkp) /\ frames' = SubSeq(frames, 1, n)
      ELSE Deliver(m, n, f, bkp, r)
  BY <1>2
<1> HIDE DEF m
<1>8. CASE Top = 1 \/ frames[n].line.calls = 0
  <2>1. Base(mem', frames, n)
    BY <1>3, <1>4, <1>6, <1>7, <1>8, LeavesKeepsBase
  <2>2. Cut(frames, frames', n)
    BY <1>3, <1>7, <1>8, CutIs
  <2>3. Len(frames') = n /\ SameCalls(frames, frames', n)
    BY <2>2 DEF Cut, SameCalls
  <2>4. Base(mem', frames', Len(frames'))
    BY <1>3, <2>1, <2>3, SameCallsKeepBase
  <2>5. n > 0 => frames[n].line.calls = 0
    BY <1>3, <1>8
  <2>6. Stack(frames')
    BY <1>3, <2>2, <2>5, CutKeepsStack
  <2> QED BY <2>4, <2>6 DEF Inv, Top
<1>9. CASE ~(Top = 1 \/ frames[n].line.calls = 0)
  <2>1. Deliver(m, n, f, bkp, r) /\ frames[n].line.calls # 0 /\ Top > 1
    BY <1>3, <1>7, <1>9
  <2> HIDE DEF n, f, bkp
  <2>2. n = Top - 1 /\ f = frames[Top].func /\ bkp = frames[Top].bkp
    BY DEF n, f, bkp
  <2> QED BY <1>4, <1>5, <1>6, <2>1, <2>2, DeliverKeeps
<1> QED BY <1>8, <1>9

LEMMA BasesKnown ==
  ASSUME Inv, frames # <<>>, NEW k, k = CHOOSE i \in Bases : \A j \in Bases : j <= i
  PROVE  k \in Bases /\ (\A j \in Bases : j <= k) /\ k \in 1 .. Top
<1>1. Top \in Nat /\ Top >= 1
  BY InvFields
<1>2. 1 \in Bases /\ Bases \subseteq 0 .. Top
  BY <1>1 DEF Bases
<1>3. \E i \in Bases : \A j \in Bases : j <= i
  BY <1>1, <1>2, GreatestNumber
<1>4. k \in Bases /\ \A j \in Bases : j <= k
  BY <1>3, Zenon
<1> QED BY <1>4 DEF Bases

LEMMA ExitKeeps ==
  ASSUME Inv, Exit PROVE Inv'
<1> DEFINE k == CHOOSE i \in Bases : \A j \in Bases : j <= i
           n == k - 1
<1>1. frames # <<>> /\ mem' = Unwound(k) /\ frames' = SubSeq(frames, 1, n)
  BY DEF Exit
<1>2. k \in Bases /\ k \in 1 .. Top
  <2> DEFINE i == k
  <2>1. i = CHOOSE i_1 \in Bases : \A j \in Bases : j <= i_1
    OBVIOUS
  <2> HIDE DEF i
  <2>2. i \in Bases /\ i \in 1 .. Top
    BY <1>1, <2>1, BasesKnown
  <2> QED BY <2>2 DEF i
<1> HIDE DEF k
<1>3. /\ frames \in Seq(Activation) /\ Top \in Nat /\ Top = Len(frames) /\ mem \in Memory
      /\ Base(mem, frames, Top) /\ BackupsRight(frames, Top) /\ Stack(frames)
      /\ n \in 0 .. Len(frames) /\ n \in Nat
  <2>1. /\ frames \in Seq(Activation) /\ Top \in Nat /\ Top = Len(frames) /\ mem \in Memory
        /\ Base(mem, frames, Top) /\ BackupsRight(frames, Top) /\ Stack(frames)
    BY InvFields DEF Inv
  <2> QED BY <1>2, <2>1
<1>4. n > 0 => frames[n].line.calls = 0
  BY <1>2, <1>3 DEF Bases
<1> DEFINE I == [i \in 1 .. Top + 1 |-> {x \in Memory : Base(x, frames, i - 1)}]
<1>5. \A i \in 1 .. Top + 1 : I[i] = {x \in Memory : Base(x, frames, i - 1)}
  OBVIOUS
<1> HIDE DEF I
<1>6. mem \in I[Top + 1]
  <2>1. Top + 1 \in 1 .. Top + 1 /\ (Top + 1) - 1 = Top
    BY <1>3
  <2> QED BY <1>3, <1>5, <2>1
<1>7. ASSUME NEW i \in k .. Top, NEW x \in Memory, x \in I[i + 1]
      PROVE  UnwindOne(x, i, k) \in I[i]
  <2>1. /\ i \in 1 .. Top /\ i \in Nat \ {0} /\ i - 1 \in Nat /\ i \in 1 .. Top + 1
        /\ i + 1 \in 1 .. Top + 1 /\ (i + 1) - 1 = i
    BY <1>2, <1>3
  <2>2. Base(x, frames, i)
    BY <1>5, <1>7, <2>1
  <2>3. Base(Left(x, i), frames, i - 1)
    <3>1. CASE frames[i].func = NoFunc
      BY <2>1, <2>2, <3>1, ThreadKeepsBase DEF Left
    <3>2. CASE frames[i].func # NoFunc
      <4>1. frames[i].func \in Funcs
        BY <1>3, <2>1, <3>2, StackFields
      <4> QED BY <2>1, <2>2, <3>2, <4>1, LeavesKeepsBase DEF Left
    <3> QED BY <3>1, <3>2
  <2>4. Base(PutBack(Left(x, i)), frames, i - 1)
    BY <2>1, <2>3, WithBufKeepsBase
  <2>5. Base(UnwindOne(x, i, k), frames, i - 1)
    BY <2>3, <2>4 DEF UnwindOne
  <2>6. UnwindOne(x, i, k) \in Memory
    BY <2>5 DEF Base
  <2> QED BY <1>5, <2>1, <2>5, <2>6
<1>8. mem' \in I[k]
  BY <1>1, <1>2, <1>3, <1>6, <1>7, UnwindInduction
<1>9. Base(mem', frames, n)
  <2>1. k \in 1 .. Top + 1
    BY <1>2, <1>3
  <2> QED BY <1>5, <1>8, <2>1
<1>10. Cut(frames, frames', n)
  BY <1>1, <1>3, CutIs
<1>11. Len(frames') = n /\ SameCalls(frames, frames', n)
  BY <1>10 DEF Cut, SameCalls
<1>12. Base(mem', frames', Len(frames'))
  BY <1>3, <1>9, <1>11, SameCallsKeepBase
<1>13. Stack(frames')
  BY <1>3, <1>4, <1>10, CutKeepsStack
<1> QED BY <1>12, <1>13 DEF Inv, Top

\* Between two lines nobody waits on the last activation.
LEMMA NobodyWaits ==
  ASSUME Inv, Between
  PROVE  Len(frames) > 0 => frames[Len(frames)].line.calls = 0
<1>1. Top = Len(frames) /\ frames \in Seq(Activation) /\ Stack(frames)
  BY InvFields DEF Inv
<1>2. Len(frames) > 0 => frames # <<>> /\ frames[Top].line.held = <<>>
  BY <1>1 DEF Between
<1> QED BY <1>1, <1>2 DEF Stack

LEMMA ThreadKeeps ==
  ASSUME Inv, Thread PROVE Inv'
<1> DEFINE fr == Frame(NoFunc, None)
           K == Top + 1
<1>1. Between /\ mem' = mem /\ frames' = Append(frames, fr)
  BY DEF Thread, Interrupts
<1>2. /\ frames \in Seq(Activation) /\ Top \in Nat /\ Top = Len(frames)
      /\ Base(mem, frames, Top) /\ Stack(frames)
  BY InvFields DEF Inv
<1>3. /\ NoFunc \in Funcs \cup {NoFunc} /\ None \in Backup \cup {None}
      /\ fr \in Activation /\ fr.func = NoFunc /\ fr.bkp = None
  BY FrameTyped
<1>4. Pushes(frames, frames', fr)
  BY <1>1, <1>2, <1>3, PushIs
<1>5. Stack(frames')
  <2>1. Len(frames) > 0 => (frames[Len(frames)].line.calls > 0 => NoFunc \in Funcs)
    BY <1>1, NobodyWaits
  <2> DEFINE f == NoFunc
             b == None
  <2>2. /\ f \in Funcs \cup {NoFunc} /\ b \in Backup \cup {None}
        /\ Pushes(frames, frames', Frame(f, b))
        /\ Len(frames) > 0 => (frames[Len(frames)].line.calls > 0 => f \in Funcs)
    BY <1>3, <1>4, <2>1
  <2> HIDE DEF f, b, fr
  <2> QED BY <1>2, <2>2, PushKeepsStack
<1> HIDE DEF fr
<1>6. /\ Len(frames') = K /\ frames'[K] = fr /\ SameCalls(frames, frames', Top)
      /\ K \in Nat \ {0} /\ K - 1 = Top
  BY <1>2, <1>4 DEF Pushes, SameCalls
<1> HIDE DEF K
<1>7. Base(mem, frames', K - 1)
  BY <1>2, <1>6, SameCallsKeepBase
<1>8. Base(mem, frames', K)
  BY <1>3, <1>6, <1>7, ThreadKeepsBase
<1> QED BY <1>1, <1>5, <1>6, <1>8 DEF Inv, Top

\* A host's call: the activation it starts, and what its parameters are.
LEMMA CallFuncIs ==
  ASSUME CallFunc
  PROVE  \E f \in HostFuncs : \E arg \in [DOMAIN Params[f] -> Texts] :
           /\ said' = [do |-> "host", func |-> f, arg |-> arg]
           /\ mem' = Given(IF Instances(f) > 0 THEN BackupFunctionVars(mem, f) ELSE mem, f, arg)
           /\ frames' = Append(frames, Frame(f, IF Instances(f) > 0
                                                THEN [v \in Own(f) |-> mem.var[v]] ELSE None))
BY Zenon DEF CallFunc, Given

LEMMA CallFuncKeeps ==
  ASSUME Inv, CallFunc PROVE Inv'
<1>0. PICK f \in HostFuncs : \E arg \in [DOMAIN Params[f] -> Texts] :
        /\ mem' = Given(IF Instances(f) > 0 THEN BackupFunctionVars(mem, f) ELSE mem, f, arg)
        /\ frames' = Append(frames, Frame(f, IF Instances(f) > 0
                                             THEN [v \in Own(f) |-> mem.var[v]] ELSE None))
  BY CallFuncIs
<1>1. PICK arg \in [DOMAIN Params[f] -> Texts] :
        /\ mem' = Given(IF Instances(f) > 0 THEN BackupFunctionVars(mem, f) ELSE mem, f, arg)
        /\ frames' = Append(frames, Frame(f, IF Instances(f) > 0
                                             THEN [v \in Own(f) |-> mem.var[v]] ELSE None))
  BY <1>0
<1> DEFINE m1 == IF Instances(f) > 0 THEN BackupFunctionVars(mem, f) ELSE mem
           bkp == IF Instances(f) > 0 THEN [v \in Own(f) |-> mem.var[v]] ELSE None
           K == Top + 1
           L == Len(Params[f])
<1>2. f \in Funcs
  BY CallsAssumption
<1>3. /\ frames \in Seq(Activation) /\ Top \in Nat /\ Top = Len(frames)
      /\ Base(mem, frames, Top) /\ Stack(frames) /\ mem \in Memory
  BY InvFields DEF Inv
<1>4. Between
  BY DEF CallFunc, Interrupts
<1>5. bkp \in Backup \cup {None} /\ Frame(f, bkp) \in Activation
      /\ Frame(f, bkp).func = f /\ Frame(f, bkp).bkp = bkp
  <2>1. bkp = [v \in Own(f) |-> mem.var[v]] \/ bkp = None
    OBVIOUS
  <2> HIDE DEF bkp
  <2> QED BY <1>2, <1>3, <2>1, NextFrame
<1>6. Pushes(frames, frames', Frame(f, bkp))
  BY <1>1, <1>3, <1>5, PushIs
<1>7. Stack(frames')
  BY <1>2, <1>3, <1>4, <1>5, <1>6, NobodyWaits, PushKeepsStack
<1>8. /\ Len(frames') = K /\ frames'[K].func = f /\ frames'[K].bkp = bkp
      /\ SameCalls(frames, frames', Top) /\ K \in Nat
  BY <1>3, <1>5, <1>6 DEF Pushes, SameCalls
<1>9. Enters(mem, m1, frames, frames', Top, f)
  <2>1. Instances(f) > 0 <=> Runs(frames, Top, f)
    BY <1>3, Instanced
  <2> QED BY <1>8, <2>1 DEF Enters
<1> HIDE DEF bkp
<1>10. Base(m1, frames', K)
  BY <1>2, <1>3, <1>9, EntersKeepsBase
<1>11. m1 \in Memory /\ mem' = Given(m1, f, arg)
  BY <1>1, <1>10 DEF Base
<1> HIDE DEF m1, K
<1> DEFINE I == [j \in 0 .. L |-> {x \in Memory : Base(x, frames', K)}]
<1>12. L \in Nat /\ DOMAIN Params[f] = 1 .. L
  BY <1>2, ParamsKnown
<1>13. \A j \in 0 .. L : I[j] = {x \in Memory : Base(x, frames', K)}
  OBVIOUS
<1> HIDE DEF I
<1>14. ASSUME NEW j \in 1 .. L, NEW x \in Memory, x \in I[j - 1]
       PROVE  Assign(x, Params[f][j].var, arg[j]) \in I[j]
  <2>1. j \in DOMAIN Params[f] /\ j \in 0 .. L /\ j - 1 \in 0 .. L
    BY <1>12
  <2>2. Params[f][j].var \in Vars
    BY <1>2, <2>1, ParamsKnown, VarsKnown
  <2>3. arg[j] \in Text
    BY <2>1 DEF Text
  <2>4. Base(x, frames', K)
    BY <1>13, <1>14, <2>1
  <2>5. Base(Assign(x, Params[f][j].var, arg[j]), frames', K)
    BY <1>8, <2>2, <2>3, <2>4, AssignKeepsBase
  <2> QED BY <1>13, <2>1, <2>5 DEF Base
<1>15. m1 \in I[0]
  BY <1>10, <1>11, <1>12, <1>13
<1>16. mem' \in I[L]
  BY <1>2, <1>11, <1>14, <1>15, GivenInduction
<1>17. Base(mem', frames', K)
  BY <1>12, <1>13, <1>16
<1> QED BY <1>7, <1>8, <1>17 DEF Inv, Top

LEMMA TimeoutKeeps ==
  ASSUME Inv, DerefTimeout PROVE Inv'
<1> DEFINE b == FALSE
           a == mem.allocs - 1
           z == 0
<1>1. mem' = [mem EXCEPT !.buf = FALSE, !.allocs = @ - 1] /\ mem.buf
      /\ frames' = frames /\ Top' = Top
  BY DEF DerefTimeout, Top
<1>2. /\ mem \in Memory /\ Top \in Nat /\ Base(mem, frames, Top) /\ mem.allocs \in Int
      /\ mem.buf \in BOOLEAN
  BY InvFields, Fields
<1>3. b \in BOOLEAN /\ a \in Int /\ z \in Int /\ mem' = [mem EXCEPT !.buf = b, !.allocs = a]
  BY <1>1, <1>2
<1>4. Differ(mem, b, a, z)
  BY <1>1, <1>2 DEF Differ, Has
<1> HIDE DEF b, a, z
<1>5. BufferIs(mem', mem, b, a)
  BY <1>2, <1>3, BufferTyped
<1>6. BufferMoves(mem, mem', z)
  BY <1>2, <1>3, <1>4, <1>5, Buffers
<1>7. Base(mem', frames, Top)
  BY <1>2, <1>6, MovesKeepBase
<1> QED BY <1>1, <1>7 DEF Inv

LEMMA NextInv ==
  ASSUME Inv, [Next]_vars PROVE Inv'
<1>1. CASE UNCHANGED vars
  BY <1>1 DEF vars, Inv, Top
<1>2. CASE Next
  BY <1>2, SetKeeps, CallKeeps, ReturnKeeps, ExitKeeps, ThreadKeeps, CallFuncKeeps,
     TimeoutKeeps DEF Next
<1> QED BY <1>1, <1>2

\* SimpleHeap, whose memory is never given back, grows by at most one block for each
\* variable, however functions call themselves, are interrupted and exit: a backup
\* leaves the next layer nothing that could make it take another (var.cpp, Backup).
THEOREM SimpleHeapAlwaysBounded == Spec => []SimpleHeapBounded
<1>1. Inv => SimpleHeapBounded
  <2> SUFFICES ASSUME Inv PROVE SimpleHeapBounded
    OBVIOUS
  <2> DEFINE u == Cardinality(Used(mem, frames, Top))
             v == Cardinality(Vars)
             s == mem.simple
  <2>1. s <= u /\ s \in Nat
    BY InvFields, Fields DEF Base
  <2>2. u <= v /\ u \in Nat /\ v \in Nat
    BY UsedCounted, VarsKnown, FS_CardinalityType
  <2> HIDE DEF u, v, s
  <2>3. s <= v
    BY <2>1, <2>2
  <2> QED BY <2>3 DEF SimpleHeapBounded, s, v
<1> QED BY <1>1, InitInv, NextInv, PTL DEF Spec

-------------------------------------------------------------------------------
(***************************************************************************)
(* Who owns the blocks of memory, and the types of it all: theorems about  *)
(* calls of functions for scripts in which no result is lost (run          *)
(* calls_alias) and hosts that call functions without ByRef parameters.    *)
(* The text of a host for a ByRef parameter may be assigned through an     *)
(* alias to another alias, for which Resolve is not what Var::Assign does. *)
(***************************************************************************)

\* No function that a host calls has a ByRef parameter, to which callFunc would assign
\* a text through an alias of an earlier call.
HostByValue == \A f \in HostFuncs : \A j \in DOMAIN Params[f] : ~Params[f][j].byref

-------------------------------------------------------------------------------
(* Aliases. *)

\* Only a ByRef parameter stands for another variable, and it has no block then:
\* neither mVar nor a backup.
RefVars ==
  {v \in Vars : \E f \in Funcs : \E j \in DOMAIN Params[f] :
                  Params[f][j].byref /\ Params[f][j].var = v}
Plain(r, v) == r.alias # NoVar => v \in RefVars /\ ~Owned(r)
OnlyRefs(m, fs, k) ==
  /\ \A v \in Vars : Plain(m.var[v], v)
  /\ \A i \in 1 .. k : \A v \in DOMAIN fs[i].bkp : Plain(fs[i].bkp[v], v)

\* A function of which there is no activation has no blocks.
Idle(m, fs, k) ==
  \A f \in Funcs : ~Runs(fs, k, f) => \A v \in Own(f) : ~Owned(m.var[v])

\* Is w a variable of a function that runs among the first i, or of none?
Running(fs, i, w) == \A f \in Funcs : w \in Own(f) => Runs(fs, i, f)

\* A[i] is what the aliases are when the activations above the i-th have returned.
Targets == [Vars -> Vars \cup {NoVar}]
AliasesOf(m) == [v \in Vars |-> m.var[v].alias]
Under(a, b) == [v \in Vars |-> IF v \in DOMAIN b THEN b[v].alias ELSE a[v]]
Layers(A, m, fs, k) ==
  /\ A \in [0 .. k -> Targets] /\ A[k] = AliasesOf(m)
  /\ \A i \in 1 .. k : A[i - 1] = Under(A[i], fs[i].bkp)

\* What a parameter of the i-th activation stands for is no alias itself, and
\* belongs to an activation among the first i.
Direct(a, fs, i) ==
  \A v \in Own(fs[i].func) :
    a[v] # NoVar => a[a[v]] = NoVar /\ Running(fs, i, a[v])

\* The variable that a result is for is not among those that will be restored.
Awaits(a, fs, n) ==
  LET out == fs[n].line.out
  IN fs[n].line.calls > 0 /\ out # NoVar /\ fs[n + 1].func # fs[n].func
       => a[out] \notin Own(fs[n + 1].func)

Standing(m, fs, k, r) ==
  \E A \in [0 .. k -> Targets] :
    /\ Layers(A, m, fs, k)
    /\ \A i \in 1 .. r : Direct(A[i], fs, i)
    /\ \A n \in 1 .. k - 1 : Awaits(A[n], fs, n)

-------------------------------------------------------------------------------
(* Blocks. *)

\* The blocks that belong to an activation: its backup, and its line's buffer.
Waits(fr) == IF fr.line.calls > 0 THEN 1 ELSE 0
Weighs(fr) == Weight(fr) + Waits(fr)

\* The first k activations own s blocks together.
Owed(fs, k, s) ==
  \E H \in [0 .. k -> Int] :
    /\ H[0] = 0 /\ H[k] = s
    /\ \A i \in 1 .. k : H[i] = H[i - 1] + Weighs(fs[i])

\* y blocks are neither a variable's, nor an activation's, nor the buffer.
Sound(m, fs, k, r, y) ==
  /\ OnlyRefs(m, fs, k) /\ Idle(m, fs, k) /\ Standing(m, fs, k, r)
  /\ Owed(fs, k, Surplus(m) - y)

LEMMA RefVarsKnown ==
  /\ RefVars \subseteq Vars
  /\ RefVars \cap (Globals \cup StaticVars) = {}
  /\ \A f \in Funcs : \A j \in DOMAIN Params[f] :
        Params[f][j].var \in RefVars <=> Params[f][j].byref
  /\ \A f \in Funcs : \A v \in Own(f) \cap RefVars :
        \E j \in DOMAIN Params[f] : Params[f][j].byref /\ Params[f][j].var = v
<1>1. RefVars \subseteq Vars
  BY DEF RefVars
<1>2. ASSUME NEW v \in RefVars, NEW f \in Funcs, v \in Own(f)
      PROVE  \E j \in DOMAIN Params[f] : Params[f][j].byref /\ Params[f][j].var = v
  <2>1. PICK e \in Funcs : \E j \in DOMAIN Params[e] :
               Params[e][j].byref /\ Params[e][j].var = v
    BY DEF RefVars
  <2>2. PICK j \in DOMAIN Params[e] : Params[e][j].byref /\ Params[e][j].var = v
    BY <2>1
  <2>3. v \in Own(e)
    BY <2>2, ParamsKnown
  <2>4. e = f
    BY <1>2, <2>3, VarsKnown
  <2> QED BY <2>2, <2>4
<1>3. \A v \in RefVars : v \notin Globals \cup StaticVars
  <2> SUFFICES ASSUME NEW v \in RefVars PROVE v \notin Globals \cup StaticVars
    OBVIOUS
  <2>1. PICK e \in Funcs : \E j \in DOMAIN Params[e] :
               Params[e][j].byref /\ Params[e][j].var = v
    BY DEF RefVars
  <2>2. v \in Own(e)
    BY <2>1, ParamsKnown
  <2> QED BY <2>2, VarsKnown
<1>4. ASSUME NEW f \in Funcs, NEW j \in DOMAIN Params[f]
      PROVE  Params[f][j].var \in RefVars <=> Params[f][j].byref
  <2>1. Params[f][j].var \in Own(f) /\ Params[f][j].var \in Vars
    BY ParamsKnown, VarsKnown
  <2>2. Params[f][j].byref => Params[f][j].var \in RefVars
    BY <2>1 DEF RefVars
  <2>3. ASSUME Params[f][j].var \in RefVars PROVE Params[f][j].byref
    <3>1. PICK i \in DOMAIN Params[f] : Params[f][i].byref /\ Params[f][i].var = Params[f][j].var
      BY <1>2, <2>1, <2>3
    <3>2. i = j
      BY <3>1, ParamsKnown
    <3> QED BY <3>1, <3>2
  <2> QED BY <2>2, <2>3
<1> QED BY <1>1, <1>2, <1>3, <1>4

LEMMA AliasesTyped ==
  ASSUME NEW m \in Memory
  PROVE  AliasesOf(m) \in Targets /\ \A v \in Vars : AliasesOf(m)[v] = m.var[v].alias
<1>1. \A v \in Vars : m.var[v].alias \in Vars \cup {NoVar}
  BY Fields
<1> QED BY <1>1 DEF AliasesOf, Targets

\* A variable that may be written to.
Target(m, fs, k, w) ==
  w \in Vars /\ m.var[w].alias = NoVar /\ Running(fs, k, w)

\* What a function's line names is one, directly or as what a parameter stands for.
LEMMA TargetOf ==
  ASSUME NEW m \in Memory, NEW fs, NEW k \in Nat \ {0}, OnlyRefs(m, fs, k),
         Standing(m, fs, k, k), fs[k].func \in Funcs \cup {NoFunc},
         NEW v \in Visible(fs[k].func)
  PROVE  Target(m, fs, k, Resolve(m, v))
<1> DEFINE g == fs[k].func
<1>1. v \in Vars /\ Resolve(m, v) \in Vars /\ m.var[v].alias \in Vars \cup {NoVar}
  <2>1. v \in Vars
    BY VarsKnown
  <2> QED BY <2>1, Resolved, Fields
<1>2. PICK A \in [0 .. k -> Targets] :
         A[k] = AliasesOf(m) /\ \A i \in 1 .. k : Direct(A[i], fs, i)
  BY DEF Standing, Layers
<1>3. Direct(AliasesOf(m), fs, k)
  BY <1>2
<1>4. v \in Own(g) => g \in Funcs
  BY VarsKnown
<1>5. CASE m.var[v].alias = NoVar
  <2>1. Resolve(m, v) = v
    BY <1>5 DEF Resolve
  <2>2. Running(fs, k, v)
    <3>1. \A f \in Funcs : v \in Own(f) => f = g
      <4>1. g \in Funcs => Statics[g] \subseteq StaticVars
        BY DEF StaticVars
      <4>2. v \in Own(g) \/ v \in Globals \cup StaticVars
        BY <4>1 DEF Visible
      <4> HIDE DEF g
      <4> QED BY <1>4, <4>2, VarsKnown
    <3>2. Runs(fs, k, g)
      BY DEF Runs
    <3> QED BY <3>1, <3>2 DEF Running
  <2> QED BY <1>1, <1>5, <2>1, <2>2 DEF Target
<1>6. CASE m.var[v].alias # NoVar
  <2>1. v \in RefVars
    BY <1>1, <1>6 DEF OnlyRefs, Plain
  <2>2. v \in Own(g)
    <3>1. v \notin Globals \cup StaticVars
      BY <2>1, RefVarsKnown
    <3>2. g \in Funcs => Statics[g] \subseteq StaticVars
      BY DEF StaticVars
    <3> QED BY <3>1, <3>2 DEF Visible
  <2>3. Resolve(m, v) = m.var[v].alias
    BY <1>6 DEF Resolve
  <2>4. /\ AliasesOf(m)[v] = m.var[v].alias
        /\ AliasesOf(m)[Resolve(m, v)] = m.var[Resolve(m, v)].alias
    BY <1>1, AliasesTyped
  <2> QED BY <1>1, <1>3, <1>6, <2>2, <2>3, <2>4 DEF Direct, Target
<1> QED BY <1>5, <1>6

-------------------------------------------------------------------------------
(* The number of blocks. *)

LEMMA WeightTyped ==
  ASSUME NEW fs, NEW k \in Nat, BackupsRight(fs, k), NEW i \in 1 .. k
  PROVE  Weight(fs[i]) \in Int /\ Waits(fs[i]) \in Int /\ Weighs(fs[i]) \in Int
<1>1. Waits(fs[i]) \in Int
  BY DEF Waits
<1>2. IsFiniteSet(Kept(fs[i]))
  <2>1. DOMAIN fs[i].bkp \subseteq Vars
    BY BackedUp
  <2> QED BY <2>1, VarsKnown, FS_Subset DEF Kept
<1>3. Weight(fs[i]) \in Int
  <2>1. Cardinality(Kept(fs[i])) \in Nat
    BY <1>2, FS_CardinalityType
  <2> QED BY <2>1 DEF Weight
<1> QED BY <1>1, <1>3 DEF Weighs

LEMMA OwedTyped ==
  ASSUME NEW fs, NEW k \in Nat, NEW s, Owed(fs, k, s) PROVE s \in Int
<1>1. PICK H \in [0 .. k -> Int] : H[k] = s
  BY DEF Owed
<1> QED BY <1>1

\* One activation more, and one less.
LEMMA OwedNext ==
  ASSUME NEW fs, NEW gs, NEW k \in Nat, NEW s, Owed(fs, k, s),
         \A i \in 1 .. k : Weighs(gs[i]) = Weighs(fs[i]),
         Weighs(gs[k + 1]) \in Int
  PROVE  Owed(gs, k + 1, s + Weighs(gs[k + 1]))
<1>1. PICK H \in [0 .. k -> Int] :
         /\ H[0] = 0 /\ H[k] = s
         /\ \A i \in 1 .. k : H[i] = H[i - 1] + Weighs(fs[i])
  BY DEF Owed
<1> DEFINE w == Weighs(gs[k + 1])
           J == [i \in 0 .. k + 1 |-> IF i = k + 1 THEN s + w ELSE H[i]]
<1>2. s \in Int /\ w \in Int
  BY OwedTyped
<1>3. /\ \A i \in 0 .. k : J[i] = H[i]
      /\ J[k + 1] = s + w
      /\ J \in [0 .. k + 1 -> Int]
  <2> HIDE DEF w
  <2>1. \A i \in 0 .. k : i \in 0 .. k + 1 /\ i # k + 1
    OBVIOUS
  <2>2. \A i \in 0 .. k + 1 : i = k + 1 \/ i \in 0 .. k
    OBVIOUS
  <2> QED BY <1>1, <1>2, <2>1, <2>2
<1> HIDE DEF J
<1>4. ASSUME NEW i \in 1 .. k + 1 PROVE J[i] = J[i - 1] + Weighs(gs[i])
  <2>1. CASE i = k + 1
    <3>1. i - 1 = k /\ k \in 0 .. k
      BY <2>1
    <3> QED BY <1>1, <1>3, <2>1, <3>1
  <2>2. CASE i # k + 1
    <3>1. i \in 1 .. k /\ i \in 0 .. k /\ i - 1 \in 0 .. k
      BY <2>2
    <3> QED BY <1>1, <1>3, <3>1
  <2> QED BY <2>1, <2>2
<1>5. J[0] = 0
  <2>1. 0 \in 0 .. k
    OBVIOUS
  <2> QED BY <1>1, <1>3, <2>1
<1> HIDE DEF w
<1>6. Owed(gs, k + 1, s + w)
  BY <1>3, <1>4, <1>5 DEF Owed
<1> QED BY <1>6 DEF w

LEMMA OwedLast ==
  ASSUME NEW fs, NEW k \in Nat \ {0}, NEW s, Owed(fs, k, s), Weighs(fs[k]) \in Int
  PROVE  Owed(fs, k - 1, s - Weighs(fs[k]))
<1>1. PICK H \in [0 .. k -> Int] :
         /\ H[0] = 0 /\ H[k] = s
         /\ \A i \in 1 .. k : H[i] = H[i - 1] + Weighs(fs[i])
  BY DEF Owed
<1> DEFINE J == [i \in 0 .. k - 1 |-> H[i]]
           w == Weighs(fs[k])
<1>2. \A i \in 0 .. k - 1 : i \in 0 .. k
  OBVIOUS
<1>3. J \in [0 .. k - 1 -> Int] /\ \A i \in 0 .. k - 1 : J[i] = H[i]
  BY <1>1, <1>2
<1> HIDE DEF J, w
<1>4. J[k - 1] = s - w
  <2>1. k \in 1 .. k /\ k - 1 \in 0 .. k - 1 /\ k - 1 \in 0 .. k /\ w \in Int
    BY DEF w
  <2>2. H[k] = H[k - 1] + w /\ H[k - 1] \in Int
    BY <1>1, <2>1 DEF w
  <2> QED BY <1>1, <1>3, <2>1, <2>2
<1>5. ASSUME NEW i \in 1 .. k - 1 PROVE J[i] = J[i - 1] + Weighs(fs[i])
  <2>1. i \in 1 .. k /\ i \in 0 .. k - 1 /\ i - 1 \in 0 .. k - 1
    OBVIOUS
  <2> QED BY <1>1, <1>3, <2>1
<1>6. J[0] = 0
  <2>1. 0 \in 0 .. k - 1
    OBVIOUS
  <2> QED BY <1>1, <1>3, <2>1
<1>7. Owed(fs, k - 1, s - w)
  BY <1>3, <1>4, <1>5, <1>6 DEF Owed
<1> QED BY <1>7 DEF w

LEMMA OwedSame ==
  ASSUME NEW fs, NEW gs, NEW k \in Nat, NEW s, Owed(fs, k, s),
         \A i \in 1 .. k : Weighs(gs[i]) = Weighs(fs[i])
  PROVE  Owed(gs, k, s)
BY DEF Owed

\* The last line starts to wait, or no longer does.
LEMMA OwedRelined ==
  ASSUME NEW fs, NEW gs, NEW k \in Nat \ {0}, NEW s, Owed(fs, k, s), BackupsRight(fs, k),
         \A i \in 1 .. k - 1 : gs[i] = fs[i], gs[k].bkp = fs[k].bkp
  PROVE  Owed(gs, k, s + Waits(gs[k]) - Waits(fs[k]))
<1>1. k \in 1 .. k /\ k - 1 \in Nat /\ (k - 1) + 1 = k /\ k \in Nat
  OBVIOUS
<1>2. Weight(fs[k]) \in Int /\ Weighs(fs[k]) \in Int /\ Waits(fs[k]) \in Int
  BY <1>1, WeightTyped
<1>3. Weight(gs[k]) = Weight(fs[k])
  BY DEF Weight, Kept
<1>4. Waits(gs[k]) \in Int
  BY DEF Waits
<1>5. Weighs(gs[k]) = Weight(fs[k]) + Waits(gs[k]) /\ Weighs(gs[k]) \in Int
      /\ Weighs(fs[k]) = Weight(fs[k]) + Waits(fs[k])
  BY <1>2, <1>3, <1>4 DEF Weighs
<1>6. Owed(fs, k - 1, s - Weighs(fs[k]))
  BY <1>2, OwedLast
<1> DEFINE n == k - 1
           t == s - Weighs(fs[k])
<1>7. Owed(gs, n + 1, t + Weighs(gs[n + 1]))
  <2>1. Owed(fs, n, t) /\ n \in Nat /\ n + 1 = k
    BY <1>1, <1>6
  <2>2. \A i \in 1 .. n : Weighs(gs[i]) = Weighs(fs[i])
    OBVIOUS
  <2> HIDE DEF n, t
  <2>3. Weighs(gs[n + 1]) \in Int
    BY <1>5, <2>1
  <2> QED BY <2>1, <2>2, <2>3, OwedNext
<1>8. t + Weighs(gs[k]) = s + Waits(gs[k]) - Waits(fs[k])
  <2>1. s \in Int
    BY <1>1, OwedTyped
  <2> DEFINE a == Weight(fs[k])
             b == Waits(fs[k])
             c == Waits(gs[k])
  <2>2. Weighs(gs[k]) = a + c /\ t = s - (a + b) /\ a \in Int /\ b \in Int /\ c \in Int
    BY <1>2, <1>4, <1>5
  <2> HIDE DEF a, b, c, t
  <2>3. t + Weighs(gs[k]) = s + c - b
    BY <2>1, <2>2
  <2> QED BY <2>3 DEF b, c
<1> QED BY <1>1, <1>7, <1>8

-------------------------------------------------------------------------------
(* What writes, buffers, lines, returns and calls do to it all. *)

\* Another memory with the same aliases.
LEMMA AliasesKeepStanding ==
  ASSUME NEW m, NEW n, NEW fs, NEW k, NEW r, Standing(m, fs, k, r),
         \A v \in Vars : n.var[v].alias = m.var[v].alias
  PROVE  Standing(n, fs, k, r)
<1>1. AliasesOf(n) = AliasesOf(m)
  BY DEF AliasesOf
<1> QED BY <1>1 DEF Standing, Layers

LEMMA WriteKeepsSound ==
  ASSUME NEW m \in Memory, NEW n, NEW fs, NEW k, NEW r, NEW y, Sound(m, fs, k, r, y),
         NEW v, Target(m, fs, k, v), Writes(m, n, v)
  PROVE  Sound(n, fs, k, r, y)
<1>1. /\ n \in Memory /\ n.var[v].alias = NoVar /\ v \in Vars /\ Surplus(n) = Surplus(m)
      /\ \A u \in Vars : u # v => n.var[u] = m.var[u]
      /\ \A u \in Vars : n.var[u].alias = m.var[u].alias
  BY DEF Writes, Target
<1>2. OnlyRefs(n, fs, k)
  <2>1. \A u \in Vars : Plain(n.var[u], u)
    BY <1>1 DEF Sound, OnlyRefs, Plain
  <2> QED BY <2>1 DEF Sound, OnlyRefs
<1>3. Idle(n, fs, k)
  <2> SUFFICES ASSUME NEW f \in Funcs, ~Runs(fs, k, f), NEW u \in Own(f)
               PROVE  ~Owned(n.var[u])
    BY DEF Idle
  <2>1. u # v
    BY DEF Target, Running
  <2>2. u \in Vars
    BY VarsKnown
  <2>3. ~Owned(m.var[u])
    BY DEF Sound, Idle
  <2> QED BY <1>1, <2>1, <2>2, <2>3
<1>4. Standing(n, fs, k, r)
  BY <1>1, AliasesKeepStanding DEF Sound
<1> QED BY <1>1, <1>2, <1>3, <1>4 DEF Sound

LEMMA MoveKeepsSound ==
  ASSUME NEW m \in Memory, NEW n, NEW fs, NEW k, NEW r, NEW y \in Int, NEW x \in Int,
         Sound(m, fs, k, r, y), BufferMoves(m, n, x)
  PROVE  Sound(n, fs, k, r, y + x)
<1>1. n.var = m.var /\ Surplus(n) = Surplus(m) + x /\ Surplus(m) \in Int
  BY SurplusTyped DEF BufferMoves
<1> DEFINE a == Surplus(n)
           b == Surplus(m)
<1>2. a - (y + x) = b - y
  <2>1. a = b + x /\ b \in Int
    BY <1>1
  <2> HIDE DEF a, b
  <2> QED BY <2>1
<1>3. Owed(fs, k, a - (y + x))
  BY <1>2 DEF Sound
<1>4. Standing(n, fs, k, r)
  BY <1>1, AliasesKeepStanding DEF Sound
<1> QED BY <1>1, <1>3, <1>4 DEF Sound, OnlyRefs, Idle

\* Only what the activations run, have backed up and wait for matters.
LEMMA SameKeepsStanding ==
  ASSUME NEW m, NEW fs, NEW gs, NEW k \in Nat, NEW r, r <= k, r \in Nat,
         Standing(m, fs, k, r), SameCalls(fs, gs, k),
         \A i \in 1 .. k - 1 : gs[i].line = fs[i].line
  PROVE  Standing(m, gs, k, r)
<1>1. PICK A \in [0 .. k -> Targets] :
         /\ Layers(A, m, fs, k)
         /\ \A i \in 1 .. r : Direct(A[i], fs, i)
         /\ \A n \in 1 .. k - 1 : Awaits(A[n], fs, n)
  BY DEF Standing
<1>2. \A i \in 1 .. k : gs[i].func = fs[i].func /\ gs[i].bkp = fs[i].bkp
  BY DEF SameCalls
<1>3. Layers(A, m, gs, k)
  BY <1>1, <1>2 DEF Layers
<1>4. ASSUME NEW i \in 1 .. k, NEW w PROVE Running(gs, i, w) <=> Running(fs, i, w)
  <2>1. \A j \in 1 .. i : j \in 1 .. k
    OBVIOUS
  <2> QED BY <1>2, <2>1 DEF Running, Runs
<1>5. \A i \in 1 .. r : Direct(A[i], gs, i)
  <2>1. \A i \in 1 .. r : i \in 1 .. k
    OBVIOUS
  <2> QED BY <1>1, <1>2, <1>4, <2>1 DEF Direct
<1>6. ASSUME NEW n \in 1 .. k - 1 PROVE Awaits(A[n], gs, n)
  <2>1. n \in 1 .. k /\ n + 1 \in 1 .. k
    OBVIOUS
  <2>2. Awaits(A[n], fs, n)
    BY <1>1
  <2> QED BY <1>2, <2>1, <2>2 DEF Awaits
<1> QED BY <1>1, <1>3, <1>5, <1>6 DEF Standing

LEMMA SameKeepsSound ==
  ASSUME NEW m \in Memory, NEW fs, NEW gs, NEW k \in Nat, NEW r \in Nat, r <= k, NEW y \in Int,
         Sound(m, fs, k, r, y), BackupsRight(fs, k), SameCalls(fs, gs, k),
         \A i \in 1 .. k - 1 : gs[i] = fs[i],
         NEW z \in Int, IF k = 0 THEN z = y ELSE z = y + Waits(fs[k]) - Waits(gs[k])
  PROVE  Sound(m, gs, k, r, z)
<1>1. \A i \in 1 .. k : gs[i].func = fs[i].func /\ gs[i].bkp = fs[i].bkp
  BY DEF SameCalls
<1>2. OnlyRefs(m, gs, k) /\ Idle(m, gs, k)
  BY <1>1 DEF Sound, OnlyRefs, Idle, Runs
<1>3. Standing(m, gs, k, r)
  BY SameKeepsStanding DEF Sound
<1>4. Owed(gs, k, Surplus(m) - z)
  <2>1. CASE k = 0
    <3>1. \A i \in 1 .. k : Weighs(gs[i]) = Weighs(fs[i])
      BY <2>1
    <3> QED BY <2>1, <3>1, OwedSame DEF Sound
  <2>2. CASE k # 0
    <3> DEFINE s == Surplus(m) - y
               a == Waits(gs[k])
               b == Waits(fs[k])
    <3>1. Owed(fs, k, s) /\ k \in Nat \ {0} /\ gs[k].bkp = fs[k].bkp
      BY <1>1, <2>2 DEF Sound
    <3> HIDE DEF s
    <3>2. Owed(gs, k, s + a - b)
      BY <3>1, OwedRelined
    <3>3. a \in Int /\ b \in Int /\ Surplus(m) \in Int
      BY SurplusTyped DEF Waits
    <3>4. z = y + b - a
      BY <2>2
    <3> HIDE DEF a, b
    <3>5. s + a - b = Surplus(m) - z
      BY <3>3, <3>4 DEF s
    <3> QED BY <3>2, <3>5
  <2> QED BY <2>1, <2>2
<1> QED BY <1>2, <1>3, <1>4 DEF Sound

LEMMA PopKeepsStanding ==
  ASSUME NEW m, NEW n, NEW fs, NEW k \in Nat \ {0}, NEW r \in Nat, r = k \/ r = k - 1,
         Standing(m, fs, k, r),
         \A v \in Vars : n.var[v].alias = IF v \in DOMAIN fs[k].bkp THEN fs[k].bkp[v].alias
                                          ELSE m.var[v].alias
  PROVE  Standing(n, fs, k - 1, k - 1)
<1>1. PICK A \in [0 .. k -> Targets] :
         /\ Layers(A, m, fs, k)
         /\ \A i \in 1 .. r : Direct(A[i], fs, i)
         /\ \A j \in 1 .. k - 1 : Awaits(A[j], fs, j)
  BY DEF Standing
<1> DEFINE B == [i \in 0 .. k - 1 |-> A[i]]
<1>2. \A i \in 0 .. k - 1 : i \in 0 .. k
  OBVIOUS
<1>3. B \in [0 .. k - 1 -> Targets] /\ \A i \in 0 .. k - 1 : B[i] = A[i]
  BY <1>2
<1> HIDE DEF B
<1>4. B[k - 1] = AliasesOf(n)
  <2>1. k \in 1 .. k /\ k - 1 \in 0 .. k - 1
    OBVIOUS
  <2>2. A[k - 1] = Under(A[k], fs[k].bkp) /\ A[k] = AliasesOf(m)
    BY <1>1, <2>1 DEF Layers
  <2>3. Under(AliasesOf(m), fs[k].bkp) = AliasesOf(n)
    BY DEF Under, AliasesOf
  <2> QED BY <1>3, <2>1, <2>2, <2>3
<1>5. ASSUME NEW i \in 1 .. k - 1 PROVE B[i - 1] = Under(B[i], fs[i].bkp)
  <2>1. i \in 1 .. k /\ i - 1 \in 0 .. k - 1 /\ i \in 0 .. k - 1
    OBVIOUS
  <2> QED BY <1>1, <1>3, <2>1 DEF Layers
<1>6. ASSUME NEW i \in 1 .. k - 1 PROVE Direct(B[i], fs, i)
  <2>1. i \in 1 .. r /\ i \in 0 .. k - 1
    OBVIOUS
  <2> QED BY <1>1, <1>3, <2>1
<1>7. ASSUME NEW j \in 1 .. (k - 1) - 1 PROVE Awaits(B[j], fs, j)
  <2>1. j \in 1 .. k - 1 /\ j \in 0 .. k - 1
    OBVIOUS
  <2> QED BY <1>1, <1>3, <2>1
<1> QED BY <1>3, <1>4, <1>5, <1>6, <1>7 DEF Standing, Layers

\* An activation returns: what its function's variables own is freed, and what the
\* backup owns is the variables' again.
LEMMA PopKeepsSound ==
  ASSUME NEW m \in Memory, NEW fs, NEW k \in Nat \ {0}, BackupsRight(fs, k),
         NEW r \in Nat, r = k \/ r = k - 1, NEW y \in Int, Sound(m, fs, k, r, y),
         fs[k].func \in Funcs
  PROVE  Sound(FreeAndRestore(m, fs[k].func, fs[k].bkp), fs, k - 1, k - 1, y + Waits(fs[k]))
<1> DEFINE f == fs[k].func
           b == fs[k].bkp
           n == FreeAndRestore(m, f, b)
<1>1. /\ k \in 1 .. k /\ k \in Nat /\ f \in Funcs
      /\ DOMAIN b = (IF Backed(fs, k) THEN Own(f) ELSE {})
      /\ b = None <=> ~Backed(fs, k)
      /\ Own(f) \subseteq Vars
      /\ b = None \/ b \in [Own(f) -> SoundVar]
  <2>1. k \in 1 .. k /\ k \in Nat
    OBVIOUS
  <2> QED BY <2>1, BackedUp DEF BackupsRight
<1>2. \A v \in Vars : Plain(m.var[v], v)
  BY DEF Sound, OnlyRefs
<1>3. RefsOwnNothing(m, f)
  BY <1>1, <1>2 DEF RefsOwnNothing, Plain
<1>4. /\ Popped(m, n, fs, k) /\ \A v \in Vars \ Own(f) : n.var[v] = m.var[v]
      /\ Surplus(n) = Surplus(m) - Weight(fs[k])
      /\ b = None => \A v \in Own(f) : ~Owned(n.var[v])
  BY <1>1, <1>3, RestoreIs
<1> HIDE DEF n
<1>5. \A v \in Vars : IF v \in DOMAIN b THEN n.var[v] = b[v] ELSE n.var[v].alias = m.var[v].alias
  BY <1>4 DEF Popped
<1>6. OnlyRefs(n, fs, k - 1)
  <2>1. ASSUME NEW v \in Vars PROVE Plain(n.var[v], v)
    <3>1. CASE v \in DOMAIN b
      <4>1. Plain(b[v], v)
        BY <1>1, <3>1 DEF Sound, OnlyRefs
      <4> QED BY <1>5, <3>1, <4>1
    <3>2. CASE v \notin Own(f)
      BY <1>2, <1>4, <3>2
    <3>3. CASE v \in Own(f) /\ v \notin DOMAIN b
      <4>1. b = None
        BY <1>1, <3>3
      <4> QED BY <1>2, <1>4, <1>5, <3>3, <4>1 DEF Plain
    <3> QED BY <3>1, <3>2, <3>3
  <2>2. \A i \in 1 .. k - 1 : i \in 1 .. k
    OBVIOUS
  <2> QED BY <2>1, <2>2 DEF Sound, OnlyRefs
<1>7. Idle(n, fs, k - 1)
  <2> SUFFICES ASSUME NEW g \in Funcs, ~Runs(fs, k - 1, g), NEW v \in Own(g)
               PROVE  ~Owned(n.var[v])
    BY DEF Idle
  <2>1. CASE g = f
    <3>1. b = None
      BY <1>1, <2>1 DEF Backed
    <3> QED BY <1>4, <2>1, <3>1
  <2>2. CASE g # f
    <3>1. v \in Vars \ Own(f)
      BY <1>1, <2>2, VarsKnown
    <3>2. ~Runs(fs, k, g)
      <4>1. \A j \in 1 .. k : j = k \/ j \in 1 .. k - 1
        OBVIOUS
      <4> QED BY <2>2, <4>1 DEF Runs
    <3>3. ~Owned(m.var[v])
      BY <3>2 DEF Sound, Idle
    <3> QED BY <1>4, <3>1, <3>3
  <2> QED BY <2>1, <2>2
<1>8. Standing(n, fs, k - 1, k - 1)
  <2>1. \A v \in Vars : n.var[v].alias = IF v \in DOMAIN fs[k].bkp THEN fs[k].bkp[v].alias
                                         ELSE m.var[v].alias
    BY <1>5
  <2> QED BY <2>1, PopKeepsStanding DEF Sound
<1>9. Owed(fs, k - 1, Surplus(n) - (y + Waits(fs[k])))
  <2> DEFINE s == Surplus(m) - y
             c == Weight(fs[k])
             d == Waits(fs[k])
  <2>1. c \in Int /\ d \in Int /\ Weighs(fs[k]) \in Int /\ Weighs(fs[k]) = c + d
        /\ Surplus(m) \in Int
    BY <1>1, WeightTyped, SurplusTyped DEF Weighs
  <2>2. Owed(fs, k, s)
    BY DEF Sound
  <2> HIDE DEF s
  <2>3. Owed(fs, k - 1, s - Weighs(fs[k]))
    BY <2>1, <2>2, OwedLast
  <2>4. s - Weighs(fs[k]) = Surplus(n) - (y + d)
    <3>1. Surplus(n) = Surplus(m) - c
      BY <1>4
    <3> HIDE DEF c, d
    <3> QED BY <2>1, <3>1 DEF s
  <2> QED BY <2>3, <2>4
<1>10. Sound(n, fs, k - 1, k - 1, y + Waits(fs[k]))
  BY <1>6, <1>7, <1>8, <1>9 DEF Sound
<1> QED BY <1>10 DEF n

\* A thread's own activation has no variables.
LEMMA ThreadPopKeepsSound ==
  ASSUME NEW m \in Memory, NEW fs, NEW k \in Nat \ {0}, BackupsRight(fs, k),
         NEW r \in Nat, r = k \/ r = k - 1, NEW y \in Int, Sound(m, fs, k, r, y),
         fs[k].func = NoFunc
  PROVE  Sound(m, fs, k - 1, k - 1, y + Waits(fs[k]))
<1>1. fs[k].bkp = None /\ DOMAIN fs[k].bkp = {}
  <2>1. k \in 1 .. k /\ k \in Nat /\ ~Backed(fs, k)
    BY VarsKnown DEF Backed
  <2> QED BY <2>1, BackedUp
<1>2. \A i \in 1 .. k - 1 : i \in 1 .. k
  OBVIOUS
<1>3. OnlyRefs(m, fs, k - 1)
  BY <1>2 DEF Sound, OnlyRefs
<1>4. Idle(m, fs, k - 1)
  <2>1. \A j \in 1 .. k : j = k \/ j \in 1 .. k - 1
    OBVIOUS
  <2>2. ASSUME NEW g \in Funcs PROVE Runs(fs, k, g) => Runs(fs, k - 1, g)
    BY <2>1, VarsKnown DEF Runs
  <2> QED BY <2>2 DEF Sound, Idle
<1>5. Standing(m, fs, k - 1, k - 1)
  <2>1. \A v \in Vars : m.var[v].alias = IF v \in DOMAIN fs[k].bkp THEN fs[k].bkp[v].alias
                                         ELSE m.var[v].alias
    BY <1>1
  <2> QED BY <2>1, PopKeepsStanding DEF Sound
<1>6. Owed(fs, k - 1, Surplus(m) - (y + Waits(fs[k])))
  <2> DEFINE s == Surplus(m) - y
             d == Waits(fs[k])
  <2>1. Weight(fs[k]) = 0 /\ d \in Int /\ Surplus(m) \in Int
    BY <1>1, SurplusTyped DEF Weight, Waits
  <2>2. Weighs(fs[k]) = d /\ Weighs(fs[k]) \in Int
    <3> HIDE DEF d
    <3>1. Weighs(fs[k]) = 0 + d
      BY <2>1 DEF Weighs, d
    <3> QED BY <2>1, <3>1
  <2>3. Owed(fs, k, s)
    BY DEF Sound
  <2> HIDE DEF s, d
  <2>4. Owed(fs, k - 1, s - d)
    BY <2>2, <2>3, OwedLast
  <2>5. s - d = Surplus(m) - (y + d)
    BY <2>1 DEF s
  <2> QED BY <2>4, <2>5 DEF d
<1> QED BY <1>3, <1>4, <1>5, <1>6 DEF Sound

LEMMA PushKeepsStanding ==
  ASSUME NEW m \in Memory, NEW n, NEW fs, NEW gs, NEW k \in Nat, Standing(m, fs, k, k),
         \A i \in 1 .. k : gs[i] = fs[i],
         \A v \in Vars : n.var[v].alias = m.var[v].alias,
         \A v \in DOMAIN gs[k + 1].bkp : gs[k + 1].bkp[v].alias = m.var[v].alias,
         k > 0 => Awaits(AliasesOf(m), gs, k)
  PROVE  Standing(n, gs, k + 1, k)
<1> DEFINE K == k + 1
<1>1. PICK A \in [0 .. k -> Targets] :
         /\ Layers(A, m, fs, k)
         /\ \A i \in 1 .. k : Direct(A[i], fs, i)
         /\ \A j \in 1 .. k - 1 : Awaits(A[j], fs, j)
  BY DEF Standing
<1> DEFINE B == [i \in 0 .. K |-> IF i = K THEN AliasesOf(m) ELSE A[i]]
<1>2. AliasesOf(m) \in Targets /\ AliasesOf(n) = AliasesOf(m)
  BY AliasesTyped DEF AliasesOf
<1>3. /\ B \in [0 .. K -> Targets] /\ B[K] = AliasesOf(m)
      /\ \A i \in 0 .. k : B[i] = A[i]
  <2>1. \A i \in 0 .. K : i = K \/ i \in 0 .. k
    OBVIOUS
  <2>2. \A i \in 0 .. k : i \in 0 .. K /\ i # K
    OBVIOUS
  <2> QED BY <1>2, <2>1, <2>2
<1> HIDE DEF B
<1>4. ASSUME NEW i \in 1 .. K PROVE B[i - 1] = Under(B[i], gs[i].bkp)
  <2>1. CASE i = K
    <3>1. B[i - 1] = AliasesOf(m)
      <4>1. i - 1 = k /\ k \in 0 .. k
        BY <2>1
      <4> QED BY <1>1, <1>3, <4>1 DEF Layers
    <3>2. Under(AliasesOf(m), gs[K].bkp) = AliasesOf(m)
      BY DEF Under, AliasesOf
    <3> QED BY <1>3, <2>1, <3>1, <3>2
  <2>2. CASE i # K
    <3>1. i \in 1 .. k /\ i - 1 \in 0 .. k /\ i \in 0 .. k
      BY <2>2
    <3> QED BY <1>1, <1>3, <3>1 DEF Layers
  <2> QED BY <2>1, <2>2
<1>5. ASSUME NEW i \in 1 .. k PROVE Direct(B[i], gs, i)
  <2>1. i \in 0 .. k /\ \A j \in 1 .. i : j \in 1 .. k
    OBVIOUS
  <2>2. Direct(A[i], fs, i) /\ B[i] = A[i] /\ gs[i] = fs[i]
    BY <1>1, <1>3, <2>1
  <2>3. \A w : Running(gs, i, w) <=> Running(fs, i, w)
    BY <2>1 DEF Running, Runs
  <2> QED BY <2>2, <2>3 DEF Direct
<1>6. ASSUME NEW j \in 1 .. K - 1 PROVE Awaits(B[j], gs, j)
  <2>1. j \in 1 .. k /\ j \in 0 .. k
    OBVIOUS
  <2>2. CASE j = k
    <3>1. k > 0 /\ k \in 0 .. k
      BY <2>2
    <3>2. B[k] = AliasesOf(m)
      BY <1>1, <1>3, <3>1 DEF Layers
    <3> QED BY <2>2, <3>1, <3>2
  <2>3. CASE j # k
    <3>1. j \in 1 .. k - 1 /\ j + 1 \in 1 .. k
      BY <2>1, <2>3
    <3>2. Awaits(A[j], fs, j) /\ B[j] = A[j] /\ gs[j] = fs[j] /\ gs[j + 1] = fs[j + 1]
      BY <1>1, <1>3, <2>1, <3>1
    <3> QED BY <3>2 DEF Awaits
  <2> QED BY <2>2, <2>3
<1> HIDE DEF K
<1>7. Layers(B, n, gs, K)
  BY <1>2, <1>3, <1>4 DEF Layers
<1>8. Standing(n, gs, K, k)
  BY <1>3, <1>5, <1>6, <1>7 DEF Standing
<1> QED BY <1>8 DEF K

\* Who an activation's parameters stand for is known, once they are bound.
LEMMA StandsDirectly ==
  ASSUME NEW m, NEW fs, NEW k \in Nat \ {0}, Standing(m, fs, k, k - 1),
         Direct(AliasesOf(m), fs, k)
  PROVE  Standing(m, fs, k, k)
<1>1. PICK A \in [0 .. k -> Targets] :
         /\ Layers(A, m, fs, k)
         /\ \A i \in 1 .. k - 1 : Direct(A[i], fs, i)
         /\ \A j \in 1 .. k - 1 : Awaits(A[j], fs, j)
  BY DEF Standing
<1>2. \A i \in 1 .. k : i = k \/ i \in 1 .. k - 1
  OBVIOUS
<1>3. A[k] = AliasesOf(m)
  BY <1>1 DEF Layers
<1>4. \A i \in 1 .. k : Direct(A[i], fs, i)
  BY <1>1, <1>2, <1>3
<1> QED BY <1>1, <1>4 DEF Standing

\* A function is entered: whatever its variables owned is the backup's.
LEMMA PushKeepsSound ==
  ASSUME NEW m, NEW n, NEW fs, NEW gs, NEW k \in Nat, Base(m, fs, k),
         NEW f \in Funcs, Enters(m, n, fs, gs, k, f), \A i \in 1 .. k : gs[i] = fs[i],
         gs[k + 1].line.calls = 0, NEW y \in Int, Sound(m, fs, k, k, y),
         k > 0 => Awaits(AliasesOf(m), gs, k)
  PROVE  /\ Sound(n, gs, k + 1, k, y) /\ n \in Memory
         /\ \A v \in Own(f) : ~Owned(n.var[v])
<1> DEFINE K == k + 1
           b == gs[K].bkp
<1>1. /\ m \in Memory /\ BackupsRight(gs, K) /\ Pushed(m, n, gs, K)
      /\ Surplus(n) = Surplus(m) + Weight(gs[K]) /\ K \in Nat /\ K \in 1 .. K
      /\ gs[K].func = f
  BY EntersIs DEF Base, Enters
<1>2. n \in Memory /\ \A v \in Vars :
        IF v \in DOMAIN b THEN /\ b[v] = m.var[v] /\ n.var[v].alias = m.var[v].alias
                               /\ ~Owned(n.var[v])
        ELSE n.var[v] = m.var[v]
  BY <1>1 DEF Pushed
<1>3. /\ DOMAIN b = (IF Backed(gs, K) THEN Own(f) ELSE {}) /\ Own(f) \subseteq Vars
      /\ DOMAIN b \subseteq Own(f)
  BY <1>1, BackedUp
<1>4. Runs(gs, K - 1, f) <=> Runs(fs, k, f)
  BY <1>1 DEF Runs
<1>5. \A v \in Own(f) : ~Owned(n.var[v])
  <2>1. CASE Runs(fs, k, f)
    <3>1. \A v \in Own(f) : v \in DOMAIN b
      BY <1>1, <1>3, <1>4, <2>1 DEF Backed
    <3> QED BY <1>2, <1>3, <3>1
  <2>2. CASE ~Runs(fs, k, f)
    <3>1. DOMAIN b = {}
      BY <1>1, <1>3, <1>4, <2>2 DEF Backed
    <3>2. \A v \in Own(f) : ~Owned(m.var[v])
      BY <2>2 DEF Sound, Idle
    <3> QED BY <1>2, <1>3, <3>1, <3>2
  <2> QED BY <2>1, <2>2
<1>6. \A v \in Vars : Plain(m.var[v], v)
  BY DEF Sound, OnlyRefs
<1>7. OnlyRefs(n, gs, K)
  <2>1. \A v \in Vars : Plain(n.var[v], v)
    BY <1>2, <1>6 DEF Plain
  <2>2. \A v \in DOMAIN b : Plain(b[v], v)
    BY <1>2, <1>3, <1>6
  <2>3. \A i \in 1 .. K : i = K \/ i \in 1 .. k
    OBVIOUS
  <2>4. \A i \in 1 .. k : \A v \in DOMAIN gs[i].bkp : Plain(gs[i].bkp[v], v)
    BY DEF Sound, OnlyRefs
  <2> HIDE DEF K
  <2>5. \A i \in 1 .. K : \A v \in DOMAIN gs[i].bkp : Plain(gs[i].bkp[v], v)
    BY <2>2, <2>3, <2>4
  <2> QED BY <2>1, <2>5 DEF OnlyRefs
<1>8. Idle(n, gs, K)
  <2> SUFFICES ASSUME NEW g \in Funcs, ~Runs(gs, K, g), NEW v \in Own(g)
               PROVE  ~Owned(n.var[v])
    BY DEF Idle
  <2>1. g # f /\ ~Runs(fs, k, g)
    <3>1. \A i \in 1 .. k : i \in 1 .. K
      OBVIOUS
    <3> HIDE DEF K
    <3> QED BY <1>1, <3>1 DEF Runs
  <2>2. v \in Vars /\ v \notin Own(f)
    BY <2>1, VarsKnown
  <2>3. ~Owned(m.var[v])
    BY <2>1 DEF Sound, Idle
  <2> QED BY <1>2, <1>3, <2>2, <2>3
<1>9. Standing(n, gs, K, k)
  <2>1. \A v \in Vars : n.var[v].alias = m.var[v].alias
    BY <1>2
  <2>2. \A v \in DOMAIN gs[k + 1].bkp : gs[k + 1].bkp[v].alias = m.var[v].alias
    BY <1>2, <1>3
  <2>3. Standing(m, fs, k, k)
    BY DEF Sound
  <2> QED BY <1>1, <2>1, <2>2, <2>3, PushKeepsStanding
<1>10. Owed(gs, K, Surplus(n) - y)
  <2> DEFINE s == Surplus(m) - y
             c == Weight(gs[K])
  <2>1. c \in Int /\ Surplus(m) \in Int /\ Weighs(gs[K]) = c + Waits(gs[K])
    BY <1>1, WeightTyped, SurplusTyped DEF Weighs
  <2>2. Waits(gs[K]) = 0
    BY DEF Waits
  <2>3. Weighs(gs[K]) = c /\ Weighs(gs[K]) \in Int
    <3> HIDE DEF c
    <3> QED BY <2>1, <2>2
  <2>4. Owed(fs, k, s)
    BY DEF Sound
  <2>5. \A i \in 1 .. k : Weighs(gs[i]) = Weighs(fs[i])
    OBVIOUS
  <2> HIDE DEF s, c
  <2>6. Owed(gs, k + 1, s + Weighs(gs[k + 1]))
    BY <2>3, <2>4, <2>5, OwedNext
  <2>7. s + Weighs(gs[K]) = Surplus(n) - y
    <3>1. Surplus(n) = Surplus(m) + c
      BY <1>1 DEF c
    <3> QED BY <2>1, <2>3, <3>1 DEF s
  <2> QED BY <2>6, <2>7
<1> QED BY <1>2, <1>5, <1>7, <1>8, <1>9, <1>10 DEF Sound

\* A thread starts.
LEMMA ThreadPushKeepsSound ==
  ASSUME NEW m \in Memory, NEW fs, NEW gs, NEW k \in Nat, \A i \in 1 .. k : gs[i] = fs[i],
         gs[k + 1].func = NoFunc, gs[k + 1].bkp = None, gs[k + 1].line.calls = 0,
         NEW y \in Int, Sound(m, fs, k, k, y), k > 0 => gs[k].line.calls = 0
  PROVE  Sound(m, gs, k + 1, k + 1, y)
<1> DEFINE K == k + 1
<1>1. DOMAIN gs[K].bkp = {} /\ K \in Nat \ {0} /\ K - 1 = k
  <2>1. DOMAIN None = {}
    BY DEF None
  <2> QED BY <2>1
<1>2. \A i \in 1 .. K : i = K \/ i \in 1 .. k
  OBVIOUS
<1>3. OnlyRefs(m, gs, K)
  <2>1. \A i \in 1 .. k : \A v \in DOMAIN gs[i].bkp : Plain(gs[i].bkp[v], v)
    BY DEF Sound, OnlyRefs
  <2> HIDE DEF K
  <2>2. \A i \in 1 .. K : \A v \in DOMAIN gs[i].bkp : Plain(gs[i].bkp[v], v)
    BY <1>1, <1>2, <2>1
  <2> QED BY <2>2 DEF Sound, OnlyRefs
<1>4. Idle(m, gs, K)
  <2>1. ASSUME NEW g \in Funcs PROVE Runs(fs, k, g) => Runs(gs, K, g)
    BY DEF Runs
  <2> QED BY <2>1 DEF Sound, Idle
<1>5. Standing(m, gs, K, k)
  <2>1. k > 0 => Awaits(AliasesOf(m), gs, k)
    BY DEF Awaits
  <2>2. Standing(m, fs, k, k)
    BY DEF Sound
  <2> QED BY <1>1, <2>1, <2>2, PushKeepsStanding
<1>6. Standing(m, gs, K, K)
  <2>1. Direct(AliasesOf(m), gs, K)
    BY VarsKnown DEF Direct
  <2> HIDE DEF K
  <2> QED BY <1>1, <1>5, <2>1, StandsDirectly
<1>7. Owed(gs, K, Surplus(m) - y)
  <2> DEFINE s == Surplus(m) - y
  <2>1. Weight(gs[K]) = 0 /\ Waits(gs[K]) = 0
    BY <1>1 DEF Weight, Waits
  <2>2. Weighs(gs[k + 1]) = 0
    BY <2>1 DEF Weighs
  <2>3. Owed(fs, k, s) /\ s \in Int
    BY SurplusTyped DEF Sound
  <2>4. \A i \in 1 .. k : Weighs(gs[i]) = Weighs(fs[i])
    OBVIOUS
  <2> HIDE DEF s
  <2>5. Weighs(gs[k + 1]) \in Int
    BY <2>2
  <2>6. Owed(gs, k + 1, s + Weighs(gs[k + 1]))
    BY <2>3, <2>4, <2>5, OwedNext
  <2>7. s + Weighs(gs[k + 1]) = s
    BY <2>2, <2>3
  <2> QED BY <2>6, <2>7 DEF s
<1> QED BY <1>3, <1>4, <1>6, <1>7 DEF Sound

\* What lines of the first k activations name is visible there.
OutsVisible(fs, k) ==
  \A i \in 1 .. k : /\ fs[i].func \in Funcs \cup {NoFunc}
                    /\ fs[i].line.out \in Visible(fs[i].func) \cup {NoVar}

LEMMA OthersSee ==
  ASSUME NEW f \in Funcs, NEW p \in Own(f), NEW g \in Funcs \cup {NoFunc}, g # f
  PROVE  p \notin Own(g) /\ p \notin Visible(g)
<1>1. g \in Funcs => Statics[g] \subseteq StaticVars
  BY DEF StaticVars
<1>2. p \notin Globals \cup StaticVars /\ p \notin Own(g)
  BY VarsKnown
<1> QED BY <1>1, <1>2 DEF Visible

\* A parameter of the last activation is made to stand for something else.
LEMMA AliasKeepsStanding ==
  ASSUME NEW m \in Memory, NEW n, NEW fs, NEW k \in Nat \ {0}, BackupsRight(fs, k),
         NEW f \in Funcs, f = fs[k].func, NEW p \in Own(f), NEW w \in Vars \cup {NoVar},
         Aliases(m, n, p, w), OutsVisible(fs, k), Standing(m, fs, k, k - 1)
  PROVE  Standing(n, fs, k, k - 1)
<1>1. PICK A \in [0 .. k -> Targets] :
         /\ Layers(A, m, fs, k)
         /\ \A i \in 1 .. k - 1 : Direct(A[i], fs, i)
         /\ \A j \in 1 .. k - 1 : Awaits(A[j], fs, j)
  BY DEF Standing
<1>2. /\ n \in Memory /\ p \in Vars /\ n.var[p].alias = w
      /\ \A v \in Vars : v # p => n.var[v].alias = m.var[v].alias
  BY VarsKnown DEF Aliases
<1>3. AliasesOf(n) \in Targets /\ AliasesOf(n) = [AliasesOf(m) EXCEPT ![p] = w]
  BY <1>2, AliasesTyped DEF AliasesOf
<1>4. \A i \in 1 .. k : i \in 0 .. k /\ i - 1 \in 0 .. k /\ (i = k \/ i \in 1 .. k - 1)
  OBVIOUS
<1>5. CASE Backed(fs, k)
  <2> DEFINE B == [A EXCEPT ![k] = AliasesOf(n)]
  <2>1. /\ B \in [0 .. k -> Targets] /\ B[k] = AliasesOf(n)
        /\ \A i \in 0 .. k : i # k => B[i] = A[i]
    BY <1>3
  <2> HIDE DEF B
  <2>2. ASSUME NEW i \in 1 .. k PROVE B[i - 1] = Under(B[i], fs[i].bkp)
    <3>1. A[i - 1] = Under(A[i], fs[i].bkp) /\ A[k] = AliasesOf(m)
      BY <1>1 DEF Layers
    <3>2. CASE i = k
      <4>1. p \in DOMAIN fs[k].bkp
        <5>1. k \in 1 .. k /\ k \in Nat
          OBVIOUS
        <5> QED BY <1>5, <5>1, BackedUp
      <4>2. Under(AliasesOf(n), fs[k].bkp) = Under(AliasesOf(m), fs[k].bkp)
        BY <1>2, <4>1 DEF Under, AliasesOf
      <4>3. B[i - 1] = A[i - 1]
        BY <1>4, <2>1, <3>2
      <4> QED BY <2>1, <3>1, <3>2, <4>2, <4>3
    <3>3. CASE i # k
      <4>1. B[i] = A[i] /\ B[i - 1] = A[i - 1]
        BY <1>4, <2>1, <3>3
      <4> QED BY <3>1, <4>1
    <3> QED BY <3>2, <3>3
  <2>3. \A i \in 1 .. k - 1 : B[i] = A[i]
    BY <2>1
  <2>4. Layers(B, n, fs, k)
    BY <2>1, <2>2 DEF Layers
  <2>5. /\ \A i \in 1 .. k - 1 : Direct(B[i], fs, i)
        /\ \A j \in 1 .. k - 1 : Awaits(B[j], fs, j)
    BY <1>1, <2>3
  <2> QED BY <2>1, <2>4, <2>5 DEF Standing
<1>6. CASE ~Backed(fs, k)
  <2> DEFINE B == [i \in 0 .. k |-> [A[i] EXCEPT ![p] = w]]
  <2>1. \A i \in 0 .. k : A[i] \in Targets /\ A[i] \in [Vars -> Vars \cup {NoVar}]
    BY DEF Targets
  <2>2. /\ B \in [0 .. k -> Targets]
        /\ \A i \in 0 .. k : B[i] = [A[i] EXCEPT ![p] = w]
    BY <2>1 DEF Targets
  <2> HIDE DEF B
  <2>3. \A i \in 0 .. k : B[i][p] = w /\ \A v \in Vars : v # p => B[i][v] = A[i][v]
    BY <1>2, <2>1, <2>2
  <2>4. \A i \in 1 .. k - 1 : fs[i].func # f
    <3>1. ~Runs(fs, k - 1, f)
      BY <1>6 DEF Backed
    <3> QED BY <3>1 DEF Runs
  <2>5. \A i \in 1 .. k : p \notin DOMAIN fs[i].bkp
    <3>1. k \in Nat /\ k \in 1 .. k
      OBVIOUS
    <3>2. DOMAIN fs[k].bkp = {}
      BY <1>6, <3>1, BackedUp
    <3>3. ASSUME NEW i \in 1 .. k - 1 PROVE p \notin DOMAIN fs[i].bkp
      <4>1. i \in 1 .. k /\ fs[i].func \in Funcs \cup {NoFunc}
        BY <1>4 DEF OutsVisible
      <4>2. DOMAIN fs[i].bkp \subseteq Own(fs[i].func)
        BY <3>1, <4>1, BackedUp
      <4> QED BY <2>4, <4>1, <4>2, OthersSee
    <3> QED BY <1>4, <3>2, <3>3
  <2>6. ASSUME NEW i \in 1 .. k PROVE B[i - 1] = Under(B[i], fs[i].bkp)
    <3>1. A[i - 1] = Under(A[i], fs[i].bkp)
      BY <1>1 DEF Layers
    <3> DEFINE b == fs[i].bkp
               U == Under(B[i], b)
    <3>2. ASSUME NEW v \in Vars PROVE B[i - 1][v] = U[v]
      <4>1. U[v] = IF v \in DOMAIN b THEN b[v].alias ELSE B[i][v]
        BY DEF Under
      <4>2. A[i - 1][v] = IF v \in DOMAIN b THEN b[v].alias ELSE A[i][v]
        BY <3>1 DEF Under
      <4>3. CASE v = p
        BY <1>4, <2>3, <2>5, <4>1, <4>3
      <4>4. CASE v # p
        BY <1>4, <2>3, <4>1, <4>2, <4>4
      <4> QED BY <4>3, <4>4
    <3>3. U = [v \in Vars |-> U[v]]
      BY DEF Under
    <3>4. B[i - 1] = [v \in Vars |-> B[i - 1][v]]
      BY <1>4, <2>2 DEF Targets
    <3> HIDE DEF U
    <3>5. B[i - 1] = U
      BY <3>2, <3>3, <3>4
    <3> QED BY <3>5 DEF U
  <2>7. B[k] = AliasesOf(n)
    BY <1>1, <1>3, <2>2 DEF Layers
  <2>8. ASSUME NEW i \in 1 .. k - 1 PROVE Direct(B[i], fs, i)
    <3> SUFFICES ASSUME NEW v \in Own(fs[i].func), B[i][v] # NoVar
                 PROVE  B[i][B[i][v]] = NoVar /\ Running(fs, i, B[i][v])
      BY DEF Direct
    <3>1. i \in 1 .. k /\ i \in 0 .. k /\ fs[i].func \in Funcs \cup {NoFunc}
      BY <1>4 DEF OutsVisible
    <3>2. v # p /\ v \in Vars
      BY <2>4, <3>1, OthersSee, VarsKnown
    <3> DEFINE u == A[i][v]
    <3>3. B[i][v] = u /\ u # NoVar /\ u \in Vars
      BY <2>1, <2>3, <3>1, <3>2
    <3>4. A[i][u] = NoVar /\ Running(fs, i, u)
      BY <1>1, <3>3 DEF Direct
    <3>5. u # p
      <4>1. ~Runs(fs, i, f)
        BY <2>4 DEF Runs
      <4> QED BY <3>4, <4>1 DEF Running
    <3> HIDE DEF u
    <3>6. B[i][u] = NoVar
      BY <2>3, <3>1, <3>3, <3>4, <3>5
    <3> QED BY <3>3, <3>4, <3>6
  <2>9. ASSUME NEW j \in 1 .. k - 1 PROVE Awaits(B[j], fs, j)
    <3>1. j \in 1 .. k /\ j \in 0 .. k
      BY <1>4
    <3>2. fs[j].func \in Funcs \cup {NoFunc} /\ fs[j].line.out \in Visible(fs[j].func) \cup {NoVar}
      BY <3>1 DEF OutsVisible
    <3>3. fs[j].line.out # NoVar => fs[j].line.out # p /\ fs[j].line.out \in Vars
      BY <2>4, <3>2, OthersSee, VarsKnown
    <3>4. fs[j].line.out # NoVar => B[j][fs[j].line.out] = A[j][fs[j].line.out]
      BY <2>3, <3>1, <3>3
    <3>5. Awaits(A[j], fs, j)
      BY <1>1
    <3> QED BY <3>4, <3>5 DEF Awaits
  <2>10. Layers(B, n, fs, k)
    BY <2>2, <2>6, <2>7 DEF Layers
  <2> QED BY <2>2, <2>8, <2>9, <2>10 DEF Standing
<1> QED BY <1>5, <1>6

LEMMA AliasKeepsSound ==
  ASSUME NEW m \in Memory, NEW n, NEW fs, NEW k \in Nat \ {0}, BackupsRight(fs, k),
         NEW f \in Funcs, f = fs[k].func, NEW p \in Own(f), NEW w \in Vars \cup {NoVar},
         Aliases(m, n, p, w), OutsVisible(fs, k), p \in RefVars, ~Owned(m.var[p]),
         NEW y, Sound(m, fs, k, k - 1, y)
  PROVE  Sound(n, fs, k, k - 1, y)
<1>1. Standing(n, fs, k, k - 1)
  BY AliasKeepsStanding DEF Sound
<1>2. p \in Vars /\ \A g \in Funcs : Own(g) \subseteq Vars
  BY VarsKnown
<1>3. OnlyRefs(n, fs, k)
  BY <1>2 DEF Sound, OnlyRefs, Plain, Aliases
<1>4. Idle(n, fs, k)
  BY <1>2 DEF Sound, Idle, Aliases
<1> QED BY <1>1, <1>3, <1>4 DEF Sound, Aliases

-------------------------------------------------------------------------------
(* The parameters are bound, from the last to the first. *)

\* By-reference arguments stand for nothing of the function that is called.
ArgsAway(m, fs, k, f, arg) ==
  \A j \in DOMAIN arg : Params[f][j].byref /\ arg[j] \in Vars =>
    LET w == Resolve(m, arg[j]) IN Target(m, fs, k, w) /\ w \notin Own(f)

\* The memory was m before any was bound; those from the j-th on are bound in x.
BoundFrom(x, m, fs, k, f, j) ==
  /\ \A v \in Vars : (\A i \in j .. Len(Params[f]) : v # Params[f][i].var)
                       => x.var[v].alias = m.var[v].alias
  /\ \A i \in 1 .. j - 1 : ~Owned(x.var[Params[f][i].var])
  /\ \A i \in j .. Len(Params[f]) :
       LET w == x.var[Params[f][i].var].alias
       IN w # NoVar => /\ x.var[w].alias = NoVar /\ Running(fs, k, w)
                       /\ \A h \in 1 .. j - 1 : w # Params[f][h].var

\* What the next parameter may stand for.
MayStandFor(x, fs, k, f, j, w) ==
  /\ Target(x, fs, k, w)
  /\ \A h \in 1 .. j : w # Params[f][h].var

\* The j-th parameter is given another alias, or none, and perhaps a value.
LEMMA OneMoreBound ==
  ASSUME NEW m, NEW fs, NEW k, NEW f \in Funcs, NEW j \in DOMAIN Params[f],
         NEW x \in Memory, NEW n \in Memory, BoundFrom(x, m, fs, k, f, j + 1),
         NEW p, p = Params[f][j].var,
         \A v \in Vars : v # p => /\ n.var[v].alias = x.var[v].alias
                                  /\ Owned(n.var[v]) <=> Owned(x.var[v]),
         NEW w, w = n.var[p].alias, w = NoVar \/ MayStandFor(x, fs, k, f, j, w)
  PROVE  BoundFrom(n, m, fs, k, f, j)
<1> DEFINE L == Len(Params[f])
<1>1. /\ L \in Nat /\ DOMAIN Params[f] = 1 .. L /\ j \in 1 .. L
      /\ \A i \in 1 .. L : Params[f][i].var \in Vars
      /\ \A i \in 1 .. L : Params[f][i].var = p => i = j
  BY ParamsKnown, VarsKnown
<1>2. \A i \in j .. L : i \in 1 .. L /\ (i = j \/ i \in j + 1 .. L)
  BY <1>1
<1>3. \A i \in 1 .. j - 1 : i \in 1 .. L /\ i # j /\ i \in 1 .. (j + 1) - 1
  BY <1>1
<1>4. \A i \in 1 .. j : i \in 1 .. (j + 1) - 1
  BY <1>1
<1>5. \A i \in j + 1 .. L : i \in 1 .. L /\ i # j /\ i \in j .. L
  BY <1>1
<1> HIDE DEF L
<1>6. ASSUME NEW v \in Vars, \A i \in j .. L : v # Params[f][i].var
      PROVE  n.var[v].alias = m.var[v].alias
  <2>1. j \in j .. L
    BY <1>1
  <2>2. v # p /\ \A i \in j + 1 .. L : v # Params[f][i].var
    BY <1>5, <1>6, <2>1
  <2> QED BY <2>2 DEF BoundFrom, L
<1>7. ASSUME NEW i \in 1 .. j - 1 PROVE ~Owned(n.var[Params[f][i].var])
  <2>1. ~Owned(x.var[Params[f][i].var])
    BY <1>3 DEF BoundFrom
  <2> QED BY <1>1, <1>3, <2>1
<1>8. ASSUME NEW i \in j .. L, NEW u, u = n.var[Params[f][i].var].alias, u # NoVar
      PROVE  /\ n.var[u].alias = NoVar /\ Running(fs, k, u)
             /\ \A h \in 1 .. j - 1 : u # Params[f][h].var
  <2>1. CASE i = j
    <3>1. MayStandFor(x, fs, k, f, j, u) /\ u = w
      BY <1>8, <2>1
    <3>2. u # p /\ u \in Vars /\ \A h \in 1 .. j - 1 : u # Params[f][h].var
      <4>1. j \in 1 .. j /\ \A h \in 1 .. j - 1 : h \in 1 .. j
        BY <1>1
      <4> QED BY <3>1, <4>1 DEF MayStandFor, Target
    <3> QED BY <3>1, <3>2 DEF MayStandFor, Target
  <2>2. CASE i \in j + 1 .. L
    <3>1. u = x.var[Params[f][i].var].alias
      BY <1>1, <1>5, <1>8, <2>2
    <3>2. /\ x.var[u].alias = NoVar /\ Running(fs, k, u)
          /\ \A h \in 1 .. (j + 1) - 1 : u # Params[f][h].var
      <4>1. i \in j + 1 .. Len(Params[f])
        BY <2>2 DEF L
      <4>2. x.var[Params[f][i].var].alias # NoVar
        BY <1>8, <3>1
      <4>3. LET t == x.var[Params[f][i].var].alias
            IN /\ x.var[t].alias = NoVar /\ Running(fs, k, t)
               /\ \A h \in 1 .. (j + 1) - 1 : t # Params[f][h].var
        BY <4>1, <4>2 DEF BoundFrom
      <4> QED BY <3>1, <4>3
    <3>3. u # p /\ u \in Vars
      <4>1. x.var[Params[f][i].var].alias \in Vars \cup {NoVar}
        BY <1>1, <1>5, <2>2, Fields
      <4>2. j \in 1 .. j
        BY <1>1
      <4> QED BY <1>4, <1>8, <3>1, <3>2, <4>1, <4>2
    <3> QED BY <1>3, <3>2, <3>3
  <2> QED BY <1>2, <2>1, <2>2
<1> QED BY <1>6, <1>7, <1>8 DEF BoundFrom, L

\* What a variable that is passed stands for, after parameters have been bound: some
\* variable beneath, or a parameter bound before.
LEMMA StandsFor ==
  ASSUME NEW m \in Memory, NEW fs, NEW k \in Nat \ {0}, NEW f \in Funcs, f = fs[k].func,
         NEW j \in DOMAIN Params[f], NEW x \in Memory, BoundFrom(x, m, fs, k, f, j + 1),
         NEW a \in Vars,
         NEW w0, w0 = Resolve(m, a), Target(m, fs, k, w0), w0 \notin Own(f),
         NEW w, w = Resolve(x, a)
  PROVE  MayStandFor(x, fs, k, f, j, w)
<1> DEFINE L == Len(Params[f])
<1>1. /\ L \in Nat /\ DOMAIN Params[f] = 1 .. L /\ j \in 1 .. L
      /\ \A i \in 1 .. L : Params[f][i].var \in Own(f) /\ Params[f][i].var \in Vars
      /\ \A i, h \in 1 .. L : Params[f][i].var = Params[f][h].var => i = h
  BY ParamsKnown, VarsKnown
<1>2. /\ \A h \in 1 .. j : h \in 1 .. L /\ h \in 1 .. (j + 1) - 1
      /\ \A i \in j + 1 .. L : i \in 1 .. L /\ \A h \in 1 .. j : i # h
  BY <1>1
<1>3. w \in Vars
  BY Resolved
<1> HIDE DEF L
<1>4. CASE \E i \in j + 1 .. L : a = Params[f][i].var
  <2>1. PICK i \in j + 1 .. L : a = Params[f][i].var
    BY <1>4
  <2>2. CASE x.var[a].alias = NoVar
    <3>1. w = a
      BY <2>2 DEF Resolve
    <3>2. Running(fs, k, a)
      <4>1. \A e \in Funcs : a \in Own(e) => e = f
        BY <1>1, <1>2, <2>1, VarsKnown
      <4>2. Runs(fs, k, f)
        BY DEF Runs
      <4> QED BY <4>1, <4>2 DEF Running
    <3>3. \A h \in 1 .. j : a # Params[f][h].var
      BY <1>1, <1>2, <2>1
    <3> QED BY <1>3, <2>2, <3>1, <3>2, <3>3 DEF MayStandFor, Target
  <2>3. CASE x.var[a].alias # NoVar
    <3>1. w = x.var[a].alias
      BY <2>3 DEF Resolve
    <3>2. /\ x.var[w].alias = NoVar /\ Running(fs, k, w)
          /\ \A h \in 1 .. (j + 1) - 1 : w # Params[f][h].var
      BY <2>1, <2>3, <3>1 DEF BoundFrom, L
    <3> QED BY <1>2, <1>3, <3>2 DEF MayStandFor, Target
  <2> QED BY <2>2, <2>3
<1>5. CASE \A i \in j + 1 .. L : a # Params[f][i].var
  <2>1. x.var[a].alias = m.var[a].alias
    BY <1>5 DEF BoundFrom, L
  <2>2. w = w0
    BY <2>1 DEF Resolve
  <2>3. \A h \in 1 .. L : w0 # Params[f][h].var
    BY <1>1
  <2>4. x.var[w0].alias = m.var[w0].alias
    BY <1>2, <1>3, <2>2, <2>3 DEF BoundFrom, L
  <2> QED BY <1>2, <1>3, <2>2, <2>3, <2>4 DEF MayStandFor, Target
<1> QED BY <1>4, <1>5

\* A value is assigned to a parameter that stands for nothing.
LEMMA ParameterAssigned ==
  ASSUME NEW x \in Memory, NEW fs, NEW k \in Nat \ {0}, NEW f \in Funcs, f = fs[k].func,
         NEW p \in Own(f), x.var[p].alias = NoVar, NEW t \in Text, NEW r, NEW y,
         Sound(x, fs, k, r, y), NEW n, n = Assign(x, p, t)
  PROVE  /\ n \in Memory /\ Sound(n, fs, k, r, y) /\ n.var[p].alias = NoVar
         /\ \A v \in Vars : v # p => n.var[v] = x.var[v]
<1>1. p \in Vars /\ Resolve(x, p) = p
  BY VarsKnown DEF Resolve
<1>2. Writes(x, Assign(x, p, t), p)
  BY <1>1, Assigns
<1>3. Target(x, fs, k, p)
  <2>1. \A e \in Funcs : p \in Own(e) => e = f
    BY VarsKnown
  <2>2. Runs(fs, k, f)
    BY DEF Runs
  <2> QED BY <1>1, <2>1, <2>2 DEF Target, Running
<1>4. Sound(Assign(x, p, t), fs, k, r, y)
  BY <1>2, <1>3, WriteKeepsSound
<1> QED BY <1>2, <1>4 DEF Writes

\* Everything that binding one parameter relies on.
Binding(m, x, fs, k, f, j, y) ==
  BoundFrom(x, m, fs, k, f, j) /\ Sound(x, fs, k, k - 1, y)

LEMMA BindsOneMore ==
  ASSUME NEW m \in Memory, NEW fs, NEW k \in Nat \ {0}, BackupsRight(fs, k),
         NEW f \in Funcs, f = fs[k].func, OutsVisible(fs, k), NEW arg,
         ArgsAway(m, fs, k, f, arg), NEW from \in Nat, ArgsRight(f, arg, from),
         NEW j \in DOMAIN Params[f], j >= from,
         NEW x \in Memory, NEW y, Binding(m, x, fs, k, f, j + 1, y)
  PROVE  /\ BindOne(x, Params[f][j], j, arg) \in Memory
         /\ Binding(m, BindOne(x, Params[f][j], j, arg), fs, k, f, j, y)
<1> DEFINE q == Params[f][j]
           p == q.var
           n == BindOne(x, q, j, arg)
           len == Len(arg)
           r == k - 1
           i == j + 1
<1> SUFFICES n \in Memory /\ Binding(m, n, fs, k, f, j, y)
  OBVIOUS
<1>1. /\ q.byref \in BOOLEAN /\ p \in Own(f) /\ p \in Vars /\ q.default \in Text
      /\ j \in Nat /\ len \in Nat /\ arg \in Seq(Arg) /\ DOMAIN arg = 1 .. len
      /\ j >= 1
  BY ParamsKnown, VarsKnown DEF ArgsRight
<1>2. /\ j > len => n = Assign(IF q.byref THEN ConvertToNonAlias(x, p) ELSE x, p, q.default)
      /\ j <= len /\ q.byref => n = UpdateAlias(x, p, arg[j])
      /\ j <= len /\ ~q.byref => n = Assign(x, p, Reads(x, arg[j]))
  BY <1>1, BindOneIs
<1>3. Sound(x, fs, k, r, y) /\ BoundFrom(x, m, fs, k, f, i)
  BY DEF Binding
<1>4. ~Owned(x.var[p])
  <2>1. j \in 1 .. (j + 1) - 1
    BY <1>1
  <2> QED BY <1>3, <2>1 DEF BoundFrom, p
<1>5. p \in RefVars <=> q.byref
  BY RefVarsKnown
<1> DEFINE none == NoVar
<1>6. none = NoVar /\ none \in Vars \cup {NoVar}
  OBVIOUS
<1> HIDE DEF n, none, r, p
\* Assigned as it is, or after it has been made to stand for nothing.
<1>7. ASSUME NEW u, u \in Memory, Sound(u, fs, k, r, y), u.var[p].alias = NoVar,
             \A v \in Vars : v # p => u.var[v] = x.var[v],
             NEW t, t \in Text, n = Assign(u, p, t)
      PROVE  n \in Memory /\ Binding(m, n, fs, k, f, j, y)
  <2>1. /\ n \in Memory /\ Sound(n, fs, k, r, y) /\ n.var[p].alias = none
        /\ \A v \in Vars : v # p => n.var[v] = u.var[v]
    <3>1. /\ n \in Memory /\ Sound(n, fs, k, r, y) /\ n.var[p].alias = NoVar
          /\ \A v \in Vars : v # p => n.var[v] = u.var[v]
      BY <1>1, <1>7, ParameterAssigned
    <3> QED BY <1>6, <3>1
  <2>2. \A v \in Vars : v # p => n.var[v] = x.var[v]
    BY <1>7, <2>1
  <2>3. BoundFrom(n, m, fs, k, f, j)
    BY <1>3, <1>6, <2>1, <2>2, OneMoreBound DEF p
  <2> QED BY <2>1, <2>3 DEF Binding, r
<1>8. CASE ~q.byref
  <2>1. x.var[p].alias = NoVar
    BY <1>1, <1>3, <1>5, <1>8 DEF Sound, OnlyRefs, Plain
  <2>2. CASE j > len
    BY <1>1, <1>2, <1>3, <1>7, <1>8, <2>1, <2>2
  <2>3. CASE j <= len
    <3>1. Reads(x, arg[j]) \in Text
      <4>1. arg[j] \in Arg
        BY <1>1, <2>3
      <4> QED BY <4>1, ReadsText
    <3> QED BY <1>2, <1>3, <1>7, <1>8, <2>1, <2>3, <3>1
  <2> QED BY <1>1, <2>2, <2>3
<1>9. CASE q.byref /\ j > len
  <2> DEFINE u == ConvertToNonAlias(x, p)
  <2>1. Aliases(x, u, p, none)
    BY <1>1, <1>6, ConvertIs
  <2>2. n = Assign(u, p, q.default)
    BY <1>2, <1>9
  <2> HIDE DEF u
  <2>3. Sound(u, fs, k, r, y)
    BY <1>1, <1>3, <1>4, <1>5, <1>6, <1>9, <2>1, AliasKeepsSound DEF r
  <2>4. /\ u \in Memory /\ u.var[p].alias = NoVar
        /\ \A v \in Vars : v # p => u.var[v] = x.var[v]
    BY <1>6, <2>1 DEF Aliases
  <2> QED BY <1>1, <1>7, <2>2, <2>3, <2>4
<1>10. CASE q.byref /\ j <= len
  <2> DEFINE a == arg[j]
             w == Resolve(x, a)
  <2>1. n = UpdateAlias(x, p, a) /\ j \in DOMAIN arg
    BY <1>1, <1>2, <1>10
  <2>2. a \in Vars
    BY <1>10, <2>1 DEF ArgsRight
  <2>3. Target(m, fs, k, Resolve(m, a)) /\ Resolve(m, a) \notin Own(f)
    BY <1>10, <2>1, <2>2 DEF ArgsAway
  <2> HIDE DEF a
  <2>4. MayStandFor(x, fs, k, f, j, w)
    BY <1>3, <2>2, <2>3, StandsFor
  <2>5. w # p /\ w \in Vars
    <3>1. j \in 1 .. j
      BY <1>1
    <3> QED BY <2>4, <3>1 DEF MayStandFor, Target, p
  <2>6. Aliases(x, n, p, w)
    BY <1>1, <2>1, <2>2, <2>5, UpdateIs
  <2> HIDE DEF w
  <2>7. Sound(n, fs, k, r, y)
    BY <1>1, <1>3, <1>4, <1>5, <1>10, <2>5, <2>6, AliasKeepsSound DEF r
  <2>8. /\ n \in Memory /\ n.var[p].alias = w
        /\ \A v \in Vars : v # p => n.var[v] = x.var[v]
    BY <2>6 DEF Aliases
  <2>9. BoundFrom(n, m, fs, k, f, j)
    BY <1>3, <2>4, <2>8, OneMoreBound DEF p
  <2> QED BY <2>7, <2>8, <2>9 DEF Binding, r
<1> QED BY <1>1, <1>8, <1>9, <1>10

LEMMA BindKeepsSound ==
  ASSUME NEW m \in Memory, NEW fs, NEW k \in Nat \ {0}, BackupsRight(fs, k),
         NEW f \in Funcs, f = fs[k].func, OutsVisible(fs, k), NEW arg,
         ArgsAway(m, fs, k, f, arg), NEW from \in 1 .. Len(Params[f]) + 1,
         ArgsRight(f, arg, from), NEW y, Sound(m, fs, k, k - 1, y),
         \A v \in Own(f) : ~Owned(m.var[v])
  PROVE  /\ Bind(m, f, arg, from) \in Memory
         /\ Sound(Bind(m, f, arg, from), fs, k, k - 1, y)
         /\ from = 1 => Sound(Bind(m, f, arg, from), fs, k, k, y)
<1> DEFINE L == Len(Params[f])
           I == [j \in 1 .. L + 1 |-> {x \in Memory : Binding(m, x, fs, k, f, j, y)}]
           n == Bind(m, f, arg, from)
<1>1. /\ L \in Nat /\ DOMAIN Params[f] = 1 .. L /\ from \in Nat
      /\ \A i \in 1 .. L : Params[f][i].var \in Own(f)
  BY ParamsKnown
<1>2. \A j \in 1 .. L + 1 : I[j] = {x \in Memory : Binding(m, x, fs, k, f, j, y)}
  OBVIOUS
<1> HIDE DEF I
<1>3. m \in I[L + 1]
  <2>1. L + 1 \in 1 .. L + 1 /\ \A i \in L + 1 .. L : FALSE
    BY <1>1
  <2>2. \A i \in 1 .. (L + 1) - 1 : i \in 1 .. L
    BY <1>1
  <2> DEFINE J == L + 1
  <2>3. BoundFrom(m, m, fs, k, f, J)
    BY <1>1, <2>1, <2>2 DEF BoundFrom
  <2>4. Binding(m, m, fs, k, f, J, y)
    BY <2>3 DEF Binding
  <2> QED BY <1>2, <2>1, <2>4
<1>4. ASSUME NEW j \in from .. L, NEW x \in Memory, x \in I[j + 1]
      PROVE  BindOne(x, Params[f][j], j, arg) \in I[j]
  <2>1. j \in DOMAIN Params[f] /\ j \in 1 .. L + 1 /\ j + 1 \in 1 .. L + 1 /\ j >= from
    BY <1>1
  <2>2. Binding(m, x, fs, k, f, j + 1, y)
    BY <1>2, <1>4, <2>1
  <2>3. /\ BindOne(x, Params[f][j], j, arg) \in Memory
        /\ Binding(m, BindOne(x, Params[f][j], j, arg), fs, k, f, j, y)
    BY <1>1, <2>1, <2>2, BindsOneMore
  <2> QED BY <1>2, <2>1, <2>3
<1>5. n \in Memory /\ n \in I[from]
  BY <1>1, <1>3, <1>4, BindInduction
<1> HIDE DEF n
<1>6. BoundFrom(n, m, fs, k, f, from) /\ Sound(n, fs, k, k - 1, y)
  BY <1>2, <1>5 DEF Binding
<1>7. ASSUME from = 1 PROVE Sound(n, fs, k, k, y)
  <2>1. Direct(AliasesOf(n), fs, k)
    <3> SUFFICES ASSUME NEW v \in Own(f), AliasesOf(n)[v] # NoVar
                 PROVE  /\ AliasesOf(n)[AliasesOf(n)[v]] = NoVar
                        /\ Running(fs, k, AliasesOf(n)[v])
      BY DEF Direct
    <3> DEFINE w == n.var[v].alias
    <3>1. v \in Vars /\ AliasesOf(n)[v] = w /\ w # NoVar /\ w \in Vars
      BY <1>5, VarsKnown, AliasesTyped, Fields
    <3>2. AliasesOf(n)[w] = n.var[w].alias
      BY <1>5, <3>1, AliasesTyped
    <3>3. v \in RefVars
      BY <1>6, <3>1 DEF Sound, OnlyRefs, Plain
    <3>4. PICK i \in DOMAIN Params[f] : Params[f][i].var = v
      BY <3>3, RefVarsKnown
    <3>5. n.var[w].alias = NoVar /\ Running(fs, k, w)
      <4>1. i \in from .. Len(Params[f])
        BY <1>1, <1>7
      <4>2. n.var[Params[f][i].var].alias # NoVar
        BY <3>1, <3>4
      <4>3. LET t == n.var[Params[f][i].var].alias
            IN n.var[t].alias = NoVar /\ Running(fs, k, t)
        BY <1>6, <4>1, <4>2 DEF BoundFrom
      <4> QED BY <3>4, <4>3
    <3> QED BY <3>1, <3>2, <3>5
  <2>2. Standing(n, fs, k, k)
    BY <1>6, <2>1, StandsDirectly DEF Sound
  <2> QED BY <1>6, <2>2 DEF Sound
<1> QED BY <1>5, <1>6, <1>7 DEF n

-------------------------------------------------------------------------------
(* Step by step: every block has its owner between two steps. *)

Settled == Inv /\ Sound(mem, frames, Top, Top, 0)

LEMMA SettledFields ==
  ASSUME Settled
  PROVE  /\ frames \in Seq(Activation) /\ Top \in Nat /\ Top = Len(frames) /\ Stack(frames)
         /\ mem \in Memory /\ Base(mem, frames, Top) /\ BackupsRight(frames, Top)
         /\ OutsVisible(frames, Top)
         /\ \A i \in 1 .. Top : frames[i].func \in Funcs \cup {NoFunc}
         /\ frames # <<>> => Top \in Nat \ {0}
<1>1. /\ frames \in Seq(Activation) /\ Top \in Nat /\ Top = Len(frames) /\ Stack(frames)
      /\ mem \in Memory /\ Base(mem, frames, Top) /\ BackupsRight(frames, Top)
      /\ frames # <<>> => Top \in Nat \ {0}
  BY InvFields DEF Settled, Inv
<1>2. \A i \in 1 .. Top : frames[i].func \in Funcs \cup {NoFunc} /\ LineRight(frames[i])
  BY <1>1, StackFields DEF Stack
<1>3. OutsVisible(frames, Top)
  BY <1>2, NoLineTyped DEF LineRight, OutsVisible
<1> QED BY <1>1, <1>2, <1>3

\* The last activation assigns to a variable that it sees.
LEMMA AssignKeepsSound ==
  ASSUME NEW m \in Memory, NEW fs, NEW k \in Nat \ {0}, NEW y, Sound(m, fs, k, k, y),
         fs[k].func \in Funcs \cup {NoFunc}, NEW v \in Visible(fs[k].func), NEW x \in Text
  PROVE  Sound(Assign(m, v, x), fs, k, k, y) /\ Assign(m, v, x) \in Memory
<1>1. v \in Vars
  BY VarsKnown
<1>2. Target(m, fs, k, Resolve(m, v))
  BY TargetOf DEF Sound
<1>3. Writes(m, Assign(m, v, x), Resolve(m, v))
  BY <1>1, Assigns
<1>4. Sound(Assign(m, v, x), fs, k, k, y)
  BY <1>2, <1>3, WriteKeepsSound
<1> QED BY <1>3, <1>4 DEF Writes

LEMMA InitSettled ==
  ASSUME Init PROVE Settled
<1>1. Inv
  BY InitInv
<1>2. frames = <<>> /\ Top = 0
  BY DEF Init, Top
<1>3. /\ mem = [var |-> [v \in Vars |-> NewVar], buf |-> FALSE, allocs |-> 0, simple |-> 0]
      /\ mem \in Memory
  BY <1>1, InvFields DEF Init
<1>4. \A v \in Vars : mem.var[v].alias = NoVar /\ ~Owned(mem.var[v])
  <2>1. \A v \in Vars : mem.var[v] = NewVar
    BY <1>3
  <2>2. NewVar.alias = NoVar /\ ~Owned(NewVar)
    BY DEF NewVar, Owned
  <2> QED BY <2>1, <2>2
<1> DEFINE k == 0
<1>5. OnlyRefs(mem, frames, k) /\ Idle(mem, frames, k)
  <2>1. \A f \in Funcs : Own(f) \subseteq Vars
    BY VarsKnown
  <2> QED BY <1>4, <2>1 DEF OnlyRefs, Plain, Idle
<1>6. Standing(mem, frames, k, k)
  <2> DEFINE A == [i \in 0 .. k |-> AliasesOf(mem)]
  <2>1. A \in [0 .. k -> Targets] /\ A[k] = AliasesOf(mem)
    BY <1>3, AliasesTyped
  <2> HIDE DEF A
  <2>2. Layers(A, mem, frames, k)
    BY <2>1 DEF Layers
  <2> QED BY <2>1, <2>2 DEF Standing
<1>7. Owed(frames, k, k)
  <2> DEFINE H == [i \in 0 .. k |-> 0]
  <2>1. H \in [0 .. k -> Int] /\ H[0] = 0 /\ H[k] = k
    OBVIOUS
  <2>2. \A i \in 1 .. k : FALSE
    OBVIOUS
  <2> HIDE DEF H
  <2> QED BY <2>1, <2>2 DEF Owed
<1>8. Surplus(mem) - 0 = k
  <2>1. Owning(mem) = {}
    BY <1>4 DEF Owning
  <2>2. Cardinality(Owning(mem)) = 0
    BY <2>1, FS_EmptySet
  <2>3. mem.allocs = 0 /\ Has(mem.buf) = 0
    BY <1>3 DEF Has
  <2> DEFINE c == Cardinality(Owning(mem))
             h == Has(mem.buf)
  <2>4. Surplus(mem) = (mem.allocs - c) - h
    BY DEF Surplus
  <2>5. c = 0 /\ h = 0
    BY <2>2, <2>3
  <2> HIDE DEF c, h
  <2> QED BY <2>3, <2>4, <2>5
<1>9. Owed(frames, k, Surplus(mem) - 0)
  BY <1>7, <1>8
<1> QED BY <1>1, <1>2, <1>5, <1>6, <1>9 DEF Settled, Sound

LEMMA SetSettles ==
  ASSUME Settled, Set PROVE Settled'
<1>1. Inv'
  BY SetKeeps DEF Settled
<1>2. /\ mem \in Memory /\ Top \in Nat \ {0} /\ frames # <<>>
      /\ frames[Top].func \in Funcs \cup {NoFunc}
  BY SettledFields DEF Set
<1>3. PICK l \in Sets : l.var \in Visible(CurrentFunc) /\ mem' = Assign(WithBuf(mem), l.var, l.text)
  BY DEF Set
<1>4. frames' = frames /\ Top' = Top
  BY DEF Set, Top
<1> DEFINE m == WithBuf(mem)
           y == 0
<1>5. y \in Int /\ y + y = y /\ Sound(mem, frames, Top, Top, y) /\ BufferMoves(mem, m, y)
  <2>1. BufferMoves(mem, WithBuf(mem), 0)
    BY <1>2, WithBufIs
  <2>2. Sound(mem, frames, Top, Top, y)
    BY DEF Settled
  <2> HIDE DEF m
  <2>3. y \in Int /\ y + y = y
    OBVIOUS
  <2>4. BufferMoves(mem, m, y)
    BY <2>1 DEF m
  <2> HIDE DEF y
  <2> QED BY <2>2, <2>3, <2>4
<1>6. m \in Memory
  BY <1>5 DEF BufferMoves
<1> HIDE DEF y, m
<1>7. Sound(m, frames, Top, Top, y)
  <2>1. Sound(m, frames, Top, Top, y + y)
    BY <1>2, <1>5, MoveKeepsSound
  <2> QED BY <1>5, <2>1
<1>8. Sound(mem', frames, Top, Top, y)
  <2>1. l.var \in Visible(frames[Top].func) /\ l.text \in Text /\ mem' = Assign(m, l.var, l.text)
    BY <1>3, SetsKnown DEF CurrentFunc, m
  <2> QED BY <1>2, <1>6, <1>7, <2>1, AssignKeepsSound
<1> QED BY <1>1, <1>4, <1>8 DEF Settled, y

LEMMA TimeoutSettles ==
  ASSUME Settled, DerefTimeout PROVE Settled'
<1>1. Inv'
  BY TimeoutKeeps DEF Settled
<1> DEFINE b == FALSE
           a == mem.allocs - 1
           y == 0
<1>2. mem' = [mem EXCEPT !.buf = FALSE, !.allocs = @ - 1] /\ mem.buf
      /\ frames' = frames /\ Top' = Top
  BY DEF DerefTimeout, Top
<1>3. mem \in Memory /\ mem.allocs \in Int /\ mem.buf \in BOOLEAN
  BY SettledFields, Fields
<1>4. b \in BOOLEAN /\ a \in Int /\ y \in Int /\ mem' = [mem EXCEPT !.buf = b, !.allocs = a]
  BY <1>2, <1>3
<1>5. y + y = y /\ Sound(mem, frames, Top, Top, y)
  BY DEF Settled
<1>6. Differ(mem, b, a, y)
  BY <1>2, <1>3 DEF Differ, Has
<1> HIDE DEF b, a, y
<1>7. BufferIs(mem', mem, b, a)
  BY <1>3, <1>4, BufferTyped
<1>8. BufferMoves(mem, mem', y)
  BY <1>3, <1>4, <1>6, <1>7, Buffers
<1>9. Sound(mem', frames, Top, Top, y)
  <2>1. Sound(mem', frames, Top, Top, y + y)
    BY <1>3, <1>4, <1>5, <1>8, MoveKeepsSound
  <2> QED BY <1>5, <2>1
<1> QED BY <1>1, <1>2, <1>9 DEF Settled, y

LEMMA ThreadSettles ==
  ASSUME Settled, Thread PROVE Settled'
<1>1. Inv'
  BY ThreadKeeps DEF Settled
<1> DEFINE fr == Frame(NoFunc, None)
           K == Top + 1
           y == 0
<1>2. Between /\ mem' = mem /\ frames' = Append(frames, fr)
  BY DEF Thread, Interrupts
<1>3. frames \in Seq(Activation) /\ Top \in Nat /\ Top = Len(frames) /\ mem \in Memory
  BY SettledFields
<1>4. /\ fr \in Activation /\ fr.func = NoFunc /\ fr.bkp = None /\ fr.line.calls = 0
  BY FrameTyped, NoLineTyped
<1>5. Pushes(frames, frames', fr)
  BY <1>2, <1>3, <1>4, PushIs
<1> HIDE DEF fr
<1>6. /\ Len(frames') = K /\ frames'[K] = fr
      /\ \A i \in 1 .. Top : frames'[i] = frames[i]
  BY <1>3, <1>5 DEF Pushes
<1>7. Top > 0 => frames'[Top].line.calls = 0
  <2>1. Len(frames) > 0 => frames[Len(frames)].line.calls = 0
    BY <1>2, NobodyWaits DEF Settled
  <2>2. Top > 0 => Top \in 1 .. Top
    BY <1>3
  <2> QED BY <1>3, <1>6, <2>1, <2>2
<1>8. y \in Int /\ Sound(mem, frames, Top, Top, y)
  BY DEF Settled
<1> HIDE DEF y
<1>9. Sound(mem, frames', K, K, y)
  BY <1>3, <1>4, <1>6, <1>7, <1>8, ThreadPushKeepsSound
<1> QED BY <1>1, <1>2, <1>6, <1>9 DEF Settled, Top, y

\* A call's result is for no variable that its function's end will restore.
LEMMA AwaitsCall ==
  ASSUME Settled, frames # <<>>, NEW f \in Funcs, NEW out \in Visible(CurrentFunc) \cup {NoVar},
         ~LosesResult(f, out), out # NoVar, CurrentFunc # f
  PROVE  mem.var[out].alias \notin Own(f)
<1>1. /\ mem \in Memory /\ Top \in Nat \ {0} /\ frames[Top].func \in Funcs \cup {NoFunc}
      /\ frames \in Seq(Activation) /\ CurrentFunc = frames[Top].func
  BY SettledFields DEF CurrentFunc
<1>2. CASE mem.var[out].alias = NoVar
  BY <1>2, VarsKnown
<1>3. CASE mem.var[out].alias # NoVar
  <2> DEFINE w == Resolve(mem, out)
  <2>1. w = mem.var[out].alias
    BY <1>3 DEF Resolve
  <2>2. Target(mem, frames, Top, w)
    <3>1. OnlyRefs(mem, frames, Top) /\ Standing(mem, frames, Top, Top)
      BY DEF Settled, Sound
    <3>2. out \in Visible(frames[Top].func)
      BY <1>1
    <3> HIDE DEF w
    <3>3. Target(mem, frames, Top, Resolve(mem, out))
      BY <1>1, <3>1, <3>2, TargetOf
    <3> QED BY <3>3 DEF w
  <2>3. Instances(f) > 0 <=> Runs(frames, Top, f)
    BY <1>1, Instanced
  <2>4. w \in Own(f) => Runs(frames, Top, f)
    BY <2>2 DEF Target, Running
  <2>5. Instances(f) > 0 => w \notin Own(f)
    BY DEF LosesResult
  <2> QED BY <2>1, <2>3, <2>4, <2>5
<1> QED BY <1>2, <1>3

\* What a call relies on: m1 is the memory in which its parameters are bound, hs the
\* activations with the caller's line and the function's.
Entered(m1, hs, f, arg, line) ==
  /\ m1 \in Memory /\ hs \in Seq(Activation) /\ Len(hs) = Top + 1
  /\ BackupsRight(hs, Top + 1) /\ OutsVisible(hs, Top + 1)
  /\ hs[Top + 1].func = f /\ hs[Top + 1].line = NoLine /\ hs[Top].line = line
  /\ \A i \in 1 .. Top : hs[i].func = frames[i].func /\ hs[i].bkp = frames[i].bkp
  /\ \A i \in 1 .. Top - 1 : hs[i] = frames[i]
  /\ Sound(m1, hs, Top + 1, Top, 0)
  /\ \A v \in Own(f) : ~Owned(m1.var[v])
  /\ ArgsAway(m1, hs, Top + 1, f, arg)

\* The caller's line waits, from now on or still, and has taken the buffer.
LEMMA CallerWaits ==
  ASSUME Settled, frames # <<>>, NEW l \in Lines, NEW line, LineOfCall(l, line), line.calls > 0,
         NEW m0, m0 = (IF frames[Top].line.calls = 0 THEN TakeBuf(mem) ELSE mem),
         NEW gs, gs = [frames EXCEPT ![Top].line = line]
  PROVE  /\ Relined(frames, gs, Top, line) /\ Sound(m0, gs, Top, Top, 0)
         /\ m0 \in Memory /\ m0.var = mem.var /\ Base(m0, gs, Top)
<1>1. /\ frames \in Seq(Activation) /\ Top \in Nat \ {0} /\ Top = Len(frames) /\ mem \in Memory
      /\ Base(mem, frames, Top) /\ BackupsRight(frames, Top) /\ Top \in 1 .. Top /\ Top \in Nat
  BY SettledFields
<1>2. Relined(frames, gs, Top, line)
  BY <1>1, SetLine DEF LineOfCall
<1>3. /\ SameCalls(frames, gs, Top) /\ gs[Top].line = line
      /\ \A i \in 1 .. Top - 1 : gs[i] = frames[i]
  BY <1>2 DEF Relined
<1>4. m0 \in Memory /\ m0.var = mem.var
  BY <1>1, TakeBufIs DEF BufferMoves
<1>5. Base(m0, gs, Top)
  <2>1. Base(m0, frames, Top)
    BY <1>1, WithBufKeepsBase
  <2> QED BY <1>1, <1>3, <2>1, SameCallsKeepBase
<1> DEFINE z == 0
<1>6. z \in Int /\ Sound(mem, frames, Top, Top, z)
  BY DEF Settled
<1>7. Waits(gs[Top]) = 1
  BY <1>3 DEF Waits
<1>8. Sound(m0, gs, Top, Top, z)
  <2>1. CASE frames[Top].line.calls = 0
    <3> DEFINE y == 1
    <3>1. y \in Int /\ BufferMoves(mem, m0, y)
      <4>1. BufferMoves(mem, TakeBuf(mem), 1)
        BY <1>1, TakeBufIs
      <4> QED BY <2>1, <4>1
    <3>2. z + y = y
      OBVIOUS
    <3>3. Waits(frames[Top]) = 0
      BY <2>1 DEF Waits
    <3>4. z = y + Waits(frames[Top]) - Waits(gs[Top])
      BY <1>7, <3>3
    <3> HIDE DEF y, z
    <3>5. Sound(m0, frames, Top, Top, y)
      <4>1. Sound(m0, frames, Top, Top, z + y)
        BY <1>1, <1>6, <3>1, MoveKeepsSound
      <4> QED BY <3>2, <4>1
    <3>6. IF Top = 0 THEN z = y ELSE z = y + Waits(frames[Top]) - Waits(gs[Top])
      BY <1>1, <3>4
    <3>7. Top <= Top
      BY <1>1
    <3> QED BY <1>1, <1>3, <1>4, <1>6, <3>1, <3>5, <3>6, <3>7, SameKeepsSound
  <2>2. CASE frames[Top].line.calls # 0
    <3>1. m0 = mem /\ line = frames[Top].line
      BY <2>2 DEF LineOfCall
    <3>2. Waits(frames[Top]) = 1
      BY <1>3, <3>1 DEF Waits
    <3>3. z = z + Waits(frames[Top]) - Waits(gs[Top])
      BY <1>7, <3>2
    <3> HIDE DEF z
    <3>4. IF Top = 0 THEN z = z ELSE z = z + Waits(frames[Top]) - Waits(gs[Top])
      BY <3>3
    <3>5. Top <= Top /\ Sound(m0, frames, Top, Top, z) /\ z \in Int
      BY <1>1, <1>6, <3>1
    <3> QED BY <1>1, <1>3, <1>4, <3>4, <3>5, SameKeepsSound
  <2> QED BY <2>1, <2>2
<1> QED BY <1>2, <1>4, <1>5, <1>8

\* What Call makes of the memory, the stack and the actual parameters.
Entering(l, f, line, m0, m1, bkp, arg, gs, hs) ==
  /\ m0 = (IF frames[Top].line.calls = 0 THEN TakeBuf(mem) ELSE mem)
  /\ m1 = (IF Instances(f) > 0 THEN BackupFunctionVars(m0, f) ELSE m0)
  /\ bkp = (IF Instances(f) > 0 THEN [v \in Own(f) |-> mem.var[v]] ELSE None)
  /\ arg = (IF Instances(f) > 0 THEN Converted(m0, f, l.arg) ELSE l.arg)
  /\ gs = [frames EXCEPT ![Top].line = line]
  /\ hs = Append(gs, Frame(f, bkp))

LEMMA CallEnters ==
  ASSUME Settled, frames # <<>>, NEW l \in Lines, NEW f, f = l.func, CanRead(l),
         ~PassesItsOwn(f, l.arg), ~LosesResult(f, l.out),
         NEW line, LineOfCall(l, line), line.calls > 0, line.out = l.out,
         NEW m0, NEW m1, NEW bkp, NEW arg, NEW gs, NEW hs,
         Entering(l, f, line, m0, m1, bkp, arg, gs, hs)
  PROVE  Entered(m1, hs, f, arg, line)
<1>1. /\ frames \in Seq(Activation) /\ Top \in Nat \ {0} /\ Top = Len(frames) /\ mem \in Memory
      /\ Base(mem, frames, Top) /\ BackupsRight(frames, Top) /\ Top \in 1 .. Top /\ Top \in Nat
      /\ Top + 1 \in Nat /\ Top + 1 # Top /\ OutsVisible(frames, Top)
      /\ Top - 1 \in Nat
  BY SettledFields
<1>2. f \in Funcs /\ l.out \in Visible(CurrentFunc) \cup {NoVar}
  BY LinesKnown DEF CanRead
<1>3. /\ Relined(frames, gs, Top, line) /\ Sound(m0, gs, Top, Top, 0)
      /\ m0 \in Memory /\ m0.var = mem.var /\ Base(m0, gs, Top)
  BY CallerWaits DEF Entering
<1>4. /\ gs \in Seq(Activation) /\ Len(gs) = Top /\ SameCalls(frames, gs, Top)
      /\ gs[Top].line = line /\ \A i \in 1 .. Top - 1 : gs[i] = frames[i]
  BY <1>3 DEF Relined
<1>5. /\ bkp \in Backup \cup {None} /\ Frame(f, bkp) \in Activation
      /\ Frame(f, bkp).func = f /\ Frame(f, bkp).bkp = bkp /\ Frame(f, bkp).line = NoLine
  <2>1. bkp = [v \in Own(f) |-> mem.var[v]] \/ bkp = None
    BY DEF Entering
  <2> QED BY <1>1, <1>2, <2>1, NextFrame, FrameTyped
<1>6. Pushes(gs, hs, Frame(f, bkp))
  BY <1>4, <1>5, PushIs DEF Entering
<1>7. /\ hs \in Seq(Activation) /\ Len(hs) = Top + 1
      /\ hs[Top + 1].func = f /\ hs[Top + 1].bkp = bkp /\ hs[Top + 1].line = NoLine
      /\ \A i \in 1 .. Top : hs[i] = gs[i]
  BY <1>4, <1>5, <1>6 DEF Pushes
<1>8. /\ \A i \in 1 .. Top : hs[i].func = frames[i].func /\ hs[i].bkp = frames[i].bkp
      /\ \A i \in 1 .. Top - 1 : i \in 1 .. Top /\ hs[i] = frames[i]
      /\ hs[Top].line = line /\ hs[Top].func = frames[Top].func
  <2>1. \A i \in 1 .. Top : hs[i].func = frames[i].func /\ hs[i].bkp = frames[i].bkp
    BY <1>4, <1>7 DEF SameCalls
  <2>2. \A i \in 1 .. Top - 1 : i \in 1 .. Top
    BY <1>1
  <2>3. \A i \in 1 .. Top - 1 : hs[i] = frames[i]
    BY <1>4, <1>7, <2>2
  <2>4. hs[Top].line = line
    BY <1>1, <1>4, <1>7
  <2> QED BY <1>1, <2>1, <2>2, <2>3, <2>4
<1>9. Enters(m0, m1, gs, hs, Top, f)
  <2>1. Instances(f) > 0 <=> Runs(frames, Top, f)
    BY <1>1, Instanced
  <2>2. Runs(frames, Top, f) <=> Runs(gs, Top, f)
    BY <1>4 DEF Runs, SameCalls
  <2>3. SameCalls(gs, hs, Top)
    BY <1>7 DEF SameCalls
  <2> QED BY <1>3, <1>7, <2>1, <2>2, <2>3 DEF Enters, Entering
<1>10. Awaits(AliasesOf(m0), hs, Top)
  <2> DEFINE a == AliasesOf(m0)
             out == line.out
  <2>1. out \in Vars \cup {NoVar} /\ out \in Visible(CurrentFunc) \cup {NoVar} /\ out = l.out
    BY <1>2, LinesKnown
  <2>2. out # NoVar => a[out] = mem.var[out].alias
    BY <1>3, <2>1, AliasesTyped
  <2>3. hs[Top].func = CurrentFunc
    BY <1>8 DEF CurrentFunc
  <2> HIDE DEF a, out
  <2>4. out # NoVar /\ CurrentFunc # f => mem.var[out].alias \notin Own(f)
    BY <1>2, <2>1, AwaitsCall
  <2>5. out # NoVar /\ hs[Top + 1].func # hs[Top].func => a[out] \notin Own(hs[Top + 1].func)
    BY <1>7, <2>2, <2>3, <2>4
  <2> QED BY <1>8, <2>5 DEF Awaits, a, out
<1> DEFINE z == 0
<1>11. z \in Int /\ Sound(m0, gs, Top, Top, z)
  BY <1>3
<1> HIDE DEF z
<1>12. /\ Sound(m1, hs, Top + 1, Top, z) /\ m1 \in Memory
       /\ \A v \in Own(f) : ~Owned(m1.var[v])
  <2>1. hs[Top + 1].line.calls = 0
    BY <1>7, NoLineTyped
  <2>2. Base(m0, gs, Top) /\ f \in Funcs /\ Top \in Nat /\ \A i \in 1 .. Top : hs[i] = gs[i]
    BY <1>1, <1>2, <1>3, <1>7
  <2>3. Top > 0 => Awaits(AliasesOf(m0), hs, Top)
    BY <1>10
  <2> QED BY <1>9, <1>11, <2>1, <2>2, <2>3, PushKeepsSound
<1>13. BackupsRight(hs, Top + 1)
  BY <1>1, <1>2, <1>3, <1>9, EntersIs
<1>14. OutsVisible(hs, Top + 1)
  <2>1. \A i \in 1 .. Top + 1 : i = Top + 1 \/ i = Top \/ i \in 1 .. Top - 1
    BY <1>1
  <2>2. hs[Top].line.out \in Visible(hs[Top].func) \cup {NoVar}
    BY <1>2, <1>8 DEF CurrentFunc
  <2>3. hs[Top + 1].line.out \in Visible(hs[Top + 1].func) \cup {NoVar}
    BY <1>7, NoLineTyped
  <2> QED BY <1>1, <1>2, <1>7, <1>8, <2>1, <2>2, <2>3 DEF OutsVisible
<1>15. ArgsAway(m1, hs, Top + 1, f, arg)
  <2>1. \A v \in Vars : m1.var[v].alias = mem.var[v].alias
    <3>1. Pushed(m0, m1, hs, Top + 1)
      BY <1>1, <1>2, <1>3, <1>9, EntersIs
    <3> QED BY <1>3, <3>1 DEF Pushed
  <2> SUFFICES ASSUME NEW j \in DOMAIN arg, Params[f][j].byref, arg[j] \in Vars
               PROVE  /\ Target(m1, hs, Top + 1, Resolve(m1, arg[j]))
                      /\ Resolve(m1, arg[j]) \notin Own(f)
    BY DEF ArgsAway
  <2> DEFINE a == arg[j]
  <2>2. j \in DOMAIN l.arg /\ a = l.arg[j]
    <3>1. CASE Instances(f) > 0
      <4>1. arg = Converted(m0, l.func, l.arg)
        BY <3>1 DEF Entering
      <4>2. DOMAIN arg = DOMAIN l.arg
        BY <1>3, <4>1, CallArgs
      <4> QED BY <4>1, <4>2 DEF Converted
    <3>2. CASE ~(Instances(f) > 0)
      BY <3>2 DEF Entering
    <3> QED BY <3>1, <3>2
  <2>3. a \in Visible(frames[Top].func)
    <3>1. IsVar(l.arg[j])
      BY <2>2, CallsAssumption DEF IsVar
    <3> QED BY <2>2, <3>1 DEF CanRead, CurrentFunc
  <2>4. Resolve(mem, a) \notin Own(f)
    <3>1. IsVar(l.arg[j])
      BY <2>2, CallsAssumption DEF IsVar
    <3> QED BY <2>2, <3>1 DEF PassesItsOwn
  <2> HIDE DEF a
  <2>5. Target(mem, frames, Top, Resolve(mem, a))
    <3>1. OnlyRefs(mem, frames, Top) /\ Standing(mem, frames, Top, Top)
      BY DEF Settled, Sound
    <3>2. frames[Top].func \in Funcs \cup {NoFunc}
      BY <1>1, SettledFields
    <3> QED BY <1>1, <2>3, <3>1, <3>2, TargetOf
  <2>6. Resolve(m1, a) = Resolve(mem, a)
    <3>1. a \in Vars
      BY DEF a
    <3> QED BY <2>1, <3>1 DEF Resolve
  <2>7. \A e : Runs(frames, Top, e) => Runs(hs, Top + 1, e)
    <3>1. \A i \in 1 .. Top : i \in 1 .. Top + 1
      BY <1>1
    <3> QED BY <1>8, <3>1 DEF Runs
  <2> QED BY <2>1, <2>4, <2>5, <2>6, <2>7 DEF Target, Running, a
<1> QED BY <1>7, <1>8, <1>12, <1>13, <1>14, <1>15 DEF Entered, z

LEMMA BoundSettles ==
  ASSUME Settled, Inv', NEW f \in Funcs, NEW hs, NEW arg, NEW line, NEW m1,
         Entered(m1, hs, f, arg, line), ArgsRight(f, arg, 1),
         mem' = Bind(m1, f, arg, 1), frames' = hs
  PROVE  Settled'
<1> DEFINE K == Top + 1
           y == 0
           from == 1
<1>1. Top \in Nat
  BY SettledFields
<1>2. /\ m1 \in Memory /\ BackupsRight(hs, K) /\ OutsVisible(hs, K)
      /\ hs[K].func = f /\ Len(hs) = K /\ ArgsAway(m1, hs, K, f, arg)
      /\ \A v \in Own(f) : ~Owned(m1.var[v])
  BY DEF Entered
<1>3. K \in Nat \ {0}
  BY <1>1
<1>4. from \in 1 .. Len(Params[f]) + 1 /\ ArgsRight(f, arg, from)
      /\ mem' = Bind(m1, f, arg, from) /\ from = 1
  BY ParamsKnown
<1>5. Sound(m1, hs, K, K - 1, y)
  <2>1. K - 1 = Top
    BY <1>1
  <2>2. Sound(m1, hs, K, Top, y)
    BY DEF Entered
  <2> QED BY <2>1, <2>2
<1> HIDE DEF K, y, from
<1>6. Sound(mem', hs, K, K, y)
  BY <1>2, <1>3, <1>4, <1>5, BindKeepsSound
<1>7. Top' = K
  BY <1>2 DEF Top
<1> QED BY <1>6, <1>7 DEF Settled, y

\* Every way to end a line gives its buffer back.
LEMMA LineEnds ==
  ASSUME NEW m \in Memory, NEW fs, NEW gs, NEW n \in Nat \ {0}, BackupsRight(fs, n),
         Sound(m, fs, n, n, 0), fs[n].line.calls > 0, Relined(fs, gs, n, NoLine)
  PROVE  Sound(PutBack(m), gs, n, n, 0) /\ PutBack(m) \in Memory
<1> DEFINE y == 0
           x == -1
           p == PutBack(m)
<1>1. y \in Int /\ x \in Int /\ Sound(m, fs, n, n, y) /\ y + x = x
  OBVIOUS
<1>2. BufferMoves(m, p, x)
  BY PutBackIs
<1>3. /\ SameCalls(fs, gs, n) /\ gs[n].line = NoLine
      /\ \A i \in 1 .. n - 1 : gs[i] = fs[i]
  BY DEF Relined
<1>4. Waits(fs[n]) = 1 /\ Waits(gs[n]) = 0
  BY <1>3, NoLineTyped DEF Waits
<1>5. y = x + Waits(fs[n]) - Waits(gs[n]) /\ n # 0 /\ n <= n /\ n \in Nat
  BY <1>4
<1> HIDE DEF y, x, p
<1>6. Sound(p, fs, n, n, x)
  <2>1. Sound(p, fs, n, n, y + x)
    BY <1>1, <1>2, MoveKeepsSound
  <2> QED BY <1>1, <2>1
<1>7. p \in Memory
  BY <1>2 DEF BufferMoves
<1>8. Sound(p, gs, n, n, y)
  <2>1. IF n = 0 THEN y = x ELSE y = x + Waits(fs[n]) - Waits(gs[n])
    BY <1>5
  <2> QED BY <1>1, <1>3, <1>5, <1>6, <1>7, <2>1, SameKeepsSound
<1> QED BY <1>7, <1>8 DEF y, p

LEMMA RefusedSettles ==
  ASSUME Settled, Inv', frames # <<>>, NEW f \in Funcs, NEW hs, NEW arg, NEW line, NEW m1,
         Entered(m1, hs, f, arg, line), arg \in Seq(Arg), Len(arg) <= Len(Params[f]),
         line.calls > 0, NEW out \in Visible(CurrentFunc) \cup {NoVar}, NEW bkp,
         bkp = hs[Top + 1].bkp, RefusedCall(m1, f, arg, bkp, out)
  PROVE  Settled'
<1> DEFINE bad == {j \in DOMAIN arg : Params[f][j].byref /\ ~IsVar(arg[j])}
           last == CHOOSE j \in bad : \A k \in bad : k <= j
           from == last + 1
           m2 == Bind(m1, f, arg, from)
           m3 == FreeAndRestore(m2, f, bkp)
           m4 == PutBack(m3)
           K == Top + 1
           y == 0
<1>1. /\ bad # {} /\ mem' = (IF out = NoVar THEN m4 ELSE Assign(m4, out, ""))
      /\ frames' = [frames EXCEPT ![Top].line = NoLine]
  BY DEF RefusedCall
<1>2. from \in 1 .. Len(Params[f]) + 1 /\ ArgsRight(f, arg, from)
  <2> HIDE DEF bad
  <2> DEFINE b == bad
  <2>1. from = last + 1 /\ last = CHOOSE j \in b : \A k \in b : k <= j
    OBVIOUS
  <2>2. b = {j \in DOMAIN arg : Params[f][j].byref /\ ~IsVar(arg[j])} /\ b # {}
    BY <1>1 DEF bad
  <2> HIDE DEF b, last
  <2> QED BY <2>1, <2>2, Refused
<1> HIDE DEF bad, from
<1>3. /\ Top \in Nat \ {0} /\ Top \in Nat /\ K - 1 = Top /\ Top \in 1 .. Top /\ K \in Nat \ {0}
      /\ frames \in Seq(Activation) /\ Top = Len(frames)
      /\ frames[Top].func \in Funcs \cup {NoFunc} /\ y \in Int /\ y + 0 = y
      /\ Top = K - 1
  BY SettledFields
<1>4. /\ m1 \in Memory /\ BackupsRight(hs, K) /\ OutsVisible(hs, K)
      /\ hs[K].func = f /\ Len(hs) = K /\ ArgsAway(m1, hs, K, f, arg)
      /\ \A v \in Own(f) : ~Owned(m1.var[v])
      /\ Sound(m1, hs, K, Top, y) /\ hs[K].bkp = bkp /\ hs[Top].line = line
      /\ hs[K].line = NoLine
  BY DEF Entered
<1>5. /\ \A i \in 1 .. Top : hs[i].func = frames[i].func /\ hs[i].bkp = frames[i].bkp
      /\ \A i \in 1 .. Top - 1 : hs[i] = frames[i]
  BY DEF Entered
<1> HIDE DEF K, y
<1>6. Sound(m2, hs, K, Top, y) /\ m2 \in Memory
  <2>1. Sound(m1, hs, K, K - 1, y)
    BY <1>3, <1>4
  <2>2. Sound(m2, hs, K, K - 1, y) /\ m2 \in Memory
    BY <1>2, <1>3, <1>4, <2>1, BindKeepsSound
  <2> QED BY <1>3, <2>2
<1> HIDE DEF m2
<1>7. Sound(m3, hs, Top, Top, y) /\ m3 \in Memory
  <2>1. Waits(hs[K]) = 0
    BY <1>4, NoLineTyped DEF Waits
  <2>2. Sound(FreeAndRestore(m2, hs[K].func, hs[K].bkp), hs, K - 1, K - 1, y + Waits(hs[K]))
    BY <1>3, <1>4, <1>6, PopKeepsSound
  <2>3. Sound(m3, hs, Top, Top, y)
    BY <1>3, <1>4, <2>1, <2>2
  <2>4. m3 \in Memory
    <3>1. f \in Funcs /\ (hs[K].bkp = None \/ hs[K].bkp \in [Own(f) -> SoundVar])
      <4>1. K \in 1 .. K
        BY <1>3
      <4> QED BY <1>4, <4>1 DEF BackupsRight
    <3>2. Popped(m2, FreeAndRestore(m2, f, hs[K].bkp), hs, K)
      BY <1>6, <3>1, RestoreIs
    <3> QED BY <1>4, <3>2 DEF Popped
  <2> QED BY <2>3, <2>4
<1> HIDE DEF m3
<1>8. Relined(hs, frames', Top, NoLine)
  <2>1. Relined(frames, frames', Top, NoLine)
    BY <1>1, <1>3, NoLineTyped, SetLine
  <2> QED BY <1>5, <2>1 DEF Relined, SameCalls
<1>9. BackupsRight(hs, Top)
  <2>1. \A i \in 1 .. Top : i \in 1 .. K
    BY <1>3
  <2> QED BY <1>4, <2>1 DEF BackupsRight
<1>10. Sound(m4, frames', Top, Top, y) /\ m4 \in Memory
  <2>1. Sound(m3, hs, Top, Top, 0)
    BY <1>7 DEF y
  <2>2. Sound(m4, frames', Top, Top, 0) /\ m4 \in Memory
    BY <1>3, <1>4, <1>7, <1>8, <1>9, <2>1, LineEnds
  <2> QED BY <2>2 DEF y
<1> HIDE DEF m4
<1>11. Sound(mem', frames', Top, Top, y)
  <2>1. frames'[Top].func = frames[Top].func
    BY <1>3, <1>5, <1>8 DEF Relined, SameCalls
  <2>2. CASE out = NoVar
    BY <1>1, <1>10, <2>2
  <2>3. CASE out # NoVar
    <3> DEFINE x == ""
    <3>1. x \in Text /\ mem' = Assign(m4, out, x) /\ out \in Visible(frames'[Top].func)
      BY <1>1, <2>1, <2>3 DEF Text, CurrentFunc
    <3> HIDE DEF x
    <3> QED BY <1>3, <1>10, <2>1, <3>1, AssignKeepsSound
  <2> QED BY <2>2, <2>3
<1>12. Top' = Top
  BY <1>8 DEF Relined, Top
<1> QED BY <1>11, <1>12 DEF Settled, y

LEMMA BetweenIs ==
  ASSUME Settled, frames # <<>>
  PROVE  Between <=> frames[Top].line.calls = 0
<1>1. frames \in Seq(Activation) /\ Top \in 1 .. Len(frames) /\ Top = Len(frames) /\ Stack(frames)
  BY SettledFields
<1>2. /\ LineRight(frames[Top])
      /\ frames[Top].line.calls = 0 \/ frames[Top].line.held # <<>>
  BY <1>1 DEF Stack
<1>3. frames[Top].line.calls = 0 => frames[Top].line.held = <<>>
  BY <1>2, NoLineTyped DEF LineRight
<1>4. Between <=> frames[Top].line.held = <<>>
  BY DEF Between
<1> QED BY <1>2, <1>3, <1>4

LEMMA CallSettles ==
  ASSUME Settled, ~LostResults, Call PROVE Settled'
<1>0. Inv /\ Inv'
  BY CallKeeps DEF Settled
<1>1. frames # <<>>
  BY DEF Call
<1>2. PICK l \in Lines :
        LET f == l.func
            line == IF Between
                    THEN [calls |-> l.calls, yields |-> l.yields, out |-> l.out, held |-> <<>>]
                    ELSE frames[Top].line
            m0 == IF Between THEN TakeBuf(mem) ELSE mem
            live == Instances(f) > 0
            bkp == IF live THEN [v \in Own(f) |-> mem.var[v]] ELSE None
            m1 == IF live THEN BackupFunctionVars(m0, f) ELSE m0
            arg == IF live THEN Converted(m0, f, l.arg) ELSE l.arg
        IN /\ CanRead(l)
           /\ ~Between => <<l.calls, l.yields, l.out>> = <<line.calls, line.yields, line.out>>
           /\ ~PassesItsOwn(f, l.arg)
           /\ ~LosesResult(f, l.out)
           /\ RefusedCall(m1, f, arg, bkp, line.out) \/ Bound(m1, f, arg, bkp, line)
  BY DEF Call
<1> DEFINE f == l.func
           line == IF Between
                   THEN [calls |-> l.calls, yields |-> l.yields, out |-> l.out, held |-> <<>>]
                   ELSE frames[Top].line
           m0 == IF Between THEN TakeBuf(mem) ELSE mem
           live == Instances(f) > 0
           bkp == IF live THEN [v \in Own(f) |-> mem.var[v]] ELSE None
           m1 == IF live THEN BackupFunctionVars(m0, f) ELSE m0
           arg == IF live THEN Converted(m0, f, l.arg) ELSE l.arg
           gs == [frames EXCEPT ![Top].line = line]
           hs == Append(gs, Frame(f, bkp))
<1>3. /\ RefusedCall(m1, f, arg, bkp, line.out) \/ Bound(m1, f, arg, bkp, line)
      /\ CanRead(l) /\ ~PassesItsOwn(f, l.arg) /\ ~LosesResult(f, l.out)
  BY <1>2
<1>4. f \in Funcs /\ l.out \in Visible(CurrentFunc) \cup {NoVar}
  BY <1>2, LinesKnown DEF CanRead
<1>5. line.out = l.out
  <2>1. CASE Between
    BY <2>1
  <2>2. CASE ~Between
    BY <1>2, <2>2
  <2> QED BY <2>1, <2>2
<1>6. LineOfCall(l, line) /\ line.calls > 0
  <2> DEFINE k == line
  <2>1. k = (IF Between THEN [calls |-> l.calls, yields |-> l.yields, out |-> l.out, held |-> <<>>]
             ELSE frames[Top].line)
    OBVIOUS
  <2> HIDE DEF k
  <2>2. LineOfCall(l, k) /\ k.calls > 0
    BY <1>0, <1>1, <1>4, <2>1, CallLine
  <2> QED BY <2>2 DEF k
<1>7. Entering(l, f, line, m0, m1, bkp, arg, gs, hs)
  <2>1. Between <=> frames[Top].line.calls = 0
    BY <1>1, BetweenIs
  <2>2. m0 = (IF frames[Top].line.calls = 0 THEN TakeBuf(mem) ELSE mem)
    BY <2>1
  <2> HIDE DEF m0, line
  <2> QED BY <2>2 DEF Entering
<1>8. arg \in Seq(Arg) /\ Len(arg) <= Len(Params[f])
  <2>1. m0 \in Memory
    BY <1>0, InvFields, TakeBufIs DEF BufferMoves
  <2> DEFINE a == arg
  <2>2. a = l.arg \/ a = Converted(m0, l.func, l.arg)
    OBVIOUS
  <2> HIDE DEF a, m0
  <2>3. a \in Seq(Arg) /\ Len(a) <= Len(Params[l.func])
    BY <2>1, <2>2, CallArgs
  <2> QED BY <2>3 DEF a
<1>9. Bound(m1, f, arg, bkp, line) =>
        /\ mem' = Bind(m1, f, arg, 1) /\ frames' = hs
        /\ \A j \in DOMAIN arg : Params[f][j].byref => IsVar(arg[j])
  BY DEF Bound
<1> HIDE DEF f, line, m0, live, bkp, m1, arg, gs, hs
<1>10. f = l.func
  BY DEF f
<1>11. Entered(m1, hs, f, arg, line)
  BY <1>1, <1>3, <1>5, <1>6, <1>7, <1>10, CallEnters
<1>12. CASE Bound(m1, f, arg, bkp, line)
  <2>1. ArgsRight(f, arg, 1)
    BY <1>4, <1>8, <1>9, <1>12, AllRight
  <2> QED BY <1>0, <1>4, <1>9, <1>11, <1>12, <2>1, BoundSettles
<1>13. CASE RefusedCall(m1, f, arg, bkp, line.out)
  <2>1. bkp = hs[Top + 1].bkp
    <3>1. frames \in Seq(Activation) /\ Top \in 1 .. Len(frames) /\ Top = Len(frames)
          /\ mem \in Memory
      BY <1>1, SettledFields
    <3>2. line \in LineState
      BY <1>6 DEF LineOfCall
    <3>3. gs = [frames EXCEPT ![Top].line = line] /\ hs = Append(gs, Frame(f, bkp))
          /\ bkp = (IF Instances(f) > 0 THEN [v \in Own(f) |-> mem.var[v]] ELSE None)
      BY <1>7 DEF Entering
    <3>4. gs \in Seq(Activation) /\ Len(gs) = Top
      <4>1. Relined(frames, gs, Top, line)
        BY <3>1, <3>2, <3>3, SetLine
      <4> QED BY <4>1 DEF Relined
    <3>5. Frame(f, bkp) \in Activation /\ Frame(f, bkp).bkp = bkp
      <4>1. bkp = [v \in Own(f) |-> mem.var[v]] \/ bkp = None
        BY <3>3
      <4> QED BY <1>4, <3>1, <4>1, NextFrame
    <3>6. Pushes(gs, hs, Frame(f, bkp))
      BY <3>3, <3>4, <3>5, PushIs
    <3> QED BY <3>4, <3>5, <3>6 DEF Pushes
  <2> DEFINE out == line.out
  <2>2. out \in Visible(CurrentFunc) \cup {NoVar} /\ RefusedCall(m1, f, arg, bkp, out)
    BY <1>4, <1>5, <1>13
  <2> HIDE DEF out
  <2> QED BY <1>0, <1>1, <1>4, <1>6, <1>8, <1>11, <2>1, <2>2, RefusedSettles
<1> QED BY <1>3, <1>12, <1>13

\* While the function's variables still exist, what the caller's result is for is one
\* that may be written to and that their end leaves alone.
LEMMA CallerSees ==
  ASSUME NEW m \in Memory, NEW fs, NEW n \in Nat \ {0}, NEW k, k = n + 1, BackupsRight(fs, k),
         OnlyRefs(m, fs, k), Standing(m, fs, k, k), NEW f \in Funcs, f = fs[k].func,
         NEW out \in Visible(fs[n].func), out = fs[n].line.out, fs[n].line.calls > 0,
         ~AboutToBeRestored(f, fs[k].bkp, fs[n].func, out)
  PROVE  Target(m, fs, k, Resolve(m, out))
<1> DEFINE g == fs[n].func
<1>1. /\ n \in 1 .. k /\ k \in 1 .. k /\ k - 1 = n /\ n \in 1 .. k - 1 /\ n \in 0 .. k
      /\ k \in Nat /\ k \in Nat \ {0} /\ g \in Funcs \cup {NoFunc} /\ k \in 0 .. k
      /\ \A i \in 1 .. n : i \in 1 .. k
  BY DEF BackupsRight
<1>2. out \in Vars /\ NoVar \notin Vars
  BY <1>1, VarsKnown
<1>3. DOMAIN fs[k].bkp \subseteq Own(f)
  BY <1>1, BackedUp
<1>4. Resolve(m, out) \in Vars /\ m.var[out].alias \in Vars \cup {NoVar}
  BY <1>2, Resolved, Fields
<1>5. CASE g = f
  <2>1. out \notin Own(f)
    <3>1. fs[k].bkp = None => ~Backed(fs, k)
      BY <1>1, BackedUp
    <3>2. Runs(fs, k - 1, f)
      <4>1. n \in 1 .. k - 1
        BY <1>1
      <4> QED BY <1>5, <4>1 DEF Runs
    <3>3. fs[k].bkp = None => Own(f) = {}
      BY <3>1, <3>2 DEF Backed
    <3> QED BY <1>5, <3>3 DEF AboutToBeRestored, IsNonStaticLocal
  <2>2. out \in Globals \cup StaticVars
    <3>1. Statics[f] \subseteq StaticVars
      BY DEF StaticVars
    <3> QED BY <1>5, <2>1, <3>1 DEF Visible
  <2>3. m.var[out].alias = NoVar
    <3>1. out \notin RefVars
      BY <2>2, RefVarsKnown
    <3> QED BY <1>2, <3>1 DEF OnlyRefs, Plain
  <2>4. Running(fs, k, out)
    BY <2>2, VarsKnown DEF Running
  <2> QED BY <1>2, <2>3, <2>4 DEF Target, Resolve
<1>6. CASE g # f
  <2>1. PICK A \in [0 .. k -> Targets] :
          /\ Layers(A, m, fs, k)
          /\ \A i \in 1 .. k : Direct(A[i], fs, i)
          /\ \A i \in 1 .. k - 1 : Awaits(A[i], fs, i)
    BY DEF Standing
  <2> DEFINE a == A[n]
             w == m.var[out].alias
  <2>2. \A v \in Vars : v \notin Own(f) => a[v] = m.var[v].alias
    <3>1. A[k - 1] = Under(A[k], fs[k].bkp) /\ A[k] = AliasesOf(m)
      BY <1>1, <2>1 DEF Layers
    <3> SUFFICES ASSUME NEW v \in Vars, v \notin Own(f) PROVE a[v] = m.var[v].alias
      OBVIOUS
    <3>2. a = Under(AliasesOf(m), fs[k].bkp)
      BY <1>1, <3>1
    <3>3. a[v] = AliasesOf(m)[v]
      BY <1>3, <3>2 DEF Under
    <3> QED BY <3>3, AliasesTyped
  <2>3. Direct(a, fs, n) /\ Awaits(a, fs, n)
    BY <1>1, <2>1
  <2> HIDE DEF a
  <2>4. out \notin Own(f)
    <3>1. out \in Own(f) => out \notin Visible(g)
      BY <1>1, <1>6, OthersSee
    <3> QED BY <3>1
  <2>5. a[out] = w
    BY <1>2, <2>2, <2>4
  <2>6. \A e : Runs(fs, n, e) => Runs(fs, k, e)
    BY <1>1 DEF Runs
  <2>7. CASE w = NoVar
    <3>1. Resolve(m, out) = out
      BY <2>7 DEF Resolve
    <3>2. Running(fs, k, out)
      <4>1. \A e \in Funcs : out \in Own(e) => e = g
        BY <1>1, OthersSee
      <4>2. Runs(fs, k, g)
        BY <1>1 DEF Runs
      <4> QED BY <4>1, <4>2 DEF Running
    <3> QED BY <1>2, <2>7, <3>1, <3>2 DEF Target
  <2>8. CASE w # NoVar
    <3>1. Resolve(m, out) = w /\ w \in Vars
      BY <1>4, <2>8 DEF Resolve
    <3>2. out \in Own(g)
      <4>1. out \in RefVars
        BY <1>2, <2>8 DEF OnlyRefs, Plain
      <4>2. out \notin Globals \cup StaticVars
        BY <4>1, RefVarsKnown
      <4>3. g \in Funcs => Statics[g] \subseteq StaticVars
        BY DEF StaticVars
      <4> QED BY <1>1, <4>2, <4>3 DEF Visible
    <3>3. a[w] = NoVar /\ Running(fs, n, w)
      BY <2>3, <2>5, <2>8, <3>2 DEF Direct
    <3>4. w \notin Own(f)
      <4>1. fs[n + 1].func = f
        OBVIOUS
      <4> QED BY <1>2, <1>6, <2>3, <2>5, <4>1 DEF Awaits
    <3>5. m.var[w].alias = NoVar
      BY <2>2, <3>1, <3>3, <3>4
    <3> QED BY <2>6, <3>1, <3>3, <3>5 DEF Target, Running
  <2> QED BY <2>7, <2>8
<1> QED BY <1>5, <1>6

LEMMA EndLineSettles ==
  ASSUME Settled, Inv', NEW n \in 1 .. Top, NEW m \in Memory, Sound(m, frames, n, n, 0),
         frames[n].line.calls > 0, EndLine(m, n)
  PROVE  Settled'
<1>1. mem' = PutBack(m) /\ frames' = [SubSeq(frames, 1, n) EXCEPT ![n].line = NoLine]
  BY DEF EndLine
<1>2. /\ frames \in Seq(Activation) /\ Top = Len(frames) /\ Top \in Nat /\ n \in Nat \ {0}
      /\ BackupsRight(frames, Top)
  BY SettledFields
<1>3. BackupsRight(frames, n)
  <2>1. \A i \in 1 .. n : i \in 1 .. Top
    BY <1>2
  <2> QED BY <1>2, <2>1 DEF BackupsRight
<1>4. Relined(frames, frames', n, NoLine)
  BY <1>1, <1>2, NoLineTyped, CutThenSet
<1>5. Sound(PutBack(m), frames', n, n, 0)
  BY <1>2, <1>3, <1>4, LineEnds
<1>6. Top' = n
  BY <1>4 DEF Relined, Top
<1> QED BY <1>1, <1>5, <1>6 DEF Settled

\* The last activation's function ends.
LEMMA FunctionEnds ==
  ASSUME Settled, NEW m \in Memory, frames # <<>>, Sound(m, frames, Top, Top, 0), Between,
         frames[Top].func \in Funcs, NEW n, n = Top - 1,
         NEW b, b = FreeAndRestore(m, frames[Top].func, frames[Top].bkp)
  PROVE  b \in Memory /\ Sound(b, frames, n, n, 0)
<1> DEFINE y == 0
           T == Top
<1>1. /\ T \in Nat \ {0} /\ T \in Nat /\ BackupsRight(frames, T) /\ n = T - 1 /\ T <= T
      /\ y \in Int /\ Sound(m, frames, T, T, y) /\ frames[T].func \in Funcs /\ T \in 1 .. T
  BY SettledFields
<1>2. Waits(frames[T]) = 0
  BY BetweenIs DEF Waits
<1>3. y + Waits(frames[T]) = y
  BY <1>2
<1>4. b \in Memory
  <2> DEFINE f == frames[T].func
  <2>1. f \in Funcs /\ (frames[T].bkp = None \/ frames[T].bkp \in [Own(f) -> SoundVar])
    BY <1>1 DEF BackupsRight
  <2>2. b = FreeAndRestore(m, f, frames[T].bkp)
    OBVIOUS
  <2> HIDE DEF f, T
  <2>3. Popped(m, b, frames, T)
    BY <2>1, <2>2, RestoreIs
  <2> QED BY <2>3 DEF Popped
<1>5. b = FreeAndRestore(m, frames[T].func, frames[T].bkp)
  OBVIOUS
<1> HIDE DEF y, T
<1>6. Sound(b, frames, T - 1, T - 1, y + Waits(frames[T]))
  BY <1>1, <1>5, PopKeepsSound
<1>7. Sound(b, frames, n, n, y)
  BY <1>1, <1>3, <1>6
<1> QED BY <1>4, <1>7 DEF y

\* The line keeps waiting, with one result more.
LEMMA WaitsOn ==
  ASSUME NEW m \in Memory, NEW fs, NEW gs, NEW n \in Nat \ {0}, BackupsRight(fs, n),
         Sound(m, fs, n, n, 0), NEW l, Relined(fs, gs, n, l), l.calls = fs[n].line.calls
  PROVE  Sound(m, gs, n, n, 0)
<1> DEFINE y == 0
<1>1. y \in Int /\ Sound(m, fs, n, n, y)
  OBVIOUS
<1>2. /\ SameCalls(fs, gs, n) /\ gs[n].line = l
      /\ \A i \in 1 .. n - 1 : gs[i] = fs[i]
  BY DEF Relined
<1>3. Waits(fs[n]) = Waits(gs[n]) /\ Waits(fs[n]) \in Int
  BY <1>2 DEF Waits
<1>4. y = y + Waits(fs[n]) - Waits(gs[n]) /\ n <= n /\ n \in Nat /\ n # 0
  BY <1>1, <1>3
<1> HIDE DEF y
<1>5. IF n = 0 THEN y = y ELSE y = y + Waits(fs[n]) - Waits(gs[n])
  BY <1>4
<1>6. Sound(m, gs, n, n, y)
  BY <1>1, <1>2, <1>4, <1>5, SameKeepsSound
<1> QED BY <1>6 DEF y

LEMMA DeliverSettles ==
  ASSUME Settled, Inv', Between, NEW n, n = Top - 1, Top > 1, NEW m \in Memory,
         Sound(m, frames, Top, Top, 0),
         NEW f \in Funcs, f = frames[Top].func, NEW bkp, bkp = frames[Top].bkp,
         NEW r \in Results, r.in = "var" => r.of \in Vars, r.in = "buf" => m.buf = TRUE,
         frames[n].line.calls # 0, Deliver(m, n, f, bkp, r)
  PROVE  Settled'
<1> DEFINE line == frames[n].line
           x == ResultText(m, r)
           back == FreeAndRestore(m, f, bkp)
           results == Append(line.held, x)
           short == /\ line.calls = 1
                    /\ \/ line.out = NoVar
                       \/ ~AboutToBeRestored(f, bkp, frames[n].func, line.out)
           l == [line EXCEPT !.held = results]
<1>1. /\ frames \in Seq(Activation) /\ Top = Len(frames) /\ Top \in Nat \ {0} /\ Top \in Nat
      /\ n \in 1 .. Top /\ n \in Nat \ {0} /\ n \in Nat /\ Stack(frames) /\ Top = n + 1
      /\ BackupsRight(frames, Top) /\ frames # <<>>
      /\ frames[n].func \in Funcs \cup {NoFunc}
  <2>1. /\ Top \in Nat /\ frames \in Seq(Activation) /\ Top = Len(frames) /\ Stack(frames)
        /\ BackupsRight(frames, Top)
        /\ \A i \in 1 .. Top : frames[i].func \in Funcs \cup {NoFunc}
    BY SettledFields
  <2>2. frames # <<>> /\ n \in 1 .. Top /\ n \in Nat \ {0} /\ n \in Nat /\ Top = n + 1
    BY <2>1
  <2> QED BY <2>1, <2>2
<1>2. BackupsRight(frames, n)
  <2>1. \A i \in 1 .. n : i \in 1 .. Top
    BY <1>1
  <2> QED BY <1>1, <2>1 DEF BackupsRight
<1>3. back \in Memory /\ Sound(back, frames, n, n, 0)
  <2> DEFINE b == back
  <2>1. b = FreeAndRestore(m, frames[Top].func, frames[Top].bkp)
    OBVIOUS
  <2> HIDE DEF b
  <2>2. b \in Memory /\ Sound(b, frames, n, n, 0)
    BY <1>1, <2>1, FunctionEnds
  <2> QED BY <2>2 DEF b
<1>4. /\ line \in LineState /\ line.calls \in 1 .. 2 /\ line.yields \in 1 .. line.calls
      /\ line.out \in Visible(frames[n].func) \cup {NoVar}
      /\ line.out \in Vars \cup {NoVar}
      /\ Len(line.held) < line.calls /\ line.calls > 0
  <2>1. LineRight(frames[n]) /\ line \in LineState /\ line.out \in Vars \cup {NoVar}
    BY <1>1, StackFields DEF Stack
  <2>2. line # NoLine
    BY NoLineTyped
  <2> QED BY <2>1, <2>2 DEF LineRight
<1>5. x \in Text
  BY ResultsKnown
<1>6. /\ results \in Seq(Text) /\ Len(results) = Len(line.held) + 1 /\ results # <<>>
      /\ Len(line.held) \in Nat /\ DOMAIN results = 1 .. Len(results)
  <2> DEFINE k == line
             y == x
             res == results
  <2>1. k \in LineState /\ y \in Text /\ res = Append(k.held, y)
    BY <1>4, <1>5
  <2> HIDE DEF k, y, res
  <2>2. /\ res \in Seq(Text) /\ Len(res) = Len(k.held) + 1 /\ res # <<>>
        /\ Len(k.held) \in Nat /\ DOMAIN res = 1 .. Len(res)
    BY <2>1, ResultsHeld
  <2> QED BY <2>2 DEF k, res
<1>7. \/ short /\ EndLine(Shortcut(m, f, bkp, line.out, r), n)
      \/ /\ Len(results) < line.calls /\ mem' = back
         /\ frames' = [SubSeq(frames, 1, n) EXCEPT ![n].line.held = results]
      \/ /\ ~(Len(results) < line.calls)
         /\ EndLine(IF line.out = NoVar THEN back
                    ELSE Assign(back, line.out, results[line.yields]), n)
  BY Zenon DEF Deliver, Persistent
<1> HIDE DEF back, results, x
<1>8. CASE short /\ EndLine(Shortcut(m, f, bkp, line.out, r), n)
  <2> DEFINE s == Stored(m, line.out, r)
             out == line.out
  <2>1. Shortcut(m, f, bkp, line.out, r) = FreeAndRestore(s, f, bkp)
    BY DEF Shortcut, Stored
  <2>2. CASE out = NoVar
    <3>1. s = m
      BY <2>2, StoredIs
    <3> QED BY <1>1, <1>3, <1>4, <1>8, <2>1, <3>1, EndLineSettles DEF back
  <2>3. CASE out # NoVar
    <3>1. out \in Visible(frames[n].func) /\ out \in Vars
      BY <1>4, <2>3
    <3>2. OnlyRefs(m, frames, Top) /\ Standing(m, frames, Top, Top)
      BY DEF Sound
    <3>3. ~AboutToBeRestored(f, bkp, frames[n].func, out)
      BY <1>8, <2>3
    <3> DEFINE v == Resolve(m, out)
               b == FreeAndRestore(s, f, bkp)
               z == 0
    <3>4. Target(m, frames, Top, v)
      <4>1. out = frames[n].line.out /\ frames[n].line.calls > 0
        BY <1>4
      <4> HIDE DEF out
      <4> QED BY <1>1, <3>1, <3>2, <3>3, <4>1, CallerSees
    <3>5. Writes(m, s, v)
      BY <3>1, StoredWrites
    <3>6. s \in Memory
      BY <3>5 DEF Writes
    <3>7. Sound(m, frames, Top, Top, z)
      OBVIOUS
    <3>8. b = FreeAndRestore(s, frames[Top].func, frames[Top].bkp) /\ EndLine(b, n)
      BY <1>8, <2>1
    <3> HIDE DEF s, v, b, z
    <3>9. Sound(s, frames, Top, Top, z)
      BY <3>4, <3>5, <3>7, WriteKeepsSound
    <3>10. b \in Memory /\ Sound(b, frames, n, n, 0)
      BY <1>1, <3>6, <3>8, <3>9, FunctionEnds DEF z
    <3> QED BY <1>1, <1>4, <3>8, <3>10, EndLineSettles
  <2> QED BY <2>2, <2>3
<1>9. CASE /\ Len(results) < line.calls /\ mem' = back
           /\ frames' = [SubSeq(frames, 1, n) EXCEPT ![n].line.held = results]
  <2>1. l.calls = line.calls
    <3> DEFINE k == line
               j == l
    <3>1. k \in LineState /\ j = [k EXCEPT !.held = results]
      BY <1>4
    <3> HIDE DEF k, j
    <3>2. j.calls = k.calls
      BY <1>6, <3>1, HeldLine
    <3> QED BY <3>2 DEF k, j
  <2>2. Relined(frames, frames', n, l)
    BY <1>1, <1>6, <1>9, CutThenHold
  <2> HIDE DEF l
  <2>3. Sound(back, frames', n, n, 0)
    BY <1>1, <1>2, <1>3, <2>1, <2>2, WaitsOn
  <2>4. Top' = n
    BY <2>2 DEF Relined, Top
  <2> QED BY <1>9, <2>3, <2>4 DEF Settled
<1>10. CASE /\ ~(Len(results) < line.calls)
            /\ EndLine(IF line.out = NoVar THEN back
                       ELSE Assign(back, line.out, results[line.yields]), n)
  <2> DEFINE out == line.out
             y == results[line.yields]
             s == IF out = NoVar THEN back ELSE Assign(back, out, y)
             z == 0
  <2>1. y \in Text
    <3>1. line.yields \in 1 .. Len(results)
      BY <1>4, <1>6, <1>10
    <3> QED BY <1>6, <3>1
  <2>2. out \in Visible(frames[n].func) \cup {NoVar}
    BY <1>4
  <2>3. Sound(back, frames, n, n, z)
    BY <1>3
  <2> HIDE DEF out, y, z
  <2>4. s \in Memory /\ Sound(s, frames, n, n, z)
    <3>1. CASE out = NoVar
      BY <1>3, <2>3, <3>1
    <3>2. CASE out # NoVar
      <4>1. out \in Visible(frames[n].func)
        BY <2>2, <3>2
      <4>2. Sound(Assign(back, out, y), frames, n, n, z) /\ Assign(back, out, y) \in Memory
        BY <1>1, <1>3, <2>1, <2>3, <4>1, AssignKeepsSound
      <4> QED BY <3>2, <4>2
    <3> QED BY <3>1, <3>2
  <2>5. EndLine(s, n)
    BY <1>10 DEF out, y
  <2> HIDE DEF s
  <2> QED BY <1>1, <1>4, <2>4, <2>5, EndLineSettles DEF z
<1> QED BY <1>7, <1>8, <1>9, <1>10

LEMMA CutKeepsSound ==
  ASSUME NEW m \in Memory, NEW fs, NEW gs, NEW n \in Nat, BackupsRight(fs, n),
         Sound(m, fs, n, n, 0), Cut(fs, gs, n)
  PROVE  Sound(m, gs, n, n, 0)
<1> DEFINE y == 0
<1>1. \A i \in 1 .. n : gs[i] = fs[i]
  BY DEF Cut
<1>2. SameCalls(fs, gs, n) /\ \A i \in 1 .. n - 1 : i \in 1 .. n
  BY <1>1 DEF SameCalls
<1>3. \A i \in 1 .. n - 1 : gs[i] = fs[i]
  BY <1>1, <1>2
<1>4. n # 0 => y = y + Waits(fs[n]) - Waits(gs[n])
  <2>1. n # 0 => gs[n] = fs[n]
    BY <1>1
  <2>2. Waits(fs[n]) \in Int
    BY DEF Waits
  <2>3. y = y + Waits(fs[n]) - Waits(fs[n])
    BY <2>2
  <2> QED BY <2>1, <2>3
<1>5. y \in Int /\ Sound(m, fs, n, n, y) /\ n <= n
  OBVIOUS
<1> HIDE DEF y
<1>6. IF n = 0 THEN y = y ELSE y = y + Waits(fs[n]) - Waits(gs[n])
  BY <1>4
<1>7. Sound(m, gs, n, n, y)
  BY <1>2, <1>3, <1>5, <1>6, SameKeepsSound
<1> QED BY <1>7 DEF y

LEMMA ReturnSettles ==
  ASSUME Settled, Return PROVE Settled'
<1>0. Inv'
  BY ReturnKeeps DEF Settled
<1>1. frames # <<>> /\ CurrentFunc # NoFunc /\ Between
  BY DEF Return
<1>2. PICK r \in Results :
        /\ r.in = "var" => r.of \in Visible(CurrentFunc)
        /\ LET top == frames[Top]
               m == IF r.in = "buf" THEN WithBuf(mem) ELSE mem
           IN IF Top = 1 \/ frames[Top - 1].line.calls = 0
              THEN /\ mem' = FreeAndRestore(m, top.func, top.bkp)
                   /\ frames' = SubSeq(frames, 1, Top - 1)
              ELSE Deliver(m, Top - 1, top.func, top.bkp, r)
  BY DEF Return
<1> DEFINE m == IF r.in = "buf" THEN WithBuf(mem) ELSE mem
           f == frames[Top].func
           bkp == frames[Top].bkp
           n == Top - 1
           y == 0
<1>3. /\ frames \in Seq(Activation) /\ Top \in Nat \ {0} /\ Top = Len(frames) /\ Top \in 1 .. Top
      /\ mem \in Memory /\ BackupsRight(frames, Top) /\ n = Top - 1
      /\ n \in Nat /\ n \in 0 .. Len(frames) /\ f \in Funcs \cup {NoFunc}
  <2>1. /\ frames \in Seq(Activation) /\ Top \in Nat \ {0} /\ Top = Len(frames)
        /\ mem \in Memory /\ BackupsRight(frames, Top)
        /\ \A i \in 1 .. Top : frames[i].func \in Funcs \cup {NoFunc}
    BY <1>1, SettledFields
  <2> QED BY <2>1
<1>4. f \in Funcs
  BY <1>1, <1>3 DEF CurrentFunc
<1>5. r.in = "var" => r.of \in Vars
  BY <1>2, <1>4, VarsKnown DEF CurrentFunc
<1>6. m \in Memory /\ (r.in = "buf" => m.buf = TRUE) /\ Sound(m, frames, Top, Top, y)
  <2>1. BufferMoves(mem, WithBuf(mem), 0) /\ WithBuf(mem).buf = TRUE
    BY <1>3, WithBufIs
  <2>2. Sound(mem, frames, Top, Top, y) /\ y \in Int /\ y + y = y
    BY DEF Settled
  <2> DEFINE b == WithBuf(mem)
  <2>3. BufferMoves(mem, b, y) /\ b \in Memory /\ b.buf = TRUE
    BY <2>1 DEF BufferMoves
  <2>4. IF r.in = "buf" THEN m = b ELSE m = mem
    OBVIOUS
  <2> HIDE DEF b, y, m
  <2>5. Sound(b, frames, Top, Top, y)
    <3>1. Sound(b, frames, Top, Top, y + y)
      BY <1>3, <2>2, <2>3, MoveKeepsSound
    <3> QED BY <2>2, <3>1
  <2> QED BY <1>3, <2>2, <2>3, <2>4, <2>5
<1>7. IF Top = 1 \/ frames[n].line.calls = 0
      THEN mem' = FreeAndRestore(m, f, bkp) /\ frames' = SubSeq(frames, 1, n)
      ELSE Deliver(m, n, f, bkp, r)
  BY <1>2
<1> HIDE DEF m, n
<1>8. CASE Top = 1 \/ frames[n].line.calls = 0
  <2>1. Sound(mem', frames, n, n, 0)
    <3>1. Sound(m, frames, Top, Top, 0)
      BY <1>6
    <3>2. mem' = FreeAndRestore(m, frames[Top].func, frames[Top].bkp)
      BY <1>7, <1>8
    <3> HIDE DEF y, f, bkp
    <3> DEFINE b == mem'
    <3>3. b = FreeAndRestore(m, frames[Top].func, frames[Top].bkp)
      BY <3>2
    <3> HIDE DEF b
    <3>4. Sound(b, frames, n, n, 0)
      BY <1>1, <1>3, <1>4, <1>6, <3>1, <3>3, FunctionEnds DEF f
    <3> QED BY <3>4 DEF b
  <2>2. Cut(frames, frames', n)
    BY <1>3, <1>7, <1>8, CutIs
  <2>3. Sound(mem', frames', n, n, 0)
    <3>1. mem' \in Memory
      BY <1>0 DEF Inv, Base
    <3>2. BackupsRight(frames, n)
      <4>1. \A i \in 1 .. n : i \in 1 .. Top
        BY <1>3
      <4> QED BY <1>3, <4>1 DEF BackupsRight
    <3> DEFINE x == mem'
               gs == frames'
    <3>3. Sound(x, frames, n, n, 0) /\ x \in Memory /\ Cut(frames, gs, n)
      BY <2>1, <2>2, <3>1
    <3> HIDE DEF x, gs
    <3>4. Sound(x, gs, n, n, 0)
      BY <1>3, <3>2, <3>3, CutKeepsSound
    <3> QED BY <3>4 DEF x, gs
  <2>4. Top' = n
    BY <2>2 DEF Cut, Top
  <2> QED BY <1>0, <2>3, <2>4 DEF Settled
<1>9. CASE ~(Top = 1 \/ frames[n].line.calls = 0)
  <2>1. Deliver(m, n, f, bkp, r) /\ frames[n].line.calls # 0 /\ Top > 1
    BY <1>3, <1>7, <1>9
  <2>2. Sound(m, frames, Top, Top, 0)
    BY <1>6
  <2> HIDE DEF f, bkp, y
  <2>3. n = Top - 1 /\ f = frames[Top].func /\ bkp = frames[Top].bkp
    BY DEF n, f, bkp
  <2> QED BY <1>0, <1>1, <1>4, <1>5, <1>6, <2>1, <2>2, <2>3, DeliverSettles
<1> QED BY <1>8, <1>9

\* Exit has put back the buffers of all the lines that wait above the i-th activation
\* but one: that of the line in which the i-th was called.
LEMMA ExitSettles ==
  ASSUME Settled, Exit PROVE Settled'
<1> DEFINE k == CHOOSE i \in Bases : \A j \in Bases : j <= i
           n == k - 1
<1>0. Inv' /\ Inv
  BY ExitKeeps DEF Settled
<1>1. frames # <<>> /\ mem' = Unwound(k) /\ frames' = SubSeq(frames, 1, n) /\ Between
  BY DEF Exit
<1>2. k \in Bases /\ k \in 1 .. Top /\ \A j \in Bases : j <= k
  <2> DEFINE i == k
  <2>1. i = CHOOSE i_1 \in Bases : \A j \in Bases : j <= i_1
    OBVIOUS
  <2> HIDE DEF i
  <2>2. i \in Bases /\ i \in 1 .. Top /\ \A j \in Bases : j <= i
    BY <1>0, <1>1, <2>1, BasesKnown
  <2> QED BY <2>2 DEF i
<1> HIDE DEF k
<1>3. /\ frames \in Seq(Activation) /\ Top \in Nat /\ Top = Len(frames) /\ mem \in Memory
      /\ BackupsRight(frames, Top) /\ n \in 0 .. Len(frames) /\ n \in Nat
      /\ \A i \in 1 .. Top : frames[i].func \in Funcs \cup {NoFunc}
  <2>1. /\ frames \in Seq(Activation) /\ Top \in Nat /\ Top = Len(frames) /\ mem \in Memory
        /\ BackupsRight(frames, Top)
        /\ \A i \in 1 .. Top : frames[i].func \in Funcs \cup {NoFunc}
    BY SettledFields
  <2> QED BY <1>2, <2>1
<1> DEFINE y(i) == IF i = Top + 1 \/ i = k THEN 0 ELSE -1
           I == [i \in 1 .. Top + 1 |-> {x \in Memory : Sound(x, frames, i - 1, i - 1, y(i))}]
<1>4. \A i \in 1 .. Top + 1 : I[i] = {x \in Memory : Sound(x, frames, i - 1, i - 1, y(i))}
  OBVIOUS
<1>5. /\ \A i \in 1 .. Top + 1 : y(i) \in Int
      /\ y(k) = 0 /\ y(Top + 1) = 0
      /\ \A i \in k .. Top : i # k => y(i) = -1
      /\ \A i \in k .. Top : IF i = Top THEN y(i + 1) = 0 ELSE y(i + 1) = -1
  BY <1>2, <1>3
<1> HIDE DEF I, y
<1>6. mem \in I[Top + 1]
  <2>1. Top + 1 \in 1 .. Top + 1 /\ (Top + 1) - 1 = Top
    BY <1>3
  <2>2. Sound(mem, frames, Top, Top, 0)
    BY DEF Settled
  <2>3. Sound(mem, frames, (Top + 1) - 1, (Top + 1) - 1, y(Top + 1))
    BY <1>5, <2>1, <2>2
  <2> QED BY <1>3, <1>4, <2>1, <2>3
<1>7. ASSUME NEW i \in k .. Top
      PROVE  y(i + 1) + Waits(frames[i]) = 0
  <2>1. CASE i = Top
    <3>1. frames[Top].line.calls = 0
      BY <1>1, BetweenIs
    <3> QED BY <1>5, <2>1, <3>1 DEF Waits
  <2>2. CASE i # Top
    <3>1. i + 1 \in 1 .. Top /\ ~(i + 1 <= k) /\ (i + 1) - 1 = i /\ i \in 1 .. Top
      BY <1>2, <1>3, <2>2
    <3>2. i + 1 \notin Bases
      BY <1>2, <3>1
    <3>3. frames[i].line.calls # 0
      BY <3>1, <3>2 DEF Bases
    <3>4. frames[i].line.calls \in 0 .. 2
      BY <1>3, <3>1, StackFields
    <3>5. Waits(frames[i]) = 1
      BY <3>3, <3>4 DEF Waits
    <3> QED BY <1>5, <2>2, <3>5
  <2> QED BY <2>1, <2>2
<1>8. ASSUME NEW i \in k .. Top, NEW x \in Memory, x \in I[i + 1]
      PROVE  UnwindOne(x, i, k) \in I[i]
  <2>1. /\ i \in 1 .. Top /\ i \in Nat \ {0} /\ i \in Nat /\ i - 1 \in Nat /\ i \in 1 .. Top + 1
        /\ i + 1 \in 1 .. Top + 1 /\ (i + 1) - 1 = i
    BY <1>2, <1>3
  <2> DEFINE z == y(i + 1)
             j == i - 1
             o == 0
  <2>2. Sound(x, frames, i, i, z) /\ z \in Int
    BY <1>4, <1>5, <1>8, <2>1
  <2>3. z + Waits(frames[i]) = o
    BY <1>7
  <2>4. BackupsRight(frames, i)
    <3>1. \A h \in 1 .. i : h \in 1 .. Top
      BY <1>3, <2>1
    <3> QED BY <1>3, <3>1 DEF BackupsRight
  <2>5. Left(x, i) \in Memory /\ UnwindOne(x, i, k) \in Memory
    BY <1>3, <2>1, LeftTyped
  <2> HIDE DEF z, o
  <2>6. Sound(Left(x, i), frames, j, j, o)
    <3>1. Sound(Left(x, i), frames, i - 1, i - 1, z + Waits(frames[i]))
      <4>1. CASE frames[i].func = NoFunc
        <5>1. Left(x, i) = x
          BY <4>1 DEF Left
        <5>2. Sound(x, frames, i - 1, i - 1, z + Waits(frames[i]))
          BY <2>1, <2>2, <2>4, <4>1, ThreadPopKeepsSound
        <5> QED BY <5>1, <5>2
      <4>2. CASE frames[i].func # NoFunc
        <5>1. frames[i].func \in Funcs
          BY <1>3, <2>1, <4>2
        <5>2. Left(x, i) = FreeAndRestore(x, frames[i].func, frames[i].bkp)
          BY <4>2 DEF Left
        <5>3. Sound(FreeAndRestore(x, frames[i].func, frames[i].bkp), frames, i - 1, i - 1,
                    z + Waits(frames[i]))
          BY <2>1, <2>2, <2>4, <5>1, PopKeepsSound
        <5> QED BY <5>2, <5>3
      <4> QED BY <4>1, <4>2
    <3> QED BY <2>3, <3>1
  <2>7. Sound(UnwindOne(x, i, k), frames, j, j, y(i))
    <3>1. CASE i = k
      <4>1. UnwindOne(x, i, k) = Left(x, i) /\ y(i) = o
        BY <1>5, <3>1 DEF UnwindOne, o
      <4> QED BY <2>6, <4>1
    <3>2. CASE i # k
      <4> DEFINE u == Left(x, i)
                 p == PutBack(u)
                 d == -1
      <4>1. UnwindOne(x, i, k) = p /\ y(i) = d /\ o + d = d /\ o \in Int /\ d \in Int
        BY <1>5, <3>2 DEF UnwindOne, o
      <4>2. BufferMoves(u, p, d)
        BY <2>5, PutBackIs
      <4>3. u \in Memory /\ Sound(u, frames, j, j, o)
        BY <2>5, <2>6
      <4> HIDE DEF u, p, d, j
      <4>4. Sound(p, frames, j, j, o + d)
        BY <4>1, <4>2, <4>3, MoveKeepsSound
      <4> QED BY <4>1, <4>4
    <3> QED BY <3>1, <3>2
  <2> QED BY <1>4, <2>1, <2>5, <2>7
<1>9. mem' \in I[k]
  BY <1>1, <1>2, <1>3, <1>6, <1>8, UnwindInduction
<1>10. Sound(mem', frames, n, n, 0) /\ mem' \in Memory
  <2>1. k \in 1 .. Top + 1
    BY <1>2, <1>3
  <2>2. Sound(mem', frames, k - 1, k - 1, y(k)) /\ mem' \in Memory
    BY <1>4, <1>9, <2>1
  <2> QED BY <1>5, <2>2
<1>11. Cut(frames, frames', n)
  BY <1>1, <1>3, CutIs
<1>12. BackupsRight(frames, n)
  <2>1. \A i \in 1 .. n : i \in 1 .. Top
    BY <1>3
  <2> QED BY <1>3, <2>1 DEF BackupsRight
<1> DEFINE x == mem'
           gs == frames'
<1>13. Sound(x, frames, n, n, 0) /\ x \in Memory /\ Cut(frames, gs, n)
  BY <1>10, <1>11
<1> HIDE DEF x, gs, n
<1>14. Sound(x, gs, n, n, 0)
  BY <1>3, <1>12, <1>13, CutKeepsSound
<1>15. Top' = n
  BY <1>11 DEF Cut, Top
<1> QED BY <1>0, <1>14, <1>15 DEF Settled, x, gs

\* The parameters of a function that a host may call stand for nothing.
LEMMA HostsByValue ==
  ASSUME HostByValue, NEW f \in HostFuncs, NEW m, NEW fs, NEW k, OnlyRefs(m, fs, k)
  PROVE  \A v \in Own(f) : m.var[v].alias = NoVar
<1>1. f \in Funcs
  BY CallsAssumption
<1>2. Own(f) \cap RefVars = {}
  BY <1>1, RefVarsKnown DEF HostByValue
<1>3. Own(f) \subseteq Vars
  BY <1>1, VarsKnown
<1> QED BY <1>2, <1>3 DEF OnlyRefs, Plain

LEMMA CallFuncSettles ==
  ASSUME Settled, HostByValue, CallFunc PROVE Settled'
<1>0. Inv' /\ Inv
  BY CallFuncKeeps DEF Settled
<1>1. PICK f \in HostFuncs : \E arg \in [DOMAIN Params[f] -> Texts] :
        /\ mem' = Given(IF Instances(f) > 0 THEN BackupFunctionVars(mem, f) ELSE mem, f, arg)
        /\ frames' = Append(frames, Frame(f, IF Instances(f) > 0
                                             THEN [v \in Own(f) |-> mem.var[v]] ELSE None))
  BY CallFuncIs
<1>2. PICK arg \in [DOMAIN Params[f] -> Texts] :
        /\ mem' = Given(IF Instances(f) > 0 THEN BackupFunctionVars(mem, f) ELSE mem, f, arg)
        /\ frames' = Append(frames, Frame(f, IF Instances(f) > 0
                                             THEN [v \in Own(f) |-> mem.var[v]] ELSE None))
  BY <1>1
<1> DEFINE m1 == IF Instances(f) > 0 THEN BackupFunctionVars(mem, f) ELSE mem
           bkp == IF Instances(f) > 0 THEN [v \in Own(f) |-> mem.var[v]] ELSE None
           K == Top + 1
           L == Len(Params[f])
           hs == frames'
           y == 0
<1>3. f \in Funcs
  BY CallsAssumption
<1>4. /\ frames \in Seq(Activation) /\ Top \in Nat /\ Top = Len(frames)
      /\ Base(mem, frames, Top) /\ mem \in Memory /\ BackupsRight(frames, Top)
  BY SettledFields
<1>5. Frame(f, bkp) \in Activation /\ Frame(f, bkp).func = f /\ Frame(f, bkp).bkp = bkp
      /\ Frame(f, bkp).line = NoLine
  <2>1. bkp = [v \in Own(f) |-> mem.var[v]] \/ bkp = None
    OBVIOUS
  <2> HIDE DEF bkp
  <2>2. bkp \in Backup \cup {None}
    BY <1>3, <1>4, <2>1, NextFrame
  <2> QED BY <1>3, <2>2, FrameTyped
<1>6. Pushes(frames, hs, Frame(f, bkp))
  BY <1>2, <1>4, <1>5, PushIs
<1>7. /\ Len(hs) = Top + 1 /\ hs[Top + 1].func = f /\ hs[Top + 1].bkp = bkp
      /\ hs[Top + 1].line.calls = 0 /\ \A i \in 1 .. Top : hs[i] = frames[i]
  BY <1>4, <1>5, <1>6, NoLineTyped DEF Pushes
<1> HIDE DEF hs
<1>8. Enters(mem, m1, frames, hs, Top, f)
  <2>1. Instances(f) > 0 <=> Runs(frames, Top, f)
    BY <1>4, Instanced
  <2> QED BY <1>7, <2>1 DEF Enters, SameCalls
<1>9. Top > 0 => Awaits(AliasesOf(mem), hs, Top)
  <2>1. Top > 0 => frames[Top].line.calls = 0
    <3>1. Between
      BY DEF CallFunc, Interrupts
    <3> QED BY <1>0, <1>4, <3>1, NobodyWaits
  <2>2. Top > 0 => hs[Top].line.calls = 0
    BY <1>4, <1>7, <2>1
  <2> QED BY <2>2 DEF Awaits
<1>10. y \in Int /\ Sound(mem, frames, Top, Top, y)
  BY DEF Settled
<1>11. mem' = Given(m1, f, arg)
  BY <1>2
<1> HIDE DEF m1, bkp, y
<1>12. Sound(m1, hs, Top + 1, Top, y) /\ m1 \in Memory
  <2>1. Top \in Nat /\ Base(mem, frames, Top)
    BY <1>4
  <2>2. hs[Top + 1].line.calls = 0 /\ \A i \in 1 .. Top : hs[i] = frames[i]
    BY <1>7
  <2> QED BY <1>3, <1>8, <1>9, <1>10, <2>1, <2>2, PushKeepsSound
<1>13. BackupsRight(hs, K)
  BY <1>3, <1>4, <1>8, EntersIs
<1>14. K \in Nat \ {0} /\ K - 1 = Top /\ K \in Nat /\ hs[K].func = f /\ Sound(m1, hs, K, Top, y)
  BY <1>4, <1>7, <1>12
<1> HIDE DEF K
<1>15. Sound(m1, hs, K, K, y)
  <2>1. \A v \in Own(f) : m1.var[v].alias = NoVar
    BY <1>14, HostsByValue DEF Sound
  <2>2. Direct(AliasesOf(m1), hs, K)
    <3>1. \A v \in Own(f) : v \in Vars
      BY <1>3, VarsKnown
    <3>2. \A v \in Own(f) : AliasesOf(m1)[v] = NoVar
      BY <1>12, <2>1, <3>1, AliasesTyped
    <3> QED BY <1>14, <3>2 DEF Direct
  <2>3. Standing(m1, hs, K, K - 1)
    BY <1>14 DEF Sound
  <2>4. Standing(m1, hs, K, K)
    BY <1>14, <2>2, <2>3, StandsDirectly
  <2> QED BY <1>14, <2>4 DEF Sound
<1> DEFINE I == [j \in 0 .. L |-> {x \in Memory : Sound(x, hs, K, K, y)}]
<1>16. L \in Nat /\ DOMAIN Params[f] = 1 .. L
  BY <1>3, ParamsKnown
<1>17. \A j \in 0 .. L : I[j] = {x \in Memory : Sound(x, hs, K, K, y)}
  OBVIOUS
<1> HIDE DEF I
<1>18. ASSUME NEW j \in 1 .. L, NEW x \in Memory, x \in I[j - 1]
       PROVE  Assign(x, Params[f][j].var, arg[j]) \in I[j]
  <2>1. j \in DOMAIN Params[f] /\ j \in 0 .. L /\ j - 1 \in 0 .. L
    BY <1>16
  <2> DEFINE p == Params[f][j].var
             t == arg[j]
             n == Assign(x, p, t)
  <2>2. p \in Own(f)
    BY <1>3, <2>1, ParamsKnown
  <2>3. t \in Text
    BY <2>1 DEF Text
  <2>4. Sound(x, hs, K, K, y)
    BY <1>17, <1>18, <2>1
  <2>5. x.var[p].alias = NoVar
    BY <2>2, <2>4, HostsByValue DEF Sound
  <2>6. n = Assign(x, p, t)
    OBVIOUS
  <2> HIDE DEF p, t, n
  <2>7. n \in Memory /\ Sound(n, hs, K, K, y)
    BY <1>3, <1>14, <2>2, <2>3, <2>4, <2>5, <2>6, ParameterAssigned
  <2>8. n \in I[j]
    BY <1>17, <2>1, <2>7
  <2> QED BY <2>8 DEF p, t, n
<1>19. m1 \in I[0]
  BY <1>12, <1>15, <1>16, <1>17
<1>20. mem' \in I[L]
  BY <1>3, <1>11, <1>12, <1>18, <1>19, GivenInduction
<1>21. Sound(mem', hs, K, K, y)
  BY <1>16, <1>17, <1>20
<1>22. Top' = K
  BY <1>7 DEF Top, K, hs
<1> QED BY <1>0, <1>21, <1>22 DEF Settled, hs, y

LEMMA NextSettles ==
  ASSUME ~LostResults, HostByValue, Settled, [Next]_vars PROVE Settled'
<1>1. CASE UNCHANGED vars
  BY <1>1 DEF vars, Settled, Inv, Top
<1>2. CASE Next
  BY <1>2, SetSettles, CallSettles, ReturnSettles, ExitSettles, ThreadSettles,
     CallFuncSettles, TimeoutSettles DEF Next
<1> QED BY <1>1, <1>2

-------------------------------------------------------------------------------
(* What the activations own, counted as in Owners. *)

BackedUpBlocks(fs, k) ==
  {p \in (1 .. k) \X Vars : /\ p[2] \in DOMAIN fs[p[1]].bkp
                            /\ Owned(fs[p[1]].bkp[p[2]])}
Backups(fs, k) == {i \in 1 .. k : fs[i].bkp # None}
WaitingLines(fs, k) == {i \in 1 .. k : fs[i].line.calls > 0}

\* A property of the last number of an interval adds one or nothing.
OneOrNone(T, S, n) == IF n \in T THEN T = S \cup {n} ELSE T = S

LEMMA CountsOne ==
  ASSUME NEW n \in Nat, NEW S, S \subseteq 1 .. n, NEW T, OneOrNone(T, S, n + 1)
  PROVE  /\ Cardinality(S) \in Nat
         /\ Cardinality(T) = Cardinality(S) + (IF n + 1 \in T THEN 1 ELSE 0)
<1>1. IsFiniteSet(1 .. n)
  BY FS_Interval
<1>2. IsFiniteSet(S) /\ Cardinality(S) \in Nat
  BY <1>1, FS_Subset, FS_CardinalityType
<1>3. n + 1 \notin S
  OBVIOUS
<1>4. Cardinality(S \cup {n + 1}) = Cardinality(S) + 1
  BY <1>2, <1>3, FS_AddElement
<1> DEFINE c == Cardinality(S)
<1>5. CASE n + 1 \in T
  BY <1>2, <1>4, <1>5 DEF OneOrNone
<1>6. CASE n + 1 \notin T
  <2>1. T = S
    BY <1>6 DEF OneOrNone
  <2> QED BY <1>2, <1>6, <2>1
<1> QED BY <1>5, <1>6

LEMMA BlocksNext ==
  ASSUME NEW fs, NEW n \in Nat, BackupsRight(fs, n + 1)
  PROVE  /\ Cardinality(BackedUpBlocks(fs, n)) \in Nat
         /\ Cardinality(Kept(fs[n + 1])) \in Nat
         /\ Cardinality(BackedUpBlocks(fs, n + 1)) =
              Cardinality(BackedUpBlocks(fs, n)) + Cardinality(Kept(fs[n + 1]))
<1> DEFINE k == n + 1
           S == BackedUpBlocks(fs, n)
           K == Kept(fs[k])
           N == {k} \X K
<1>1. k \in Nat /\ k \in 1 .. k /\ k \notin 1 .. n /\ 1 .. k = (1 .. n) \cup {k}
  OBVIOUS
<1>2. K \subseteq Vars /\ IsFiniteSet(K) /\ Cardinality(K) \in Nat
  <2>1. DOMAIN fs[k].bkp \subseteq Vars
    <3> HIDE DEF k
    <3> QED BY <1>1, BackedUp DEF k
  <2>2. K \subseteq Vars
    BY <2>1 DEF Kept
  <2> QED BY <2>2, VarsKnown, FS_Subset, FS_CardinalityType
<1>3. IsFiniteSet(S) /\ Cardinality(S) \in Nat
  <2>1. IsFiniteSet((1 .. n) \X Vars)
    <3>1. IsFiniteSet(1 .. n)
      BY FS_Interval
    <3> QED BY <3>1, FS_Product, VarsKnown
  <2>2. S \subseteq (1 .. n) \X Vars
    BY DEF BackedUpBlocks
  <2> QED BY <2>1, <2>2, FS_Subset, FS_CardinalityType
<1>4. IsFiniteSet(N) /\ Cardinality(N) = Cardinality(K)
  <2>1. IsFiniteSet({k}) /\ Cardinality({k}) = 1
    BY FS_Singleton
  <2>2. IsFiniteSet(N) /\ Cardinality(N) = Cardinality({k}) * Cardinality(K)
    <3> HIDE DEF k, K
    <3> QED BY <1>2, <2>1, FS_Product
  <2> DEFINE c == Cardinality(K)
  <2>3. c \in Nat
    BY <1>2
  <2>4. 1 * c = c
    <3> HIDE DEF c
    <3> QED BY <2>3
  <2> QED BY <2>1, <2>2, <2>4
<1>5. BackedUpBlocks(fs, k) = S \cup N
  <2> HIDE DEF k
  <2> QED BY <1>1, <1>2 DEF BackedUpBlocks, Kept
<1>6. S \cap N = {}
  <2> HIDE DEF k
  <2> QED BY <1>1 DEF BackedUpBlocks
<1>7. Cardinality(S \cup N) = Cardinality(S) + Cardinality(N) - Cardinality(S \cap N)
  <2> HIDE DEF S, N
  <2> QED BY <1>3, <1>4, FS_Union
<1>8. Cardinality(S \cap N) = 0
  BY <1>6, FS_EmptySet
<1> DEFINE a == Cardinality(S)
           b == Cardinality(K)
<1>9. Cardinality(BackedUpBlocks(fs, k)) = a + b - 0
  BY <1>4, <1>5, <1>7, <1>8
<1>10. a \in Nat /\ b \in Nat
  BY <1>2, <1>3
<1>11. a + b - 0 = a + b
  <2> HIDE DEF a, b
  <2> QED BY <1>10
<1> QED BY <1>9, <1>10, <1>11

Counted(fs, k) ==
  Cardinality(BackedUpBlocks(fs, k)) + Cardinality(Backups(fs, k))
  + Cardinality(WaitingLines(fs, k))

LEMMA CountedNext ==
  ASSUME NEW fs, NEW n \in Nat, BackupsRight(fs, n + 1)
  PROVE  Counted(fs, n + 1) = Counted(fs, n) + Weighs(fs[n + 1])
<1> DEFINE k == n + 1
           a == Cardinality(BackedUpBlocks(fs, n))
           b == Cardinality(Backups(fs, n))
           c == Cardinality(WaitingLines(fs, n))
           x == Cardinality(Kept(fs[k]))
<1>1. k \in Nat /\ k \in 1 .. k /\ 1 .. k = (1 .. n) \cup {k} /\ k \notin 1 .. n
  OBVIOUS
<1>2. a \in Nat /\ x \in Nat /\ Cardinality(BackedUpBlocks(fs, k)) = a + x
  BY BlocksNext
<1> DEFINE hasBackup == IF fs[k].bkp = None THEN 0 ELSE 1
           waits == Waits(fs[k])
<1>3. b \in Nat /\ Cardinality(Backups(fs, k)) = b + hasBackup
  <2>1. Backups(fs, n) \subseteq 1 .. n /\ OneOrNone(Backups(fs, k), Backups(fs, n), k)
    <3> HIDE DEF k
    <3> QED BY <1>1 DEF Backups, OneOrNone
  <2>2. k \in Backups(fs, k) <=> fs[k].bkp # None
    <3> HIDE DEF k
    <3> QED BY <1>1 DEF Backups
  <2>3. /\ b \in Nat
        /\ Cardinality(Backups(fs, k)) = b + (IF k \in Backups(fs, k) THEN 1 ELSE 0)
    BY <2>1, CountsOne
  <2> HIDE DEF b, k
  <2> QED BY <2>2, <2>3
<1>4. c \in Nat /\ Cardinality(WaitingLines(fs, k)) = c + waits
  <2>1. WaitingLines(fs, n) \subseteq 1 .. n
        /\ OneOrNone(WaitingLines(fs, k), WaitingLines(fs, n), k)
    <3> HIDE DEF k
    <3> QED BY <1>1 DEF WaitingLines, OneOrNone
  <2>2. k \in WaitingLines(fs, k) <=> fs[k].line.calls > 0
    <3> HIDE DEF k
    <3> QED BY <1>1 DEF WaitingLines
  <2>3. /\ c \in Nat
        /\ Cardinality(WaitingLines(fs, k)) = c + (IF k \in WaitingLines(fs, k) THEN 1 ELSE 0)
    BY <2>1, CountsOne
  <2> HIDE DEF c, k
  <2> QED BY <2>2, <2>3 DEF Waits
<1>5. Weighs(fs[k]) = hasBackup + x + waits /\ waits \in Nat /\ hasBackup \in Nat
  <2>1. fs[k].bkp = None => x = 0
    <3>1. DOMAIN None = {}
      BY DEF None
    <3>2. fs[k].bkp = None => Kept(fs[k]) = {}
      BY <3>1 DEF Kept
    <3> QED BY <3>2, FS_EmptySet
  <2>2. waits \in Nat
    BY DEF Waits
  <2>3. Weighs(fs[k]) = (IF fs[k].bkp = None THEN 0 ELSE 1 + x) + waits
    BY DEF Weighs, Weight
  <2> HIDE DEF x, waits, k
  <2> QED BY <1>2, <2>1, <2>2, <2>3
<1>6. /\ Counted(fs, k) = (a + x) + (b + hasBackup) + (c + waits)
      /\ Counted(fs, n) = a + b + c
  BY <1>2, <1>3, <1>4 DEF Counted
<1> DEFINE w == Weighs(fs[k])
           new == Counted(fs, k)
           old == Counted(fs, n)
<1>7. new = old + w
  <2>1. /\ new = (a + x) + (b + hasBackup) + (c + waits) /\ old = a + b + c
        /\ w = hasBackup + x + waits
    BY <1>5, <1>6
  <2> HIDE DEF a, b, c, x, waits, hasBackup, w, new, old
  <2> QED BY <1>2, <1>3, <1>4, <1>5, <2>1
<1> QED BY <1>7

LEMMA OwedCounted ==
  ASSUME NEW fs, NEW k \in Nat, NEW s, Owed(fs, k, s), BackupsRight(fs, k)
  PROVE  s = Counted(fs, k)
<1>1. PICK H \in [0 .. k -> Int] :
         /\ H[0] = 0 /\ H[k] = s
         /\ \A i \in 1 .. k : H[i] = H[i - 1] + Weighs(fs[i])
  BY DEF Owed
<1> DEFINE I == {i \in 0 .. k : H[i] = Counted(fs, i)}
<1>2. 0 \in I
  <2> DEFINE z == 0
  <2>1. BackedUpBlocks(fs, z) = {} /\ Backups(fs, z) = {} /\ WaitingLines(fs, z) = {}
    <3>1. 1 .. z = {}
      OBVIOUS
    <3> HIDE DEF z
    <3> QED BY <3>1 DEF BackedUpBlocks, Backups, WaitingLines
  <2>2. Counted(fs, z) = 0 + 0 + 0
    <3> HIDE DEF z
    <3> QED BY <2>1, FS_EmptySet DEF Counted
  <2> QED BY <1>1, <2>2
<1>3. ASSUME NEW n \in 0 .. (k - 1), n \in I PROVE n + 1 \in I
  <2>1. n \in Nat /\ n + 1 \in 1 .. k /\ n + 1 \in 0 .. k /\ (n + 1) - 1 = n
    OBVIOUS
  <2>2. BackupsRight(fs, n + 1)
    BY <2>1 DEF BackupsRight
  <2>3. Counted(fs, n + 1) = Counted(fs, n) + Weighs(fs[n + 1])
    BY <2>1, <2>2, CountedNext
  <2>4. H[n + 1] = H[n] + Weighs(fs[n + 1])
    BY <1>1, <2>1
  <2> QED BY <1>3, <2>1, <2>3, <2>4
<1> HIDE DEF I
<1>4. \A n \in 0 .. k : n \in I
  BY <1>2, <1>3, Induction
<1>5. k \in I
  BY <1>4
<1> QED BY <1>1, <1>5 DEF I

LEMMA OwnersCounted ==
  ASSUME NEW k, k = Top, k \in Nat
  PROVE  /\ Owners = Cardinality(Owning(mem)) + Counted(frames, k) + Has(mem.buf)
         /\ Owners \in Nat /\ Counted(frames, k) \in Nat
<1> DEFINE o == Cardinality(Owning(mem))
           a == Cardinality(BackedUpBlocks(frames, k))
           b == Cardinality(Backups(frames, k))
           c == Cardinality(WaitingLines(frames, k))
           h == Has(mem.buf)
           d == Counted(frames, k)
           owners == Owners
<1>1. d = a + b + c
  BY DEF Counted
<1>2. owners = o + a + b + c + h
  BY DEF Owners, Owning, BackedUpBlocks, Backups, WaitingLines, Has
<1>3. o \in Nat /\ h \in Nat
  BY OwningCounted DEF Has
<1>4. a \in Nat /\ b \in Nat /\ c \in Nat
  <2>1. IsFiniteSet(1 .. k)
    BY FS_Interval
  <2>2. IsFiniteSet((1 .. k) \X Vars)
    BY <2>1, FS_Product, VarsKnown
  <2>3. /\ BackedUpBlocks(frames, k) \subseteq (1 .. k) \X Vars
        /\ Backups(frames, k) \subseteq 1 .. k
        /\ WaitingLines(frames, k) \subseteq 1 .. k
    BY DEF BackedUpBlocks, Backups, WaitingLines
  <2> QED BY <2>1, <2>2, <2>3, FS_Subset, FS_CardinalityType
<1>5. owners = o + d + h /\ owners \in Nat /\ d \in Nat
  <2> HIDE DEF o, a, b, c, h, d, owners
  <2> QED BY <1>1, <1>2, <1>3, <1>4
<1> QED BY <1>5

LEMMA SettledOwned ==
  ASSUME Settled PROVE MemoryOwned
<1> DEFINE k == Top
           o == Cardinality(Owning(mem))
           h == Has(mem.buf)
           s == Surplus(mem)
           d == Counted(frames, k)
           all == mem.allocs
           owners == Owners
<1>1. k \in Nat /\ k = Top /\ mem \in Memory /\ BackupsRight(frames, k)
  BY SettledFields
<1>2. Owed(frames, k, s - 0)
  BY DEF Settled, Sound
<1>3. s - 0 = d
  BY <1>1, <1>2, OwedCounted
<1>4. s = (all - o) - h
  BY DEF Surplus
<1>5. owners = o + d + h /\ d \in Nat
  <2> HIDE DEF k
  <2> QED BY <1>1, OwnersCounted
<1>6. o \in Nat /\ h \in Int /\ s \in Int /\ all \in Int
  BY <1>1, OwningCounted, HasTyped, SurplusTyped, Fields
<1>7. all = owners
  <2> HIDE DEF o, h, s, d, all, owners
  <2> QED BY <1>3, <1>4, <1>5, <1>6
<1> QED BY <1>7 DEF MemoryOwned

\* Every block of memory that has been allocated and not freed has exactly one
\* owner: a variable, a backup of one, a backup itself, a line or sDerefBuf; no call,
\* return, refused parameter or Exit leaks a block or frees it twice.  Of any number
\* of functions, activations and threads, in scripts whose results are not lost (run
\* calls_alias shows what is) and hosts that call functions without ByRef parameters.
THEOREM MemoryAlwaysOwned ==
  ASSUME ~LostResults, HostByValue PROVE Spec => []MemoryOwned
<1>1. Init => Settled
  BY InitSettled
<1>2. Settled /\ [Next]_vars => Settled'
  BY NextSettles
<1>3. Settled => MemoryOwned
  BY SettledOwned
<1> QED BY <1>1, <1>2, <1>3, PTL DEF Spec

-------------------------------------------------------------------------------
(* Type correctness: the bounds, and what Settled says of the rest. *)

Dos == {"none", "set", "call", "return", "exit", "thread", "host"}
Bounds == lines \in 0 .. MaxLines /\ said.do \in Dos /\ Top <= MaxFrames

\* The number of activations, from the shape of the next ones.
Fewer(fs, gs) == \E n \in 0 .. Len(fs) : DOMAIN gs = 1 .. n
Longer(fs, gs) == \E es, fr : /\ es = [i \in 1 .. Len(fs) |-> es[i]]
                              /\ gs = Append(es, fr)

LEMMA LengthOfFewer ==
  ASSUME NEW fs, fs \in Seq(Activation), NEW gs, gs \in Seq(Activation), Fewer(fs, gs)
  PROVE  Len(gs) <= Len(fs)
<1>1. PICK n \in 0 .. Len(fs) : DOMAIN gs = 1 .. n
  BY DEF Fewer
<1>2. Len(gs) \in Nat /\ DOMAIN gs = 1 .. Len(gs) /\ Len(fs) \in Nat /\ n \in Nat
  BY StackFields
<1>3. Len(gs) = n
  BY <1>1, <1>2
<1> QED BY <1>2, <1>3

LEMMA LengthOfLonger ==
  ASSUME NEW fs, fs \in Seq(Activation), NEW gs, Longer(fs, gs)
  PROVE  Len(gs) = Len(fs) + 1
<1> DEFINE n == Len(fs)
<1>1. PICK es, fr : es = [i \in 1 .. n |-> es[i]] /\ gs = Append(es, fr)
  BY DEF Longer
<1> DEFINE V == {es[i] : i \in 1 .. n} \cup {fr}
<1>2. n \in Nat
  BY StackFields
<1> HIDE DEF n
<1>3. es \in [1 .. n -> V]
  BY <1>1
<1> HIDE DEF V
<1>4. es \in Seq(V) /\ Len(es) = n
  BY <1>2, <1>3
<1>5. fr \in V
  BY DEF V
<1>6. Len(Append(es, fr)) = n + 1
  BY <1>4, <1>5, AppendProperties
<1> QED BY <1>1, <1>6 DEF n

LEMMA BoundsKept ==
  ASSUME Settled, Settled', Bounds, [Next]_vars PROVE Bounds'
<1>1. /\ frames \in Seq(Activation) /\ Top = Len(frames) /\ Top \in Nat
      /\ DOMAIN frames = 1 .. Top
  BY SettledFields, StackFields
<1>2. frames' \in Seq(Activation) /\ Top' = Len(frames')
  BY DEF Settled, Inv, Stack, Top
<1>3. MaxFrames \in Nat /\ MaxLines \in Nat
  BY CallsAssumption
<1>4. Fewer(frames, frames') => Top' <= MaxFrames
  <2> SUFFICES ASSUME Fewer(frames, frames') PROVE Top' <= MaxFrames
    OBVIOUS
  <2>1. Len(frames') <= Len(frames)
    BY <1>1, <1>2, LengthOfFewer
  <2>2. Len(frames') \in Nat
    BY <1>2, StackFields
  <2> QED BY <1>1, <1>2, <1>3, <2>1, <2>2 DEF Bounds
<1>5. Longer(frames, frames') /\ Top < MaxFrames => Top' <= MaxFrames
  <2>1. Longer(frames, frames') => Len(frames') = Len(frames) + 1
    BY <1>1, LengthOfLonger
  <2> QED BY <1>1, <1>2, <1>3, <2>1
<1>6. frames' = frames => Fewer(frames, frames')
  BY <1>1 DEF Fewer
<1>7. \A n \in 0 .. Top : frames' = SubSeq(frames, 1, n) => Fewer(frames, frames')
  <2> SUFFICES ASSUME NEW n \in 0 .. Top, frames' = SubSeq(frames, 1, n)
               PROVE Fewer(frames, frames')
    OBVIOUS
  <2>1. DOMAIN frames' = 1 .. n
    BY <1>1
  <2> QED BY <1>1, <2>1 DEF Fewer
<1>8. /\ Execute => lines' \in 0 .. MaxLines
      /\ UNCHANGED lines => lines' \in 0 .. MaxLines
  BY <1>3 DEF Execute, Bounds
<1>9. CASE UNCHANGED vars
  BY <1>4, <1>6, <1>8, <1>9 DEF vars, Bounds
<1>10. CASE Set
  <2>1. said'.do = "set"
    BY <1>10, CallsAssumption DEF Set
  <2> QED BY <1>4, <1>6, <1>8, <1>10, <2>1 DEF Set, Bounds, Dos
<1>11. CASE Call
  <2>1. said'.do = "call"
    BY <1>11, CallsAssumption DEF Call
  <2>2. lines' \in 0 .. MaxLines
    BY <1>8, <1>11 DEF Call
  <2>3. Top' <= MaxFrames
    <3>1. PICK f, m, arg, bkp, line, out :
            RefusedCall(m, f, arg, bkp, out) \/ Bound(m, f, arg, bkp, line)
      BY <1>11 DEF Call
    <3>2. CASE RefusedCall(m, f, arg, bkp, out)
      <4>1. DOMAIN frames' = DOMAIN frames
        BY <3>2 DEF RefusedCall
      <4> QED BY <1>1, <1>4, <4>1 DEF Fewer
    <3>3. CASE Bound(m, f, arg, bkp, line)
      <4> DEFINE es == [frames EXCEPT ![Top].line = line]
      <4>1. frames' = Append(es, Frame(f, bkp)) /\ Top < MaxFrames
        BY <3>3 DEF Bound
      <4>2. es = [i \in 1 .. Len(frames) |-> es[i]]
        BY <1>1
      <4> HIDE DEF es
      <4> QED BY <1>5, <4>1, <4>2 DEF Longer
    <3> QED BY <3>1, <3>2, <3>3
  <2> QED BY <2>1, <2>2, <2>3 DEF Bounds, Dos
<1>12. CASE Return
  <2>1. said'.do = "return"
    BY <1>12, CallsAssumption DEF Return
  <2>2. Fewer(frames, frames')
    <3> DEFINE n == Top - 1
    <3>1. frames # <<>>
      BY <1>12 DEF Return
    <3>2. n \in 0 .. Top /\ n \in Nat
      BY <1>1, <3>1
    <3>3. PICK m, f, bkp, r :
            frames' = SubSeq(frames, 1, n) \/ Deliver(m, n, f, bkp, r)
      BY <1>12 DEF Return
    <3> HIDE DEF n
    <3>4. CASE frames' = SubSeq(frames, 1, n)
      BY <1>7, <3>2, <3>4
    <3>5. CASE Deliver(m, n, f, bkp, r)
      <4>1. DOMAIN frames' = DOMAIN SubSeq(frames, 1, n)
        BY <3>5 DEF Deliver, EndLine
      <4>2. DOMAIN SubSeq(frames, 1, n) = 1 .. n
        BY <1>1, <3>2
      <4> QED BY <1>1, <3>2, <4>1, <4>2 DEF Fewer
    <3> QED BY <3>3, <3>4, <3>5
  <2> QED BY <1>4, <1>8, <1>12, <2>1, <2>2 DEF Return, Bounds, Dos
<1>13. CASE Exit
  <2> DEFINE k == CHOOSE i \in Bases : \A j \in Bases : j <= i
             n == k - 1
  <2>1. frames # <<>> /\ frames' = SubSeq(frames, 1, n) /\ said' = [do |-> "exit"]
        /\ UNCHANGED lines
    BY <1>13 DEF Exit
  <2>2. k \in 1 .. Top
    <3> DEFINE i == k
    <3>1. i = CHOOSE i_1 \in Bases : \A j \in Bases : j <= i_1
      OBVIOUS
    <3> HIDE DEF i
    <3>2. i \in 1 .. Top
      BY <2>1, <3>1, BasesKnown DEF Settled
    <3> QED BY <3>2 DEF i
  <2> HIDE DEF k
  <2>3. n \in 0 .. Top
    BY <1>1, <2>2
  <2>4. Fewer(frames, frames')
    <3> HIDE DEF n
    <3> QED BY <1>7, <2>1, <2>3
  <2> QED BY <1>4, <1>8, <2>1, <2>4 DEF Bounds, Dos
<1>14. ASSUME Interrupts, NEW fr, frames' = Append(frames, fr) PROVE Top' <= MaxFrames
  <2>1. frames = [i \in 1 .. Len(frames) |-> frames[i]]
    BY <1>1
  <2>2. Longer(frames, frames')
    BY <1>14, <2>1 DEF Longer
  <2> QED BY <1>5, <1>14, <2>2 DEF Interrupts
<1>15. CASE Thread
  BY <1>8, <1>14, <1>15 DEF Thread, Bounds, Dos
<1>16. CASE CallFunc
  <2>1. Interrupts /\ Execute /\ said'.do = "host"
    BY <1>16 DEF CallFunc
  <2>2. PICK fr : frames' = Append(frames, fr)
    BY <1>16 DEF CallFunc
  <2> QED BY <1>8, <1>14, <2>1, <2>2 DEF Bounds, Dos
<1>17. CASE DerefTimeout
  BY <1>4, <1>6, <1>8, <1>17 DEF DerefTimeout, Bounds
<1> QED BY <1>9, <1>10, <1>11, <1>12, <1>13, <1>15, <1>16, <1>17 DEF Next

LEMMA SettledTyped ==
  ASSUME Settled, Bounds PROVE TypeOK
<1>1. /\ frames \in Seq(Activation) /\ Top \in Nat /\ Top = Len(frames) /\ Stack(frames)
      /\ mem \in Memory /\ BackupsRight(frames, Top)
  BY SettledFields
<1>2. SoundVar \subseteq Var
  BY DEF SoundVar
<1>3. mem.allocs \in Nat
  BY <1>1, SettledOwned, OwnersCounted DEF MemoryOwned
<1>4. mem \in [var : [Vars -> Var], buf : BOOLEAN, allocs : Nat, simple : Nat]
  <2>1. mem.var \in [Vars -> SoundVar]
    BY <1>1, Fields
  <2>2. mem.var \in [Vars -> Var]
    BY <1>2, <2>1
  <2> QED BY <1>1, <1>3, <2>2 DEF Memory
<1>5. ASSUME NEW i \in 1 .. Top
      PROVE  /\ frames[i].func \in Funcs \cup {NoFunc}
             /\ frames[i].bkp = None \/ frames[i].bkp \in [Own(frames[i].func) -> Var]
             /\ frames[i].line.calls \in 0 .. 2
             /\ frames[i].line.yields \in 0 .. frames[i].line.calls
             /\ frames[i].line.out \in Visible(frames[i].func) \cup {NoVar}
             /\ Len(frames[i].line.held) <= 1
  <2>1. frames[i].func \in Funcs \cup {NoFunc} /\ LineRight(frames[i])
        /\ frames[i].line.held \in Seq(Text)
    BY <1>1, StackFields DEF Stack
  <2>2. frames[i].bkp = None \/ frames[i].bkp \in [Own(frames[i].func) -> SoundVar]
    BY <1>1 DEF BackupsRight
  <2>3. \A D : [D -> SoundVar] \subseteq [D -> Var]
    BY <1>2
  <2>4. frames[i].bkp = None \/ frames[i].bkp \in [Own(frames[i].func) -> Var]
    BY <2>2, <2>3
  <2> DEFINE l == frames[i].line
  <2>5. CASE l = NoLine
    <3>1. l.calls = 0 /\ l.yields = 0 /\ l.out = NoVar /\ Len(l.held) = 0
      BY <2>5 DEF NoLine
    <3> QED BY <2>1, <2>4, <3>1
  <2>6. CASE l # NoLine
    <3>1. /\ l.calls \in 1 .. 2 /\ l.yields \in 1 .. l.calls
          /\ l.out \in Visible(frames[i].func) \cup {NoVar} /\ Len(l.held) < l.calls
          /\ Len(l.held) \in Nat
      BY <2>1, <2>6 DEF LineRight
    <3> DEFINE c == l.calls
               h == Len(l.held)
               s == l.yields
    <3>2. c \in 0 .. 2 /\ s \in 0 .. c /\ h <= 1
      <4>1. c \in 1 .. 2 /\ s \in 1 .. c /\ h < c /\ h \in Nat
        BY <3>1
      <4> HIDE DEF c, h, s
      <4> QED BY <4>1
    <3> QED BY <2>1, <2>4, <3>1, <3>2
  <2> QED BY <2>5, <2>6
<1> QED BY <1>4, <1>5 DEF TypeOK, Bounds, Dos

\* The variables, the count of blocks, the activations with their backups and the
\* lines that wait stay of their types, and the blocks freed are never more than
\* those allocated.  In the same scripts and for the same hosts.
THEOREM CallsTypeCorrect ==
  ASSUME ~LostResults, HostByValue PROVE Spec => []TypeOK
<1>1. Init => Settled /\ Bounds
  <2>1. Init => Bounds
    <3>1. MaxFrames \in Nat /\ MaxLines \in Nat
      BY CallsAssumption
    <3> QED BY <3>1 DEF Init, Bounds, Dos, Top
  <2> QED BY <2>1, InitSettled
<1>2. Settled /\ Bounds /\ [Next]_vars => (Settled /\ Bounds)'
  BY NextSettles, BoundsKept
<1>3. Settled /\ Bounds => TypeOK
  BY SettledTyped
<1> QED BY <1>1, <1>2, <1>3, PTL DEF Spec

===============================================================================
