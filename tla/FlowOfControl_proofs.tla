-------------------------- MODULE FlowOfControl_proofs --------------------------
(***************************************************************************)
(* Proofs about FlowOfControl, for every script: the loader links the      *)
(* lines of every script that it accepts, each frame of ExecUntil runs     *)
(* only what its caller waits for, and the built-in variables are those of *)
(* the running line's own thread.  And about the promise of Structured:    *)
(* the loader accepts the scripts that are well formed, and no others, and *)
(* its pointers lead where the text says.                                  *)
(***************************************************************************)
EXTENDS FlowOfControl, InductionLemmas, SequenceTheorems, FiniteSetTheorems

-----------------------------------------------------------------------------
(* The recursion of PreparseIfElse.                                        *)

ParseModes == {"all", "block", "one"}
ParseStates(s) == (0 .. LastLine(s)) \X ParseModes \X BOOLEAN

JumpOK(p, lab, dyn, l) == dyn \/ (lab # 0 /\ IsJumpValid(p, l, lab))
Onward(f, mode, inLoop, x) == IF x = 0 \/ mode = "one" THEN x ELSE f[<<x, mode, inLoop>>]
BodyFrom(s, f, x, loop) == IF Line(s, x) \in {"else", "}"} THEN 0 ELSE f[<<x, "one", loop>>]

\* The line returned from line l on, f being what is returned further on.
OwnerStep(s, f, l, mode, inLoop) ==
  LET e == BodyFrom(s, f, l + 1, inLoop \/ Line(s, l) \in LoopKinds)
  IN IF e = 0 THEN 0
     ELSE IF Line(s, e) # "else" THEN Onward(f, mode, inLoop, e)
     ELSE IF Line(s, l) \in LoopKinds THEN IF mode = "one" THEN e ELSE 0
     ELSE Onward(f, mode, inLoop, BodyFrom(s, f, e + 1, inLoop))

BlockStep(f, l, mode, inLoop) ==
  LET e == f[<<l + 1, "block", inLoop>>]
  IN IF e = 0 THEN 0 ELSE Onward(f, mode, inLoop, e + 1)

ParseStep(s, p, lab, dyn, f, l, mode, inLoop) ==
  CASE l = 0 -> 0
    [] l = LastLine(s) -> IF mode = "all" THEN l ELSE 0
    [] Line(s, l) \in Owners -> OwnerStep(s, f, l, mode, inLoop)
    [] Line(s, l) \in Opens -> BlockStep(f, l, mode, inLoop)
    [] Line(s, l) = "}" -> IF mode = "one" THEN 0 ELSE l
    [] Line(s, l) \in {"break", "continue"} /\ ~inLoop -> 0
    [] Line(s, l) \in Jumps /\ ~JumpOK(p, lab, dyn, l) -> 0
    [] Line(s, l) = "else" -> 0
    [] OTHER -> Onward(f, mode, inLoop, IF l = LastLine(s) THEN 0 ELSE l + 1)

ParseBody(s, p, lab, dyn, f) ==
  [q \in ParseStates(s) |-> ParseStep(s, p, lab, dyn, f, q[1], q[2], q[3])]

LEMMA PreparsedIs ==
  ASSUME NEW s, NEW p, NEW lab, NEW dyn
  PROVE  Preparsed(s, p, lab, dyn) = CHOOSE f : f = ParseBody(s, p, lab, dyn, f)
BY DEF Preparsed, ParseBody, ParseStep, ParseStates, ParseModes, OwnerStep, BlockStep, Onward,
       BodyFrom, JumpOK

\* Where the lines of each kind may be.
LEMMA LineKinds ==
  ASSUME NEW S, NEW s \in Seq(S), NEW l \in Nat
  PROVE  /\ Len(s) \in Nat /\ LastLine(s) = Len(s) + 3
         /\ Line(s, l) # "exit" => l \in 1 .. Len(s) /\ Line(s, l) = s[l]
         /\ l \notin 1 .. Len(s) => Line(s, l) = "exit"
BY DEF Line, LastLine

\* A Break or Continue outside of loops, or a jump that can be seen to be invalid.
Stops(s, p, lab, dyn, l, inLoop) ==
  \/ Line(s, l) \in {"break", "continue"} /\ ~inLoop
  \/ Line(s, l) \in Jumps /\ ~JumpOK(p, lab, dyn, l)

Simple(s, l) ==
  /\ Line(s, l) \notin Owners \cup Opens \cup {"}", "else"} /\ l \in 1 .. LastLine(s) - 1

\* The step r, by the kind of the line.
StepIs(s, p, lab, dyn, f, l, mode, inLoop, r) ==
  /\ Line(s, l) \in Owners => r = OwnerStep(s, f, l, mode, inLoop)
  /\ Line(s, l) \in Opens => r = BlockStep(f, l, mode, inLoop)
  /\ Line(s, l) = "}" => r = IF mode = "one" THEN 0 ELSE l
  /\ Line(s, l) = "else" => r = 0
  /\ Simple(s, l) => r = IF Stops(s, p, lab, dyn, l, inLoop) THEN 0
                         ELSE Onward(f, mode, inLoop, l + 1)

LEMMA StepByKind ==
  ASSUME NEW S, NEW s \in Seq(S), NEW p, NEW lab, NEW dyn, NEW f, NEW mode, NEW inLoop
  PROVE  /\ ParseStep(s, p, lab, dyn, f, 0, mode, inLoop) = 0
         /\ ParseStep(s, p, lab, dyn, f, LastLine(s), mode, inLoop) =
              IF mode = "all" THEN LastLine(s) ELSE 0
         /\ \A l \in 1 .. LastLine(s) - 1 :
              StepIs(s, p, lab, dyn, f, l, mode, inLoop,
                     ParseStep(s, p, lab, dyn, f, l, mode, inLoop))
<1> DEFINE N == LastLine(s)
<1>1. /\ N \in Nat /\ N # 0 /\ N >= 3 /\ Line(s, 0) = "exit" /\ Line(s, N) = "exit"
  BY LineKinds DEF LastLine, Line
<1>2. ParseStep(s, p, lab, dyn, f, 0, mode, inLoop) = 0
  BY <1>1 DEF ParseStep, Owners, LoopKinds, Opens, Jumps
<1>3. ParseStep(s, p, lab, dyn, f, N, mode, inLoop) = IF mode = "all" THEN N ELSE 0
  BY <1>1 DEF ParseStep, Owners, LoopKinds, Opens, Jumps
<1>4. ASSUME NEW l \in 1 .. N - 1
      PROVE  StepIs(s, p, lab, dyn, f, l, mode, inLoop,
                    ParseStep(s, p, lab, dyn, f, l, mode, inLoop))
  <2> DEFINE k == Line(s, l)
             r == ParseStep(s, p, lab, dyn, f, l, mode, inLoop)
             owner == OwnerStep(s, f, l, mode, inLoop)
             block == BlockStep(f, l, mode, inLoop)
             jumps == JumpOK(p, lab, dyn, l)
             on(x) == Onward(f, mode, inLoop, x)
  <2>1. l # 0 /\ l # N
    BY <1>1
  <2>2. r = CASE l = 0 -> 0
              [] l = N -> IF mode = "all" THEN l ELSE 0
              [] k \in Owners -> owner
              [] k \in Opens -> block
              [] k = "}" -> IF mode = "one" THEN 0 ELSE l
              [] k \in {"break", "continue"} /\ ~inLoop -> 0
              [] k \in Jumps /\ ~jumps -> 0
              [] k = "else" -> 0
              [] OTHER -> on(IF l = N THEN 0 ELSE l + 1)
    BY DEF ParseStep
  <2> HIDE DEF k, r, owner, block, jumps, on, N
  <2>3. CASE k \in Owners
    <3>1. /\ k \notin Opens /\ k \notin {"}", "break", "continue", "else"} /\ k \notin Jumps
      BY <2>3 DEF Owners, LoopKinds, Opens, Jumps
    <3>2. r = owner
      BY <2>1, <2>2, <2>3, <3>1
    <3> QED BY <2>3, <3>1, <3>2 DEF StepIs, Simple, k, r, owner
  <2>4. CASE k \in Opens
    <3>1. /\ k \notin Owners /\ k \notin {"}", "break", "continue", "else"} /\ k \notin Jumps
      BY <2>4 DEF Owners, LoopKinds, Opens, Jumps
    <3>2. r = block
      BY <2>1, <2>2, <2>4, <3>1
    <3> QED BY <2>4, <3>1, <3>2 DEF StepIs, Simple, k, r, block
  <2>5. CASE k = "}"
    <3>1. /\ k \notin Owners /\ k \notin Opens /\ k \notin {"break", "continue", "else"} /\ k \notin Jumps
      BY <2>5 DEF Owners, LoopKinds, Opens, Jumps
    <3>2. r = IF mode = "one" THEN 0 ELSE l
      BY <2>1, <2>2, <2>5, <3>1
    <3> QED BY <2>5, <3>1, <3>2 DEF StepIs, Simple, k, r
  <2>6. CASE k = "else"
    <3>1. /\ k \notin Owners /\ k \notin Opens /\ k \notin {"break", "continue", "}"} /\ k \notin Jumps
      BY <2>6 DEF Owners, LoopKinds, Opens, Jumps
    <3>2. r = 0
      BY <2>1, <2>2, <2>6, <3>1
    <3> QED BY <2>6, <3>1, <3>2 DEF StepIs, Simple, k, r
  <2>7. CASE k \notin Owners \cup Opens \cup {"}", "else"}
    <3>1. CASE k \in {"break", "continue"}
      <4>1. k \notin Jumps
        BY <3>1 DEF Jumps
      <4>2. r = IF ~inLoop THEN 0 ELSE on(l + 1)
        BY <2>1, <2>2, <2>7, <3>1, <4>1
      <4> QED BY <2>7, <3>1, <4>1, <4>2 DEF StepIs, Simple, Stops, k, r, on
    <3>2. CASE k \notin {"break", "continue"}
      <4>1. r = IF k \in Jumps /\ ~jumps THEN 0 ELSE on(l + 1)
        BY <2>1, <2>2, <2>7, <3>2
      <4> QED BY <2>7, <3>2, <4>1 DEF StepIs, Simple, Stops, k, r, on, jumps
    <3> QED BY <3>1, <3>2
  <2> QED BY <2>3, <2>4, <2>5, <2>6, <2>7
<1> QED BY <1>2, <1>3, <1>4

\* What may be returned from line l on.
ParseRange(s, l, mode) == {0} \cup {e \in l .. LastLine(s) : mode = "block" => e <= Len(s)}

Ranges(s, f, a) ==
  \A x \in a .. LastLine(s), m \in ParseModes, b \in BOOLEAN : f[<<x, m, b>>] \in ParseRange(s, x, m)

LEMMA OnwardInRange ==
  ASSUME NEW S, NEW s \in Seq(S), NEW l \in 1 .. LastLine(s) - 1, NEW mode \in ParseModes,
         NEW inLoop \in BOOLEAN, NEW f, Ranges(s, f, l + 1),
         NEW x, x = 0 \/ x \in l + 1 .. LastLine(s)
  PROVE  Onward(f, mode, inLoop, x) \in ParseRange(s, l, mode)
<1> DEFINE N == LastLine(s)
<1>1. Len(s) \in Nat /\ N \in Nat /\ N = Len(s) + 3
  BY LineKinds DEF LastLine
<1>2. CASE x = 0
  BY <1>2 DEF Onward, ParseRange
<1>3. CASE x \in l + 1 .. N /\ mode = "one"
  <2>1. x \in l .. N /\ x # 0
    BY <1>1, <1>3
  <2> QED BY <1>3, <2>1 DEF Onward, ParseRange
<1>4. CASE x \in l + 1 .. N /\ mode # "one"
  <2>1. x # 0
    BY <1>1, <1>4
  <2>2. Onward(f, mode, inLoop, x) = f[<<x, mode, inLoop>>]
    BY <1>4, <2>1 DEF Onward
  <2>3. f[<<x, mode, inLoop>>] \in ParseRange(s, x, mode)
    BY <1>4 DEF Ranges
  <2>4. x .. N \subseteq l .. N
    BY <1>1, <1>4
  <2> QED BY <2>2, <2>3, <2>4 DEF ParseRange
<1> QED BY <1>2, <1>3, <1>4

LEMMA StepInRange ==
  ASSUME NEW S, NEW s \in Seq(S), NEW p, NEW lab, NEW dyn, NEW l \in 0 .. LastLine(s),
         NEW mode \in ParseModes, NEW inLoop \in BOOLEAN, NEW f, Ranges(s, f, l + 1)
  PROVE  ParseStep(s, p, lab, dyn, f, l, mode, inLoop) \in ParseRange(s, l, mode)
<1> DEFINE N == LastLine(s)
           r == ParseStep(s, p, lab, dyn, f, l, mode, inLoop)
<1>1. Len(s) \in Nat /\ N \in Nat /\ N = Len(s) + 3
  BY LineKinds DEF LastLine
<1> SUFFICES r \in ParseRange(s, l, mode)
  OBVIOUS
<1>2. 0 \in ParseRange(s, l, mode)
  BY DEF ParseRange
<1>3. CASE l = 0
  BY <1>2, <1>3, StepByKind
<1>4. CASE l = N
  <2>1. r = IF mode = "all" THEN N ELSE 0
    BY <1>4, StepByKind
  <2>2. mode = "all" => N \in ParseRange(s, N, mode)
    BY <1>1 DEF ParseRange
  <2> HIDE DEF r
  <2> QED BY <1>2, <1>4, <2>1, <2>2
<1>5. CASE l \in 1 .. N - 1
  <2>1. /\ Line(s, l) \in Owners => r = OwnerStep(s, f, l, mode, inLoop)
        /\ Line(s, l) \in Opens => r = BlockStep(f, l, mode, inLoop)
        /\ Line(s, l) = "}" => r = IF mode = "one" THEN 0 ELSE l
        /\ Line(s, l) = "else" => r = 0
        /\ Simple(s, l) => r = 0 \/ r = Onward(f, mode, inLoop, l + 1)
    <3>1. StepIs(s, p, lab, dyn, f, l, mode, inLoop, r)
      BY <1>5, StepByKind
    <3> HIDE DEF r
    <3> QED BY <3>1 DEF StepIs
  <2> HIDE DEF r
  <2>2. ASSUME NEW x, x \in l + 1 .. N PROVE Onward(f, mode, inLoop, x) \in ParseRange(s, l, mode)
    BY <1>5, <2>2, OnwardInRange
  <2>3. l + 1 \in l + 1 .. N /\ l \in l .. N
    BY <1>1, <1>5
  <2>4. ASSUME NEW x \in l + 1 .. N, NEW b \in BOOLEAN
        PROVE  BodyFrom(s, f, x, b) = 0 \/ BodyFrom(s, f, x, b) \in x .. N
    <3>1. f[<<x, "one", b>>] \in ParseRange(s, x, "one")
      BY DEF Ranges, ParseModes
    <3> QED BY <3>1 DEF BodyFrom, ParseRange
  <2>5. CASE Line(s, l) \in Owners
    <3> DEFINE e == BodyFrom(s, f, l + 1, inLoop \/ Line(s, l) \in LoopKinds)
    <3>1. (inLoop \/ Line(s, l) \in LoopKinds) \in BOOLEAN
      OBVIOUS
    <3>2. e = 0 \/ e \in l + 1 .. N
      BY <2>3, <2>4, <3>1
    <3> DEFINE d == BodyFrom(s, f, e + 1, inLoop)
    <3>3. r = IF e = 0 THEN 0
              ELSE IF Line(s, e) # "else" THEN Onward(f, mode, inLoop, e)
              ELSE IF Line(s, l) \in LoopKinds THEN IF mode = "one" THEN e ELSE 0
              ELSE Onward(f, mode, inLoop, d)
      BY <2>1, <2>5 DEF OwnerStep
    <3> HIDE DEF e
    <3>4. CASE e = 0
      BY <1>2, <3>3, <3>4
    <3>5. CASE e # 0 /\ Line(s, e) # "else"
      BY <2>2, <3>2, <3>3, <3>5
    <3>6. CASE e # 0 /\ Line(s, e) = "else"
      <4>1. e \in l + 1 .. N /\ e \in Nat
        BY <1>5, <3>2, <3>6
      <4>2. e + 1 \in l + 1 .. N
        <5>1. e \in 1 .. Len(s)
          BY <3>6, <4>1, LineKinds
        <5> QED BY <1>1, <1>5, <4>1, <5>1
      <4>3. d = 0 \/ d \in l + 1 .. N
        <5>1. d = 0 \/ d \in e + 1 .. N
          BY <2>4, <4>2
        <5> HIDE DEF d
        <5> QED BY <1>1, <1>5, <4>1, <5>1
      <4>4. mode = "one" => e \in ParseRange(s, l, mode)
        <5>1. e \in l .. N
          BY <1>1, <1>5, <4>1
        <5> QED BY <5>1 DEF ParseRange
      <4>5. d = 0 => Onward(f, mode, inLoop, d) = 0
        BY DEF Onward
      <4> HIDE DEF d
      <4> QED BY <1>2, <2>2, <3>3, <3>6, <4>3, <4>4, <4>5
    <3> QED BY <3>4, <3>5, <3>6
  <2>6. CASE Line(s, l) \in Opens
    <3> DEFINE e == f[<<l + 1, "block", inLoop>>]
    <3>1. e \in ParseRange(s, l + 1, "block")
      BY <2>3 DEF Ranges, ParseModes
    <3>2. r = IF e = 0 THEN 0 ELSE Onward(f, mode, inLoop, e + 1)
      BY <2>1, <2>6 DEF BlockStep
    <3> HIDE DEF e
    <3>3. e # 0 => e + 1 \in l + 1 .. N
      <4>1. e = 0 \/ (e \in l + 1 .. N /\ e <= Len(s))
        BY <3>1 DEF ParseRange
      <4> QED BY <1>1, <1>5, <4>1
    <3> QED BY <1>2, <2>2, <3>2, <3>3
  <2>7. CASE Line(s, l) = "}"
    <3>1. l \in 1 .. Len(s)
      <4>1. l \in Nat
        BY <1>1, <1>5
      <4> QED BY <2>7, <4>1, LineKinds
    <3>2. l \in ParseRange(s, l, mode)
      BY <2>3, <3>1 DEF ParseRange
    <3> QED BY <1>2, <2>1, <2>7, <3>2
  <2>8. CASE Line(s, l) = "else"
    BY <1>2, <2>1, <2>8
  <2>9. CASE Simple(s, l)
    <3>1. Onward(f, mode, inLoop, l + 1) \in ParseRange(s, l, mode)
      BY <2>2, <2>3
    <3> QED BY <1>2, <2>1, <2>9, <3>1
  <2> QED BY <1>5, <2>5, <2>6, <2>7, <2>8, <2>9 DEF Simple
<1>6. l = 0 \/ l = N \/ l \in 1 .. N - 1
  BY <1>1
<1> QED BY <1>3, <1>4, <1>5, <1>6

\* The step depends on what is returned further on only.
LEMMA StepIsLocal ==
  ASSUME NEW S, NEW s \in Seq(S), NEW p, NEW lab, NEW dyn, NEW l \in 0 .. LastLine(s),
         NEW mode \in ParseModes, NEW inLoop \in BOOLEAN, NEW f, NEW g_, Ranges(s, f, l + 1),
         \A x \in l + 1 .. LastLine(s), m \in ParseModes, b \in BOOLEAN :
           f[<<x, m, b>>] = g_[<<x, m, b>>]
  PROVE  ParseStep(s, p, lab, dyn, f, l, mode, inLoop) = ParseStep(s, p, lab, dyn, g_, l, mode, inLoop)
<1> DEFINE N == LastLine(s)
           r == ParseStep(s, p, lab, dyn, f, l, mode, inLoop)
           r2 == ParseStep(s, p, lab, dyn, g_, l, mode, inLoop)
           on(x) == Onward(f, mode, inLoop, x)
           on2(x) == Onward(g_, mode, inLoop, x)
<1>1. Len(s) \in Nat /\ N \in Nat /\ N = Len(s) + 3
  BY LineKinds DEF LastLine
<1> SUFFICES r = r2
  OBVIOUS
<1>2. \A x : x = 0 \/ x \in l + 1 .. N => on(x) = on2(x)
  BY DEF Onward
<1>3. \A x \in l + 1 .. N, b \in BOOLEAN : BodyFrom(s, f, x, b) = BodyFrom(s, g_, x, b)
  BY DEF BodyFrom, ParseModes
<1>4. CASE l = 0
  <2>1. r = 0 /\ r2 = 0
    BY <1>4, StepByKind
  <2> QED BY <2>1
<1>5. CASE l = N
  BY <1>5, StepByKind
<1>6. CASE l \in 1 .. N - 1
  <2> DEFINE stops == Stops(s, p, lab, dyn, l, inLoop)
  <2>1. /\ Line(s, l) \in Owners => r = OwnerStep(s, f, l, mode, inLoop)
        /\ Line(s, l) \in Opens => r = BlockStep(f, l, mode, inLoop)
        /\ Line(s, l) = "}" => r = IF mode = "one" THEN 0 ELSE l
        /\ Line(s, l) = "else" => r = 0
        /\ Simple(s, l) => r = IF stops THEN 0 ELSE on(l + 1)
    <3>1. StepIs(s, p, lab, dyn, f, l, mode, inLoop, r)
      BY <1>6, StepByKind
    <3> HIDE DEF r, on
    <3> QED BY <3>1 DEF StepIs, on
  <2>2. /\ Line(s, l) \in Owners => r2 = OwnerStep(s, g_, l, mode, inLoop)
        /\ Line(s, l) \in Opens => r2 = BlockStep(g_, l, mode, inLoop)
        /\ Line(s, l) = "}" => r2 = IF mode = "one" THEN 0 ELSE l
        /\ Line(s, l) = "else" => r2 = 0
        /\ Simple(s, l) => r2 = IF stops THEN 0 ELSE on2(l + 1)
    <3>1. StepIs(s, p, lab, dyn, g_, l, mode, inLoop, r2)
      BY <1>6, StepByKind
    <3> HIDE DEF r2, on2
    <3> QED BY <3>1 DEF StepIs, on2
  <2> HIDE DEF r, r2, stops
  <2>3. l + 1 \in l + 1 .. N
    BY <1>1, <1>6
  <2>4. CASE Line(s, l) \in Owners
    <3> DEFINE e == BodyFrom(s, f, l + 1, inLoop \/ Line(s, l) \in LoopKinds)
               d == BodyFrom(s, f, e + 1, inLoop)
               e2 == BodyFrom(s, g_, l + 1, inLoop \/ Line(s, l) \in LoopKinds)
               d2 == BodyFrom(s, g_, e2 + 1, inLoop)
    <3>1. (inLoop \/ Line(s, l) \in LoopKinds) \in BOOLEAN
      OBVIOUS
    <3>2. e = e2
      BY <1>3, <2>3, <3>1
    <3>3. e = 0 \/ e \in l + 1 .. N
      <4>1. \A b \in BOOLEAN : f[<<l + 1, "one", b>>] \in ParseRange(s, l + 1, "one")
        BY <2>3 DEF Ranges, ParseModes
      <4> QED BY <3>1, <4>1 DEF BodyFrom, ParseRange
    <3>4. r = IF e = 0 THEN 0
              ELSE IF Line(s, e) # "else" THEN on(e)
              ELSE IF Line(s, l) \in LoopKinds THEN IF mode = "one" THEN e ELSE 0
              ELSE on(d)
      BY <2>1, <2>4 DEF OwnerStep
    <3>5. r2 = IF e2 = 0 THEN 0
              ELSE IF Line(s, e2) # "else" THEN on2(e2)
              ELSE IF Line(s, l) \in LoopKinds THEN IF mode = "one" THEN e2 ELSE 0
              ELSE on2(d2)
      BY <2>2, <2>4 DEF OwnerStep
    <3>6. CASE e = 0
      BY <3>2, <3>4, <3>5, <3>6
    <3>7. CASE e # 0 /\ Line(s, e) # "else"
      <4>1. on(e) = on2(e)
        <5> HIDE DEF e, on, on2
        <5> QED BY <1>2, <3>3
      <4> HIDE DEF e, e2, on, on2
      <4> QED BY <3>2, <3>4, <3>5, <3>7, <4>1
    <3>8. CASE e # 0 /\ Line(s, e) = "else"
      <4>1. e \in l + 1 .. N /\ e + 1 \in l + 1 .. N
        <5> HIDE DEF e
        <5>1. e \in l + 1 .. N /\ e \in Nat
          BY <1>6, <3>3, <3>8
        <5>2. e \in 1 .. Len(s)
          BY <3>8, <5>1, LineKinds
        <5> QED BY <1>1, <1>6, <5>1, <5>2
      <4>2. d = d2
        <5> HIDE DEF e, e2
        <5> QED BY <1>3, <3>2, <4>1
      <4>3. d = 0 \/ d \in l + 1 .. N
        <5> HIDE DEF e
        <5>1. f[<<e + 1, "one", inLoop>>] \in ParseRange(s, e + 1, "one")
          BY <4>1 DEF Ranges, ParseModes
        <5>2. d = 0 \/ d \in e + 1 .. N
          BY <5>1 DEF BodyFrom, ParseRange
        <5> HIDE DEF d
        <5> QED BY <1>1, <1>6, <4>1, <5>2
      <4>4. on(d) = on2(d)
        <5> HIDE DEF d, on, on2
        <5> QED BY <1>2, <4>3
      <4> HIDE DEF e, e2, d, d2, on, on2
      <4> QED BY <3>2, <3>4, <3>5, <3>8, <4>2, <4>4
    <3> QED BY <3>6, <3>7, <3>8
  <2>5. CASE Line(s, l) \in Opens
    <3> DEFINE e == f[<<l + 1, "block", inLoop>>]
    <3>1. e \in ParseRange(s, l + 1, "block") /\ e = g_[<<l + 1, "block", inLoop>>]
      BY <2>3 DEF Ranges, ParseModes
    <3>2. r = (IF e = 0 THEN 0 ELSE on(e + 1)) /\ r2 = (IF e = 0 THEN 0 ELSE on2(e + 1))
      BY <2>1, <2>2, <2>5, <3>1 DEF BlockStep
    <3> HIDE DEF e
    <3>3. e # 0 => e + 1 \in l + 1 .. N
      <4>1. e = 0 \/ (e \in l + 1 .. N /\ e <= Len(s))
        BY <3>1 DEF ParseRange
      <4> QED BY <1>1, <1>6, <4>1
    <3> HIDE DEF on, on2
    <3> QED BY <1>2, <3>2, <3>3
  <2>6. CASE Line(s, l) = "}"
    BY <2>1, <2>2, <2>6
  <2>8. CASE Line(s, l) = "else"
    BY <2>1, <2>2, <2>8
  <2>7. CASE Simple(s, l)
    <3> HIDE DEF on, on2
    <3>1. on(l + 1) = on2(l + 1)
      BY <1>2, <2>3
    <3>2. r = IF stops THEN 0 ELSE on(l + 1)
      BY <2>1, <2>7
    <3>3. r2 = IF stops THEN 0 ELSE on2(l + 1)
      BY <2>2, <2>7
    <3> HIDE DEF N
    <3> QED BY <3>1, <3>2, <3>3, Zenon
  <2>9. \/ Line(s, l) \in Owners \/ Line(s, l) \in Opens \/ Line(s, l) = "}"
        \/ Line(s, l) = "else" \/ Simple(s, l)
    BY <1>6 DEF Simple
  <2> QED BY <2>4, <2>5, <2>6, <2>7, <2>8, <2>9
<1>7. l = 0 \/ l = N \/ l \in 1 .. N - 1
  BY <1>1
<1> QED BY <1>4, <1>5, <1>6, <1>7


\* The recursion has a solution, and it is within range.
ParseWithin(s) == {f \in [ParseStates(s) -> 0 .. LastLine(s)] : Ranges(s, f, 0)}

LEMMA BodyInRange ==
  ASSUME NEW S, NEW s \in Seq(S), NEW p, NEW lab, NEW dyn, NEW f, Ranges(s, f, 0)
  PROVE  ParseBody(s, p, lab, dyn, f) \in ParseWithin(s)
<1> DEFINE h == ParseBody(s, p, lab, dyn, f)
           N == LastLine(s)
<1> SUFFICES h \in ParseWithin(s)
  OBVIOUS
<1>1. N \in Nat
  BY LineKinds DEF LastLine
<1>2. ASSUME NEW x \in 0 .. N, NEW m \in ParseModes, NEW b \in BOOLEAN
      PROVE  h[<<x, m, b>>] \in ParseRange(s, x, m)
  <2>1. <<x, m, b>> \in ParseStates(s)
    BY DEF ParseStates
  <2>2. h[<<x, m, b>>] = ParseStep(s, p, lab, dyn, f, x, m, b)
    BY <2>1 DEF ParseBody
  <2>3. Ranges(s, f, x + 1)
    <3>1. x + 1 .. N \subseteq 0 .. N
      BY <1>1
    <3> QED BY <3>1 DEF Ranges
  <2> HIDE DEF h
  <2> QED BY <2>2, <2>3, StepInRange
<1>3. Ranges(s, h, 0)
  BY <1>2 DEF Ranges
<1>4. ASSUME NEW q \in ParseStates(s) PROVE h[q] \in 0 .. N
  <2>1. q = <<q[1], q[2], q[3]>> /\ q[1] \in 0 .. N /\ q[2] \in ParseModes /\ q[3] \in BOOLEAN
    BY DEF ParseStates
  <2> DEFINE x == q[1]
  <2>2. h[q] \in ParseRange(s, x, q[2])
    BY <1>2, <2>1
  <2>3. x .. N \subseteq 0 .. N /\ 0 \in 0 .. N
    BY <1>1, <2>1
  <2> HIDE DEF h
  <2> QED BY <2>2, <2>3 DEF ParseRange
<1>5. h \in [ParseStates(s) -> 0 .. N]
  <2>1. h = [q \in ParseStates(s) |-> h[q]]
    BY DEF ParseBody
  <2> HIDE DEF h
  <2> QED BY <1>4, <2>1
<1> HIDE DEF h
<1> QED BY <1>3, <1>5 DEF ParseWithin

LEMMA SolutionInRange ==
  ASSUME NEW S, NEW s \in Seq(S), NEW p, NEW lab, NEW dyn, NEW f, f = ParseBody(s, p, lab, dyn, f)
  PROVE  Ranges(s, f, 0)
<1> DEFINE N == LastLine(s)
           T == {n \in 0 .. N : Ranges(s, f, n)}
<1>1. N \in Nat
  BY LineKinds DEF LastLine
<1>2. ASSUME NEW x \in 0 .. N, NEW m \in ParseModes, NEW b \in BOOLEAN
      PROVE  f[<<x, m, b>>] = ParseStep(s, p, lab, dyn, f, x, m, b)
  <2>1. <<x, m, b>> \in ParseStates(s)
    BY DEF ParseStates
  <2>2. ParseBody(s, p, lab, dyn, f)[<<x, m, b>>] = ParseStep(s, p, lab, dyn, f, x, m, b)
    BY <2>1 DEF ParseBody
  <2> QED BY <2>2
<1>3. N \in T
  <2>1. Ranges(s, f, N + 1)
    <3>1. ~\E x : x \in N + 1 .. N
      BY <1>1
    <3> QED BY <3>1 DEF Ranges
  <2>2. \A x \in N .. N : x = N /\ x \in 0 .. N
    BY <1>1
  <2>3. ASSUME NEW m \in ParseModes, NEW b \in BOOLEAN PROVE f[<<N, m, b>>] \in ParseRange(s, N, m)
    <3>1. N \in 0 .. N
      BY <1>1
    <3>2. ParseStep(s, p, lab, dyn, f, N, m, b) \in ParseRange(s, N, m)
      BY <2>1, <3>1, StepInRange
    <3> QED BY <1>2, <3>1, <3>2
  <2>4. Ranges(s, f, N)
    BY <2>2, <2>3 DEF Ranges
  <2>5. N \in 0 .. N
    BY <1>1
  <2> QED BY <2>4, <2>5
<1>4. ASSUME NEW n \in 1 .. N, n \in T PROVE n - 1 \in T
  <2> DEFINE a == n - 1
  <2>1. a \in 0 .. N /\ a + 1 = n /\ \A x \in a .. N : x = a \/ x \in n .. N
    BY <1>1
  <2> HIDE DEF a
  <2>2. Ranges(s, f, n)
    BY <1>4
  <2>3. ASSUME NEW m \in ParseModes, NEW b \in BOOLEAN PROVE f[<<a, m, b>>] \in ParseRange(s, a, m)
    <3>1. ParseStep(s, p, lab, dyn, f, a, m, b) \in ParseRange(s, a, m)
      BY <2>1, <2>2, StepInRange
    <3> QED BY <1>2, <2>1, <3>1
  <2>4. Ranges(s, f, a)
    BY <2>1, <2>2, <2>3 DEF Ranges
  <2>5. a \in T
    BY <2>1, <2>4
  <2> QED BY <2>5 DEF a
<1> HIDE DEF T
<1>5. \A n \in 0 .. N : n \in T
  BY <1>1, <1>3, <1>4, InductionDown
<1> QED BY <1>1, <1>5 DEF T

LEMMA PreparsedExists ==
  ASSUME NEW S, NEW s \in Seq(S), NEW p, NEW lab, NEW dyn, NEW P, P = Preparsed(s, p, lab, dyn)
  PROVE  P = ParseBody(s, p, lab, dyn, P) /\ Ranges(s, P, 0)
<1> DEFINE N == LastLine(s)
           D == ParseStates(s)
           F == ParseWithin(s)
           m == [q \in D |-> N - q[1]]
           G == [q \in D |-> [f \in F |-> ParseStep(s, p, lab, dyn, f, q[1], q[2], q[3])]]
<1>1. N \in Nat
  BY LineKinds DEF LastLine
<1>2. \A q \in D : q[1] \in 0 .. N /\ q[2] \in ParseModes /\ q[3] \in BOOLEAN /\ q = <<q[1], q[2], q[3]>>
  BY DEF ParseStates
<1>3. \A f \in F : f \in [D -> 0 .. N] /\ Ranges(s, f, 0)
  BY DEF ParseWithin
<1>4. Measure(m, D, N)
  BY <1>1, <1>2 DEF Measure
<1>5. F # {}
  <2> DEFINE z == [q \in D |-> 0]
  <2>1. z \in [D -> 0 .. N]
    BY <1>1
  <2>2. Ranges(s, z, 0)
    <3>1. \A x \in 0 .. N, k \in ParseModes, b \in BOOLEAN : z[<<x, k, b>>] = 0
      BY DEF ParseStates
    <3> HIDE DEF z
    <3> QED BY <3>1 DEF Ranges, ParseRange
  <2> HIDE DEF z
  <2> QED BY <2>1, <2>2 DEF ParseWithin
<1>6. Closed(G, D, F)
  <2>1. ASSUME NEW f \in F PROVE [q \in D |-> G[q][f]] \in F
    <3>1. [q \in D |-> G[q][f]] = ParseBody(s, p, lab, dyn, f)
      BY DEF ParseBody
    <3> HIDE DEF F
    <3>2. ParseBody(s, p, lab, dyn, f) \in F
      BY <1>3, BodyInRange DEF F
    <3> QED BY <3>1, <3>2
  <2> HIDE DEF G, D, F
  <2> QED BY <2>1 DEF Closed
<1>7. LocalOn(G, D, m, F)
  <2>1. ASSUME NEW q \in D, NEW f \in F, NEW h \in F, \A r \in D : m[r] < m[q] => f[r] = h[r]
        PROVE  G[q][f] = G[q][h]
    <3> DEFINE l == q[1]
    <3>1. G[q][f] = ParseStep(s, p, lab, dyn, f, q[1], q[2], q[3])
          /\ G[q][h] = ParseStep(s, p, lab, dyn, h, q[1], q[2], q[3])
      OBVIOUS
    <3>2. l \in 0 .. N
      BY <1>2
    <3>3. ASSUME NEW x \in l + 1 .. N, NEW k \in ParseModes, NEW b \in BOOLEAN
          PROVE  f[<<x, k, b>>] = h[<<x, k, b>>]
      <4> DEFINE r == <<x, k, b>>
      <4> HIDE DEF l
      <4>1. x \in 0 .. N /\ N - x < N - l
        BY <1>1, <3>2
      <4>2. r \in D
        BY <4>1 DEF ParseStates
      <4>3. m[r] = N - x /\ m[q] = N - l
        BY <4>2 DEF l
      <4> HIDE DEF m, r
      <4> QED BY <2>1, <4>1, <4>2, <4>3 DEF r
    <3>4. Ranges(s, f, l + 1)
      <4>1. Ranges(s, f, 0)
        BY <1>3
      <4> HIDE DEF l
      <4>2. l + 1 .. N \subseteq 0 .. N
        BY <1>1, <3>2
      <4> QED BY <4>1, <4>2 DEF Ranges
    <3>5. q[2] \in ParseModes /\ q[3] \in BOOLEAN
      BY <1>2
    <3> HIDE DEF G, D, F, m
    <3>6. ParseStep(s, p, lab, dyn, f, l, q[2], q[3]) = ParseStep(s, p, lab, dyn, h, l, q[2], q[3])
      BY <3>2, <3>3, <3>4, <3>5, StepIsLocal
    <3> QED BY <3>1, <3>6
  <2> HIDE DEF G, D, F, m
  <2> QED BY <2>1 DEF LocalOn
<1>8. Over(F, D)
  BY <1>3 DEF Over
<1> HIDE DEF G, m, F, D, N
<1>9. SolvedIn(F, G, D)
  BY <1>1, <1>4, <1>5, <1>6, <1>7, <1>8, RecursionWithin, Zenon
<1>10. PICK f \in F : \A q \in D : f[q] = G[q][f]
  BY <1>9 DEF SolvedIn
<1>11. f = ParseBody(s, p, lab, dyn, f)
  <2>1. \A q \in D : G[q][f] = ParseStep(s, p, lab, dyn, f, q[1], q[2], q[3])
    BY DEF G
  <2>2. f = [q \in D |-> f[q]]
    BY <1>3, <1>10
  <2>3. f = [q \in D |-> ParseStep(s, p, lab, dyn, f, q[1], q[2], q[3])]
    BY <1>10, <2>1, <2>2
  <2> QED BY <2>3 DEF ParseBody, D
<1>12. P = CHOOSE h : h = ParseBody(s, p, lab, dyn, h)
  BY PreparsedIs
<1>13. P = ParseBody(s, p, lab, dyn, P)
  BY <1>11, <1>12, Zenon
<1> QED BY <1>13, SolutionInRange


\* What a solution says of each line.
Unfolds(s, p, lab, dyn, P) ==
  \A mode \in ParseModes, b \in BOOLEAN :
    /\ P[<<0, mode, b>>] = 0
    /\ P[<<LastLine(s), mode, b>>] = IF mode = "all" THEN LastLine(s) ELSE 0
    /\ \A l \in 1 .. LastLine(s) - 1 : StepIs(s, p, lab, dyn, P, l, mode, b, P[<<l, mode, b>>])

LEMMA PreparsedUnfolds ==
  ASSUME NEW S, NEW s \in Seq(S), NEW p, NEW lab, NEW dyn, NEW P, P = Preparsed(s, p, lab, dyn)
  PROVE  Unfolds(s, p, lab, dyn, P) /\ Ranges(s, P, 0)
<1> DEFINE N == LastLine(s)
<1>1. N \in Nat
  BY LineKinds DEF LastLine
<1>2. P = ParseBody(s, p, lab, dyn, P) /\ Ranges(s, P, 0)
  BY PreparsedExists
<1>3. ASSUME NEW x \in 0 .. N, NEW m \in ParseModes, NEW b \in BOOLEAN
      PROVE  P[<<x, m, b>>] = ParseStep(s, p, lab, dyn, P, x, m, b)
  <2>1. <<x, m, b>> \in ParseStates(s)
    BY DEF ParseStates
  <2>2. ParseBody(s, p, lab, dyn, P)[<<x, m, b>>] = ParseStep(s, p, lab, dyn, P, x, m, b)
    BY <2>1 DEF ParseBody
  <2> QED BY <1>2, <2>2
<1>4. ASSUME NEW mode \in ParseModes, NEW b \in BOOLEAN
      PROVE  /\ P[<<0, mode, b>>] = 0
             /\ P[<<N, mode, b>>] = IF mode = "all" THEN N ELSE 0
             /\ \A l \in 1 .. N - 1 : StepIs(s, p, lab, dyn, P, l, mode, b, P[<<l, mode, b>>])
  <2>1. 0 \in 0 .. N /\ N \in 0 .. N
    BY <1>1
  <2>2. P[<<0, mode, b>>] = 0
    BY <1>3, <2>1, StepByKind
  <2>3. P[<<N, mode, b>>] = IF mode = "all" THEN N ELSE 0
    BY <1>3, <2>1, StepByKind
  <2>4. ASSUME NEW l \in 1 .. N - 1
        PROVE  StepIs(s, p, lab, dyn, P, l, mode, b, P[<<l, mode, b>>])
    <3>1. l \in 0 .. N
      BY <1>1
    <3>2. P[<<l, mode, b>>] = ParseStep(s, p, lab, dyn, P, l, mode, b)
      BY <1>3, <3>1
    <3>3. StepIs(s, p, lab, dyn, P, l, mode, b, ParseStep(s, p, lab, dyn, P, l, mode, b))
      BY StepByKind
    <3> QED BY <3>2, <3>3
  <2> QED BY <2>2, <2>3, <2>4
<1>5. Unfolds(s, p, lab, dyn, P)
  BY <1>4 DEF Unfolds
<1> QED BY <1>2, <1>5

\* What is accepted with the label, and outside of loops, is accepted without
\* regard to either, and ends in the same place.
AgreesAt(f, h, x) ==
  \A m \in ParseModes, b \in BOOLEAN : f[<<x, m, b>>] # 0 => h[<<x, m, TRUE>>] = f[<<x, m, b>>]

Agrees(s, f, h, a) == \A x \in a .. LastLine(s) : AgreesAt(f, h, x)

LEMMA StepAgrees ==
  ASSUME NEW S, NEW s \in Seq(S), NEW p, NEW lab, NEW dyn, NEW f, NEW h,
         Unfolds(s, p, lab, dyn, f), Ranges(s, f, 0), Unfolds(s, p, 0, TRUE, h),
         NEW l \in 1 .. LastLine(s) - 1, Agrees(s, f, h, l + 1)
  PROVE  AgreesAt(f, h, l)
<1> SUFFICES ASSUME NEW mode \in ParseModes, NEW b \in BOOLEAN, f[<<l, mode, b>>] # 0
             PROVE  h[<<l, mode, TRUE>>] = f[<<l, mode, b>>]
  BY DEF AgreesAt
<1> DEFINE N == LastLine(s)
           r == f[<<l, mode, b>>]
           r2 == h[<<l, mode, TRUE>>]
           on(x) == Onward(f, mode, b, x)
           on2(x) == Onward(h, mode, TRUE, x)
<1> SUFFICES r2 = r
  OBVIOUS
<1>0. r # 0
  OBVIOUS
<1>1. Len(s) \in Nat /\ N \in Nat /\ N = Len(s) + 3
  BY LineKinds DEF LastLine
<1>2. StepIs(s, p, lab, dyn, f, l, mode, b, r) /\ StepIs(s, p, 0, TRUE, h, l, mode, TRUE, r2)
  BY DEF Unfolds
<1>3. ASSUME NEW x \in l + 1 .. N, on(x) # 0 PROVE on2(x) = on(x)
  BY <1>3 DEF Onward, Agrees, AgreesAt
<1>4. ASSUME NEW x \in l + 1 .. N, NEW c \in BOOLEAN, BodyFrom(s, f, x, c) # 0
      PROVE  BodyFrom(s, h, x, TRUE) = BodyFrom(s, f, x, c) /\ BodyFrom(s, f, x, c) \in x .. N
  <2>1. Line(s, x) \notin {"else", "}"} /\ BodyFrom(s, f, x, c) = f[<<x, "one", c>>]
    BY <1>4 DEF BodyFrom
  <2>2. BodyFrom(s, h, x, TRUE) = h[<<x, "one", TRUE>>]
    BY <2>1 DEF BodyFrom
  <2>3. h[<<x, "one", TRUE>>] = f[<<x, "one", c>>]
    BY <1>4, <2>1 DEF Agrees, AgreesAt, ParseModes
  <2>4. x \in 0 .. N
    BY <1>1
  <2>5. f[<<x, "one", c>>] \in ParseRange(s, x, "one")
    BY <2>4 DEF Ranges, ParseModes
  <2> QED BY <1>4, <2>1, <2>2, <2>3, <2>5 DEF ParseRange
<1>5. l + 1 \in l + 1 .. N
  BY <1>1
<1> HIDE DEF r, r2
<1>6. CASE Line(s, l) \in Owners
  <2> DEFINE e == BodyFrom(s, f, l + 1, b \/ Line(s, l) \in LoopKinds)
             d == BodyFrom(s, f, e + 1, b)
             e2 == BodyFrom(s, h, l + 1, TRUE \/ Line(s, l) \in LoopKinds)
             d2 == BodyFrom(s, h, e2 + 1, TRUE)
  <2>1. r = IF e = 0 THEN 0
            ELSE IF Line(s, e) # "else" THEN on(e)
            ELSE IF Line(s, l) \in LoopKinds THEN IF mode = "one" THEN e ELSE 0
            ELSE on(d)
    <3>1. r = OwnerStep(s, f, l, mode, b)
      BY <1>2, <1>6 DEF StepIs
    <3> QED BY <3>1 DEF OwnerStep
  <2>2. r2 = IF e2 = 0 THEN 0
            ELSE IF Line(s, e2) # "else" THEN on2(e2)
            ELSE IF Line(s, l) \in LoopKinds THEN IF mode = "one" THEN e2 ELSE 0
            ELSE on2(d2)
    <3>1. r2 = OwnerStep(s, h, l, mode, TRUE)
      BY <1>2, <1>6 DEF StepIs
    <3> QED BY <3>1 DEF OwnerStep
  <2>3. (b \/ Line(s, l) \in LoopKinds) \in BOOLEAN /\ (TRUE \/ Line(s, l) \in LoopKinds) = TRUE
    OBVIOUS
  <2>4. e # 0
    <3> HIDE DEF e, on, d
    <3> QED BY <1>0, <2>1
  <2>5. e2 = e /\ e \in l + 1 .. N
    BY <1>4, <1>5, <2>3, <2>4
  <2>6. CASE Line(s, e) # "else"
    <3>1. on(e) # 0
      <4> HIDE DEF e, on, d
      <4> QED BY <1>0, <2>1, <2>4, <2>6
    <3>2. on2(e) = on(e)
      <4> HIDE DEF e
      <4> QED BY <1>3, <2>5, <3>1
    <3> HIDE DEF e, e2, on, on2, d, d2
    <3> QED BY <2>1, <2>2, <2>4, <2>5, <2>6, <3>2
  <2>7. CASE Line(s, e) = "else" /\ Line(s, l) \in LoopKinds
    <3> HIDE DEF e, e2, on, on2, d, d2
    <3> QED BY <2>1, <2>2, <2>4, <2>5, <2>7
  <2>8. CASE Line(s, e) = "else" /\ Line(s, l) \notin LoopKinds
    <3>1. on(d) # 0
      <4> HIDE DEF e, on, d
      <4> QED BY <1>0, <2>1, <2>4, <2>8
    <3>2. d # 0
      <4> HIDE DEF d
      <4> QED BY <3>1 DEF Onward
    <3>3. e + 1 \in l + 1 .. N
      <4> HIDE DEF e
      <4>1. e \in Nat
        BY <2>5
      <4>2. e \in 1 .. Len(s)
        BY <2>8, <4>1, LineKinds
      <4> QED BY <1>1, <2>5, <4>2
    <3>4. d2 = d /\ d \in e + 1 .. N
      <4>1. BodyFrom(s, h, e + 1, TRUE) = BodyFrom(s, f, e + 1, b) /\ d \in e + 1 .. N
        <5> HIDE DEF e
        <5> QED BY <1>4, <3>2, <3>3
      <4> HIDE DEF e, e2
      <4> QED BY <2>5, <4>1
    <3>5. d \in l + 1 .. N
      <4> HIDE DEF d, e
      <4> QED BY <1>1, <2>5, <3>4
    <3>6. on2(d) = on(d)
      <4> HIDE DEF d
      <4> QED BY <1>3, <3>1, <3>5
    <3> HIDE DEF e, e2, on, on2, d, d2
    <3> QED BY <2>1, <2>2, <2>4, <2>5, <2>8, <3>4, <3>6
  <2> QED BY <2>6, <2>7, <2>8
<1>7. CASE Line(s, l) \in Opens
  <2> DEFINE e == f[<<l + 1, "block", b>>]
             e2 == h[<<l + 1, "block", TRUE>>]
  <2>1. r = IF e = 0 THEN 0 ELSE on(e + 1)
    <3>1. r = BlockStep(f, l, mode, b)
      BY <1>2, <1>7 DEF StepIs
    <3> QED BY <3>1 DEF BlockStep
  <2>2. r2 = IF e2 = 0 THEN 0 ELSE on2(e2 + 1)
    <3>1. r2 = BlockStep(h, l, mode, TRUE)
      BY <1>2, <1>7 DEF StepIs
    <3> QED BY <3>1 DEF BlockStep
  <2>3. e # 0 /\ on(e + 1) # 0
    <3> HIDE DEF e, on
    <3> QED BY <1>0, <2>1
  <2>4. e2 = e
    BY <1>5, <2>3 DEF Agrees, AgreesAt, ParseModes
  <2>5. e + 1 \in l + 1 .. N
    <3>1. l + 1 \in 0 .. N
      BY <1>1
    <3>2. e \in ParseRange(s, l + 1, "block")
      BY <3>1 DEF Ranges, ParseModes
    <3> HIDE DEF e
    <3>3. e \in l + 1 .. N /\ e <= Len(s)
      BY <2>3, <3>2 DEF ParseRange
    <3> QED BY <1>1, <3>3
  <2>6. on2(e + 1) = on(e + 1)
    <3> HIDE DEF e
    <3> QED BY <1>3, <2>3, <2>5
  <2> HIDE DEF e, e2, on, on2
  <2> QED BY <2>1, <2>2, <2>3, <2>4, <2>6
<1>8. CASE Line(s, l) = "}"
  BY <1>2, <1>8 DEF StepIs
<1>9. CASE Line(s, l) = "else"
  BY <1>0, <1>2, <1>9 DEF StepIs
<1>10. CASE Simple(s, l)
  <2>1. r = on(l + 1)
    <3> HIDE DEF on
    <3>1. r = IF Stops(s, p, lab, dyn, l, b) THEN 0 ELSE Onward(f, mode, b, l + 1)
      BY <1>2, <1>10 DEF StepIs
    <3> QED BY <1>0, <3>1 DEF on
  <2>2. r2 = on2(l + 1)
    <3> HIDE DEF on2
    <3>1. r2 = IF Stops(s, p, 0, TRUE, l, TRUE) THEN 0 ELSE Onward(h, mode, TRUE, l + 1)
      BY <1>2, <1>10 DEF StepIs
    <3> QED BY <3>1 DEF on2, Stops, JumpOK
  <2>3. on(l + 1) # 0
    <3> HIDE DEF on
    <3> QED BY <1>0, <2>1
  <2>4. on2(l + 1) = on(l + 1)
    BY <1>3, <1>5, <2>3
  <2> QED BY <2>1, <2>2, <2>4
<1>11. \/ Line(s, l) \in Owners \/ Line(s, l) \in Opens \/ Line(s, l) = "}"
       \/ Line(s, l) = "else" \/ Simple(s, l)
  BY DEF Simple
<1> QED BY <1>6, <1>7, <1>8, <1>9, <1>10, <1>11

LEMMA PreparsedAgrees ==
  ASSUME NEW S, NEW s \in Seq(S), NEW p, NEW lab, NEW dyn,
         NEW f, f = Preparsed(s, p, lab, dyn), NEW h, h = Preparsed(s, p, 0, TRUE)
  PROVE  Agrees(s, f, h, 1)
<1> DEFINE N == LastLine(s)
           T == {n \in 1 .. N : Agrees(s, f, h, n)}
<1>1. N \in Nat /\ N >= 3 /\ 1 \in 0 .. N
  BY LineKinds DEF LastLine
<1>2. /\ Unfolds(s, p, lab, dyn, f) /\ Ranges(s, f, 0)
      /\ Unfolds(s, p, 0, TRUE, h)
  BY PreparsedUnfolds
<1>3. N \in T
  <2>1. \A x \in N .. N : x = N
    BY <1>1
  <2>2. \A m \in ParseModes, b \in BOOLEAN : h[<<N, m, TRUE>>] = f[<<N, m, b>>]
    BY <1>2 DEF Unfolds
  <2>3. Agrees(s, f, h, N)
    BY <2>1, <2>2 DEF Agrees, AgreesAt
  <2>4. N \in 1 .. N
    BY <1>1
  <2> QED BY <2>3, <2>4
<1>4. ASSUME NEW n \in 1 .. N - 1, n + 1 \in T PROVE n \in T
  <2>1. Agrees(s, f, h, n + 1)
    BY <1>4
  <2>2. AgreesAt(f, h, n)
    BY <1>2, <2>1, StepAgrees, Zenon
  <2>3. n \in 1 .. N /\ \A x \in n .. N : x = n \/ x \in n + 1 .. N
    BY <1>1
  <2>4. Agrees(s, f, h, n)
    BY <2>1, <2>2, <2>3 DEF Agrees
  <2> QED BY <2>3, <2>4
<1> HIDE DEF T
<1>5. \A n \in 1 .. N : n \in T
  <2> HIDE DEF N
  <2> QED BY <1>1, <1>3, <1>4, InductionDownTo
<1>6. 1 \in 1 .. N
  BY <1>1
<1> QED BY <1>5, <1>6 DEF T


-----------------------------------------------------------------------------
(* The recursion of PreparseBlocks.                                        *)

BlocksFrom(s, f, l) ==
  IF l = 1 THEN <<>>
  ELSE CASE s[l - 1] \in Opens -> Append(f[l - 1], l - 1)
         [] s[l - 1] = "}" /\ f[l - 1] # <<>> -> Front(f[l - 1])
         [] OTHER -> f[l - 1]

OpenBody(s, f) == [l \in 1 .. Len(s) + 1 |-> BlocksFrom(s, f, l)]

LEMMA OpenBlocksExist ==
  ASSUME NEW S, NEW s \in Seq(S)
  PROVE  OpenBlocks(s) = OpenBody(s, OpenBlocks(s))
<1> DEFINE M == Len(s) + 1
           Ok(m, f) == f = [l \in 1 .. m |-> BlocksFrom(s, f, l)]
           T == {m \in 0 .. M : \E f : Ok(m, f)}
<1>1. M \in Nat
  OBVIOUS
<1>2. 0 \in T
  <2>1. 1 .. 0 = {}
    OBVIOUS
  <2> DEFINE f == [l \in 1 .. 0 |-> 0]
  <2>2. Ok(0, f)
    BY <2>1
  <2> HIDE DEF f, M, Ok
  <2>3. 0 \in 0 .. M
    BY <1>1
  <2> QED BY <2>2, <2>3
<1>3. ASSUME NEW m \in 0 .. M - 1, m \in T PROVE m + 1 \in T
  <2>1. PICK f : Ok(m, f)
    BY <1>3
  <2> DEFINE k == m + 1
             h == [l \in 1 .. k |-> IF l = k THEN BlocksFrom(s, f, k) ELSE f[l]]
  <2>2. k \in 0 .. M /\ \A l \in 1 .. k : l = k \/ (l \in 1 .. m /\ l # k)
    BY <1>1
  <2>3. \A l \in 1 .. k : l # 1 => l - 1 \in 1 .. k /\ l - 1 \in 1 .. m /\ l - 1 # k
    BY <1>1
  <2>4. ASSUME NEW l \in 1 .. k PROVE BlocksFrom(s, h, l) = BlocksFrom(s, f, l)
    <3>1. l # 1 => h[l - 1] = f[l - 1]
      BY <2>3
    <3> HIDE DEF h, k
    <3>2. CASE l = 1
      BY <3>2, Zenon DEF BlocksFrom
    <3>3. CASE l # 1
      <4> DEFINE K(x) == CASE s[l - 1] \in Opens -> Append(x, l - 1)
                           [] s[l - 1] = "}" /\ x # <<>> -> Front(x)
                           [] OTHER -> x
      <4>1. BlocksFrom(s, h, l) = K(h[l - 1]) /\ BlocksFrom(s, f, l) = K(f[l - 1])
        BY <3>3 DEF BlocksFrom
      <4> HIDE DEF K
      <4> QED BY <3>1, <3>3, <4>1
    <3> QED BY <3>2, <3>3
  <2>5. ASSUME NEW l \in 1 .. k PROVE h[l] = BlocksFrom(s, f, l)
    <3>1. CASE l = k
      BY <3>1
    <3>2. CASE l # k
      <4>1. h[l] = f[l] /\ l \in 1 .. m
        BY <2>2, <3>2
      <4>2. [x \in 1 .. m |-> BlocksFrom(s, f, x)][l] = BlocksFrom(s, f, l)
        BY <4>1
      <4>3. f[l] = BlocksFrom(s, f, l)
        BY <2>1, <4>2
      <4> QED BY <4>1, <4>3
    <3> QED BY <3>1, <3>2
  <2>6. h = [l \in 1 .. k |-> h[l]]
    OBVIOUS
  <2> HIDE DEF h
  <2>7. Ok(k, h)
    BY <2>4, <2>5, <2>6
  <2> QED BY <2>2, <2>7
<1>4. M \in T
  <2> HIDE DEF T, M
  <2>1. \A m \in 0 .. M : m \in T
    BY <1>1, <1>2, <1>3, Induction
  <2> QED BY <1>1, <2>1
<1>5. PICK f : f = OpenBody(s, f)
  BY <1>4 DEF OpenBody
<1>6. OpenBlocks(s) = CHOOSE h : h = OpenBody(s, h)
  BY DEF OpenBlocks, OpenBody, BlocksFrom
<1> QED BY <1>5, <1>6, Zenon

\* The blocks open at any line, and the innermost of them.
OB(s, l) == IF l \in 1 .. Len(s) + 1 THEN OpenBlocks(s)[l] ELSE <<>>
TopOf(b) == IF b = <<>> THEN 0 ELSE Last(b)
Braces(s, l) == {x \in 1 .. l - 1 : Line(s, x) \in Opens}

LEMMA AppendFront ==
  ASSUME NEW S, NEW b \in Seq(S), NEW x \in S
  PROVE  /\ Append(b, x) \in Seq(S) /\ Append(b, x) # <<>>
         /\ Front(Append(b, x)) = b /\ Last(Append(b, x)) = x
<1> DEFINE a == Append(b, x)
<1>1. a \in Seq(S) /\ Len(a) = Len(b) + 1 /\ a[Len(b) + 1] = x /\ \A i \in 1 .. Len(b) : a[i] = b[i]
  OBVIOUS
<1>2. Front(a) = [i \in 1 .. Len(b) |-> a[i]]
  <2>1. Len(a) - 1 = Len(b)
    BY <1>1
  <2> HIDE DEF a
  <2> QED BY <1>1, <2>1 DEF Front
<1>3. b = [i \in 1 .. Len(b) |-> b[i]]
  OBVIOUS
<1> HIDE DEF a
<1>4. Front(a) = b
  BY <1>1, <1>2, <1>3
<1>5. Last(a) = x
  BY <1>1 DEF Last
<1>6. a # <<>>
  BY <1>1
<1> QED BY <1>1, <1>4, <1>5, <1>6 DEF a


LEMMA FrontType ==
  ASSUME NEW S, NEW b \in Seq(S), b # <<>>
  PROVE  Front(b) \in Seq(S) /\ Len(Front(b)) = Len(b) - 1 /\ Last(b) \in S
         /\ \A i \in 1 .. Len(b) - 1 : Front(b)[i] = b[i]
<1> DEFINE n == Len(b) - 1
<1>1. n \in Nat /\ n + 1 = Len(b)
  <2>1. Len(b) # 0
    OBVIOUS
  <2> QED BY <2>1
<1>2. SubSeq(b, 1, n) = [i \in 1 .. n |-> b[i]]
  BY <1>1
<1>3. \A i \in 1 .. n : b[i] \in S
  BY <1>1
<1>4. b[n + 1] \in S
  BY <1>1
<1> HIDE DEF n
<1>5. [i \in 1 .. n |-> b[i]] \in Seq(S) /\ Len([i \in 1 .. n |-> b[i]]) = n
  BY <1>1, <1>3
<1>6. Front(b) = SubSeq(b, 1, n)
  BY DEF Front, n
<1>7. Last(b) = b[n + 1]
  BY <1>1 DEF Last
<1>8. \A i \in 1 .. n : [j \in 1 .. n |-> b[j]][i] = b[i]
  OBVIOUS
<1>9. n = Len(b) - 1
  BY DEF n
<1> QED BY <1>2, <1>4, <1>5, <1>6, <1>7, <1>8, <1>9

LEMMA OpenBlocksType ==
  ASSUME NEW S, NEW s \in Seq(S)
  PROVE  \A l \in 1 .. Len(s) + 1 : OpenBlocks(s)[l] \in Seq(Braces(s, l))
<1> DEFINE M == Len(s) + 1
           O == OpenBlocks(s)
           T == {l \in 0 .. M : l # 0 => O[l] \in Seq(Braces(s, l))}
<1>1. M \in Nat
  OBVIOUS
<1>2. 0 \in T
  <2> HIDE DEF M, O
  <2> QED BY <1>1
<1>3. ASSUME NEW n \in 0 .. M - 1, n \in T PROVE n + 1 \in T
  <2> DEFINE l == n + 1
  <2>1. l \in 1 .. M /\ l \in 0 .. M /\ l - 1 = n /\ n \in Nat
    BY <1>1
  <2>2. O[l] = BlocksFrom(s, O, l)
    <3>1. OpenBody(s, O)[l] = BlocksFrom(s, O, l)
      BY <2>1 DEF OpenBody
    <3> HIDE DEF l
    <3> QED BY <3>1, OpenBlocksExist DEF O
  <2> HIDE DEF O, l
  <2>3. CASE n = 0
    <3>1. O[l] = <<>>
      <4>1. l = 1
        BY <2>1, <2>3
      <4> QED BY <2>2, <4>1 DEF BlocksFrom
    <3>2. O[l] \in Seq(Braces(s, l))
      BY <3>1
    <3> QED BY <2>1, <3>2 DEF l
  <2>4. CASE n # 0
    <3>1. O[n] \in Seq(Braces(s, n)) /\ n \in 1 .. Len(s)
      BY <1>1, <1>3, <2>4
    <3>2. Braces(s, n) \subseteq Braces(s, l)
      <4>1. 1 .. n - 1 \subseteq 1 .. l - 1
        BY <2>1
      <4> QED BY <4>1 DEF Braces
    <3>3. O[n] \in Seq(Braces(s, l))
      BY <3>1, <3>2, SeqMonotonic
    <3>4. O[l] = CASE s[n] \in Opens -> Append(O[n], n)
                   [] s[n] = "}" /\ O[n] # <<>> -> Front(O[n])
                   [] OTHER -> O[n]
      <4>1. l # 1
        BY <2>1, <2>4
      <4> QED BY <2>1, <2>2, <4>1 DEF BlocksFrom
    <3>5. "}" \notin Opens
      BY DEF Opens
    <3>6. CASE s[n] \in Opens
      <4>1. O[l] = Append(O[n], n)
        BY <3>4, <3>5, <3>6
      <4>2. n \in Braces(s, l)
        <5>1. n \in 1 .. l - 1
          BY <2>1, <2>4
        <5>2. Line(s, n) = s[n]
          BY <3>1 DEF Line
        <5> QED BY <3>6, <5>1, <5>2 DEF Braces
      <4>3. O[l] \in Seq(Braces(s, l))
        BY <3>3, <4>1, <4>2
      <4> QED BY <2>1, <4>3 DEF l
    <3>7. CASE s[n] = "}" /\ O[n] # <<>>
      <4>1. O[l] = Front(O[n])
        BY <3>4, <3>5, <3>7
      <4>2. Front(O[n]) \in Seq(Braces(s, l))
        BY <3>3, <3>7, FrontType
      <4>3. O[l] \in Seq(Braces(s, l))
        BY <4>1, <4>2
      <4> QED BY <2>1, <4>3 DEF l
    <3>8. CASE s[n] \notin Opens /\ ~(s[n] = "}" /\ O[n] # <<>>)
      <4>1. O[l] = O[n]
        BY <3>4, <3>8
      <4>2. O[l] \in Seq(Braces(s, l))
        BY <3>3, <4>1
      <4> QED BY <2>1, <4>2 DEF l
    <3> QED BY <3>6, <3>7, <3>8
  <2> QED BY <2>3, <2>4
<1> HIDE DEF T, M, O
<1>4. \A l \in 0 .. M : l \in T
  BY <1>1, <1>2, <1>3, Induction
<1>5. \A l \in 1 .. M : l \in 0 .. M /\ l # 0
  BY <1>1
<1> QED BY <1>4, <1>5 DEF T, M, O

\* The braces match.
BracesOK(s) ==
  /\ \A l \in 1 .. Len(s) : s[l] = "}" => OpenBlocks(s)[l] # <<>>
  /\ OpenBlocks(s)[Len(s) + 1] = <<>>

\* From one line to the next.
Nested(s) ==
  /\ OB(s, 1) = <<>>
  /\ OB(s, LastLine(s)) = <<>>
  /\ \A l \in 1 .. LastLine(s) : OB(s, l) \in Seq(Braces(s, l))
  /\ \A l \in 1 .. LastLine(s) - 1 :
       /\ Line(s, l) \in Opens => OB(s, l + 1) = Append(OB(s, l), l)
       /\ Line(s, l) = "}" => OB(s, l) # <<>> /\ OB(s, l + 1) = Front(OB(s, l))
       /\ Line(s, l) \notin Opens \cup {"}"} => OB(s, l + 1) = OB(s, l)

LEMMA BlocksNested ==
  ASSUME NEW S, NEW s \in Seq(S), BracesOK(s)
  PROVE  Nested(s)
<1> DEFINE M == Len(s) + 1
           N == LastLine(s)
           O == OpenBlocks(s)
<1>1. M \in Nat /\ M >= 1 /\ N = M + 2 /\ Len(s) \in Nat
  BY DEF LastLine
<1>2. \A l \in 1 .. M : O[l] = BlocksFrom(s, O, l)
  <2>1. \A l \in 1 .. M : OpenBody(s, O)[l] = BlocksFrom(s, O, l)
    BY DEF OpenBody
  <2> QED BY <2>1, OpenBlocksExist
<1>3. \A l \in 1 .. Len(s) : s[l] = "}" => O[l] # <<>>
  BY DEF BracesOK
<1>4. O[M] = <<>>
  BY DEF BracesOK
<1>5. \A l \in 1 .. M : O[l] \in Seq(Braces(s, l))
  BY OpenBlocksType
<1>6. \A l : OB(s, l) = IF l \in 1 .. M THEN O[l] ELSE <<>>
  BY DEF OB
<1> HIDE DEF O
<1>7. OB(s, 1) = <<>>
  <2>1. 1 \in 1 .. M
    BY <1>1
  <2> QED BY <1>2, <1>6, <2>1 DEF BlocksFrom
<1>8. OB(s, N) = <<>>
  <2>1. N \notin 1 .. M
    BY <1>1
  <2> QED BY <1>6, <2>1
<1>9. \A l \in 1 .. N : OB(s, l) \in Seq(Braces(s, l))
  <2> HIDE DEF M, N
  <2>1. \A S1 : <<>> \in Seq(S1)
    OBVIOUS
  <2>2. ASSUME NEW l \in 1 .. N PROVE OB(s, l) \in Seq(Braces(s, l))
    <3>1. CASE l \in 1 .. M
      <4>1. OB(s, l) = O[l]
        BY <1>6, <3>1
      <4> QED BY <1>5, <3>1, <4>1
    <3>2. CASE l \notin 1 .. M
      <4>1. OB(s, l) = <<>>
        BY <1>6, <3>2
      <4> QED BY <2>1, <4>1
    <3> QED BY <3>1, <3>2
  <2> QED BY <2>2
<1>10. ASSUME NEW l \in 1 .. N - 1
       PROVE  /\ Line(s, l) \in Opens => OB(s, l + 1) = Append(OB(s, l), l)
              /\ Line(s, l) = "}" => OB(s, l) # <<>> /\ OB(s, l + 1) = Front(OB(s, l))
              /\ Line(s, l) \notin Opens \cup {"}"} => OB(s, l + 1) = OB(s, l)
  <2>0. "}" \notin Opens /\ "exit" \notin Opens
    BY DEF Opens
  <2>1. CASE l \in 1 .. Len(s)
    <3> DEFINE k == l + 1
    <3>1. k \in 1 .. M /\ k # 1 /\ k - 1 = l /\ l \in 1 .. M
      BY <1>1, <2>1
    <3>2. Line(s, l) = s[l] /\ OB(s, l) = O[l]
      BY <1>6, <2>1, <3>1 DEF Line
    <3> HIDE DEF k
    <3>3. OB(s, k) = CASE s[l] \in Opens -> Append(O[l], l)
                       [] s[l] = "}" /\ O[l] # <<>> -> Front(O[l])
                       [] OTHER -> O[l]
      <4>1. OB(s, k) = BlocksFrom(s, O, k)
        BY <1>2, <1>6, <3>1
      <4> QED BY <3>1, <4>1 DEF BlocksFrom
    <3>4. CASE s[l] \in Opens
      <4>1. OB(s, k) = Append(O[l], l)
        BY <2>0, <3>3, <3>4
      <4> QED BY <2>0, <3>2, <3>4, <4>1 DEF k
    <3>5. CASE s[l] = "}"
      <4>1. O[l] # <<>>
        BY <1>3, <2>1, <3>5
      <4>2. OB(s, k) = Front(O[l])
        BY <2>0, <3>3, <3>5, <4>1
      <4> QED BY <2>0, <3>2, <3>5, <4>1, <4>2 DEF k
    <3>6. CASE s[l] \notin Opens /\ s[l] # "}"
      <4>1. OB(s, k) = O[l]
        BY <3>3, <3>6
      <4> QED BY <3>2, <3>6, <4>1 DEF k
    <3> QED BY <3>4, <3>5, <3>6
  <2>2. CASE l \notin 1 .. Len(s)
    <3>1. Line(s, l) = "exit"
      BY <2>2 DEF Line
    <3>2. OB(s, l) = <<>>
      <4>1. l = M \/ l \notin 1 .. M
        BY <1>1, <2>2
      <4> HIDE DEF M
      <4> QED BY <1>4, <1>6, <4>1
    <3>3. OB(s, l + 1) = <<>>
      <4>1. l + 1 \notin 1 .. M
        BY <1>1, <2>2
      <4> QED BY <1>6, <4>1
    <3> QED BY <2>0, <3>1, <3>2, <3>3
  <2> QED BY <2>1, <2>2
<1> QED BY <1>7, <1>8, <1>9, <1>10 DEF Nested


-----------------------------------------------------------------------------
(* What PreparseIfElse finds out about the script.  P is the recursion as    *)
(* RelatedLines uses it.                                                    *)

OwnersAndElse == Owners \cup {"else"}
Stmt(P, l) == P[<<l, "one", TRUE>>]
RestOf(P, l, mode) == P[<<l, mode, TRUE>>]
Visited(P, l) == RestOf(P, l, "block") # 0 \/ RestOf(P, l, "all") # 0
BodyAt(s, x) == Line(s, x) \notin {"else", "}"}

\* The statement that begins at line l ends before line x.
EndsBefore(s, P, l, x) ==
  /\ Line(s, l) \in Owners =>
       /\ BodyAt(s, l + 1) /\ Stmt(P, l + 1) # 0
       /\ IF Line(s, Stmt(P, l + 1)) = "else" /\ Line(s, l) \notin LoopKinds
          THEN BodyAt(s, Stmt(P, l + 1) + 1) /\ x = Stmt(P, Stmt(P, l + 1) + 1)
          ELSE x = Stmt(P, l + 1)
  /\ Line(s, l) \in Opens => RestOf(P, l + 1, "block") # 0 /\ x = RestOf(P, l + 1, "block") + 1
  /\ Line(s, l) \notin {"}", "else"}
  /\ Simple(s, l) => x = l + 1

LEMMA OneStatement ==
  ASSUME NEW s, NEW p, NEW P, Unfolds(s, p, 0, TRUE, P),
         NEW l \in 1 .. LastLine(s) - 1, Stmt(P, l) # 0
  PROVE  EndsBefore(s, P, l, Stmt(P, l))
<1> DEFINE x == Stmt(P, l)
           e == Stmt(P, l + 1)
           d == Stmt(P, e + 1)
<1>1. StepIs(s, p, 0, TRUE, P, l, "one", TRUE, x)
  BY DEF Unfolds, ParseModes, Stmt
<1>2. \A y : Onward(P, "one", TRUE, y) = y
  BY DEF Onward
<1>3. x # 0
  OBVIOUS
<1> SUFFICES EndsBefore(s, P, l, x)
  OBVIOUS
<1>4. ASSUME Line(s, l) \in Owners
      PROVE  /\ BodyAt(s, l + 1) /\ e # 0
             /\ IF Line(s, e) = "else" /\ Line(s, l) \notin LoopKinds
                THEN BodyAt(s, e + 1) /\ x = d
                ELSE x = e
  <2> DEFINE b == BodyFrom(s, P, l + 1, TRUE \/ Line(s, l) \in LoopKinds)
             c == BodyFrom(s, P, b + 1, TRUE)
  <2> HIDE DEF x
  <2>1. x = IF b = 0 THEN 0
            ELSE IF Line(s, b) # "else" THEN b
            ELSE IF Line(s, l) \in LoopKinds THEN b
            ELSE c
    <3>1. x = OwnerStep(s, P, l, "one", TRUE)
      BY <1>1, <1>4 DEF StepIs
    <3>2. x = IF b = 0 THEN 0
               ELSE IF Line(s, b) # "else" THEN Onward(P, "one", TRUE, b)
               ELSE IF Line(s, l) \in LoopKinds THEN IF "one" = "one" THEN b ELSE 0
               ELSE Onward(P, "one", TRUE, c)
      BY <3>1 DEF OwnerStep
    <3> HIDE DEF b, c
    <3> QED BY <3>2 DEF Onward
  <2>2. (TRUE \/ Line(s, l) \in LoopKinds) = TRUE
    OBVIOUS
  <2>3. b = IF BodyAt(s, l + 1) THEN e ELSE 0
    BY <2>2 DEF BodyFrom, BodyAt, Stmt
  <2>4. c = IF BodyAt(s, b + 1) THEN Stmt(P, b + 1) ELSE 0
    BY DEF BodyFrom, BodyAt, Stmt
  <2> HIDE DEF b, c
  <2>5. b # 0
    BY <1>3, <2>1
  <2>6. BodyAt(s, l + 1) /\ b = e
    BY <2>3, <2>5
  <2> HIDE DEF e
  <2> QED BY <1>3, <2>1, <2>4, <2>5, <2>6
<1>5. ASSUME Line(s, l) \in Opens
      PROVE  RestOf(P, l + 1, "block") # 0 /\ x = RestOf(P, l + 1, "block") + 1
  <2> DEFINE b == RestOf(P, l + 1, "block")
  <2>1. x = BlockStep(P, l, "one", TRUE)
    <3> HIDE DEF x
    <3> QED BY <1>1, <1>5 DEF StepIs
  <2>2. x = IF b = 0 THEN 0 ELSE b + 1
    BY <1>2, <2>1 DEF BlockStep, RestOf
  <2> HIDE DEF x, b
  <2>3. b # 0 /\ x = b + 1
    BY <1>3, <2>2
  <2> QED BY <2>3 DEF b
<1>6. Line(s, l) \notin {"}", "else"}
  <2> HIDE DEF x
  <2> QED BY <1>1, <1>3 DEF StepIs
<1>7. Simple(s, l) => x = l + 1
  <2> HIDE DEF x
  <2> QED BY <1>1, <1>2 DEF StepIs, Stops, JumpOK
<1> HIDE DEF x
<1> QED BY <1>4, <1>5, <1>6, <1>7 DEF EndsBefore

\* In the other modes it goes on with the next statement.
LEMMA NextStatement ==
  ASSUME NEW s, NEW p, NEW P, Unfolds(s, p, 0, TRUE, P), NEW l \in 1 .. LastLine(s) - 1,
         NEW mode \in {"all", "block"}, RestOf(P, l, mode) # 0
  PROVE  \/ Line(s, l) = "}" /\ RestOf(P, l, mode) = l
         \/ /\ Stmt(P, l) # 0 /\ RestOf(P, l, mode) = RestOf(P, Stmt(P, l), mode)
            /\ Line(s, l) \in LoopKinds => Line(s, Stmt(P, l)) # "else"
            /\ Line(s, l) # "}"
<1> DEFINE r == RestOf(P, l, mode)
           x == Stmt(P, l)
           on(y) == IF y = 0 THEN 0 ELSE RestOf(P, y, mode)
<1>1. StepIs(s, p, 0, TRUE, P, l, mode, TRUE, r)
  BY DEF Unfolds, ParseModes, RestOf
<1>2. StepIs(s, p, 0, TRUE, P, l, "one", TRUE, x)
  BY DEF Unfolds, ParseModes, Stmt
<1>3. \A y : Onward(P, mode, TRUE, y) = on(y)
  BY DEF Onward, RestOf
<1>4. \A y : Onward(P, "one", TRUE, y) = y
  BY DEF Onward
<1>5. r # 0
  OBVIOUS
<1> SUFFICES \/ Line(s, l) = "}" /\ r = l
             \/ x # 0 /\ r = RestOf(P, x, mode) /\ (Line(s, l) \in LoopKinds => Line(s, x) # "else")
                /\ Line(s, l) # "}"
  OBVIOUS
<1> SUFFICES \/ Line(s, l) = "}" /\ r = l
             \/ r = on(x) /\ (Line(s, l) \in LoopKinds => Line(s, x) # "else") /\ Line(s, l) # "}"
  <2> HIDE DEF r, x
  <2> QED BY <1>5
<1> HIDE DEF r, x, on
<1>6. CASE Line(s, l) \in Owners
  <2> DEFINE b == BodyFrom(s, P, l + 1, TRUE \/ Line(s, l) \in LoopKinds)
             c == BodyFrom(s, P, b + 1, TRUE)
  <2>0. on(0) = 0
    BY DEF on
  <2>1. r = IF b = 0 THEN 0
            ELSE IF Line(s, b) # "else" THEN on(b)
            ELSE IF Line(s, l) \in LoopKinds THEN 0
            ELSE on(c)
    <3>1. r = OwnerStep(s, P, l, mode, TRUE)
      BY <1>1, <1>6 DEF StepIs
    <3>2. r = IF b = 0 THEN 0
               ELSE IF Line(s, b) # "else" THEN Onward(P, mode, TRUE, b)
               ELSE IF Line(s, l) \in LoopKinds THEN IF mode = "one" THEN b ELSE 0
               ELSE Onward(P, mode, TRUE, c)
      BY <3>1 DEF OwnerStep
    <3> HIDE DEF b, c
    <3> QED BY <3>2 DEF Onward, on, RestOf
  <2>2. x = IF b = 0 THEN 0
            ELSE IF Line(s, b) # "else" THEN b
            ELSE IF Line(s, l) \in LoopKinds THEN b
            ELSE c
    <3>1. x = OwnerStep(s, P, l, "one", TRUE)
      BY <1>2, <1>6 DEF StepIs
    <3>2. x = IF b = 0 THEN 0
               ELSE IF Line(s, b) # "else" THEN Onward(P, "one", TRUE, b)
               ELSE IF Line(s, l) \in LoopKinds THEN IF "one" = "one" THEN b ELSE 0
               ELSE Onward(P, "one", TRUE, c)
      BY <3>1 DEF OwnerStep
    <3> HIDE DEF b, c
    <3> QED BY <3>2 DEF Onward
  <2>3. Line(s, l) # "}"
    BY <1>6 DEF Owners, LoopKinds
  <2> HIDE DEF b, c
  <2> QED BY <1>5, <2>0, <2>1, <2>2, <2>3
<1>7. CASE Line(s, l) \in Opens
  <2> DEFINE b == RestOf(P, l + 1, "block")
  <2>1. r = IF b = 0 THEN 0 ELSE on(b + 1)
    <3>1. r = BlockStep(P, l, mode, TRUE)
      BY <1>1, <1>7 DEF StepIs
    <3> QED BY <1>3, <3>1 DEF BlockStep, RestOf
  <2>2. x = IF b = 0 THEN 0 ELSE b + 1
    <3>1. x = BlockStep(P, l, "one", TRUE)
      BY <1>2, <1>7 DEF StepIs
    <3> QED BY <1>4, <3>1 DEF BlockStep, RestOf
  <2>3. Line(s, l) # "}" /\ Line(s, l) \notin LoopKinds
    BY <1>7 DEF Opens, LoopKinds
  <2> HIDE DEF b
  <2> QED BY <1>5, <2>1, <2>2, <2>3
<1>8. CASE Line(s, l) = "}"
  BY <1>1, <1>8 DEF StepIs
<1>9. CASE Line(s, l) = "else"
  BY <1>1, <1>5, <1>9 DEF StepIs
<1>10. CASE Simple(s, l)
  <2>1. r = on(l + 1)
    BY <1>1, <1>3, <1>10 DEF StepIs, Stops, JumpOK
  <2>2. x = l + 1
    BY <1>2, <1>4, <1>10 DEF StepIs, Stops, JumpOK
  <2>3. Line(s, l) # "}" /\ Line(s, l) \notin LoopKinds
    BY <1>10 DEF Simple, Owners
  <2> QED BY <2>1, <2>2, <2>3
<1>11. \/ Line(s, l) \in Owners \/ Line(s, l) \in Opens \/ Line(s, l) = "}"
       \/ Line(s, l) = "else" \/ Simple(s, l)
  BY DEF Simple
<1> QED BY <1>6, <1>7, <1>8, <1>9, <1>10, <1>11


\* From line a to line b every IF, ELSE and loop has a body, and every line
\* that is not such a body, nor an ELSE, begins a statement.
Level(s, l) == Line(s, l - 1) \notin OwnersAndElse

Bodies(s, P, a, b) ==
  \A m \in a .. b : Line(s, m) \in OwnersAndElse => BodyAt(s, m + 1) /\ Stmt(P, m + 1) # 0

Starts(s, P, a, b) ==
  \A m \in a .. b : Level(s, m) /\ Line(s, m) # "else" => Visited(P, m)

OneGood(s, P, l, x) ==
  /\ x \in l + 1 .. LastLine(s) /\ OB(s, x) = OB(s, l) /\ Level(s, x)
  /\ Bodies(s, P, l, x - 1) /\ Starts(s, P, l + 1, x - 1)
OneOK(s, P, l) == Stmt(P, l) # 0 => OneGood(s, P, l, Stmt(P, l))

RestGood(s, P, l, mode, e) ==
  /\ e \in l .. LastLine(s) /\ OB(s, e) = OB(s, l)
  /\ mode = "block" => Line(s, e) = "}" /\ e <= Len(s)
  /\ mode = "all" => Line(s, e) = "}" \/ e = LastLine(s)
  /\ Bodies(s, P, l, e - 1) /\ Starts(s, P, l + 1, e) /\ Visited(P, l)
RestOK(s, P, l, mode) == RestOf(P, l, mode) # 0 => RestGood(s, P, l, mode, RestOf(P, l, mode))

LEMMA OneStep ==
  ASSUME NEW S, NEW s \in Seq(S), Nested(s), NEW p, NEW P, Unfolds(s, p, 0, TRUE, P),
         NEW l \in 1 .. LastLine(s) - 1,
         \A m \in l + 1 .. LastLine(s) : OneOK(s, P, m) /\ RestOK(s, P, m, "block")
  PROVE  OneOK(s, P, l)
<1> DEFINE x == Stmt(P, l)
           N == LastLine(s)
<1> SUFFICES ASSUME x # 0 PROVE OneGood(s, P, l, x)
  BY DEF OneOK
<1>1. Len(s) \in Nat /\ N \in Nat /\ N = Len(s) + 3 /\ l \in Nat /\ l + 1 \in l + 1 .. N /\ l + 1 \in 1 .. N
  BY LineKinds DEF LastLine
<1>2. EndsBefore(s, P, l, x)
  BY OneStatement
<1>3. /\ Line(s, l) \in Opens => OB(s, l + 1) = Append(OB(s, l), l)
      /\ Line(s, l) \notin Opens \cup {"}"} => OB(s, l + 1) = OB(s, l)
  BY DEF Nested
<1> HIDE DEF x, N
<1>4. CASE Line(s, l) \in Owners
  <2> DEFINE e == Stmt(P, l + 1)
             d == Stmt(P, e + 1)
  <2>1. /\ BodyAt(s, l + 1) /\ e # 0
        /\ IF Line(s, e) = "else" /\ Line(s, l) \notin LoopKinds
           THEN BodyAt(s, e + 1) /\ x = d
           ELSE x = e
    BY <1>2, <1>4 DEF EndsBefore
  <2>2. OneGood(s, P, l + 1, e)
    BY <1>1, <2>1 DEF OneOK, N
  <2>3. OB(s, l + 1) = OB(s, l)
    BY <1>3, <1>4 DEF Owners, LoopKinds, Opens
  <2>4. l \in l .. N /\ \A m : Line(s, m) \in Owners => Line(s, m) \in OwnersAndElse
    BY <1>1 DEF OwnersAndElse
  <2> HIDE DEF e
  <2>5. e \in l + 2 .. N /\ e \in Nat /\ (l + 1) + 1 = l + 2
    <3>1. e \in (l + 1) + 1 .. N
      BY <2>2 DEF OneGood, N
    <3> QED BY <1>1, <3>1
  <2>6. Bodies(s, P, l, e - 1)
    <3>1. Bodies(s, P, l + 1, e - 1)
      BY <2>2 DEF OneGood
    <3>2. \A m \in l .. e - 1 : m = l \/ m \in l + 1 .. e - 1
      BY <1>1, <2>5
    <3>3. BodyAt(s, l + 1) /\ Stmt(P, l + 1) # 0
      BY <2>1 DEF e
    <3> QED BY <3>1, <3>2, <3>3 DEF Bodies
  <2>7. Starts(s, P, l + 1, e - 1)
    <3>1. Starts(s, P, l + 2, e - 1)
      BY <2>2, <2>5 DEF OneGood
    <3>2. \A m \in l + 1 .. e - 1 : m = l + 1 \/ m \in l + 2 .. e - 1
      BY <1>1, <2>5
    <3>3. ~Level(s, l + 1)
      <4>1. (l + 1) - 1 = l
        BY <1>1
      <4> QED BY <1>4, <2>4, <4>1 DEF Level
    <3> QED BY <3>1, <3>2, <3>3 DEF Starts
  <2>8. CASE ~(Line(s, e) = "else" /\ Line(s, l) \notin LoopKinds)
    <3>1. x = e
      BY <2>1, <2>8
    <3>2. e \in l + 1 .. N
      BY <1>1, <2>5
    <3>3. OB(s, e) = OB(s, l) /\ Level(s, e)
      BY <2>2, <2>3 DEF OneGood
    <3> QED BY <2>6, <2>7, <3>1, <3>2, <3>3 DEF OneGood, N
  <2>9. CASE Line(s, e) = "else" /\ Line(s, l) \notin LoopKinds
    <3>1. BodyAt(s, e + 1) /\ x = d /\ d # 0
      BY <2>1, <2>9
    <3>2. e \in 1 .. Len(s)
      BY <2>5, <2>9, LineKinds
    <3>3. e + 1 \in l + 1 .. N /\ e \in 1 .. N - 1
      BY <1>1, <2>5, <3>2
    <3>4. OneGood(s, P, e + 1, d)
      BY <3>1, <3>3 DEF OneOK, N
    <3> HIDE DEF d
    <3>5. d \in e + 2 .. N /\ d \in Nat /\ (e + 1) + 1 = e + 2
      <4>1. d \in (e + 1) + 1 .. N
        BY <3>4 DEF OneGood, N
      <4> QED BY <2>5, <4>1
    <3>6. OB(s, e + 1) = OB(s, e)
      <4>1. Line(s, e) \notin Opens \cup {"}"}
        BY <2>9 DEF Opens
      <4> QED BY <3>3, <4>1 DEF Nested, N
    <3>7. OB(s, d) = OB(s, l) /\ Level(s, d)
      BY <2>2, <2>3, <3>4, <3>6 DEF OneGood
    <3>8. Bodies(s, P, l, d - 1)
      <4>1. Bodies(s, P, e + 1, d - 1)
        BY <3>4 DEF OneGood
      <4>2. \A m \in l .. d - 1 : m \in l .. e - 1 \/ m = e \/ m \in e + 1 .. d - 1
        BY <1>1, <2>5, <3>5
      <4>3. BodyAt(s, e + 1) /\ Stmt(P, e + 1) # 0
        BY <3>1 DEF d
      <4> QED BY <2>6, <4>1, <4>2, <4>3 DEF Bodies
    <3>9. Starts(s, P, l + 1, d - 1)
      <4>1. Starts(s, P, e + 2, d - 1)
        BY <3>4, <3>5 DEF OneGood
      <4>2. \A m \in l + 1 .. d - 1 : m \in l + 1 .. e - 1 \/ m = e \/ m = e + 1 \/ m \in e + 2 .. d - 1
        BY <1>1, <2>5, <3>5
      <4>3. ~Level(s, e + 1)
        <5>1. (e + 1) - 1 = e
          BY <2>5
        <5> QED BY <2>9, <5>1 DEF Level, OwnersAndElse
      <4> QED BY <2>7, <2>9, <4>1, <4>2, <4>3 DEF Starts
    <3>10. d \in l + 1 .. N
      BY <1>1, <2>5, <3>5
    <3> QED BY <3>1, <3>7, <3>8, <3>9, <3>10 DEF OneGood, N
  <2> QED BY <2>8, <2>9
<1>5. CASE Line(s, l) \in Opens
  <2> DEFINE e == RestOf(P, l + 1, "block")
  <2>1. e # 0 /\ x = e + 1
    BY <1>2, <1>5 DEF EndsBefore
  <2>2. RestGood(s, P, l + 1, "block", e)
    BY <1>1, <2>1 DEF RestOK, N
  <2> HIDE DEF e
  <2>3. e \in l + 1 .. N /\ e <= Len(s) /\ Line(s, e) = "}"
    BY <2>2 DEF RestGood, N
  <2>4. e \in Nat /\ e \in 1 .. N - 1 /\ x \in l + 1 .. N /\ x - 1 = e
    <3>1. e \in Nat /\ l + 1 <= e /\ e <= Len(s)
      <4>1. e \in l + 1 .. N /\ e <= Len(s)
        BY <2>3
      <4> QED BY <1>1, <4>1
    <3> QED BY <1>1, <2>1, <3>1
  <2>5. OB(s, x) = OB(s, l)
    <3>1. OB(s, x) = Front(OB(s, e))
      BY <2>1, <2>3, <2>4 DEF Nested, N
    <3>2. OB(s, e) = Append(OB(s, l), l)
      BY <1>3, <1>5, <2>2 DEF RestGood
    <3>3. OB(s, l) \in Seq(Nat)
      <4>1. OB(s, l) \in Seq(Braces(s, l)) /\ Braces(s, l) \subseteq Nat
        <5>1. l \in 1 .. LastLine(s)
          BY <1>1 DEF N
        <5>2. OB(s, l) \in Seq(Braces(s, l))
          BY <5>1 DEF Nested
        <5>3. Braces(s, l) \subseteq Nat
          BY DEF Braces
        <5> QED BY <5>2, <5>3
      <4> QED BY <4>1, SeqMonotonic
    <3> QED BY <1>1, <3>1, <3>2, <3>3, AppendFront
  <2>6. Level(s, x)
    BY <2>3, <2>4 DEF Level, OwnersAndElse, Owners, LoopKinds
  <2>7. Bodies(s, P, l, x - 1)
    <3>1. Bodies(s, P, l + 1, e - 1)
      BY <2>2 DEF RestGood
    <3>2. \A m \in l .. x - 1 : m = l \/ m = e \/ m \in l + 1 .. e - 1
      <4>0. e \in l + 1 .. N
        BY <2>3
      <4>1. e \in Nat /\ l + 1 <= e
        BY <1>1, <4>0
      <4> QED BY <1>1, <2>4, <4>1
    <3>3. Line(s, l) \notin OwnersAndElse /\ Line(s, e) \notin OwnersAndElse
      BY <1>5, <2>3 DEF OwnersAndElse, Owners, LoopKinds, Opens
    <3> QED BY <3>1, <3>2, <3>3 DEF Bodies
  <2>8. Starts(s, P, l + 1, x - 1)
    <3>1. Starts(s, P, (l + 1) + 1, e) /\ Visited(P, l + 1)
      BY <2>2 DEF RestGood
    <3>2. \A m \in l + 1 .. x - 1 : m = l + 1 \/ m \in (l + 1) + 1 .. e
      BY <1>1, <2>4
    <3> QED BY <3>1, <3>2 DEF Starts
  <2> QED BY <2>4, <2>5, <2>6, <2>7, <2>8 DEF OneGood, N
<1>6. CASE Simple(s, l)
  <2>0. x = l + 1
    BY <1>2, <1>6 DEF EndsBefore
  <2>1. x = l + 1 /\ x - 1 = l
    BY <1>1, <2>0
  <2>2. Line(s, l) \notin OwnersAndElse /\ Line(s, l) \notin Opens \cup {"}"}
    BY <1>6 DEF Simple, OwnersAndElse
  <2>3. Level(s, x) /\ OB(s, x) = OB(s, l)
    BY <1>3, <2>1, <2>2 DEF Level
  <2>4. Bodies(s, P, l, x - 1)
    <3>1. \A m \in l .. x - 1 : m = l
      BY <1>1, <2>1
    <3> QED BY <2>2, <3>1 DEF Bodies
  <2>5. Starts(s, P, l + 1, x - 1)
    <3>1. ~\E m : m \in l + 1 .. x - 1
      BY <1>1, <2>1
    <3> QED BY <3>1 DEF Starts
  <2> QED BY <1>1, <2>1, <2>3, <2>4, <2>5 DEF OneGood, N
<1>7. Line(s, l) \notin {"}", "else"}
  BY <1>2 DEF EndsBefore
<1> QED BY <1>4, <1>5, <1>6, <1>7 DEF Simple

LEMMA RestStep ==
  ASSUME NEW S, NEW s \in Seq(S), Nested(s), NEW p, NEW P, Unfolds(s, p, 0, TRUE, P),
         NEW l \in 1 .. LastLine(s) - 1, NEW mode \in {"all", "block"}, OneOK(s, P, l),
         \A m \in l + 1 .. LastLine(s) : RestOK(s, P, m, mode)
  PROVE  RestOK(s, P, l, mode)
<1> DEFINE r == RestOf(P, l, mode)
           x == Stmt(P, l)
           N == LastLine(s)
<1> SUFFICES ASSUME r # 0 PROVE RestGood(s, P, l, mode, r)
  BY DEF RestOK
<1>1. Len(s) \in Nat /\ N \in Nat /\ N = Len(s) + 3 /\ l \in Nat
  BY LineKinds DEF LastLine
<1>2. Visited(P, l)
  BY DEF Visited
<1>3. \/ Line(s, l) = "}" /\ r = l
      \/ x # 0 /\ r = RestOf(P, x, mode)
  BY NextStatement
<1>4. CASE Line(s, l) = "}" /\ r = l
  <2>1. l \in 1 .. Len(s)
    BY <1>1, <1>4, LineKinds
  <2>2. (~\E m : m \in l .. l - 1) /\ (~\E m : m \in l + 1 .. l) /\ l \in l .. N
    BY <1>1
  <2> HIDE DEF r, N
  <2>3. Bodies(s, P, l, r - 1) /\ Starts(s, P, l + 1, r)
    BY <1>4, <2>2 DEF Bodies, Starts
  <2>4. r = l /\ r \in l .. LastLine(s) /\ r <= Len(s)
    <3>1. r = l
      BY <1>4
    <3> QED BY <1>1, <2>1, <2>2, <3>1 DEF N
  <2> QED BY <1>2, <1>4, <2>3, <2>4 DEF RestGood
<1>5. CASE x # 0 /\ r = RestOf(P, x, mode)
  <2>1. OneGood(s, P, l, x)
    BY <1>5 DEF OneOK
  <2>2. x \in l + 1 .. N
    BY <2>1 DEF OneGood
  <2>3. RestGood(s, P, x, mode, r)
    <3>1. RestOK(s, P, x, mode)
      BY <2>2
    <3> QED BY <1>5, <3>1 DEF RestOK
  <2> HIDE DEF r, x, N
  <2>4. r \in x .. N /\ OB(s, r) = OB(s, l) /\ (mode = "block" => Line(s, r) = "}" /\ r <= Len(s))
        /\ (mode = "all" => Line(s, r) = "}" \/ r = LastLine(s))
    BY <2>1, <2>3 DEF OneGood, RestGood, N
  <2>a. x \in Nat /\ l + 1 <= x /\ x <= N
    BY <1>1, <2>2
  <2>b. r \in Nat /\ x <= r /\ r <= N
    <3>1. r \in x .. N
      BY <2>4
    <3> QED BY <1>1, <2>a, <3>1
  <2>5. r \in l .. N
    BY <1>1, <2>a, <2>b
  <2>6. Bodies(s, P, l, r - 1)
    <3>1. Bodies(s, P, l, x - 1) /\ Bodies(s, P, x, r - 1)
      BY <2>1, <2>3 DEF OneGood, RestGood
    <3>2. \A m \in l .. r - 1 : m \in l .. x - 1 \/ m \in x .. r - 1
      BY <1>1, <2>a, <2>b
    <3> QED BY <3>1, <3>2 DEF Bodies
  <2>7. Starts(s, P, l + 1, r)
    <3>1. Starts(s, P, l + 1, x - 1) /\ Starts(s, P, x + 1, r) /\ Visited(P, x)
      BY <2>1, <2>3 DEF OneGood, RestGood
    <3>2. \A m \in l + 1 .. r : m \in l + 1 .. x - 1 \/ m = x \/ m \in x + 1 .. r
      BY <1>1, <2>a, <2>b
    <3> QED BY <3>1, <3>2 DEF Starts
  <2> QED BY <1>2, <2>4, <2>5, <2>6, <2>7 DEF RestGood, N
<1> QED BY <1>3, <1>4, <1>5

LEMMA AllGood ==
  ASSUME NEW S, NEW s \in Seq(S), Nested(s), NEW p, NEW P, Unfolds(s, p, 0, TRUE, P)
  PROVE  \A l \in 1 .. LastLine(s) : OneOK(s, P, l) /\ RestOK(s, P, l, "block") /\ RestOK(s, P, l, "all")
<1> DEFINE N == LastLine(s)
           Good(l) == OneOK(s, P, l) /\ RestOK(s, P, l, "block") /\ RestOK(s, P, l, "all")
           T == {n \in 1 .. N : \A l \in n .. N : Good(l)}
<1>1. N \in Nat /\ N >= 3
  BY LineKinds DEF LastLine
<1>2. N \in T
  <2>1. P[<<N, "one", TRUE>>] = 0 /\ P[<<N, "block", TRUE>>] = 0 /\ P[<<N, "all", TRUE>>] = N
    BY DEF Unfolds, ParseModes
  <2>2. OneOK(s, P, N) /\ RestOK(s, P, N, "block")
    BY <2>1 DEF OneOK, RestOK, Stmt, RestOf
  <2>3. RestOK(s, P, N, "all")
    <3>1. (~\E m : m \in N .. N - 1) /\ (~\E m : m \in N + 1 .. N) /\ N \in N .. N /\ N # 0
      BY <1>1
    <3>2. Bodies(s, P, N, N - 1) /\ Starts(s, P, N + 1, N)
      BY <3>1 DEF Bodies, Starts
    <3>3. RestOf(P, N, "all") = N /\ Visited(P, N)
      BY <2>1, <3>1 DEF RestOf, Visited
    <3> QED BY <3>1, <3>2, <3>3 DEF RestOK, RestGood
  <2>4. (\A l \in N .. N : l = N) /\ N \in 1 .. N
    BY <1>1
  <2> HIDE DEF N
  <2> QED BY <2>2, <2>3, <2>4
<1>3. ASSUME NEW n \in 1 .. N - 1, n + 1 \in T PROVE n \in T
  <2>1. \A l \in n + 1 .. N : Good(l)
    BY <1>3
  <2>2. OneOK(s, P, n)
    BY <2>1, OneStep
  <2>3. RestOK(s, P, n, "block")
    BY <2>1, <2>2, RestStep
  <2>4. RestOK(s, P, n, "all")
    BY <2>1, <2>2, RestStep
  <2>5. (\A l \in n .. N : l = n \/ l \in n + 1 .. N) /\ n \in 1 .. N
    BY <1>1
  <2>6. \A l \in n .. N : Good(l)
    BY <2>1, <2>2, <2>3, <2>4, <2>5
  <2> HIDE DEF N, Good
  <2> QED BY <2>5, <2>6
<1>4. \A n \in 1 .. N : n \in T
  <2> HIDE DEF N, T
  <2>1. 1 \in 0 .. N /\ N \in Nat
    BY <1>1
  <2> QED BY <1>2, <1>3, <2>1, InductionDownTo
<1>5. 1 \in 1 .. N
  BY <1>1
<1> QED BY <1>4, <1>5

\* The script has been looked at as a whole.
Whole(s, P) == Bodies(s, P, 1, LastLine(s) - 1) /\ Starts(s, P, 1, LastLine(s))

\* A script with matching braces that is read at all is read as a whole.
LEMMA ReadAsWhole ==
  ASSUME NEW S, NEW s \in Seq(S), Nested(s), NEW p, NEW P, Unfolds(s, p, 0, TRUE, P),
         RestOf(P, 1, "all") # 0
  PROVE  Whole(s, P) /\ RestOf(P, 1, "all") = LastLine(s)
<1> DEFINE e == RestOf(P, 1, "all")
           N == LastLine(s)
<1>1. N \in Nat /\ N >= 3 /\ 1 \in 1 .. N
  BY LineKinds DEF LastLine
<1>5. RestGood(s, P, 1, "all", e)
  <2>1. RestOK(s, P, 1, "all")
    BY <1>1, AllGood
  <2> QED BY <2>1 DEF RestOK
<1> HIDE DEF e
<1>6. e = N
  <2>1. OB(s, e) = <<>> /\ e \in 1 .. N
    BY <1>5 DEF RestGood, Nested
  <2>2. Line(s, e) # "}" \/ e = N
    <3>1. e \in 1 .. N - 1 \/ e = N
      <4>1. e \in 1 .. N
        BY <2>1
      <4> QED BY <1>1, <4>1
    <3> QED BY <2>1, <3>1 DEF Nested
  <2> QED BY <1>5, <2>2 DEF RestGood
<1>7. Starts(s, P, 1, N)
  <2>1. Starts(s, P, 1 + 1, N) /\ Visited(P, 1)
    BY <1>5, <1>6 DEF RestGood
  <2>2. \A m \in 1 .. N : m = 1 \/ m \in 1 + 1 .. N
    BY <1>1
  <2> QED BY <2>1, <2>2 DEF Starts
<1>8. Bodies(s, P, 1, N - 1)
  BY <1>5, <1>6 DEF RestGood
<1> QED BY <1>6, <1>7, <1>8 DEF Whole, e

\* An accepted script has been.
LEMMA AcceptedWhole ==
  ASSUME NEW S, NEW s \in Seq(S), NEW lab, NEW dyn, Accepted(s, lab, dyn),
         NEW P, P = Preparsed(s, Parents(s), 0, TRUE)
  PROVE  Nested(s) /\ Unfolds(s, Parents(s), 0, TRUE, P) /\ Whole(s, P)
<1> DEFINE p == Parents(s)
           F == Preparsed(s, p, lab, dyn)
           e == RestOf(P, 1, "all")
           N == LastLine(s)
<1> HIDE DEF p, F
<1>1. N \in Nat /\ N >= 3 /\ 1 \in 1 .. N
  BY LineKinds DEF LastLine
<1>2. Nested(s)
  BY BlocksNested DEF Accepted, BlocksOK, BracesOK
<1>3. Unfolds(s, p, 0, TRUE, P)
  BY PreparsedUnfolds DEF p
<1>4. e # 0
  <2>1. F[<<1, "all", FALSE>>] # 0
    BY DEF Accepted, F, p
  <2>2. Agrees(s, F, P, 1)
    BY PreparsedAgrees DEF F, p
  <2>3. AgreesAt(F, P, 1)
    BY <1>1, <2>2 DEF Agrees
  <2>4. P[<<1, "all", TRUE>>] = F[<<1, "all", FALSE>>]
    BY <2>1, <2>3 DEF AgreesAt, ParseModes
  <2> QED BY <2>1, <2>4 DEF RestOf
<1>5. Whole(s, P)
  BY <1>2, <1>3, <1>4, ReadAsWhole DEF p, e
<1> QED BY <1>2, <1>3, <1>5 DEF p


-----------------------------------------------------------------------------
(* What the links of an accepted script are like.                          *)

\* A line where a statement begins that is not the body of another.
Start(s, l) == Level(s, l) /\ Line(s, l) # "else"

NotIn(x, b) == \A i \in 1 .. Len(b) : b[i] # x

CloseOf(s, l, c) == c \in l + 1 .. Len(s) /\ Line(s, c) = "}" /\ OB(s, c) = Append(OB(s, l), l)

\* A block that is closed is not opened again.
LEMMA NotReopened ==
  ASSUME NEW S, NEW s \in Seq(S), Nested(s), NEW l \in 1 .. Len(s), NEW a, CloseOf(s, l, a)
  PROVE  \A m \in a + 1 .. LastLine(s) : NotIn(l, OB(s, m))
<1> DEFINE N == LastLine(s)
           T == {m \in 0 .. N : a + 1 <= m => NotIn(l, OB(s, m))}
<1>1. N \in Nat /\ l \in Nat /\ a \in Nat /\ l < a /\ a < N /\ l \in 1 .. N
  <2>1. a \in l + 1 .. Len(s)
    BY DEF CloseOf
  <2> QED BY <2>1, LineKinds DEF LastLine
<1>0. Line(s, a) = "}" /\ OB(s, a) = Append(OB(s, l), l)
  BY DEF CloseOf
<1>2. 0 \in T
  <2> HIDE DEF N
  <2> QED BY <1>1
<1>3. ASSUME NEW m \in 0 .. N - 1, m \in T PROVE m + 1 \in T
  <2> DEFINE k == m + 1
  <2>1. k \in 0 .. N /\ m \in Nat
    BY <1>1
  <2> SUFFICES ASSUME a + 1 <= k PROVE NotIn(l, OB(s, k))
    BY <2>1
  <2>2. CASE k = a + 1
    <3>1. OB(s, l) \in Seq(Braces(s, l))
      BY <1>1 DEF Nested
    <3>2. OB(s, l) \in Seq(Nat)
      <4>1. Braces(s, l) \subseteq Nat
        BY DEF Braces
      <4> QED BY <3>1, <4>1, SeqMonotonic
    <3>3. OB(s, a + 1) = Front(OB(s, a))
      <4>1. a \in 1 .. LastLine(s) - 1
        BY <1>1
      <4> QED BY <1>0, <4>1 DEF Nested
    <3>4. OB(s, a + 1) = OB(s, l)
      BY <1>0, <1>1, <3>2, <3>3, AppendFront
    <3>5. \A i \in 1 .. Len(OB(s, l)) : OB(s, l)[i] \in 1 .. l - 1
      BY <3>1 DEF Braces
    <3>6. \A i \in 1 .. Len(OB(s, l)) : OB(s, l)[i] # l
      BY <1>1, <3>5
    <3> QED BY <2>2, <3>4, <3>6 DEF NotIn
  <2>3. CASE k # a + 1
    <3>1. a + 1 <= m /\ m \in 1 .. N - 1 /\ m # l /\ m \in 1 .. N
      BY <1>1, <2>1, <2>3
    <3> DEFINE b == OB(s, m)
    <3>2. NotIn(l, b)
      BY <1>3, <3>1
    <3>3. b \in Seq(Braces(s, m))
      BY <3>1 DEF Nested
    <3>4. \/ OB(s, k) = Append(b, m)
          \/ b # <<>> /\ OB(s, k) = Front(b)
          \/ OB(s, k) = b
      BY <3>1 DEF Nested
    <3> HIDE DEF b, k
    <3>5. CASE OB(s, k) = Append(b, m)
      <4>1. Len(Append(b, m)) = Len(b) + 1
            /\ \A i \in 1 .. Len(b) + 1 : Append(b, m)[i] = IF i = Len(b) + 1 THEN m ELSE b[i]
        BY <3>3
      <4>2. \A i \in 1 .. Len(b) + 1 : i = Len(b) + 1 \/ i \in 1 .. Len(b)
        BY <3>3
      <4>3. NotIn(l, Append(b, m))
        BY <3>1, <3>2, <4>1, <4>2 DEF NotIn
      <4> QED BY <3>5, <4>3
    <3>6. CASE b # <<>> /\ OB(s, k) = Front(b)
      <4>1. Len(Front(b)) = Len(b) - 1 /\ \A i \in 1 .. Len(b) - 1 : Front(b)[i] = b[i]
        BY <3>3, <3>6, FrontType
      <4>2. \A i \in 1 .. Len(b) - 1 : i \in 1 .. Len(b)
        BY <3>3
      <4>3. NotIn(l, Front(b))
        BY <3>2, <4>1, <4>2 DEF NotIn
      <4> QED BY <3>6, <4>3
    <3> QED BY <3>2, <3>4, <3>5, <3>6
  <2> QED BY <2>2, <2>3
<1> HIDE DEF T, N
<1>4. \A m \in 0 .. N : m \in T
  BY <1>1, <1>2, <1>3, Induction
<1>5. ASSUME NEW m \in a + 1 .. N PROVE NotIn(l, OB(s, m))
  <2>1. m \in 0 .. N /\ a + 1 <= m
    BY <1>1
  <2> QED BY <1>4, <2>1 DEF T
<1> QED BY <1>5 DEF N

LEMMA OneClose ==
  ASSUME NEW S, NEW s \in Seq(S), Nested(s), NEW l \in 1 .. Len(s),
         NEW a, CloseOf(s, l, a), NEW b, CloseOf(s, l, b)
  PROVE  a = b
<1> DEFINE N == LastLine(s)
<1>1. Len(s) \in Nat /\ N = Len(s) + 3 /\ N \in Nat /\ l \in 1 .. N - 1 /\ l \in Nat
  BY LineKinds DEF LastLine
<1>2. ASSUME NEW x, CloseOf(s, l, x), NEW y, CloseOf(s, l, y), x < y PROVE FALSE
  <2>1. x \in l + 1 .. Len(s) /\ y \in l + 1 .. Len(s)
    BY <1>2 DEF CloseOf
  <2>2. x \in Nat /\ y \in Nat /\ x \in l + 1 .. N - 1 /\ y \in x + 1 .. N
    BY <1>1, <1>2, <2>1
  <2>3. Line(s, x) = "}" /\ OB(s, x) = Append(OB(s, l), l) /\ OB(s, y) = Append(OB(s, l), l)
    BY <1>2 DEF CloseOf
  <2>4. \A m \in x + 1 .. N : NotIn(l, OB(s, m))
    BY <1>2, NotReopened
  <2>5. NotIn(l, Append(OB(s, l), l))
    BY <2>2, <2>3, <2>4
  <2>6. OB(s, l) \in Seq(Nat)
    <3>1. OB(s, l) \in Seq(Braces(s, l))
      <4>1. l \in 1 .. LastLine(s)
        BY <1>1
      <4> QED BY <4>1 DEF Nested
    <3>2. Braces(s, l) \subseteq Nat
      BY DEF Braces
    <3> QED BY <3>1, <3>2, SeqMonotonic
  <2> DEFINE o == OB(s, l)
  <2> HIDE DEF o
  <2>7. Len(Append(o, l)) = Len(o) + 1 /\ Append(o, l)[Len(o) + 1] = l /\ Len(o) + 1 \in 1 .. Len(o) + 1
    BY <2>6 DEF o
  <2> QED BY <2>5, <2>7 DEF NotIn, o
<1>3. a \in Nat /\ b \in Nat
  <2>1. a \in l + 1 .. Len(s) /\ b \in l + 1 .. Len(s)
    BY DEF CloseOf
  <2> QED BY <1>1, <2>1
<1>4. a < b \/ b < a \/ a = b
  BY <1>3
<1> QED BY <1>2, <1>4

\* A statement begins at every line but those that only end one.
LEMMA EveryStatement ==
  ASSUME NEW S, NEW s \in Seq(S), NEW p, NEW P, Unfolds(s, p, 0, TRUE, P), Nested(s), Whole(s, P),
         NEW l \in 1 .. LastLine(s) - 1, BodyAt(s, l)
  PROVE  /\ Stmt(P, l) # 0 /\ OneGood(s, P, l, Stmt(P, l))
         /\ EndsBefore(s, P, l, Stmt(P, l))
<1> DEFINE N == LastLine(s)
<1>1. N \in Nat /\ l \in Nat /\ l \in 1 .. N /\ Line(s, 0) = "exit"
  BY LineKinds DEF LastLine, Line
<1>2. Stmt(P, l) # 0
  <2>1. CASE Level(s, l)
    <3>1. Visited(P, l)
      BY <1>1, <2>1 DEF Whole, Starts, BodyAt
    <3>2. PICK mode \in {"all", "block"} : RestOf(P, l, mode) # 0
      BY <3>1 DEF Visited
    <3> QED BY <3>2, NextStatement DEF BodyAt
  <2>2. CASE ~Level(s, l)
    <3>1. Line(s, l - 1) \in OwnersAndElse
      BY <2>2 DEF Level
    <3>2. l # 1
      BY <1>1, <3>1 DEF OwnersAndElse, Owners, LoopKinds
    <3>3. l - 1 \in 1 .. N - 1 /\ (l - 1) + 1 = l
      BY <1>1, <3>2
    <3> QED BY <3>1, <3>3 DEF Whole, Bodies
  <2> QED BY <2>1, <2>2
<1>3. OneGood(s, P, l, Stmt(P, l))
  <2>1. OneOK(s, P, l)
    BY <1>1, AllGood
  <2> QED BY <1>2, <2>1 DEF OneOK
<1>4. EndsBefore(s, P, l, Stmt(P, l))
  BY <1>2, OneStatement
<1> QED BY <1>2, <1>3, <1>4


LEMMA ParentsLevel ==
  ASSUME NEW S, NEW s \in Seq(S), Nested(s), NEW p, p = Parents(s)
  PROVE  /\ p \in [Lines(s) -> 0 .. LastLine(s)]
         /\ \A l \in Lines(s) :
              /\ p[l] \in 0 .. l - 1
              /\ Level(s, l) => p[l] = TopOf(OB(s, l)) /\ Line(s, p[l]) \notin OwnersAndElse
              /\ ~Level(s, l) => p[l] = l - 1
<1> DEFINE N == LastLine(s)
<1>1. Len(s) \in Nat /\ N = Len(s) + 3 /\ N \in Nat /\ Line(s, 0) = "exit"
  BY LineKinds DEF LastLine, Line
<1>2. "exit" \notin OwnersAndElse
  BY DEF OwnersAndElse, Owners, LoopKinds
<1>3. ASSUME NEW l \in Lines(s)
      PROVE  /\ p[l] \in 0 .. l - 1
             /\ Level(s, l) => p[l] = TopOf(OB(s, l)) /\ Line(s, p[l]) \notin OwnersAndElse
             /\ ~Level(s, l) => p[l] = l - 1
  <2>1. l \in 1 .. N /\ l \in Nat
    BY <1>1 DEF Lines
  <2>2. p[l] = IF l > Len(s) + 1 THEN 0
               ELSE IF l > 1 /\ Line(s, l - 1) \in OwnersAndElse THEN l - 1
               ELSE IF OpenBlocks(s)[l] = <<>> THEN 0
               ELSE Last(OpenBlocks(s)[l])
    BY DEF Parents, OwnersAndElse
  <2>3. CASE l > Len(s) + 1
    <3>1. p[l] = 0
      BY <2>2, <2>3
    <3>2. l \notin 1 .. Len(s) + 1 /\ l - 1 \notin 1 .. Len(s) /\ l - 1 \in Nat
      BY <1>1, <2>1, <2>3
    <3>3. OB(s, l) = <<>> /\ Line(s, l - 1) = "exit"
      BY <3>2 DEF OB, Line
    <3>4. Level(s, l)
      BY <1>2, <3>3 DEF Level
    <3>5. 0 \in 0 .. l - 1
      BY <2>1
    <3> QED BY <1>1, <1>2, <3>1, <3>3, <3>4, <3>5 DEF TopOf
  <2>4. CASE ~(l > Len(s) + 1) /\ l > 1 /\ Line(s, l - 1) \in OwnersAndElse
    <3>1. p[l] = l - 1
      BY <2>2, <2>4
    <3>2. l - 1 \in 0 .. l - 1
      BY <2>1
    <3> QED BY <2>4, <3>1, <3>2 DEF Level
  <2>5. CASE ~(l > Len(s) + 1) /\ ~(l > 1 /\ Line(s, l - 1) \in OwnersAndElse)
    <3>1. l \in 1 .. Len(s) + 1
      BY <1>1, <2>1, <2>5
    <3>2. OB(s, l) = OpenBlocks(s)[l]
      BY <3>1 DEF OB
    <3>3. p[l] = TopOf(OB(s, l))
      BY <2>2, <2>5, <3>2 DEF TopOf
    <3>4. Level(s, l)
      <4>1. l = 1 \/ l > 1
        BY <2>1
      <4>2. l = 1 => Line(s, l - 1) = Line(s, 0)
        OBVIOUS
      <4> QED BY <1>1, <1>2, <2>5, <4>1, <4>2 DEF Level
    <3>5. OB(s, l) \in Seq(Braces(s, l))
      BY <2>1 DEF Nested
    <3>6. CASE OB(s, l) = <<>>
      <4>1. p[l] = 0 /\ 0 \in 0 .. l - 1
        BY <2>1, <3>3, <3>6 DEF TopOf
      <4> QED BY <1>1, <1>2, <3>3, <3>4, <4>1
    <3>7. CASE OB(s, l) # <<>>
      <4>1. p[l] \in Braces(s, l)
        BY <3>3, <3>5, <3>7, FrontType DEF TopOf
      <4>2. p[l] \in 1 .. l - 1 /\ Line(s, p[l]) \in Opens
        BY <4>1 DEF Braces
      <4>3. Line(s, p[l]) \notin OwnersAndElse
        BY <4>2 DEF Opens, OwnersAndElse, Owners, LoopKinds
      <4>4. p[l] \in 0 .. l - 1
        <5>1. p[l] \in 1 .. l - 1
          BY <4>2
        <5> QED BY <2>1, <5>1
      <4> QED BY <3>3, <3>4, <4>3, <4>4
    <3> QED BY <3>6, <3>7
  <2> QED BY <2>3, <2>4, <2>5
<1>4. p = [l \in Lines(s) |-> p[l]]
  BY DEF Parents
<1>5. \A l \in Lines(s) : p[l] \in 0 .. N
  <2> SUFFICES ASSUME NEW l \in Lines(s) PROVE p[l] \in 0 .. N
    OBVIOUS
  <2>1. l \in 1 .. N /\ p[l] \in 0 .. l - 1
    BY <1>3 DEF Lines
  <2> QED BY <1>1, <2>1
<1> QED BY <1>3, <1>4, <1>5

\* Blocks: the first line in them, and the one that follows them.
LinksOfBlocks(s, par, rel) ==
  \A l \in Lines(s) : Line(s, l) \in Opens =>
    /\ l + 1 \in Lines(s) /\ Start(s, l + 1) /\ par[l + 1] = l
    /\ rel[l] \in Lines(s)

\* IFs, ELSEs and loops: their body, and what follows it.
LinksOfOwners(s, par, rel) ==
  \A l \in Lines(s) : Line(s, l) \in OwnersAndElse =>
    /\ l + 1 \in Lines(s) /\ BodyAt(s, l + 1) /\ par[l + 1] = l
    /\ rel[l] \in Lines(s) /\ Level(s, rel[l])
    /\ Level(s, l) => par[rel[l]] = par[l]

\* Where control goes when the statement at line l is over.
GoesOn(s, par, l, x) == x \in Lines(s) /\ Start(s, x) /\ par[x] = par[l]
LinksOfStarts(s, par, rel) ==
  \A l \in Lines(s) : Start(s, l) =>
    /\ Simple(s, l) => GoesOn(s, par, l, l + 1)
    /\ Line(s, l) \in Opens \cup LoopKinds => GoesOn(s, par, l, rel[l])
    /\ Line(s, l) = "if" =>
         IF Line(s, rel[l]) = "else" THEN GoesOn(s, par, l, rel[rel[l]]) ELSE GoesOn(s, par, l, rel[l])

LinksOfParents(s, par) ==
  \A l \in Lines(s) :
    /\ par[l] \in 0 .. l - 1
    /\ Level(s, l) => Line(s, par[l]) \notin OwnersAndElse
    /\ ~Level(s, l) => par[l] = l - 1

\* The blocks that are open where control goes when a statement is over.
LinksOfOpenBlocks(s, rel) ==
  \A l \in Lines(s) :
    /\ Simple(s, l) => OB(s, l + 1) = OB(s, l)
    /\ Line(s, l) \in OwnersAndElse \cup Opens => OB(s, rel[l]) = OB(s, l)
    /\ Line(s, l) = "}" => OB(s, l) # <<>>

Links(s, par, rel) ==
  /\ LinksOfOpenBlocks(s, rel)
  /\ par \in [Lines(s) -> 0 .. LastLine(s)] /\ rel \in [Lines(s) -> 0 .. LastLine(s)]
  /\ LinksOfParents(s, par)
  /\ LinksOfBlocks(s, par, rel) /\ LinksOfOwners(s, par, rel) /\ LinksOfStarts(s, par, rel)
  /\ 1 \in Lines(s) /\ Start(s, 1)

\* mRelatedLine is what PreparseIfElse returned.
LEMMA RelatedIs ==
  ASSUME NEW S, NEW s \in Seq(S), NEW p, NEW P, P = Preparsed(s, Parents(s), 0, TRUE),
         Unfolds(s, p, 0, TRUE, P), Nested(s), Whole(s, P), NEW l \in Lines(s)
  PROVE  /\ Line(s, l) \in OwnersAndElse => RelatedLines(s)[l] = Stmt(P, l + 1)
         /\ Line(s, l) \in Opens => RelatedLines(s)[l] = Stmt(P, l)
         /\ Line(s, l) \notin OwnersAndElse \cup Opens => RelatedLines(s)[l] = 0
<1> DEFINE N == LastLine(s)
           r == RelatedLines(s)[l]
           Close == CHOOSE c \in l + 1 .. Len(s) :
                      s[c] = "}" /\ OpenBlocks(s)[c] = Append(OpenBlocks(s)[l], l)
<1>1. Len(s) \in Nat /\ N = Len(s) + 3 /\ N \in Nat /\ l \in 1 .. N /\ l \in Nat
  BY LineKinds DEF LastLine, Lines
<1>2. r = IF Line(s, l) \in OwnersAndElse THEN Stmt(P, l + 1)
          ELSE IF Line(s, l) \in Opens THEN Close + 1
          ELSE 0
  BY DEF RelatedLines, Stmt, OwnersAndElse
<1>3. Opens \cap OwnersAndElse = {}
  BY DEF Opens, OwnersAndElse, Owners, LoopKinds
<1>4. ASSUME Line(s, l) \in Opens PROVE Close + 1 = Stmt(P, l)
  <2>1. l \in 1 .. Len(s)
    <3>1. Line(s, l) # "exit"
      BY <1>4 DEF Opens
    <3> QED BY <1>1, <3>1, LineKinds
  <2>2. l \in 1 .. N - 1 /\ l + 1 \in 1 .. N
    BY <1>1, <2>1
  <2>3. BodyAt(s, l)
    BY <1>4 DEF BodyAt, Opens
  <2> DEFINE e == RestOf(P, l + 1, "block")
  <2>4. e # 0 /\ Stmt(P, l) = e + 1
    <3>1. EndsBefore(s, P, l, Stmt(P, l))
      BY <2>2, <2>3, EveryStatement
    <3> QED BY <1>4, <3>1 DEF EndsBefore
  <2>5. RestGood(s, P, l + 1, "block", e)
    <3>1. RestOK(s, P, l + 1, "block")
      BY <2>2, AllGood
    <3> QED BY <2>4, <3>1 DEF RestOK
  <2> HIDE DEF e
  <2>6. CloseOf(s, l, e)
    <3>1. e \in l + 1 .. N /\ e <= Len(s) /\ Line(s, e) = "}" /\ OB(s, e) = OB(s, l + 1)
      BY <2>5 DEF RestGood
    <3>2. e \in l + 1 .. Len(s)
      <4>1. e \in l + 1 .. N /\ e <= Len(s)
        BY <3>1
      <4> QED BY <1>1, <4>1
    <3>3. OB(s, l + 1) = Append(OB(s, l), l)
      BY <1>4, <2>2 DEF Nested
    <3> QED BY <3>1, <3>2, <3>3 DEF CloseOf
  <2>7. \A c \in l + 1 .. Len(s) :
          (s[c] = "}" /\ OpenBlocks(s)[c] = Append(OpenBlocks(s)[l], l)) <=> CloseOf(s, l, c)
    <3>1. \A c \in l + 1 .. Len(s) : c \in 1 .. Len(s) /\ c \in 1 .. Len(s) + 1
      BY <1>1
    <3>2. l \in 1 .. Len(s) + 1
      BY <1>1, <2>1
    <3> QED BY <3>1, <3>2 DEF CloseOf, Line, OB
  <2>8. e \in l + 1 .. Len(s)
    BY <2>6 DEF CloseOf
  <2>9. Close \in l + 1 .. Len(s) /\ CloseOf(s, l, Close)
    <3> DEFINE Q(c) == s[c] = "}" /\ OpenBlocks(s)[c] = Append(OpenBlocks(s)[l], l)
    <3>1. Q(e)
      BY <2>6, <2>7, <2>8
    <3>2. \A c \in l + 1 .. Len(s) : Q(c) <=> CloseOf(s, l, c)
      BY <2>7
    <3>3. Close = CHOOSE c \in l + 1 .. Len(s) : Q(c)
      OBVIOUS
    <3> HIDE DEF Q, Close
    <3>4. Close \in l + 1 .. Len(s) /\ Q(Close)
      BY <2>8, <3>1, <3>3
    <3> QED BY <3>2, <3>4
  <2> HIDE DEF Close
  <2>10. Close = e
    BY <2>1, <2>6, <2>9, OneClose
  <2> QED BY <2>4, <2>10
<1> HIDE DEF r, Close
<1> QED BY <1>2, <1>3, <1>4 DEF r


LEMMA LoadLinks ==
  ASSUME NEW S, NEW s \in Seq(S), NEW lab, NEW dyn, Accepted(s, lab, dyn)
  PROVE  Links(s, Parents(s), RelatedLines(s))
<1> DEFINE p == Parents(s)
           rel == RelatedLines(s)
           P == Preparsed(s, p, 0, TRUE)
           N == LastLine(s)
<1>1. Nested(s) /\ Unfolds(s, p, 0, TRUE, P) /\ Whole(s, P) /\ Ranges(s, P, 0)
  BY AcceptedWhole, PreparsedUnfolds
<1>2. /\ p \in [Lines(s) -> 0 .. N]
      /\ \A l \in Lines(s) :
           /\ p[l] \in 0 .. l - 1
           /\ Level(s, l) => p[l] = TopOf(OB(s, l)) /\ Line(s, p[l]) \notin OwnersAndElse
           /\ ~Level(s, l) => p[l] = l - 1
  BY <1>1, ParentsLevel
<1>3. \A l \in Lines(s) :
        /\ Line(s, l) \in OwnersAndElse => rel[l] = Stmt(P, l + 1)
        /\ Line(s, l) \in Opens => rel[l] = Stmt(P, l)
        /\ Line(s, l) \notin OwnersAndElse \cup Opens => rel[l] = 0
  BY <1>1, RelatedIs
<1>a. DOMAIN rel = Lines(s)
  BY DEF RelatedLines
<1>b. rel = [l \in Lines(s) |-> rel[l]]
  BY DEF RelatedLines
<1> HIDE DEF rel, p, P
<1>4. Len(s) \in Nat /\ N = Len(s) + 3 /\ N \in Nat /\ Lines(s) = 1 .. N
  BY LineKinds DEF LastLine, Lines
<1>5. ASSUME NEW l \in Lines(s), Line(s, l) # "exit"
      PROVE  l \in 1 .. Len(s) /\ l \in 1 .. N - 1 /\ l + 1 \in Lines(s) /\ (l + 1) - 1 = l /\ l \in Nat
  <2>1. l \in Nat
    BY <1>4
  <2>2. l \in 1 .. Len(s)
    BY <1>5, <2>1, LineKinds
  <2> QED BY <1>4, <2>2
<1>6. ASSUME NEW l \in Lines(s), NEW x \in Lines(s), OB(s, x) = OB(s, l), Level(s, x), Level(s, l)
      PROVE  p[x] = p[l]
  BY <1>2, <1>6
<1>7. ASSUME NEW l \in Lines(s), Line(s, l) \in OwnersAndElse
      PROVE  /\ l + 1 \in Lines(s) /\ BodyAt(s, l + 1) /\ p[l + 1] = l
             /\ rel[l] \in Lines(s) /\ Level(s, rel[l]) /\ OB(s, rel[l]) = OB(s, l)
  <2>0. Line(s, l) # "exit" /\ Line(s, l) \notin Opens \cup {"}"}
    BY <1>7 DEF OwnersAndElse, Owners, LoopKinds, Opens
  <2>1. l \in 1 .. N - 1 /\ l + 1 \in Lines(s) /\ (l + 1) - 1 = l /\ l + 1 \in 1 .. N
    BY <1>4, <1>5, <2>0
  <2>2. BodyAt(s, l + 1) /\ Stmt(P, l + 1) # 0
    BY <1>1, <1>7, <2>1 DEF Whole, Bodies
  <2>3. ~Level(s, l + 1)
    BY <1>7, <2>1 DEF Level
  <2>4. p[l + 1] = l
    BY <1>2, <2>1, <2>3
  <2>5. OneGood(s, P, l + 1, Stmt(P, l + 1))
    <3>1. OneOK(s, P, l + 1)
      BY <1>1, <2>1, AllGood
    <3> QED BY <2>2, <3>1 DEF OneOK
  <2>6. rel[l] = Stmt(P, l + 1)
    BY <1>3, <1>7
  <2>7. rel[l] \in (l + 1) + 1 .. N /\ Level(s, rel[l]) /\ OB(s, rel[l]) = OB(s, l + 1)
    BY <2>5, <2>6 DEF OneGood
  <2>8. OB(s, l + 1) = OB(s, l)
    BY <1>1, <2>0, <2>1 DEF Nested
  <2>9. rel[l] \in Lines(s)
    <3>1. rel[l] \in (l + 1) + 1 .. N
      BY <2>7
    <3> QED BY <1>4, <2>1, <3>1
  <2> QED BY <2>1, <2>2, <2>4, <2>7, <2>8, <2>9
<1>8. ASSUME NEW l \in Lines(s), BodyAt(s, l), l \in 1 .. N - 1
      PROVE  /\ Stmt(P, l) \in Lines(s) /\ Level(s, Stmt(P, l)) /\ OB(s, Stmt(P, l)) = OB(s, l)
             /\ EndsBefore(s, P, l, Stmt(P, l))
  <2>1. OneGood(s, P, l, Stmt(P, l)) /\ EndsBefore(s, P, l, Stmt(P, l))
    BY <1>1, <1>8, EveryStatement
  <2>2. Stmt(P, l) \in l + 1 .. N
    BY <2>1 DEF OneGood
  <2>3. l \in Nat
    BY <1>4
  <2>4. Stmt(P, l) \in Lines(s)
    BY <1>4, <2>2, <2>3
  <2> QED BY <2>1, <2>4 DEF OneGood
<1>9. ASSUME NEW l \in Lines(s), Visited(P, l) PROVE Line(s, l) # "else"
  <2>1. l = N \/ l \in 1 .. N - 1
    BY <1>4
  <2>2. CASE l = N
    BY <2>2, <1>4, LineKinds DEF Line
  <2>3. CASE l \in 1 .. N - 1
    <3>1. PICK mode \in {"all", "block"} : RestOf(P, l, mode) # 0
      BY <1>9 DEF Visited
    <3>2. StepIs(s, p, 0, TRUE, P, l, mode, TRUE, RestOf(P, l, mode))
      BY <1>1, <2>3 DEF Unfolds, ParseModes, RestOf
    <3> QED BY <3>1, <3>2 DEF StepIs
  <2> QED BY <2>1, <2>2, <2>3
<1>10. ASSUME NEW l \in Lines(s), Line(s, l) \in Opens
       PROVE  /\ l + 1 \in Lines(s) /\ Start(s, l + 1) /\ p[l + 1] = l
              /\ rel[l] \in Lines(s) /\ OB(s, rel[l]) = OB(s, l)
  <2>0. Line(s, l) # "exit" /\ BodyAt(s, l) /\ Line(s, l) \notin OwnersAndElse
    BY <1>10 DEF OwnersAndElse, Owners, LoopKinds, Opens, BodyAt
  <2>1. l \in 1 .. N - 1 /\ l + 1 \in Lines(s) /\ (l + 1) - 1 = l /\ l \in Nat
    BY <1>5, <2>0
  <2>2. Stmt(P, l) \in Lines(s) /\ EndsBefore(s, P, l, Stmt(P, l)) /\ OB(s, Stmt(P, l)) = OB(s, l)
    BY <1>8, <2>0, <2>1
  <2>3. Visited(P, l + 1)
    BY <1>10, <2>2 DEF EndsBefore, Visited
  <2>4. Level(s, l + 1)
    BY <2>0, <2>1 DEF Level
  <2>5. OB(s, l + 1) = Append(OB(s, l), l)
    BY <1>1, <1>10, <2>1 DEF Nested
  <2>6. TopOf(OB(s, l + 1)) = l
    <3>1. OB(s, l) \in Seq(Nat)
      <4>1. OB(s, l) \in Seq(Braces(s, l))
        BY <1>1, <1>4 DEF Nested
      <4>2. Braces(s, l) \subseteq Nat
        BY DEF Braces
      <4> QED BY <4>1, <4>2, SeqMonotonic
    <3>2. Append(OB(s, l), l) # <<>> /\ Last(Append(OB(s, l), l)) = l
      BY <2>1, <3>1, AppendFront
    <3> QED BY <2>5, <3>2 DEF TopOf
  <2>7. p[l + 1] = l
    BY <1>2, <2>1, <2>4, <2>6
  <2>8. Line(s, l + 1) # "else"
    BY <1>9, <2>1, <2>3
  <2>9. rel[l] = Stmt(P, l)
    BY <1>3, <1>10
  <2> QED BY <2>1, <2>2, <2>4, <2>7, <2>8, <2>9 DEF Start
<1>11. ASSUME NEW l \in Lines(s), Start(s, l), BodyAt(s, l), l \in 1 .. N - 1
       PROVE  GoesOn(s, p, l, Stmt(P, l)) /\ (Line(s, l) \in LoopKinds => Line(s, Stmt(P, l)) # "else")
  <2> DEFINE x == Stmt(P, l)
  <2>1. x \in Lines(s) /\ Level(s, x) /\ OB(s, x) = OB(s, l)
    BY <1>8, <1>11
  <2>2. Visited(P, l)
    BY <1>1, <1>4, <1>11 DEF Whole, Starts, Start
  <2>3. PICK mode \in {"all", "block"} : RestOf(P, l, mode) # 0
    BY <2>2 DEF Visited
  <2>4. RestOf(P, l, mode) = RestOf(P, x, mode)
    <3>1. \/ Line(s, l) = "}" /\ RestOf(P, l, mode) = l
          \/ /\ Stmt(P, l) # 0 /\ RestOf(P, l, mode) = RestOf(P, Stmt(P, l), mode)
             /\ Line(s, l) \in LoopKinds => Line(s, Stmt(P, l)) # "else"
             /\ Line(s, l) # "}"
      BY <1>1, <1>11, <2>3, NextStatement
    <3>2. Line(s, l) # "}"
      BY <1>11 DEF BodyAt
    <3> HIDE DEF x
    <3>3. x = Stmt(P, l)
      BY DEF x
    <3> QED BY <3>1, <3>2, <3>3
  <2>5. Visited(P, x)
    BY <2>3, <2>4 DEF Visited
  <2>6. Line(s, x) # "else"
    BY <1>9, <2>1, <2>5
  <2>7. p[x] = p[l]
    BY <1>6, <1>11, <2>1 DEF Start
  <2> QED BY <2>1, <2>6, <2>7 DEF GoesOn, Start
<1>12. LinksOfStarts(s, p, rel)
  <2> SUFFICES ASSUME NEW l \in Lines(s), Start(s, l)
               PROVE  /\ Simple(s, l) => GoesOn(s, p, l, l + 1)
                      /\ Line(s, l) \in Opens \cup LoopKinds => GoesOn(s, p, l, rel[l])
                      /\ Line(s, l) = "if" =>
                           IF Line(s, rel[l]) = "else" THEN GoesOn(s, p, l, rel[rel[l]])
                           ELSE GoesOn(s, p, l, rel[l])
    BY DEF LinksOfStarts
  <2>1. ASSUME BodyAt(s, l), l \in 1 .. N - 1
        PROVE  /\ GoesOn(s, p, l, Stmt(P, l)) /\ EndsBefore(s, P, l, Stmt(P, l))
               /\ (Line(s, l) \in LoopKinds => Line(s, Stmt(P, l)) # "else")
    BY <1>8, <1>11, <2>1
  <2>2. ASSUME Simple(s, l) PROVE GoesOn(s, p, l, l + 1)
    <3>1. BodyAt(s, l) /\ l \in 1 .. N - 1
      BY <2>2 DEF Simple, BodyAt
    <3> QED BY <2>1, <2>2, <3>1 DEF EndsBefore
  <2>3. ASSUME Line(s, l) \in Opens PROVE GoesOn(s, p, l, rel[l])
    <3>1. BodyAt(s, l) /\ Line(s, l) # "exit"
      BY <2>3 DEF Opens, BodyAt
    <3>2. rel[l] = Stmt(P, l) /\ l \in 1 .. N - 1
      BY <1>3, <1>5, <2>3, <3>1
    <3> QED BY <2>1, <3>1, <3>2
  <2>4. ASSUME Line(s, l) \in LoopKinds PROVE GoesOn(s, p, l, rel[l])
    <3>1. BodyAt(s, l) /\ Line(s, l) # "exit" /\ Line(s, l) \in Owners /\ Line(s, l) \in OwnersAndElse
      BY <2>4 DEF LoopKinds, BodyAt, OwnersAndElse, Owners
    <3>2. rel[l] = Stmt(P, l + 1) /\ l \in 1 .. N - 1
      BY <1>3, <1>5, <3>1
    <3>3. EndsBefore(s, P, l, Stmt(P, l)) /\ GoesOn(s, p, l, Stmt(P, l))
      BY <2>1, <3>1, <3>2
    <3>4. Stmt(P, l) = Stmt(P, l + 1)
      BY <2>4, <3>1, <3>3 DEF EndsBefore
    <3> QED BY <3>2, <3>3, <3>4
  <2>5. ASSUME Line(s, l) = "if"
        PROVE  IF Line(s, rel[l]) = "else" THEN GoesOn(s, p, l, rel[rel[l]]) ELSE GoesOn(s, p, l, rel[l])
    <3>1. BodyAt(s, l) /\ Line(s, l) # "exit" /\ Line(s, l) \in Owners /\ Line(s, l) \in OwnersAndElse
          /\ Line(s, l) \notin LoopKinds
      BY <2>5 DEF LoopKinds, BodyAt, OwnersAndElse, Owners
    <3>2. rel[l] = Stmt(P, l + 1) /\ l \in 1 .. N - 1
      BY <1>3, <1>5, <3>1
    <3>3. EndsBefore(s, P, l, Stmt(P, l)) /\ GoesOn(s, p, l, Stmt(P, l))
      BY <2>1, <3>1, <3>2
    <3> DEFINE e == rel[l]
    <3>4. Stmt(P, l) = IF Line(s, e) = "else" THEN Stmt(P, e + 1) ELSE e
      BY <3>1, <3>2, <3>3 DEF EndsBefore
    <3>5. e \in Lines(s)
      BY <1>7, <3>1
    <3> HIDE DEF e
    <3>6. Line(s, e) = "else" => rel[e] = Stmt(P, e + 1)
      BY <1>3, <3>5 DEF OwnersAndElse
    <3> QED BY <3>3, <3>4, <3>6 DEF e
  <2> QED BY <2>2, <2>3, <2>4, <2>5
<1>13. LinksOfOwners(s, p, rel)
  <2> SUFFICES ASSUME NEW l \in Lines(s), Line(s, l) \in OwnersAndElse
               PROVE  /\ l + 1 \in Lines(s) /\ BodyAt(s, l + 1) /\ p[l + 1] = l
                      /\ rel[l] \in Lines(s) /\ Level(s, rel[l])
                      /\ Level(s, l) => p[rel[l]] = p[l]
    BY DEF LinksOfOwners
  <2> QED BY <1>6, <1>7
<1>14. LinksOfBlocks(s, p, rel)
  BY <1>10 DEF LinksOfBlocks
<1>15. LinksOfParents(s, p)
  BY <1>2 DEF LinksOfParents
<1>16. 1 \in Lines(s) /\ Start(s, 1)
  <2>1. 1 \in Lines(s) /\ 1 \in 1 .. N
    BY <1>4
  <2>2. Level(s, 1)
    <3>1. Line(s, 1 - 1) = "exit"
      BY LineKinds DEF Line
    <3> QED BY <3>1 DEF Level, OwnersAndElse, Owners, LoopKinds
  <2>3. Line(s, 1) # "else"
    <3>1. Accepted(s, lab, dyn)
      OBVIOUS
    <3> DEFINE F == Preparsed(s, p, lab, dyn)
    <3>2. F[<<1, "all", FALSE>>] # 0
      BY DEF Accepted, p
    <3>3. Unfolds(s, p, lab, dyn, F)
      BY PreparsedUnfolds
    <3> HIDE DEF F
    <3>4. 1 \in 1 .. N - 1
      BY <1>4
    <3>5. StepIs(s, p, lab, dyn, F, 1, "all", FALSE, F[<<1, "all", FALSE>>])
      BY <3>3, <3>4 DEF Unfolds, ParseModes
    <3> QED BY <3>2, <3>5 DEF StepIs
  <2> QED BY <2>1, <2>2, <2>3 DEF Start
<1>17. rel \in [Lines(s) -> 0 .. N]
  <2> SUFFICES ASSUME NEW l \in Lines(s) PROVE rel[l] \in 0 .. N
    BY <1>b
  <2>1. \A x \in Lines(s) : x \in 0 .. N
    BY <1>4
  <2>2. 0 \in 0 .. N
    BY <1>4
  <2> QED BY <1>3, <1>7, <1>10, <2>1, <2>2
<1>18. LinksOfOpenBlocks(s, rel)
  <2>1. ASSUME NEW l \in Lines(s), Simple(s, l) PROVE OB(s, l + 1) = OB(s, l)
    BY <1>1, <2>1 DEF Nested, Simple
  <2>2. ASSUME NEW l \in Lines(s), Line(s, l) = "}" PROVE OB(s, l) # <<>>
    BY <1>1, <1>5, <2>2 DEF Nested
  <2> QED BY <1>7, <1>10, <2>1, <2>2 DEF LinksOfOpenBlocks
<1> QED BY <1>2, <1>12, <1>13, <1>14, <1>15, <1>16, <1>17, <1>18 DEF Links, p, rel


-----------------------------------------------------------------------------
(* The inductive invariant of ExecUntil.                                   *)

FrameSet == [line : Lines(script), mode : Modes, phase : Phases, thread : BOOLEAN,
             under : Values, saved : Values, cont : BOOLEAN,
             jump : 0 .. LastLine(script), folder : 0 .. MaxFolders]

\* The label is the body of an IF, an ELSE or a loop.
OnBody == label # 0 /\ ~Level(script, label)
Target(j) == j = 0 \/ (label # 0 /\ j = label)

\* The phase goes with the kind of the line, and the line with the mode.
PhaseOK(c) ==
  /\ c.phase = "if" => Line(script, c.line) = "if"
  /\ c.phase = "else" => Line(script, c.line) = "else"
  /\ c.phase = "block" => Line(script, c.line) = "{"
  /\ c.phase \in {"test", "loop"} => Line(script, c.line) \in LoopKinds
  /\ c.phase = "gosub" => Line(script, c.line) \in {"gosub", "group"}
  /\ c.phase \in {"call", "called"} => Line(script, c.line) = "call"

OnLevel(c) ==
  IF c.phase = "else" THEN Level(script, c.line) /\ Start(script, related[c.line])
  ELSE Start(script, c.line)

Regular == ~FunctionOnBody(script)

LevelOK(c) ==
  Regular =>
  /\ c.mode = "one" /\ c.phase # "else" => BodyAt(script, c.line) /\ Line(script, c.line) # "func{"
  /\ c.mode = "block" \/ (c.mode = "return" /\ ~OnBody) => OnLevel(c)

\* A line in no block, or in the same blocks as the label.
AtHome(l) ==
  \/ OB(script, l) = <<>>
  \/ label # 0 /\ OB(script, l) = OB(script, label)

ReturnOK(c) == c.mode = "return" => AtHome(c.line)

FrameOK(c) == c \in FrameSet /\ Target(c.jump) /\ PhaseOK(c) /\ LevelOK(c) /\ ReturnOK(c)

\* Frame b was called by frame a, or interrupts it.
OwnerPhases == {"if", "else", "loop"}
CallOf(a, b) ==
  /\ a.phase \in OwnerPhases \cup {"block", "gosub", "call"}
  /\ a.phase \in OwnerPhases =>
       b.mode = "one" /\ (Regular => b.phase = "else" \/ b.line = a.line + 1)
  /\ a.phase = "block" => b.mode = "block" /\ (Regular => parent[b.line] = a.line)
  /\ a.phase = "gosub" => b.mode = "return"
  /\ a.phase = "call" =>
       b.mode = "block" /\ (Regular => Line(script, parent[b.line]) = "func{")
Calls(a, b) == IF b.thread THEN a.phase = "line" /\ b.mode = "return" ELSE CallOf(a, b)

\* The loop item x, and whether there is a function (b), that is right while the
\* first n frames run, and while the n-th has not begun its loop or its call.
Item(c) == c.phase = "loop" /\ Line(script, c.line) # "loop"
Marks(c) == c.thread \/ Item(c)
ItemOf(c) == IF Item(c) THEN c.line ELSE 0

SeesItem(fs, n, x) ==
  \E i \in 1 .. n : Marks(fs[i]) /\ (\A j \in i + 1 .. n : ~Marks(fs[j])) /\ x = ItemOf(fs[i])
SeesFunc(fs, n, b) ==
  b <=> \E i \in 1 .. n : fs[i].phase = "call" /\ \A j \in i + 1 .. n : ~fs[j].thread

BeforeItem(fs, n, x) == IF fs[n].thread THEN x = 0 ELSE SeesItem(fs, n - 1, x)
BeforeFunc(fs, n, b) == IF fs[n].thread THEN ~b ELSE SeesFunc(fs, n - 1, b)
Seen(fs, n, v) == BeforeItem(fs, n, v.mLoopItem) /\ BeforeFunc(fs, n, v.CurrentFunc)

SavedOK(fs, n) ==
  /\ fs[n].phase \in {"test", "loop"} => BeforeItem(fs, n, fs[n].saved.mLoopItem)
  /\ fs[n].phase = "call" => BeforeFunc(fs, n, fs[n].saved.CurrentFunc)
  /\ fs[n].thread /\ n # 1 => Seen(fs, n - 1, fs[n].under)

SlotOK(fs, n) ==
  /\ FrameOK(fs[n])
  /\ IF n = 1 THEN fs[n].thread /\ fs[n].mode = "return" ELSE Calls(fs[n - 1], fs[n])
  /\ SavedOK(fs, n)

StackOK(fs) == fs \in Seq(FrameSet) /\ \A n \in 1 .. Len(fs) : SlotOK(fs, n)

\* g while frame n, the last one, runs.
Current(fs, n, c, v) ==
  /\ c.phase \in {"line", "test", "called"}
  /\ c.phase # "test" => Seen(fs, n, v)
  /\ c.phase = "test" =>
       /\ BeforeFunc(fs, n, v.CurrentFunc)
       /\ Line(script, c.line) = "loop" => BeforeItem(fs, n, v.mLoopItem)
TopOK(fs, v) == fs # <<>> => Current(fs, Len(fs), fs[Len(fs)], v)

Linked == Links(script, parent, related)

IInv ==
  /\ TypeOK
  /\ IF status = "running"
     THEN /\ label \in 0 .. Len(script) + 1 /\ LabelOK(script, label) /\ Linked
          /\ StackOK(frames) /\ TopOK(frames, g)
     ELSE frames = <<>> /\ g = Fresh



\* What the loader has established before the first line runs.
Ready ==
  /\ script \in Seq(Kinds) /\ label \in 0 .. Len(script) + 1
  /\ LabelOK(script, label) /\ Linked

\* A frame returns, or is interrupted, on its own level.
Levelled(c) == Regular /\ (c.mode = "block" \/ (c.mode = "return" /\ ~OnBody))

\* The sizes of the script.
LEMMA Sizes ==
  ASSUME Ready
  PROVE  /\ LastLine(script) \in Nat /\ 0 \in 0 .. LastLine(script) /\ 0 \in 0 .. MaxFolders
         /\ \A l \in Lines(script) : l \in Nat /\ l # 0 /\ l \in 0 .. LastLine(script)
         /\ label \in 0 .. LastLine(script) /\ label \in Nat
         /\ label # 0 => label \in Lines(script)
         /\ parent \in [Lines(script) -> 0 .. LastLine(script)]
         /\ related \in [Lines(script) -> 0 .. LastLine(script)]
<1>1. Len(script) \in Nat /\ LastLine(script) = Len(script) + 3
  BY LineKinds DEF Ready, LastLine
<1>2. Lines(script) = 1 .. LastLine(script)
  BY DEF Lines
<1>3. label \in 0 .. Len(script) + 1
  BY DEF Ready
<1>4. MaxFolders \in Nat
  BY BoundsAssumption
<1> QED BY <1>1, <1>2, <1>3, <1>4 DEF Ready, Linked, Links

\* A line that is not an exit is followed by another.
LEMMA NextLine ==
  ASSUME Ready, NEW l \in Lines(script), Line(script, l) # "exit"
  PROVE  l + 1 \in Lines(script) /\ l \in 1 .. LastLine(script) - 1 /\ l \in 1 .. Len(script)
<1>1. script \in Seq(Kinds) /\ l \in Nat
  BY Sizes DEF Ready
<1>2. l \in 1 .. Len(script) /\ LastLine(script) = Len(script) + 3 /\ Len(script) \in Nat
  BY <1>1, LineKinds
<1>3. Lines(script) = 1 .. LastLine(script)
  BY DEF Lines
<1> QED BY <1>2, <1>3

LEMMA FreshValues == Fresh \in Values
BY DEF Fresh, Values

\* Frames that begin a line.
LEMMA FrameFields ==
  ASSUME NEW l, NEW mode, NEW thread, NEW under
  PROVE  /\ Frame(l, mode, thread, under).line = l /\ Frame(l, mode, thread, under).mode = mode
         /\ Frame(l, mode, thread, under).thread = thread
         /\ Frame(l, mode, thread, under).under = under
         /\ Frame(l, mode, thread, under).phase = "line"
         /\ Frame(l, mode, thread, under).jump = 0
BY DEF Frame

LEMMA FrameInSet ==
  ASSUME Ready, NEW l \in Lines(script), NEW mode \in Modes, NEW thread \in BOOLEAN,
         NEW under \in Values
  PROVE  Frame(l, mode, thread, under) \in FrameSet
<1>1. 0 \in 0 .. LastLine(script) /\ 0 \in 0 .. MaxFolders
  BY Sizes
<1>2. "line" \in Phases /\ FALSE \in BOOLEAN
  BY DEF Phases
<1> QED BY <1>1, <1>2, FreshValues DEF Frame, FrameSet

LEMMA FrameGood ==
  ASSUME Ready, NEW l \in Lines(script), NEW mode \in Modes, NEW thread \in BOOLEAN,
         NEW under \in Values,
         Regular /\ mode = "one" => BodyAt(script, l) /\ Line(script, l) # "func{",
         Regular /\ (mode = "block" \/ (mode = "return" /\ ~OnBody)) => Start(script, l),
         mode = "return" => AtHome(l)
  PROVE  FrameOK(Frame(l, mode, thread, under))
<1> DEFINE d == Frame(l, mode, thread, under)
<1>1. d \in FrameSet /\ d.line = l /\ d.mode = mode /\ d.phase = "line" /\ d.jump = 0
  <2>1. d \in FrameSet
    BY FrameInSet
  <2>2. d.line = l /\ d.mode = mode /\ d.phase = "line" /\ d.jump = 0
    BY DEF Frame
  <2> QED BY <2>1, <2>2
<1> HIDE DEF d
<1>2. PhaseOK(d)
  BY <1>1 DEF PhaseOK
<1>3. LevelOK(d)
  <2>1. OnLevel(d) <=> Start(script, l)
    BY <1>1 DEF OnLevel
  <2> QED BY <1>1, <2>1 DEF LevelOK
<1>4. ReturnOK(d)
  BY <1>1 DEF ReturnOK
<1> QED BY <1>1, <1>2, <1>3, <1>4 DEF FrameOK, Target, d

\* A frame that takes the place of c on the stack.
Follows(c, d) ==
  /\ d.thread = c.thread /\ d.mode = c.mode /\ d.under = c.under
  /\ Regular /\ c.mode = "one" => d.phase = "else" \/ (c.phase # "else" /\ d.line = c.line)
  /\ Regular /\ c.mode = "block" => parent[d.line] = parent[c.line]

LEMMA FollowsCall ==
  ASSUME NEW a, NEW c, NEW d, Follows(c, d), Calls(a, c)
  PROVE  Calls(a, d)
<1>1. CASE c.thread
  BY <1>1 DEF Calls, Follows
<1>2. CASE ~c.thread
  <2>1. CallOf(a, c) /\ ~d.thread
    BY <1>2 DEF Calls, Follows
  <2>2. a.phase \in OwnerPhases => d.mode = "one" /\ (Regular => d.phase = "else" \/ d.line = a.line + 1)
    BY <2>1 DEF CallOf, Follows
  <2>3. a.phase = "block" => d.mode = "block" /\ (Regular => parent[d.line] = a.line)
    BY <2>1 DEF CallOf, Follows
  <2>4. a.phase = "call" =>
          d.mode = "block" /\ (Regular => Line(script, parent[d.line]) = "func{")
    BY <2>1 DEF CallOf, Follows
  <2>5. CallOf(a, d)
    BY <2>1, <2>2, <2>3, <2>4 DEF CallOf, Follows
  <2> QED BY <2>1, <2>5 DEF Calls
<1> QED BY <1>1, <1>2

\* The same line in another phase.
LEMMA SameLine ==
  ASSUME NEW c, FrameOK(c), c.phase # "else",
         NEW d \in FrameSet, d.line = c.line, d.mode = c.mode, d.thread = c.thread,
         d.under = c.under, d.phase # "else", Target(d.jump), PhaseOK(d)
  PROVE  Follows(c, d) /\ FrameOK(d)
<1>1. Follows(c, d)
  BY DEF Follows
<1>2. OnLevel(c) <=> OnLevel(d)
  BY DEF OnLevel
<1>3. LevelOK(d)
  BY <1>2 DEF FrameOK, LevelOK
<1> QED BY <1>1, <1>3 DEF FrameOK, ReturnOK

\* The frame goes on at another line.
LEMMA AtLine ==
  ASSUME Ready, NEW c \in FrameSet, NEW x \in Lines(script), c.mode # "one" \/ ~Regular,
         Levelled(c) => GoesOn(script, parent, c.line, x),
         c.mode = "return" => AtHome(x)
  PROVE  Follows(c, At(c, x)) /\ FrameOK(At(c, x)) /\ At(c, x).phase = "line"
<1> DEFINE d == At(c, x)
<1>1. /\ d.line = x /\ d.mode = c.mode /\ d.thread = c.thread /\ d.under = c.under
      /\ d.phase = "line" /\ d = Frame(x, c.mode, c.thread, c.under)
  BY FrameFields DEF At
<1>2. c.mode \in Modes /\ c.thread \in BOOLEAN /\ c.under \in Values
  BY DEF FrameSet
<1>3. Regular /\ (c.mode = "block" \/ (c.mode = "return" /\ ~OnBody)) => Start(script, x)
  BY DEF Levelled, GoesOn
<1> HIDE DEF d
<1>4. FrameOK(d)
  BY <1>1, <1>2, <1>3, FrameGood
<1>5. Follows(c, d)
  BY <1>1 DEF Follows, Levelled, GoesOn
<1> QED BY <1>1, <1>4, <1>5 DEF d

LEMMA AtSameLine ==
  ASSUME Ready, NEW c, FrameOK(c), c.phase # "else"
  PROVE  Follows(c, At(c, c.line)) /\ FrameOK(At(c, c.line)) /\ At(c, c.line).phase = "line"
<1> DEFINE d == At(c, c.line)
<1>1. /\ d.line = c.line /\ d.mode = c.mode /\ d.thread = c.thread /\ d.under = c.under
      /\ d.phase = "line" /\ d = Frame(c.line, c.mode, c.thread, c.under) /\ d.jump = 0
  BY FrameFields DEF At
<1>2. c.line \in Lines(script) /\ c.mode \in Modes /\ c.thread \in BOOLEAN /\ c.under \in Values
  BY DEF FrameSet, FrameOK
<1> HIDE DEF d
<1>3. d \in FrameSet
  BY <1>1, <1>2, FrameInSet
<1>4. PhaseOK(d) /\ Target(d.jump)
  BY <1>1 DEF PhaseOK, Target
<1>5. Follows(c, d) /\ FrameOK(d)
  BY <1>1, <1>3, <1>4, SameLine
<1> QED BY <1>1, <1>5 DEF d


-----------------------------------------------------------------------------
(* What the frames of a stack see.                                         *)

\* The first n frames of the two stacks are the same.
SameUpTo(fs, hs, n) == \A i \in 1 .. n : hs[i] = fs[i]

LEMMA SeesSame ==
  ASSUME NEW fs, NEW hs, NEW n \in Nat, SameUpTo(fs, hs, n), NEW x, NEW b
  PROVE  (SeesItem(hs, n, x) <=> SeesItem(fs, n, x)) /\ (SeesFunc(hs, n, b) <=> SeesFunc(fs, n, b))
<1>1. \A i \in 1 .. n : hs[i] = fs[i] /\ \A j \in i + 1 .. n : hs[j] = fs[j]
  BY DEF SameUpTo
<1>2. SeesItem(hs, n, x) <=> SeesItem(fs, n, x)
  BY <1>1 DEF SeesItem
<1>3. SeesFunc(hs, n, b) <=> SeesFunc(fs, n, b)
  BY <1>1 DEF SeesFunc
<1> QED BY <1>2, <1>3

\* Frame n may itself differ, as long as neither or both begin a thread.
LEMMA BeforeSame ==
  ASSUME NEW fs, NEW hs, NEW n \in Nat \ {0}, SameUpTo(fs, hs, n - 1),
         hs[n].thread = fs[n].thread, NEW x, NEW b, NEW v
  PROVE  /\ BeforeItem(hs, n, x) <=> BeforeItem(fs, n, x)
         /\ BeforeFunc(hs, n, b) <=> BeforeFunc(fs, n, b)
         /\ Seen(hs, n, v) <=> Seen(fs, n, v)
<1>1. n - 1 \in Nat
  OBVIOUS
<1>2. ASSUME NEW y PROVE BeforeItem(hs, n, y) <=> BeforeItem(fs, n, y)
  BY <1>1, SeesSame DEF BeforeItem
<1>3. ASSUME NEW y PROVE BeforeFunc(hs, n, y) <=> BeforeFunc(fs, n, y)
  BY <1>1, SeesSame DEF BeforeFunc
<1>4. Seen(hs, n, v) <=> Seen(fs, n, v)
  <2>1. BeforeItem(hs, n, v.mLoopItem) <=> BeforeItem(fs, n, v.mLoopItem)
    BY <1>2
  <2>2. BeforeFunc(hs, n, v.CurrentFunc) <=> BeforeFunc(fs, n, v.CurrentFunc)
    BY <1>3
  <2> QED BY <2>1, <2>2 DEF Seen
<1> QED BY <1>2, <1>3, <1>4

LEMMA SlotSame ==
  ASSUME NEW fs, NEW hs, NEW n \in Nat \ {0}, SameUpTo(fs, hs, n), SlotOK(fs, n)
  PROVE  SlotOK(hs, n)
<1>1. n \in 1 .. n /\ n - 1 \in Nat /\ SameUpTo(fs, hs, n - 1) /\ hs[n] = fs[n]
      /\ (n # 1 => n - 1 \in 1 .. n /\ n - 1 \in Nat \ {0})
  BY DEF SameUpTo
<1>2. n # 1 => hs[n - 1] = fs[n - 1] /\ SameUpTo(fs, hs, (n - 1) - 1)
  BY <1>1 DEF SameUpTo
<1>3. SavedOK(hs, n)
  <2>1. fs[n].phase \in {"test", "loop"} => BeforeItem(hs, n, fs[n].saved.mLoopItem)
    BY <1>1, BeforeSame DEF SlotOK, SavedOK
  <2>2. fs[n].phase = "call" => BeforeFunc(hs, n, fs[n].saved.CurrentFunc)
    BY <1>1, BeforeSame DEF SlotOK, SavedOK
  <2>3. fs[n].thread /\ n # 1 => Seen(hs, n - 1, fs[n].under)
    <3>1. ASSUME n # 1 PROVE Seen(hs, n - 1, fs[n].under) <=> Seen(fs, n - 1, fs[n].under)
      <4> DEFINE k == n - 1
      <4>1. k \in Nat \ {0} /\ SameUpTo(fs, hs, k - 1) /\ hs[k].thread = fs[k].thread
        BY <1>1, <1>2, <3>1
      <4> HIDE DEF k
      <4>2. Seen(hs, k, fs[n].under) <=> Seen(fs, k, fs[n].under)
        BY <4>1, BeforeSame
      <4> QED BY <4>2 DEF k
    <3> QED BY <3>1 DEF SlotOK, SavedOK
  <2> QED BY <1>1, <2>1, <2>2, <2>3 DEF SavedOK
<1> QED BY <1>1, <1>2, <1>3 DEF SlotOK

\* What a frame sees, by what the frame below it sees.
LEMMA ItemStep ==
  ASSUME NEW fs, NEW n \in Nat \ {0}, NEW x
  PROVE  SeesItem(fs, n, x) <=> IF Marks(fs[n]) THEN x = ItemOf(fs[n]) ELSE SeesItem(fs, n - 1, x)
<1>1. n \in 1 .. n /\ n + 1 .. n = {} /\ \A i \in 1 .. n : i = n \/ i \in 1 .. n - 1
  OBVIOUS
<1>2. \A i \in 1 .. n - 1 : i \in 1 .. n /\ n \in i + 1 .. n
                            /\ \A j \in i + 1 .. n : j = n \/ j \in i + 1 .. n - 1
  OBVIOUS
<1>3. \A i \in 1 .. n - 1 : \A j \in i + 1 .. n - 1 : j \in i + 1 .. n
  OBVIOUS
<1>4. CASE Marks(fs[n])
  <2>1. SeesItem(fs, n, x) => x = ItemOf(fs[n])
    BY <1>1, <1>2, <1>4 DEF SeesItem
  <2>2. x = ItemOf(fs[n]) => SeesItem(fs, n, x)
    BY <1>1, <1>4 DEF SeesItem
  <2> QED BY <1>4, <2>1, <2>2
<1>5. CASE ~Marks(fs[n])
  <2>1. SeesItem(fs, n, x) => SeesItem(fs, n - 1, x)
    BY <1>1, <1>3, <1>5 DEF SeesItem
  <2>2. SeesItem(fs, n - 1, x) => SeesItem(fs, n, x)
    BY <1>2, <1>5 DEF SeesItem
  <2> QED BY <1>5, <2>1, <2>2
<1> QED BY <1>4, <1>5

LEMMA FuncStep ==
  ASSUME NEW fs, NEW n \in Nat \ {0}, NEW b \in BOOLEAN
  PROVE  SeesFunc(fs, n, b) <=> IF fs[n].phase = "call" THEN b
                                ELSE IF fs[n].thread THEN ~b ELSE SeesFunc(fs, n - 1, b)
<1> DEFINE In(m, i) == fs[i].phase = "call" /\ \A j \in i + 1 .. m : ~fs[j].thread
<1>0. \A m : SeesFunc(fs, m, b) <=> (b <=> \E i \in 1 .. m : In(m, i))
  BY DEF SeesFunc
<1>1. n \in 1 .. n /\ n + 1 .. n = {} /\ \A i \in 1 .. n : i = n \/ i \in 1 .. n - 1
  OBVIOUS
<1>2. \A i \in 1 .. n - 1 : i \in 1 .. n /\ n \in i + 1 .. n
                            /\ \A j \in i + 1 .. n : j = n \/ j \in i + 1 .. n - 1
  OBVIOUS
<1>3. \A i \in 1 .. n - 1 : \A j \in i + 1 .. n - 1 : j \in i + 1 .. n
  OBVIOUS
<1>4. CASE fs[n].phase = "call"
  <2>1. In(n, n)
    BY <1>1, <1>4
  <2> HIDE DEF In
  <2> QED BY <1>0, <1>1, <1>4, <2>1
<1>5. CASE fs[n].phase # "call" /\ fs[n].thread
  <2>1. \A i \in 1 .. n : ~In(n, i)
    BY <1>1, <1>2, <1>5
  <2> HIDE DEF In
  <2> QED BY <1>0, <1>5, <2>1
<1>6. CASE fs[n].phase # "call" /\ ~fs[n].thread
  <2>1. \A i \in 1 .. n - 1 : In(n - 1, i) => In(n, i)
    BY <1>2, <1>6
  <2>2. \A i \in 1 .. n : In(n, i) => i \in 1 .. n - 1 /\ In(n - 1, i)
    BY <1>1, <1>3, <1>6
  <2> HIDE DEF In
  <2>3. (\E i \in 1 .. n : In(n, i)) <=> \E i \in 1 .. n - 1 : In(n - 1, i)
    BY <1>2, <2>1, <2>2
  <2> QED BY <1>0, <1>6, <2>3
<1> QED BY <1>4, <1>5, <1>6

\* What a frame that waits for a call passes on to it.
LEMMA ItemOnward ==
  ASSUME NEW fs, NEW n \in Nat \ {0}, NEW x
  PROVE  SeesItem(fs, n, x) <=> IF Item(fs[n]) THEN x = fs[n].line ELSE BeforeItem(fs, n, x)
<1>1. SeesItem(fs, n, x) <=> IF Marks(fs[n]) THEN x = ItemOf(fs[n]) ELSE SeesItem(fs, n - 1, x)
  BY ItemStep
<1> QED BY <1>1 DEF Marks, ItemOf, BeforeItem

LEMMA FuncOnward ==
  ASSUME NEW fs, NEW n \in Nat \ {0}, NEW b \in BOOLEAN
  PROVE  SeesFunc(fs, n, b) <=> IF fs[n].phase = "call" THEN b ELSE BeforeFunc(fs, n, b)
<1>1. SeesFunc(fs, n, b) <=> IF fs[n].phase = "call" THEN b
                             ELSE IF fs[n].thread THEN ~b ELSE SeesFunc(fs, n - 1, b)
  BY FuncStep
<1> QED BY <1>1 DEF BeforeFunc


-----------------------------------------------------------------------------
(* Changes of the stack.                                                   *)

SavedFits(fs, n, d) ==
  /\ d.phase \in {"test", "loop"} => BeforeItem(fs, n, d.saved.mLoopItem)
  /\ d.phase = "call" => BeforeFunc(fs, n, d.saved.CurrentFunc)

\* d may take the place of the n-th frame, v being the settings from then on.
Fits(fs, n, d, v) ==
  /\ Follows(fs[n], d) /\ FrameOK(d) /\ SavedFits(fs, n, d)
  /\ v \in Values /\ Current(fs, n, d, v)

\* The stack and the settings are as the invariant wants them.
Good(fs, v) == StackOK(fs) /\ v \in Values /\ TopOK(fs, v)

Replace(fs, n, d) == Append(SubSeq(fs, 1, n - 1), d)

LEMMA PrefixSame ==
  ASSUME NEW S, NEW fs \in Seq(S), NEW n \in 1 .. Len(fs)
  PROVE  /\ SubSeq(fs, 1, n - 1) \in Seq(S) /\ Len(SubSeq(fs, 1, n - 1)) = n - 1
         /\ SameUpTo(fs, SubSeq(fs, 1, n - 1), n - 1) /\ n - 1 \in Nat /\ n \in Nat \ {0}
<1> DEFINE m == n - 1
<1>1. m \in 0 .. Len(fs) /\ Len(fs) \in Nat /\ m \in Nat
  OBVIOUS
<1>2. SubSeq(fs, 1, m) = [i \in 1 .. m |-> fs[i]]
  BY <1>1
<1>3. \A i \in 1 .. m : fs[i] \in S
  BY <1>1
<1>4. n \in Nat \ {0}
  OBVIOUS
<1> HIDE DEF m
<1>5. [i \in 1 .. m |-> fs[i]] \in Seq(S) /\ Len([i \in 1 .. m |-> fs[i]]) = m
  BY <1>1, <1>3
<1>6. \A i \in 1 .. m : SubSeq(fs, 1, m)[i] = fs[i]
  BY <1>2
<1>7. m = n - 1
  BY DEF m
<1> QED BY <1>1, <1>2, <1>4, <1>5, <1>6, <1>7 DEF SameUpTo

LEMMA ReplaceShape ==
  ASSUME NEW S, NEW fs \in Seq(S), NEW n \in 1 .. Len(fs), NEW d \in S
  PROVE  /\ Replace(fs, n, d) \in Seq(S) /\ Len(Replace(fs, n, d)) = n
         /\ Replace(fs, n, d)[n] = d /\ SameUpTo(fs, Replace(fs, n, d), n - 1)
         /\ n \in Nat \ {0} /\ n - 1 \in Nat
<1> DEFINE p == SubSeq(fs, 1, n - 1)
<1>1. p \in Seq(S) /\ Len(p) = n - 1 /\ SameUpTo(fs, p, n - 1) /\ n - 1 \in Nat /\ n \in Nat \ {0}
  BY PrefixSame
<1> HIDE DEF p
<1>2. Append(p, d) \in Seq(S) /\ Len(Append(p, d)) = Len(p) + 1 /\ Append(p, d)[Len(p) + 1] = d
      /\ \A i \in 1 .. Len(p) : Append(p, d)[i] = p[i]
  BY <1>1
<1>3. Len(p) + 1 = n
  BY <1>1
<1>4. SameUpTo(fs, Append(p, d), n - 1)
  BY <1>1, <1>2 DEF SameUpTo
<1> QED BY <1>1, <1>2, <1>3, <1>4 DEF Replace, p

LEMMA AppendShape ==
  ASSUME NEW S, NEW fs \in Seq(S), NEW d \in S
  PROVE  /\ Append(fs, d) \in Seq(S) /\ Len(Append(fs, d)) = Len(fs) + 1
         /\ Append(fs, d)[Len(fs) + 1] = d /\ SameUpTo(fs, Append(fs, d), Len(fs))
         /\ Len(fs) \in Nat /\ Append(fs, d) # <<>>
<1>1. /\ Append(fs, d) \in Seq(S) /\ Len(Append(fs, d)) = Len(fs) + 1
      /\ Append(fs, d)[Len(fs) + 1] = d /\ \A i \in 1 .. Len(fs) : Append(fs, d)[i] = fs[i]
      /\ Len(fs) \in Nat
  OBVIOUS
<1>2. Append(fs, d) # <<>>
  BY <1>1
<1> QED BY <1>1, <1>2 DEF SameUpTo

\* A frame gives way to one that fits.
LEMMA Replaced ==
  ASSUME NEW fs, StackOK(fs), NEW n \in 1 .. Len(fs), NEW d,
         Follows(fs[n], d), FrameOK(d), SavedFits(fs, n, d)
  PROVE  StackOK(Replace(fs, n, d))
<1> DEFINE hs == Replace(fs, n, d)
<1>1. fs \in Seq(FrameSet) /\ d \in FrameSet /\ SlotOK(fs, n)
  BY DEF StackOK, FrameOK
<1>2. hs \in Seq(FrameSet) /\ Len(hs) = n /\ hs[n] = d /\ SameUpTo(fs, hs, n - 1)
      /\ n \in Nat \ {0} /\ n - 1 \in Nat
  BY <1>1, ReplaceShape
<1> HIDE DEF hs
<1>3. ASSUME NEW k \in 1 .. n - 1 PROVE SlotOK(hs, k)
  <2>1. k \in Nat \ {0} /\ k \in 1 .. Len(fs) /\ SameUpTo(fs, hs, k)
    BY <1>2 DEF SameUpTo
  <2>2. SlotOK(fs, k)
    BY <2>1 DEF StackOK
  <2> QED BY <2>1, <2>2, SlotSame
<1>4. SlotOK(hs, n)
  <2>1. hs[n].thread = fs[n].thread /\ hs[n].under = fs[n].under /\ hs[n].mode = fs[n].mode
    BY <1>2 DEF Follows
  <2>2. n # 1 => hs[n - 1] = fs[n - 1] /\ n - 1 \in Nat \ {0} /\ SameUpTo(fs, hs, (n - 1) - 1)
    BY <1>2 DEF SameUpTo
  <2>3. n # 1 => Calls(hs[n - 1], hs[n])
    <3>1. n # 1 => Calls(fs[n - 1], fs[n])
      BY <1>1 DEF SlotOK
    <3>2. n # 1 => Calls(fs[n - 1], d)
      BY <3>1, FollowsCall
    <3> QED BY <1>2, <2>2, <3>2
  <2>4. n = 1 => hs[n].thread /\ hs[n].mode = "return"
    BY <1>1, <2>1 DEF SlotOK
  <2>5. d.phase \in {"test", "loop"} => BeforeItem(hs, n, d.saved.mLoopItem)
    BY <1>2, <2>1, BeforeSame DEF SavedFits
  <2>6. d.phase = "call" => BeforeFunc(hs, n, d.saved.CurrentFunc)
    BY <1>2, <2>1, BeforeSame DEF SavedFits
  <2>7. hs[n].thread /\ n # 1 => Seen(hs, n - 1, hs[n].under)
    <3>1. ASSUME n # 1 PROVE Seen(hs, n - 1, fs[n].under) <=> Seen(fs, n - 1, fs[n].under)
      <4> DEFINE k == n - 1
      <4>1. k \in Nat \ {0} /\ SameUpTo(fs, hs, k - 1) /\ hs[k].thread = fs[k].thread
        BY <2>2, <3>1
      <4> HIDE DEF k
      <4>2. Seen(hs, k, fs[n].under) <=> Seen(fs, k, fs[n].under)
        BY <4>1, BeforeSame
      <4> QED BY <4>2 DEF k
    <3>2. fs[n].thread /\ n # 1 => Seen(fs, n - 1, fs[n].under)
      BY <1>1 DEF SlotOK, SavedOK
    <3> QED BY <2>1, <3>1, <3>2
  <2>8. SavedOK(hs, n)
    BY <1>2, <2>5, <2>6, <2>7 DEF SavedOK
  <2> QED BY <1>2, <2>3, <2>4, <2>8 DEF SlotOK
<1>5. \A k \in 1 .. n : k = n \/ k \in 1 .. n - 1
  BY <1>2
<1>6. \A k \in 1 .. n : SlotOK(hs, k)
  BY <1>3, <1>4, <1>5
<1> QED BY <1>2, <1>6 DEF StackOK, hs

\* ... and that one runs on.
LEMMA FitsGood ==
  ASSUME NEW fs, StackOK(fs), NEW n \in 1 .. Len(fs), NEW d, NEW v, Fits(fs, n, d, v)
  PROVE  Good(Replace(fs, n, d), v)
<1> DEFINE hs == Replace(fs, n, d)
<1>1. fs \in Seq(FrameSet) /\ d \in FrameSet
  BY DEF StackOK, Fits, FrameOK
<1>2. StackOK(hs)
  BY Replaced DEF Fits
<1>3. hs \in Seq(FrameSet) /\ Len(hs) = n /\ hs[n] = d /\ SameUpTo(fs, hs, n - 1)
      /\ n \in Nat \ {0} /\ n - 1 \in Nat
  BY <1>1, ReplaceShape
<1> HIDE DEF hs
<1>4. hs[n].thread = fs[n].thread
  BY <1>3 DEF Fits, Follows
<1>5. Current(hs, n, d, v)
  <2>1. Current(fs, n, d, v)
    BY DEF Fits
  <2>2. Seen(hs, n, v) <=> Seen(fs, n, v)
    BY <1>3, <1>4, BeforeSame
  <2>3. BeforeFunc(hs, n, v.CurrentFunc) <=> BeforeFunc(fs, n, v.CurrentFunc)
    BY <1>3, <1>4, BeforeSame
  <2>4. BeforeItem(hs, n, v.mLoopItem) <=> BeforeItem(fs, n, v.mLoopItem)
    BY <1>3, <1>4, BeforeSame
  <2> QED BY <2>1, <2>2, <2>3, <2>4 DEF Current
<1>6. TopOK(hs, v)
  BY <1>3, <1>5 DEF TopOK
<1> QED BY <1>2, <1>6 DEF Good, Fits, hs

\* A new frame on top.
LEMMA Pushed ==
  ASSUME NEW fs, StackOK(fs), NEW d, FrameOK(d), d.phase = "line", NEW v \in Values,
         IF fs = <<>> THEN d.thread /\ d.mode = "return" ELSE Calls(fs[Len(fs)], d),
         d.thread => (fs # <<>> => Seen(fs, Len(fs), d.under)),
         IF d.thread THEN v.mLoopItem = 0 /\ ~v.CurrentFunc
         ELSE SeesItem(fs, Len(fs), v.mLoopItem) /\ SeesFunc(fs, Len(fs), v.CurrentFunc)
  PROVE  Good(Append(fs, d), v)
<1> DEFINE hs == Append(fs, d)
           m == Len(fs)
           n == m + 1
<1>1. fs \in Seq(FrameSet) /\ d \in FrameSet
  BY DEF StackOK, FrameOK
<1>2. hs \in Seq(FrameSet) /\ Len(hs) = n /\ hs[n] = d /\ SameUpTo(fs, hs, m) /\ m \in Nat
  BY <1>1, AppendShape
<1>3. n \in Nat \ {0} /\ n - 1 = m /\ (fs = <<>> <=> n = 1) /\ (n # 1 => m \in 1 .. m /\ m \in Nat \ {0})
      /\ \A k \in 1 .. n : k = n \/ k \in 1 .. m
  <2>1. m \in Nat /\ (fs = <<>> <=> m = 0)
    BY <1>1
  <2> QED BY <2>1
<1>a. fs = <<>> => d.thread /\ d.mode = "return"
  OBVIOUS
<1>b. fs # <<>> => Calls(fs[m], d)
  OBVIOUS
<1>c. d.thread /\ fs # <<>> => Seen(fs, m, d.under)
  OBVIOUS
<1>d. d.thread => v.mLoopItem = 0 /\ ~v.CurrentFunc
  OBVIOUS
<1>e. ~d.thread => SeesItem(fs, m, v.mLoopItem) /\ SeesFunc(fs, m, v.CurrentFunc)
  OBVIOUS
<1> HIDE DEF hs, n, m
<1>4. ASSUME NEW k \in 1 .. m PROVE SlotOK(hs, k)
  <2>1. k \in Nat \ {0} /\ SameUpTo(fs, hs, k)
    BY <1>2 DEF SameUpTo
  <2>2. SlotOK(fs, k)
    BY DEF StackOK, m
  <2> QED BY <2>1, <2>2, SlotSame
<1>5. SlotOK(hs, n)
  <2>1. n # 1 => hs[m] = fs[m]
    BY <1>2, <1>3 DEF SameUpTo
  <2>2. n # 1 => Calls(hs[n - 1], hs[n])
    BY <1>2, <1>3, <1>b, <2>1
  <2>3. hs[n].thread /\ n # 1 => Seen(hs, n - 1, hs[n].under)
    <3>1. ASSUME n # 1 PROVE Seen(hs, m, d.under) <=> Seen(fs, m, d.under)
      <4>1. m \in Nat \ {0} /\ SameUpTo(fs, hs, m - 1) /\ hs[m].thread = fs[m].thread
        BY <1>2, <1>3, <2>1, <3>1 DEF SameUpTo
      <4> QED BY <4>1, BeforeSame
    <3> QED BY <1>2, <1>3, <1>c, <3>1
  <2>4. SavedOK(hs, n)
    BY <1>2, <2>3 DEF SavedOK
  <2> QED BY <1>2, <1>3, <1>a, <2>2, <2>4 DEF SlotOK
<1>6. StackOK(hs)
  BY <1>2, <1>3, <1>4, <1>5 DEF StackOK
<1>7. Seen(hs, n, v)
  <2>1. SeesItem(hs, m, v.mLoopItem) <=> SeesItem(fs, m, v.mLoopItem)
    BY <1>2, SeesSame
  <2>2. SeesFunc(hs, m, v.CurrentFunc) <=> SeesFunc(fs, m, v.CurrentFunc)
    BY <1>2, SeesSame
  <2>3. BeforeItem(hs, n, v.mLoopItem)
    BY <1>2, <1>3, <1>d, <1>e, <2>1 DEF BeforeItem
  <2>4. BeforeFunc(hs, n, v.CurrentFunc)
    BY <1>2, <1>3, <1>d, <1>e, <2>2 DEF BeforeFunc
  <2> QED BY <2>3, <2>4 DEF Seen
<1>8. TopOK(hs, v)
  BY <1>2, <1>7 DEF TopOK, Current
<1> QED BY <1>6, <1>8 DEF Good, hs

\* The frames below a thread's base go on where they were interrupted.
LEMMA Popped ==
  ASSUME NEW fs, StackOK(fs), NEW n \in 1 .. Len(fs), fs[n].thread
  PROVE  Good(SubSeq(fs, 1, n - 1), fs[n].under)
<1> DEFINE hs == SubSeq(fs, 1, n - 1)
           m == n - 1
<1>1. fs \in Seq(FrameSet) /\ SlotOK(fs, n)
  BY DEF StackOK
<1>2. hs \in Seq(FrameSet) /\ Len(hs) = m /\ SameUpTo(fs, hs, m) /\ m \in Nat /\ n \in Nat \ {0}
  BY <1>1, PrefixSame
<1>3. \A k \in 1 .. m : k \in Nat \ {0} /\ k \in 1 .. Len(fs) /\ SameUpTo(fs, hs, k)
  BY <1>2 DEF SameUpTo
<1>4. fs[n].under \in Values
  BY <1>1 DEF SlotOK, FrameOK, FrameSet
<1>5. n # 1 => m \in Nat \ {0} /\ m \in 1 .. m /\ SameUpTo(fs, hs, m - 1)
  BY <1>2 DEF SameUpTo
<1>6. hs # <<>> => n # 1
  BY <1>2
<1>7. n - 1 = m
  OBVIOUS
<1> HIDE DEF hs, m
<1>8. StackOK(hs)
  <2>1. \A k \in 1 .. m : SlotOK(fs, k)
    BY <1>3 DEF StackOK
  <2>2. \A k \in 1 .. m : SlotOK(hs, k)
    BY <1>3, <2>1, SlotSame
  <2> QED BY <1>2, <2>2 DEF StackOK
<1>9. ASSUME n # 1 PROVE Current(hs, m, hs[m], fs[n].under)
  <2>1. hs[m] = fs[m]
    BY <1>2, <1>5, <1>9 DEF SameUpTo
  <2>2. Seen(fs, m, fs[n].under) /\ Calls(fs[m], fs[n])
    BY <1>1, <1>7, <1>9 DEF SlotOK, SavedOK
  <2>3. hs[m].phase = "line"
    BY <2>1, <2>2 DEF Calls
  <2>4. Seen(hs, m, fs[n].under)
    BY <1>5, <1>9, <2>1, <2>2, BeforeSame
  <2> QED BY <2>3, <2>4 DEF Current
<1>10. TopOK(hs, fs[n].under)
  BY <1>2, <1>6, <1>9 DEF TopOK
<1> QED BY <1>4, <1>8, <1>10 DEF Good, hs


-----------------------------------------------------------------------------
(* How the callers react to a frame's return.                              *)

Leaves(fs, n, r) == r \in Outcomes /\ Target(r.jump) /\ Seen(fs, n, r.g)
ReactsOK(fs, n, r) == IF r.stay THEN Fits(fs, n, r.frame, r.g) ELSE Leaves(fs, n, r)

LEMMA TargetLine ==
  ASSUME Ready, NEW j, Target(j)
  PROVE  j \in 0 .. LastLine(script) /\ (j # 0 => j = label /\ label # 0 /\ j \in Lines(script))
BY Sizes DEF Target

LEMMA PassOK ==
  ASSUME Ready, NEW fs, NEW n, NEW res \in Results, NEW jump, Target(jump), NEW v \in Values,
         Seen(fs, n, v)
  PROVE  ReactsOK(fs, n, Pass(res, jump, v)) /\ Pass(res, jump, v) \in Outcomes
<1>1. jump \in 0 .. LastLine(script)
  BY TargetLine
<1>2. Pass(res, jump, v) \in Outcomes
  BY <1>1 DEF Pass, Outcomes
<1>3. Pass(res, jump, v).stay = FALSE /\ Pass(res, jump, v).jump = jump /\ Pass(res, jump, v).g = v
  BY DEF Pass
<1> QED BY <1>2, <1>3 DEF ReactsOK, Leaves

LEMMA StayOK ==
  ASSUME NEW fs, NEW n, NEW d, NEW v, Fits(fs, n, d, v)
  PROVE  ReactsOK(fs, n, Stay(d, v))
<1>1. Stay(d, v).stay = TRUE /\ Stay(d, v).frame = d /\ Stay(d, v).g = v
  BY DEF Stay
<1> QED BY <1>1 DEF ReactsOK

\* The frame begins a line.
LEMMA AtFits ==
  ASSUME Ready, NEW fs, NEW n, FrameOK(fs[n]), NEW x \in Lines(script),
         fs[n].mode # "one" \/ ~Regular,
         Levelled(fs[n]) => GoesOn(script, parent, fs[n].line, x),
         AtHome(fs[n].line) => AtHome(x),
         NEW v \in Values, Seen(fs, n, v)
  PROVE  Fits(fs, n, At(fs[n], x), v)
<1> DEFINE d == At(fs[n], x)
<1>1. Follows(fs[n], d) /\ FrameOK(d) /\ d.phase = "line"
  BY AtLine DEF FrameOK, ReturnOK
<1> HIDE DEF d
<1> QED BY <1>1 DEF Fits, SavedFits, Current, d

LEMMA AgainFits ==
  ASSUME Ready, NEW fs, NEW n, FrameOK(fs[n]), fs[n].phase # "else",
         NEW v \in Values, Seen(fs, n, v)
  PROVE  Fits(fs, n, At(fs[n], fs[n].line), v)
<1> DEFINE d == At(fs[n], fs[n].line)
<1>1. Follows(fs[n], d) /\ FrameOK(d) /\ d.phase = "line"
  BY AtSameLine
<1> HIDE DEF d
<1> QED BY <1>1 DEF Fits, SavedFits, Current, d

\* A frame that is on its own level: so is a label whose line has the same parent.
LEMMA LabelOnLevel ==
  ASSUME Ready, NEW c, FrameOK(c), Levelled(c), label # 0, parent[label] = parent[c.line]
  PROVE  GoesOn(script, parent, c.line, label)
<1>1. label \in Lines(script) /\ c.line \in Lines(script)
  BY Sizes DEF FrameOK, FrameSet
<1>2. Level(script, c.line)
  BY DEF FrameOK, LevelOK, Levelled, OnLevel, Start
<1>3. Line(script, parent[c.line]) \notin OwnersAndElse
  BY <1>1, <1>2 DEF Ready, Linked, Links, LinksOfParents
<1>4. Level(script, label)
  <2> SUFFICES ASSUME ~Level(script, label) PROVE FALSE
    OBVIOUS
  <2>1. parent[label] = label - 1
    BY <1>1 DEF Ready, Linked, Links, LinksOfParents
  <2>2. Line(script, label - 1) \in OwnersAndElse
    BY DEF Level
  <2> QED BY <1>3, <2>1, <2>2
<1>5. Line(script, label) # "else"
  BY DEF Ready, LabelOK
<1> QED BY <1>1, <1>4, <1>5 DEF GoesOn, Start

LEMMA GoOnOK ==
  ASSUME Ready, NEW fs, NEW n, FrameOK(fs[n]), fs[n].mode # "one",
         NEW jump, Target(jump), NEW end \in Lines(script),
         Levelled(fs[n]) => GoesOn(script, parent, fs[n].line, end),
         AtHome(fs[n].line) => AtHome(end),
         NEW v \in Values, Seen(fs, n, v)
  PROVE  ReactsOK(fs, n, GoOn(fs[n], jump, end, v))
<1> DEFINE c == fs[n]
<1>1. CASE jump # 0 /\ parent[jump] # parent[c.line]
  <2>1. GoOn(c, jump, end, v) = Pass("OK", jump, v)
    BY <1>1 DEF GoOn
  <2>2. "OK" \in Results
    BY DEF Results
  <2> QED BY <2>1, <2>2, PassOK
<1>2. CASE ~(jump # 0 /\ parent[jump] # parent[c.line])
  <2> DEFINE x == IF jump # 0 THEN jump ELSE end
  <2>1. GoOn(c, jump, end, v) = Stay(At(c, x), v)
    BY <1>2 DEF GoOn
  <2>2. x \in Lines(script)
    BY TargetLine
  <2>3. Levelled(c) => GoesOn(script, parent, c.line, x)
    <3>1. CASE jump = 0
      BY <3>1
    <3>2. CASE jump # 0
      BY <1>2, <3>2, LabelOnLevel, TargetLine
    <3> QED BY <3>1, <3>2
  <2>4. AtHome(c.line) => AtHome(x)
    BY TargetLine DEF AtHome
  <2> HIDE DEF x
  <2>5. Fits(fs, n, At(fs[n], x), v)
    BY <2>2, <2>3, <2>4, AtFits
  <2> QED BY <2>1, <2>5, StayOK
<1> QED BY <1>1, <1>2

LEMMA AfterBodyOK ==
  ASSUME Ready, NEW fs, NEW n, FrameOK(fs[n]),
         NEW res \in Results, NEW jump, Target(jump), NEW end \in Lines(script),
         fs[n].mode # "one" /\ Levelled(fs[n]) => GoesOn(script, parent, fs[n].line, end),
         AtHome(fs[n].line) => AtHome(end),
         NEW v \in Values, Seen(fs, n, v)
  PROVE  ReactsOK(fs, n, AfterBody(fs[n], res, jump, end, v))
<1> DEFINE c == fs[n]
<1>1. CASE c.mode = "one"
  <2>1. AfterBody(c, res, jump, end, v) = Pass(res, jump, v)
    BY <1>1 DEF AfterBody
  <2> QED BY <2>1, PassOK
<1>2. CASE c.mode # "one" /\ res \in Unwinds
  <2>1. AfterBody(c, res, jump, end, v) = Pass(res, 0, v)
    BY <1>2 DEF AfterBody
  <2>2. Target(0)
    BY DEF Target
  <2> QED BY <2>1, <2>2, PassOK
<1>3. CASE c.mode # "one" /\ res \notin Unwinds
  <2>1. AfterBody(c, res, jump, end, v) = GoOn(c, jump, end, v)
    BY <1>3 DEF AfterBody
  <2> QED BY <1>3, <2>1, GoOnOK
<1> QED BY <1>1, <1>2, <1>3

\* What follows the statement at a line, by its kind.
LEMMA IfGoesOn ==
  ASSUME Ready, NEW l \in Lines(script), Line(script, l) = "if",
         NEW e, e = IF Line(script, related[l]) = "else" THEN related[related[l]] ELSE related[l]
  PROVE  /\ e \in Lines(script) /\ (Start(script, l) => GoesOn(script, parent, l, e))
         /\ AtHome(l) => AtHome(e)
<1>1. related[l] \in Lines(script)
  BY DEF Ready, Linked, Links, LinksOfOwners, OwnersAndElse, Owners
<1>2. Line(script, related[l]) = "else" => related[related[l]] \in Lines(script)
  BY <1>1 DEF Ready, Linked, Links, LinksOfOwners, OwnersAndElse
<1>3. Start(script, l) => GoesOn(script, parent, l, e)
  <2>1. LinksOfStarts(script, parent, related)
    BY DEF Ready, Linked, Links
  <2> QED BY <2>1 DEF LinksOfStarts
<1>4. AtHome(l) => AtHome(e)
  <2>1. LinksOfOpenBlocks(script, related)
    BY DEF Ready, Linked, Links
  <2>2. Line(script, l) \in OwnersAndElse
    BY DEF OwnersAndElse, Owners
  <2>3. OB(script, e) = OB(script, l)
    BY <1>1, <2>1, <2>2 DEF LinksOfOpenBlocks, OwnersAndElse
  <2> QED BY <2>3 DEF AtHome
<1> QED BY <1>1, <1>2, <1>3, <1>4

LEMMA RelatedGoesOn ==
  ASSUME Ready, NEW l \in Lines(script), Line(script, l) \in Opens \cup LoopKinds
  PROVE  /\ related[l] \in Lines(script)
         /\ Start(script, l) => GoesOn(script, parent, l, related[l])
         /\ AtHome(l) => AtHome(related[l])
<1>1. related[l] \in Lines(script)
  <2>1. CASE Line(script, l) \in Opens
    BY <2>1 DEF Ready, Linked, Links, LinksOfBlocks
  <2>2. CASE Line(script, l) \in LoopKinds
    BY <2>2 DEF Ready, Linked, Links, LinksOfOwners, OwnersAndElse, Owners
  <2> QED BY <2>1, <2>2
<1>2. Start(script, l) => GoesOn(script, parent, l, related[l])
  <2>1. LinksOfStarts(script, parent, related)
    BY DEF Ready, Linked, Links
  <2> QED BY <2>1 DEF LinksOfStarts
<1>3. AtHome(l) => AtHome(related[l])
  <2>1. LinksOfOpenBlocks(script, related)
    BY DEF Ready, Linked, Links
  <2>2. OB(script, related[l]) = OB(script, l)
    BY <2>1 DEF LinksOfOpenBlocks, OwnersAndElse, Owners
  <2> QED BY <2>2 DEF AtHome
<1> QED BY <1>1, <1>2, <1>3

PlainKinds == {"cmd", "gosub", "group", "call", "goto", "return", "break", "continue"}
LEMMA NextGoesOn ==
  ASSUME Ready, NEW l \in Lines(script), Line(script, l) \in PlainKinds
  PROVE  /\ l + 1 \in Lines(script) /\ (Start(script, l) => GoesOn(script, parent, l, l + 1))
         /\ AtHome(l) => AtHome(l + 1)
<1>1. Line(script, l) # "exit" /\ Line(script, l) \notin Owners \cup Opens \cup {"}", "else"}
  BY DEF PlainKinds, Owners, Opens, LoopKinds
<1>2. l + 1 \in Lines(script) /\ l \in 1 .. LastLine(script) - 1
  BY <1>1, NextLine
<1>3. Simple(script, l)
  BY <1>1, <1>2 DEF Simple
<1>4. Start(script, l) => GoesOn(script, parent, l, l + 1)
  BY <1>3 DEF Ready, Linked, Links, LinksOfStarts
<1>5. OB(script, l + 1) = OB(script, l)
  BY <1>3 DEF Ready, Linked, Links, LinksOfOpenBlocks
<1> QED BY <1>2, <1>4, <1>5 DEF AtHome

\* A frame on its own level stands where a statement begins.
LEMMA LevelledStart ==
  ASSUME NEW c, FrameOK(c), Levelled(c), c.phase # "else"
  PROVE  Start(script, c.line)
BY DEF FrameOK, LevelOK, Levelled, OnLevel

LEMMA AfterIfOK ==
  ASSUME Ready, NEW fs, NEW n, FrameOK(fs[n]), fs[n].phase = "if",
         NEW res \in Results, NEW jump, Target(jump), NEW v \in Values, Seen(fs, n, v)
  PROVE  ReactsOK(fs, n, AfterIf(fs[n], res, jump, v))
<1> DEFINE c == fs[n]
           r == related[c.line]
           e == IF Line(script, r) = "else" THEN related[r] ELSE r
<1>1. c.line \in Lines(script) /\ Line(script, c.line) = "if" /\ c.phase # "else"
  BY DEF FrameOK, FrameSet, PhaseOK
<1>2. CASE jump = c.line
  <2>1. AfterIf(c, res, jump, v) = Stay(At(c, c.line), v)
    BY <1>2 DEF AfterIf
  <2> QED BY <1>1, <2>1, AgainFits, StayOK
<1>3. CASE jump # c.line
  <2>1. AfterIf(c, res, jump, v) = AfterBody(c, res, jump, e, v)
    BY <1>3 DEF AfterIf
  <2>2. /\ e \in Lines(script) /\ (Start(script, c.line) => GoesOn(script, parent, c.line, e))
        /\ AtHome(c.line) => AtHome(e)
    BY <1>1, IfGoesOn
  <2>3. Levelled(c) => Start(script, c.line)
    BY <1>1, LevelledStart
  <2> HIDE DEF e
  <2> QED BY <2>1, <2>2, <2>3, AfterBodyOK
<1> QED BY <1>2, <1>3

LEMMA AfterElseOK ==
  ASSUME Ready, NEW fs, NEW n, FrameOK(fs[n]), fs[n].phase = "else",
         NEW res \in Results, NEW jump, Target(jump), NEW v \in Values, Seen(fs, n, v)
  PROVE  ReactsOK(fs, n, AfterElse(fs[n], res, jump, v))
<1> DEFINE c == fs[n]
           e == related[c.line]
<1>1. c.line \in Lines(script) /\ Line(script, c.line) = "else"
  BY DEF FrameOK, FrameSet, PhaseOK
<1>2. AfterElse(c, res, jump, v) = AfterBody(c, res, jump, e, v)
  BY DEF AfterElse
<1>3. e \in Lines(script) /\ (Level(script, c.line) => parent[e] = parent[c.line])
  BY <1>1 DEF Ready, Linked, Links, LinksOfOwners, OwnersAndElse
<1>4. Levelled(c) => Level(script, c.line) /\ Start(script, e)
  BY DEF FrameOK, LevelOK, Levelled, OnLevel
<1>5. OB(script, e) = OB(script, c.line)
  BY <1>1 DEF Ready, Linked, Links, LinksOfOpenBlocks, OwnersAndElse
<1> HIDE DEF e
<1>6. Levelled(c) => GoesOn(script, parent, c.line, e)
  BY <1>3, <1>4 DEF GoesOn
<1>7. AtHome(c.line) => AtHome(e)
  BY <1>5 DEF AtHome
<1> QED BY <1>2, <1>3, <1>6, <1>7, AfterBodyOK

LEMMA AfterBlockOK ==
  ASSUME Ready, NEW fs, NEW n, FrameOK(fs[n]), fs[n].phase = "block",
         NEW res \in Results, NEW jump, Target(jump), NEW v \in Values, Seen(fs, n, v)
  PROVE  ReactsOK(fs, n, AfterBlock(fs[n], res, jump, v))
<1> DEFINE c == fs[n]
           e == related[c.line]
<1>1. c.line \in Lines(script) /\ Line(script, c.line) = "{" /\ c.phase # "else"
  BY DEF FrameOK, FrameSet, PhaseOK
<1>2. CASE jump = c.line
  <2>1. AfterBlock(c, res, jump, v) = Stay(At(c, c.line), v)
    BY <1>2 DEF AfterBlock
  <2> QED BY <1>1, <2>1, AgainFits, StayOK
<1>3. CASE jump # c.line
  <2>1. AfterBlock(c, res, jump, v) = AfterBody(c, res, jump, e, v)
    BY <1>3 DEF AfterBlock
  <2>2. /\ e \in Lines(script) /\ (Start(script, c.line) => GoesOn(script, parent, c.line, e))
        /\ AtHome(c.line) => AtHome(e)
    BY <1>1, RelatedGoesOn DEF Opens
  <2>3. Levelled(c) => Start(script, c.line)
    BY <1>1, LevelledStart
  <2> HIDE DEF e
  <2> QED BY <2>1, <2>2, <2>3, AfterBodyOK
<1> QED BY <1>2, <1>3


\* What the callee of the n-th frame has left in the settings.
LeftBy(fs, n, v) == SeesItem(fs, n, v.mLoopItem) /\ SeesFunc(fs, n, v.CurrentFunc)

LEMMA OnwardSeen ==
  ASSUME NEW fs, NEW n \in Nat \ {0}, NEW v \in Values, LeftBy(fs, n, v)
  PROVE  /\ ~Item(fs[n]) => BeforeItem(fs, n, v.mLoopItem)
         /\ fs[n].phase # "call" => BeforeFunc(fs, n, v.CurrentFunc)
<1>1. v.CurrentFunc \in BOOLEAN
  BY DEF Values
<1> QED BY <1>1, ItemOnward, FuncOnward DEF LeftBy

\* d is the frame c but for what a loop notes about its own end.
Twin(c, d) ==
  /\ d \in FrameSet /\ d.line = c.line /\ d.mode = c.mode /\ d.thread = c.thread
  /\ d.under = c.under /\ d.saved = c.saved /\ d.phase = c.phase /\ Target(d.jump)

LEMMA AfterLoopOK ==
  ASSUME Ready, NEW fs, NEW n \in Nat \ {0}, FrameOK(fs[n]), SavedOK(fs, n),
         fs[n].phase \in {"test", "loop"}, NEW d, Twin(fs[n], d),
         NEW res \in Results, NEW v0 \in Values, BeforeFunc(fs, n, v0.CurrentFunc)
  PROVE  ReactsOK(fs, n, AfterLoop(d, res, v0))
<1> DEFINE c == fs[n]
           v == [v0 EXCEPT !.mLoopIteration = d.saved.mLoopIteration,
                           !.mLoopItem = d.saved.mLoopItem]
           e == related[c.line]
<1>1. c.line \in Lines(script) /\ Line(script, c.line) \in LoopKinds /\ c.phase # "else"
      /\ c.saved \in Values
  BY DEF FrameOK, FrameSet, PhaseOK
<1>2. v \in Values /\ v.mLoopItem = c.saved.mLoopItem /\ v.CurrentFunc = v0.CurrentFunc
  BY <1>1 DEF Values, Twin
<1>3. Seen(fs, n, v)
  BY <1>2 DEF SavedOK, Seen
<1>4. /\ e \in Lines(script) /\ (Start(script, c.line) => GoesOn(script, parent, c.line, e))
      /\ AtHome(c.line) => AtHome(e)
  BY <1>1, RelatedGoesOn
<1>5. Levelled(c) => Start(script, c.line)
  BY <1>1, LevelledStart
<1>6. \A x : At(d, x) = At(c, x)
  BY DEF At, Twin
<1>7. GoOn(d, d.jump, related[d.line], v) = GoOn(c, d.jump, e, v)
  BY <1>6 DEF GoOn, Twin
<1> HIDE DEF v, e
<1>8. AfterLoop(d, res, v0) =
        IF res \in Aborts THEN Pass(res, 0, v)
        ELSE IF d.cont THEN Stay(At(d, d.line), v)
        ELSE IF d.mode = "one" THEN Pass("OK", d.jump, v)
        ELSE GoOn(d, d.jump, related[d.line], v)
  BY DEF AfterLoop, v
<1>9. "OK" \in Results /\ Target(0) /\ Target(d.jump) /\ d.mode = c.mode /\ d.line = c.line
  BY DEF Results, Target, Twin
<1>10. CASE res \in Aborts
  BY <1>2, <1>3, <1>8, <1>9, <1>10, PassOK
<1>11. CASE res \notin Aborts /\ d.cont
  <2>1. Fits(fs, n, At(c, c.line), v)
    BY <1>1, <1>2, <1>3, AgainFits
  <2> QED BY <1>6, <1>8, <1>9, <1>11, <2>1, StayOK
<1>12. CASE res \notin Aborts /\ ~d.cont /\ d.mode = "one"
  BY <1>2, <1>3, <1>8, <1>9, <1>12, PassOK
<1>13. CASE res \notin Aborts /\ ~d.cont /\ d.mode # "one"
  <2>1. AfterLoop(d, res, v0) = GoOn(c, d.jump, e, v)
    BY <1>7, <1>8, <1>13
  <2> QED BY <1>2, <1>3, <1>4, <1>5, <1>9, <1>13, <2>1, GoOnOK
<1> QED BY <1>10, <1>11, <1>12, <1>13

LEMMA AfterIterationOK ==
  ASSUME Ready, NEW fs, NEW n \in Nat \ {0}, FrameOK(fs[n]), SavedOK(fs, n),
         fs[n].phase = "loop", NEW res \in Results, NEW jump, Target(jump),
         NEW v \in Values, LeftBy(fs, n, v)
  PROVE  ReactsOK(fs, n, AfterIteration(fs[n], res, jump, v))
<1> DEFINE c == fs[n]
           d == IF jump = 0 THEN c
                ELSE IF jump = c.line THEN [c EXCEPT !.cont = TRUE] ELSE [c EXCEPT !.jump = jump]
           w == IF jump # 0 THEN v ELSE [v EXCEPT !.mLoopIteration = @ + 1]
           t == [d EXCEPT !.phase = "test"]
<1>1. c \in FrameSet /\ Line(script, c.line) \in LoopKinds /\ Target(c.jump)
  BY DEF FrameOK, FrameSet, PhaseOK
<1>2. jump \in 0 .. LastLine(script)
  BY TargetLine
<1>3. Twin(c, c)
  BY <1>1 DEF Twin
<1>4. Twin(c, d)
  <2>1. CASE jump = 0
    BY <1>3, <2>1
  <2>2. CASE jump # 0 /\ jump = c.line
    <3>1. d = [c EXCEPT !.cont = TRUE]
      BY <2>2
    <3> HIDE DEF d
    <3> QED BY <1>1, <3>1 DEF Twin, FrameSet
  <2>3. CASE jump # 0 /\ jump # c.line
    <3>1. d = [c EXCEPT !.jump = jump]
      BY <2>3
    <3> HIDE DEF d
    <3> QED BY <1>1, <1>2, <3>1 DEF Twin, FrameSet
  <2> QED BY <2>1, <2>2, <2>3
<1>5. BeforeFunc(fs, n, v.CurrentFunc) /\ (Line(script, c.line) = "loop" => BeforeItem(fs, n, v.mLoopItem))
  BY OnwardSeen DEF Item
<1>6. w \in Values /\ w.CurrentFunc = v.CurrentFunc /\ w.mLoopItem = v.mLoopItem
  BY DEF Values
<1> HIDE DEF d, w
<1>7. t \in FrameSet /\ t.phase = "test" /\ t.line = c.line /\ t.mode = c.mode /\ t.thread = c.thread
      /\ t.under = c.under /\ t.saved = c.saved /\ Target(t.jump)
  BY <1>4 DEF Twin, FrameSet, Phases
<1> HIDE DEF t
<1>8. AfterIteration(c, res, jump, v) =
        IF res \in Aborts \cup {"LOOP_BREAK"} THEN AfterLoop(c, res, v)
        ELSE IF jump # 0 /\ Line(script, c.line) # "files" THEN AfterLoop(d, "OK", v)
        ELSE Stay(t, w)
  BY DEF AfterIteration, d, w, t
<1>9. ReactsOK(fs, n, AfterLoop(c, res, v))
  BY <1>3, <1>5, AfterLoopOK
<1>10. ReactsOK(fs, n, AfterLoop(d, "OK", v))
  <2>1. "OK" \in Results
    BY DEF Results
  <2> QED BY <1>4, <1>5, <2>1, AfterLoopOK
<1>11. ReactsOK(fs, n, Stay(t, w))
  <2>1. PhaseOK(t)
    BY <1>1, <1>7 DEF PhaseOK
  <2>2. Follows(c, t) /\ FrameOK(t)
    BY <1>7, <2>1, SameLine
  <2>3. SavedFits(fs, n, t)
    BY <1>7 DEF SavedOK, SavedFits
  <2>4. Current(fs, n, t, w)
    BY <1>5, <1>6, <1>7 DEF Current
  <2>5. Fits(fs, n, t, w)
    BY <1>6, <2>2, <2>3, <2>4 DEF Fits
  <2> QED BY <2>5, StayOK
<1> QED BY <1>8, <1>9, <1>10, <1>11

LEMMA AfterGosubOK ==
  ASSUME Ready, NEW fs, NEW n \in Nat \ {0}, FrameOK(fs[n]),
         fs[n].phase = "gosub", NEW res \in Results, NEW v0 \in Values, Seen(fs, n, v0)
  PROVE  ReactsOK(fs, n, AfterGosub(fs[n], res, v0))
<1> DEFINE c == fs[n]
           v == [v0 EXCEPT !.CurrentLabel = c.saved.CurrentLabel]
<1>1. c.line \in Lines(script) /\ Line(script, c.line) \in PlainKinds /\ c.phase # "else"
      /\ c.saved \in Values
  BY DEF FrameOK, FrameSet, PhaseOK, PlainKinds
<1>2. v \in Values /\ v.mLoopItem = v0.mLoopItem /\ v.CurrentFunc = v0.CurrentFunc
  BY <1>1 DEF Values
<1>3. Seen(fs, n, v)
  BY <1>2 DEF Seen
<1>4. Target(0) /\ "OK" \in Results
  BY DEF Target, Results
<1> HIDE DEF v
<1>5. AfterGosub(c, res, v0) =
        IF res \in {"FAIL", "EARLY_EXIT"} THEN Pass(res, 0, v)
        ELSE IF c.mode = "one" THEN Pass(IF res = "EARLY_RETURN" THEN "OK" ELSE res, 0, v)
        ELSE Stay(At(c, c.line + 1), v)
  BY DEF AfterGosub, v
<1>6. CASE res \in {"FAIL", "EARLY_EXIT"}
  BY <1>2, <1>3, <1>4, <1>5, <1>6, PassOK
<1>7. CASE res \notin {"FAIL", "EARLY_EXIT"} /\ c.mode = "one"
  <2> DEFINE q == IF res = "EARLY_RETURN" THEN "OK" ELSE res
  <2>1. q \in Results
    BY <1>4
  <2>2. AfterGosub(c, res, v0) = Pass(q, 0, v)
    BY <1>5, <1>7
  <2> HIDE DEF q
  <2> QED BY <1>2, <1>3, <1>4, <2>1, <2>2, PassOK
<1>8. CASE res \notin {"FAIL", "EARLY_EXIT"} /\ c.mode # "one"
  <2>1. AfterGosub(c, res, v0) = Stay(At(c, c.line + 1), v)
    BY <1>5, <1>8
  <2>2. /\ c.line + 1 \in Lines(script)
        /\ Start(script, c.line) => GoesOn(script, parent, c.line, c.line + 1)
        /\ AtHome(c.line) => AtHome(c.line + 1)
    BY <1>1, NextGoesOn
  <2>3. Levelled(c) => Start(script, c.line)
    BY <1>1, LevelledStart
  <2> DEFINE x == c.line + 1
  <2>4. /\ x \in Lines(script) /\ (Levelled(c) => GoesOn(script, parent, c.line, x))
        /\ AtHome(c.line) => AtHome(x)
    BY <2>2, <2>3
  <2> HIDE DEF x
  <2>5. Fits(fs, n, At(c, x), v)
    BY <1>2, <1>3, <1>8, <2>4, AtFits
  <2>6. ReactsOK(fs, n, Stay(At(c, x), v))
    BY <2>5, StayOK
  <2> QED BY <2>1, <2>6 DEF x
<1> QED BY <1>6, <1>7, <1>8

LEMMA CalledFits ==
  ASSUME Ready, NEW fs, NEW n, FrameOK(fs[n]), fs[n].phase # "else",
         Line(script, fs[n].line) = "call", NEW v \in Values, Seen(fs, n, v)
  PROVE  Fits(fs, n, [At(fs[n], fs[n].line) EXCEPT !.phase = "called"], v)
<1> DEFINE c == fs[n]
           d == At(c, c.line)
           t == [d EXCEPT !.phase = "called"]
<1>1. c.line \in Lines(script) /\ c.mode \in Modes /\ c.thread \in BOOLEAN /\ c.under \in Values
  BY DEF FrameSet, FrameOK
<1>2. d \in FrameSet
  BY <1>1, FrameInSet DEF At
<1>3. /\ d.line = c.line /\ d.mode = c.mode /\ d.thread = c.thread /\ d.under = c.under /\ d.jump = 0
  BY DEF At, Frame
<1> HIDE DEF d
<1>4. t \in FrameSet /\ t.phase = "called" /\ t.line = c.line /\ t.mode = c.mode
      /\ t.thread = c.thread /\ t.under = c.under /\ Target(t.jump)
  BY <1>2, <1>3 DEF FrameSet, Phases, Target
<1> HIDE DEF t
<1>5. PhaseOK(t)
  BY <1>4 DEF PhaseOK
<1>6. Follows(c, t) /\ FrameOK(t)
  BY <1>4, <1>5, SameLine
<1>7. Fits(fs, n, t, v)
  BY <1>4, <1>6 DEF Fits, SavedFits, Current
<1> QED BY <1>7 DEF t, d

LEMMA AfterCallOK ==
  ASSUME Ready, NEW fs, NEW n \in Nat \ {0}, FrameOK(fs[n]), SavedOK(fs, n),
         fs[n].phase = "call", NEW res \in Results, NEW v0 \in Values, LeftBy(fs, n, v0)
  PROVE  ReactsOK(fs, n, AfterCall(fs[n], res, v0))
<1> DEFINE c == fs[n]
           v == [v0 EXCEPT !.CurrentFunc = c.saved.CurrentFunc]
<1>1. Line(script, c.line) = "call" /\ c.phase # "else" /\ c.saved \in Values /\ ~Item(c)
  BY DEF FrameOK, FrameSet, PhaseOK, Item
<1>2. v \in Values /\ v.mLoopItem = v0.mLoopItem /\ v.CurrentFunc = c.saved.CurrentFunc
  BY <1>1 DEF Values
<1>3. Seen(fs, n, v)
  <2>1. BeforeItem(fs, n, v0.mLoopItem)
    BY <1>1, OnwardSeen
  <2>2. BeforeFunc(fs, n, c.saved.CurrentFunc)
    BY DEF SavedOK
  <2> QED BY <1>2, <2>1, <2>2 DEF Seen
<1>4. Target(0)
  BY DEF Target
<1> HIDE DEF v
<1>5. AfterCall(c, res, v0) =
        IF res \in {"FAIL", "EARLY_EXIT"} THEN Pass(res, 0, v)
        ELSE Stay([At(c, c.line) EXCEPT !.phase = "called"], v)
  BY DEF AfterCall, v
<1>6. CASE res \in {"FAIL", "EARLY_EXIT"}
  BY <1>2, <1>3, <1>4, <1>5, <1>6, PassOK
<1>7. CASE res \notin {"FAIL", "EARLY_EXIT"}
  <2>1. Fits(fs, n, [At(c, c.line) EXCEPT !.phase = "called"], v)
    BY <1>1, <1>2, <1>3, CalledFits
  <2> QED BY <1>5, <1>7, <2>1, StayOK
<1> QED BY <1>6, <1>7

CallPhases == OwnerPhases \cup {"block", "gosub", "call"}
LEMMA CallerOK ==
  ASSUME Ready, NEW fs, NEW n \in Nat \ {0}, FrameOK(fs[n]), SavedOK(fs, n),
         fs[n].phase \in CallPhases, NEW res \in Results, NEW jump, Target(jump),
         NEW v \in Values, LeftBy(fs, n, v)
  PROVE  ReactsOK(fs, n, Caller(fs[n], res, jump, v))
<1> DEFINE c == fs[n]
<1>1. c.phase \notin {"loop", "call"} => Seen(fs, n, v)
  BY OnwardSeen DEF Item, Seen
<1>2. c.phase \in {"if", "else", "loop", "block", "gosub", "call"}
  BY DEF CallPhases, OwnerPhases
<1>3. CASE c.phase = "if"
  <2>1. Caller(c, res, jump, v) = AfterIf(c, res, jump, v)
    BY <1>3 DEF Caller
  <2> QED BY <1>1, <1>3, <2>1, AfterIfOK
<1>4. CASE c.phase = "else"
  <2>1. Caller(c, res, jump, v) = AfterElse(c, res, jump, v)
    BY <1>4 DEF Caller
  <2> QED BY <1>1, <1>4, <2>1, AfterElseOK
<1>5. CASE c.phase = "block"
  <2>1. Caller(c, res, jump, v) = AfterBlock(c, res, jump, v)
    BY <1>5 DEF Caller
  <2> QED BY <1>1, <1>5, <2>1, AfterBlockOK
<1>6. CASE c.phase = "loop"
  <2>1. Caller(c, res, jump, v) = AfterIteration(c, res, jump, v)
    BY <1>6 DEF Caller
  <2> QED BY <1>6, <2>1, AfterIterationOK
<1>7. CASE c.phase = "gosub"
  <2>1. Caller(c, res, jump, v) = AfterGosub(c, res, v)
    BY <1>7 DEF Caller
  <2> QED BY <1>1, <1>7, <2>1, AfterGosubOK
<1>8. CASE c.phase = "call"
  <2>1. Caller(c, res, jump, v) = AfterCall(c, res, v)
    BY <1>8 DEF Caller
  <2> QED BY <1>8, <2>1, AfterCallOK
<1> QED BY <1>2, <1>3, <1>4, <1>5, <1>6, <1>7, <1>8


-----------------------------------------------------------------------------
(* The callers of a frame that returns, one after the other.               *)

Reaction(fs, n, o) == Caller(fs[n - 1], o.res, o.jump, o.g)
UnwindStep(fs, f, n) ==
  [o \in Outcomes |->
     IF fs[n].thread THEN [frames |-> SubSeq(fs, 1, n - 1), g |-> fs[n].under]
     ELSE IF Reaction(fs, n, o).stay
          THEN [frames |-> Append(SubSeq(fs, 1, n - 2), Reaction(fs, n, o).frame),
                g |-> Reaction(fs, n, o).g]
          ELSE f[n - 1][Reaction(fs, n, o)]]
UnwindBody(fs, f) == [n \in 1 .. Len(fs) |-> UnwindStep(fs, f, n)]
Unwinding(fs) == CHOOSE f : f = UnwindBody(fs, f)

LEMMA UnwoundIs ==
  ASSUME NEW fs, NEW res, NEW jump, NEW v
  PROVE  Unwound(fs, res, jump, v) = Unwinding(fs)[Len(fs)][Pass(res, jump, v)]
BY DEF Unwound, Unwinding, UnwindBody, UnwindStep, Reaction

\* The bottom of the stack is the base of a thread.
Based(fs) == fs[1].thread

LEMMA UnwindingExists ==
  ASSUME NEW S, NEW fs \in Seq(S), Based(fs)
  PROVE  Unwinding(fs) = UnwindBody(fs, Unwinding(fs))
<1> DEFINE M == Len(fs)
           Ok(m, f) == f = [n \in 1 .. m |-> UnwindStep(fs, f, n)]
           T == {m \in 0 .. M : \E f : Ok(m, f)}
<1>1. M \in Nat
  OBVIOUS
<1>2. 0 \in T
  <2>1. 1 .. 0 = {}
    OBVIOUS
  <2> DEFINE f == [n \in 1 .. 0 |-> 0]
  <2>2. Ok(0, f)
    BY <2>1
  <2> HIDE DEF f, M, Ok
  <2>3. 0 \in 0 .. M
    BY <1>1
  <2> QED BY <2>2, <2>3
<1>3. ASSUME NEW m \in 0 .. M - 1, m \in T PROVE m + 1 \in T
  <2>1. PICK f : Ok(m, f)
    BY <1>3
  <2> DEFINE k == m + 1
             h == [n \in 1 .. k |-> IF n = k THEN UnwindStep(fs, f, k) ELSE f[n]]
  <2>2. k \in 0 .. M /\ \A n \in 1 .. k : n = k \/ (n \in 1 .. m /\ n # k)
    BY <1>1
  <2>3. \A n \in 1 .. k : n # 1 => n - 1 \in 1 .. k /\ n - 1 \in 1 .. m /\ n - 1 # k
    BY <1>1
  <2>4. ASSUME NEW n \in 1 .. k PROVE UnwindStep(fs, h, n) = UnwindStep(fs, f, n)
    <3>1. n # 1 => h[n - 1] = f[n - 1]
      BY <2>3
    <3> HIDE DEF h, k
    <3>2. CASE n = 1
      <4>1. fs[n].thread
        BY <3>2 DEF Based
      <4> QED BY <4>1 DEF UnwindStep
    <3>3. CASE n # 1
      BY <3>1, <3>3 DEF UnwindStep
    <3> QED BY <3>2, <3>3
  <2>5. ASSUME NEW n \in 1 .. k PROVE h[n] = UnwindStep(fs, f, n)
    <3>1. CASE n = k
      BY <3>1
    <3>2. CASE n # k
      <4>1. h[n] = f[n] /\ n \in 1 .. m
        BY <2>2, <3>2
      <4>2. [x \in 1 .. m |-> UnwindStep(fs, f, x)][n] = UnwindStep(fs, f, n)
        BY <4>1
      <4>3. f[n] = UnwindStep(fs, f, n)
        BY <2>1, <4>2
      <4> QED BY <4>1, <4>3
    <3> QED BY <3>1, <3>2
  <2>6. h = [n \in 1 .. k |-> h[n]]
    OBVIOUS
  <2> HIDE DEF h
  <2>7. Ok(k, h)
    BY <2>4, <2>5, <2>6
  <2> QED BY <2>2, <2>7
<1>4. M \in T
  <2> HIDE DEF T, M
  <2>1. \A m \in 0 .. M : m \in T
    BY <1>1, <1>2, <1>3, Induction
  <2> QED BY <1>1, <2>1
<1>5. PICK f : f = UnwindBody(fs, f)
  BY <1>4 DEF UnwindBody
<1>6. Unwinding(fs) = CHOOSE h : h = UnwindBody(fs, h)
  BY DEF Unwinding
<1> QED BY <1>5, <1>6, Zenon

LEMMA UnwoundGood ==
  ASSUME Ready, NEW fs, StackOK(fs), fs # <<>>, NEW res \in Results, NEW jump, Target(jump),
         NEW v \in Values, Seen(fs, Len(fs), v)
  PROVE  Good(Unwound(fs, res, jump, v).frames, Unwound(fs, res, jump, v).g)
<1> DEFINE U == Unwinding(fs)
           M == Len(fs)
           Ok(n) == \A o \in Outcomes : Target(o.jump) /\ Seen(fs, n, o.g) =>
                                          Good(U[n][o].frames, U[n][o].g)
           T == {n \in 0 .. M : n # 0 => Ok(n)}
<1>1. fs \in Seq(FrameSet) /\ \A n \in 1 .. M : SlotOK(fs, n)
  BY DEF StackOK
<1>2. M \in Nat /\ M # 0 /\ 1 \in 1 .. M
  BY <1>1
<1>3. U = UnwindBody(fs, U)
  <2>1. Based(fs)
    BY <1>1, <1>2 DEF SlotOK, Based
  <2> QED BY <1>1, <2>1, UnwindingExists
<1> HIDE DEF U
<1>4. ASSUME NEW n \in 1 .. M PROVE U[n] = UnwindStep(fs, U, n)
  BY <1>3 DEF UnwindBody
<1>5. ASSUME NEW m \in 0 .. M - 1, m \in T PROVE m + 1 \in T
  <2> DEFINE n == m + 1
  <2>1. n \in 1 .. M /\ n \in 0 .. M /\ n - 1 = m /\ (n # 1 => m \in 1 .. M /\ m \in Nat \ {0})
        /\ n - 2 = m - 1
    BY <1>2
  <2>2. m # 0 => Ok(m)
    BY <1>5
  <2>3. (n # 1 <=> m # 0)
    OBVIOUS
  <2> HIDE DEF n
  <2>4. SlotOK(fs, n) /\ (n # 1 => SlotOK(fs, m))
    BY <1>1, <2>1
  <2>5. ASSUME NEW o \in Outcomes, Target(o.jump), Seen(fs, n, o.g)
        PROVE  Good(U[n][o].frames, U[n][o].g)
    <3> DEFINE r == Reaction(fs, n, o)
    <3>1. CASE fs[n].thread
      <4>1. U[n][o] = [frames |-> SubSeq(fs, 1, n - 1), g |-> fs[n].under]
        <5>1. U[n] = UnwindStep(fs, U, n)
          BY <1>4, <2>1
        <5>2. UnwindStep(fs, U, n)[o] = [frames |-> SubSeq(fs, 1, n - 1), g |-> fs[n].under]
          BY <3>1 DEF UnwindStep
        <5> QED BY <5>1, <5>2
      <4>2. Good(SubSeq(fs, 1, n - 1), fs[n].under)
        BY <2>1, <3>1, Popped
      <4> QED BY <4>1, <4>2
    <3>2. CASE ~fs[n].thread
      <4>1. n # 1 /\ Calls(fs[m], fs[n]) /\ SlotOK(fs, m)
        BY <2>1, <2>4, <3>2 DEF SlotOK
      <4>2. fs[m].phase \in CallPhases
        BY <3>2, <4>1 DEF Calls, CallOf, CallPhases
      <4>3. LeftBy(fs, m, o.g)
        BY <2>1, <2>5, <3>2 DEF Seen, BeforeItem, BeforeFunc, LeftBy
      <4>4. o.res \in Results /\ o.g \in Values
        BY DEF Outcomes
      <4>5. r = Caller(fs[m], o.res, o.jump, o.g)
        BY <2>1 DEF Reaction
      <4>6. m \in Nat \ {0} /\ FrameOK(fs[m]) /\ SavedOK(fs, m) /\ m \in 1 .. M
        BY <2>1, <4>1 DEF SlotOK
      <4> HIDE DEF r
      <4>7. ReactsOK(fs, m, r)
        BY <2>5, <4>2, <4>3, <4>4, <4>5, <4>6, CallerOK
      <4>8. U[n][o] = IF r.stay THEN [frames |-> Append(SubSeq(fs, 1, n - 2), r.frame), g |-> r.g]
                      ELSE U[m][r]
        <5>1. U[n] = UnwindStep(fs, U, n)
          BY <1>4, <2>1
        <5>2. UnwindStep(fs, U, n)[o] =
                IF r.stay THEN [frames |-> Append(SubSeq(fs, 1, n - 2), r.frame), g |-> r.g]
                ELSE U[n - 1][r]
          BY <3>2 DEF UnwindStep, r
        <5> HIDE DEF T
        <5> QED BY <2>1, <5>1, <5>2
      <4>9. CASE r.stay
        <5>1. Good(Replace(fs, m, r.frame), r.g)
          BY <4>6, <4>7, <4>9, FitsGood DEF ReactsOK
        <5>2. Replace(fs, m, r.frame) = Append(SubSeq(fs, 1, n - 2), r.frame)
          BY <2>1 DEF Replace
        <5> QED BY <4>8, <4>9, <5>1, <5>2
      <4>10. CASE ~r.stay
        <5>1. r \in Outcomes /\ Target(r.jump) /\ Seen(fs, m, r.g)
          BY <4>7, <4>10 DEF ReactsOK, Leaves
        <5>2. Ok(m)
          BY <2>2, <2>3, <4>1
        <5> QED BY <4>8, <4>10, <5>1, <5>2
      <4> QED BY <4>9, <4>10
    <3> QED BY <3>1, <3>2
  <2>6. Ok(n)
    BY <2>5
  <2> HIDE DEF Ok
  <2>7. n \in T
    BY <2>1, <2>6
  <2> QED BY <2>7 DEF n
<1>6. 0 \in T
  BY <1>2
<1>7. Ok(M)
  <2> HIDE DEF Ok, M
  <2>1. M \in T
    <3> HIDE DEF T
    <3>1. \A n \in 0 .. M : n \in T
      BY <1>2, <1>5, <1>6, Induction
    <3> QED BY <1>2, <3>1
  <2> QED BY <1>2, <2>1
<1>8. Pass(res, jump, v) \in Outcomes /\ Pass(res, jump, v).jump = jump /\ Pass(res, jump, v).g = v
  <2>1. Pass(res, jump, v) \in Outcomes
    BY PassOK
  <2> QED BY <2>1 DEF Pass
<1>9. Good(U[M][Pass(res, jump, v)].frames, U[M][Pass(res, jump, v)].g)
  BY <1>7, <1>8
<1> QED BY <1>9, UnwoundIs DEF U


-----------------------------------------------------------------------------
(* The steps of ExecUntil.                                                 *)

\* The loaded script stays, so what fits it before a step fits it afterwards.
LEMMA SettledGood ==
  ASSUME UNCHANGED <<script, label, parent, related>>, Good(frames', g')
  PROVE  (StackOK(frames) /\ TopOK(frames, g) /\ g \in Values)'
<1>1. g' \in Values
  BY DEF Good
<1>2. StackOK(frames)'
  <2>1. frames' \in Seq(FrameSet) /\ FrameSet' = FrameSet
    BY DEF Good, StackOK, FrameSet, Lines, LastLine
  <2>2. ASSUME NEW n \in 1 .. Len(frames') PROVE SlotOK(frames, n)'
    <3>1. SlotOK(frames', n)
      BY DEF Good, StackOK
    <3>2. FrameOK(frames[n])'
      <4>1. FrameOK(frames'[n])
        BY <3>1 DEF SlotOK
      <4>2. PhaseOK(frames[n])' /\ Target(frames[n].jump)'
        BY <4>1 DEF FrameOK, PhaseOK, Target
      <4>3. OnLevel(frames[n])' <=> OnLevel(frames'[n])
        BY DEF OnLevel
      <4>4. (Regular' <=> Regular) /\ (OnBody' <=> OnBody)
        BY DEF Regular, OnBody, FunctionOnBody
      <4>5. LevelOK(frames[n])'
        BY <4>1, <4>3, <4>4 DEF FrameOK, LevelOK
      <4>6. (frames[n] \in FrameSet)'
        BY <2>1, <4>1 DEF FrameOK
      <4>7. ReturnOK(frames[n])'
        BY <4>1 DEF FrameOK, ReturnOK, AtHome
      <4> QED BY <4>2, <4>5, <4>6, <4>7 DEF FrameOK
    <3>3. n # 1 => Calls(frames[n - 1], frames[n])'
      <4>1. n # 1 => Calls(frames'[n - 1], frames'[n])
        BY <3>1 DEF SlotOK
      <4>2. Regular' <=> Regular
        BY DEF Regular, FunctionOnBody
      <4> QED BY <4>1, <4>2 DEF Calls, CallOf
    <3>4. SavedOK(frames, n)'
      <4>1. SavedOK(frames', n)
        BY <3>1 DEF SlotOK
      <4> QED BY <4>1 DEF SavedOK, Seen, BeforeItem, BeforeFunc, SeesItem,
                         SeesFunc, Marks, ItemOf, Item
    <3> QED BY <3>1, <3>2, <3>3, <3>4 DEF SlotOK
  <2> QED BY <2>1, <2>2 DEF StackOK
<1>3. TopOK(frames, g)'
  BY DEF Good, TopOK, Current, Seen, BeforeItem, BeforeFunc, SeesItem,
         SeesFunc, Marks, ItemOf, Item, Line
<1> QED BY <1>1, <1>2, <1>3 DEF Values


\* A thread is at work.
Alive == Ready /\ Good(frames, g) /\ frames # <<>>

LEMMA OnTop ==
  ASSUME Alive
  PROVE  /\ Len(frames) \in 1 .. Len(frames) /\ Len(frames) \in Nat \ {0}
         /\ Top = frames[Len(frames)] /\ FrameOK(Top) /\ SavedOK(frames, Len(frames))
         /\ Current(frames, Len(frames), Top, g) /\ g \in Values
         /\ Top.line \in Lines(script) /\ Top.mode \in Modes /\ frames \in Seq(FrameSet)
         /\ Top.phase # "test" => Seen(frames, Len(frames), g)
         /\ \A d : Append(Front(frames), d) = Replace(frames, Len(frames), d)
<1>1. frames \in Seq(FrameSet) /\ StackOK(frames) /\ TopOK(frames, g) /\ g \in Values
  BY DEF Alive, Good, StackOK
<1>2. Len(frames) \in 1 .. Len(frames) /\ Len(frames) \in Nat \ {0}
  <2>1. Len(frames) \in Nat \ {0}
    BY <1>1, EmptySeq DEF Alive
  <2> QED BY <2>1
<1>3. Top = frames[Len(frames)]
  BY DEF Top, Last
<1>4. SlotOK(frames, Len(frames))
  BY <1>1, <1>2 DEF StackOK
<1>5. Current(frames, Len(frames), Top, g)
  BY <1>1, <1>3 DEF Alive, TopOK
<1>6. FrameOK(Top) /\ SavedOK(frames, Len(frames))
  BY <1>3, <1>4 DEF SlotOK
<1>7. Top.line \in Lines(script) /\ Top.mode \in Modes
  BY <1>6 DEF FrameOK, FrameSet
<1>8. \A d : Append(Front(frames), d) = Replace(frames, Len(frames), d)
  BY DEF Front, Replace
<1> QED BY <1>1, <1>2, <1>3, <1>5, <1>6, <1>7, <1>8 DEF Current

LEMMA Returned ==
  ASSUME Alive, Top.phase # "test", NEW res \in Results, Return(res, 0)
  PROVE  Good(frames', g')
<1>1. g \in Values /\ Seen(frames, Len(frames), g)
  BY OnTop
<1>2. StackOK(frames) /\ Ready /\ frames # <<>> /\ Target(0)
  BY DEF Alive, Good, Target
<1>3. Good(Unwound(frames, res, 0, g).frames, Unwound(frames, res, 0, g).g)
  BY <1>1, <1>2, UnwoundGood
<1> QED BY <1>3 DEF Return

\* The top frame gives way to one that fits.
LEMMA TopReplaced ==
  ASSUME Alive, NEW d, NEW v, Fits(frames, Len(frames), d, v),
         frames' = Append(Front(frames), d), g' = v
  PROVE  Good(frames', g')
<1>1. Len(frames) \in 1 .. Len(frames) /\ frames' = Replace(frames, Len(frames), d)
  BY OnTop
<1>2. StackOK(frames)
  BY DEF Alive, Good
<1> QED BY <1>1, <1>2, FitsGood

LEMMA Moved ==
  ASSUME Alive, Top.phase # "test", Top.mode # "one" \/ ~Regular, NEW x \in Lines(script),
         Levelled(Top) => GoesOn(script, parent, Top.line, x), AtHome(Top.line) => AtHome(x),
         Move(x)
  PROVE  Good(frames', g')
<1>1. Top = frames[Len(frames)] /\ FrameOK(Top) /\ g \in Values /\ Seen(frames, Len(frames), g)
  BY OnTop
<1>2. Fits(frames, Len(frames), At(Top, x), g)
  BY <1>1, AtFits DEF Alive
<1> QED BY <1>2, TopReplaced DEF Move

\* The top frame calls another.
LEMMA Entered ==
  ASSUME Alive, NEW d, Follows(Top, d), FrameOK(d), SavedFits(frames, Len(frames), d),
         NEW e, CallOf(d, e), FrameOK(e), e.phase = "line", ~e.thread, NEW v \in Values,
         IF Item(d) THEN v.mLoopItem = d.line ELSE BeforeItem(frames, Len(frames), v.mLoopItem),
         IF d.phase = "call" THEN v.CurrentFunc
         ELSE BeforeFunc(frames, Len(frames), v.CurrentFunc),
         frames' = Append(Append(Front(frames), d), e), g' = v
  PROVE  Good(frames', g')
<1> DEFINE n == Len(frames)
           hs == Replace(frames, n, d)
<1>1. n \in 1 .. Len(frames) /\ n \in Nat \ {0} /\ Top = frames[n] /\ frames \in Seq(FrameSet)
      /\ frames' = Append(hs, e) /\ d \in FrameSet
  BY OnTop DEF FrameOK
<1>a. IF Item(d) THEN v.mLoopItem = d.line ELSE BeforeItem(frames, n, v.mLoopItem)
  OBVIOUS
<1>b. IF d.phase = "call" THEN v.CurrentFunc ELSE BeforeFunc(frames, n, v.CurrentFunc)
  OBVIOUS
<1>2. StackOK(hs)
  BY <1>1, Replaced DEF Alive, Good
<1>3. Len(hs) = n /\ hs[n] = d /\ SameUpTo(frames, hs, n - 1) /\ hs \in Seq(FrameSet)
  <2>1. n \in 1 .. Len(frames) /\ frames \in Seq(FrameSet) /\ d \in FrameSet
    BY <1>1
  <2> HIDE DEF n
  <2> QED BY ONLY <2>1, ReplaceShape
<1>4. hs # <<>>
  BY <1>1, <1>3
<1> HIDE DEF n, hs
<1>5. hs[n].thread = frames[n].thread
  BY <1>1, <1>3 DEF Follows
<1>6. SeesItem(hs, n, v.mLoopItem)
  <2>1. SeesItem(hs, n, v.mLoopItem) <=>
          IF Item(hs[n]) THEN v.mLoopItem = hs[n].line ELSE BeforeItem(hs, n, v.mLoopItem)
    BY <1>1, ItemOnward
  <2>2. BeforeItem(hs, n, v.mLoopItem) <=> BeforeItem(frames, n, v.mLoopItem)
    BY <1>1, <1>3, <1>5, BeforeSame
  <2> QED BY <1>3, <1>a, <2>1, <2>2
<1>7. SeesFunc(hs, n, v.CurrentFunc)
  <2>1. SeesFunc(hs, n, v.CurrentFunc) <=>
          IF hs[n].phase = "call" THEN v.CurrentFunc ELSE BeforeFunc(hs, n, v.CurrentFunc)
    <3>1. v.CurrentFunc \in BOOLEAN
      BY DEF Values
    <3> QED BY <1>1, <3>1, FuncOnward
  <2>2. BeforeFunc(hs, n, v.CurrentFunc) <=> BeforeFunc(frames, n, v.CurrentFunc)
    BY <1>1, <1>3, <1>5, BeforeSame
  <2> QED BY <1>3, <1>b, <2>1, <2>2
<1>8. Calls(hs[n], e)
  BY <1>3 DEF Calls
<1>9. Good(Append(hs, e), v)
  BY <1>2, <1>3, <1>4, <1>6, <1>7, <1>8, Pushed
<1> QED BY <1>1, <1>9

\* A call made by the frame from its own line.
LEMMA Inside ==
  ASSUME Alive, Top.phase = "line", NEW ph \in CallPhases \ {"else"},
         NEW d \in FrameSet, d.phase = ph, d.line = Top.line, d.mode = Top.mode,
         d.thread = Top.thread, d.under = Top.under, Target(d.jump), PhaseOK(d),
         d.saved = g \/ ph \notin {"loop", "call"},
         NEW e, CallOf(d, e), FrameOK(e), e.phase = "line", ~e.thread, NEW v \in Values,
         ~Item(d), v.mLoopItem = g.mLoopItem,
         IF ph = "call" THEN v.CurrentFunc ELSE v.CurrentFunc = g.CurrentFunc,
         frames' = Append(Append(Front(frames), d), e), g' = v
  PROVE  Good(frames', g')
<1>1. FrameOK(Top) /\ Seen(frames, Len(frames), g)
  BY OnTop
<1>2. Follows(Top, d) /\ FrameOK(d)
  BY <1>1, SameLine DEF CallPhases, OwnerPhases
<1>3. BeforeItem(frames, Len(frames), g.mLoopItem) /\ BeforeFunc(frames, Len(frames), g.CurrentFunc)
  BY <1>1 DEF Seen
<1>4. SavedFits(frames, Len(frames), d)
  <2>1. d.phase \in {"test", "loop"} => d.saved = g
    BY DEF CallPhases, OwnerPhases
  <2>2. d.phase = "call" => d.saved = g
    OBVIOUS
  <2> QED BY <1>3, <2>1, <2>2 DEF SavedFits
<1>5. BeforeItem(frames, Len(frames), v.mLoopItem)
  BY <1>3
<1>6. IF d.phase = "call" THEN v.CurrentFunc ELSE BeforeFunc(frames, Len(frames), v.CurrentFunc)
  BY <1>3
<1> QED BY <1>2, <1>4, <1>5, <1>6, Entered


\* The frame that runs the statement below an IF, an ELSE or a loop.
LEMMA BodyGood ==
  ASSUME Ready, NEW l \in Lines(script), Line(script, l) \in OwnersAndElse
  PROVE  FrameOK(Frame(l + 1, "one", FALSE, Fresh))
<1>1. l + 1 \in Lines(script) /\ BodyAt(script, l + 1)
  BY DEF Ready, Linked, Links, LinksOfOwners
<1>2. ASSUME Regular PROVE Line(script, l + 1) # "func{"
  <2> SUFFICES ASSUME Line(script, l + 1) = "func{" PROVE FALSE
    OBVIOUS
  <2> DEFINE x == l + 1
  <2>1. x \in Nat /\ x - 1 = l
    <3>1. l \in Nat
      BY Sizes
    <3> QED BY ONLY <3>1
  <2> HIDE DEF x
  <2>2. Line(script, x) = "func{"
    BY DEF x
  <2>3. x \in 1 .. Len(script) /\ script[x] = "func{"
    BY <2>1, <2>2, LineKinds DEF Ready
  <2> QED BY <1>2, <2>1, <2>3 DEF Regular, FunctionOnBody, OwnersAndElse
<1>3. "one" \in Modes /\ FALSE \in BOOLEAN
  BY DEF Modes
<1> DEFINE x == l + 1
<1>4. x \in Lines(script) /\ BodyAt(script, x) /\ (Regular => Line(script, x) # "func{")
  BY <1>1, <1>2
<1> HIDE DEF x
<1>5. FrameOK(Frame(x, "one", FALSE, Fresh))
  BY <1>3, <1>4, FreshValues, FrameGood
<1> QED BY <1>5 DEF x

\* The one that runs a block or a function.
LEMMA BlockGood ==
  ASSUME Ready, NEW l \in Lines(script), Line(script, l) \in Opens
  PROVE  FrameOK(Frame(l + 1, "block", FALSE, Fresh)) /\ parent[l + 1] = l
<1> DEFINE x == l + 1
<1>1. x \in Lines(script) /\ Start(script, x) /\ parent[x] = l
  BY DEF Ready, Linked, Links, LinksOfBlocks
<1>2. "block" \in Modes /\ FALSE \in BOOLEAN
  BY DEF Modes
<1> HIDE DEF x
<1>3. FrameOK(Frame(x, "block", FALSE, Fresh))
  BY <1>1, <1>2, FreshValues, FrameGood
<1> QED BY <1>1, <1>3 DEF x

\* The one at the base of a thread or of a Gosub.
LEMMA LabelGood ==
  ASSUME Ready, label # 0, NEW thread \in BOOLEAN, NEW under \in Values
  PROVE  FrameOK(Frame(label, "return", thread, under))
<1>1. label \in Lines(script) /\ "return" \in Modes
  BY Sizes DEF Modes
<1>2. ~OnBody => Start(script, label)
  BY DEF OnBody, Start, Ready, LabelOK
<1>3. AtHome(label)
  BY DEF AtHome
<1> QED BY <1>1, <1>2, <1>3, FrameGood

LEMMA PerformGood ==
  ASSUME Alive, Perform
  PROVE  Good(frames', g')
<1>1. FrameOK(Top) /\ Top.line \in Lines(script) /\ Top.phase \in {"line", "called"}
  BY OnTop DEF Perform, On, InPhase
<1>2. Top.phase # "test" /\ Top.phase # "else"
  BY <1>1
<1>3. Line(script, Top.line) \in PlainKinds
  <2>1. CASE On({"cmd"})
    BY <2>1 DEF On, PlainKinds
  <2>2. CASE InPhase("called")
    BY <1>1, <2>2 DEF InPhase, FrameOK, PhaseOK, PlainKinds
  <2> QED BY <2>1, <2>2 DEF Perform
<1>4. CASE Return("OK", 0)
  BY <1>2, <1>4, Returned DEF Results
<1>5. CASE Return("FAIL", 0)
  BY <1>2, <1>5, Returned DEF Results
<1>6. CASE Top.mode # "one" /\ Move(Top.line + 1)
  <2>1. Top.line + 1 \in Lines(script)
        /\ (Start(script, Top.line) => GoesOn(script, parent, Top.line, Top.line + 1))
        /\ (AtHome(Top.line) => AtHome(Top.line + 1))
    BY <1>1, <1>3, NextGoesOn DEF Alive
  <2>2. Levelled(Top) => Start(script, Top.line)
    BY <1>1, <1>2, LevelledStart
  <2> QED BY <1>2, <1>6, <2>1, <2>2, Moved
<1> QED BY <1>4, <1>5, <1>6 DEF Perform

LEMMA IfTrueGood ==
  ASSUME Alive, IfTrue
  PROVE  Good(frames', g')
<1> DEFINE d == [Top EXCEPT !.phase = "if"]
           e == Frame(Top.line + 1, "one", FALSE, Fresh)
<1>1. Top.phase = "line" /\ Line(script, Top.line) = "if"
  BY DEF IfTrue, On, InPhase
<1>2. FrameOK(Top) /\ g \in Values /\ Top \in FrameSet /\ Top.line \in Lines(script)
  BY OnTop DEF FrameOK
<1>3. frames' = Append(Append(Front(frames), d), e) /\ g' = g
  BY DEF IfTrue, Enter
<1>4. FrameOK(e) /\ e.phase = "line" /\ ~e.thread /\ e.mode = "one" /\ e.line = Top.line + 1
  <2>1. FrameOK(e)
    BY <1>1, <1>2, BodyGood DEF Alive, OwnersAndElse, Owners
  <2>2. e.phase = "line" /\ ~e.thread /\ e.mode = "one" /\ e.line = Top.line + 1
    BY DEF Frame
  <2> QED BY <2>1, <2>2
<1>5. /\ d \in FrameSet /\ d.phase = "if" /\ d.line = Top.line /\ d.mode = Top.mode
      /\ d.thread = Top.thread /\ d.under = Top.under /\ d.jump = Top.jump
  BY <1>2 DEF FrameSet, Phases
<1> HIDE DEF d, e
<1>6. Target(d.jump) /\ PhaseOK(d) /\ ~Item(d) /\ CallOf(d, e)
  BY <1>1, <1>2, <1>4, <1>5 DEF FrameOK, PhaseOK, Item, CallOf, OwnerPhases
<1>7. "if" \in CallPhases \ {"else"}
  BY DEF CallPhases, OwnerPhases
<1> QED BY <1>1, <1>2, <1>3, <1>4, <1>5, <1>6, <1>7, Inside

LEMMA IfFalseGood ==
  ASSUME Alive, IfFalse
  PROVE  Good(frames', g')
<1> DEFINE r == related[Top.line]
           d == [[Top EXCEPT !.line = r] EXCEPT !.phase = "else"]
           e == Frame(r + 1, "one", FALSE, Fresh)
<1>1. Top.phase = "line" /\ Line(script, Top.line) = "if" /\ Top.phase # "test" /\ Top.phase # "else"
  BY DEF IfFalse, On, InPhase
<1>2. FrameOK(Top) /\ g \in Values /\ Top \in FrameSet /\ Top.line \in Lines(script)
      /\ Seen(frames, Len(frames), g)
  BY <1>1, OnTop DEF FrameOK
<1>3. Ready
  BY DEF Alive
<1>4. r \in Lines(script) /\ Level(script, r) /\ (Level(script, Top.line) => parent[r] = parent[Top.line])
  BY <1>1, <1>2, <1>3 DEF Ready, Linked, Links, LinksOfOwners, OwnersAndElse, Owners
<1>5. Levelled(Top) => Start(script, Top.line)
  BY <1>1, <1>2, LevelledStart
<1>9. AtHome(Top.line) => AtHome(r)
  <2>1. LinksOfOpenBlocks(script, related)
    BY <1>3 DEF Ready, Linked, Links
  <2>2. OB(script, r) = OB(script, Top.line)
    BY <1>1, <1>2, <2>1 DEF LinksOfOpenBlocks, OwnersAndElse, Owners
  <2> QED BY <2>2 DEF AtHome
<1>6. CASE Line(script, r) = "else"
  <2>1. frames' = Append(Append(Front(frames), d), e) /\ g' = g
    BY <1>6 DEF IfFalse, Enter
  <2>2. FrameOK(e) /\ e.phase = "line" /\ ~e.thread /\ e.mode = "one" /\ e.line = r + 1
    <3>1. FrameOK(e)
      <4> HIDE DEF r
      <4> QED BY <1>3, <1>4, <1>6, BodyGood DEF OwnersAndElse
    <3>2. e.phase = "line" /\ ~e.thread /\ e.mode = "one" /\ e.line = r + 1
      BY DEF Frame
    <3> QED BY <3>1, <3>2
  <2>3. Levelled(Top) => Start(script, related[r]) /\ parent[r] = parent[Top.line]
    <3>1. LinksOfStarts(script, parent, related)
      BY <1>3 DEF Ready, Linked, Links
    <3> QED BY <1>1, <1>2, <1>4, <1>5, <1>6, <3>1 DEF LinksOfStarts, GoesOn, Start
  <2>4. /\ d \in FrameSet /\ d.phase = "else" /\ d.line = r /\ d.mode = Top.mode
        /\ d.thread = Top.thread /\ d.under = Top.under /\ d.jump = Top.jump
    <3> HIDE DEF r
    <3> QED BY <1>2, <1>4 DEF FrameSet, Phases
  <2> HIDE DEF d, e, r
  <2>5. Follows(Top, d)
    BY <2>3, <2>4 DEF Follows, Levelled
  <2>6. FrameOK(d)
    <3>1. PhaseOK(d) /\ Target(d.jump)
      BY <1>2, <1>6, <2>4 DEF PhaseOK, FrameOK
    <3>4. ReturnOK(d)
      BY <1>2, <1>9, <2>4 DEF FrameOK, ReturnOK
    <3>2. Levelled(Top) => OnLevel(d)
      BY <1>4, <2>3, <2>4 DEF OnLevel
    <3>3. LevelOK(d)
      BY <2>4, <3>2 DEF LevelOK, Levelled
    <3> QED BY <2>4, <3>1, <3>3, <3>4 DEF FrameOK
  <2>7. SavedFits(frames, Len(frames), d) /\ CallOf(d, e) /\ ~Item(d)
    BY <2>2, <2>4 DEF SavedFits, CallOf, OwnerPhases, Item
  <2>8. BeforeItem(frames, Len(frames), g.mLoopItem) /\ BeforeFunc(frames, Len(frames), g.CurrentFunc)
        /\ d.phase # "call"
    BY <1>2, <2>4 DEF Seen
  <2> QED BY <1>2, <2>1, <2>2, <2>5, <2>6, <2>7, <2>8, Entered
<1>7. CASE Line(script, r) # "else" /\ Top.mode = "one"
  <2>1. Return("OK", 0)
    BY <1>7 DEF IfFalse
  <2> QED BY <1>1, <2>1, Returned DEF Results
<1>8. CASE Line(script, r) # "else" /\ Top.mode # "one"
  <2>1. Move(r)
    BY <1>8 DEF IfFalse
  <2>2. Start(script, Top.line) => GoesOn(script, parent, Top.line, r)
    BY <1>1, <1>2, <1>3, <1>8, IfGoesOn
  <2> HIDE DEF r
  <2> QED BY <1>1, <1>4, <1>5, <1>8, <1>9, <2>1, <2>2, Moved
<1> QED BY <1>6, <1>7, <1>8


LEMMA LoopGood ==
  ASSUME Alive, Loop
  PROVE  Good(frames', g')
<1> DEFINE d == [Top EXCEPT !.phase = "test", !.saved = g]
           v == [g EXCEPT !.mLoopIteration = 1]
<1>1. Top.phase = "line" /\ Line(script, Top.line) \in LoopKinds /\ Top.phase # "else"
      /\ Top.phase # "test"
  BY DEF Loop, On, InPhase
<1>2. FrameOK(Top) /\ g \in Values /\ Top \in FrameSet /\ Seen(frames, Len(frames), g)
      /\ Top = frames[Len(frames)]
  BY <1>1, OnTop DEF FrameOK
<1>3. frames' = Append(Front(frames), d) /\ g' = v
  BY DEF Loop
<1>4. /\ d \in FrameSet /\ d.phase = "test" /\ d.line = Top.line /\ d.mode = Top.mode
      /\ d.thread = Top.thread /\ d.under = Top.under /\ d.jump = Top.jump /\ d.saved = g
  BY <1>2 DEF FrameSet, Phases
<1>5. v \in Values /\ v.mLoopItem = g.mLoopItem /\ v.CurrentFunc = g.CurrentFunc
  BY <1>2 DEF Values
<1> HIDE DEF d, v
<1>6. Target(d.jump) /\ PhaseOK(d)
  BY <1>1, <1>2, <1>4 DEF FrameOK, PhaseOK
<1>7. Follows(Top, d) /\ FrameOK(d)
  BY <1>1, <1>2, <1>4, <1>6, SameLine
<1>8. SavedFits(frames, Len(frames), d) /\ Current(frames, Len(frames), d, v)
  BY <1>2, <1>4, <1>5 DEF Seen, SavedFits, Current
<1>9. Fits(frames, Len(frames), d, v)
  BY <1>2, <1>5, <1>7, <1>8 DEF Fits
<1> QED BY <1>3, <1>9, TopReplaced

LEMMA IterateGood ==
  ASSUME Alive, Iterate
  PROVE  Good(frames', g')
<1> DEFINE late == Top.cont \/ Top.jump # 0
           item == Line(script, Top.line) # "loop"
           b == [Top EXCEPT !.folder = IF late THEN @ + 1 ELSE @]
           d == [b EXCEPT !.phase = "loop"]
           e == Frame(Top.line + 1, "one", FALSE, Fresh)
           v == IF item THEN [g EXCEPT !.mLoopItem = Top.line] ELSE g
<1>1. Top.phase = "test" /\ Top.phase # "else"
  BY DEF Iterate, InPhase
<1>2. FrameOK(Top) /\ g \in Values /\ Top \in FrameSet /\ Top.line \in Lines(script)
      /\ SavedOK(frames, Len(frames)) /\ Current(frames, Len(frames), Top, g)
      /\ Top = frames[Len(frames)]
  BY OnTop DEF FrameOK
<1>3. Line(script, Top.line) \in LoopKinds /\ Target(Top.jump)
  BY <1>1, <1>2 DEF FrameOK, PhaseOK
<1>4. (late => Top.folder < MaxFolders) /\ frames' = Append(Append(Front(frames), d), e) /\ g' = v
  BY DEF Iterate, Enter
<1>5. FrameOK(e) /\ e.phase = "line" /\ ~e.thread /\ e.mode = "one" /\ e.line = Top.line + 1
  <2>1. FrameOK(e)
    BY <1>2, <1>3, BodyGood DEF Alive, OwnersAndElse, Owners
  <2>2. e.phase = "line" /\ ~e.thread /\ e.mode = "one" /\ e.line = Top.line + 1
    BY DEF Frame
  <2> QED BY <2>1, <2>2
<1>6. /\ b \in FrameSet /\ b.line = Top.line /\ b.mode = Top.mode
      /\ b.thread = Top.thread /\ b.under = Top.under /\ b.jump = Top.jump /\ b.saved = Top.saved
  <2> DEFINE k == IF late THEN Top.folder + 1 ELSE Top.folder
  <2>1. k \in 0 .. MaxFolders
    <3>1. Top.folder \in 0 .. MaxFolders /\ MaxFolders \in Nat
      BY <1>2, BoundsAssumption DEF FrameSet
    <3> HIDE DEF late
    <3> QED BY <1>4, <3>1
  <2>2. b = [Top EXCEPT !.folder = k]
    OBVIOUS
  <2> HIDE DEF k, b, late
  <2> QED BY <1>2, <2>1, <2>2 DEF FrameSet
<1> HIDE DEF b
<1>7. /\ d \in FrameSet /\ d.phase = "loop" /\ d.line = Top.line /\ d.mode = Top.mode
      /\ d.thread = Top.thread /\ d.under = Top.under /\ d.jump = Top.jump /\ d.saved = Top.saved
  BY <1>6 DEF FrameSet, Phases
<1>8. v \in Values /\ v.CurrentFunc = g.CurrentFunc
      /\ v.mLoopItem = IF item THEN Top.line ELSE g.mLoopItem
  <2>1. Top.line \in Nat
    BY <1>2, Sizes DEF Alive
  <2> QED BY <1>2, <2>1 DEF Values
<1> HIDE DEF d, e, v
<1>9. PhaseOK(d) /\ Target(d.jump)
  BY <1>3, <1>7 DEF PhaseOK
<1>10. Follows(Top, d) /\ FrameOK(d)
  BY <1>1, <1>2, <1>7, <1>9, SameLine
<1>11. SavedFits(frames, Len(frames), d)
  BY <1>1, <1>2, <1>7 DEF SavedOK, SavedFits
<1>12. CallOf(d, e)
  BY <1>5, <1>7 DEF CallOf, OwnerPhases
<1>13. Item(d) <=> item
  BY <1>7 DEF Item
<1>14. /\ BeforeFunc(frames, Len(frames), g.CurrentFunc)
       /\ ~item => BeforeItem(frames, Len(frames), g.mLoopItem)
  BY <1>1, <1>2 DEF Current
<1>15. IF Item(d) THEN v.mLoopItem = d.line ELSE BeforeItem(frames, Len(frames), v.mLoopItem)
  BY <1>7, <1>8, <1>13, <1>14
<1>16. IF d.phase = "call" THEN v.CurrentFunc
       ELSE BeforeFunc(frames, Len(frames), v.CurrentFunc)
  BY <1>7, <1>8, <1>14
<1> QED BY <1>4, <1>5, <1>8, <1>10, <1>11, <1>12, <1>15, <1>16, Entered

LEMMA LoopDoneGood ==
  ASSUME Alive, LoopDone
  PROVE  Good(frames', g')
<1> DEFINE o == AfterLoop(Top, "OK", g)
           n == Len(frames)
<1>1. Top.phase = "test"
  BY DEF LoopDone, InPhase
<1>2. /\ FrameOK(frames[n]) /\ SavedOK(frames, n) /\ frames[n].phase \in {"test", "loop"}
      /\ Top = frames[n] /\ g \in Values /\ BeforeFunc(frames, n, g.CurrentFunc)
      /\ n \in Nat \ {0} /\ n \in 1 .. Len(frames)
  BY <1>1, OnTop DEF Current
<1>3. StackOK(frames) /\ Ready /\ frames # <<>> /\ "OK" \in Results
  BY DEF Alive, Good, Results
<1>4. ReactsOK(frames, n, o)
  <2>1. Twin(frames[n], frames[n])
    BY <1>2 DEF Twin, FrameOK
  <2> HIDE DEF n
  <2> QED BY <1>2, <1>3, <2>1, AfterLoopOK
<1>5. /\ frames' = LoopOver(frames, g).frames /\ g' = LoopOver(frames, g).g
  BY DEF LoopDone
<1>6. LoopOver(frames, g) = IF o.stay THEN [frames |-> Append(Front(frames), o.frame), g |-> o.g]
                            ELSE Unwound(frames, o.res, o.jump, o.g)
  BY DEF LoopOver, Top
<1> HIDE DEF o
<1>7. CASE o.stay
  <2>1. Fits(frames, Len(frames), o.frame, o.g)
    BY <1>4, <1>7 DEF ReactsOK
  <2>2. frames' = Append(Front(frames), o.frame) /\ g' = o.g
    BY <1>5, <1>6, <1>7
  <2> QED BY <2>1, <2>2, TopReplaced
<1>8. CASE ~o.stay
  <2>1. o.res \in Results /\ o.g \in Values /\ Target(o.jump) /\ Seen(frames, Len(frames), o.g)
    BY <1>4, <1>8 DEF ReactsOK, Leaves, Outcomes
  <2>2. Good(Unwound(frames, o.res, o.jump, o.g).frames, Unwound(frames, o.res, o.jump, o.g).g)
    BY <1>3, <2>1, UnwoundGood
  <2> QED BY <1>5, <1>6, <1>8, <2>2
<1> QED BY <1>7, <1>8

LEMMA GotoGood ==
  ASSUME Alive, Goto
  PROVE  Good(frames', g')
<1> DEFINE v == [g EXCEPT !.CurrentLabel = label]
           ok == ~(label = 0 \/ ~IsJumpValid(parent, Top.line, label))
           far == Top.mode = "one" \/ parent[Top.line] # parent[label]
<1>1. Top.phase = "line" /\ Top.phase # "test" /\ Top.phase # "else"
  BY DEF Goto, On, InPhase
<1>2. FrameOK(Top) /\ g \in Values /\ Seen(frames, Len(frames), g) /\ Top = frames[Len(frames)]
  BY <1>1, OnTop
<1>3. StackOK(frames) /\ Ready /\ frames # <<>> /\ "OK" \in Results /\ "FAIL" \in Results
  BY DEF Alive, Good, Results
<1>4. v \in Values /\ v.mLoopItem = g.mLoopItem /\ v.CurrentFunc = g.CurrentFunc
  <2>1. label \in Nat
    BY <1>3, Sizes
  <2> QED BY <1>2, <2>1 DEF Values
<1> HIDE DEF v
<1>5. Seen(frames, Len(frames), v)
  BY <1>2, <1>4 DEF Seen
<1>6. CASE ~ok
  <2>1. Return("FAIL", 0)
    BY <1>6 DEF Goto
  <2> QED BY <1>1, <1>3, <2>1, Returned
<1>7. CASE ok /\ far
  <2>1. frames' = Unwound(frames, "OK", label, v).frames /\ g' = Unwound(frames, "OK", label, v).g
    BY <1>7 DEF Goto, v
  <2>2. Target(label)
    BY <1>7 DEF Target
  <2> QED BY <1>3, <1>4, <1>5, <2>1, <2>2, UnwoundGood
<1>8. CASE ok /\ ~far
  <2>1. frames' = Append(Front(frames), At(Top, label)) /\ g' = v
    BY <1>8 DEF Goto, v
  <2>2. label \in Lines(script) /\ label # 0
    BY <1>3, <1>8, Sizes
  <2>3. Levelled(Top) => GoesOn(script, parent, Top.line, label)
    BY <1>2, <1>3, <1>8, <2>2, LabelOnLevel
  <2>4. Fits(frames, Len(frames), At(Top, label), v)
    <3>1. AtHome(label)
      BY <2>2 DEF AtHome
    <3> QED BY <1>2, <1>3, <1>4, <1>5, <1>8, <2>2, <2>3, <3>1, AtFits
  <2> QED BY <2>1, <2>4, TopReplaced
<1> QED BY <1>6, <1>7, <1>8

LEMMA GosubGood ==
  ASSUME Alive, Gosub
  PROVE  Good(frames', g')
<1> DEFINE b == [Top EXCEPT !.saved = g]
           d == [b EXCEPT !.phase = "gosub"]
           e == Frame(label, "return", FALSE, Fresh)
           v == [g EXCEPT !.CurrentLabel = label]
           ok == ~(label = 0 \/ ~IsJumpValid(parent, Top.line, label))
<1>1. Top.phase = "line" /\ Top.phase # "test" /\ Line(script, Top.line) \in {"gosub", "group"}
  BY DEF Gosub, On, InPhase
<1>2. FrameOK(Top) /\ g \in Values /\ Top \in FrameSet
  BY OnTop DEF FrameOK
<1>3. Ready
  BY DEF Alive
<1>4. CASE ~ok
  <2>1. Return("FAIL", 0)
    BY <1>4 DEF Gosub
  <2> QED BY <1>1, <2>1, Returned DEF Results
<1>5. CASE ok
  <2>1. frames' = Append(Append(Front(frames), d), e) /\ g' = v
    BY <1>5 DEF Gosub, Enter
  <2>2. FrameOK(e) /\ e.phase = "line" /\ ~e.thread /\ e.mode = "return"
    <3>1. FrameOK(e)
      BY <1>3, <1>5, FreshValues, LabelGood
    <3>2. e.phase = "line" /\ ~e.thread /\ e.mode = "return"
      BY DEF Frame
    <3> QED BY <3>1, <3>2
  <2>3. /\ d \in FrameSet /\ d.phase = "gosub" /\ d.line = Top.line /\ d.mode = Top.mode
        /\ d.thread = Top.thread /\ d.under = Top.under /\ d.jump = Top.jump
    BY <1>2 DEF FrameSet, Phases
  <2>4. v \in Values /\ v.mLoopItem = g.mLoopItem /\ v.CurrentFunc = g.CurrentFunc
    <3>1. label \in Nat
      BY <1>3, Sizes
    <3> QED BY <1>2, <3>1 DEF Values
  <2> HIDE DEF d, e, v
  <2>5. Target(d.jump) /\ PhaseOK(d) /\ ~Item(d) /\ CallOf(d, e)
    BY <1>1, <1>2, <2>2, <2>3 DEF FrameOK, PhaseOK, Item, CallOf, OwnerPhases
  <2>6. "gosub" \in CallPhases \ {"else"} /\ "gosub" \notin {"loop", "call"}
    BY DEF CallPhases
  <2> QED BY <1>1, <2>1, <2>2, <2>3, <2>4, <2>5, <2>6, Inside
<1> QED BY <1>4, <1>5

LEMMA CallGood ==
  ASSUME Alive, Call
  PROVE  Good(frames', g')
<1>1. Top.phase = "line" /\ Line(script, Top.line) = "call"
  BY DEF Call, On, InPhase
<1>2. FrameOK(Top) /\ g \in Values /\ Top \in FrameSet
  BY OnTop DEF FrameOK
<1>3. PICK l \in 1 .. Len(script) :
        /\ script[l] = "func{"
        /\ Enter([Top EXCEPT !.saved = g], "call", l + 1, "block", [g EXCEPT !.CurrentFunc = TRUE])
  BY DEF Call
<1> DEFINE b == [Top EXCEPT !.saved = g]
           d == [b EXCEPT !.phase = "call"]
           e == Frame(l + 1, "block", FALSE, Fresh)
           v == [g EXCEPT !.CurrentFunc = TRUE]
<1>4. frames' = Append(Append(Front(frames), d), e) /\ g' = v
  BY <1>3 DEF Enter
<1>5. /\ FrameOK(e) /\ e.phase = "line" /\ ~e.thread /\ e.mode = "block"
      /\ Line(script, parent[e.line]) = "func{"
  <2>1. l \in Lines(script)
    <3>1. Len(script) \in Nat
      BY DEF Alive, Ready
    <3> QED BY ONLY <3>1, l \in 1 .. Len(script) DEF Lines, LastLine
  <2>2. Line(script, l) \in Opens
    BY <1>3 DEF Line, Opens
  <2>3. FrameOK(e) /\ parent[l + 1] = l
    BY <2>1, <2>2, BlockGood DEF Alive
  <2>4. e.phase = "line" /\ ~e.thread /\ e.mode = "block" /\ e.line = l + 1
    BY DEF Frame
  <2>5. Line(script, parent[e.line]) = "func{"
    BY <1>3, <2>3, <2>4 DEF Line
  <2> QED BY <2>3, <2>4, <2>5
<1>6. /\ d \in FrameSet /\ d.phase = "call" /\ d.line = Top.line /\ d.mode = Top.mode
      /\ d.thread = Top.thread /\ d.under = Top.under /\ d.jump = Top.jump /\ d.saved = g
  BY <1>2 DEF FrameSet, Phases
<1>7. v \in Values /\ v.mLoopItem = g.mLoopItem /\ v.CurrentFunc
  BY <1>2 DEF Values
<1> HIDE DEF d, e, v
<1>8. Target(d.jump) /\ PhaseOK(d) /\ ~Item(d) /\ CallOf(d, e)
  BY <1>1, <1>2, <1>5, <1>6 DEF FrameOK, PhaseOK, Item, CallOf, OwnerPhases
<1>9. "call" \in CallPhases \ {"else"}
  BY DEF CallPhases
<1> QED BY <1>1, <1>4, <1>5, <1>6, <1>7, <1>8, <1>9, Inside

LEMMA BlockBeginGood ==
  ASSUME Alive, BlockBegin
  PROVE  Good(frames', g')
<1> DEFINE d == [Top EXCEPT !.phase = "block"]
           e == Frame(Top.line + 1, "block", FALSE, Fresh)
<1>1. Top.phase = "line" /\ Line(script, Top.line) = "{"
  BY DEF BlockBegin, On, InPhase
<1>2. FrameOK(Top) /\ g \in Values /\ Top \in FrameSet /\ Top.line \in Lines(script)
  BY OnTop DEF FrameOK
<1>3. frames' = Append(Append(Front(frames), d), e) /\ g' = g
  BY DEF BlockBegin, Enter
<1>4. FrameOK(e) /\ e.phase = "line" /\ ~e.thread /\ e.mode = "block" /\ parent[e.line] = Top.line
  <2>1. FrameOK(e) /\ parent[Top.line + 1] = Top.line
    BY <1>1, <1>2, BlockGood DEF Alive, Opens
  <2>2. e.phase = "line" /\ ~e.thread /\ e.mode = "block" /\ e.line = Top.line + 1
    BY DEF Frame
  <2> HIDE DEF e
  <2> QED BY <2>1, <2>2
<1>5. /\ d \in FrameSet /\ d.phase = "block" /\ d.line = Top.line /\ d.mode = Top.mode
      /\ d.thread = Top.thread /\ d.under = Top.under /\ d.jump = Top.jump
  BY <1>2 DEF FrameSet, Phases
<1> HIDE DEF d, e
<1>6. Target(d.jump) /\ PhaseOK(d) /\ ~Item(d) /\ CallOf(d, e)
  BY <1>1, <1>2, <1>4, <1>5 DEF FrameOK, PhaseOK, Item, CallOf, OwnerPhases
<1>7. "block" \in CallPhases \ {"else"}
  BY DEF CallPhases
<1> QED BY <1>1, <1>2, <1>3, <1>4, <1>5, <1>6, <1>7, Inside

LEMMA FunctionBodyGood ==
  ASSUME Alive, FunctionBody
  PROVE  Good(frames', g')
<1>1. Top.phase = "line" /\ Line(script, Top.line) = "func{" /\ Top.phase # "else" /\ Top.phase # "test"
      /\ Move(related[Top.line])
  BY DEF FunctionBody, On, InPhase
<1>2. FrameOK(Top) /\ Top.line \in Lines(script)
  BY OnTop
<1>3. Top.mode # "one" \/ ~Regular
  BY <1>1, <1>2 DEF FrameOK, LevelOK
<1>4. /\ related[Top.line] \in Lines(script)
      /\ (Start(script, Top.line) => GoesOn(script, parent, Top.line, related[Top.line]))
      /\ AtHome(Top.line) => AtHome(related[Top.line])
  BY <1>1, <1>2, RelatedGoesOn DEF Alive, Opens
<1>5. Levelled(Top) => Start(script, Top.line)
  BY <1>1, <1>2, LevelledStart
<1> QED BY <1>1, <1>3, <1>4, <1>5, Moved

LEMMA GroupOnlyGood ==
  ASSUME Alive, GroupOnly
  PROVE  Good(frames', g')
<1>1. Top.phase = "line" /\ Line(script, Top.line) = "group" /\ Top.phase # "else" /\ Top.phase # "test"
  BY DEF GroupOnly, On, InPhase
<1>2. CASE Return("OK", 0)
  BY <1>1, <1>2, Returned DEF Results
<1>3. CASE Top.mode # "one" /\ Move(Top.line + 1)
  <2>1. FrameOK(Top) /\ Top.line \in Lines(script)
    BY OnTop
  <2>2. Top.line + 1 \in Lines(script)
        /\ (Start(script, Top.line) => GoesOn(script, parent, Top.line, Top.line + 1))
        /\ (AtHome(Top.line) => AtHome(Top.line + 1))
    BY <1>1, <2>1, NextGoesOn DEF Alive, PlainKinds
  <2>3. Levelled(Top) => Start(script, Top.line)
    BY <1>1, <2>1, LevelledStart
  <2> QED BY <1>1, <1>3, <2>2, <2>3, Moved
<1> QED BY <1>2, <1>3 DEF GroupOnly

\* The lines that only return.
LEMMA LeavingGood ==
  ASSUME Alive,
         IfFails \/ LoopFails \/ ReturnLine \/ BreakOrContinue \/ Exit \/ BlockEnd \/ ElseLine
  PROVE  Good(frames', g')
<1>1. Top.phase # "test"
  BY DEF IfFails, LoopFails, ReturnLine, BreakOrContinue, Exit, BlockEnd, ElseLine, On, InPhase
<1>2. \E res \in Results : Return(res, 0)
  BY DEF IfFails, LoopFails, ReturnLine, BreakOrContinue, Exit, BlockEnd, ElseLine, Results
<1> QED BY <1>1, <1>2, Returned


LEMMA LaunchGood ==
  ASSUME Ready, Good(frames, g), Launch
  PROVE  Good(frames', g')
<1> DEFINE d == Frame(label, "return", TRUE, g)
           v == [Fresh EXCEPT !.CurrentLabel = label]
<1>1. label # 0 /\ (frames = <<>> \/ InPhase("line")) /\ frames' = Append(frames, d) /\ g' = v
  BY DEF Launch
<1>2. StackOK(frames) /\ g \in Values
  BY DEF Good
<1>3. FrameOK(d)
  BY <1>1, <1>2, LabelGood
<1>4. d.phase = "line" /\ d.thread /\ d.mode = "return" /\ d.under = g
  BY DEF Frame
<1>5. v \in Values /\ v.mLoopItem = 0 /\ ~v.CurrentFunc
  <2>1. label \in Nat
    BY Sizes
  <2> QED BY <2>1 DEF Fresh, Values
<1>6. frames # <<>> => frames[Len(frames)].phase = "line" /\ Seen(frames, Len(frames), g)
  <2>1. ASSUME frames # <<>> PROVE Alive /\ Top.phase = "line"
    BY <1>1, <2>1 DEF Alive, InPhase
  <2> QED BY <2>1, OnTop
<1> HIDE DEF d, v
<1>7. frames # <<>> => Calls(frames[Len(frames)], d)
  BY <1>4, <1>6 DEF Calls
<1>8. Good(Append(frames, d), v)
  <2>1. IF frames = <<>> THEN d.thread /\ d.mode = "return" ELSE Calls(frames[Len(frames)], d)
    BY <1>4, <1>7
  <2>2. d.thread => (frames # <<>> => Seen(frames, Len(frames), d.under))
    BY <1>4, <1>6
  <2>3. IF d.thread THEN v.mLoopItem = 0 /\ ~v.CurrentFunc
        ELSE SeesItem(frames, Len(frames), v.mLoopItem) /\ SeesFunc(frames, Len(frames), v.CurrentFunc)
    BY <1>4, <1>5
  <2> QED BY <1>2, <1>3, <1>4, <1>5, <2>1, <2>2, <2>3, Pushed
<1> QED BY <1>1, <1>8

\* Every step of a thread.
Steps ==
  \/ Perform \/ IfTrue \/ IfFalse \/ IfFails
  \/ Loop \/ LoopFails \/ Iterate \/ LoopDone
  \/ Goto \/ Gosub \/ GroupOnly \/ Call
  \/ ReturnLine \/ BreakOrContinue \/ Exit
  \/ BlockBegin \/ FunctionBody \/ BlockEnd \/ ElseLine

LEMMA StepsGood ==
  ASSUME Ready, Good(frames, g), Steps
  PROVE  Good(frames', g') /\ Settled /\ status = "running"
<1>1. frames # <<>> /\ status = "running" /\ Settled
  BY DEF Steps, Perform, IfTrue, IfFalse, IfFails, Loop, LoopFails, Iterate, LoopDone, Goto, Gosub,
         GroupOnly, Call, ReturnLine, BreakOrContinue, Exit, BlockBegin, FunctionBody, BlockEnd, ElseLine,
         On, InPhase
<1>2. Alive
  BY <1>1 DEF Alive
<1>3. Good(frames', g')
  <2>1. CASE Perform
    BY <1>2, <2>1, PerformGood
  <2>2. CASE IfTrue
    BY <1>2, <2>2, IfTrueGood
  <2>3. CASE IfFalse
    BY <1>2, <2>3, IfFalseGood
  <2>4. CASE Loop
    BY <1>2, <2>4, LoopGood
  <2>5. CASE Iterate
    BY <1>2, <2>5, IterateGood
  <2>6. CASE LoopDone
    BY <1>2, <2>6, LoopDoneGood
  <2>7. CASE Goto
    BY <1>2, <2>7, GotoGood
  <2>8. CASE Gosub
    BY <1>2, <2>8, GosubGood
  <2>9. CASE GroupOnly
    BY <1>2, <2>9, GroupOnlyGood
  <2>10. CASE Call
    BY <1>2, <2>10, CallGood
  <2>11. CASE BlockBegin
    BY <1>2, <2>11, BlockBeginGood
  <2>12. CASE FunctionBody
    BY <1>2, <2>12, FunctionBodyGood
  <2>13. CASE IfFails \/ LoopFails \/ ReturnLine \/ BreakOrContinue \/ Exit \/ BlockEnd \/ ElseLine
    BY <1>2, <2>13, LeavingGood
  <2> QED BY <2>1, <2>2, <2>3, <2>4, <2>5, <2>6, <2>7, <2>8, <2>9, <2>10, <2>11, <2>12, <2>13 DEF Steps
<1> QED BY <1>1, <1>3

\* The invariant while a script runs.
LEMMA IsReady ==
  ASSUME IInv, status = "running"
  PROVE  Ready /\ Good(frames, g)
BY DEF IInv, TypeOK, Ready, Good

LEMMA RunKept ==
  ASSUME IInv, status = "running", Good(frames', g'),
         UNCHANGED <<script, label, dynamic, status, parent, related>>,
         launches' \in 0 .. MaxLaunches
  PROVE  IInv'
<1>1. (StackOK(frames) /\ TopOK(frames, g) /\ g \in Values)'
  BY SettledGood
<1>2. (frames \in Seq(FrameSet))'
  BY <1>1 DEF StackOK
<1>3. (label \in 0 .. Len(script) + 1 /\ LabelOK(script, label) /\ Linked)'
  BY DEF IInv, LabelOK, Linked, Line
<1>4. TypeOK'
  <2>1. (frames \in Seq([line : Lines(script), mode : Modes, phase : Phases, thread : BOOLEAN,
                     under : Values, saved : Values, cont : BOOLEAN,
                     jump : 0 .. LastLine(script), folder : 0 .. MaxFolders]))'
    BY <1>2 DEF FrameSet
  <2>2. (script \in Seq(Kinds) /\ Len(script) <= MaxLines
         /\ label \in 0 .. MaxLines + 1 /\ dynamic \in BOOLEAN
         /\ status \in {"building", "rejected", "running"}
         /\ (status = "running" => parent \in [Lines(script) -> 0 .. LastLine(script)]
                                /\ related \in [Lines(script) -> 0 .. LastLine(script)]))'
    BY DEF IInv, TypeOK, Lines, LastLine
  <2>3. (g \in Values)'
    BY <1>1
  <2> QED BY <2>1, <2>2, <2>3 DEF TypeOK
<1>5. (status = "running")'
  OBVIOUS
<1> QED BY <1>1, <1>3, <1>4, <1>5 DEF IInv

LEMMA InitHolds == Init => IInv
<1> SUFFICES ASSUME Init PROVE IInv
  OBVIOUS
<1>1. MaxLines \in Nat /\ MaxLaunches \in Nat
  BY BoundsAssumption
<1>2. script \in Seq(Kinds) /\ Len(script) = 0 /\ frames = <<>> /\ g = Fresh /\ status = "building"
      /\ label = 0 /\ dynamic = FALSE /\ launches = 0
  BY DEF Init
<1>3. frames \in Seq(FrameSet)
  BY <1>2
<1>4. Len(script) <= MaxLines /\ label \in 0 .. MaxLines + 1 /\ launches \in 0 .. MaxLaunches
  BY <1>1, <1>2
<1>5. TypeOK
  BY <1>2, <1>3, <1>4, FreshValues DEF TypeOK, FrameSet
<1> QED BY <1>2, <1>5 DEF IInv

LEMMA AddLineKeeps ==
  ASSUME IInv, AddLine
  PROVE  IInv'
<1>1. status = "building" /\ frames = <<>> /\ g = Fresh
  BY DEF IInv, AddLine
<1>2. PICK k \in Kinds : script' = Append(script, k)
  BY DEF AddLine
<1>3. script \in Seq(Kinds) /\ Len(script) < MaxLines /\ MaxLines \in Nat
  BY BoundsAssumption DEF IInv, TypeOK, AddLine
<1>4. script' \in Seq(Kinds) /\ Len(script') <= MaxLines
  BY <1>2, <1>3
<1>5. UNCHANGED <<label, dynamic, status, parent, related, frames, g, launches>>
  BY DEF AddLine
<1>6. frames' = <<>> /\ g' = Fresh /\ status' = "building"
  BY <1>1, <1>5
<1>7. (frames \in Seq(FrameSet))'
  BY <1>6
<1>8. label' \in 0 .. MaxLines + 1 /\ dynamic' \in BOOLEAN /\ launches' \in 0 .. MaxLaunches
  BY <1>5 DEF IInv, TypeOK
<1>9. TypeOK'
  BY <1>4, <1>6, <1>7, <1>8, FreshValues DEF TypeOK, FrameSet, Values, Fresh
<1> QED BY <1>6, <1>9 DEF IInv

LEMMA LoadKeeps ==
  ASSUME IInv, Load
  PROVE  IInv'
<1>1. status = "building" /\ frames = <<>> /\ g = Fresh /\ UNCHANGED <<script, g, launches>>
  BY DEF IInv, Load
<1>2. script \in Seq(Kinds) /\ Len(script) \in Nat /\ Len(script) <= MaxLines /\ MaxLines \in Nat
      /\ launches \in 0 .. MaxLaunches
  BY BoundsAssumption DEF IInv, TypeOK
<1>3. label' \in 0 .. Len(script) + 1 /\ dynamic' \in BOOLEAN
  BY DEF Load
<1>4. label' \in 0 .. MaxLines + 1
  BY <1>2, <1>3
<1>5. CASE Accepted(script, label', dynamic')
  <2>1. /\ status' = "running" /\ parent' = Parents(script) /\ related' = RelatedLines(script)
        /\ frames' = <<Frame(1, "return", TRUE, Fresh)>>
    BY <1>5 DEF Load
  <2>2. Links(script', parent', related')
    <3>1. Links(script, Parents(script), RelatedLines(script))
      BY <1>2, <1>5, LoadLinks
    <3> QED BY <1>1, <2>1, <3>1
  <2>3. Linked' /\ LabelOK(script, label)'
    <3>1. LabelOK(script', label')
      BY <1>1, <1>5 DEF Accepted
    <3> QED BY <2>2, <3>1 DEF Linked
  <2> DEFINE f == Frame(1, "return", TRUE, Fresh)
  <2>4. f.line = 1 /\ f.mode = "return" /\ f.phase = "line" /\ f.thread /\ f.jump = 0
        /\ f.under = Fresh
    BY DEF Frame
  <2>5. (f \in FrameSet)'
    <3>1. 0 \in 0 .. LastLine(script') /\ 0 \in 0 .. MaxFolders
      <4>1. LastLine(script') \in Nat /\ MaxFolders \in Nat
        BY <1>1, <1>2, BoundsAssumption DEF LastLine
      <4> QED BY <4>1
    <3>2. 1 \in Lines(script')
      BY <2>2 DEF Links
    <3> QED BY <3>1, <3>2, FreshValues DEF Frame, FrameSet, Modes, Phases, Values, Fresh
  <2>6. frames' = <<f>>
    BY <2>1
  <2> HIDE DEF f
  <2>7. Len(frames') = 1 /\ frames'[1] = f /\ frames' # <<>> /\ 1 .. 1 = {1}
    BY <2>6
  <2>8. (frames \in Seq(FrameSet))'
    BY <2>5, <2>6
  <2>9. FrameOK(frames[1])'
    <3>1. Start(script', 1)
      BY <2>2 DEF Links
    <3>2. OnLevel(frames[1])' /\ PhaseOK(frames[1])' /\ Target(frames[1].jump)'
      BY <2>4, <2>7, <3>1 DEF OnLevel, PhaseOK, Target
    <3>3. LevelOK(frames[1])'
      BY <2>4, <2>7, <3>2 DEF LevelOK
    <3>4. (frames[1] \in FrameSet)'
      BY <2>5, <2>7
    <3>5. ReturnOK(frames[1])'
      <4>1. OB(script, 1) = <<>>
        BY <1>2, <1>5, BlocksNested DEF Accepted, BlocksOK, BracesOK, Nested
      <4>2. OB(script, 1)' = <<>>
        BY <1>1, <4>1
      <4> QED BY <2>4, <2>7, <4>2 DEF ReturnOK, AtHome
    <3> QED BY <3>2, <3>3, <3>4, <3>5 DEF FrameOK
  <2>10. SavedOK(frames, 1)'
    BY <2>4, <2>7 DEF SavedOK
  <2>11. StackOK(frames)'
    BY <2>4, <2>7, <2>8, <2>9, <2>10 DEF StackOK, SlotOK
  <2>12. TopOK(frames, g)'
    BY <1>1, <2>4, <2>7 DEF TopOK, Current, Seen, BeforeItem, BeforeFunc, Fresh
  <2>13. TypeOK'
    <3>1. parent' \in [Lines(script') -> 0 .. LastLine(script')]
          /\ related' \in [Lines(script') -> 0 .. LastLine(script')]
      BY <2>2 DEF Links
    <3>2. (g \in Values)'
      BY <1>1, FreshValues DEF Values, Fresh
    <3> QED BY <1>1, <1>2, <1>3, <1>4, <2>1, <2>8, <3>1, <3>2 DEF TypeOK, FrameSet
  <2> QED BY <1>1, <1>3, <2>1, <2>3, <2>11, <2>12, <2>13 DEF IInv
<1>6. CASE ~Accepted(script, label', dynamic')
  <2>1. status' = "rejected" /\ frames' = <<>> /\ g' = Fresh
    BY <1>1, <1>6 DEF Load
  <2>2. (frames \in Seq(FrameSet))'
    BY <2>1
  <2>3. TypeOK'
    BY <1>1, <1>2, <1>3, <1>4, <2>1, <2>2, FreshValues DEF TypeOK, FrameSet, Values, Fresh
  <2> QED BY <2>1, <2>3 DEF IInv
<1> QED BY <1>5, <1>6

LEMMA NextKeeps ==
  ASSUME IInv, [Next]_vars
  PROVE  IInv'
<1>1. CASE AddLine
  BY <1>1, AddLineKeeps
<1>2. CASE Load
  BY <1>2, LoadKeeps
<1>3. CASE Launch
  <2>1. status = "running" /\ UNCHANGED <<script, label, dynamic, status, parent, related>>
        /\ launches' = launches + 1 /\ launches < MaxLaunches
    BY <1>3 DEF Launch
  <2>2. launches' \in 0 .. MaxLaunches
    <3>1. launches \in 0 .. MaxLaunches /\ MaxLaunches \in Nat
      BY BoundsAssumption DEF IInv, TypeOK
    <3> QED BY <2>1, <3>1
  <2>3. Good(frames', g')
    BY <1>3, <2>1, IsReady, LaunchGood
  <2> QED BY <2>1, <2>2, <2>3, RunKept
<1>4. CASE Steps
  <2>1. status = "running"
    BY <1>4 DEF Steps, Perform, IfTrue, IfFalse, IfFails, Loop, LoopFails, Iterate, LoopDone, Goto, Gosub,
         GroupOnly, Call, ReturnLine, BreakOrContinue, Exit, BlockBegin, FunctionBody, BlockEnd, ElseLine,
         On, InPhase
  <2>2. Good(frames', g') /\ Settled
    BY <1>4, <2>1, IsReady, StepsGood
  <2>3. launches' \in 0 .. MaxLaunches
    BY <2>2 DEF IInv, TypeOK, Settled
  <2>4. UNCHANGED <<script, label, dynamic, status, parent, related>>
    BY <2>2 DEF Settled
  <2> QED BY <2>1, <2>2, <2>3, <2>4, RunKept
<1>5. CASE UNCHANGED vars
  <2>0. script' = script /\ label' = label /\ dynamic' = dynamic /\ status' = status
        /\ parent' = parent /\ related' = related /\ frames' = frames /\ g' = g /\ launches' = launches
    BY <1>5 DEF vars
  <2>1. CASE status = "running"
    <3>1. Good(frames', g')
      <4>1. Good(frames, g)
        BY <2>1, IsReady
      <4> QED BY <2>0, <4>1
    <3>2. launches' \in 0 .. MaxLaunches
      BY <2>0 DEF IInv, TypeOK
    <3> QED BY <2>0, <2>1, <3>1, <3>2, RunKept
  <2>2. CASE status # "running"
    <3>1. TypeOK'
      BY <2>0 DEF IInv, TypeOK, Lines, LastLine, Values
    <3> QED BY <2>0, <2>2, <3>1 DEF IInv, Fresh
  <2> QED BY <2>1, <2>2
<1> QED BY <1>1, <1>2, <1>3, <1>4, <1>5 DEF Next, Steps

LEMMA Invariant == Spec => []IInv
<1>1. Init => IInv
  BY InitHolds
<1>2. IInv /\ [Next]_vars => IInv'
  BY NextKeeps
<1> QED BY <1>1, <1>2, PTL DEF Spec


-----------------------------------------------------------------------------
(* What the invariant means.                                               *)

\* One unfolding of the chain of parents in RunsWithin.
LEMMA ChainUnfolds ==
  ASSUME Ready, NEW y, NEW l \in Lines(script), parent[l] = y
  PROVE  LET E[x \in 0 .. LastLine(script)] == x # 0 /\ (parent[x] = y \/ E[parent[x]])
         IN E[l]
<1> DEFINE N == LastLine(script)
           D == 0 .. N
           G == [x \in D |-> [f \in [D -> BOOLEAN] |-> x # 0 /\ (parent[x] = y \/ f[parent[x]])]]
           m == [x \in D |-> x]
           Body(f) == [x \in D |-> x # 0 /\ (parent[x] = y \/ f[parent[x]])]
<1>1. N \in Nat /\ l \in D /\ l # 0 /\ \A x \in D : x # 0 => x \in Lines(script)
  <2>1. N \in Nat /\ l \in D /\ l # 0
    BY Sizes
  <2>2. Lines(script) = 1 .. N
    BY DEF Lines
  <2> QED BY <2>1, <2>2
<1>2. \A x \in D : x # 0 => parent[x] \in 0 .. x - 1 /\ parent[x] \in D
  <2>1. LinksOfParents(script, parent) /\ parent \in [Lines(script) -> D]
    BY DEF Ready, Linked, Links
  <2> QED BY <1>1, <2>1 DEF LinksOfParents
<1>3. \E f : f = Body(f)
  <2> DEFINE F == [D -> BOOLEAN]
  <2>1. F # {} /\ Over(F, D)
    <3>1. [x \in D |-> TRUE] \in F
      OBVIOUS
    <3> QED BY <3>1 DEF Over
  <2>2. Measure(m, D, N)
    BY <1>1 DEF Measure
  <2>3. Closed(G, D, F)
    BY DEF Closed
  <2>4. LocalOn(G, D, m, F)
    <3> SUFFICES ASSUME NEW x \in D, NEW f \in F, NEW h \in F,
                        \A z \in D : m[z] < m[x] => f[z] = h[z]
                 PROVE  G[x][f] = G[x][h]
      BY DEF LocalOn
    <3>1. CASE x = 0
      BY <3>1
    <3>2. CASE x # 0
      <4>1. parent[x] \in 0 .. x - 1 /\ parent[x] \in D
        BY <1>2, <3>2
      <4>2. m[parent[x]] < m[x]
        BY <1>1, <4>1
      <4>3. f[parent[x]] = h[parent[x]]
        BY <4>1, <4>2
      <4> HIDE DEF m
      <4> QED BY <4>3
    <3> QED BY <3>1, <3>2
  <2> HIDE DEF F, G, m
  <2>5. SolvedIn(F, G, D)
    BY <1>1, <2>1, <2>2, <2>3, <2>4, RecursionWithin
  <2>6. PICK f \in F : \A x \in D : f[x] = G[x][f]
    BY <2>5 DEF SolvedIn
  <2>7. f = [x \in D |-> f[x]]
    BY DEF F
  <2>8. \A x \in D : G[x][f] = (x # 0 /\ (parent[x] = y \/ f[parent[x]]))
    BY DEF G, F
  <2>9. f = [x \in D |-> x # 0 /\ (parent[x] = y \/ f[parent[x]])]
    BY <2>6, <2>7, <2>8
  <2> QED BY <2>9
<1> DEFINE e == CHOOSE f : f = Body(f)
<1>4. e = Body(e)
  BY <1>3
<1>5. e[l]
  <2> HIDE DEF e
  <2> QED BY <1>1, <1>4
<1> QED BY <1>5


\* The variables have their types, however long the script and however deep the stack.
THEOREM FlowTypeOK == Spec => []TypeOK
<1>1. IInv => TypeOK
  BY DEF IInv
<1> QED BY <1>1, Invariant, PTL

\* The loader's links are sound in every script that it lets run: each line's
\* parent and the line after each statement, IF, ELSE, loop and block are on the
\* level where flow of control expects them (PreparseBlocks, PreparseIfElse).
THEOREM ScriptsAreLinked == Spec => [](status = "running" => Linked)
<1>1. IInv => (status = "running" => Linked)
  BY DEF IInv
<1> QED BY <1>1, Invariant, PTL

\* No frame runs a line outside of the statement that its caller waits for
\* (Line::ExecUntil's treatment of jump_to_line).
THEOREM FramesRunWithin == Spec => []RunsWithin
<1>1. IInv => RunsWithin
  <2> SUFFICES ASSUME IInv, ~FunctionOnBody(script), NEW i \in 1 .. Len(frames) - 1,
                      frames[i].phase \in {"if", "else", "block", "loop"},
                      frames[i + 1].phase # "else"
               PROVE  LET E[x \in 0 .. LastLine(script)] ==
                            x # 0 /\ (parent[x] = frames[i].line \/ E[parent[x]])
                      IN E[frames[i + 1].line]
    BY DEF RunsWithin
  <2> DEFINE a == frames[i]
             b == frames[i + 1]
  <2>1. status = "running"
    <3> SUFFICES ASSUME status # "running" PROVE FALSE
      OBVIOUS
    <3>1. frames = <<>>
      BY DEF IInv
    <3>2. Len(frames) = 0
      BY <3>1
    <3>3. i \in 1 .. 0 - 1
      BY <3>2
    <3> QED BY ONLY <3>3
  <2>2. Ready /\ StackOK(frames)
    BY <2>1, IsReady DEF Good
  <2>3. i \in 1 .. Len(frames) /\ i + 1 \in 1 .. Len(frames) /\ i + 1 # 1 /\ (i + 1) - 1 = i
    <3>1. Len(frames) \in Nat
      BY <2>2 DEF StackOK
    <3> QED BY ONLY <3>1, i \in 1 .. Len(frames) - 1
  <2>4. FrameOK(a) /\ FrameOK(b) /\ Calls(a, b)
    BY <2>2, <2>3 DEF StackOK, SlotOK
  <2>5. a.line \in Lines(script) /\ b.line \in Lines(script)
    BY <2>4 DEF FrameOK, FrameSet
  <2> HIDE DEF a, b
  <2>6. a.phase \in {"if", "else", "block", "loop"} /\ b.phase # "else" /\ Regular
    BY DEF a, b, Regular
  <2>7. CallOf(a, b)
    BY <2>4, <2>6 DEF Calls
  <2>8. parent[b.line] = a.line
    <3>1. CASE a.phase = "block"
      BY <2>6, <2>7, <3>1 DEF CallOf
    <3>2. CASE a.phase \in OwnerPhases
      <4>1. b.line = a.line + 1
        BY <2>6, <2>7, <3>2 DEF CallOf
      <4>2. Line(script, a.line) \in OwnersAndElse
        BY <2>4, <3>2 DEF FrameOK, PhaseOK, OwnerPhases, OwnersAndElse, Owners
      <4>3. LinksOfOwners(script, parent, related)
        BY <2>2 DEF Ready, Linked, Links
      <4> QED BY <2>5, <4>1, <4>2, <4>3 DEF LinksOfOwners
    <3> QED BY <2>6, <3>1, <3>2 DEF OwnerPhases
  <2> QED BY <2>2, <2>5, <2>8, ChainUnfolds DEF a, b
<1> QED BY <1>1, Invariant, PTL

\* A frame meets the end of the block or function whose body it was called for and
\* of no other, and no ELSE, but for subroutines: one whose label is inside a block
\* and that does not return before the end of that block, and one whose label
\* stands on the body of an IF, an ELSE or a loop.
THEOREM EndsAreMetByOwner == Spec => []EndsMetByOwner
<1>1. IInv => EndsMetByOwner
  <2> DEFINE Owned(i) ==
        /\ frames[i].mode = "block" /\ i > 1
        /\ \/ frames[i - 1].phase = "block" /\ frames[i - 1].line = parent[frames[i].line]
           \/ frames[i - 1].phase = "call" /\ Line(script, parent[frames[i].line]) = "func{"
  <2> DEFINE NoReturn(i) ==
        /\ frames[i].mode = "return" /\ label # 0
        /\ OpenBlocks(script)[frames[i].line] = OpenBlocks(script)[label]
  <2> SUFFICES ASSUME IInv, ~FunctionOnBody(script), NEW i \in 1 .. Len(frames),
                      frames[i].phase = "line"
               PROVE  /\ Line(script, frames[i].line) = "else" =>
                           /\ frames[i].mode = "return" /\ label # 0
                           /\ Line(script, parent[label]) \in Owners \cup {"else"}
                      /\ Line(script, frames[i].line) = "}" => Owned(i) \/ NoReturn(i)
    BY DEF EndsMetByOwner
  <2> DEFINE a == frames[i]
  <2>1. status = "running"
    <3> SUFFICES ASSUME status # "running" PROVE FALSE
      OBVIOUS
    <3>1. frames = <<>>
      BY DEF IInv
    <3>2. i \in 1 .. 0
      BY <3>1
    <3> QED BY ONLY <3>2
  <2>2. Ready /\ FrameOK(a) /\ Regular /\ StackOK(frames)
    BY <2>1, IsReady DEF Good, StackOK, SlotOK, Regular
  <2>3. a.mode \in Modes /\ a.phase = "line" /\ a.line \in Lines(script)
    BY <2>2 DEF FrameOK, FrameSet
  <2> HIDE DEF Owned, NoReturn
  <2>4. ASSUME Line(script, a.line) = "}" PROVE Owned(i) \/ NoReturn(i)
    <3> HIDE DEF a
    <3>1. a.mode \in {"block", "return"}
      BY <2>2, <2>3, <2>4 DEF FrameOK, LevelOK, BodyAt, Modes
    <3>2. CASE a.mode = "block"
      <4>1. i # 1 /\ Calls(frames[i - 1], a)
        BY <2>2, <3>2 DEF StackOK, SlotOK, a
      <4>2. CallOf(frames[i - 1], a)
        BY <3>2, <4>1 DEF Calls
      <4>3. i > 1
        BY <4>1
      <4>4. frames[i - 1].phase \in {"block", "call"}
        BY <3>2, <4>2 DEF CallOf
      <4> QED BY <2>2, <3>2, <4>2, <4>3, <4>4 DEF CallOf, Owned, a
    <3>3. CASE a.mode = "return"
      <4>1. AtHome(a.line)
        BY <2>2, <3>3 DEF FrameOK, ReturnOK
      <4>2. a.line \in 1 .. Len(script)
        BY <2>2, <2>3, <2>4, NextLine
      <4>3. a.line \in 1 .. Len(script) + 1 /\ Len(script) \in Nat
        BY <2>2, <4>2 DEF Ready
      <4>4. OB(script, a.line) = OpenBlocks(script)[a.line]
        BY <4>3 DEF OB
      <4>5. OB(script, a.line) # <<>>
        BY <2>2, <2>3, <2>4 DEF Ready, Linked, Links, LinksOfOpenBlocks
      <4>6. label # 0 /\ OB(script, a.line) = OB(script, label)
        BY <4>1, <4>5 DEF AtHome
      <4>7. label \in 1 .. Len(script) + 1
        BY <2>2, <4>3, <4>6 DEF Ready
      <4>8. OB(script, label) = OpenBlocks(script)[label]
        BY <4>7 DEF OB
      <4> QED BY <3>3, <4>4, <4>6, <4>8 DEF NoReturn, a
    <3> QED BY <3>1, <3>2, <3>3
  <2>5. ASSUME Line(script, a.line) = "else"
        PROVE  a.mode = "return" /\ label # 0 /\ Line(script, parent[label]) \in Owners \cup {"else"}
    <3> HIDE DEF a
    <3>1. a.mode # "one"
      BY <2>2, <2>3, <2>5 DEF FrameOK, LevelOK, BodyAt
    <3>2. ~Levelled(a)
      BY <2>2, <2>3, <2>5, LevelledStart DEF Start
    <3>3. a.mode = "return" /\ OnBody
      BY <2>2, <2>3, <3>1, <3>2 DEF Levelled, Modes
    <3>4. label # 0 /\ ~Level(script, label) /\ label \in Lines(script)
      BY <2>2, <3>3, Sizes DEF OnBody
    <3>5. parent[label] = label - 1
      BY <2>2, <3>4 DEF Ready, Linked, Links, LinksOfParents
    <3> QED BY <3>3, <3>4, <3>5 DEF Level, OwnersAndElse
  <2> QED BY <2>4, <2>5 DEF a
<1> QED BY <1>1, Invariant, PTL

\* The last of the frames that mark what is seen, told by CHOOSE.
LEMMA LastOf ==
  ASSUME NEW A, A \subseteq Nat, NEW i \in A, \A j \in A : j <= i
  PROVE  (CHOOSE k \in A : \A j \in A : j <= k) = i
<1> DEFINE k == CHOOSE k \in A : \A j \in A : j <= k
<1>1. k \in A /\ \A j \in A : j <= k
  OBVIOUS
<1> HIDE DEF k
<1>2. k <= i /\ i <= k /\ i \in Nat /\ k \in Nat
  BY <1>1
<1>3. k = i
  BY ONLY <1>2
<1> QED BY <1>3 DEF k

\* While a line runs, A_LoopField and its like are those of the innermost loop of
\* the line's own thread, and A_ThisFunc is set exactly inside a call, on every
\* way out of loops, calls and threads.
THEOREM BuiltinsAreCurrent == Spec => []BuiltinsCurrent
<1>1. IInv => BuiltinsCurrent
  <2> SUFFICES ASSUME IInv, InPhase("line") PROVE BuiltinsCurrent
    BY DEF BuiltinsCurrent
  <2> DEFINE n == Len(frames)
             Base(i) == frames[i].thread /\ \A j \in i + 1 .. n : ~frames[j].thread
             base == CHOOSE i \in 1 .. n : Base(i)
             items == {i \in base .. n : frames[i].phase = "loop" /\ Line(script, frames[i].line) # "loop"}
  <2>1. Ready /\ Good(frames, g) /\ Alive /\ Top.phase = "line" /\ status = "running"
    BY IsReady DEF InPhase, Alive
  <2>2. n \in Nat \ {0} /\ n \in 1 .. n /\ Seen(frames, n, g) /\ frames[n].phase = "line"
        /\ g \in Values
    BY <2>1, OnTop
  <2>3. frames[1].thread
    <3>1. 1 \in 1 .. Len(frames)
      BY <2>2
    <3> QED BY <2>1, <3>1 DEF Good, StackOK, SlotOK
  <2> HIDE DEF n
  <2>4. PICK b \in 1 .. n : Base(b)
    <3> DEFINE A == {x \in 1 .. n : frames[x].thread}
    <3>1. 1 \in A /\ A \subseteq 0 .. n /\ n \in Nat
      BY <2>2, <2>3
    <3> HIDE DEF A
    <3>2. PICK i \in A : \A j \in A : j <= i
      BY <3>1, GreatestNumber
    <3>3. i \in 1 .. n /\ frames[i].thread
      BY <3>2 DEF A
    <3>4. \A j \in i + 1 .. n : j \in 1 .. n /\ ~(j <= i)
      BY ONLY <3>3, <2>2
    <3>5. \A j \in i + 1 .. n : ~frames[j].thread
      BY <3>2, <3>4 DEF A
    <3> QED BY <3>3, <3>5
  <2>5. base \in 1 .. n /\ Base(base)
    BY <2>4
  <2>6. base \in Nat /\ \A j \in base + 1 .. n : j \in base .. n /\ j \in 1 .. n
    <3> HIDE DEF base
    <3> QED BY ONLY <2>2, <2>5
  <2> HIDE DEF base
  <2>7. g.mLoopItem = IF items = {} THEN 0
                      ELSE frames[CHOOSE i \in items : \A j \in items : j <= i].line
    <3>1. SeesItem(frames, n, g.mLoopItem)
      <4>1. ~Item(frames[n]) /\ BeforeItem(frames, n, g.mLoopItem)
        BY <2>2 DEF Item, Seen
      <4> QED BY <2>2, <4>1, ItemOnward
    <3>2. PICK i \in 1 .. n : /\ Marks(frames[i]) /\ \A j \in i + 1 .. n : ~Marks(frames[j])
                              /\ g.mLoopItem = ItemOf(frames[i])
      BY <3>1 DEF SeesItem
    <3>3. i \in base .. n
      <4>1. ~(base \in i + 1 .. n)
        BY <2>5, <3>2 DEF Marks
      <4> QED BY ONLY <2>2, <2>5, <3>2, <4>1
    <3>4. \A j \in base .. n : j \in i + 1 .. n \/ j <= i
      BY ONLY <2>6, <2>2, <3>2
    <3>5. \A j \in items : j <= i
      BY <3>2, <3>4 DEF Marks, Item
    <3>6. items \subseteq Nat
      BY ONLY <2>6
    <3>7. CASE Item(frames[i])
      <4>1. i \in items
        BY <3>3, <3>7 DEF Item
      <4>2. g.mLoopItem = frames[i].line
        BY <3>2, <3>7 DEF ItemOf
      <4> HIDE DEF items
      <4>3. (CHOOSE k \in items : \A j \in items : j <= k) = i
        BY <3>5, <3>6, <4>1, LastOf
      <4> QED BY <4>1, <4>2, <4>3
    <3>8. CASE ~Item(frames[i])
      <4>1. frames[i].thread /\ g.mLoopItem = 0
        BY <3>2, <3>8 DEF Marks, ItemOf
      <4>2. i = base
        <5>1. ~(i \in base + 1 .. n)
          BY <2>5, <4>1
        <5> QED BY ONLY <2>6, <3>3, <5>1
      <4>3. \A j \in items : j \in i + 1 .. n \/ j = i
        BY <3>4, <3>5, <4>2 , <2>6
      <4>4. \A j \in items : Item(frames[j])
        BY DEF Item
      <4>5. items = {}
        BY <3>2, <3>8, <4>3, <4>4 DEF Marks
      <4> QED BY <4>1, <4>5
    <3> QED BY <3>7, <3>8
  <2>8. g.CurrentFunc = \E i \in base .. n : frames[i].phase = "call"
    <3>1. g.CurrentFunc \in BOOLEAN
      BY <2>2 DEF Values
    <3>2. SeesFunc(frames, n, g.CurrentFunc)
      <4>1. frames[n].phase # "call" /\ BeforeFunc(frames, n, g.CurrentFunc)
        BY <2>2 DEF Seen
      <4> QED BY <2>2, <3>1, <4>1, FuncOnward
    <3>3. g.CurrentFunc <=>
            \E i \in 1 .. n : frames[i].phase = "call" /\ \A j \in i + 1 .. n : ~frames[j].thread
      BY <3>2 DEF SeesFunc
    <3>4. ASSUME NEW i \in base .. n, frames[i].phase = "call"
          PROVE  i \in 1 .. n /\ \A j \in i + 1 .. n : ~frames[j].thread
      <4>1. i \in 1 .. n /\ \A j \in i + 1 .. n : j \in base + 1 .. n
        BY ONLY <2>5, <2>6, <3>4
      <4> QED BY <2>5, <4>1
    <3>5. ASSUME NEW i \in 1 .. n, \A j \in i + 1 .. n : ~frames[j].thread
          PROVE  i \in base .. n
      <4>1. ~(base \in i + 1 .. n)
        BY <2>5, <3>5
      <4> QED BY ONLY <2>2, <2>5, <4>1, i \in 1 .. n
    <3>6. g.CurrentFunc <=> \E i \in base .. n : frames[i].phase = "call"
      BY <3>3, <3>4, <3>5
    <3> QED BY <3>1, <3>6
  <2> QED BY <2>7, <2>8 DEF BuiltinsCurrent, base, n
<1> QED BY <1>1, Invariant, PTL


-----------------------------------------------------------------------------
(* What Structured says of the text, and what the loader finds in it.      *)

LEMMA TextKinds ==
  /\ Text!Opens = Opens /\ Text!Owners = Owners /\ Text!LoopKinds = LoopKinds
  /\ Text!Jumps = Jumps
BY DEF Text!Opens, Opens, Text!Owners, Owners, Text!LoopKinds, LoopKinds, Text!Jumps, Jumps

LEMMA ExitsAre ==
  ASSUME NEW S, NEW s \in Seq(S)
  PROVE  /\ Len(Text!Exits(s)) = LastLine(s) /\ Len(s) \in Nat /\ LastLine(s) = Len(s) + 3
         /\ \A l \in 1 .. LastLine(s) : Text!Exits(s)[l] = Line(s, l)
<1> DEFINE T == S \cup {"exit"}
           e == <<"exit", "exit", "exit">>
<1>1. s \in Seq(T) /\ Len(s) \in Nat
  OBVIOUS
<1>2. e \in Seq(T) /\ Len(e) = 3
  OBVIOUS
<1>3. LastLine(s) = Len(s) + 3
  BY DEF LastLine
<1>4. Len(Text!Exits(s)) = LastLine(s)
  BY <1>1, <1>2, <1>3 DEF Text!Exits
<1>5. ASSUME NEW l \in 1 .. LastLine(s) PROVE Text!Exits(s)[l] = Line(s, l)
  <2>1. CASE l \in 1 .. Len(s)
    BY <1>1, <1>2, <2>1 DEF Text!Exits, Line
  <2>2. CASE l \notin 1 .. Len(s)
    <3>1. l - Len(s) \in 1 .. 3 /\ l \in Len(s) + 1 .. Len(s) + 3
      BY <1>1, <1>3, <2>2
    <3>2. e[l - Len(s)] = "exit"
      <4>1. e[1] = "exit" /\ e[2] = "exit" /\ e[3] = "exit"
        OBVIOUS
      <4> HIDE DEF e
      <4>2. l - Len(s) = 1 \/ l - Len(s) = 2 \/ l - Len(s) = 3
        BY ONLY <3>1, <1>1
      <4> QED BY <4>1, <4>2
    <3> HIDE DEF e, T
    <3>3. (s \o e)[l] = e[l - Len(s)]
      <4>1. \A i \in 1 .. Len(s) + Len(e) :
              (s \o e)[i] = IF i <= Len(s) THEN s[i] ELSE e[i - Len(s)]
        BY <1>1, <1>2, ConcatProperties
      <4>2. l \in 1 .. Len(s) + Len(e) /\ ~(l <= Len(s))
        BY ONLY <1>1, <1>2, <3>1
      <4> QED BY <4>1, <4>2
    <3> QED BY <2>2, <3>2, <3>3 DEF Text!Exits, Line, e
  <2> QED BY <2>1, <2>2
<1> QED BY <1>1, <1>3, <1>4, <1>5

\* The recursion of After, over statements and over the rests of blocks.
TextModes == {"statement", "block"}
AfterStates(s) == (0 .. LastLine(s) + 1) \X TextModes
AfterStep(s, f, l, m) ==
  IF l = 0 \/ l > LastLine(s) THEN 0
  ELSE IF m = "block"
  THEN IF Line(s, l) = "}" THEN l + 1 ELSE f[<<f[<<l, "statement">>], "block">>]
  ELSE IF Line(s, l) \in {"else", "}"} THEN 0
  ELSE IF Line(s, l) \in Opens THEN f[<<l + 1, "block">>]
  ELSE IF Line(s, l) \notin Owners THEN l + 1
  ELSE IF /\ Line(s, l) = "if" /\ f[<<l + 1, "statement">>] \in 1 .. LastLine(s)
          /\ Line(s, f[<<l + 1, "statement">>]) = "else"
  THEN f[<<f[<<l + 1, "statement">>] + 1, "statement">>]
  ELSE f[<<l + 1, "statement">>]
AfterRecursion(s, f) == [q \in AfterStates(s) |-> AfterStep(s, f, q[1], q[2])]

\* What PreparseIfElse has for it.
Parsed(s, P) ==
  [q \in AfterStates(s) |->
     IF q[1] = 0 \/ q[1] > LastLine(s) THEN 0
     ELSE IF q[2] = "block" THEN IF RestOf(P, q[1], "block") = 0 THEN 0 ELSE RestOf(P, q[1], "block") + 1
     ELSE IF q[1] = LastLine(s) THEN LastLine(s) + 1 ELSE Stmt(P, q[1])]

LEMMA AfterIs ==
  ASSUME NEW S, NEW s \in Seq(S), NEW e, e = AfterRecursion(s, e)
  PROVE  \E f : /\ f = AfterRecursion(s, f)
                /\ Text!After(s) = [l \in 1 .. LastLine(s) + 1 |-> f[<<l, "statement">>]]
<1> DEFINE k == Text!Exits(s)
           Size == Len(k)
           B(f) == [q \in (0 .. Size + 1) \X {"statement", "block"} |->
                      LET l == q[1]
                          x == f[<<l + 1, "statement">>]
                      IN IF l = 0 \/ l > Size THEN 0
                         ELSE IF q[2] = "block"
                         THEN IF k[l] = "}" THEN l + 1 ELSE f[<<f[<<l, "statement">>], "block">>]
                         ELSE IF k[l] \in {"else", "}"} THEN 0
                         ELSE IF k[l] \in Text!Opens THEN f[<<l + 1, "block">>]
                         ELSE IF k[l] \notin Text!Owners THEN l + 1
                         ELSE IF k[l] = "if" /\ x \in 1 .. Size /\ k[x] = "else"
                         THEN f[<<x + 1, "statement">>]
                         ELSE x]
           E == CHOOSE f : f = B(f)
<1>1. Text!After(s) = [l \in 1 .. Size + 1 |-> E[<<l, "statement">>]]
  BY DEF Text!After
<1>2. Size = LastLine(s) /\ Len(s) \in Nat /\ LastLine(s) = Len(s) + 3
  BY ExitsAre
<1>3. \A l \in 1 .. LastLine(s) : k[l] = Line(s, l)
  BY ExitsAre
<1>4. ASSUME NEW f PROVE B(f) = AfterRecursion(s, f)
  <2> HIDE DEF k
  <2>1. ASSUME NEW q \in (0 .. Size + 1) \X {"statement", "block"}
        PROVE  B(f)[q] = AfterStep(s, f, q[1], q[2])
    <3> DEFINE l == q[1]
               x == f[<<l + 1, "statement">>]
    <3>1. l \in 0 .. Size + 1 /\ q[2] \in {"statement", "block"}
      OBVIOUS
    <3>2. CASE l = 0 \/ l > Size
      BY <1>2, <3>2 DEF AfterStep
    <3>3. CASE ~(l = 0 \/ l > Size)
      <4>1. l \in 1 .. LastLine(s) /\ k[l] = Line(s, l)
        BY <1>2, <1>3, <3>1, <3>3
      <4>2. x \in 1 .. Size => k[x] = Line(s, x)
        BY <1>2, <1>3
      <4>3. B(f)[q] = IF q[2] = "block"
                      THEN IF k[l] = "}" THEN l + 1 ELSE f[<<f[<<l, "statement">>], "block">>]
                      ELSE IF k[l] \in {"else", "}"} THEN 0
                      ELSE IF k[l] \in Text!Opens THEN f[<<l + 1, "block">>]
                      ELSE IF k[l] \notin Text!Owners THEN l + 1
                      ELSE IF k[l] = "if" /\ x \in 1 .. Size /\ k[x] = "else"
                      THEN f[<<x + 1, "statement">>]
                      ELSE x
        BY <3>3
      <4>4. AfterStep(s, f, l, q[2]) =
                      IF q[2] = "block"
                      THEN IF Line(s, l) = "}" THEN l + 1 ELSE f[<<f[<<l, "statement">>], "block">>]
                      ELSE IF Line(s, l) \in {"else", "}"} THEN 0
                      ELSE IF Line(s, l) \in Opens THEN f[<<l + 1, "block">>]
                      ELSE IF Line(s, l) \notin Owners THEN l + 1
                      ELSE IF Line(s, l) = "if" /\ x \in 1 .. Size /\ Line(s, x) = "else"
                      THEN f[<<x + 1, "statement">>]
                      ELSE x
        BY <1>2, <3>3 DEF AfterStep
      <4> HIDE DEF B
      <4>5. Text!Opens = Opens /\ Text!Owners = Owners
        BY TextKinds
      <4> HIDE DEF x, l, Size
      <4>6. k[l] = Line(s, l)
        BY <4>1
      <4>7. (x \in 1 .. Size /\ k[x] = "else") <=> (x \in 1 .. Size /\ Line(s, x) = "else")
        BY <4>2
      <4> QED BY ONLY <4>3, <4>4, <4>5, <4>6, <4>7 DEF l
    <3> QED BY <3>2, <3>3
  <2>2. DOMAIN B(f) = (0 .. Size + 1) \X {"statement", "block"}
    OBVIOUS
  <2>3. AfterStates(s) = (0 .. Size + 1) \X {"statement", "block"}
    BY <1>2 DEF AfterStates, TextModes
  <2>4. B(f) = [q \in (0 .. Size + 1) \X {"statement", "block"} |-> B(f)[q]]
    OBVIOUS
  <2> HIDE DEF B, Size
  <2> QED BY <2>1, <2>3, <2>4 DEF AfterRecursion
<1> HIDE DEF B
<1>5. e = B(e)
  BY <1>4
<1>6. E = B(E)
  BY <1>5
<1>7. E = AfterRecursion(s, E)
  BY <1>4, <1>6
<1> HIDE DEF E, Size
<1> QED BY <1>1, <1>2, <1>7

\* The statements and blocks of PreparseIfElse, where it does not look at loops and labels.
Statements(s, P) ==
  \A l \in 1 .. LastLine(s) - 1 :
    /\ Line(s, l) \in {"else", "}"} => Stmt(P, l) = 0
    /\ Line(s, l) \in Opens =>
         Stmt(P, l) = IF RestOf(P, l + 1, "block") = 0 THEN 0 ELSE RestOf(P, l + 1, "block") + 1
    /\ Line(s, l) \in Owners =>
         Stmt(P, l) = IF Line(s, l) = "if" /\ Stmt(P, l + 1) # 0 /\ Line(s, Stmt(P, l + 1)) = "else"
                      THEN Stmt(P, Stmt(P, l + 1) + 1) ELSE Stmt(P, l + 1)
    /\ Simple(s, l) => Stmt(P, l) = l + 1

RestsIn(s, P, mode) ==
  \A l \in 1 .. LastLine(s) - 1 :
    RestOf(P, l, mode) = IF Line(s, l) = "}" THEN l
                         ELSE IF Stmt(P, l) = 0 THEN 0 ELSE RestOf(P, Stmt(P, l), mode)
Rests(s, P) == RestsIn(s, P, "block")

LEMMA BodyIs ==
  ASSUME NEW s, NEW p, NEW P, Unfolds(s, p, 0, TRUE, P), NEW x \in 1 .. LastLine(s) - 1
  PROVE  BodyFrom(s, P, x, TRUE) = Stmt(P, x)
<1>1. StepIs(s, p, 0, TRUE, P, x, "one", TRUE, Stmt(P, x))
  BY DEF Unfolds, Stmt, ParseModes
<1>2. CASE Line(s, x) = "else"
  BY <1>1, <1>2 DEF StepIs, BodyFrom
<1>3. CASE Line(s, x) = "}"
  BY <1>1, <1>3 DEF StepIs, BodyFrom
<1>4. CASE Line(s, x) \notin {"else", "}"}
  BY <1>4 DEF BodyFrom, Stmt
<1> QED BY <1>2, <1>3, <1>4

LEMMA StatementsAre ==
  ASSUME NEW S, NEW s \in Seq(S), NEW p, NEW P, Unfolds(s, p, 0, TRUE, P), Ranges(s, P, 0)
  PROVE  Statements(s, P)
<1> DEFINE N == LastLine(s)
<1>1. Len(s) \in Nat /\ N = Len(s) + 3
  BY ExitsAre
<1>2. ASSUME NEW l \in 1 .. N - 1
      PROVE  /\ Line(s, l) \in {"else", "}"} => Stmt(P, l) = 0
             /\ Line(s, l) \in Opens =>
                  Stmt(P, l) = IF RestOf(P, l + 1, "block") = 0 THEN 0 ELSE RestOf(P, l + 1, "block") + 1
             /\ Line(s, l) \in Owners =>
                  Stmt(P, l) = IF Line(s, l) = "if" /\ Stmt(P, l + 1) # 0 /\ Line(s, Stmt(P, l + 1)) = "else"
                               THEN Stmt(P, Stmt(P, l + 1) + 1) ELSE Stmt(P, l + 1)
             /\ Simple(s, l) => Stmt(P, l) = l + 1
  <2>1. StepIs(s, p, 0, TRUE, P, l, "one", TRUE, Stmt(P, l))
    BY DEF Unfolds, Stmt, ParseModes
  <2>2. l \in Nat /\ l # 0 /\ l + 1 # 0
    BY <1>1
  <2>3. Line(s, l) \in {"else", "}"} => Stmt(P, l) = 0
    BY <2>1 DEF StepIs
  <2>4. ASSUME Line(s, l) \in Opens
        PROVE  Stmt(P, l) = IF RestOf(P, l + 1, "block") = 0 THEN 0 ELSE RestOf(P, l + 1, "block") + 1
    <3>1. Stmt(P, l) = BlockStep(P, l, "one", TRUE)
      BY <2>1, <2>4 DEF StepIs
    <3> QED BY <3>1 DEF BlockStep, Onward, RestOf
  <2>5. Simple(s, l) => Stmt(P, l) = l + 1
    <3>1. Simple(s, l) => ~Stops(s, p, 0, TRUE, l, TRUE)
      BY DEF Stops, JumpOK
    <3> QED BY <2>1, <3>1 DEF StepIs, Onward
  <2>6. ASSUME Line(s, l) \in Owners
        PROVE  Stmt(P, l) = IF Line(s, l) = "if" /\ Stmt(P, l + 1) # 0 /\ Line(s, Stmt(P, l + 1)) = "else"
                            THEN Stmt(P, Stmt(P, l + 1) + 1) ELSE Stmt(P, l + 1)
    <3> DEFINE e == Stmt(P, l + 1)
    <3>1. Stmt(P, l) = OwnerStep(s, P, l, "one", TRUE)
      BY <2>1, <2>6 DEF StepIs
    <3>2. Line(s, l) # "exit"
      BY <2>6 DEF Owners, LoopKinds
    <3>3. l \in 1 .. Len(s)
      BY <2>2, <3>2, LineKinds
    <3>4. BodyFrom(s, P, l + 1, TRUE) = e
      <4>1. l + 1 \in 1 .. N - 1
        BY <1>1, <3>3
      <4> QED BY <4>1, BodyIs
    <3>5. TRUE \/ Line(s, l) \in LoopKinds <=> TRUE
      OBVIOUS
    <3>6. Stmt(P, l) = IF e = 0 THEN 0
                       ELSE IF Line(s, e) # "else" THEN e
                       ELSE IF Line(s, l) \in LoopKinds THEN e
                       ELSE BodyFrom(s, P, e + 1, TRUE)
      <4> HIDE DEF e
      <4>1. BodyFrom(s, P, l + 1, TRUE \/ Line(s, l) \in LoopKinds) = BodyFrom(s, P, l + 1, TRUE)
        BY <3>5
      <4> QED BY <3>1, <3>4, <4>1 DEF OwnerStep, Onward
    <3>7. e # 0 /\ Line(s, e) = "else" => BodyFrom(s, P, e + 1, TRUE) = Stmt(P, e + 1)
      <4> SUFFICES ASSUME e # 0, Line(s, e) = "else" PROVE BodyFrom(s, P, e + 1, TRUE) = Stmt(P, e + 1)
        OBVIOUS
      <4>1. e \in 0 .. N
        <5>1. l + 1 \in 0 .. N
          BY <1>1, <3>3
        <5>2. e \in ParseRange(s, l + 1, "one")
          BY <5>1 DEF Ranges, Stmt, ParseModes
        <5> HIDE DEF e
        <5> QED BY <1>1, <5>1, <5>2 DEF ParseRange
      <4> HIDE DEF e
      <4>2. e \in 1 .. Len(s)
        BY <1>1, <4>1, LineKinds
      <4>3. e + 1 \in 1 .. N - 1
        BY <1>1, <4>2
      <4> QED BY <4>3, BodyIs
    <3>8. Line(s, l) \in LoopKinds <=> Line(s, l) # "if"
      BY <2>6 DEF Owners, LoopKinds
    <3> HIDE DEF e
    <3> QED BY <3>6, <3>7, <3>8 DEF e
  <2> QED BY <2>3, <2>4, <2>5, <2>6
<1> QED BY <1>2 DEF Statements

LEMMA InRange ==
  ASSUME NEW a \in Nat, NEW b \in Nat, NEW x \in a .. b
  PROVE  x \in Nat /\ a <= x /\ x <= b
OBVIOUS

LEMMA Ahead ==
  ASSUME NEW a \in Nat, NEW b \in Nat, a + 1 <= b
  PROVE  a < b /\ a <= b
OBVIOUS

LEMMA LineNumber ==
  ASSUME NEW S, NEW s \in Seq(S), NEW l \in 1 .. LastLine(s) - 1
  PROVE  /\ l \in Nat /\ l # 0 /\ l >= 1 /\ l + 1 # 0 /\ l + 1 \in Nat
         /\ l \in 1 .. LastLine(s) /\ l + 1 \in 1 .. LastLine(s) /\ l + 1 \in 0 .. LastLine(s)
BY ExitsAre

LEMMA Extent ==
  ASSUME NEW S, NEW s \in Seq(S)
  PROVE  /\ Len(s) \in Nat /\ LastLine(s) = Len(s) + 3 /\ LastLine(s) \in Nat /\ LastLine(s) >= 1
         /\ \A l \in 1 .. Len(s) : l \in 1 .. LastLine(s) - 1
BY ExitsAre

\* In the modes that go on, PreparseIfElse goes on after one statement.
ReadsOn(P, l, mode, b) == P[<<l, mode, b>>] = P[<<P[<<l, "one", b>>], mode, b>>]

LEMMA NextInMode ==
  ASSUME NEW S, NEW s \in Seq(S), NEW p, NEW lab, NEW dyn, NEW P,
         Unfolds(s, p, lab, dyn, P), Ranges(s, P, 0),
         NEW l \in 1 .. LastLine(s) - 1, Line(s, l) # "}",
         NEW mode \in {"block", "all"}, NEW b \in BOOLEAN
  PROVE  ReadsOn(P, l, mode, b)
<1> DEFINE N == LastLine(s)
           r == P[<<l, mode, b>>]
           x == P[<<l, "one", b>>]
<1>1. N \in Nat /\ \A e \in 1 .. Len(s) : e \in 1 .. N - 1
  BY Extent
<1>2. P[<<0, mode, b>>] = 0 /\ mode # "one" /\ mode \in ParseModes
  BY DEF Unfolds, ParseModes
<1>3. /\ StepIs(s, p, lab, dyn, P, l, mode, b, r)
      /\ StepIs(s, p, lab, dyn, P, l, "one", b, x)
  BY <1>2 DEF Unfolds, ParseModes
<1>4. l \in Nat /\ l # 0 /\ l + 1 # 0 /\ l + 1 \in Nat /\ l + 1 \in 0 .. N
  BY LineNumber
<1> SUFFICES r = P[<<x, mode, b>>]
  BY DEF ReadsOn
<1> HIDE DEF r, x
<1>5. CASE Line(s, l) = "else"
  BY <1>2, <1>3, <1>5 DEF StepIs
<1>6. CASE Line(s, l) \in Opens
  <2>1. r = BlockStep(P, l, mode, b) /\ x = BlockStep(P, l, "one", b)
    BY <1>3, <1>6 DEF StepIs
  <2> DEFINE e == P[<<l + 1, "block", b>>]
             y == e + 1
  <2>2. r = (IF e = 0 THEN 0 ELSE IF y = 0 THEN y ELSE P[<<y, mode, b>>]) /\ x = IF e = 0 THEN 0 ELSE y
    BY <1>2, <2>1 DEF BlockStep, Onward
  <2> HIDE DEF e, y
  <2> QED BY <1>2, <2>2
<1>7. CASE Line(s, l) \in Owners
  <2> DEFINE c == b \/ Line(s, l) \in LoopKinds
             e == BodyFrom(s, P, l + 1, c)
             d == BodyFrom(s, P, e + 1, b)
  <2>1. r = OwnerStep(s, P, l, mode, b) /\ x = OwnerStep(s, P, l, "one", b)
    BY <1>3, <1>7 DEF StepIs
  <2>2. x = IF e = 0 THEN 0
            ELSE IF Line(s, e) # "else" THEN e
            ELSE IF Line(s, l) \in LoopKinds THEN e ELSE d
    <3>1. x = LET z == e
              IN IF z = 0 THEN 0
                 ELSE IF Line(s, z) # "else" THEN Onward(P, "one", b, z)
                 ELSE IF Line(s, l) \in LoopKinds THEN z
                 ELSE Onward(P, "one", b, BodyFrom(s, P, z + 1, b))
      BY <2>1 DEF OwnerStep
    <3> HIDE DEF e
    <3> QED BY <3>1 DEF Onward
  <2>3. r = IF e = 0 THEN 0
            ELSE IF Line(s, e) # "else" THEN P[<<e, mode, b>>]
            ELSE IF Line(s, l) \in LoopKinds THEN 0
            ELSE IF d = 0 THEN 0 ELSE P[<<d, mode, b>>]
    <3>1. r = LET z == e
              IN IF z = 0 THEN 0
                 ELSE IF Line(s, z) # "else" THEN Onward(P, mode, b, z)
                 ELSE IF Line(s, l) \in LoopKinds THEN 0
                 ELSE Onward(P, mode, b, BodyFrom(s, P, z + 1, b))
      BY <1>2, <2>1 DEF OwnerStep
    <3>2. \A z : Onward(P, mode, b, z) = IF z = 0 THEN 0 ELSE P[<<z, mode, b>>]
      BY <1>2 DEF Onward
    <3> HIDE DEF e
    <3> QED BY <3>1, <3>2
  <2>4. e # 0 /\ Line(s, e) = "else" => P[<<e, mode, b>>] = 0
    <3> SUFFICES ASSUME e # 0, Line(s, e) = "else" PROVE P[<<e, mode, b>>] = 0
      OBVIOUS
    <3>1. l \in 1 .. Len(s)
      <4>1. Line(s, l) # "exit"
        BY <1>7 DEF Owners, LoopKinds
      <4> QED BY <1>4, <4>1, LineKinds
    <3>2. l + 1 \in 0 .. N /\ N \in Nat
      BY <1>1, <1>4
    <3>3. e = P[<<l + 1, "one", c>>]
      BY DEF BodyFrom
    <3>4. e \in ParseRange(s, l + 1, "one")
      BY <3>2, <3>3 DEF Ranges, ParseModes
    <3> HIDE DEF e
    <3>5. e \in Nat
      <4>1. e \in l + 1 .. N
        BY <3>4 DEF ParseRange
      <4> QED BY <1>4, <3>2, <4>1, InRange
    <3>6. e \in 1 .. Len(s)
      BY <3>5, LineKinds
    <3>7. e \in 1 .. N - 1
      BY <1>1, <3>6
    <3>8. StepIs(s, p, lab, dyn, P, e, mode, b, P[<<e, mode, b>>])
      BY <1>2, <3>7 DEF Unfolds
    <3> QED BY <3>8 DEF StepIs
  <2> HIDE DEF e, d
  <2> QED BY <1>2, <2>2, <2>3, <2>4
<1>8. CASE Simple(s, l)
  BY <1>2, <1>3, <1>4, <1>8 DEF StepIs, Onward
<1>9. Simple(s, l) \/ Line(s, l) \in Owners \cup Opens \cup {"else"}
  BY DEF Simple
<1> QED BY <1>5, <1>6, <1>7, <1>8, <1>9

LEMMA RestsInMode ==
  ASSUME NEW S, NEW s \in Seq(S), NEW p, NEW P, Unfolds(s, p, 0, TRUE, P), Ranges(s, P, 0),
         NEW mode \in {"block", "all"}
  PROVE  RestsIn(s, P, mode)
<1>1. P[<<0, mode, TRUE>>] = 0 /\ mode # "one" /\ mode \in ParseModes
  BY DEF Unfolds, ParseModes
<1>2. ASSUME NEW l \in 1 .. LastLine(s) - 1
      PROVE  RestOf(P, l, mode) = IF Line(s, l) = "}" THEN l
                                  ELSE IF Stmt(P, l) = 0 THEN 0 ELSE RestOf(P, Stmt(P, l), mode)
  <2>1. CASE Line(s, l) = "}"
    <3>1. StepIs(s, p, 0, TRUE, P, l, mode, TRUE, RestOf(P, l, mode))
      BY <1>1 DEF Unfolds, RestOf
    <3> QED BY <1>1, <2>1, <3>1 DEF StepIs
  <2>2. CASE Line(s, l) # "}"
    <3>1. RestOf(P, l, mode) = P[<<Stmt(P, l), mode, TRUE>>]
      <4>1. ReadsOn(P, l, mode, TRUE)
        BY <2>2, NextInMode
      <4> QED BY <4>1 DEF ReadsOn, RestOf, Stmt
    <3> HIDE DEF Stmt
    <3> QED BY <1>1, <2>2, <3>1 DEF RestOf
  <2> QED BY <2>1, <2>2
<1> QED BY <1>2 DEF RestsIn

LEMMA RestsAre ==
  ASSUME NEW S, NEW s \in Seq(S), NEW p, NEW P, Unfolds(s, p, 0, TRUE, P), Ranges(s, P, 0)
  PROVE  Rests(s, P)
BY RestsInMode DEF Rests

LEMMA StatementRange ==
  ASSUME NEW S, NEW s \in Seq(S), NEW P, Ranges(s, P, 0), NEW l \in 1 .. LastLine(s)
  PROVE  /\ Stmt(P, l) \in {0} \cup l .. LastLine(s)
         /\ RestOf(P, l, "block") \in {0} \cup l .. Len(s)
         /\ LastLine(s) \in Nat /\ Len(s) \in Nat /\ LastLine(s) = Len(s) + 3
<1>1. Len(s) \in Nat /\ LastLine(s) = Len(s) + 3 /\ l \in 0 .. LastLine(s)
  BY ExitsAre
<1>2. Stmt(P, l) \in ParseRange(s, l, "one") /\ RestOf(P, l, "block") \in ParseRange(s, l, "block")
  BY <1>1 DEF Ranges, Stmt, RestOf, ParseModes
<1> QED BY <1>1, <1>2 DEF ParseRange

LEMMA StatementAhead ==
  ASSUME NEW S, NEW s \in Seq(S), NEW P, Statements(s, P), Ranges(s, P, 0),
         NEW l \in 1 .. LastLine(s) - 1
  PROVE  Stmt(P, l) \in {0} \cup l + 1 .. LastLine(s)
<1> DEFINE N == LastLine(s)
<1>0. Len(s) \in Nat /\ N = Len(s) + 3
  BY ExitsAre
<1>1. N \in Nat /\ l + 1 \in 1 .. N /\ l \in Nat
  BY <1>0
<1>2. Stmt(P, l + 1) \in {0} \cup l + 1 .. N
  BY <1>1, StatementRange
<1>3. CASE Line(s, l) \in {"else", "}"}
  BY <1>3 DEF Statements
<1>4. CASE Line(s, l) \in Opens
  <2>1. RestOf(P, l + 1, "block") \in {0} \cup l + 1 .. Len(s) /\ N = Len(s) + 3 /\ Len(s) \in Nat
    BY <1>1, StatementRange
  <2>2. Stmt(P, l) = IF RestOf(P, l + 1, "block") = 0 THEN 0 ELSE RestOf(P, l + 1, "block") + 1
    BY <1>4 DEF Statements
  <2> QED BY <1>1, <2>1, <2>2
<1>5. CASE Line(s, l) \in Owners
  <2> DEFINE e == Stmt(P, l + 1)
  <2>1. Stmt(P, l) = IF Line(s, l) = "if" /\ e # 0 /\ Line(s, e) = "else" THEN Stmt(P, e + 1) ELSE e
    BY <1>5 DEF Statements
  <2>2. ASSUME e # 0, Line(s, e) = "else" PROVE Stmt(P, e + 1) \in {0} \cup l + 1 .. N
    <3>1. e \in Nat /\ e \in l + 1 .. N
      BY <1>1, <1>2, <2>2
    <3> HIDE DEF e
    <3>2. e \in 1 .. Len(s) /\ N = Len(s) + 3 /\ Len(s) \in Nat
      BY <2>2, <3>1, LineKinds, StatementRange
    <3>3. e + 1 \in 1 .. N
      BY <3>2
    <3>4. Stmt(P, e + 1) \in {0} \cup e + 1 .. N
      BY <3>3, StatementRange
    <3> QED BY <1>1, <3>1, <3>4
  <2>3. e \in {0} \cup l + 1 .. N
    BY <1>2
  <2> HIDE DEF e
  <2>4. Stmt(P, l) \in {0} \cup l + 1 .. N
    <3>1. Stmt(P, l) = e \/ (e # 0 /\ Line(s, e) = "else" /\ Stmt(P, l) = Stmt(P, e + 1))
      BY <2>1
    <3> HIDE DEF N
    <3> QED BY <2>2, <2>3, <3>1
  <2> QED BY <2>4
<1>6. CASE Simple(s, l)
  <2>1. Stmt(P, l) = l + 1
    BY <1>6 DEF Statements
  <2> QED BY <1>1, <2>1
<1> QED BY <1>3, <1>4, <1>5, <1>6 DEF Simple

\* What has been parsed is a solution of After's recursion.
LEMMA ParsedSolves ==
  ASSUME NEW S, NEW s \in Seq(S), NEW P, Statements(s, P), Rests(s, P), Ranges(s, P, 0),
         RestOf(P, LastLine(s), "block") = 0
  PROVE  Parsed(s, P) = AfterRecursion(s, Parsed(s, P))
<1> DEFINE N == LastLine(s)
           C == Parsed(s, P)
<1>1. Len(s) \in Nat /\ N = Len(s) + 3
  BY ExitsAre
<1>2. /\ \A l \in 1 .. N - 1 : C[<<l, "statement">>] = Stmt(P, l)
      /\ C[<<N, "statement">>] = N + 1
      /\ C[<<0, "statement">>] = 0 /\ C[<<N + 1, "statement">>] = 0
  BY <1>1 DEF Parsed, AfterStates, TextModes
<1>3. /\ \A l \in 1 .. N : C[<<l, "block">>] = IF RestOf(P, l, "block") = 0 THEN 0
                                               ELSE RestOf(P, l, "block") + 1
      /\ C[<<0, "block">>] = 0 /\ C[<<N + 1, "block">>] = 0
  BY <1>1 DEF Parsed, AfterStates, TextModes
<1>4. ASSUME NEW q \in AfterStates(s) PROVE C[q] = AfterStep(s, C, q[1], q[2])
  <2> DEFINE l == q[1]
  <2>1. l \in 0 .. N + 1 /\ q[2] \in TextModes /\ q = <<l, q[2]>>
    BY DEF AfterStates
  <2> HIDE DEF C
  <2>a. ASSUME l \in 1 .. N PROVE ~(l = 0 \/ l > N) /\ l \in Nat
    BY <1>1, <2>a
  <2>2. CASE l = 0 \/ l > N
    <3>1. l = 0 \/ l = N + 1
      BY <1>1, <2>1, <2>2
    <3>2. C[q] = 0
      BY <1>2, <1>3, <2>1, <3>1 DEF TextModes
    <3> QED BY <2>2, <3>2 DEF AfterStep
  <2>3. CASE l \in 1 .. N /\ q[2] = "block"
    <3>1. AfterStep(s, C, l, q[2]) =
            IF Line(s, l) = "}" THEN l + 1 ELSE C[<<C[<<l, "statement">>], "block">>]
      <4> HIDE DEF l
      <4>1. ~(l = 0 \/ l > LastLine(s)) /\ q[2] = "block"
        BY <2>3, <2>a
      <4> QED BY <4>1 DEF AfterStep
    <3>2. C[q] = IF RestOf(P, l, "block") = 0 THEN 0 ELSE RestOf(P, l, "block") + 1
      BY <1>3, <2>1, <2>3
    <3>3. CASE l = N
      <4>1. Line(s, l) # "}"
        <5>1. l \notin 1 .. Len(s)
          BY <1>1, <3>3
        <5> HIDE DEF l
        <5> QED BY <5>1 DEF Line
      <4>2. C[<<C[<<l, "statement">>], "block">>] = 0
        BY <1>2, <1>3, <3>3
      <4> QED BY <3>1, <3>2, <3>3, <4>1, <4>2
    <3>4. CASE l # N
      <4>1. l \in 1 .. N - 1
        BY <1>1, <2>3, <3>4
      <4>2. C[<<l, "statement">>] = Stmt(P, l) /\ Stmt(P, l) \in {0} \cup l + 1 .. N
        BY <1>2, <4>1, StatementAhead
      <4>3. RestOf(P, l, "block") = IF Line(s, l) = "}" THEN l
                                    ELSE IF Stmt(P, l) = 0 THEN 0 ELSE RestOf(P, Stmt(P, l), "block")
        BY <4>1 DEF Rests, RestsIn
      <4>4. Stmt(P, l) # 0 => C[<<Stmt(P, l), "block">>] =
              IF RestOf(P, Stmt(P, l), "block") = 0 THEN 0 ELSE RestOf(P, Stmt(P, l), "block") + 1
        <5>1. Stmt(P, l) # 0 => Stmt(P, l) \in 1 .. N
          BY <1>1, <4>1, <4>2
        <5> QED BY <1>3, <5>1
      <4>5. l # 0
        BY <4>1
      <4> QED BY <1>3, <3>1, <3>2, <4>2, <4>3, <4>4, <4>5
    <3> QED BY <3>3, <3>4
  <2>4. CASE l \in 1 .. N /\ q[2] = "statement"
    <3> DEFINE x == C[<<l + 1, "statement">>]
    <3>1. AfterStep(s, C, l, q[2]) =
            IF Line(s, l) \in {"else", "}"} THEN 0
            ELSE IF Line(s, l) \in Opens THEN C[<<l + 1, "block">>]
            ELSE IF Line(s, l) \notin Owners THEN l + 1
            ELSE IF Line(s, l) = "if" /\ x \in 1 .. N /\ Line(s, x) = "else"
            THEN C[<<x + 1, "statement">>] ELSE x
      <4> HIDE DEF l
      <4>1. ~(l = 0 \/ l > LastLine(s)) /\ q[2] = "statement"
        BY <2>4, <2>a
      <4> QED BY <4>1 DEF AfterStep
    <3>2. CASE l = N
      <4>1. Line(s, l) = "exit"
        BY <1>1, <3>2 DEF Line
      <4>2. C[q] = N + 1
        BY <1>2, <2>1, <2>4, <3>2
      <4> HIDE DEF x
      <4> QED BY <3>1, <3>2, <4>1, <4>2 DEF Opens, Owners, LoopKinds
    <3>3. CASE l # N
      <4>1. l \in 1 .. N - 1 /\ C[q] = Stmt(P, l)
        BY <1>1, <1>2, <2>1, <2>4, <3>3
      <4>2. CASE Line(s, l) \in {"else", "}"}
        BY <3>1, <4>1, <4>2 DEF Statements
      <4>3. CASE Line(s, l) \in Opens
        <5>1. Line(s, l) \notin {"else", "}"}
          BY <4>3 DEF Opens
        <5>2. l + 1 \in 1 .. N
          BY <1>1, <4>1
        <5>3. C[<<l + 1, "block">>] = IF RestOf(P, l + 1, "block") = 0 THEN 0
                                      ELSE RestOf(P, l + 1, "block") + 1
          BY <1>3, <5>2
        <5> HIDE DEF x
        <5> QED BY <3>1, <4>1, <4>3, <5>1, <5>3 DEF Statements
      <4>4. CASE Line(s, l) \in Owners
        <5>1. Line(s, l) \notin {"else", "}"} \cup Opens /\ Line(s, l) # "exit"
          BY <4>4 DEF Opens, Owners, LoopKinds
        <5>2. l \in 1 .. Len(s)
          <6>1. l \in Nat
            BY <2>4, <2>a
          <6> HIDE DEF l
          <6> QED BY <5>1, <6>1, LineKinds
        <5>3. l + 1 \in 1 .. N - 1 /\ (l + 1) + 1 = l + 2
          BY <1>1, <5>2
        <5>4. x = Stmt(P, l + 1) /\ x \in {0} \cup l + 2 .. N
          <6>1. x = Stmt(P, l + 1)
            BY <1>2, <5>3
          <6> DEFINE m == l + 1
          <6>2. m \in 1 .. LastLine(s) - 1 /\ m + 1 = l + 2
            BY <5>3
          <6> HIDE DEF m
          <6>3. Stmt(P, m) \in {0} \cup m + 1 .. LastLine(s)
            BY <6>2, StatementAhead
          <6> QED BY <6>1, <6>2, <6>3 DEF m
        <5> HIDE DEF x
        <5>5. x \in 1 .. N <=> x # 0
          BY <1>1, <5>2, <5>4
        <5>6. ASSUME x # 0, Line(s, x) = "else" PROVE C[<<x + 1, "statement">>] = Stmt(P, x + 1)
          <6>1. x \in Nat
            BY <1>1, <5>2, <5>4
          <6>2. x \in 1 .. Len(s)
            BY <5>6, <6>1, LineKinds
          <6>3. x + 1 \in 1 .. N - 1
            BY <1>1, <6>2
          <6> QED BY <1>2, <6>3
        <5>7. Stmt(P, l) = IF Line(s, l) = "if" /\ x # 0 /\ Line(s, x) = "else"
                           THEN Stmt(P, x + 1) ELSE x
          BY <4>1, <4>4, <5>4 DEF Statements
        <5> QED BY <3>1, <4>1, <4>4, <5>1, <5>5, <5>6, <5>7
      <4>5. CASE Simple(s, l)
        <5>1. Line(s, l) \notin Owners \cup Opens \cup {"}", "else"} /\ Stmt(P, l) = l + 1
          BY <4>1, <4>5 DEF Simple, Statements
        <5> HIDE DEF x
        <5> QED BY <3>1, <4>1, <5>1
      <4> QED BY <4>1, <4>2, <4>3, <4>4, <4>5 DEF Simple
    <3> QED BY <3>2, <3>3
  <2>5. l = 0 \/ l > N \/ l \in 1 .. N
    BY <1>1, <2>1
  <2> QED BY <2>1, <2>2, <2>3, <2>4, <2>5 DEF TextModes
<1>5. C = [q \in AfterStates(s) |-> C[q]]
  BY DEF Parsed
<1> HIDE DEF C
<1>6. C = AfterRecursion(s, C)
  BY <1>4, <1>5 DEF AfterRecursion
<1> QED BY <1>6 DEF C

Forward(s, f) ==
  \A l \in 1 .. LastLine(s) + 1 : f[<<l, "statement">>] \in {0} \cup l + 1 .. LastLine(s) + 1
SameAfter(s, f, h) ==
  \A l \in 0 .. LastLine(s) + 1, m \in TextModes : f[<<l, m>>] = h[<<l, m>>]

\* After's recursion has one solution: it looks ahead only.
LEMMA AfterUnique ==
  ASSUME NEW S, NEW s \in Seq(S), NEW f, f = AfterRecursion(s, f), NEW C, C = AfterRecursion(s, C),
         Forward(s, C)
  PROVE  SameAfter(s, f, C)
<1> DEFINE N == LastLine(s)
           Same(l) == \A m \in TextModes : f[<<l, m>>] = C[<<l, m>>]
           T == {n \in 0 .. N + 1 : \A l \in n .. N + 1 : Same(l)}
<1>1. Len(s) \in Nat /\ N = Len(s) + 3 /\ N \in Nat
  BY ExitsAre
<1>2. ASSUME NEW l \in 0 .. N + 1, NEW m \in TextModes
      PROVE  f[<<l, m>>] = AfterStep(s, f, l, m) /\ C[<<l, m>>] = AfterStep(s, C, l, m)
  <2>1. <<l, m>> \in AfterStates(s) /\ <<l, m>>[1] = l /\ <<l, m>>[2] = m
    BY DEF AfterStates
  <2>2. \A h : AfterRecursion(s, h)[<<l, m>>] = AfterStep(s, h, l, m)
    BY <2>1 DEF AfterRecursion
  <2>3. AfterRecursion(s, f)[<<l, m>>] = AfterStep(s, f, l, m)
    BY <2>2
  <2>4. AfterRecursion(s, C)[<<l, m>>] = AfterStep(s, C, l, m)
    BY <2>2
  <2> QED BY <2>3, <2>4
<1>a. \A l \in 1 .. N + 1 : C[<<l, "statement">>] \in {0} \cup l + 1 .. N + 1
  BY DEF Forward
<1>3. Same(0) /\ Same(N + 1)
  <2>1. N + 1 \in 0 .. N + 1 /\ 0 \in 0 .. N + 1 /\ N + 1 > N
    BY <1>1
  <2>2. ASSUME NEW m \in TextModes, NEW l \in {0, N + 1} PROVE f[<<l, m>>] = C[<<l, m>>]
    <3>1. l \in 0 .. N + 1 /\ (l = 0 \/ l > N)
      BY <2>1
    <3> QED BY <1>2, <3>1 DEF AfterStep
  <2> QED BY <2>2
<1>4. N + 1 \in T
  BY <1>1, <1>3
<1>5. ASSUME NEW n \in 0 .. N, n + 1 \in T PROVE n \in T
  <2>1. n \in Nat /\ n + 1 \in 0 .. N + 1 /\ \A l \in n + 1 .. N + 1 : Same(l)
    BY <1>1, <1>5
  <2>2. Same(n)
    <3>1. CASE n = 0
      BY <1>3, <3>1
    <3>2. CASE n # 0
      <4> DEFINE x == C[<<n + 1, "statement">>]
      <4>1. n \in 1 .. N /\ n \in 0 .. N + 1 /\ ~(n = 0 \/ n > N) /\ n + 1 \in n + 1 .. N + 1
        BY <1>1, <2>1, <3>2
      <4>2. f[<<n + 1, "statement">>] = x /\ f[<<n + 1, "block">>] = C[<<n + 1, "block">>]
        BY <2>1, <4>1 DEF TextModes
      <4>3. x \in {0} \cup (n + 1) + 1 .. N + 1
        <5>1. n + 1 \in 1 .. N + 1
          BY <4>1, <1>1
        <5> QED BY <1>a, <5>1
      <4>4. x \in 1 .. N => f[<<x + 1, "statement">>] = C[<<x + 1, "statement">>]
        <5> HIDE DEF x
        <5>1. x \in 1 .. N => x + 1 \in n + 1 .. N + 1
          BY <1>1, <4>1, <4>3
        <5> QED BY <2>1, <5>1 DEF TextModes
      <4>5. f[<<n, "statement">>] = C[<<n, "statement">>]
        <5>1. /\ f[<<n, "statement">>] = AfterStep(s, f, n, "statement")
              /\ C[<<n, "statement">>] = AfterStep(s, C, n, "statement")
          BY <1>2, <4>1 DEF TextModes
        <5> DEFINE r == IF Line(s, n) \in {"else", "}"} THEN 0
                        ELSE IF Line(s, n) \in Opens THEN C[<<n + 1, "block">>]
                        ELSE IF Line(s, n) \notin Owners THEN n + 1
                        ELSE IF Line(s, n) = "if" /\ x \in 1 .. N /\ Line(s, x) = "else"
                        THEN C[<<x + 1, "statement">>] ELSE x
        <5>2. ASSUME NEW h, h[<<n + 1, "statement">>] = x, h[<<n + 1, "block">>] = C[<<n + 1, "block">>],
                     x \in 1 .. N => h[<<x + 1, "statement">>] = C[<<x + 1, "statement">>]
              PROVE  AfterStep(s, h, n, "statement") = r
          <6> DEFINE z == h[<<n + 1, "statement">>]
          <6>1. AfterStep(s, h, n, "statement") =
                       IF Line(s, n) \in {"else", "}"} THEN 0
                       ELSE IF Line(s, n) \in Opens THEN h[<<n + 1, "block">>]
                       ELSE IF Line(s, n) \notin Owners THEN n + 1
                       ELSE IF Line(s, n) = "if" /\ z \in 1 .. N /\ Line(s, z) = "else"
                       THEN h[<<z + 1, "statement">>] ELSE z
            BY <4>1 DEF AfterStep
          <6>2. z = x
            BY <5>2
          <6> HIDE DEF x, z
          <6>3. CASE Line(s, n) = "if" /\ x \in 1 .. N /\ Line(s, x) = "else"
            <7>1. h[<<z + 1, "statement">>] = C[<<x + 1, "statement">>]
              BY <5>2, <6>2, <6>3
            <7> QED BY <5>2, <6>1, <6>2, <6>3, <7>1
          <6>4. CASE ~(Line(s, n) = "if" /\ x \in 1 .. N /\ Line(s, x) = "else")
            BY <5>2, <6>1, <6>2, <6>4
          <6> QED BY <6>3, <6>4
        <5>3. AfterStep(s, f, n, "statement") = AfterStep(s, C, n, "statement")
          <6>1. C[<<n + 1, "statement">>] = x
            OBVIOUS
          <6> HIDE DEF x, r
          <6>2. AfterStep(s, f, n, "statement") = r
            BY <4>2, <4>4, <5>2
          <6>3. AfterStep(s, C, n, "statement") = r
            BY <4>2, <4>4, <5>2, <6>1
          <6> QED BY <6>2, <6>3
        <5> QED BY <5>1, <5>3
      <4>6. f[<<n, "block">>] = C[<<n, "block">>]
        <5> DEFINE y == C[<<n, "statement">>]
        <5>1. /\ f[<<n, "block">>] = AfterStep(s, f, n, "block")
              /\ C[<<n, "block">>] = AfterStep(s, C, n, "block")
          BY <1>2, <4>1 DEF TextModes
        <5>2. y \in {0} \cup n + 1 .. N + 1
          <6>1. n \in 1 .. N + 1
            BY <4>1, <1>1
          <6> QED BY <1>a, <6>1
        <5> HIDE DEF y
        <5>3. f[<<y, "block">>] = C[<<y, "block">>]
          BY <1>3, <2>1, <5>2 DEF TextModes
        <5>4. ASSUME NEW h, h[<<n, "statement">>] = y
              PROVE  AfterStep(s, h, n, "block") = IF Line(s, n) = "}" THEN n + 1 ELSE h[<<y, "block">>]
          BY <4>1, <5>4 DEF AfterStep
        <5>5. f[<<n, "statement">>] = y /\ C[<<n, "statement">>] = y
          BY <4>5 DEF y
        <5> QED BY <5>1, <5>3, <5>4, <5>5
      <4> QED BY <4>5, <4>6 DEF TextModes
    <3> QED BY <3>1, <3>2
  <2> HIDE DEF Same
  <2>3. \A l \in n .. N + 1 : l = n \/ l \in n + 1 .. N + 1
    BY <1>1, <2>1
  <2> QED BY <1>1, <2>1, <2>2, <2>3
<1>6. \A n \in 0 .. N + 1 : n \in T
  <2> HIDE DEF T
  <2>1. N + 1 \in Nat /\ 0 \in 0 .. N + 1 /\ (N + 1) - 1 = N
    BY <1>1
  <2>2. \A n \in 0 .. (N + 1) - 1 : n + 1 \in T => n \in T
    BY <1>5, <2>1
  <2> HIDE DEF N
  <2> QED BY <1>4, <2>1, <2>2, InductionDownTo
<1>7. 0 \in T
  BY <1>1, <1>6
<1> QED BY <1>7 DEF SameAfter

\* After is what PreparseIfElse returns from a line; the last Exit ends the script.
LEMMA AfterIsStatement ==
  ASSUME NEW S, NEW s \in Seq(S), NEW p, NEW P, Unfolds(s, p, 0, TRUE, P), Ranges(s, P, 0)
  PROVE  /\ \A l \in 1 .. LastLine(s) - 1 : Text!After(s)[l] = Stmt(P, l)
         /\ Text!After(s)[LastLine(s)] = LastLine(s) + 1
         /\ Text!After(s)[LastLine(s) + 1] = 0
<1> DEFINE N == LastLine(s)
           C == Parsed(s, P)
<1>1. Len(s) \in Nat /\ N = Len(s) + 3 /\ N \in Nat
  BY ExitsAre
<1>2. Statements(s, P) /\ Rests(s, P)
  BY StatementsAre, RestsAre
<1>3. RestOf(P, N, "block") = 0
  BY DEF Unfolds, ParseModes, RestOf
<1>4. C = AfterRecursion(s, C)
  BY <1>2, <1>3, ParsedSolves
<1>5. /\ \A l \in 1 .. N - 1 : C[<<l, "statement">>] = Stmt(P, l)
      /\ C[<<N, "statement">>] = N + 1
      /\ C[<<N + 1, "statement">>] = 0
  BY <1>1 DEF Parsed, AfterStates, TextModes
<1> HIDE DEF C
<1>6. \A l \in 1 .. N + 1 : C[<<l, "statement">>] \in {0} \cup l + 1 .. N + 1
  <2> SUFFICES ASSUME NEW l \in 1 .. N + 1 PROVE C[<<l, "statement">>] \in {0} \cup l + 1 .. N + 1
    OBVIOUS
  <2>1. CASE l \in 1 .. N - 1
    <3>1. Stmt(P, l) \in {0} \cup l + 1 .. N
      BY <1>2, <2>1, StatementAhead
    <3> QED BY <1>1, <1>5, <2>1, <3>1
  <2>2. CASE l = N \/ l = N + 1
    BY <1>1, <1>5, <2>2
  <2> QED BY <1>1, <2>1, <2>2
<1>b. Forward(s, C)
  BY <1>6 DEF Forward
<1>7. PICK f : /\ f = AfterRecursion(s, f)
               /\ Text!After(s) = [l \in 1 .. N + 1 |-> f[<<l, "statement">>]]
  BY <1>4, AfterIs
<1>8. \A l \in 0 .. N + 1, m \in TextModes : f[<<l, m>>] = C[<<l, m>>]
  <2>1. f = AfterRecursion(s, f)
    BY <1>7
  <2>2. SameAfter(s, f, C)
    BY <1>4, <1>b, <2>1, AfterUnique
  <2> QED BY <2>2 DEF SameAfter
<1>9. \A l \in 1 .. N + 1 : Text!After(s)[l] = C[<<l, "statement">>]
  <2>1. \A l \in 1 .. N + 1 : l \in 0 .. N + 1
    BY <1>1
  <2> QED BY <1>7, <1>8, <2>1 DEF TextModes
<1> HIDE DEF N
<1>10. N \in 1 .. N + 1 /\ N + 1 \in 1 .. N + 1 /\ \A l \in 1 .. N - 1 : l \in 1 .. N + 1
  BY <1>1
<1> QED BY <1>5, <1>9, <1>10 DEF N

-----------------------------------------------------------------------------
(* The parts of a statement.                                               *)

\* Induction from the last line up.
LEMMA LinesUp ==
  ASSUME NEW N \in Nat, N >= 1, NEW A, N \in A,
         \A n \in 1 .. N - 1 : (\A m \in n + 1 .. N : m \in A) => n \in A
  PROVE  \A n \in 1 .. N : n \in A
<1> DEFINE T == {n \in 1 .. N : \A m \in n .. N : m \in A}
<1>1. N \in T
  OBVIOUS
<1>2. ASSUME NEW n \in 1 .. N - 1, n + 1 \in T PROVE n \in T
  <2>1. \A m \in n + 1 .. N : m \in A
    BY <1>2
  <2>2. n \in A
    BY <2>1
  <2>3. n \in 1 .. N /\ \A m \in n .. N : m = n \/ m \in n + 1 .. N
    OBVIOUS
  <2> QED BY <2>1, <2>2, <2>3
<1> HIDE DEF T
<1>3. 1 \in 0 .. N
  OBVIOUS
<1>4. \A n \in 1 .. N : n \in T
  BY <1>1, <1>2, <1>3, InductionDownTo
<1> QED BY <1>4 DEF T

Read(s, P) ==
  /\ Statements(s, P) /\ Rests(s, P) /\ Ranges(s, P, 0)
  /\ Stmt(P, LastLine(s)) = 0 /\ RestOf(P, LastLine(s), "block") = 0

LEMMA ReadIs ==
  ASSUME NEW S, NEW s \in Seq(S), NEW p, NEW P, Unfolds(s, p, 0, TRUE, P), Ranges(s, P, 0)
  PROVE  Read(s, P)
<1>1. Statements(s, P) /\ Rests(s, P)
  BY StatementsAre, RestsAre
<1>2. Stmt(P, LastLine(s)) = 0 /\ RestOf(P, LastLine(s), "block") = 0
  BY DEF Unfolds, ParseModes, Stmt, RestOf
<1> QED BY <1>1, <1>2 DEF Read

RestEnds(s, P, l) == RestOf(P, l, "block") # 0 => Line(s, RestOf(P, l, "block")) = "}"

\* The rest of a block ends at its end.
LEMMA RestsEnd ==
  ASSUME NEW S, NEW s \in Seq(S), NEW P, Read(s, P)
  PROVE  \A l \in 1 .. LastLine(s) : RestEnds(s, P, l)
<1> DEFINE N == LastLine(s)
           A == {l \in 1 .. N : RestEnds(s, P, l)}
<1>1. Len(s) \in Nat /\ N = Len(s) + 3 /\ N \in Nat /\ N >= 1
  BY ExitsAre
<1>2. N \in A
  <2>1. RestOf(P, N, "block") = 0
    BY DEF Read
  <2>2. RestEnds(s, P, N)
    <3> HIDE DEF N
    <3> QED BY <2>1 DEF RestEnds
  <2>3. N \in 1 .. N
    BY <1>1
  <2> QED BY <2>2, <2>3
<1>3. ASSUME NEW n \in 1 .. N - 1, \A m \in n + 1 .. N : m \in A PROVE n \in A
  <2>1. n \in 1 .. N /\ n \in 1 .. LastLine(s) - 1
    BY <1>1
  <2>2. RestOf(P, n, "block") = IF Line(s, n) = "}" THEN n
                                ELSE IF Stmt(P, n) = 0 THEN 0 ELSE RestOf(P, Stmt(P, n), "block")
    BY <2>1 DEF Read, Rests, RestsIn
  <2>3. Stmt(P, n) \in {0} \cup n + 1 .. N
    BY <2>1, StatementAhead DEF Read
  <2>4. Stmt(P, n) # 0 => RestEnds(s, P, Stmt(P, n))
    BY <1>3, <2>3
  <2>5. RestEnds(s, P, n)
    <3>1. CASE Line(s, n) = "}"
      BY <2>2, <3>1 DEF RestEnds
    <3>2. CASE Line(s, n) # "}" /\ Stmt(P, n) = 0
      BY <2>2, <3>2 DEF RestEnds
    <3>3. CASE Line(s, n) # "}" /\ Stmt(P, n) # 0
      <4>1. RestOf(P, n, "block") = RestOf(P, Stmt(P, n), "block")
        BY <2>2, <3>3
      <4> QED BY <2>4, <3>3, <4>1 DEF RestEnds
    <3> QED BY <3>1, <3>2, <3>3
  <2> QED BY <2>1, <2>5
<1> HIDE DEF N, A
<1>4. \A n \in 1 .. N : n \in A
  BY <1>1, <1>2, <1>3, LinesUp
<1> QED BY <1>4 DEF A, N

\* The statement at line l, by its parts, ends before line x.
IsSimple(s, l, x) == Simple(s, l) /\ x = l + 1
IsBlock(s, P, l, x, r) ==
  /\ Line(s, l) \in Opens
  /\ r = RestOf(P, l + 1, "block") /\ r \in l + 1 .. Len(s) /\ Line(s, r) = "}" /\ x = r + 1
IsOwner(s, P, l, x) ==
  /\ Line(s, l) \in Owners /\ l <= Len(s)
  /\ x = Stmt(P, l + 1) /\ x \in l + 2 .. LastLine(s)
  /\ Line(s, l) = "if" => Line(s, x) # "else"
IsIfElse(s, P, l, x, e) ==
  /\ Line(s, l) = "if" /\ l <= Len(s)
  /\ e = Stmt(P, l + 1) /\ e \in l + 2 .. Len(s) /\ Line(s, e) = "else"
  /\ x = Stmt(P, e + 1) /\ x \in e + 2 .. LastLine(s)

LEMMA StatementParts ==
  ASSUME NEW S, NEW s \in Seq(S), NEW P, Read(s, P),
         NEW l \in 1 .. LastLine(s), NEW x, x = Stmt(P, l), x # 0
  PROVE  /\ l \in 1 .. LastLine(s) - 1 /\ x \in l + 1 .. LastLine(s)
         /\ \/ IsSimple(s, l, x)
            \/ \E r : IsBlock(s, P, l, x, r)
            \/ IsOwner(s, P, l, x)
            \/ \E e : IsIfElse(s, P, l, x, e)
<1> DEFINE N == LastLine(s)
<1>1. Len(s) \in Nat /\ N = Len(s) + 3 /\ N \in Nat /\ l \in Nat
  BY ExitsAre
<1>2. l # N
  BY DEF Read
<1>3. l \in 1 .. N - 1
  BY <1>1, <1>2
<1>4. x \in l + 1 .. N
  BY <1>3, StatementAhead DEF Read
<1>5. CASE Line(s, l) \in {"else", "}"}
  BY <1>3, <1>5 DEF Read, Statements
<1>6. CASE Line(s, l) \in Opens
  <2> DEFINE r == RestOf(P, l + 1, "block")
  <2>1. x = IF r = 0 THEN 0 ELSE r + 1
    BY <1>3, <1>6 DEF Read, Statements
  <2>2. l + 1 \in 1 .. N
    BY <1>1, <1>3
  <2>3. r \in {0} \cup l + 1 .. Len(s)
    BY <2>2, StatementRange DEF Read
  <2>4. r # 0 => Line(s, r) = "}"
    BY <2>2, RestsEnd DEF RestEnds
  <2>5. IsBlock(s, P, l, x, r)
    BY <1>6, <2>1, <2>3, <2>4 DEF IsBlock
  <2> QED BY <1>3, <1>4, <2>5
<1>7. CASE Line(s, l) \in Owners
  <2> DEFINE e == Stmt(P, l + 1)
  <2>1. x = IF Line(s, l) = "if" /\ e # 0 /\ Line(s, e) = "else" THEN Stmt(P, e + 1) ELSE e
    BY <1>3, <1>7 DEF Read, Statements
  <2>2. l \in 1 .. Len(s)
    <3>1. Line(s, l) # "exit"
      BY <1>7 DEF Owners, LoopKinds
    <3> QED BY <1>1, <3>1, LineKinds
  <2>3. l + 1 \in 1 .. N - 1
    BY <1>1, <2>2
  <2>4. e \in {0} \cup (l + 1) + 1 .. N
    BY <2>3, StatementAhead DEF Read
  <2>5. CASE Line(s, l) = "if" /\ e # 0 /\ Line(s, e) = "else"
    <3>1. e \in (l + 1) + 1 .. N /\ x = Stmt(P, e + 1)
      BY <2>1, <2>4, <2>5
    <3> HIDE DEF e
    <3>2. e \in Nat /\ Line(s, e) # "exit"
      BY <1>1, <2>5, <3>1
    <3>3. e \in 1 .. Len(s)
      BY <3>2, LineKinds
    <3>4. e + 1 \in 1 .. N - 1 /\ e \in l + 2 .. Len(s)
      BY <1>1, <3>1, <3>3
    <3>5. x \in (e + 1) + 1 .. N
      BY <3>1, <3>4, StatementAhead DEF Read
    <3>6. IsIfElse(s, P, l, x, e)
      BY <1>1, <2>2, <2>5, <3>1, <3>4, <3>5 DEF IsIfElse, e
    <3> QED BY <1>3, <1>4, <3>6
  <2>6. CASE ~(Line(s, l) = "if" /\ e # 0 /\ Line(s, e) = "else")
    <3>1. x = e
      BY <2>1, <2>6
    <3>2. IsOwner(s, P, l, x)
      <4>1. x \in l + 2 .. N /\ l <= Len(s)
        BY <1>1, <2>2, <2>4, <3>1
      <4> QED BY <1>7, <2>6, <3>1, <4>1 DEF IsOwner
    <3> QED BY <1>3, <1>4, <3>2
  <2> QED BY <2>5, <2>6
<1>8. CASE Simple(s, l)
  <2>1. x = l + 1
    BY <1>3, <1>8 DEF Read, Statements
  <2> QED BY <1>3, <1>4, <1>8, <2>1 DEF IsSimple
<1> QED BY <1>3, <1>5, <1>6, <1>7, <1>8 DEF Simple

IsNext(s, P, l, r, x) ==
  /\ Line(s, l) # "}" /\ x = Stmt(P, l) /\ x # 0 /\ x \in l + 1 .. LastLine(s)
  /\ RestOf(P, x, "block") = r /\ r \in x .. Len(s)

LEMMA RestParts ==
  ASSUME NEW S, NEW s \in Seq(S), NEW P, Read(s, P),
         NEW l \in 1 .. LastLine(s), NEW r, r = RestOf(P, l, "block"), r # 0
  PROVE  /\ l \in 1 .. LastLine(s) - 1 /\ r \in l .. Len(s) /\ Line(s, r) = "}"
         /\ \/ Line(s, l) = "}" /\ r = l
            \/ \E x : IsNext(s, P, l, r, x)
<1> DEFINE N == LastLine(s)
           x == Stmt(P, l)
<1>1. Len(s) \in Nat /\ N = Len(s) + 3 /\ N \in Nat /\ l \in Nat
  BY ExitsAre
<1>2. l # N
  BY DEF Read
<1>3. l \in 1 .. N - 1
  BY <1>1, <1>2
<1>4. r \in l .. Len(s) /\ Line(s, r) = "}"
  BY StatementRange, RestsEnd DEF Read, RestEnds
<1>5. r = IF Line(s, l) = "}" THEN l ELSE IF x = 0 THEN 0 ELSE RestOf(P, x, "block")
  BY <1>3 DEF Read, Rests, RestsIn
<1>6. x \in {0} \cup l + 1 .. N
  BY <1>3, StatementAhead DEF Read
<1> HIDE DEF x
<1>7. CASE Line(s, l) = "}"
  BY <1>3, <1>4, <1>5, <1>7
<1>8. CASE Line(s, l) # "}"
  <2>1. x # 0 /\ r = RestOf(P, x, "block") /\ x \in l + 1 .. N
    BY <1>5, <1>6, <1>8
  <2>2. x \in 1 .. LastLine(s)
    BY <1>1, <2>1
  <2>3. r \in x .. Len(s)
    BY <2>1, <2>2, StatementRange DEF Read
  <2>4. IsNext(s, P, l, r, x)
    BY <1>8, <2>1, <2>3 DEF x, IsNext
  <2> QED BY <1>3, <1>4, <2>4
<1> QED BY <1>7, <1>8

\* The statements in a statement, or in the rest of a block, end within it.
InnerTo(P, l, x) == \A m \in l .. x - 1 : Stmt(P, m) <= x
Inner(P, l) ==
  /\ Stmt(P, l) # 0 => InnerTo(P, l, Stmt(P, l))
  /\ RestOf(P, l, "block") # 0 => InnerTo(P, l, RestOf(P, l, "block"))

LEMMA InnerStatements ==
  ASSUME NEW S, NEW s \in Seq(S), NEW P, Read(s, P)
  PROVE  \A l \in 1 .. LastLine(s) : Inner(P, l)
<1> DEFINE N == LastLine(s)
           A == {l \in 1 .. N : Inner(P, l)}
<1>1. Len(s) \in Nat /\ N = Len(s) + 3 /\ N \in Nat /\ N >= 1
  BY ExitsAre
<1>a. \A l \in 1 .. N : Stmt(P, l) \in Nat /\ (Line(s, l) \in {"else", "}"} => Stmt(P, l) = 0)
  <2> SUFFICES ASSUME NEW l \in 1 .. N
               PROVE  Stmt(P, l) \in Nat /\ (Line(s, l) \in {"else", "}"} => Stmt(P, l) = 0)
    OBVIOUS
  <2>1. Stmt(P, l) \in {0} \cup l .. N
    BY StatementRange DEF Read
  <2>2. Stmt(P, l) \in Nat
    BY <1>1, <2>1
  <2>3. CASE l \in 1 .. N - 1
    BY <2>2, <2>3 DEF Read, Statements
  <2>4. CASE l = N
    BY <2>2, <2>4 DEF Read
  <2>5. l \in 1 .. N - 1 \/ l = N
    BY <1>1
  <2> QED BY <2>3, <2>4, <2>5
<1>2. N \in A
  <2>1. Stmt(P, N) = 0 /\ RestOf(P, N, "block") = 0 /\ N \in 1 .. N
    BY <1>1 DEF Read
  <2> HIDE DEF N
  <2> QED BY <2>1 DEF Inner
<1>3. ASSUME NEW n \in 1 .. N - 1, \A m \in n + 1 .. N : m \in A PROVE n \in A
  <2>0. n \in 1 .. N /\ n \in Nat /\ \A m \in n + 1 .. N : Inner(P, m) /\ m \in 1 .. N
    BY <1>1, <1>3
  <2>a. n \in Nat /\ n >= 1 /\ n + 1 <= N /\ n + 1 \in n + 1 .. N
    BY <1>1
  <2>1. ASSUME NEW x, x = Stmt(P, n), x # 0 PROVE InnerTo(P, n, x)
    <3>1. /\ x \in n + 1 .. N
          /\ \/ IsSimple(s, n, x)
             \/ \E r : IsBlock(s, P, n, x, r)
             \/ IsOwner(s, P, n, x)
             \/ \E e : IsIfElse(s, P, n, x, e)
      BY <2>0, <2>1, StatementParts
    <3> SUFFICES ASSUME NEW m \in n .. x - 1 PROVE Stmt(P, m) <= x
      BY DEF InnerTo
    <3>a. x \in Nat /\ m \in Nat /\ m \in 1 .. N /\ m <= x - 1
      BY <1>1, <2>0, <3>1
    <3>b. Stmt(P, m) \in Nat
      BY <1>a, <3>a
    <3>2. CASE m = n
      BY <2>1, <3>2, <3>a
    <3>3. CASE m # n
      <4>0. m \in n + 1 .. x - 1
        BY <2>0, <3>3, <3>a
      <4>1. CASE IsSimple(s, n, x)
        BY <4>0, <4>1, <2>0 DEF IsSimple
      <4>2. CASE \E r : IsBlock(s, P, n, x, r)
        <5>1. PICK r : IsBlock(s, P, n, x, r)
          BY <4>2
        <5>2. r = RestOf(P, n + 1, "block") /\ Line(s, r) = "}"
          BY <5>1 DEF IsBlock
        <5>0. r \in n + 1 .. Len(s) /\ x = r + 1
          BY <5>1 DEF IsBlock
        <5>3. r # 0 /\ r \in Nat
          BY <1>1, <2>a, <5>0
        <5>4. InnerTo(P, n + 1, r)
          BY <2>0, <2>a, <5>2, <5>3 DEF Inner
        <5>5. m = r \/ m \in n + 1 .. r - 1
          BY <4>0, <5>0, <5>3, <2>a
        <5>6. m = r => Stmt(P, m) = 0
          BY <1>a, <3>a, <5>2
        <5>7. m \in n + 1 .. r - 1 => Stmt(P, m) <= r
          BY <5>4 DEF InnerTo
        <5> HIDE DEF N
        <5>8. CASE m = r
          BY <3>a, <5>6, <5>8
        <5>9. CASE m \in n + 1 .. r - 1
          <6>1. Stmt(P, m) <= r /\ r <= x
            BY <5>0, <5>3, <5>7, <5>9
          <6> QED BY <3>a, <3>b, <5>3, <6>1
        <5> QED BY <5>5, <5>8, <5>9
      <4>3. CASE IsOwner(s, P, n, x)
        <5>1. x = Stmt(P, n + 1) /\ n + 1 \in n + 1 .. N
          BY <1>1, <2>0, <3>1, <4>3 DEF IsOwner
        <5>2. InnerTo(P, n + 1, x)
          BY <2>0, <2>1, <5>1 DEF Inner
        <5> QED BY <4>0, <5>2 DEF InnerTo
      <4>4. CASE \E e : IsIfElse(s, P, n, x, e)
        <5>1. PICK e : IsIfElse(s, P, n, x, e)
          BY <4>4
        <5>2. e = Stmt(P, n + 1) /\ e \in n + 2 .. Len(s) /\ Line(s, e) = "else"
              /\ x = Stmt(P, e + 1) /\ x \in e + 2 .. N
          BY <5>1 DEF IsIfElse
        <5>3. e \in Nat /\ e # 0 /\ e <= x /\ n + 1 \in n + 1 .. N /\ e + 1 \in n + 1 .. N
          BY <1>1, <2>0, <5>2
        <5>4. InnerTo(P, n + 1, e) /\ InnerTo(P, e + 1, x)
          BY <2>0, <2>1, <5>2, <5>3 DEF Inner
        <5>5. m \in n + 1 .. e - 1 \/ m = e \/ m \in e + 1 .. x - 1
          BY <3>a, <4>0, <5>3
        <5>6. m = e => Stmt(P, m) = 0
          BY <1>a, <3>a, <5>2
        <5>7. (m \in n + 1 .. e - 1 => Stmt(P, m) <= e) /\ (m \in e + 1 .. x - 1 => Stmt(P, m) <= x)
          BY <5>4 DEF InnerTo
        <5> QED BY <3>a, <3>b, <5>3, <5>5, <5>6, <5>7
      <4> QED BY <3>1, <4>1, <4>2, <4>3, <4>4
    <3> QED BY <3>2, <3>3
  <2>2. ASSUME NEW r, r = RestOf(P, n, "block"), r # 0 PROVE InnerTo(P, n, r)
    <3>1. /\ r \in n .. Len(s)
          /\ \/ Line(s, n) = "}" /\ r = n
             \/ \E x : IsNext(s, P, n, r, x)
      BY <2>0, <2>2, RestParts
    <3>2. CASE r = n
      <4>1. ~\E m : m \in n .. r - 1
        BY <2>0, <3>2
      <4> QED BY <4>1 DEF InnerTo
    <3>3. CASE \E x : IsNext(s, P, n, r, x)
      <4>1. PICK x : x = Stmt(P, n) /\ x # 0 /\ x \in n + 1 .. N
                     /\ RestOf(P, x, "block") = r /\ r \in x .. Len(s)
        BY <3>3 DEF IsNext
      <4>2. InnerTo(P, n, x)
        BY <2>1, <4>1
      <4>3. InnerTo(P, x, r)
        BY <2>0, <2>2, <4>1 DEF Inner
      <4> SUFFICES ASSUME NEW m \in n .. r - 1 PROVE Stmt(P, m) <= r
        BY DEF InnerTo
      <4>4. x \in Nat /\ r \in Nat /\ x <= r /\ m \in 1 .. N
        BY <1>1, <2>0, <4>1
      <4>5. m \in n .. x - 1 \/ m \in x .. r - 1
        BY <2>0, <4>4
      <4>6. Stmt(P, m) \in Nat
        BY <1>a, <4>4
      <4>7. (m \in n .. x - 1 => Stmt(P, m) <= x) /\ (m \in x .. r - 1 => Stmt(P, m) <= r)
        BY <4>2, <4>3 DEF InnerTo
      <4> QED BY <4>4, <4>5, <4>6, <4>7
    <3> QED BY <3>1, <3>2, <3>3
  <2>3. Inner(P, n)
    BY <2>1, <2>2 DEF Inner
  <2> QED BY <2>0, <2>3
<1> HIDE DEF N, A
<1>4. \A n \in 1 .. N : n \in A
  BY <1>1, <1>2, <1>3, LinesUp
<1> QED BY <1>4 DEF A, N

\* What is known of the blocks at either end of a statement.
EvenlyNested(s, P) ==
  /\ Nested(s) /\ Read(s, P)
  /\ \A l \in 1 .. LastLine(s) :
       /\ Stmt(P, l) # 0 => OB(s, Stmt(P, l)) = OB(s, l)
       /\ RestOf(P, l, "block") # 0 => OB(s, RestOf(P, l, "block")) = OB(s, l)

LEMMA EvenlyNestedIs ==
  ASSUME NEW S, NEW s \in Seq(S), Nested(s), NEW p, NEW P, Unfolds(s, p, 0, TRUE, P), Ranges(s, P, 0)
  PROVE  EvenlyNested(s, P)
<1>1. Read(s, P)
  BY ReadIs
<1>2. \A l \in 1 .. LastLine(s) : OneOK(s, P, l) /\ RestOK(s, P, l, "block")
  BY AllGood
<1>3. \A l \in 1 .. LastLine(s) :
       /\ Stmt(P, l) # 0 => OB(s, Stmt(P, l)) = OB(s, l)
       /\ RestOf(P, l, "block") # 0 => OB(s, RestOf(P, l, "block")) = OB(s, l)
  BY <1>2 DEF OneOK, RestOK, OneGood, RestGood
<1> QED BY <1>1, <1>3 DEF EvenlyNested

\* A list of open blocks that goes on from another one.
Extends(b, a) == Len(a) <= Len(b) /\ \A i \in 1 .. Len(a) : b[i] = a[i]

LEMMA ExtendsAppend ==
  ASSUME NEW a \in Seq(Nat), NEW y \in Nat, NEW b \in Seq(Nat), Extends(b, Append(a, y))
  PROVE  Extends(b, a) /\ Len(a) + 1 <= Len(b) /\ b[Len(a) + 1] = y
<1> DEFINE c == Append(a, y)
<1>1. Len(c) = Len(a) + 1 /\ c[Len(a) + 1] = y /\ (\A i \in 1 .. Len(a) : c[i] = a[i]) /\ Len(a) \in Nat
  OBVIOUS
<1> HIDE DEF c
<1>2. Len(c) <= Len(b) /\ \A i \in 1 .. Len(c) : b[i] = c[i]
  BY DEF Extends, c
<1>3. Len(a) + 1 \in 1 .. Len(c) /\ \A i \in 1 .. Len(a) : i \in 1 .. Len(c)
  BY <1>1
<1>4. Len(a) <= Len(b) /\ Len(a) + 1 <= Len(b)
  BY <1>1, <1>2
<1> QED BY <1>1, <1>2, <1>3, <1>4 DEF Extends

LEMMA OpenNat ==
  ASSUME NEW S, NEW s \in Seq(S), Nested(s), NEW l \in 1 .. LastLine(s)
  PROVE  OB(s, l) \in Seq(Nat)
<1>1. OB(s, l) \in Seq(Braces(s, l))
  BY DEF Nested
<1>2. Braces(s, l) \subseteq Nat
  BY DEF Braces
<1> QED BY <1>1, <1>2, SeqMonotonic

\* The blocks that are open where a statement begins are open all along.
OpenTo(s, l, x) == \A m \in l .. x : Extends(OB(s, m), OB(s, l))
Open(s, P, l) ==
  /\ Stmt(P, l) # 0 => OpenTo(s, l, Stmt(P, l))
  /\ RestOf(P, l, "block") # 0 => OpenTo(s, l, RestOf(P, l, "block"))

LEMMA BlocksStayOpen ==
  ASSUME NEW S, NEW s \in Seq(S), NEW P, EvenlyNested(s, P)
  PROVE  \A l \in 1 .. LastLine(s) : Open(s, P, l)
<1> DEFINE N == LastLine(s)
           A == {l \in 1 .. N : Open(s, P, l)}
<1>1. Len(s) \in Nat /\ N = Len(s) + 3 /\ N \in Nat /\ N >= 1
  BY ExitsAre
<1>0. Nested(s) /\ Read(s, P)
  BY DEF EvenlyNested
<1>a. \A l : Extends(OB(s, l), OB(s, l))
  <2>1. ASSUME NEW l PROVE Len(OB(s, l)) <= Len(OB(s, l))
    <3>1. Len(OB(s, l)) \in Nat
      <4>1. CASE l \in 1 .. LastLine(s)
        BY <1>0, <4>1, OpenNat
      <4>2. CASE l \notin 1 .. LastLine(s)
        <5>1. l \notin 1 .. Len(s) + 1
          BY <1>1, <4>2
        <5>2. OB(s, l) = <<>>
          BY <5>1 DEF OB
        <5> QED BY <5>2
      <4> QED BY <4>1, <4>2
    <3> QED BY <3>1
  <2> QED BY <2>1 DEF Extends
<1>2. N \in A
  <2>1. Stmt(P, N) = 0 /\ RestOf(P, N, "block") = 0 /\ N \in 1 .. N
    BY <1>1, <1>0 DEF Read
  <2> HIDE DEF N
  <2> QED BY <2>1 DEF Open
<1>3. ASSUME NEW n \in 1 .. N - 1, \A m \in n + 1 .. N : m \in A PROVE n \in A
  <2>0. n \in 1 .. N /\ \A m \in n + 1 .. N : Open(s, P, m) /\ m \in 1 .. N
    BY <1>1, <1>3
  <2>a. n \in Nat /\ n >= 1 /\ n + 1 <= N /\ n + 1 \in n + 1 .. N
    BY <1>1
  <2>b. Line(s, n) \notin Opens \cup {"}"} => OB(s, n + 1) = OB(s, n)
    BY <1>0 DEF Nested
  <2>1. ASSUME NEW x, x = Stmt(P, n), x # 0 PROVE OpenTo(s, n, x)
    <3>1. /\ x \in n + 1 .. N
          /\ \/ IsSimple(s, n, x)
             \/ \E r : IsBlock(s, P, n, x, r)
             \/ IsOwner(s, P, n, x)
             \/ \E e : IsIfElse(s, P, n, x, e)
      BY <1>0, <2>0, <2>1, StatementParts
    <3>c. OB(s, x) = OB(s, n)
      BY <2>0, <2>1 DEF EvenlyNested
    <3> SUFFICES ASSUME NEW m \in n .. x PROVE Extends(OB(s, m), OB(s, n))
      BY DEF OpenTo
    <3>d. x \in n + 1 .. N
      BY <3>1
    <3>a. x \in Nat /\ m \in Nat /\ m \in 1 .. N /\ m <= x
      BY <1>1, <2>a, <3>d
    <3>2. CASE m = n \/ m = x
      BY <1>a, <3>2, <3>c
    <3>3. CASE m # n /\ m # x
      <4>0. m \in n + 1 .. x - 1
        BY <2>a, <3>3, <3>a
      <4>1. CASE IsSimple(s, n, x)
        <5>1. x = n + 1
          BY <4>1 DEF IsSimple
        <5> QED BY <4>0, <5>1, <2>a
      <4>2. CASE \E r : IsBlock(s, P, n, x, r)
        <5>1. PICK r : IsBlock(s, P, n, x, r)
          BY <4>2
        <5>2. r = RestOf(P, n + 1, "block") /\ Line(s, n) \in Opens
          BY <5>1 DEF IsBlock
        <5>3. r \in n + 1 .. Len(s) /\ x = r + 1
          BY <5>1 DEF IsBlock
        <5>4. r # 0 /\ r \in Nat
          BY <1>1, <2>a, <5>3
        <5>5. OpenTo(s, n + 1, r)
          BY <2>0, <2>a, <5>2, <5>4 DEF Open
        <5>6. m \in n + 1 .. r
          BY <4>0, <5>3, <5>4, <2>a
        <5>7. OB(s, n + 1) = Append(OB(s, n), n)
          BY <1>0, <5>2 DEF Nested
        <5>8. Extends(OB(s, m), Append(OB(s, n), n))
          BY <5>5, <5>6, <5>7 DEF OpenTo
        <5>9. OB(s, m) \in Seq(Nat) /\ OB(s, n) \in Seq(Nat)
          BY <1>0, <2>0, <3>a, OpenNat
        <5> QED BY <2>a, <5>8, <5>9, ExtendsAppend
      <4>3. CASE IsOwner(s, P, n, x)
        <5>1. x = Stmt(P, n + 1) /\ Line(s, n) \notin Opens \cup {"}"}
          BY <4>3 DEF IsOwner, Owners, LoopKinds, Opens
        <5>2. OpenTo(s, n + 1, x)
          BY <2>0, <2>a, <2>1, <5>1 DEF Open
        <5>3. m \in n + 1 .. x
          BY <4>0, <3>a, <2>a
        <5> QED BY <2>b, <5>1, <5>2, <5>3 DEF OpenTo
      <4>4. CASE \E e : IsIfElse(s, P, n, x, e)
        <5>1. PICK e : IsIfElse(s, P, n, x, e)
          BY <4>4
        <5>2. e = Stmt(P, n + 1) /\ Line(s, e) = "else" /\ x = Stmt(P, e + 1) /\ Line(s, n) = "if"
          BY <5>1 DEF IsIfElse
        <5>3. e \in n + 2 .. Len(s) /\ x \in e + 2 .. N
          BY <5>1 DEF IsIfElse
        <5>4. e \in Nat /\ e # 0 /\ e \in n + 2 .. N - 3 /\ e \in 1 .. N - 1 /\ e + 1 \in n + 1 .. N
          BY <1>1, <2>a, <5>3
        <5>5. OpenTo(s, n + 1, e) /\ OpenTo(s, e + 1, x)
          BY <2>0, <2>a, <2>1, <5>2, <5>4 DEF Open
        <5>6. OB(s, n + 1) = OB(s, n)
          BY <2>b, <5>2 DEF Opens
        <5>7. OB(s, e) = OB(s, n)
          <6>1. n + 1 \in 1 .. N
            BY <2>0, <2>a
          <6> QED BY <5>2, <5>4, <5>6, <6>1 DEF EvenlyNested
        <5>8. OB(s, e + 1) = OB(s, e)
          BY <1>0, <5>2, <5>4 DEF Nested, Opens
        <5>9. m \in n + 1 .. e \/ m \in e + 1 .. x
          BY <3>a, <4>0, <5>4
        <5> QED BY <5>5, <5>6, <5>7, <5>8, <5>9 DEF OpenTo
      <4> QED BY <3>1, <4>1, <4>2, <4>3, <4>4
    <3> QED BY <3>2, <3>3
  <2>2. ASSUME NEW r, r = RestOf(P, n, "block"), r # 0 PROVE OpenTo(s, n, r)
    <3>1. /\ r \in n .. Len(s)
          /\ \/ Line(s, n) = "}" /\ r = n
             \/ \E x : IsNext(s, P, n, r, x)
      BY <1>0, <2>0, <2>2, RestParts
    <3>2. CASE r = n
      <4>1. \A m \in n .. r : m = n
        BY <2>a, <3>2
      <4> QED BY <1>a, <4>1 DEF OpenTo
    <3>3. CASE \E x : IsNext(s, P, n, r, x)
      <4>1. PICK x : x = Stmt(P, n) /\ x # 0 /\ x \in n + 1 .. N
                     /\ RestOf(P, x, "block") = r /\ r \in x .. Len(s)
        BY <3>3 DEF IsNext
      <4>2. OpenTo(s, n, x)
        BY <2>1, <4>1
      <4>3. OpenTo(s, x, r)
        BY <2>0, <2>2, <4>1 DEF Open
      <4>4. OB(s, x) = OB(s, n)
        BY <2>0, <4>1 DEF EvenlyNested
      <4> SUFFICES ASSUME NEW m \in n .. r PROVE Extends(OB(s, m), OB(s, n))
        BY DEF OpenTo
      <4>5. x \in n + 1 .. N /\ r \in x .. Len(s)
        BY <4>1
      <4>6. m \in n .. x \/ m \in x .. r
        BY <1>1, <2>a, <4>5
      <4> QED BY <4>2, <4>3, <4>4, <4>6 DEF OpenTo
    <3> QED BY <3>1, <3>2, <3>3
  <2>3. Open(s, P, n)
    BY <2>1, <2>2 DEF Open
  <2> QED BY <2>0, <2>3
<1> HIDE DEF N, A
<1>4. \A n \in 1 .. N : n \in A
  BY <1>1, <1>2, <1>3, LinesUp
<1> QED BY <1>4 DEF A, N

\* A line within a block has it among its open blocks.
LEMMA WithinBlock ==
  ASSUME NEW S, NEW s \in Seq(S), NEW P, EvenlyNested(s, P), NEW h \in 1 .. LastLine(s),
         Line(s, h) \in Opens, Stmt(P, h) # 0, NEW m \in h + 1 .. Stmt(P, h) - 1
  PROVE  /\ m \in 1 .. LastLine(s)
         /\ Len(OB(s, h)) + 1 <= Len(OB(s, m)) /\ OB(s, m)[Len(OB(s, h)) + 1] = h
<1> DEFINE N == LastLine(s)
<1>1. Len(s) \in Nat /\ N = Len(s) + 3 /\ N \in Nat /\ h \in Nat
  BY ExitsAre
<1>0. Nested(s) /\ Read(s, P)
  BY DEF EvenlyNested
<1> DEFINE x == Stmt(P, h)
<1>2. /\ h \in 1 .. N - 1 /\ x \in h + 1 .. N
      /\ \/ IsSimple(s, h, x)
         \/ \E r : IsBlock(s, P, h, x, r)
         \/ IsOwner(s, P, h, x)
         \/ \E e : IsIfElse(s, P, h, x, e)
  BY <1>0, StatementParts
<1>3. PICK r : IsBlock(s, P, h, x, r)
  <2>1. ~IsSimple(s, h, x) /\ ~IsOwner(s, P, h, x) /\ ~\E e : IsIfElse(s, P, h, x, e)
    BY DEF IsSimple, Simple, IsOwner, IsIfElse, Owners, LoopKinds, Opens
  <2> QED BY <1>2, <2>1
<1>4. r = RestOf(P, h + 1, "block")
  BY <1>3 DEF IsBlock
<1>5. r \in h + 1 .. Len(s) /\ x = r + 1
  BY <1>3 DEF IsBlock
<1> HIDE DEF x
<1>a. m \in h + 1 .. x - 1
  BY DEF x
<1>6. r # 0 /\ m \in h + 1 .. r /\ h + 1 \in 1 .. N /\ m \in 1 .. N
  BY <1>1, <1>5, <1>a
<1>7. OpenTo(s, h + 1, r)
  BY <1>4, <1>6, BlocksStayOpen DEF Open
<1>8. OB(s, h + 1) = Append(OB(s, h), h)
  BY <1>0, <1>2 DEF Nested
<1>9. Extends(OB(s, m), Append(OB(s, h), h))
  BY <1>6, <1>7, <1>8 DEF OpenTo
<1>10. OB(s, m) \in Seq(Nat) /\ OB(s, h) \in Seq(Nat)
  BY <1>0, <1>6, OpenNat
<1> QED BY <1>1, <1>6, <1>9, <1>10, ExtendsAppend

\* Blocks are listed from the outermost to the innermost.
Ascending(b) == \A i, j \in 1 .. Len(b) : i < j => b[i] < b[j]

LEMMA OpenAscending ==
  ASSUME NEW S, NEW s \in Seq(S), Nested(s)
  PROVE  \A l \in 1 .. LastLine(s) : Ascending(OB(s, l))
<1> DEFINE N == LastLine(s)
           T == {n \in 0 .. N : n # 0 => Ascending(OB(s, n))}
<1>1. Len(s) \in Nat /\ N = Len(s) + 3 /\ N \in Nat /\ N >= 1
  BY ExitsAre
<1>2. 0 \in T
  BY <1>1
<1>3. ASSUME NEW n \in 0 .. N - 1, n \in T PROVE n + 1 \in T
  <2>1. n + 1 \in 0 .. N /\ n \in Nat
    BY <1>1
  <2>2. CASE n = 0
    <3>0. n + 1 = 1
      BY <2>2
    <3>1. OB(s, n + 1) = <<>>
      BY <3>0 DEF Nested
    <3>2. Ascending(OB(s, n + 1))
      BY <3>1 DEF Ascending
    <3> QED BY <2>1, <3>2
  <2>3. CASE n # 0
    <3> DEFINE b == OB(s, n)
               c == OB(s, n + 1)
    <3>1. n \in 1 .. N - 1 /\ n \in 1 .. N /\ Ascending(b)
      BY <1>1, <1>3, <2>1, <2>3
    <3>2. b \in Seq(Braces(s, n))
      BY <3>1 DEF Nested
    <3>3. \A i \in 1 .. Len(b) : b[i] \in 1 .. n - 1
      BY <3>2 DEF Braces
    <3>4. b \in Seq(Nat)
      BY <3>1, OpenNat
    <3>5. c = Append(b, n) \/ (b # <<>> /\ c = Front(b)) \/ c = b
      BY <3>1 DEF Nested
    <3> HIDE DEF b, c
    <3>6. CASE c = Append(b, n)
      <4>1. Len(c) = Len(b) + 1 /\ c[Len(b) + 1] = n /\ (\A i \in 1 .. Len(b) : c[i] = b[i]) /\ Len(b) \in Nat
        BY <3>4, <3>6
      <4> SUFFICES ASSUME NEW i \in 1 .. Len(c), NEW j \in 1 .. Len(c), i < j PROVE c[i] < c[j]
        BY <2>1 DEF Ascending, c
      <4>2. i \in 1 .. Len(b) /\ (j \in 1 .. Len(b) \/ j = Len(b) + 1)
        BY <4>1
      <4>3. CASE j \in 1 .. Len(b)
        BY <3>1, <4>1, <4>2, <4>3 DEF Ascending
      <4>4. CASE j = Len(b) + 1
        BY <2>1, <3>3, <4>1, <4>2, <4>4
      <4> QED BY <4>2, <4>3, <4>4
    <3>7. CASE b # <<>> /\ c = Front(b)
      <4>1. Len(c) = Len(b) - 1 /\ (\A i \in 1 .. Len(c) : c[i] = b[i]) /\ Len(b) \in Nat
        <5>1. Len(Front(b)) = Len(b) - 1 /\ (\A i \in 1 .. Len(b) - 1 : Front(b)[i] = b[i])
          BY <3>4, <3>7, FrontType
        <5>2. c = Front(b) /\ Len(b) \in Nat
          BY <3>4, <3>7
        <5> QED BY <5>1, <5>2
      <4>2. \A i \in 1 .. Len(c) : i \in 1 .. Len(b)
        BY <4>1
      <4>3. Ascending(c)
        BY <3>1, <4>1, <4>2 DEF Ascending
      <4> QED BY <2>1, <4>3 DEF c
    <3>8. CASE c = b
      BY <2>1, <3>1, <3>8 DEF c
    <3> QED BY <3>5, <3>6, <3>7, <3>8
  <2> QED BY <2>2, <2>3
<1> HIDE DEF T, N
<1>4. \A n \in 0 .. N : n \in T
  BY <1>1, <1>2, <1>3, Induction
<1>5. \A n \in 1 .. N : n \in 0 .. N /\ n # 0
  BY <1>1
<1> QED BY <1>4, <1>5 DEF T, N

\* A line on a level of its own within a statement is in a block that is in the statement.
Enclosed(s, P, l, m) == \E t \in l .. m - 1 : Line(s, t) \in Opens /\ m < Stmt(P, t)
EnclosedIn(s, P, l, x) ==
  \A m \in l + 1 .. x - 1 : Level(s, m) /\ Line(s, m) # "else" => Enclosed(s, P, l, m)
Encloses(s, P, l) == Stmt(P, l) # 0 => EnclosedIn(s, P, l, Stmt(P, l))

LEMMA LevelsAreBlocks ==
  ASSUME NEW S, NEW s \in Seq(S), NEW P, Read(s, P)
  PROVE  \A l \in 1 .. LastLine(s) : Encloses(s, P, l)
<1> DEFINE N == LastLine(s)
           A == {l \in 1 .. N : Encloses(s, P, l)}
<1>1. Len(s) \in Nat /\ N = Len(s) + 3 /\ N \in Nat /\ N >= 1
  BY ExitsAre
<1>2. N \in A
  <2>1. Stmt(P, N) = 0 /\ N \in 1 .. N
    BY <1>1 DEF Read
  <2> HIDE DEF N
  <2> QED BY <2>1 DEF Encloses
<1>3. ASSUME NEW n \in 1 .. N - 1, \A m \in n + 1 .. N : m \in A PROVE n \in A
  <2>0. n \in 1 .. N /\ \A m \in n + 1 .. N : Encloses(s, P, m)
    BY <1>1, <1>3
  <2>a. n \in Nat /\ n >= 1 /\ n + 1 <= N /\ n + 1 \in n + 1 .. N
    BY <1>1
  <2>b. ASSUME NEW l \in n .. N, NEW m \in l .. N, Enclosed(s, P, l, m) PROVE Enclosed(s, P, n, m)
    <3>1. \A t \in l .. m - 1 : t \in n .. m - 1
      BY <2>a, <1>1
    <3> QED BY <2>b, <3>1 DEF Enclosed
  <2>1. ASSUME NEW x, x = Stmt(P, n), x # 0 PROVE EnclosedIn(s, P, n, x)
    <3>1. /\ x \in n + 1 .. N
          /\ \/ IsSimple(s, n, x)
             \/ \E r : IsBlock(s, P, n, x, r)
             \/ IsOwner(s, P, n, x)
             \/ \E e : IsIfElse(s, P, n, x, e)
      BY <2>0, <2>1, StatementParts
    <3>d. x \in n + 1 .. N
      BY <3>1
    <3> SUFFICES ASSUME NEW m \in n + 1 .. x - 1, Level(s, m), Line(s, m) # "else"
                 PROVE  Enclosed(s, P, n, m)
      BY DEF EnclosedIn
    <3>a. x \in Nat /\ m \in Nat /\ m <= x - 1 /\ m \in n + 1 .. N
      BY <1>1, <2>a, <3>d
    <3>2. CASE IsSimple(s, n, x)
      <4>1. x = n + 1
        BY <3>2 DEF IsSimple
      <4> QED BY <2>a, <4>1
    <3>3. CASE \E r : IsBlock(s, P, n, x, r)
      <4>1. Line(s, n) \in Opens
        BY <3>3 DEF IsBlock
      <4>2. n \in n .. m - 1 /\ m < x
        BY <2>a, <3>a
      <4> QED BY <2>1, <4>1, <4>2 DEF Enclosed
    <3>4. Line(s, n) \in Owners => m # n + 1
      <4>1. Line(s, n) \in Owners => ~Level(s, n + 1)
        <5>1. (n + 1) - 1 = n
          BY <2>a
        <5> QED BY <5>1 DEF Level, OwnersAndElse
      <4> QED BY <4>1
    <3>5. CASE IsOwner(s, P, n, x)
      <4>1. x = Stmt(P, n + 1) /\ Line(s, n) \in Owners
        BY <3>5 DEF IsOwner
      <4>2. EnclosedIn(s, P, n + 1, x)
        BY <2>0, <2>a, <2>1, <4>1 DEF Encloses
      <4>3. m \in (n + 1) + 1 .. x - 1
        BY <2>a, <3>4, <3>a, <4>1
      <4>4. Enclosed(s, P, n + 1, m)
        BY <4>2, <4>3 DEF EnclosedIn
      <4>5. n + 1 \in n .. N /\ m \in n + 1 .. N
        BY <2>a, <3>a
      <4> QED BY <2>b, <4>4, <4>5
    <3>6. CASE \E e : IsIfElse(s, P, n, x, e)
      <4>1. PICK e : IsIfElse(s, P, n, x, e)
        BY <3>6
      <4>2. e = Stmt(P, n + 1) /\ Line(s, e) = "else" /\ x = Stmt(P, e + 1) /\ Line(s, n) \in Owners
        BY <4>1 DEF IsIfElse, Owners
      <4>3. e \in n + 2 .. Len(s) /\ x \in e + 2 .. N
        BY <4>1 DEF IsIfElse
      <4>4. e \in Nat /\ e # 0 /\ e + 1 \in n + 1 .. N /\ (e + 1) - 1 = e
        BY <1>1, <2>a, <4>3
      <4>5. EnclosedIn(s, P, n + 1, e) /\ EnclosedIn(s, P, e + 1, x)
        BY <2>0, <2>a, <2>1, <4>2, <4>4 DEF Encloses
      <4>6. ~Level(s, e + 1)
        BY <4>2, <4>4 DEF Level, OwnersAndElse
      <4>7. m # n + 1 /\ m # e /\ m # e + 1
        BY <3>4, <4>2, <4>6
      <4>8. m \in (n + 1) + 1 .. e - 1 \/ m \in (e + 1) + 1 .. x - 1
        BY <2>a, <3>a, <4>4, <4>7
      <4>9. Enclosed(s, P, n + 1, m) \/ (Enclosed(s, P, e + 1, m) /\ m \in e + 1 .. N)
        <5>1. m \in (e + 1) + 1 .. x - 1 => m \in e + 1 .. N
          BY <3>a, <4>4
        <5> QED BY <4>5, <4>8, <5>1 DEF EnclosedIn
      <4>10. n + 1 \in n .. N /\ m \in n + 1 .. N /\ e + 1 \in n .. N
        BY <2>a, <3>a, <4>4
      <4> QED BY <2>b, <4>9, <4>10
    <3> QED BY <3>1, <3>2, <3>3, <3>5, <3>6
  <2>2. Encloses(s, P, n)
    BY <2>1 DEF Encloses
  <2> QED BY <2>0, <2>2
<1> HIDE DEF N, A
<1>4. \A n \in 1 .. N : n \in A
  BY <1>1, <1>2, <1>3, LinesUp
<1> QED BY <1>4 DEF A, N

-----------------------------------------------------------------------------
(* Levels.                                                                 *)

\* A script whose lines are all in statements.
Laid(s, p, P) ==
  /\ Nested(s) /\ Unfolds(s, p, 0, TRUE, P) /\ Ranges(s, P, 0) /\ Whole(s, P)

\* The open blocks of a line are those it is in.
LEMMA OpenAround ==
  ASSUME NEW S, NEW s \in Seq(S), NEW p, NEW P, Laid(s, p, P),
         NEW l \in 1 .. LastLine(s), NEW i \in 1 .. Len(OB(s, l)), NEW t, t = OB(s, l)[i]
  PROVE  t \in 1 .. l - 1 /\ Line(s, t) \in Opens /\ t <= Len(s) /\ Stmt(P, t) # 0 /\ l < Stmt(P, t)
<1> DEFINE N == LastLine(s)
<1>1. Len(s) \in Nat /\ N = Len(s) + 3 /\ N \in Nat /\ l \in Nat
  BY ExitsAre
<1>0. Nested(s) /\ Read(s, P) /\ EvenlyNested(s, P)
  BY ReadIs, EvenlyNestedIs DEF Laid
<1>2. OB(s, l) \in Seq(Braces(s, l)) /\ OB(s, l) \in Seq(Nat)
  BY <1>0, OpenNat DEF Nested
<1>3. t \in 1 .. l - 1 /\ Line(s, t) \in Opens
  BY <1>2 DEF Braces
<1>a. t \in Nat
  BY <1>1, <1>3
<1>b. Line(s, t) # "exit" /\ BodyAt(s, t)
  BY <1>3 DEF BodyAt, Opens
<1>5. t \in 1 .. Len(s)
  BY <1>a, <1>b, LineKinds
<1>c. t \in 1 .. N - 1 /\ t \in 1 .. N
  BY <1>1, <1>5
<1>6. t \in 1 .. N - 1 /\ BodyAt(s, t) /\ t \in 1 .. N
  BY <1>b, <1>c
<1>7. Stmt(P, t) # 0
  BY <1>6, EveryStatement DEF Laid
<1> DEFINE x == Stmt(P, t)
<1>8. /\ x \in t + 1 .. N
      /\ \/ IsSimple(s, t, x)
         \/ \E r : IsBlock(s, P, t, x, r)
         \/ IsOwner(s, P, t, x)
         \/ \E e : IsIfElse(s, P, t, x, e)
  BY <1>0, <1>6, <1>7, StatementParts
<1>9. PICK r : IsBlock(s, P, t, x, r)
  <2>1. ~IsSimple(s, t, x) /\ ~IsOwner(s, P, t, x) /\ ~\E e : IsIfElse(s, P, t, x, e)
    BY <1>3 DEF IsSimple, Simple, IsOwner, IsIfElse, Owners, LoopKinds, Opens
  <2> QED BY <1>8, <2>1
<1>10. r = RestOf(P, t + 1, "block") /\ Line(s, r) = "}"
  BY <1>9 DEF IsBlock
<1>11. r \in t + 1 .. Len(s) /\ x = r + 1
  BY <1>9 DEF IsBlock
<1> HIDE DEF x
<1>12. r # 0 /\ r \in Nat /\ t + 1 \in 1 .. N
  BY <1>1, <1>5, <1>11
<1>13. CloseOf(s, t, r)
  <2>1. OB(s, r) = OB(s, t + 1)
    BY <1>0, <1>10, <1>12 DEF EvenlyNested
  <2>2. OB(s, t + 1) = Append(OB(s, t), t)
    BY <1>0, <1>3, <1>6 DEF Nested
  <2> QED BY <1>10, <1>11, <2>1, <2>2 DEF CloseOf
<1>14. l < x
  <2> SUFFICES ASSUME ~(l < x) PROVE FALSE
    OBVIOUS
  <2>1. l \in r + 1 .. N
    BY <1>1, <1>11, <1>12
  <2>2. NotIn(t, OB(s, l))
    BY <1>0, <1>5, <1>13, <2>1, NotReopened
  <2> QED BY <2>2 DEF NotIn
<1>15. t <= Len(s)
  BY <1>1, <1>5
<1> QED BY <1>3, <1>7, <1>14, <1>15 DEF x

\* The statements and branches that a line is in.
AroundIn(s, P, l) ==
  {h \in 1 .. l - 1 : \/ Line(s, h) \in Opens /\ l < Stmt(P, h)
                      \/ Line(s, h) \in OwnersAndElse /\ l < Stmt(P, h + 1)}
HeadsAt(s, P, l) == {h \in AroundIn(s, P, l) : Line(s, l) = "else" => Line(s, h) \in Opens}

LEMMA AroundIs ==
  ASSUME NEW S, NEW s \in Seq(S), NEW p, NEW P, Unfolds(s, p, 0, TRUE, P), Ranges(s, P, 0),
         NEW l \in 1 .. Len(s) + 1
  PROVE  Text!Around(s, l) = AroundIn(s, P, l)
<1> DEFINE N == LastLine(s)
<1>1. Len(s) \in Nat /\ N = Len(s) + 3 /\ l \in Nat
  BY ExitsAre
<1>2. ASSUME NEW h \in 1 .. l - 1
      PROVE  /\ Text!Exits(s)[h] = Line(s, h)
             /\ Text!After(s)[h] = Stmt(P, h) /\ Text!After(s)[h + 1] = Stmt(P, h + 1)
  <2>1. h \in 1 .. N /\ h \in 1 .. N - 1 /\ h + 1 \in 1 .. N - 1
    BY <1>1
  <2> HIDE DEF N
  <2>2. Text!After(s)[h] = Stmt(P, h) /\ Text!After(s)[h + 1] = Stmt(P, h + 1)
    BY <2>1, AfterIsStatement DEF N
  <2>3. Text!Exits(s)[h] = Line(s, h)
    BY <2>1, ExitsAre DEF N
  <2> QED BY <2>2, <2>3
<1>3. Text!Around(s, l) =
        {h \in 1 .. l - 1 : \/ Text!Exits(s)[h] \in Opens /\ l < Text!After(s)[h]
                            \/ Text!Exits(s)[h] \in OwnersAndElse /\ l < Text!After(s)[h + 1]}
  BY TextKinds DEF Text!Around, OwnersAndElse
<1> QED BY <1>2, <1>3 DEF AroundIn

\* There are as many of them as the list of the open blocks is long.
BlocksAround(s, P, l) == {h \in AroundIn(s, P, l) : Line(s, h) \in Opens}

LEMMA DepthIs ==
  ASSUME NEW S, NEW s \in Seq(S), NEW p, NEW P, Laid(s, p, P), NEW l \in 1 .. Len(s)
  PROVE  Cardinality(BlocksAround(s, P, l)) = Len(OB(s, l))
<1> DEFINE N == LastLine(s)
           b == OB(s, l)
           n == Len(b)
           H == BlocksAround(s, P, l)
           f == [i \in 1 .. n |-> b[i]]
<1>1. Len(s) \in Nat /\ N = Len(s) + 3 /\ N \in Nat /\ l \in Nat /\ l \in 1 .. N
  BY ExitsAre
<1>0. Nested(s) /\ Read(s, P) /\ EvenlyNested(s, P)
  BY ReadIs, EvenlyNestedIs DEF Laid
<1>2. b \in Seq(Nat) /\ Ascending(b) /\ n \in Nat
  <2>1. b \in Seq(Nat) /\ Ascending(b)
    BY <1>0, <1>1, OpenNat, OpenAscending
  <2> QED BY <2>1
<1>3. ASSUME NEW i \in 1 .. n PROVE b[i] \in H
  <2>1. b[i] \in 1 .. l - 1 /\ Line(s, b[i]) \in Opens /\ l < Stmt(P, b[i])
    BY <1>1, <1>3, OpenAround
  <2> QED BY <2>1 DEF BlocksAround, AroundIn
<1>4. ASSUME NEW h \in H PROVE \E i \in 1 .. n : b[i] = h
  <2>1. h \in 1 .. l - 1 /\ Line(s, h) \in Opens /\ l < Stmt(P, h)
    BY DEF BlocksAround, AroundIn, OwnersAndElse, Owners, LoopKinds, Opens
  <2>2. h \in 1 .. N
    BY <1>1, <2>1
  <2>3. Stmt(P, h) \in Nat /\ Stmt(P, h) # 0
    <3>1. Stmt(P, h) \in {0} \cup h .. N
      BY <1>0, <2>2, StatementRange DEF Read
    <3> QED BY <1>1, <2>1, <2>2, <3>1
  <2>4. l \in h + 1 .. Stmt(P, h) - 1
    BY <1>1, <2>1, <2>3
  <2> DEFINE i == Len(OB(s, h)) + 1
  <2>5. i <= n /\ b[i] = h
    BY <1>0, <2>1, <2>2, <2>3, <2>4, WithinBlock
  <2>6. i \in Nat /\ i >= 1
    <3>1. OB(s, h) \in Seq(Nat)
      BY <1>0, <2>2, OpenNat
    <3> QED BY <3>1
  <2> HIDE DEF i, b, n
  <2> QED BY <1>2, <2>5, <2>6
<1>5. ASSUME NEW i \in 1 .. n, NEW j \in 1 .. n, b[i] = b[j] PROVE i = j
  <2> HIDE DEF b
  <2>1. b[i] \in Nat /\ b[j] \in Nat
    BY <1>2
  <2>2. ~(i < j) /\ ~(j < i)
    <3>1. i < j => b[i] < b[j]
      BY <1>2 DEF Ascending
    <3>2. j < i => b[j] < b[i]
      BY <1>2 DEF Ascending
    <3> QED BY <1>5, <2>1, <3>1, <3>2
  <2> QED BY <1>2, <2>2
<1> HIDE DEF b, n, H
<1>6. f \in Bijection(1 .. n, H)
  <2>1. f \in [1 .. n -> H] /\ DOMAIN f = 1 .. n
    BY <1>3
  <2>2. IsInjective(f)
    BY <1>5, <2>1 DEF IsInjective
  <2>3. \A h \in H : \E i \in 1 .. n : f[i] = h
    BY <1>4
  <2> QED BY <2>1, <2>2, <2>3 DEF Bijection, Injection, Surjection
<1>7. IsFiniteSet(1 .. n) /\ Cardinality(1 .. n) = n
  <2>1. 1 \in Int /\ n \in Int
    BY <1>2
  <2>2. /\ IsFiniteSet(1 .. n)
        /\ Cardinality(1 .. n) = IF 1 > n THEN 0 ELSE n - 1 + 1
    BY <2>1, FS_Interval
  <2> QED BY <1>2, <2>2
<1>8. Cardinality(H) = Cardinality(1 .. n)
  BY <1>6, <1>7, FS_Bijection DEF ExistsBijection
<1> QED BY <1>7, <1>8 DEF H, n, b

\* The parent of a line is the innermost of them.
LEMMA ParentIsInnermost ==
  ASSUME NEW S, NEW s \in Seq(S), NEW p, p = Parents(s), NEW P, Laid(s, p, P),
         NEW l \in 1 .. Len(s) + 1
  PROVE  IF p[l] = 0 THEN HeadsAt(s, P, l) = {}
         ELSE p[l] \in HeadsAt(s, P, l) /\ \A h \in HeadsAt(s, P, l) : h <= p[l]
<1> DEFINE N == LastLine(s)
           H == HeadsAt(s, P, l)
<1>1. Len(s) \in Nat /\ N = Len(s) + 3 /\ N \in Nat /\ l \in Nat /\ l \in 1 .. N /\ l \in 1 .. N - 1
  BY ExitsAre
<1>0. Nested(s) /\ Read(s, P) /\ EvenlyNested(s, P) /\ Whole(s, P)
  BY ReadIs, EvenlyNestedIs DEF Laid
<1>2. /\ p[l] \in 0 .. l - 1
      /\ Level(s, l) => p[l] = TopOf(OB(s, l))
      /\ ~Level(s, l) => p[l] = l - 1
  <2>1. l \in Lines(s)
    BY <1>1 DEF Lines
  <2> QED BY <1>0, <2>1, ParentsLevel
<1>3. \A h \in H : h \in 1 .. l - 1
  BY DEF HeadsAt, AroundIn
<1>4. CASE ~Level(s, l)
  <2> DEFINE q == l - 1
  <2>1. Line(s, q) \in OwnersAndElse
    BY <1>4 DEF Level
  <2>2. l # 1
    <3>1. l = 1 => Line(s, q) = "exit"
      <4>1. l = 1 => q \notin 1 .. Len(s)
        BY <1>1
      <4> HIDE DEF q
      <4> QED BY <4>1 DEF Line
    <3> HIDE DEF q
    <3> QED BY <2>1, <3>1 DEF OwnersAndElse, Owners, LoopKinds
  <2>3. q \in 1 .. N - 1 /\ q + 1 = l /\ q \in 1 .. l - 1 /\ q # 0
    BY <1>1, <2>2
  <2>4. BodyAt(s, l) /\ Stmt(P, l) # 0
    BY <1>0, <2>1, <2>3 DEF Whole, Bodies
  <2>5. Stmt(P, l) \in l + 1 .. N
    BY <1>0, <1>1, <2>4, StatementAhead DEF Read
  <2>6. l < Stmt(P, l)
    BY <1>1, <2>5
  <2>7. q \in H
    <3> HIDE DEF q
    <3> QED BY <2>1, <2>3, <2>4, <2>6 DEF HeadsAt, AroundIn, BodyAt
  <2>8. \A h \in H : h <= q
    BY <1>1, <1>3
  <2> QED BY <1>2, <1>4, <2>3, <2>7, <2>8
<1>5. CASE Level(s, l)
  <2> DEFINE b == OB(s, l)
  <2>1. b \in Seq(Nat) /\ Ascending(b)
    BY <1>0, <1>1, OpenNat, OpenAscending
  <2>2. ASSUME NEW t \in 1 .. l - 1, Line(s, t) \in Opens, l < Stmt(P, t)
        PROVE  t <= p[l]
    <3>1. t \in 1 .. N /\ Stmt(P, t) # 0
      BY <1>1, <2>2
    <3>2. l \in t + 1 .. Stmt(P, t) - 1
      <4>1. Stmt(P, t) \in Nat
        <5>1. Stmt(P, t) \in {0} \cup t .. N
          BY <1>0, <3>1, StatementRange DEF Read
        <5> QED BY <1>1, <3>1, <5>1
      <4> QED BY <1>1, <2>2, <4>1
    <3> DEFINE i == Len(OB(s, t)) + 1
    <3>3. i <= Len(b) /\ b[i] = t
      BY <1>0, <2>2, <3>1, <3>2, WithinBlock
    <3>4. i \in Nat /\ i >= 1
      <4>1. OB(s, t) \in Seq(Nat)
        BY <1>0, <3>1, OpenNat
      <4> QED BY <4>1
    <3> HIDE DEF i
    <3>5. Len(b) \in Nat /\ i \in 1 .. Len(b) /\ Len(b) \in 1 .. Len(b) /\ b # <<>>
      BY <2>1, <3>3, <3>4
    <3>6. p[l] = b[Len(b)]
      BY <1>2, <1>5, <3>5 DEF TopOf, Last
    <3>7. i = Len(b) \/ i < Len(b)
      BY <3>5
    <3>8. i < Len(b) => b[i] < b[Len(b)]
      BY <2>1, <3>5 DEF Ascending
    <3>9. b[Len(b)] \in Nat /\ t \in Nat
      BY <2>1, <3>5
    <3> HIDE DEF b
    <3> QED BY <3>3, <3>6, <3>7, <3>8, <3>9
  <2>3. ASSUME NEW h \in H PROVE h <= p[l]
    <3>1. h \in 1 .. l - 1
      BY <1>3
    <3>2. CASE Line(s, h) \in Opens /\ l < Stmt(P, h)
      BY <2>2, <3>1, <3>2
    <3>3. CASE Line(s, h) \in OwnersAndElse /\ l < Stmt(P, h + 1)
      <4>1. Line(s, l) # "else"
        BY <3>3 DEF HeadsAt, OwnersAndElse, Owners, LoopKinds, Opens
      <4>2. h # l - 1
        BY <1>5, <3>3 DEF Level
      <4>3. h + 1 \in 1 .. N /\ h \in Nat
        BY <1>1, <3>1
      <4>4. Stmt(P, h + 1) # 0 /\ Stmt(P, h + 1) \in Nat
        <5>1. Stmt(P, h + 1) \in {0} \cup h + 1 .. N
          BY <1>0, <4>3, StatementRange DEF Read
        <5> QED BY <1>1, <3>3, <4>3, <5>1
      <4>5. l \in (h + 1) + 1 .. Stmt(P, h + 1) - 1
        BY <1>1, <3>1, <3>3, <4>2, <4>3, <4>4
      <4>6. Enclosed(s, P, h + 1, l)
        <5>1. Encloses(s, P, h + 1)
          BY <1>0, <4>3, LevelsAreBlocks
        <5> QED BY <1>5, <4>1, <4>4, <4>5, <5>1 DEF Encloses, EnclosedIn
      <4>7. PICK t \in h + 1 .. l - 1 : Line(s, t) \in Opens /\ l < Stmt(P, t)
        BY <4>6 DEF Enclosed
      <4>8. t \in 1 .. l - 1 /\ h <= t /\ t \in Nat
        BY <1>1, <4>3
      <4>9. t <= p[l]
        BY <2>2, <4>7, <4>8
      <4>10. p[l] \in Nat
        BY <1>1, <1>2
      <4> QED BY <4>3, <4>8, <4>9, <4>10
    <3> QED BY <3>2, <3>3 DEF HeadsAt, AroundIn
  <2>4. CASE p[l] = 0
    <3>1. \A h \in H : FALSE
      BY <1>1, <1>3, <2>3, <2>4
    <3> QED BY <2>4, <3>1
  <2>5. CASE p[l] # 0
    <3>1. b # <<>> /\ p[l] = Last(b)
      BY <1>2, <1>5, <2>5 DEF TopOf
    <3>2. Len(b) \in 1 .. Len(b) /\ p[l] = b[Len(b)]
      <4>1. Len(b) \in Nat /\ Len(b) # 0
        BY <2>1, <3>1
      <4> QED BY <3>1, <4>1 DEF Last
    <3>3. p[l] \in 1 .. l - 1 /\ Line(s, p[l]) \in Opens /\ l < Stmt(P, p[l])
      BY <1>1, <3>2, OpenAround
    <3>4. p[l] \in H
      BY <3>3 DEF HeadsAt, AroundIn
    <3> QED BY <2>3, <2>5, <3>4
  <2> QED BY <2>4, <2>5
<1> QED BY <1>4, <1>5

\* The chain of parents is the chain of levels.
LEMMA LevelIsParent ==
  ASSUME NEW S, NEW s \in Seq(S), NEW p, p = Parents(s), NEW P, Laid(s, p, P),
         NEW l \in 1 .. Len(s) + 1
  PROVE  Text!Level(s, l) = p[l] /\ p[l] \in 0 .. l - 1
<1> DEFINE H == HeadsAt(s, P, l)
<1>1. Len(s) \in Nat /\ LastLine(s) = Len(s) + 3 /\ l \in Nat /\ l \in 1 .. LastLine(s)
  BY ExitsAre
<1>2. Text!Exits(s)[l] = Line(s, l) /\ \A h \in 1 .. l - 1 : Text!Exits(s)[h] = Line(s, h)
  <2>1. \A h \in 1 .. l : h \in 1 .. LastLine(s)
    BY <1>1
  <2>2. l \in 1 .. l /\ \A h \in 1 .. l - 1 : h \in 1 .. l
    BY <1>1
  <2> QED BY <2>1, <2>2, ExitsAre
<1>3. {h \in Text!Around(s, l) : Text!Exits(s)[l] = "else" => Text!Exits(s)[h] \in Text!Opens} = H
  <2>1. Text!Around(s, l) = AroundIn(s, P, l)
    BY AroundIs DEF Laid
  <2>2. \A h \in AroundIn(s, P, l) : h \in 1 .. l - 1
    BY DEF AroundIn
  <2> QED BY <1>2, <2>1, <2>2, TextKinds DEF HeadsAt
<1>4. Text!Level(s, l) = IF H = {} THEN 0 ELSE CHOOSE h \in H : \A j \in H : j <= h
  <2> DEFINE G == {h \in Text!Around(s, l) : Text!Exits(s)[l] = "else" => Text!Exits(s)[h] \in Text!Opens}
  <2>1. Text!Level(s, l) = IF G = {} THEN 0 ELSE CHOOSE h \in G : \A j \in G : j <= h
    BY DEF Text!Level
  <2>2. G = H
    BY <1>3
  <2> HIDE DEF G, H
  <2> QED BY <2>1, <2>2
<1>5. IF p[l] = 0 THEN H = {} ELSE p[l] \in H /\ \A h \in H : h <= p[l]
  BY ParentIsInnermost
<1>6. \A h \in H : h \in Nat
  BY DEF HeadsAt, AroundIn
<1>7. p[l] \in 0 .. l - 1
  <2>1. l \in Lines(s)
    BY <1>1 DEF Lines
  <2> QED BY <2>1, ParentsLevel DEF Laid
<1> HIDE DEF H
<1>8. CASE p[l] = 0
  BY <1>4, <1>5, <1>7, <1>8
<1>9. CASE p[l] # 0
  <2> DEFINE c == CHOOSE h \in H : \A j \in H : j <= h
  <2>1. p[l] \in H /\ \A h \in H : h <= p[l]
    BY <1>5, <1>9
  <2>2. c \in H /\ \A j \in H : j <= c
    BY <2>1
  <2>3. Text!Level(s, l) = c
    BY <1>4, <2>1
  <2> HIDE DEF c
  <2>4. c <= p[l] /\ p[l] <= c /\ c \in Nat /\ p[l] \in Nat
    BY <1>6, <2>1, <2>2
  <2>5. c = p[l]
    BY <2>4
  <2> QED BY <1>7, <2>3, <2>5
<1> QED BY <1>8, <1>9

-----------------------------------------------------------------------------
(* Jumps.                                                                  *)

ChainBody(p, t, f) == [x \in DOMAIN p |-> p[t] = x \/ (p[x] # 0 /\ f[p[x]])]

LEMMA ChainExists ==
  ASSUME NEW N \in Nat, NEW p \in [1 .. N -> 0 .. N], \A x \in 1 .. N : p[x] \in 0 .. x - 1,
         NEW t \in 1 .. N
  PROVE  \E f : f = ChainBody(p, t, f)
<1> DEFINE D == 1 .. N
           F == [D -> BOOLEAN]
           G == [x \in D |-> [f \in F |-> p[t] = x \/ (p[x] # 0 /\ f[p[x]])]]
           m == [x \in D |-> x]
<1>1. F # {} /\ Over(F, D)
  <2>1. [x \in D |-> TRUE] \in F
    OBVIOUS
  <2> QED BY <2>1 DEF Over
<1>2. Measure(m, D, N)
  BY DEF Measure
<1>3. Closed(G, D, F)
  BY DEF Closed
<1>4. LocalOn(G, D, m, F)
  <2> SUFFICES ASSUME NEW x \in D, NEW f \in F, NEW h \in F,
                      \A z \in D : m[z] < m[x] => f[z] = h[z]
               PROVE  G[x][f] = G[x][h]
    BY DEF LocalOn
  <2>1. CASE p[x] = 0
    BY <2>1
  <2>2. CASE p[x] # 0
    <3>1. p[x] \in D /\ m[p[x]] < m[x]
      <4>1. p[x] \in 0 .. x - 1 /\ x \in 1 .. N
        OBVIOUS
      <4>2. p[x] \in D /\ p[x] < x
        BY <2>2, <4>1
      <4> QED BY <4>2
    <3>2. f[p[x]] = h[p[x]]
      BY <3>1
    <3> HIDE DEF m
    <3> QED BY <3>2
  <2> QED BY <2>1, <2>2
<1> HIDE DEF F, G, m
<1>5. SolvedIn(F, G, D)
  BY <1>1, <1>2, <1>3, <1>4, RecursionWithin
<1>6. PICK f \in F : \A x \in D : f[x] = G[x][f]
  BY <1>5 DEF SolvedIn
<1>7. f = [x \in D |-> f[x]]
  BY DEF F
<1>8. \A x \in D : G[x][f] = (p[t] = x \/ (p[x] # 0 /\ f[p[x]]))
  BY DEF G, F
<1>9. f = [x \in D |-> p[t] = x \/ (p[x] # 0 /\ f[p[x]])]
  BY <1>6, <1>7, <1>8
<1>10. DOMAIN p = D
  OBVIOUS
<1>11. f = ChainBody(p, t, f)
  <2>1. ChainBody(p, t, f) = [x \in D |-> p[t] = x \/ (p[x] # 0 /\ f[p[x]])]
    BY <1>10 DEF ChainBody
  <2> QED BY <1>9, <2>1
<1> QED BY <1>11

\* A jump is valid where the text says that it may lead to its label.
LEMMA JumpsAgree ==
  ASSUME NEW S, NEW s \in Seq(S), NEW p, p = Parents(s), NEW P, Laid(s, p, P),
         NEW from \in 1 .. Len(s) + 1, NEW to \in 1 .. Len(s) + 1
  PROVE  IsJumpValid(p, from, to) <=> Text!Reachable(s, from, to)
<1> DEFINE N == LastLine(s)
<1>1. Len(s) \in Nat /\ N = Len(s) + 3 /\ N \in Nat /\ from \in Nat /\ from \in 1 .. N /\ to \in 1 .. N
  BY ExitsAre
<1>2. p \in [1 .. N -> 0 .. N] /\ \A x \in 1 .. N : p[x] \in 0 .. x - 1
  BY ParentsLevel DEF Laid, Lines
<1>3. \A x \in 1 .. Len(s) + 1 : Text!Level(s, x) = p[x]
  BY LevelIsParent
<1> DEFINE A == CHOOSE f : f = ChainBody(p, to, f)
<1>4. A = ChainBody(p, to, A)
  <2>1. \E f : f = ChainBody(p, to, f)
    <3> HIDE DEF N
    <3> QED BY <1>1, <1>2, ChainExists
  <2> QED BY <2>1
<1>5. IsJumpValid(p, from, to) <=> (p[to] = 0 \/ (p[from] # 0 /\ A[p[from]]))
  BY DEF IsJumpValid, ChainBody
<1> HIDE DEF A
<1>6. \A x \in 1 .. N : A[x] = (p[to] = x \/ (p[x] # 0 /\ A[p[x]]))
  <2>1. DOMAIN p = 1 .. N
    BY <1>2
  <2>2. A = [x \in 1 .. N |-> p[to] = x \/ (p[x] # 0 /\ A[p[x]])]
    BY <1>4, <2>1 DEF ChainBody
  <2> HIDE DEF N
  <2>3. \A x \in 1 .. N : [y \in 1 .. N |-> p[to] = y \/ (p[y] # 0 /\ A[p[y]])][x]
                            = (p[to] = x \/ (p[x] # 0 /\ A[p[x]]))
    OBVIOUS
  <2> QED BY <2>2, <2>3
<1> DEFINE w(x) == p[to] = 0 \/ (x # 0 /\ A[x])
           Body(f) == [x \in 0 .. from |-> Text!Level(s, to) = x \/ (x # 0 /\ f[Text!Level(s, x)])]
           R == CHOOSE f : f = Body(f)
<1>7. \A x \in 1 .. from : x \in 1 .. Len(s) + 1 /\ x \in 1 .. N
  BY <1>1
<1>8. \A x \in 1 .. from : Text!Level(s, x) = p[x] /\ p[x] \in 0 .. x - 1 /\ p[x] \in 0 .. from
  <2> SUFFICES ASSUME NEW x \in 1 .. from
               PROVE  Text!Level(s, x) = p[x] /\ p[x] \in 0 .. x - 1 /\ p[x] \in 0 .. from
    OBVIOUS
  <2>1. Text!Level(s, x) = p[x] /\ p[x] \in 0 .. x - 1
    BY <1>2, <1>3, <1>7
  <2>2. p[x] \in 0 .. from
    BY <1>1, <2>1
  <2> QED BY <2>1, <2>2
<1>9. Text!Level(s, to) = p[to]
  BY <1>3
<1>10. \A x \in 1 .. from : w(x) = (p[to] = x \/ w(p[x]))
  <2> SUFFICES ASSUME NEW x \in 1 .. from PROVE w(x) = (p[to] = x \/ w(p[x]))
    OBVIOUS
  <2>1. A[x] = (p[to] = x \/ (p[x] # 0 /\ A[p[x]])) /\ x # 0
    BY <1>1, <1>6, <1>7
  <2> QED BY <2>1
<1>11. w(0) = (p[to] = 0)
  OBVIOUS
<1> DEFINE W == [x \in 0 .. from |-> w(x)]
<1>12. W = Body(W)
  <2>1. ASSUME NEW x \in 0 .. from PROVE w(x) = (Text!Level(s, to) = x \/ (x # 0 /\ W[Text!Level(s, x)]))
    <3>1. CASE x = 0
      BY <1>9, <1>11, <3>1
    <3>2. CASE x # 0
      <4>1. x \in 1 .. from
        BY <1>1, <3>2
      <4>2. Text!Level(s, x) = p[x] /\ p[x] \in 0 .. from
        BY <1>8, <4>1
      <4>3. W[Text!Level(s, x)] = w(p[x])
        BY <4>2
      <4>4. w(x) = (p[to] = x \/ w(p[x]))
        BY <1>10, <4>1
      <4> HIDE DEF w, W
      <4> QED BY <1>9, <3>2, <4>3, <4>4
    <3> QED BY <3>1, <3>2
  <2> HIDE DEF w
  <2>2. W = [x \in 0 .. from |-> w(x)]
    OBVIOUS
  <2> HIDE DEF W
  <2> QED BY <2>1, <2>2
<1> HIDE DEF W
<1>13. R = Body(R)
  <2> HIDE DEF Body
  <2> QED BY <1>12
<1>14. Text!Reachable(s, from, to) <=> R[p[from]]
  <2>1. Text!Reachable(s, from, to) <=> R[Text!Level(s, from)]
    BY DEF Text!Reachable
  <2>2. from \in 1 .. from
    BY <1>1
  <2> HIDE DEF R
  <2> QED BY <1>8, <2>1, <2>2
<1> HIDE DEF R
<1>15. \A x \in 0 .. from : R[x] = (Text!Level(s, to) = x \/ (x # 0 /\ R[Text!Level(s, x)]))
  BY <1>13
<1> HIDE DEF w, Body
<1> DEFINE T == {n \in 0 .. from : \A x \in 0 .. n : R[x] = w(x)}
<1>16. 0 \in T
  <2>1. R[0] = w(0)
    BY <1>1, <1>9, <1>11, <1>15
  <2>2. \A x \in 0 .. 0 : x = 0
    OBVIOUS
  <2> QED BY <1>1, <2>1, <2>2
<1>17. ASSUME NEW n \in 0 .. from - 1, n \in T PROVE n + 1 \in T
  <2>1. n + 1 \in 1 .. from /\ n + 1 \in 0 .. from /\ n + 1 # 0 /\ n \in Nat
    BY <1>1
  <2>2. Text!Level(s, n + 1) = p[n + 1] /\ p[n + 1] \in 0 .. (n + 1) - 1
    BY <1>8, <2>1
  <2>3. p[n + 1] \in 0 .. n
    BY <2>1, <2>2
  <2>4. R[p[n + 1]] = w(p[n + 1])
    BY <1>17, <2>3
  <2>5. R[n + 1] = (p[to] = n + 1 \/ R[p[n + 1]])
    BY <1>9, <1>15, <2>1, <2>2
  <2>6. w(n + 1) = (p[to] = n + 1 \/ w(p[n + 1]))
    BY <1>10, <2>1
  <2>7. R[n + 1] = w(n + 1)
    BY <2>4, <2>5, <2>6
  <2>8. \A x \in 0 .. n + 1 : x = n + 1 \/ x \in 0 .. n
    BY <2>1
  <2>9. \A x \in 0 .. n : R[x] = w(x)
    BY <1>17
  <2> QED BY <2>1, <2>7, <2>8, <2>9
<1> HIDE DEF T
<1>18. \A n \in 0 .. from : n \in T
  BY <1>1, <1>16, <1>17, Induction
<1>19. R[p[from]] = w(p[from])
  <2>1. from \in T /\ p[from] \in 0 .. from
    BY <1>1, <1>8, <1>18
  <2> QED BY <2>1 DEF T
<1> QED BY <1>5, <1>14, <1>19 DEF w

-----------------------------------------------------------------------------
(* Functions.                                                              *)

\* A function begins outside of the outermost blocks of those above it.
OutsideOf(s, P) ==
  \A l, m, h \in 1 .. Len(s) :
    /\ s[l] = "func{" /\ s[m] = "func{" /\ l < m
    /\ h \in AroundIn(s, P, l) \cup {l} /\ Line(s, h) \in Opens
    => Stmt(P, h) <= m

LEMMA FunctionsAgree ==
  ASSUME NEW S, NEW s \in Seq(S), NEW p, NEW P, Laid(s, p, P)
  PROVE  FunctionsApart(s) <=> OutsideOf(s, P)
<1> DEFINE N == LastLine(s)
<1>1. Len(s) \in Nat /\ N = Len(s) + 3 /\ N \in Nat
  BY ExitsAre
<1>0. Nested(s) /\ Read(s, P) /\ EvenlyNested(s, P)
  BY ReadIs, EvenlyNestedIs DEF Laid
<1>2. ASSUME FunctionsApart(s), NEW l \in 1 .. Len(s), NEW m \in 1 .. Len(s), NEW h \in 1 .. Len(s),
             s[l] = "func{", s[m] = "func{", l < m, h \in AroundIn(s, P, l) \cup {l}, Line(s, h) \in Opens
      PROVE  Stmt(P, h) <= m
  <2>1. PICK x \in l + 1 .. m : OpenBlocks(s)[x] = <<>>
    BY <1>2 DEF FunctionsApart
  <2>2. x \in 1 .. Len(s) + 1 /\ x \in Nat /\ h \in 1 .. N /\ x \in l + 1 .. m
    BY <1>1
  <2>3. OB(s, x) = <<>>
    BY <2>1, <2>2 DEF OB
  <2>4. h <= l
    <3>1. h \in AroundIn(s, P, l) => h \in 1 .. l - 1
      BY DEF AroundIn
    <3>2. h \in 1 .. l - 1 \/ h = l
      BY <1>2, <3>1
    <3>3. h \in Nat /\ l \in Nat
      BY <1>1
    <3> QED BY <3>2, <3>3
  <2>5. Stmt(P, h) \in Nat
    <3>1. Stmt(P, h) \in {0} \cup h .. N
      BY <1>0, <2>2, StatementRange DEF Read
    <3> QED BY <1>1, <2>2, <3>1
  <2> SUFFICES ASSUME m < Stmt(P, h) PROVE FALSE
    BY <1>1, <2>5
  <2>6. Stmt(P, h) # 0 /\ x \in h + 1 .. Stmt(P, h) - 1
    BY <1>1, <2>2, <2>4, <2>5
  <2>7. Len(OB(s, h)) + 1 <= Len(OB(s, x))
    BY <1>0, <1>2, <2>2, <2>6, WithinBlock
  <2>8. Len(OB(s, h)) \in Nat
    BY <1>0, <2>2, OpenNat
  <2>9. Len(OB(s, x)) = 0
    BY <2>3
  <2> QED BY <2>7, <2>8, <2>9
<1>3. ASSUME OutsideOf(s, P), NEW l \in 1 .. Len(s), NEW m \in 1 .. Len(s),
             l < m, s[l] = "func{", s[m] = "func{"
      PROVE  \E x \in l + 1 .. m : OpenBlocks(s)[x] = <<>>
  <2> DEFINE k == l + 1
             b == OB(s, k)
             h == b[1]
  <2>1. l \in 1 .. N - 1 /\ k \in 1 .. N /\ l \in 1 .. N /\ k = l + 1 /\ k - 1 = l
    BY <1>1
  <2>2. Line(s, l) \in Opens
    BY <1>3 DEF Line, Opens
  <2>3. b = Append(OB(s, l), l)
    BY <1>0, <2>1, <2>2 DEF Nested
  <2>4. b \in Seq(Nat) /\ OB(s, l) \in Seq(Nat) /\ Ascending(b)
    BY <1>0, <2>1, OpenNat, OpenAscending
  <2>5. Len(b) \in Nat /\ 1 \in 1 .. Len(b)
    BY <2>3, <2>4
  <2> HIDE DEF k, b
  <2>6. h \in 1 .. k - 1 /\ Line(s, h) \in Opens /\ h <= Len(s) /\ Stmt(P, h) # 0 /\ k < Stmt(P, h)
    BY <2>1, <2>5, OpenAround DEF b
  <2>7. h \in 1 .. N /\ h \in 1 .. Len(s) /\ h \in Nat
    BY <1>1, <2>1, <2>6
  <2>8. Stmt(P, h) \in h + 1 .. N
    <3>1. h \in 1 .. N - 1
      BY <1>1, <2>7
    <3> QED BY <1>0, <2>6, <3>1, StatementAhead DEF Read
  <2>9. h \in AroundIn(s, P, l) \cup {l}
    <3>1. h = l \/ h \in 1 .. l - 1
      BY <1>1, <2>1, <2>6
    <3>2. l < Stmt(P, h)
      BY <1>1, <2>1, <2>6, <2>7, <2>8
    <3> QED BY <2>6, <3>1, <3>2 DEF AroundIn
  <2>10. Stmt(P, h) <= m
    BY <1>3, <2>6, <2>7, <2>9 DEF OutsideOf
  <2> DEFINE x == Stmt(P, h)
             i == Len(OB(s, h)) + 1
  <2>11. x \in l + 1 .. m /\ x \in 1 .. Len(s) + 1
    BY <1>1, <2>1, <2>6, <2>7, <2>8, <2>10
  <2>12. OB(s, x) = OB(s, h)
    BY <1>0, <2>6, <2>7 DEF EvenlyNested
  <2>13. i <= Len(b) /\ b[i] = h
    <3>1. k \in h + 1 .. Stmt(P, h) - 1
      BY <1>1, <2>1, <2>6, <2>7, <2>8
    <3> QED BY <1>0, <2>6, <2>7, <3>1, WithinBlock DEF b
  <2>14. OB(s, h) \in Seq(Nat) /\ i \in Nat /\ i >= 1
    BY <1>0, <2>7, OpenNat
  <2>15. i = 1
    <3> SUFFICES ASSUME i # 1 PROVE FALSE
      OBVIOUS
    <3> HIDE DEF i
    <3>1. i \in 1 .. Len(b) /\ 1 < i
      BY <2>5, <2>13, <2>14
    <3>2. b[1] < b[i]
      BY <2>4, <2>5, <3>1 DEF Ascending
    <3> QED BY <2>7, <2>13, <3>2
  <2>16. OB(s, h) = <<>>
    <3>1. Len(OB(s, h)) = 0
      BY <2>14, <2>15
    <3> QED BY <2>14, <3>1
  <2>17. OpenBlocks(s)[x] = <<>>
    <3>1. OB(s, x) = <<>>
      BY <2>12, <2>16
    <3> HIDE DEF x
    <3> QED BY <2>11, <3>1 DEF OB
  <2> QED BY <2>11, <2>17
<1>4. FunctionsApart(s) => OutsideOf(s, P)
  BY <1>2 DEF OutsideOf
<1>5. OutsideOf(s, P) => FunctionsApart(s)
  BY <1>3 DEF FunctionsApart
<1> QED BY <1>4, <1>5

-----------------------------------------------------------------------------
(* What is written is a list of statements.                                *)

ListBody(s, f) ==
  [l \in 0 .. Len(Text!Exits(s)) + 1 |->
     IF l = 0 THEN FALSE ELSE IF l = Len(Text!Exits(s)) + 1 THEN TRUE ELSE f[Text!After(s)[l]]]
IsList(s) == (CHOOSE f : f = ListBody(s, f))[1]

\* PreparseIfElse goes through it to its end.
LEMMA ListIsRead ==
  ASSUME NEW S, NEW s \in Seq(S), NEW p, NEW P, Unfolds(s, p, 0, TRUE, P), Ranges(s, P, 0)
  PROVE  IsList(s) <=> RestOf(P, 1, "all") = LastLine(s)
<1> DEFINE N == LastLine(s)
           a(l) == Text!After(s)[l]
           r(l) == RestOf(P, l, "all")
           w(l) == l = N + 1 \/ (l \in 1 .. N /\ r(l) = N)
           W == [l \in 0 .. N + 1 |-> w(l)]
           Body(f) == [l \in 0 .. N + 1 |-> IF l = 0 THEN FALSE ELSE IF l = N + 1 THEN TRUE ELSE f[a(l)]]
           L == CHOOSE f : f = ListBody(s, f)
           A == {l \in 1 .. N : L[l] = w(l)}
<1>1. Len(s) \in Nat /\ N = Len(s) + 3 /\ N \in Nat /\ N >= 1 /\ Len(Text!Exits(s)) = N
  BY ExitsAre
<1>0. Read(s, P) /\ RestsIn(s, P, "all")
  BY ReadIs, RestsInMode
<1>2. (\A l \in 1 .. N - 1 : a(l) = Stmt(P, l)) /\ a(N) = N + 1
  BY AfterIsStatement
<1>3. \A f : ListBody(s, f) = Body(f)
  BY <1>1 DEF ListBody
<1>4. r(N) = N
  BY DEF Unfolds, RestOf, ParseModes
<1>5. \A l \in 1 .. N - 1 : a(l) = 0 \/ a(l) \in l + 1 .. N
  <2> SUFFICES ASSUME NEW l \in 1 .. N - 1 PROVE a(l) = 0 \/ a(l) \in l + 1 .. N
    OBVIOUS
  <2>1. Stmt(P, l) \in {0} \cup l + 1 .. N
    BY <1>0, StatementAhead DEF Read
  <2> QED BY <1>2, <2>1
<1>6. \A l \in 1 .. N - 1 : r(l) = IF Line(s, l) = "}" THEN l
                                   ELSE IF a(l) = 0 THEN 0 ELSE r(a(l))
  BY <1>0, <1>2 DEF RestsIn
<1>7. \A l \in 1 .. N - 1 : Line(s, l) = "}" => a(l) = 0
  BY <1>0, <1>2 DEF Read, Statements
<1> HIDE DEF a, r
<1>8. \A l \in 1 .. N : a(l) \in 0 .. N + 1 /\ w(l) = w(a(l))
  <2> SUFFICES ASSUME NEW l \in 1 .. N PROVE a(l) \in 0 .. N + 1 /\ w(l) = w(a(l))
    OBVIOUS
  <2>1. CASE l = N
    BY <1>1, <1>2, <1>4, <2>1
  <2>2. CASE l \in 1 .. N - 1
    <3>1. w(l) = (r(l) = N) /\ l # N /\ l # 0
      BY <1>1, <2>2
    <3>2. CASE a(l) = 0
      <4>1. r(l) = l \/ r(l) = 0
        BY <1>6, <2>2, <3>2
      <4>a. r(l) # N
        BY <1>1, <3>1, <4>1
      <4>b. w(0) = FALSE
        BY <1>1
      <4>c. a(l) \in 0 .. N + 1
        BY <1>1, <3>2
      <4> HIDE DEF w, N
      <4> QED BY <3>1, <3>2, <4>a, <4>b, <4>c
    <3>3. CASE a(l) \in l + 1 .. N
      <4>1. a(l) # 0 /\ a(l) \in 1 .. N /\ a(l) # N + 1
        BY <1>1, <2>2, <3>3
      <4>2. r(l) = r(a(l))
        BY <1>6, <1>7, <2>2, <4>1
      <4> QED BY <1>1, <3>1, <4>1, <4>2
    <3> QED BY <1>5, <2>2, <3>2, <3>3
  <2>3. l = N \/ l \in 1 .. N - 1
    BY <1>1
  <2> QED BY <2>1, <2>2, <2>3
<1>9. w(0) = FALSE /\ w(N + 1) = TRUE
  BY <1>1
<1>10. \A l : w(l) \in BOOLEAN
  OBVIOUS
<1> HIDE DEF w
<1>11. W = Body(W)
  <2>1. ASSUME NEW l \in 0 .. N + 1
        PROVE  w(l) = IF l = 0 THEN FALSE ELSE IF l = N + 1 THEN TRUE ELSE W[a(l)]
    <3>1. l = 0 \/ l = N + 1 \/ l \in 1 .. N
      BY <1>1
    <3>2. CASE l \in 1 .. N
      <4>1. l # 0 /\ l # N + 1
        BY <1>1, <3>2
      <4>2. W[a(l)] = w(a(l))
        BY <1>8, <3>2
      <4> HIDE DEF W
      <4> QED BY <1>8, <3>2, <4>1, <4>2
    <3>3. 0 # N + 1
      BY <1>1
    <3> HIDE DEF W
    <3> QED BY <1>9, <3>1, <3>2, <3>3
  <2> HIDE DEF N
  <2>2. W = [l \in 0 .. N + 1 |-> w(l)]
    OBVIOUS
  <2> HIDE DEF W
  <2> QED BY <2>1, <2>2
<1> HIDE DEF W
<1>12. L = Body(L)
  <2> HIDE DEF Body
  <2>1. W = ListBody(s, W)
    BY <1>3, <1>11
  <2>2. L = ListBody(s, L)
    BY <2>1
  <2> HIDE DEF L
  <2> QED BY <1>3, <2>2
<1> HIDE DEF L
<1>13. L[0] = FALSE /\ L[N + 1] = TRUE /\ \A l \in 1 .. N : L[l] = L[a(l)]
  <2>1. \A l \in 0 .. N + 1 : L[l] = IF l = 0 THEN FALSE ELSE IF l = N + 1 THEN TRUE ELSE L[a(l)]
    BY <1>12
  <2>2. 0 \in 0 .. N + 1 /\ N + 1 \in 0 .. N + 1 /\ N + 1 # 0
    BY <1>1
  <2>3. \A l \in 1 .. N : l \in 0 .. N + 1 /\ l # 0 /\ l # N + 1
    BY <1>1
  <2> HIDE DEF N
  <2> QED BY <2>1, <2>2, <2>3
<1> HIDE DEF Body
<1>14. N \in A
  <2>1. N \in 1 .. N
    BY <1>1
  <2>2. L[N] = L[N + 1] /\ w(N) = w(N + 1)
    BY <1>2, <1>8, <1>13, <2>1
  <2> HIDE DEF N
  <2> QED BY <1>9, <1>13, <2>1, <2>2
<1>15. ASSUME NEW n \in 1 .. N - 1, \A m \in n + 1 .. N : m \in A PROVE n \in A
  <2>1. n \in 1 .. N
    BY <1>1
  <2>2. L[n] = L[a(n)] /\ w(n) = w(a(n))
    BY <1>8, <1>13, <2>1
  <2>3. L[a(n)] = w(a(n))
    BY <1>5, <1>9, <1>13, <1>15
  <2> QED BY <2>1, <2>2, <2>3
<1> HIDE DEF A
<1>16. \A n \in 1 .. N : n \in A
  <2> HIDE DEF N
  <2> QED BY <1>1, <1>14, <1>15, LinesUp
<1>17. L[1] = w(1)
  BY <1>1, <1>16 DEF A
<1>18. w(1) = (RestOf(P, 1, "all") = N)
  BY <1>1 DEF w, r
<1>19. IsList(s) = L[1]
  BY DEF IsList, L
<1> QED BY <1>17, <1>18, <1>19

\* The open blocks, whether or not the braces match.
OE(s, l) == OpenBlocks(s)[IF l <= Len(s) + 1 THEN l ELSE Len(s) + 1]

LEMMA OpenSteps ==
  ASSUME NEW S, NEW s \in Seq(S)
  PROVE  /\ OE(s, 1) = <<>>
         /\ \A l \in 1 .. LastLine(s) : OE(s, l) \in Seq(Nat)
         /\ \A l \in 1 .. LastLine(s) - 1 :
              /\ Line(s, l) \in Opens => OE(s, l + 1) = Append(OE(s, l), l)
              /\ Line(s, l) = "}" /\ OE(s, l) # <<>> => OE(s, l + 1) = Front(OE(s, l))
              /\ Line(s, l) \notin Opens \cup {"}"} => OE(s, l + 1) = OE(s, l)
<1> DEFINE M == Len(s) + 1
           N == LastLine(s)
           O == OpenBlocks(s)
<1>1. M \in Nat /\ M >= 1 /\ N = M + 2 /\ Len(s) \in Nat /\ M = Len(s) + 1
  BY ExitsAre
<1>2. \A l \in 1 .. M : O[l] = BlocksFrom(s, O, l)
  <2>1. \A l \in 1 .. M : OpenBody(s, O)[l] = BlocksFrom(s, O, l)
    BY DEF OpenBody
  <2> QED BY <2>1, OpenBlocksExist
<1>3. \A l \in 1 .. M : O[l] \in Seq(Nat)
  <2> SUFFICES ASSUME NEW l \in 1 .. M PROVE O[l] \in Seq(Nat)
    OBVIOUS
  <2>1. O[l] \in Seq(Braces(s, l))
    BY OpenBlocksType
  <2>2. Braces(s, l) \subseteq Nat
    BY DEF Braces
  <2> HIDE DEF O
  <2> QED BY <2>1, <2>2
<1>4. \A l : OE(s, l) = O[IF l <= M THEN l ELSE M]
  BY DEF OE
<1> HIDE DEF O
<1>5. OE(s, 1) = <<>>
  <2>1. 1 \in 1 .. M /\ 1 <= M
    BY <1>1
  <2> QED BY <1>2, <1>4, <2>1 DEF BlocksFrom
<1>6. ASSUME NEW l \in 1 .. N PROVE OE(s, l) \in Seq(Nat)
  <2>1. (IF l <= M THEN l ELSE M) \in 1 .. M
    BY <1>1
  <2> QED BY <1>3, <1>4, <2>1
<1>7. ASSUME NEW l \in 1 .. N - 1
      PROVE  /\ Line(s, l) \in Opens => OE(s, l + 1) = Append(OE(s, l), l)
             /\ Line(s, l) = "}" /\ OE(s, l) # <<>> => OE(s, l + 1) = Front(OE(s, l))
             /\ Line(s, l) \notin Opens \cup {"}"} => OE(s, l + 1) = OE(s, l)
  <2>0. "}" \notin Opens /\ "exit" \notin Opens
    BY DEF Opens
  <2>1. CASE l \in 1 .. Len(s)
    <3> DEFINE k == l + 1
    <3>1. k \in 1 .. M /\ k # 1 /\ k - 1 = l /\ l \in 1 .. M /\ k <= M /\ l <= M
      BY <1>1, <2>1
    <3>2. Line(s, l) = s[l] /\ OE(s, l) = O[l] /\ OE(s, k) = O[k]
      BY <1>4, <2>1, <3>1 DEF Line
    <3> HIDE DEF k
    <3>3. OE(s, k) = CASE s[l] \in Opens -> Append(O[l], l)
                       [] s[l] = "}" /\ O[l] # <<>> -> Front(O[l])
                       [] OTHER -> O[l]
      <4>1. OE(s, k) = BlocksFrom(s, O, k)
        BY <1>2, <3>1, <3>2
      <4> QED BY <3>1, <4>1 DEF BlocksFrom
    <3>4. /\ Line(s, l) \in Opens => OE(s, k) = Append(OE(s, l), l)
          /\ Line(s, l) = "}" /\ OE(s, l) # <<>> => OE(s, k) = Front(OE(s, l))
          /\ Line(s, l) \notin Opens \cup {"}"} => OE(s, k) = OE(s, l)
      BY <2>0, <3>2, <3>3
    <3> QED BY <3>4 DEF k
  <2>2. CASE l \notin 1 .. Len(s)
    <3>1. Line(s, l) = "exit" /\ Line(s, l) # "}"
      BY <2>2 DEF Line
    <3>2. (IF l <= M THEN l ELSE M) = M /\ (IF l + 1 <= M THEN l + 1 ELSE M) = M
      BY <1>1, <2>2
    <3>3. OE(s, l) = OE(s, l + 1)
      BY <1>4, <3>2
    <3> QED BY <2>0, <3>1, <3>3
  <2> QED BY <2>1, <2>2
<1> QED BY <1>5, <1>6, <1>7

\* No block ends between two lines that was not begun there.
MatchedTo(s, l, x) ==
  /\ OE(s, x) = OE(s, l)
  /\ \A m \in l .. x - 1 : Line(s, m) = "}" => OE(s, m) # <<>>
Matched(s, P, l) ==
  /\ Stmt(P, l) # 0 => MatchedTo(s, l, Stmt(P, l))
  /\ RestOf(P, l, "block") # 0 => MatchedTo(s, l, RestOf(P, l, "block"))
  /\ RestOf(P, l, "all") = LastLine(s) => MatchedTo(s, l, LastLine(s))

LEMMA MatchedOn ==
  ASSUME NEW s, NEW l \in Nat, NEW x \in Nat, NEW y \in Nat, l <= x, x <= y,
         MatchedTo(s, l, x), MatchedTo(s, x, y)
  PROVE  MatchedTo(s, l, y)
<1>1. \A m \in l .. y - 1 : m \in l .. x - 1 \/ m \in x .. y - 1
  OBVIOUS
<1> QED BY <1>1 DEF MatchedTo

LEMMA Alone ==
  ASSUME NEW l \in Nat
  PROVE  \A m \in l .. (l + 1) - 1 : m = l
OBVIOUS

LEMMA NoLine ==
  ASSUME NEW s, NEW l \in Nat
  PROVE  MatchedTo(s, l, l)
<1>1. \A m \in l .. l - 1 : FALSE
  OBVIOUS
<1> QED BY <1>1 DEF MatchedTo

LEMMA OneLine ==
  ASSUME NEW s, NEW l \in Nat, OE(s, l + 1) = OE(s, l), Line(s, l) # "}"
  PROVE  MatchedTo(s, l, l + 1)
BY Alone DEF MatchedTo

LEMMA BlocksMatch ==
  ASSUME NEW S, NEW s \in Seq(S), NEW P, Read(s, P), RestsIn(s, P, "all")
  PROVE  \A l \in 1 .. LastLine(s) : Matched(s, P, l)
<1> DEFINE N == LastLine(s)
           A == {l \in 1 .. N : Matched(s, P, l)}
<1>1. Len(s) \in Nat /\ N = Len(s) + 3 /\ N \in Nat /\ N >= 1
  BY ExitsAre
<1>2. N \in A
  <2>1. Stmt(P, N) = 0 /\ RestOf(P, N, "block") = 0 /\ N \in 1 .. N
    BY <1>1 DEF Read
  <2>2. MatchedTo(s, N, N)
    <3>1. \A m \in N .. N - 1 : FALSE
      BY <1>1
    <3> HIDE DEF N
    <3> QED BY <3>1 DEF MatchedTo
  <2> QED BY <2>1, <2>2 DEF Matched
<1>3. ASSUME NEW n \in 1 .. N - 1, \A m \in n + 1 .. N : m \in A PROVE n \in A
  <2>0. n \in 1 .. N /\ n \in Nat /\ \A m \in n + 1 .. N : Matched(s, P, m) /\ m \in Nat
    BY <1>1, <1>3
  <2>a. n \in Nat /\ n >= 1 /\ n + 1 <= N /\ n + 1 \in n + 1 .. N /\ n <= n + 1 /\ n + 1 \in Nat
    BY <1>1
  <2>b. \A x : Line(s, n) \notin Opens \cup {"}"} /\ MatchedTo(s, n + 1, x) /\ x \in n + 1 .. N
               => MatchedTo(s, n, x)
    <3> SUFFICES ASSUME NEW x, Line(s, n) \notin Opens \cup {"}"}, MatchedTo(s, n + 1, x), x \in n + 1 .. N
                 PROVE  MatchedTo(s, n, x)
      OBVIOUS
    <3>1. OE(s, n + 1) = OE(s, n)
      BY OpenSteps
    <3>3. MatchedTo(s, n, n + 1)
      BY <2>a, <3>1, OneLine
    <3>4. x \in Nat /\ n + 1 <= x
      BY <1>1, <2>a, InRange
    <3> QED BY <2>0, <2>a, <3>3, <3>4, MatchedOn
  <2>1. ASSUME NEW x, x = Stmt(P, n), x # 0 PROVE MatchedTo(s, n, x)
    <3>1. /\ x \in n + 1 .. N
          /\ \/ IsSimple(s, n, x)
             \/ \E r : IsBlock(s, P, n, x, r)
             \/ IsOwner(s, P, n, x)
             \/ \E e : IsIfElse(s, P, n, x, e)
      BY <2>0, <2>1, StatementParts
    <3>2. CASE IsSimple(s, n, x)
      <4>1. x = n + 1 /\ Line(s, n) \notin Opens \cup {"}"}
        BY <3>2 DEF IsSimple, Simple
      <4>2. MatchedTo(s, n + 1, n + 1)
        BY <2>a, NoLine
      <4> QED BY <2>a, <2>b, <4>1, <4>2
    <3>3. ASSUME NEW r, IsBlock(s, P, n, x, r) PROVE MatchedTo(s, n, x)
      <4>1. /\ Line(s, n) \in Opens /\ r = RestOf(P, n + 1, "block") /\ r # 0 /\ Line(s, n) # "}"
            /\ r \in n + 1 .. Len(s) /\ Line(s, r) = "}" /\ x = r + 1
        <5>1. /\ Line(s, n) \in Opens /\ r = RestOf(P, n + 1, "block")
              /\ r \in n + 1 .. Len(s) /\ Line(s, r) = "}" /\ x = r + 1
          BY <3>3 DEF IsBlock
        <5>2. n + 1 <= r /\ r \in Nat
          BY <1>1, <2>a, <5>1, InRange
        <5>3. r # 0
          BY <2>a, <5>2
        <5> QED BY <5>1, <5>3 DEF Opens
      <4>2. MatchedTo(s, n + 1, r)
        BY <2>0, <2>a, <4>1 DEF Matched
      <4>3. r \in 1 .. N - 1 /\ r \in Nat /\ r \in n + 1 .. N
        <5>1. r \in n + 1 .. Len(s)
          BY <4>1
        <5> QED BY <1>1, <2>a, <5>1
      <4>4. OE(s, n) \in Seq(Nat) /\ OE(s, n + 1) = Append(OE(s, n), n)
        BY <2>0, <4>1, OpenSteps
      <4>5. OE(s, r) = Append(OE(s, n), n)
        BY <4>2, <4>4 DEF MatchedTo
      <4>6. Append(OE(s, n), n) # <<>> /\ Front(Append(OE(s, n), n)) = OE(s, n)
        BY <2>0, <4>4, AppendFront
      <4>7. OE(s, x) = OE(s, n)
        <5>1. OE(s, r + 1) = Front(OE(s, r))
          BY <4>1, <4>3, <4>5, <4>6, OpenSteps
        <5> QED BY <4>1, <4>5, <4>6, <5>1
      <4>8. \A m \in n .. x - 1 : m = n \/ m = r \/ m \in n + 1 .. r - 1
        <5>1. x = r + 1
          BY <4>1
        <5> QED BY <2>a, <4>3, <5>1
      <4>9. \A m \in n + 1 .. r - 1 : Line(s, m) = "}" => OE(s, m) # <<>>
        BY <4>2 DEF MatchedTo
      <4>10. OE(s, r) # <<>>
        BY <4>5, <4>6
      <4> QED BY <4>1, <4>7, <4>8, <4>9, <4>10 DEF MatchedTo
    <3>4. CASE IsOwner(s, P, n, x)
      <4>1. x = Stmt(P, n + 1) /\ x # 0 /\ Line(s, n) \notin Opens \cup {"}"}
        <5>1. x = Stmt(P, n + 1) /\ Line(s, n) \in Owners /\ x \in n + 2 .. N
          BY <3>4 DEF IsOwner
        <5>2. x # 0
          BY <2>a, <5>1
        <5> QED BY <5>1, <5>2 DEF Owners, LoopKinds, Opens
      <4>2. MatchedTo(s, n + 1, x)
        BY <2>0, <2>a, <4>1 DEF Matched
      <4> QED BY <2>b, <3>1, <4>1, <4>2
    <3>5. ASSUME NEW e, IsIfElse(s, P, n, x, e) PROVE MatchedTo(s, n, x)
      <4>1. /\ Line(s, n) \notin Opens \cup {"}"} /\ e = Stmt(P, n + 1) /\ e \in n + 2 .. Len(s)
            /\ Line(s, e) \notin Opens \cup {"}"} /\ x = Stmt(P, e + 1) /\ x \in e + 2 .. N
        BY <3>5 DEF IsIfElse, Opens
      <4>2. e \in n + 1 .. N /\ e + 1 \in n + 1 .. N /\ e # 0 /\ x # 0 /\ e \in 1 .. N - 1
        <5>1. e \in n + 2 .. Len(s) /\ x \in e + 2 .. N
          BY <4>1
        <5> QED BY <1>1, <2>a, <5>1
      <4>3. MatchedTo(s, n + 1, e)
        BY <2>0, <2>a, <4>1, <4>2 DEF Matched
      <4>4. MatchedTo(s, n, e)
        BY <2>b, <4>1, <4>2, <4>3
      <4>5. MatchedTo(s, e + 1, x)
        BY <2>0, <4>1, <4>2 DEF Matched
      <4>6. MatchedTo(s, e, e + 1)
        <5>1. OE(s, e + 1) = OE(s, e)
          BY <4>1, <4>2, OpenSteps
        <5>2. e \in Nat
          BY <2>a, <4>2
        <5> QED BY <4>1, <5>1, <5>2, OneLine
      <4>7. e \in Nat /\ e + 1 \in Nat /\ x \in Nat /\ n <= e /\ e <= e + 1 /\ e + 1 <= x
        <5>1. e \in n + 2 .. Len(s) /\ x \in e + 2 .. N
          BY <4>1
        <5> QED BY <1>1, <2>a, <5>1
      <4>8. MatchedTo(s, e, x)
        BY <4>5, <4>6, <4>7, MatchedOn
      <4>9. e <= x
        BY <4>7
      <4> QED BY <2>0, <4>4, <4>7, <4>8, <4>9, MatchedOn
    <3> QED BY <3>1, <3>2, <3>3, <3>4, <3>5
  <2>2. ASSUME NEW r, r = RestOf(P, n, "block"), r # 0 PROVE MatchedTo(s, n, r)
    <3>1. /\ r \in n .. Len(s)
          /\ \/ Line(s, n) = "}" /\ r = n
             \/ \E x : IsNext(s, P, n, r, x)
      BY <2>0, <2>2, RestParts
    <3>2. CASE r = n
      <4>1. \A m \in n .. n - 1 : FALSE
        BY <2>0
      <4> QED BY <3>2, <4>1 DEF MatchedTo
    <3>3. ASSUME NEW x, IsNext(s, P, n, r, x) PROVE MatchedTo(s, n, r)
      <4>1. x = Stmt(P, n) /\ x # 0 /\ x \in n + 1 .. N /\ RestOf(P, x, "block") = r /\ r \in x .. Len(s)
        BY <3>3 DEF IsNext
      <4>2. MatchedTo(s, n, x) /\ MatchedTo(s, x, r)
        BY <2>0, <2>1, <2>2, <4>1 DEF Matched
      <4>3. x \in Nat /\ r \in Nat /\ n <= x /\ x <= r
        BY <1>1, <2>0, <4>1
      <4> QED BY <2>0, <4>2, <4>3, MatchedOn
    <3> QED BY <3>1, <3>2, <3>3
  <2>3. ASSUME RestOf(P, n, "all") = N PROVE MatchedTo(s, n, N)
    <3> DEFINE x == Stmt(P, n)
    <3>1. N = IF Line(s, n) = "}" THEN n ELSE IF x = 0 THEN 0 ELSE RestOf(P, x, "all")
      BY <2>3 DEF RestsIn
    <3>2. n # N /\ N # 0
      BY <1>1
    <3>3. x # 0 /\ RestOf(P, x, "all") = N
      <4> HIDE DEF x, N
      <4> QED BY <3>1, <3>2
    <3>4. x \in n + 1 .. N
      <4>1. x \in {0} \cup n + 1 .. N
        BY StatementAhead DEF Read
      <4> HIDE DEF x, N
      <4> QED BY <3>3, <4>1
    <3> HIDE DEF x
    <3>5. MatchedTo(s, n, x) /\ MatchedTo(s, x, N)
      <4>1. MatchedTo(s, n, x)
        BY <2>1, <3>3 DEF x
      <4> QED BY <2>0, <3>3, <3>4, <4>1 DEF Matched
    <3>6. x \in Nat /\ n <= x /\ x <= N
      BY <1>1, <2>0, <3>4
    <3> QED BY <1>1, <2>0, <3>5, <3>6, MatchedOn
  <2> QED BY <2>0, <2>1, <2>2, <2>3 DEF Matched
<1> HIDE DEF A, N
<1>4. \A n \in 1 .. N : n \in A
  BY <1>1, <1>2, <1>3, LinesUp
<1> QED BY <1>4 DEF A, N

\* PreparseIfElse reads to the end of the script exactly if the braces match.
LEMMA ReadMatches ==
  ASSUME NEW S, NEW s \in Seq(S), NEW p, NEW P, Unfolds(s, p, 0, TRUE, P), Ranges(s, P, 0),
         RestOf(P, 1, "all") = LastLine(s)
  PROVE  BracesOK(s)
<1> DEFINE N == LastLine(s)
<1>1. Len(s) \in Nat /\ N = Len(s) + 3 /\ N \in Nat /\ 1 \in 1 .. N
  BY ExitsAre
<1>2. MatchedTo(s, 1, N)
  <2>1. Matched(s, P, 1)
    BY <1>1, ReadIs, RestsInMode, BlocksMatch
  <2> QED BY <2>1 DEF Matched
<1>3. OE(s, N) = <<>>
  BY <1>2, OpenSteps DEF MatchedTo
<1>4. OE(s, N) = OpenBlocks(s)[Len(s) + 1]
  BY <1>1 DEF OE
<1>5. ASSUME NEW l \in 1 .. Len(s), s[l] = "}" PROVE OpenBlocks(s)[l] # <<>>
  <2>1. l \in 1 .. N - 1 /\ l <= Len(s) + 1
    BY <1>1
  <2>a. Line(s, l) = "}"
    BY <1>5 DEF Line
  <2>2. OE(s, l) = OpenBlocks(s)[l]
    BY <2>1 DEF OE
  <2>3. OE(s, l) # <<>>
    BY <1>2, <2>1, <2>a DEF MatchedTo
  <2> QED BY <2>2, <2>3
<1> QED BY <1>3, <1>4, <1>5 DEF BracesOK

-----------------------------------------------------------------------------
(* Breaks, Continues and jumps: PreparseIfElse fails at those it can reject. *)

\* Line m is in a loop that begins at line l or below it.
LoopIn(s, P, l, m) == \E h \in l .. m - 1 : Line(s, h) \in LoopKinds /\ m < Stmt(P, h)

\* It meets none from line l until it is at line x.
Clear(s, p, lab, dyn, P, l, x, b) ==
  \A m \in l .. x - 1 : ~Stops(s, p, lab, dyn, m, b \/ LoopIn(s, P, l, m))

NeverStops(s, m) == Line(s, m) \notin {"break", "continue"} \cup Jumps

LEMMA NoStop ==
  ASSUME NEW s, NEW m, NeverStops(s, m), NEW p, NEW lab, NEW dyn, NEW b
  PROVE  ~Stops(s, p, lab, dyn, m, b)
BY DEF NeverStops, Stops

\* What encloses a line beyond x begins at x or below it.
LEMMA LoopBeyond ==
  ASSUME NEW s, NEW P, NEW l \in Nat, NEW x \in Nat, l <= x, NEW m \in Nat, x <= m,
         \A h \in l .. x - 1 : Line(s, h) \in LoopKinds => Stmt(P, h) \in Nat /\ Stmt(P, h) <= x
  PROVE  LoopIn(s, P, l, m) <=> LoopIn(s, P, x, m)
<1>1. ASSUME NEW h \in l .. m - 1, Line(s, h) \in LoopKinds, m < Stmt(P, h)
      PROVE  h \in x .. m - 1
  <2>1. h \in l .. x - 1 \/ h \in x .. m - 1
    OBVIOUS
  <2>2. CASE h \in l .. x - 1
    <3>1. Stmt(P, h) \in Nat /\ Stmt(P, h) <= x
      BY <1>1, <2>2
    <3> QED BY <1>1, <3>1
  <2> QED BY <2>1, <2>2
<1>2. \A h \in x .. m - 1 : h \in l .. m - 1
  OBVIOUS
<1> QED BY <1>1, <1>2 DEF LoopIn

LEMMA ClearJoin ==
  ASSUME NEW s, NEW P, NEW l \in Nat, NEW x \in Nat, NEW y \in Nat, l <= x, x <= y,
         \A h \in l .. x - 1 : Line(s, h) \in LoopKinds => Stmt(P, h) \in Nat /\ Stmt(P, h) <= x,
         NEW p, NEW lab, NEW dyn, NEW b
  PROVE  Clear(s, p, lab, dyn, P, l, y, b) <=>
           Clear(s, p, lab, dyn, P, l, x, b) /\ Clear(s, p, lab, dyn, P, x, y, b)
<1> DEFINE St(m, c) == Stops(s, p, lab, dyn, m, c)
           In(k, m) == LoopIn(s, P, k, m)
<1>1. /\ \A m \in l .. y - 1 : m \in l .. x - 1 \/ m \in x .. y - 1
      /\ \A m \in l .. x - 1 : m \in l .. y - 1
      /\ \A m \in x .. y - 1 : m \in l .. y - 1
  OBVIOUS
<1>2. \A m \in x .. y - 1 : In(l, m) <=> In(x, m)
  <2> SUFFICES ASSUME NEW m \in x .. y - 1 PROVE In(l, m) <=> In(x, m)
    OBVIOUS
  <2>1. m \in Nat /\ x <= m
    OBVIOUS
  <2> QED BY <2>1, LoopBeyond
<1>3. \A m \in x .. y - 1 : St(m, b \/ In(l, m)) <=> St(m, b \/ In(x, m))
  BY <1>2 DEF Stops
<1>4. \A k, z : Clear(s, p, lab, dyn, P, k, z, b) <=> \A m \in k .. z - 1 : ~St(m, b \/ In(k, m))
  BY DEF Clear
<1> HIDE DEF St, In
<1> QED BY <1>1, <1>3, <1>4

\* A line that is no loop, and stops nothing, may be left out.
LEMMA ClearHead ==
  ASSUME NEW s, NEW P, NEW l \in Nat, NEW x \in Nat, l < x,
         NeverStops(s, l), Line(s, l) \notin LoopKinds, NEW p, NEW lab, NEW dyn, NEW b
  PROVE  Clear(s, p, lab, dyn, P, l, x, b) <=> Clear(s, p, lab, dyn, P, l + 1, x, b)
<1>1. l + 1 \in Nat /\ l <= l + 1 /\ l + 1 <= x
  OBVIOUS
<1>2. \A h \in l .. (l + 1) - 1 : h = l
  BY Alone
<1>3. Clear(s, p, lab, dyn, P, l, l + 1, b)
  BY <1>2, NoStop DEF Clear
<1>4. \A h \in l .. (l + 1) - 1 : Line(s, h) \in LoopKinds => Stmt(P, h) \in Nat /\ Stmt(P, h) <= l + 1
  BY <1>2
<1> QED BY <1>1, <1>3, <1>4, ClearJoin

\* So may one at the end.
LEMMA ClearTail ==
  ASSUME NEW s, NEW P, NEW l \in Nat, NEW x \in Nat, l <= x, NeverStops(s, x),
         NEW p, NEW lab, NEW dyn, NEW b
  PROVE  Clear(s, p, lab, dyn, P, l, x + 1, b) <=> Clear(s, p, lab, dyn, P, l, x, b)
<1>1. /\ \A m \in l .. (x + 1) - 1 : m \in l .. x - 1 \/ m = x
      /\ \A m \in l .. x - 1 : m \in l .. (x + 1) - 1
  OBVIOUS
<1>2. \A c : ~Stops(s, p, lab, dyn, x, c)
  BY NoStop
<1> QED BY <1>1, <1>2 DEF Clear

\* All of a loop is in the loop.
LEMMA ClearLoop ==
  ASSUME NEW s, NEW P, NEW l \in Nat, NEW x \in Nat, l < x, x = Stmt(P, l),
         NeverStops(s, l), Line(s, l) \in LoopKinds, NEW p, NEW lab, NEW dyn, NEW b
  PROVE  Clear(s, p, lab, dyn, P, l, x, b) <=> Clear(s, p, lab, dyn, P, l + 1, x, TRUE)
<1> DEFINE St(m, c) == Stops(s, p, lab, dyn, m, c)
<1>1. /\ \A m \in l .. x - 1 : m = l \/ m \in l + 1 .. x - 1
      /\ \A m \in l + 1 .. x - 1 : m \in l .. x - 1 /\ m < x /\ l \in l .. m - 1
  OBVIOUS
<1>2. \A m \in l + 1 .. x - 1 : LoopIn(s, P, l, m)
  BY <1>1 DEF LoopIn
<1>3. \A c : ~St(l, c)
  BY NoStop
<1>4. Clear(s, p, lab, dyn, P, l, x, b) <=> \A m \in l .. x - 1 : ~St(m, b \/ LoopIn(s, P, l, m))
  BY DEF Clear
<1>5. Clear(s, p, lab, dyn, P, l + 1, x, TRUE) <=> \A m \in l + 1 .. x - 1 : ~St(m, TRUE)
  BY DEF Clear, Stops
<1>6. \A m \in l + 1 .. x - 1 : St(m, b \/ LoopIn(s, P, l, m)) <=> St(m, TRUE)
  BY <1>2 DEF Stops
<1> HIDE DEF St
<1> QED BY <1>1, <1>3, <1>4, <1>5, <1>6

\* What PreparseIfElse returns from line l, or from a body there.
StrictOne(s, p, lab, dyn, P, F, l, b) ==
  F[<<l, "one", b>>] # 0 <=> Stmt(P, l) # 0 /\ Clear(s, p, lab, dyn, P, l, Stmt(P, l), b)
StrictRest(s, p, lab, dyn, P, F, l, mode, b) ==
  F[<<l, mode, b>>] # 0 <=>
    RestOf(P, l, mode) # 0 /\ Clear(s, p, lab, dyn, P, l, RestOf(P, l, mode), b)
StrictBody(s, p, lab, dyn, P, F, l, b) ==
  /\ BodyFrom(s, F, l, b) # 0 <=> Stmt(P, l) # 0 /\ Clear(s, p, lab, dyn, P, l, Stmt(P, l), b)
  /\ BodyFrom(s, F, l, b) # 0 => BodyFrom(s, F, l, b) = Stmt(P, l)
Strict(s, p, lab, dyn, P, F, l) ==
  \A b \in BOOLEAN : /\ StrictOne(s, p, lab, dyn, P, F, l, b)
                     /\ StrictRest(s, p, lab, dyn, P, F, l, "block", b)
                     /\ StrictRest(s, p, lab, dyn, P, F, l, "all", b)

\* The same script, read with and without regard to loops and labels.
BothRead(s, p, lab, dyn, P, F) ==
  /\ Unfolds(s, p, lab, dyn, F) /\ Ranges(s, F, 0) /\ Agrees(s, F, P, 1)
  /\ Unfolds(s, p, 0, TRUE, P) /\ Ranges(s, P, 0)
  /\ Read(s, P) /\ RestsIn(s, P, "all") /\ Rests(s, P)

LEMMA BodyStrict ==
  ASSUME NEW S, NEW s \in Seq(S), NEW p, NEW lab, NEW dyn, NEW P, NEW F,
         BothRead(s, p, lab, dyn, P, F),
         NEW l \in 1 .. LastLine(s) - 1, Strict(s, p, lab, dyn, P, F, l), NEW b \in BOOLEAN
  PROVE  StrictBody(s, p, lab, dyn, P, F, l, b)
<1>1. l \in 1 .. LastLine(s)
  BY LineNumber
<1>2. AgreesAt(F, P, l)
  BY <1>1 DEF BothRead, Agrees
<1>3. F[<<l, "one", b>>] # 0 => Stmt(P, l) = F[<<l, "one", b>>]
  BY <1>2 DEF AgreesAt, ParseModes, Stmt
<1>4. StrictOne(s, p, lab, dyn, P, F, l, b)
  BY DEF Strict
<1>5. Line(s, l) \in {"else", "}"} => Stmt(P, l) = 0
  BY DEF BothRead, Read, Statements
<1> QED BY <1>3, <1>4, <1>5 DEF StrictBody, StrictOne, BodyFrom

\* Naturals and order, for the parts of a statement.
LEMMA StatementNat ==
  ASSUME NEW S, NEW s \in Seq(S), NEW P, Read(s, P), NEW l \in 1 .. LastLine(s)
  PROVE  Stmt(P, l) \in Nat /\ (Stmt(P, l) # 0 => Stmt(P, l) \in l + 1 .. LastLine(s) /\ l < Stmt(P, l))
<1>1. LastLine(s) \in Nat /\ l \in Nat /\ Stmt(P, LastLine(s)) = 0
  BY Extent DEF Read
<1>2. CASE l \in 1 .. LastLine(s) - 1
  <2>1. Stmt(P, l) \in {0} \cup l + 1 .. LastLine(s)
    BY <1>2, StatementAhead DEF Read
  <2> QED BY <1>1, <2>1
<1>3. CASE l = LastLine(s)
  BY <1>1, <1>3
<1>4. l \in 1 .. LastLine(s) - 1 \/ l = LastLine(s)
  BY <1>1
<1> QED BY <1>2, <1>3, <1>4

\* The loops in a statement, or in the rest of a block, end within it.
LEMMA LoopsWithin ==
  ASSUME NEW S, NEW s \in Seq(S), NEW P, Read(s, P), NEW l \in 1 .. LastLine(s),
         NEW x, x = Stmt(P, l), x # 0
  PROVE  \A h \in l .. x - 1 : Line(s, h) \in LoopKinds => Stmt(P, h) \in Nat /\ Stmt(P, h) <= x
<1>1. InnerTo(P, l, x)
  BY InnerStatements DEF Inner
<1>2. x \in l + 1 .. LastLine(s) /\ LastLine(s) \in Nat
  BY StatementNat, Extent
<1>3. \A h \in l .. x - 1 : h \in 1 .. LastLine(s)
  BY <1>2
<1>4. \A h \in l .. x - 1 : Stmt(P, h) \in Nat
  BY <1>3, StatementNat
<1> QED BY <1>1, <1>4 DEF InnerTo

LEMMA HeadsPass ==
  ASSUME NEW s, NEW l
  PROVE  /\ Line(s, l) \in Owners \cup Opens \cup {"else", "}", "exit"} => NeverStops(s, l)
         /\ Line(s, l) \in Opens \cup {"if", "else"} => Line(s, l) \notin LoopKinds
         /\ Line(s, l) \in Owners => Line(s, l) = "if" \/ Line(s, l) \in LoopKinds
         /\ Line(s, l) \in Owners => Line(s, l) \notin Opens \cup {"else", "}", "exit"}
         /\ Line(s, l) = "if" => Line(s, l) \in Owners /\ Line(s, l) \notin LoopKinds
BY DEF NeverStops, Owners, LoopKinds, Opens, Jumps

\* One statement: a block, ...
LEMMA StrictBlock ==
  ASSUME NEW S, NEW s \in Seq(S), NEW p, NEW lab, NEW dyn, NEW P, NEW F,
         BothRead(s, p, lab, dyn, P, F), NEW l \in 1 .. LastLine(s) - 1, Line(s, l) \in Opens,
         \A m \in l + 1 .. LastLine(s) : Strict(s, p, lab, dyn, P, F, m), NEW b \in BOOLEAN
  PROVE  StrictOne(s, p, lab, dyn, P, F, l, b)
<1> DEFINE C(k, x) == Clear(s, p, lab, dyn, P, k, x, b)
           r == RestOf(P, l + 1, "block")
           e == F[<<l + 1, "block", b>>]
<1>1. l \in Nat /\ l + 1 \in Nat /\ l + 1 \in l + 1 .. LastLine(s) /\ l + 1 \in 1 .. LastLine(s)
  <2>1. LastLine(s) \in Nat
    BY Extent
  <2>2. l \in Nat /\ l + 1 \in Nat /\ l <= LastLine(s) - 1
    BY <2>1, LineNumber
  <2> QED BY <2>1, <2>2, LineNumber
<1>2. e # 0 <=> r # 0 /\ C(l + 1, r)
  <2>1. Strict(s, p, lab, dyn, P, F, l + 1)
    BY <1>1
  <2> QED BY <2>1 DEF Strict, StrictRest
<1>3. e # 0 => e = r
  <2>1. AgreesAt(F, P, l + 1)
    BY <1>1 DEF BothRead, Agrees
  <2> QED BY <2>1 DEF AgreesAt, ParseModes, RestOf
<1>4. F[<<l, "one", b>>] = IF e = 0 THEN 0 ELSE e + 1
  <2>1. StepIs(s, p, lab, dyn, F, l, "one", b, F[<<l, "one", b>>])
    BY DEF BothRead, Unfolds, ParseModes
  <2> QED BY <2>1 DEF StepIs, BlockStep, Onward
<1>5. Stmt(P, l) = IF r = 0 THEN 0 ELSE r + 1
  BY DEF BothRead, Read, Statements
<1>6. r # 0 => r \in Nat /\ l + 1 <= r /\ Line(s, r) = "}" /\ r + 1 # 0
  <2>1. r \in {0} \cup l + 1 .. Len(s)
    BY <1>1, StatementRange DEF BothRead
  <2>2. RestEnds(s, P, l + 1)
    BY <1>1, RestsEnd DEF BothRead
  <2>3. Len(s) \in Nat
    OBVIOUS
  <2>4. r # 0 => r \in l + 1 .. Len(s)
    BY <2>1
  <2>5. r # 0 => r \in Nat /\ l + 1 <= r
    BY <1>1, <2>3, <2>4, InRange
  <2>6. r # 0 => r + 1 # 0
    BY <2>5
  <2> QED BY <2>2, <2>5, <2>6 DEF RestEnds
<1>7. r # 0 => (C(l, r + 1) <=> C(l + 1, r))
  <2> SUFFICES ASSUME r # 0 PROVE C(l, r + 1) <=> C(l + 1, r)
    OBVIOUS
  <2>1. r \in Nat /\ l + 1 <= r /\ Line(s, r) = "}"
    BY <1>6
  <2> HIDE DEF r
  <2>2. l < r /\ l <= r
    BY <1>1, <2>1, Ahead
  <2>a. NeverStops(s, r) /\ NeverStops(s, l) /\ Line(s, l) \notin LoopKinds
    BY <2>1, HeadsPass
  <2>3. C(l, r + 1) <=> C(l, r)
    BY <1>1, <2>1, <2>2, <2>a, ClearTail
  <2>4. C(l, r) <=> C(l + 1, r)
    BY <1>1, <2>1, <2>2, <2>a, ClearHead
  <2> QED BY <2>3, <2>4
<1> HIDE DEF C, r, e
<1>8. F[<<l, "one", b>>] # 0 <=> Stmt(P, l) # 0 /\ C(l, Stmt(P, l))
  BY <1>2, <1>3, <1>4, <1>5, <1>6, <1>7
<1> QED BY <1>8 DEF StrictOne, C

\* ... a loop, ...
LEMMA StrictLoop ==
  ASSUME NEW S, NEW s \in Seq(S), NEW p, NEW lab, NEW dyn, NEW P, NEW F,
         BothRead(s, p, lab, dyn, P, F), NEW l \in 1 .. LastLine(s) - 1, Line(s, l) \in LoopKinds,
         \A m \in l + 1 .. LastLine(s) : Strict(s, p, lab, dyn, P, F, m), NEW b \in BOOLEAN
  PROVE  StrictOne(s, p, lab, dyn, P, F, l, b)
<1> DEFINE e == BodyFrom(s, F, l + 1, TRUE)
           x == Stmt(P, l + 1)
<1>1. /\ Line(s, l) \in Owners /\ Line(s, l) # "if" /\ NeverStops(s, l)
      /\ Line(s, l) # "exit"
  BY HeadsPass DEF Owners, LoopKinds
<1>2. l \in 1 .. Len(s)
  <2>1. l \in Nat
    BY LineNumber
  <2> QED BY <1>1, <2>1, LineKinds
<1>3. l \in Nat /\ l + 1 \in 1 .. LastLine(s) - 1 /\ l + 1 \in l + 1 .. LastLine(s)
      /\ l \in 1 .. LastLine(s)
  <2>1. Len(s) \in Nat /\ LastLine(s) = Len(s) + 3
    BY Extent
  <2> QED BY <1>2, <2>1
<1>4. StrictBody(s, p, lab, dyn, P, F, l + 1, TRUE)
  <2>1. Strict(s, p, lab, dyn, P, F, l + 1)
    BY <1>3
  <2> QED BY <1>3, <2>1, BodyStrict
<1>5. F[<<l, "one", b>>] = e
  <2>1. StepIs(s, p, lab, dyn, F, l, "one", b, F[<<l, "one", b>>])
    BY DEF BothRead, Unfolds, ParseModes
  <2>2. F[<<l, "one", b>>] = OwnerStep(s, F, l, "one", b)
    BY <1>1, <2>1 DEF StepIs
  <2>3. BodyFrom(s, F, l + 1, b \/ Line(s, l) \in LoopKinds) = e
    <3>1. (b \/ Line(s, l) \in LoopKinds) = TRUE
      OBVIOUS
    <3> QED BY <3>1
  <2> HIDE DEF e
  <2> QED BY <2>2, <2>3 DEF OwnerStep, Onward
<1>6. Stmt(P, l) = x
  BY <1>1 DEF BothRead, Read, Statements
<1>7. x # 0 => (Clear(s, p, lab, dyn, P, l, x, b) <=> Clear(s, p, lab, dyn, P, l + 1, x, TRUE))
  <2> SUFFICES ASSUME x # 0
               PROVE  Clear(s, p, lab, dyn, P, l, x, b) <=> Clear(s, p, lab, dyn, P, l + 1, x, TRUE)
    OBVIOUS
  <2>1. Stmt(P, l) \in Nat /\ l < Stmt(P, l)
    BY <1>3, <1>6, StatementNat DEF BothRead
  <2> HIDE DEF x
  <2> QED BY <1>1, <1>3, <1>6, <2>1, ClearLoop
<1> HIDE DEF e, x
<1> QED BY <1>4, <1>5, <1>6, <1>7 DEF StrictBody, StrictOne, e, x

\* ... an IF with or without its ELSE, ...
LEMMA StrictIf ==
  ASSUME NEW S, NEW s \in Seq(S), NEW p, NEW lab, NEW dyn, NEW P, NEW F,
         BothRead(s, p, lab, dyn, P, F), NEW l \in 1 .. LastLine(s) - 1, Line(s, l) = "if",
         \A m \in l + 1 .. LastLine(s) : Strict(s, p, lab, dyn, P, F, m), NEW b \in BOOLEAN
  PROVE  StrictOne(s, p, lab, dyn, P, F, l, b)
<1> DEFINE C(k, x) == Clear(s, p, lab, dyn, P, k, x, b)
           e == BodyFrom(s, F, l + 1, b)
           y == Stmt(P, l + 1)
           d == BodyFrom(s, F, y + 1, b)
           x == Stmt(P, y + 1)
<1>1. /\ Line(s, l) \in Owners /\ Line(s, l) \notin LoopKinds /\ NeverStops(s, l)
      /\ Line(s, l) # "exit"
  BY HeadsPass DEF Owners, LoopKinds
<1>2. l \in 1 .. Len(s)
  <2>1. l \in Nat
    BY LineNumber
  <2> QED BY <1>1, <2>1, LineKinds
<1>3. l \in Nat /\ l + 1 \in Nat /\ l + 1 \in 1 .. LastLine(s) - 1 /\ l + 1 \in l + 1 .. LastLine(s)
      /\ l \in 1 .. LastLine(s) /\ l + 1 \in 1 .. LastLine(s)
  <2>1. Len(s) \in Nat /\ LastLine(s) = Len(s) + 3
    BY Extent
  <2> QED BY <1>2, <2>1
<1>4. StrictBody(s, p, lab, dyn, P, F, l + 1, b)
  <2>1. Strict(s, p, lab, dyn, P, F, l + 1)
    BY <1>3
  <2> QED BY <1>3, <2>1, BodyStrict
<1>5. F[<<l, "one", b>>] = IF e = 0 THEN 0
                           ELSE IF Line(s, e) # "else" THEN e ELSE BodyFrom(s, F, e + 1, b)
  <2>1. StepIs(s, p, lab, dyn, F, l, "one", b, F[<<l, "one", b>>])
    BY DEF BothRead, Unfolds, ParseModes
  <2>2. F[<<l, "one", b>>] = OwnerStep(s, F, l, "one", b)
    BY <1>1, <2>1 DEF StepIs
  <2>3. BodyFrom(s, F, l + 1, b \/ Line(s, l) \in LoopKinds) = e
    <3>1. (b \/ Line(s, l) \in LoopKinds) = b
      BY <1>1
    <3> QED BY <3>1
  <2> HIDE DEF e
  <2> QED BY <1>1, <2>2, <2>3 DEF OwnerStep, Onward
<1>6. Stmt(P, l) = IF y # 0 /\ Line(s, y) = "else" THEN x ELSE y
  BY <1>1 DEF BothRead, Read, Statements
<1>7. (e # 0 <=> y # 0 /\ C(l + 1, y)) /\ (e # 0 => e = y)
  BY <1>4 DEF StrictBody
<1>8. y # 0 => y \in Nat /\ l + 1 < y /\ l < y /\ y \in 1 .. LastLine(s)
  <2>1. y # 0 => y \in (l + 1) + 1 .. LastLine(s)
    BY <1>3, StatementNat DEF BothRead
  <2> HIDE DEF y
  <2>2. LastLine(s) \in Nat
    BY Extent
  <2> QED BY <1>3, <2>1, <2>2
<1>9. y # 0 => (C(l, y) <=> C(l + 1, y))
  <2> HIDE DEF y
  <2> QED BY <1>1, <1>3, <1>8, ClearHead
<1>10. CASE y = 0
  <2> HIDE DEF C, e, y, x, d
  <2> QED BY <1>5, <1>6, <1>7, <1>10 DEF StrictOne
<1>11. CASE y # 0 /\ Line(s, y) # "else"
  <2>1. Stmt(P, l) = y
    BY <1>6, <1>11
  <2>2. StrictOne(s, p, lab, dyn, P, F, l, b) <=> (F[<<l, "one", b>>] # 0 <=> y # 0 /\ C(l, y))
    BY <2>1 DEF StrictOne
  <2> HIDE DEF C, e, y, x, d
  <2> QED BY <1>5, <1>7, <1>9, <1>11, <2>2
<1>12. CASE y # 0 /\ Line(s, y) = "else"
  <2>1. Stmt(P, l) = x
    BY <1>6, <1>12
  <2>2. StrictOne(s, p, lab, dyn, P, F, l, b) <=> (F[<<l, "one", b>>] # 0 <=> x # 0 /\ C(l, x))
    BY <2>1 DEF StrictOne
  <2>3. /\ y \in Nat /\ y + 1 \in Nat /\ y + 1 \in 1 .. LastLine(s) - 1 /\ y + 1 \in l + 1 .. LastLine(s)
        /\ y + 1 \in 1 .. LastLine(s)
    <3>1. Len(s) \in Nat /\ LastLine(s) = Len(s) + 3
      BY Extent
    <3>2. Line(s, y) # "exit" /\ y \in Nat /\ l < y
      BY <1>8, <1>12
    <3> HIDE DEF y
    <3>3. y \in 1 .. Len(s)
      BY <3>2, LineKinds
    <3> QED BY <1>3, <3>1, <3>2, <3>3
  <2>4. StrictBody(s, p, lab, dyn, P, F, y + 1, b)
    <3> HIDE DEF y
    <3>1. Strict(s, p, lab, dyn, P, F, y + 1)
      BY <2>3
    <3> QED BY <2>3, <3>1, BodyStrict
  <2>5. d # 0 <=> x # 0 /\ C(y + 1, x)
    BY <2>4 DEF StrictBody
  <2>6. x # 0 => x \in Nat /\ y + 1 < x /\ y < x /\ y <= x /\ l < x /\ l + 1 <= x
    <3>1. x # 0 => x \in (y + 1) + 1 .. LastLine(s)
      <4> HIDE DEF y
      <4> QED BY <2>3, StatementNat DEF BothRead
    <3>2. LastLine(s) \in Nat
      BY Extent
    <3>3. l < y
      BY <1>8, <1>12
    <3> HIDE DEF x, y
    <3>4. x # 0 => x \in Nat /\ y + 2 <= x
      BY <2>3, <3>1, <3>2
    <3> QED BY <1>3, <2>3, <3>3, <3>4
  <2>7. x # 0 => (C(l, x) <=> C(l + 1, y) /\ C(y + 1, x))
    <3> SUFFICES ASSUME x # 0 PROVE C(l, x) <=> C(l + 1, y) /\ C(y + 1, x)
      OBVIOUS
    <3>1. \A h \in l + 1 .. y - 1 : Line(s, h) \in LoopKinds => Stmt(P, h) \in Nat /\ Stmt(P, h) <= y
      BY <1>3, <1>12, LoopsWithin DEF BothRead
    <3>2. NeverStops(s, y) /\ Line(s, y) \notin LoopKinds
      BY <1>12, HeadsPass
    <3>3. y \in Nat /\ l + 1 <= y
      <4>1. y \in Nat /\ l + 1 < y
        BY <1>8, <1>12
      <4> HIDE DEF y
      <4> QED BY <1>3, <4>1
    <3>4. x \in Nat /\ y < x /\ y <= x /\ l < x
      BY <2>6
    <3> HIDE DEF x, y
    <3>5. C(l, x) <=> C(l + 1, x)
      BY <1>1, <1>3, <3>4, ClearHead
    <3>6. C(l + 1, x) <=> C(l + 1, y) /\ C(y, x)
      BY <1>3, <3>1, <3>3, <3>4, ClearJoin
    <3>7. C(y, x) <=> C(y + 1, x)
      BY <3>2, <3>3, <3>4, ClearHead
    <3> HIDE DEF C
    <3> QED BY <3>5, <3>6, <3>7
  <2>8. e # 0 => BodyFrom(s, F, e + 1, b) = d
    BY <1>7
  <2> HIDE DEF C, e, y, x, d
  <2> QED BY <1>5, <1>7, <1>12, <2>2, <2>5, <2>7, <2>8
<1> QED BY <1>10, <1>11, <1>12

\* ... or any other line.
LEMMA StrictLine ==
  ASSUME NEW S, NEW s \in Seq(S), NEW p, NEW lab, NEW dyn, NEW P, NEW F,
         BothRead(s, p, lab, dyn, P, F), NEW l \in 1 .. LastLine(s) - 1,
         \A m \in l + 1 .. LastLine(s) : Strict(s, p, lab, dyn, P, F, m), NEW b \in BOOLEAN
  PROVE  StrictOne(s, p, lab, dyn, P, F, l, b)
<1>1. l \in Nat /\ l + 1 # 0
  BY LineNumber
<1>2. StepIs(s, p, lab, dyn, F, l, "one", b, F[<<l, "one", b>>])
  BY DEF BothRead, Unfolds, ParseModes
<1>3. CASE Line(s, l) \in {"}", "else"}
  <2>1. F[<<l, "one", b>>] = 0
    BY <1>2, <1>3 DEF StepIs
  <2>2. Stmt(P, l) = 0
    BY <1>3 DEF BothRead, Read, Statements
  <2> QED BY <2>1, <2>2 DEF StrictOne
<1>4. CASE Simple(s, l)
  <2>1. F[<<l, "one", b>>] = IF Stops(s, p, lab, dyn, l, b) THEN 0 ELSE l + 1
    BY <1>2, <1>4 DEF StepIs, Onward
  <2>2. Stmt(P, l) = l + 1
    BY <1>4 DEF BothRead, Read, Statements
  <2>3. Clear(s, p, lab, dyn, P, l, l + 1, b) <=> ~Stops(s, p, lab, dyn, l, b)
    <3>1. l \in l .. (l + 1) - 1 /\ \A m \in l .. (l + 1) - 1 : m = l
      BY <1>1
    <3>2. ~LoopIn(s, P, l, l)
      <4>1. \A h \in l .. l - 1 : FALSE
        BY <1>1
      <4> QED BY <4>1 DEF LoopIn
    <3>3. Stops(s, p, lab, dyn, l, b \/ LoopIn(s, P, l, l)) <=> Stops(s, p, lab, dyn, l, b)
      BY <3>2 DEF Stops
    <3> QED BY <3>1, <3>3 DEF Clear
  <2> QED BY <1>1, <2>1, <2>2, <2>3 DEF StrictOne
<1>5. Simple(s, l) \/ Line(s, l) \in Owners \cup Opens \cup {"}", "else"}
  BY DEF Simple
<1>6. Line(s, l) \in Owners => Line(s, l) = "if" \/ Line(s, l) \in LoopKinds
  BY HeadsPass
<1>7. CASE Line(s, l) \in Opens
  BY <1>7, StrictBlock
<1>8. CASE Line(s, l) \in LoopKinds
  BY <1>8, StrictLoop
<1>9. CASE Line(s, l) = "if"
  BY <1>9, StrictIf
<1> QED BY <1>3, <1>4, <1>5, <1>6, <1>7, <1>8, <1>9

\* The rest of a block or of the script.
LEMMA StrictRests ==
  ASSUME NEW S, NEW s \in Seq(S), NEW p, NEW lab, NEW dyn, NEW P, NEW F,
         BothRead(s, p, lab, dyn, P, F), NEW l \in 1 .. LastLine(s) - 1,
         \A m \in l + 1 .. LastLine(s) : Strict(s, p, lab, dyn, P, F, m),
         NEW mode \in {"block", "all"}, NEW b \in BOOLEAN
  PROVE  StrictRest(s, p, lab, dyn, P, F, l, mode, b)
<1> DEFINE C(k, z) == Clear(s, p, lab, dyn, P, k, z, b)
           x == Stmt(P, l)
           r == RestOf(P, x, mode)
           o == F[<<l, "one", b>>]
<1>1. l \in Nat /\ l # 0 /\ l \in 1 .. LastLine(s)
  BY LineNumber
<1>2. RestOf(P, l, mode) = IF Line(s, l) = "}" THEN l ELSE IF x = 0 THEN 0 ELSE r
  BY DEF BothRead, Rests, RestsIn
<1>3. CASE Line(s, l) = "}"
  <2>1. StepIs(s, p, lab, dyn, F, l, mode, b, F[<<l, mode, b>>])
    BY DEF BothRead, Unfolds, ParseModes
  <2>2. F[<<l, mode, b>>] = l
    BY <1>3, <2>1 DEF StepIs
  <2>3. RestOf(P, l, mode) = l
    BY <1>2, <1>3
  <2>4. \A m \in l .. l - 1 : FALSE
    BY <1>1
  <2>5. Clear(s, p, lab, dyn, P, l, l, b)
    BY <2>4 DEF Clear
  <2> QED BY <1>1, <2>2, <2>3, <2>5 DEF StrictRest
<1>4. CASE Line(s, l) # "}"
  <2>1. F[<<l, mode, b>>] = F[<<o, mode, b>>]
    <3>1. ReadsOn(F, l, mode, b)
      BY <1>4, NextInMode DEF BothRead
    <3> QED BY <3>1 DEF ReadsOn
  <2>2. o # 0 <=> x # 0 /\ C(l, x)
    <3>1. StrictOne(s, p, lab, dyn, P, F, l, b)
      BY StrictLine
    <3> QED BY <3>1 DEF StrictOne
  <2>3. o # 0 => o = x
    <3>1. AgreesAt(F, P, l)
      BY <1>1 DEF BothRead, Agrees
    <3> QED BY <3>1 DEF AgreesAt, ParseModes, Stmt
  <2>4. F[<<0, mode, b>>] = 0
    BY DEF BothRead, Unfolds, ParseModes
  <2>5. RestOf(P, l, mode) = IF x = 0 THEN 0 ELSE r
    BY <1>2, <1>4
  <2>6. StrictRest(s, p, lab, dyn, P, F, l, mode, b) <=>
          (F[<<l, mode, b>>] # 0 <=> RestOf(P, l, mode) # 0 /\ C(l, RestOf(P, l, mode)))
    BY DEF StrictRest
  <2>7. CASE x = 0
    <3> HIDE DEF C, x, r, o
    <3> QED BY <2>1, <2>2, <2>4, <2>5, <2>6, <2>7
  <2>8. CASE x # 0
    <3>1. x \in l + 1 .. LastLine(s) /\ x \in Nat /\ l < x /\ x \in 1 .. LastLine(s)
      <4>1. x \in l + 1 .. LastLine(s) /\ x \in Nat /\ l < x
        BY <1>1, <2>8, StatementNat DEF BothRead
      <4>2. LastLine(s) \in Nat
        BY Extent
      <4> HIDE DEF x
      <4> QED BY <1>1, <4>1, <4>2
    <3>2. F[<<x, mode, b>>] # 0 <=> r # 0 /\ C(x, r)
      <4>1. Strict(s, p, lab, dyn, P, F, x)
        BY <3>1
      <4> HIDE DEF x
      <4> QED BY <4>1 DEF Strict, StrictRest, r
    <3>3. r # 0 => (C(l, r) <=> C(l, x) /\ C(x, r))
      <4> SUFFICES ASSUME r # 0 PROVE C(l, r) <=> C(l, x) /\ C(x, r)
        OBVIOUS
      <4>1. \A h \in l .. x - 1 : Line(s, h) \in LoopKinds => Stmt(P, h) \in Nat /\ Stmt(P, h) <= x
        BY <1>1, <2>8, LoopsWithin DEF BothRead
      <4>2. r \in {0} \cup x .. LastLine(s) /\ LastLine(s) \in Nat
        <5>1. r \in ParseRange(s, x, mode)
          <6>1. x \in 0 .. LastLine(s)
            <7>1. \A m \in 1 .. LastLine(s) : m \in 0 .. LastLine(s)
              BY Extent
            <7> HIDE DEF x
            <7> QED BY <3>1, <7>1
          <6> HIDE DEF x
          <6> QED BY <6>1 DEF BothRead, Ranges, ParseModes, r, RestOf
        <5> HIDE DEF r, x
        <5> QED BY <5>1, Extent DEF ParseRange
      <4> HIDE DEF r, x
      <4>3. r \in x .. LastLine(s)
        BY <4>2
      <4>4. r \in Nat /\ x <= r
        BY <3>1, <4>2, <4>3, InRange
      <4>5. l <= x
        BY <1>1, <3>1
      <4> QED BY <1>1, <3>1, <4>1, <4>4, <4>5, ClearJoin
    <3> HIDE DEF C, x, r, o
    <3> QED BY <2>1, <2>2, <2>3, <2>4, <2>5, <2>6, <2>8, <3>2, <3>3
  <2> QED BY <2>7, <2>8
<1> QED BY <1>3, <1>4

LEMMA ReadStrictly ==
  ASSUME NEW S, NEW s \in Seq(S), NEW p, NEW lab, NEW dyn, NEW P, NEW F,
         BothRead(s, p, lab, dyn, P, F)
  PROVE  \A l \in 1 .. LastLine(s) : Strict(s, p, lab, dyn, P, F, l)
<1> DEFINE N == LastLine(s)
           A == {l \in 1 .. N : Strict(s, p, lab, dyn, P, F, l)}
<1>1. N \in Nat /\ N >= 1 /\ N # 0 /\ N \in 1 .. N
  BY Extent
<1>2. N \in A
  <2>1. ASSUME NEW b \in BOOLEAN, NEW mode \in ParseModes
        PROVE  /\ F[<<N, mode, b>>] = IF mode = "all" THEN N ELSE 0
               /\ P[<<N, mode, TRUE>>] = IF mode = "all" THEN N ELSE 0
    BY DEF BothRead, Unfolds
  <2>2. \A m \in N .. N - 1 : FALSE
    BY <1>1
  <2>3. \A b : Clear(s, p, lab, dyn, P, N, N, b)
    <3> HIDE DEF N
    <3> QED BY <2>2 DEF Clear
  <2> HIDE DEF N
  <2>4. ASSUME NEW b \in BOOLEAN
        PROVE  /\ StrictOne(s, p, lab, dyn, P, F, N, b)
               /\ StrictRest(s, p, lab, dyn, P, F, N, "block", b)
               /\ StrictRest(s, p, lab, dyn, P, F, N, "all", b)
    <3>1. StrictOne(s, p, lab, dyn, P, F, N, b)
      BY <2>1 DEF StrictOne, Stmt, ParseModes
    <3>2. StrictRest(s, p, lab, dyn, P, F, N, "block", b)
      BY <2>1 DEF StrictRest, RestOf, ParseModes
    <3>3. F[<<N, "all", b>>] = N /\ RestOf(P, N, "all") = N
      BY <2>1 DEF RestOf, ParseModes
    <3>4. StrictRest(s, p, lab, dyn, P, F, N, "all", b)
      BY <1>1, <2>3, <3>3 DEF StrictRest
    <3> QED BY <3>1, <3>2, <3>4
  <2>5. Strict(s, p, lab, dyn, P, F, N)
    BY <2>4 DEF Strict
  <2> QED BY <1>1, <2>5
<1>3. ASSUME NEW n \in 1 .. N - 1, \A m \in n + 1 .. N : m \in A PROVE n \in A
  <2>1. \A m \in n + 1 .. N : Strict(s, p, lab, dyn, P, F, m)
    BY <1>3
  <2>2. n \in 1 .. N
    BY <1>1
  <2>3. ASSUME NEW b \in BOOLEAN
        PROVE  /\ StrictOne(s, p, lab, dyn, P, F, n, b)
               /\ StrictRest(s, p, lab, dyn, P, F, n, "block", b)
               /\ StrictRest(s, p, lab, dyn, P, F, n, "all", b)
    BY <2>1, StrictLine, StrictRests
  <2> QED BY <2>2, <2>3 DEF Strict
<1> HIDE DEF A, N
<1>4. \A n \in 1 .. N : n \in A
  BY <1>1, <1>2, <1>3, LinesUp
<1> QED BY <1>4 DEF A, N

-----------------------------------------------------------------------------
(* What is accepted is what is well formed.                                *)

LoopsAt(s, P) ==
  \A l \in 1 .. Len(s) : s[l] \in {"break", "continue"} =>
    \E h \in AroundIn(s, P, l) : Line(s, h) \in LoopKinds
JumpsAt(s, p, lab, dyn) == \A l \in 1 .. Len(s) : s[l] \in Jumps => JumpOK(p, lab, dyn, l)

LEMMA ClearIs ==
  ASSUME NEW S, NEW s \in Seq(S), NEW p, NEW lab, NEW dyn, NEW P, Read(s, P)
  PROVE  Clear(s, p, lab, dyn, P, 1, LastLine(s), FALSE) <=> LoopsAt(s, P) /\ JumpsAt(s, p, lab, dyn)
<1> DEFINE N == LastLine(s)
           St(m) == Stops(s, p, lab, dyn, m, LoopIn(s, P, 1, m))
<1>1. Len(s) \in Nat /\ N = Len(s) + 3 /\ N \in Nat
  BY Extent
<1>2. Clear(s, p, lab, dyn, P, 1, N, FALSE) <=> \A m \in 1 .. N - 1 : ~St(m)
  BY DEF Clear, Stops
<1>3. ASSUME NEW m \in 1 .. Len(s)
      PROVE  LoopIn(s, P, 1, m) <=> \E h \in AroundIn(s, P, m) : Line(s, h) \in LoopKinds
  <2>1. \A h \in 1 .. m - 1 : h \in 1 .. N - 1
    BY <1>1
  <2>2. \A h \in 1 .. m - 1 : Line(s, h) \in LoopKinds =>
          Line(s, h) \in OwnersAndElse /\ Line(s, h) \notin Opens /\ Stmt(P, h) = Stmt(P, h + 1)
    <3> SUFFICES ASSUME NEW h \in 1 .. m - 1, Line(s, h) \in LoopKinds
                 PROVE  Line(s, h) \in OwnersAndElse /\ Line(s, h) \notin Opens
                        /\ Stmt(P, h) = Stmt(P, h + 1)
      OBVIOUS
    <3>1. Line(s, h) \in Owners /\ Line(s, h) # "if" /\ Line(s, h) \notin Opens
      BY DEF Owners, LoopKinds, Opens
    <3> QED BY <2>1, <3>1 DEF OwnersAndElse, Read, Statements
  <2> QED BY <2>2 DEF LoopIn, AroundIn
<1>4. ASSUME NEW m \in 1 .. Len(s)
      PROVE  ~St(m) <=> /\ s[m] \in {"break", "continue"} =>
                             \E h \in AroundIn(s, P, m) : Line(s, h) \in LoopKinds
                        /\ s[m] \in Jumps => JumpOK(p, lab, dyn, m)
  <2>1. Line(s, m) = s[m]
    BY DEF Line
  <2> QED BY <1>3, <2>1 DEF Stops
<1>5. ASSUME NEW m \in 1 .. N - 1, m \notin 1 .. Len(s) PROVE ~St(m)
  <2>1. Line(s, m) = "exit"
    BY <1>5 DEF Line
  <2>2. NeverStops(s, m)
    BY <2>1, HeadsPass
  <2> QED BY <2>2, NoStop
<1>6. \A m \in 1 .. Len(s) : m \in 1 .. N - 1
  BY Extent
<1> HIDE DEF St, N
<1> QED BY <1>2, <1>4, <1>5, <1>6 DEF LoopsAt, JumpsAt, N

TextAt(s, K) == {l \in 1 .. Len(s) : Text!Exits(s)[l] \in K}

LEMMA TextParts ==
  ASSUME NEW s, NEW lab, NEW dyn
  PROVE  Text!WellFormed(s, lab, dyn) <=>
           /\ IsList(s)
           /\ \A l \in TextAt(s, {"break", "continue"}) :
                \E h \in Text!Around(s, l) : Text!Exits(s)[h] \in Text!LoopKinds
           /\ TextAt(s, {"call"}) # {} => TextAt(s, {"func{"}) # {}
           /\ \A l \in TextAt(s, Text!Opens) :
                Text!Depth(s, l) <= MaxNesting
           /\ \A l, m \in TextAt(s, {"func{"}), h \in 1 .. Len(s) :
                l < m /\ h \in Text!Around(s, l) \cup {l} /\ Text!Exits(s)[h] \in Text!Opens
                  => Text!After(s)[h] <= m
           /\ lab # 0 => Text!Exits(s)[lab] \notin {"else", "}", "func{"}
           /\ ~dyn => \A l \in TextAt(s, Text!Jumps) : lab # 0 /\ Text!Reachable(s, l, lab)
BY DEF Text!WellFormed, IsList, ListBody, TextAt

LEMMA TextAtIs ==
  ASSUME NEW S, NEW s \in Seq(S), NEW K
  PROVE  TextAt(s, K) = {l \in 1 .. Len(s) : s[l] \in K}
<1>1. \A l \in 1 .. Len(s) : l \in 1 .. LastLine(s) /\ Line(s, l) = s[l]
  <2>1. \A l \in 1 .. Len(s) : l \in 1 .. LastLine(s) - 1
    BY Extent
  <2> QED BY <2>1, LineNumber DEF Line
<1>2. \A l \in 1 .. Len(s) : Text!Exits(s)[l] = s[l]
  BY <1>1, ExitsAre
<1> QED BY <1>2 DEF TextAt

LEMMA WellFormedIs ==
  ASSUME NEW S, NEW s \in Seq(S), NEW lab \in 0 .. Len(s) + 1, NEW dyn \in BOOLEAN,
         NEW p, p = Parents(s), NEW P, Laid(s, p, P)
  PROVE  Text!WellFormed(s, lab, dyn) <=>
           /\ IsList(s) /\ LoopsAt(s, P) /\ CallsResolved(s) /\ NestingOK(s)
           /\ OutsideOf(s, P) /\ LabelOK(s, lab) /\ JumpsAt(s, p, lab, dyn)
<1> DEFINE N == LastLine(s)
<1>1. Len(s) \in Nat /\ N = Len(s) + 3 /\ N \in Nat
  BY Extent
<1>2. \A K : TextAt(s, K) = {l \in 1 .. Len(s) : s[l] \in K}
  BY TextAtIs
<1>3. \A l \in 1 .. Len(s) : l \in 1 .. N - 1 /\ l \in 1 .. Len(s) + 1
  BY <1>1
<1>4. \A l \in 1 .. Len(s) : Text!Around(s, l) = AroundIn(s, P, l)
  BY <1>3, AroundIs DEF Laid
<1>5. \A l \in 1 .. N : Text!Exits(s)[l] = Line(s, l)
  BY ExitsAre
<1>6. \A l \in 1 .. Len(s) : \A h \in AroundIn(s, P, l) : h \in 1 .. N
  <2>1. \A l \in 1 .. Len(s) : \A h \in 1 .. l - 1 : h \in 1 .. N
    BY <1>1
  <2> QED BY <2>1 DEF AroundIn
<1>7. \A l \in 1 .. Len(s) : l \in 1 .. N /\ Text!After(s)[l] = Stmt(P, l)
  <2>1. \A l \in 1 .. N - 1 : l \in 1 .. N /\ Text!After(s)[l] = Stmt(P, l)
    BY AfterIsStatement, LineNumber DEF Laid
  <2> QED BY <1>3, <2>1
<1> HIDE DEF N
<1>8. (\A l \in TextAt(s, {"break", "continue"}) :
         \E h \in Text!Around(s, l) : Text!Exits(s)[h] \in Text!LoopKinds) <=> LoopsAt(s, P)
  <2>1. ASSUME NEW l \in 1 .. Len(s)
        PROVE  (\E h \in Text!Around(s, l) : Text!Exits(s)[h] \in Text!LoopKinds)
                 <=> \E h \in AroundIn(s, P, l) : Line(s, h) \in LoopKinds
    BY <1>4, <1>5, <1>6, TextKinds
  <2> QED BY <1>2, <2>1 DEF LoopsAt
<1>a. ASSUME NEW k PROVE TextAt(s, {k}) = {l \in 1 .. Len(s) : s[l] = k}
  <2>1. \A K : \A l : l \in TextAt(s, K) <=> l \in 1 .. Len(s) /\ s[l] \in K
    BY <1>2
  <2>2. \A l : l \in TextAt(s, {k}) <=> l \in 1 .. Len(s) /\ s[l] \in {k}
    BY <2>1
  <2> QED BY <2>2
<1>9. (TextAt(s, {"call"}) # {} => TextAt(s, {"func{"}) # {}) <=> CallsResolved(s)
  <2>1. /\ TextAt(s, {"call"}) = {l \in 1 .. Len(s) : s[l] = "call"}
        /\ TextAt(s, {"func{"}) = {l \in 1 .. Len(s) : s[l] = "func{"}
    BY <1>a
  <2> QED BY <2>1 DEF CallsResolved
<1>10. (\A l, m \in TextAt(s, {"func{"}), h \in 1 .. Len(s) :
          l < m /\ h \in Text!Around(s, l) \cup {l} /\ Text!Exits(s)[h] \in Text!Opens
            => Text!After(s)[h] <= m) <=> OutsideOf(s, P)
  <2>1. TextAt(s, {"func{"}) = {l \in 1 .. Len(s) : s[l] = "func{"}
    BY <1>a
  <2>2. \A h \in 1 .. Len(s) : /\ Text!Exits(s)[h] \in Text!Opens <=> Line(s, h) \in Opens
                               /\ Text!After(s)[h] = Stmt(P, h)
    BY <1>5, <1>7, TextKinds
  <2> QED BY <1>4, <2>1, <2>2 DEF OutsideOf
<1>11. (lab # 0 => Text!Exits(s)[lab] \notin {"else", "}", "func{"}) <=> LabelOK(s, lab)
  <2>1. lab # 0 => lab \in 1 .. N
    BY <1>1
  <2> QED BY <1>5, <2>1 DEF LabelOK
<1>12. (~dyn => \A l \in TextAt(s, Text!Jumps) : lab # 0 /\ Text!Reachable(s, l, lab))
         <=> JumpsAt(s, p, lab, dyn)
  <2>1. TextAt(s, Text!Jumps) = {l \in 1 .. Len(s) : s[l] \in Jumps}
    BY <1>2, TextKinds
  <2>2. lab # 0 => lab \in 1 .. Len(s) + 1
    BY <1>1
  <2>3. ASSUME NEW l \in 1 .. Len(s), lab # 0
        PROVE  IsJumpValid(p, l, lab) <=> Text!Reachable(s, l, lab)
    BY <1>3, <2>2, <2>3, JumpsAgree
  <2> QED BY <2>1, <2>3 DEF JumpsAt, JumpOK
<1>13. (\A l \in TextAt(s, Text!Opens) : Text!Depth(s, l) <= MaxNesting) <=> NestingOK(s)
  <2>1. TextAt(s, Text!Opens) = {l \in 1 .. Len(s) : s[l] \in Opens}
    BY <1>2, TextKinds
  <2>2. ASSUME NEW l \in 1 .. Len(s)
        PROVE  Text!Depth(s, l) = Len(OpenBlocks(s)[l])
    <3>1. {h \in Text!Around(s, l) : Text!Exits(s)[h] \in Text!Opens} = BlocksAround(s, P, l)
      BY <1>4, <1>5, <1>6, TextKinds DEF BlocksAround
    <3>2. Cardinality(BlocksAround(s, P, l)) = Len(OB(s, l))
      BY DepthIs
    <3>3. OB(s, l) = OpenBlocks(s)[l]
      BY <1>3 DEF OB
    <3>4. ASSUME NEW X PROVE Text!Cardinality(X) = Cardinality(X)
      BY DEF Text!Cardinality, Cardinality
    <3>5. Text!Depth(s, l) = Cardinality(BlocksAround(s, P, l))
      BY <3>1, <3>4 DEF Text!Depth
    <3> QED BY <3>2, <3>3, <3>5
  <2> QED BY <2>1, <2>2 DEF NestingOK
<1> QED BY <1>8, <1>9, <1>10, <1>11, <1>12, <1>13, TextParts

\* The loader accepts exactly the scripts that are well formed.
THEOREM LoaderAcceptsWellFormed ==
  ASSUME NEW S, NEW s \in Seq(S), NEW lab \in 0 .. Len(s) + 1, NEW dyn \in BOOLEAN
  PROVE  Accepted(s, lab, dyn) <=> Text!WellFormed(s, lab, dyn)
<1> DEFINE p == Parents(s)
           P == Preparsed(s, p, 0, TRUE)
           F == Preparsed(s, p, lab, dyn)
           N == LastLine(s)
           all == RestOf(P, 1, "all")
<1>1. N \in Nat /\ 1 \in 1 .. N /\ N # 0
  BY Extent
<1>2. /\ Unfolds(s, p, 0, TRUE, P) /\ Ranges(s, P, 0)
      /\ Unfolds(s, p, lab, dyn, F) /\ Ranges(s, F, 0) /\ Agrees(s, F, P, 1)
  <2> HIDE DEF p
  <2>1. Unfolds(s, p, 0, TRUE, P) /\ Ranges(s, P, 0)
    BY PreparsedUnfolds
  <2>2. Unfolds(s, p, lab, dyn, F) /\ Ranges(s, F, 0)
    BY PreparsedUnfolds
  <2>3. Agrees(s, F, P, 1)
    BY PreparsedAgrees
  <2> QED BY <2>1, <2>2, <2>3
<1> DEFINE f1 == F[<<1, "all", FALSE>>]
<1>3. Accepted(s, lab, dyn) <=> /\ LabelOK(s, lab) /\ FunctionsApart(s) /\ BlocksOK(s) /\ f1 # 0
  BY DEF Accepted
<1>4. BlocksOK(s) <=> CallsResolved(s) /\ NestingOK(s) /\ BracesOK(s)
  BY DEF BlocksOK, BracesOK
<1> HIDE DEF p, P, F, N
<1>5. Read(s, P)
  BY <1>2, ReadIs
<1>6. f1 # 0 <=> all # 0 /\ Clear(s, p, lab, dyn, P, 1, all, FALSE)
  <2>1. RestsIn(s, P, "all") /\ Rests(s, P)
    BY <1>2, RestsInMode, RestsAre
  <2>2. BothRead(s, p, lab, dyn, P, F)
    BY <1>2, <1>5, <2>1 DEF BothRead
  <2>3. Strict(s, p, lab, dyn, P, F, 1)
    BY <1>1, <2>2, ReadStrictly DEF N
  <2> QED BY <2>3 DEF Strict, StrictRest
<1>7. IsList(s) <=> all = N
  BY <1>2, ListIsRead DEF N
<1>8. all = N => BracesOK(s)
  BY <1>2, ReadMatches DEF N
<1>9. BracesOK(s) /\ all # 0 => all = N /\ Laid(s, p, P)
  <2> SUFFICES ASSUME BracesOK(s), all # 0 PROVE all = N /\ Laid(s, p, P)
    OBVIOUS
  <2>1. Nested(s)
    BY BlocksNested
  <2> QED BY <1>2, <2>1, ReadAsWhole DEF Laid, N
<1>10. Clear(s, p, lab, dyn, P, 1, N, FALSE) <=> LoopsAt(s, P) /\ JumpsAt(s, p, lab, dyn)
  BY <1>5, ClearIs DEF N
<1>11. Laid(s, p, P) => (FunctionsApart(s) <=> OutsideOf(s, P))
  BY FunctionsAgree
<1>12. Laid(s, p, P) => (Text!WellFormed(s, lab, dyn) <=>
          /\ IsList(s) /\ LoopsAt(s, P) /\ CallsResolved(s) /\ NestingOK(s)
          /\ OutsideOf(s, P) /\ LabelOK(s, lab) /\ JumpsAt(s, p, lab, dyn))
  BY WellFormedIs DEF p
<1>13. Text!WellFormed(s, lab, dyn) => IsList(s) /\ CallsResolved(s)
  <2>1. TextAt(s, {"call"}) = {l \in 1 .. Len(s) : s[l] \in {"call"}}
        /\ TextAt(s, {"func{"}) = {l \in 1 .. Len(s) : s[l] \in {"func{"}}
    BY TextAtIs
  <2> QED BY <2>1, TextParts DEF CallsResolved
<1> HIDE DEF all, f1
<1>14. ASSUME Accepted(s, lab, dyn) PROVE Text!WellFormed(s, lab, dyn)
  BY <1>3, <1>4, <1>6, <1>7, <1>9, <1>10, <1>11, <1>12, <1>14
<1>15. ASSUME Text!WellFormed(s, lab, dyn) PROVE Accepted(s, lab, dyn)
  <2>1. all = N /\ CallsResolved(s) /\ BracesOK(s)
    BY <1>7, <1>8, <1>13, <1>15
  <2>2. Laid(s, p, P)
    BY <1>1, <1>9, <2>1
  <2>3. BlocksOK(s)
    BY <1>4, <1>12, <1>15, <2>1, <2>2
  <2> QED BY <1>1, <1>3, <1>6, <1>10, <1>11, <1>12, <1>15, <2>1, <2>2, <2>3
<1> QED BY <1>14, <1>15

-----------------------------------------------------------------------------
(* The loader, as a part of FollowsTheText.                                *)

\* What the loader has done.
Loaded ==
  /\ script \in Seq(Kinds)
  /\ status \in {"building", "rejected", "running"}
  /\ status = "building" => frames = <<>>
  /\ status # "building" =>
       /\ label \in 0 .. Len(script) + 1 /\ dynamic \in BOOLEAN
       /\ status = "running" <=> Accepted(script, label, dynamic)
  /\ status = "running" => parent = Parents(script) /\ related = RelatedLines(script)

LEMMA LoadedInit == Init => Loaded
BY DEF Init, Loaded

LEMMA LoadedNext == Loaded /\ [Next]_vars => Loaded'
<1> SUFFICES ASSUME Loaded, [Next]_vars PROVE Loaded'
  OBVIOUS
<1>1. CASE AddLine
  <2>1. /\ status = "building" /\ frames = <<>> /\ status' = status /\ frames' = frames
        /\ \E k \in Kinds : script' = Append(script, k)
    BY <1>1 DEF AddLine, Loaded
  <2>2. script' \in Seq(Kinds)
    BY <2>1 DEF Loaded
  <2> QED BY <2>1, <2>2 DEF Loaded
<1>2. CASE Load
  <2>1. PICK lab \in 0 .. Len(script) + 1, dyn \in BOOLEAN :
          /\ label' = lab /\ dynamic' = dyn
          /\ IF Accepted(script, lab, dyn)
             THEN /\ status' = "running"
                  /\ parent' = Parents(script) /\ related' = RelatedLines(script)
             ELSE status' = "rejected"
    BY <1>2 DEF Load
  <2>2. script' = script
    BY <1>2 DEF Load
  <2> QED BY <2>1, <2>2 DEF Loaded
<1>3. CASE status # "building" /\ UNCHANGED <<script, label, dynamic, status, parent, related>>
  BY <1>3 DEF Loaded
<1>4. CASE UNCHANGED vars
  BY <1>4 DEF Loaded, vars
<1>5. Next => AddLine \/ Load \/
              (status # "building" /\ UNCHANGED <<script, label, dynamic, status, parent, related>>)
  BY DEF Next, Settled, Launch, Perform, IfTrue, IfFalse, IfFails, Loop, LoopFails, Iterate, LoopDone,
         Goto, Gosub, GroupOnly, Call, ReturnLine, BreakOrContinue, Exit, BlockBegin, FunctionBody,
         BlockEnd, ElseLine, On, InPhase
<1> QED BY <1>1, <1>2, <1>3, <1>4, <1>5

LEMMA LoadedAlways == Spec => []Loaded
BY LoadedInit, LoadedNext, PTL DEF Spec

\* The scripts that run are the well-formed ones, and their pointers are what
\* the text says: mParentLine the statement or branch whose level the line is
\* on, mRelatedLine the line after the block or the body, and a jump is valid
\* where the text allows it (script.cpp:6843-7310, IsJumpValid).
LoadedAsWritten ==
  /\ status = "rejected" => ~Text!WellFormed(script, label, dynamic)
  /\ status = "running" =>
       /\ Text!WellFormed(script, label, dynamic)
       /\ \A l \in 1 .. Len(script) + 1 : parent[l] = Text!Level(script, l)
       /\ \A l \in 1 .. Len(script) :
            /\ Line(script, l) \in OwnersAndElse => related[l] = Text!After(script)[l + 1]
            /\ Line(script, l) \in Opens => related[l] = Text!After(script)[l]
       /\ label # 0 => \A l \in 1 .. Len(script) :
                         IsJumpValid(parent, l, label) <=> Text!Reachable(script, l, label)

\* What PreparseBlocks and PreparseIfElse leave of every script is what its
\* text says.
THEOREM LoadsAsWritten == Spec => []LoadedAsWritten
<1>1. Loaded => LoadedAsWritten
  <2> SUFFICES ASSUME Loaded PROVE LoadedAsWritten
    OBVIOUS
  <2> DEFINE p == Parents(script)
             P == Preparsed(script, p, 0, TRUE)
             N == LastLine(script)
  <2>1. script \in Seq(Kinds)
    BY DEF Loaded
  <2>2. status # "building" =>
          /\ label \in 0 .. Len(script) + 1
          /\ status = "running" <=> Text!WellFormed(script, label, dynamic)
    BY <2>1, LoaderAcceptsWellFormed DEF Loaded
  <2>3. CASE status = "running"
    <3>1. Accepted(script, label, dynamic) /\ parent = p /\ related = RelatedLines(script)
      BY <2>3 DEF Loaded
    <3>2. Laid(script, p, P)
      <4>1. Nested(script) /\ Unfolds(script, p, 0, TRUE, P) /\ Whole(script, P)
        BY <2>1, <3>1, AcceptedWhole
      <4>2. Ranges(script, P, 0)
        BY <2>1, PreparsedUnfolds
      <4> QED BY <4>1, <4>2 DEF Laid
    <3>3. \A l \in 1 .. Len(script) : /\ l \in 1 .. N - 1 /\ l \in 1 .. Len(script) + 1
                                      /\ l \in Lines(script)
      BY <2>1, Extent DEF Lines
    <3>4. \A l \in Lines(script) :
            /\ Line(script, l) \in OwnersAndElse => related[l] = Stmt(P, l + 1)
            /\ Line(script, l) \in Opens => related[l] = Stmt(P, l)
      BY <2>1, <3>1, <3>2, RelatedIs DEF Laid
    <3>5. \A l \in 1 .. N - 1 : Text!After(script)[l] = Stmt(P, l)
      BY <2>1, <3>2, AfterIsStatement DEF Laid
    <3>6. \A l \in 1 .. Len(script) : l + 1 \in 1 .. N - 1
      BY <2>1, Extent
    <3>7. \A l \in 1 .. Len(script) + 1 : parent[l] = Text!Level(script, l)
      BY <2>1, <3>1, <3>2, LevelIsParent
    <3>8. label # 0 => \A l \in 1 .. Len(script) :
                         IsJumpValid(parent, l, label) <=> Text!Reachable(script, l, label)
      <4>1. label # 0 => label \in 1 .. Len(script) + 1
        BY <2>1, <2>2, <2>3
      <4> QED BY <2>1, <3>1, <3>2, <3>3, <4>1, JumpsAgree
    <3> HIDE DEF p, P, N
    <3> QED BY <2>2, <2>3, <3>3, <3>4, <3>5, <3>6, <3>7, <3>8 DEF LoadedAsWritten
  <2>4. CASE status = "rejected"
    BY <2>2, <2>4 DEF LoadedAsWritten
  <2>5. CASE status = "building"
    BY <2>5 DEF LoadedAsWritten
  <2> QED BY <2>3, <2>4, <2>5 DEF Loaded
<1> QED BY <1>1, LoadedAlways, PTL

\* What the stack stands for while there is no frame, and one.
StackBody(fs, v, f) ==
  [i \in 0 .. Len(fs) |->
     IF i = 0 THEN <<>>
     ELSE IF i \in {x \in 1 .. Len(fs) : Begins(fs, x)} THEN Append(f[i - 1], ActivationAt(fs, v, i))
     ELSE f[i - 1]]

LEMMA NoActivation ==
  ASSUME NEW v
  PROVE  ActivationsOf(<<>>, v) = <<>>
<1> DEFINE A == CHOOSE f : f = StackBody(<<>>, v, f)
           W == [i \in {0} |-> <<>>]
<1>1. ActivationsOf(<<>>, v) = A[0]
  BY DEF ActivationsOf, StackBody
<1>2. \A f : StackBody(<<>>, v, f) = W
  <2>1. 0 .. Len(<<>>) = {0}
    OBVIOUS
  <2> QED BY <2>1 DEF StackBody
<1>3. A = W
  <2>1. W = StackBody(<<>>, v, W)
    BY <1>2
  <2>2. A = StackBody(<<>>, v, A)
    BY <2>1
  <2> HIDE DEF A
  <2> QED BY <1>2, <2>2
<1> HIDE DEF A
<1> QED BY <1>1, <1>3

LEMMA OneActivation ==
  ASSUME NEW fs, fs = <<Frame(1, "return", TRUE, Fresh)>>, NEW v
  PROVE  ActivationsOf(fs, v) = <<Text!Activation(1, TRUE, FALSE)>>
<1> DEFINE A == CHOOSE f : f = StackBody(fs, v, f)
           a == ActivationAt(fs, v, 1)
           W == [i \in {0, 1} |-> IF i = 0 THEN <<>> ELSE <<a>>]
           j == CHOOSE x \in 1 .. Len(fs) : Ends(fs, x) /\ \A y \in 1 .. x - 1 : ~Ends(fs, y)
<1>1. Len(fs) = 1 /\ fs[1] = Frame(1, "return", TRUE, Fresh) /\ 1 .. Len(fs) = {1} /\ 0 .. Len(fs) = {0, 1}
  OBVIOUS
<1>2. fs[1].line = 1 /\ fs[1].phase = "line" /\ fs[1].thread = TRUE
  BY <1>1 DEF Frame
<1>3. Begins(fs, 1) /\ Ends(fs, 1)
  BY <1>1 DEF Begins, Ends
<1>4. j = 1
  <2>1. \A y \in 1 .. 1 - 1 : ~Ends(fs, y)
    OBVIOUS
  <2> QED BY <1>1, <1>3, <2>1
<1>5. a = Text!Activation(1, TRUE, FALSE)
  <2> DEFINE h == [x \in 1 .. 0 |->
                     [head |-> fs[1 + x - 1].line,
                      iteration |-> IF fs[1 + x - 1].phase \in {"test", "loop"}
                                    THEN IterationOf(fs, v, 1 + x - 1) ELSE 0]]
  <2>1. h = <<>>
    OBVIOUS
  <2>2. a = [at |-> 1, phase |-> "line", ctx |-> h, thread |-> TRUE, func |-> FALSE]
    <3>1. a = [at |-> fs[j].line,
               phase |-> IF fs[j].phase \in {"test", "called"} THEN fs[j].phase ELSE "line",
               thread |-> fs[1].thread,
               func |-> 1 > 1 /\ fs[1 - 1].phase = "call",
               ctx |-> [x \in 1 .. (IF fs[j].phase = "test" THEN j ELSE j - 1) - 1 + 1 |->
                     [head |-> fs[1 + x - 1].line,
                      iteration |-> IF fs[1 + x - 1].phase \in {"test", "loop"}
                                    THEN IterationOf(fs, v, 1 + x - 1) ELSE 0]]]
      BY DEF ActivationAt
    <3> HIDE DEF j
    <3>2. (IF fs[j].phase = "test" THEN j ELSE j - 1) - 1 + 1 = 0
      <4>1. fs[j].phase /= "test"
        BY <1>2, <1>4
      <4>2. (IF fs[j].phase = "test" THEN j ELSE j - 1) = j - 1
        BY <4>1
      <4>3. j - 1 - 1 + 1 = 0
        BY <1>4
      <4> QED BY <4>2, <4>3
    <3>3. (1 > 1 /\ fs[1 - 1].phase = "call") = FALSE
      OBVIOUS
    <3> HIDE DEF a
    <3> QED BY <1>2, <1>4, <3>1, <3>2, <3>3
  <2> HIDE DEF a, h
  <2> QED BY <2>1, <2>2 DEF Text!Activation
<1> HIDE DEF a, j
<1>6. \A f : StackBody(fs, v, f) = [i \in {0, 1} |-> IF i = 0 THEN <<>> ELSE Append(f[0], a)]
  <2>1. {x \in 1 .. Len(fs) : Begins(fs, x)} = {1}
    BY <1>1, <1>3
  <2> SUFFICES ASSUME NEW f
               PROVE  StackBody(fs, v, f) = [i \in {0, 1} |-> IF i = 0 THEN <<>> ELSE Append(f[0], a)]
    OBVIOUS
  <2>2. StackBody(fs, v, f) =
          [i \in {0, 1} |-> IF i = 0 THEN <<>>
                            ELSE IF i \in {1} THEN Append(f[i - 1], ActivationAt(fs, v, i))
                            ELSE f[i - 1]]
    BY <1>1, <2>1 DEF StackBody
  <2>3. 1 - 1 = 0
    OBVIOUS
  <2>4. \A i \in {0, 1} :
          (IF i = 0 THEN <<>>
           ELSE IF i \in {1} THEN Append(f[i - 1], ActivationAt(fs, v, i))
           ELSE f[i - 1])
          = IF i = 0 THEN <<>> ELSE Append(f[0], a)
    <3> SUFFICES ASSUME NEW i \in {0, 1}, i /= 0
                 PROVE  Append(f[i - 1], ActivationAt(fs, v, i)) = Append(f[0], a) /\ i \in {1}
      OBVIOUS
    <3>1. i = 1
      OBVIOUS
    <3> QED BY <3>1, <2>3, Zenon DEF a
  <2> QED BY <2>2, <2>4, Zenon
<1>7. Append(<<>>, a) = <<a>>
  OBVIOUS
<1>8. W = StackBody(fs, v, W)
  BY <1>6, <1>7
<1>9. A = StackBody(fs, v, A)
  BY <1>8
<1>10. ActivationsOf(fs, v) = A[1]
  BY <1>1 DEF ActivationsOf, StackBody
<1> HIDE DEF A, W
<1>11. A[0] = <<>> /\ A[1] = Append(A[0], a)
  <2>1. A = [i \in {0, 1} |-> IF i = 0 THEN <<>> ELSE Append(A[0], a)]
    BY <1>6, <1>9, Zenon
  <2> DEFINE e == Append(A[0], a)
             B == [i \in {0, 1} |-> IF i = 0 THEN <<>> ELSE e]
  <2>2. A = B
    BY <2>1
  <2> HIDE DEF e
  <2>3. B[0] = <<>> /\ B[1] = e
    OBVIOUS
  <2> HIDE DEF B
  <2>4. A[0] = <<>> /\ A[1] = e
    BY <2>2, <2>3
  <2> QED BY <2>4 DEF e
<1> QED BY <1>5, <1>7, <1>10, <1>11

\* Every step while the script is read and loaded is one that the text allows.
LoadingFollows == [][status = "building" => [Text!Next]_(Text!vars)]_vars

\* The refinement FollowsTheText as far as the loader goes: AddLine and Load are the
\* Write and Load of Structured, whatever script is written.
THEOREM LoadFollowsTheText == Spec => Text!Init /\ LoadingFollows
<1>1. Init => Text!Init
  <2>1. ASSUME frames = <<>> PROVE Activations = <<>>
    BY <2>1, NoActivation DEF Activations, Late
  <2> QED BY <2>1 DEF Init, Text!Init
<1>2. Loaded /\ [Next]_vars /\ status = "building" => [Text!Next]_(Text!vars)
  <2> SUFFICES ASSUME Loaded, [Next]_vars, status = "building" PROVE [Text!Next]_(Text!vars)
    OBVIOUS
  <2>1. Activations = <<>>
    <3>1. frames = <<>>
      BY DEF Loaded
    <3> QED BY <3>1, NoActivation DEF Activations, Late
  <2>2. CASE AddLine
    <3>1. frames' = <<>> /\ UNCHANGED <<label, dynamic, status>>
          /\ \E k \in Kinds : script' = Append(script, k)
      BY <2>2 DEF AddLine, Loaded
    <3>2. Activations' = <<>>
      BY <3>1, NoActivation DEF Activations, Late
    <3>3. Text!Write
      BY <2>1, <3>1, <3>2 DEF Text!Write
    <3> QED BY <3>3 DEF Text!Next
  <2>3. CASE Load
    <3>1. PICK lab \in 0 .. Len(script) + 1, dyn \in BOOLEAN :
            /\ Admitted(script, lab, dyn)
            /\ label' = lab /\ dynamic' = dyn
            /\ IF Accepted(script, lab, dyn)
               THEN status' = "running" /\ frames' = <<Frame(1, "return", TRUE, Fresh)>>
               ELSE status' = "rejected" /\ frames' = frames
      BY <2>3 DEF Load
    <3>2. script' = script
      BY <2>3 DEF Load
    <3>3. Accepted(script, lab, dyn) <=> Text!WellFormed(script, lab, dyn)
      BY LoaderAcceptsWellFormed DEF Loaded
    <3>4. Accepted(script, lab, dyn) => Activations' = <<Text!Activation(1, TRUE, FALSE)>>
      <4> SUFFICES ASSUME Accepted(script, lab, dyn)
                   PROVE  Activations' = <<Text!Activation(1, TRUE, FALSE)>>
        OBVIOUS
      <4> DEFINE fs == <<Frame(1, "return", TRUE, Fresh)>>
      <4>1. frames' = fs
        BY <3>1
      <4>2. ~Late(fs)
        <5>1. Last(fs) = Frame(1, "return", TRUE, Fresh)
          BY DEF Last
        <5> QED BY <5>1 DEF Late, Frame
      <4>3. ~Late(frames')
        BY <4>1, <4>2
      <4>4. Activations' = ActivationsOf(fs, g')
        BY <4>1, <4>3 DEF Activations
      <4> QED BY <4>4, OneActivation
    <3>5. ~Accepted(script, lab, dyn) => Activations' = <<>>
      <4>1. ~Accepted(script, lab, dyn) => frames' = <<>>
        BY <3>1 DEF Loaded
      <4> QED BY <4>1, NoActivation DEF Activations, Late
    <3>6. Text!Load
      BY <3>1, <3>2, <3>3, <3>4, <3>5 DEF Text!Load
    <3> QED BY <3>6 DEF Text!Next
  <2>4. CASE UNCHANGED vars
    <3>1. frames' = <<>> /\ UNCHANGED <<script, label, dynamic, status>>
      BY <2>4 DEF Loaded, vars
    <3>2. Activations' = <<>>
      BY <3>1, NoActivation DEF Activations, Late
    <3> QED BY <2>1, <3>1, <3>2 DEF Text!vars
  <2>5. Next => AddLine \/ Load
    BY DEF Next, Settled, Launch, Perform, IfTrue, IfFalse, IfFails, Loop, LoopFails, Iterate, LoopDone,
           Goto, Gosub, GroupOnly, Call, ReturnLine, BreakOrContinue, Exit, BlockBegin, FunctionBody,
           BlockEnd, ElseLine, On, InPhase
  <2> QED BY <2>2, <2>3, <2>4, <2>5
<1>3. Loaded /\ [Next]_vars => (status = "building" => [Text!Next]_(Text!vars))
  BY <1>2
<1> QED BY <1>1, <1>3, LoadedAlways, PTL DEF Spec, LoadingFollows

===============================================================================
