---------------------------- MODULE Hotkeys_proofs ----------------------------
(***************************************************************************)
(* Theorems about hotkeys, for every set of hotkeys, variants and labels   *)
(* and any number of threads: which are registered, what a press may       *)
(* launch, and that no buffered press is left behind.                      *)
(***************************************************************************)
EXTENDS Hotkeys, InductionLemmas, SequenceTheorems, FiniteSetTheorems

-----------------------------------------------------------------------------
(* Hotkeys and their variants *)

LEMMA Shapes ==
    /\ Len(shk) \in Nat /\ DOMAIN hot = 1..Len(shk)
    /\ \A h \in 1..Len(shk) : hot[h] = shk[h]
    /\ \A h \in 1..Len(shk) : /\ Len(hot[h].variants) \in Nat
                              /\ Len(hot[h].variants) >= 1
    /\ \A hv \in HV : /\ hv[1] \in 1..Len(shk) /\ hv[2] \in Variants(hv[1])
                      /\ hv = <<hv[1], hv[2]>>
    /\ \A h \in 1..Len(shk) : \A v \in Variants(h) : <<h, v>> \in HV
<1>1. Len(shk) \in Nat /\ \A h \in 1..Len(shk) : HotkeyRecord(shk[h])
    BY HotkeysAssumption
<1>2. DOMAIN hot = 1..Len(shk) /\ \A h \in 1..Len(shk) : hot[h] = shk[h]
    BY DEF hot
<1>3. \A h \in 1..Len(shk) : /\ Len(hot[h].variants) \in Nat
                             /\ Len(hot[h].variants) >= 1
    BY <1>1, <1>2 DEF HotkeyRecord
<1>4. \A hv \in HV : /\ hv[1] \in 1..Len(shk) /\ hv[2] \in Variants(hv[1])
                     /\ hv = <<hv[1], hv[2]>>
    BY DEF HV
<1>5. \A h \in 1..Len(shk) : \A v \in Variants(h) : <<h, v>> \in HV
    BY DEF HV
<1> QED BY <1>1, <1>2, <1>3, <1>4, <1>5

\* What is allowed of a variant's label, limits and buffer.
LEMMA VariantShapes ==
    ASSUME NEW hv \in HV
    PROVE  /\ Attr[hv].mJumpToLabel \subseteq Label
           /\ Attr[hv].Limits \subseteq Nat
           /\ Attr[hv].mMaxThreadsBuffer \subseteq BOOLEAN
           /\ Attr[hv].mHotCriterion \in
                {"HOT_NO_CRITERION", "HOT_IF", "HOT_IF_NOT"}
<1>1. /\ hv[1] \in 1..Len(shk) /\ hv[2] \in Variants(hv[1])
      /\ hot[hv[1]] = shk[hv[1]]
    BY Shapes
<1>2. hv[2] \in 1..Len(shk[hv[1]].variants)
    BY <1>1 DEF Variants
<1>3. VariantRecord(shk[hv[1]].variants[hv[2]])
    BY <1>1, <1>2, HotkeysAssumption DEF HotkeyRecord
<1>4. Attr[hv] = shk[hv[1]].variants[hv[2]]
    BY <1>1 DEF Attr
<1> QED BY <1>3, <1>4 DEF VariantRecord

\* The types that hotkeys can have, and what the first pass does to them.
HotkeyTypes == [DOMAIN hot -> {"normal", "hook"}]

Taken(h, m) == \E i \in h..m : InEffect(i) /\ <<i, h>> \in TakesToHook
PassType(h, m) ==
    IF hot[h].mKeybdHookMandatory \/ Taken(h, m) THEN "hook" ELSE "normal"

LEMMA PassAtType ==
    ASSUME NEW type \in HotkeyTypes, NEW i PROVE PassAt(type, i) \in HotkeyTypes
BY DEF PassAt, HotkeyTypes

\* After hotkey m has been looked at, the type of each hotkey in effect up to
\* m depends on the hotkeys in effect from itself to m, and on no type that it
\* had before: later hotkeys take it to the hook for good, earlier ones do not.
LEMMA FirstPassIs ==
    ASSUME NEW type \in HotkeyTypes, sHotkeyCount \in 0..Len(shk)
    PROVE  /\ FirstPass(type) \in HotkeyTypes
           /\ \A h \in Live : FirstPass(type)[h] = PassType(h, sHotkeyCount)
<1> DEFINE K == sHotkeyCount
           Step(n, t) == IF InEffect(n) THEN PassAt(t, n) ELSE t
           G == [n \in 1..K |-> [t \in HotkeyTypes |-> Step(n, t)]]
           Body(f) == [n \in 0..K |-> IF n = 0 THEN type
                                      ELSE IF InEffect(n)
                                           THEN PassAt(f[n - 1], n)
                                           ELSE f[n - 1]]
           after == CHOOSE f : f = Body(f)
<1>1. K \in Nat /\ Len(shk) \in Nat /\ DOMAIN hot = 1..Len(shk) /\ K <= Len(shk)
    BY Shapes
<1>2. \A n \in 1..K, t \in HotkeyTypes : Step(n, t) \in HotkeyTypes
    BY PassAtType
<1>3. G \in [1..K -> [HotkeyTypes -> HotkeyTypes]]
    BY <1>2
<1> HIDE DEF G, K
<1>4. \E f : Recursive(f, G, K, HotkeyTypes, type)
    <2>1. K \in Nat /\ type \in HotkeyTypes /\ StepsOn(G, K, HotkeyTypes)
        BY <1>1, <1>3 DEF StepsOn
    <2> QED BY <2>1, Recursion, Zenon
<1>15. \E f : /\ f \in [0..K -> HotkeyTypes] /\ f[0] = type
              /\ \A n \in 1..K : f[n] = G[n][f[n - 1]]
    BY <1>4 DEF Recursive
<1>16. PICK f \in [0..K -> HotkeyTypes] :
            f[0] = type /\ \A n \in 1..K : f[n] = G[n][f[n - 1]]
    BY <1>15
<1> USE DEF K
<1>5. \A n \in 1..K : n - 1 \in 0..K /\ n \in 0..K
    BY <1>1
<1>6. ASSUME NEW n \in 1..K PROVE f[n] = Step(n, f[n - 1])
    <2>1. f[n - 1] \in HotkeyTypes
        BY <1>16, <1>5
    <2> QED BY <1>16, <2>1 DEF G
<1>7. f = Body(f)
    <2> DEFINE b == Body(f)
    <2>1. DOMAIN b = 0..K /\ DOMAIN f = 0..K
        OBVIOUS
    <2>2. ASSUME NEW n \in 0..K PROVE f[n] = b[n]
        <3>1. CASE n = 0
            BY <1>16, <3>1
        <3>2. CASE n # 0
            <4>1. n \in 1..K
                BY <3>2
            <4> QED BY <1>6, <3>2, <4>1
        <3> QED BY <3>1, <3>2
    <2>3. b = [n \in 0..K |-> b[n]] /\ f = [n \in 0..K |-> f[n]]
        OBVIOUS
    <2> HIDE DEF b
    <2> QED BY <2>2, <2>3 DEF b
<1>8. after = Body(after)
    BY <1>7, Zenon
<1>9. FirstPass(type) = after[K]
    BY DEF FirstPass
<1> HIDE DEF after
<1>10. /\ after[0] = type
       /\ \A n \in 1..K : after[n] = Step(n, after[n - 1])
    BY <1>1, <1>8
<1> DEFINE S == {n \in 0..K :
                    /\ after[n] \in HotkeyTypes
                    /\ \A h \in 1..n : InEffect(h) =>
                            after[n][h] = PassType(h, n)}
<1>11. 0 \in S
    BY <1>1, <1>10
<1>12. ASSUME NEW n \in 0..(K - 1), n \in S PROVE n + 1 \in S
    <2> DEFINE m == n + 1
               t == after[n]
    <2>1. m \in 1..K /\ m \in 0..K /\ m - 1 = n /\ n \in Nat /\ m \in Nat
        BY <1>1
    <2>2. after[m] = Step(m, t)
        BY <1>10, <2>1
    <2>3. t \in HotkeyTypes /\ \A h \in 1..n : InEffect(h) =>
                                    t[h] = PassType(h, n)
        BY <1>12
    <2>4. after[m] \in HotkeyTypes
        BY <1>2, <2>1, <2>2, <2>3
    <2> HIDE DEF t
    <2>5. ASSUME NEW h \in 1..m, InEffect(h)
          PROVE  after[m][h] = PassType(h, m)
        <3>1. h \in 1..Len(shk) /\ h <= K
            BY <1>1, <2>1
        <3>2. CASE ~InEffect(m)
            <4>1. h \in 1..n
                BY <2>1, <2>5, <3>2
            <4>2. Taken(h, m) <=> Taken(h, n)
                BY <2>1, <3>2, <4>1 DEF Taken
            <4> QED BY <2>2, <2>3, <2>5, <3>2, <4>1, <4>2 DEF PassType
        <3>3. CASE InEffect(m)
            <4>1. after[m][h] =
                      IF <<m, h>> \in TakesToHook THEN "hook"
                      ELSE IF h = m THEN IF hot[m].mKeybdHookMandatory
                                         THEN "hook" ELSE "normal"
                      ELSE t[h]
                BY <1>1, <2>2, <3>1, <3>3 DEF PassAt
            <4>2. CASE h = m
                BY <2>1, <3>3, <4>1, <4>2 DEF PassType, Taken
            <4>3. CASE h # m
                <5>1. h \in 1..n /\ m \in h..m
                    BY <2>1, <4>3
                <5>2. Taken(h, m) <=> Taken(h, n) \/ <<m, h>> \in TakesToHook
                    <6>1. \A i \in h..m : i \in h..n \/ i = m
                        BY <2>1, <5>1
                    <6>2. \A i \in h..n : i \in h..m
                        BY <2>1, <5>1
                    <6> HIDE DEF m
                    <6> QED BY <3>3, <5>1, <6>1, <6>2, Zenon DEF Taken
                <5> QED BY <2>3, <2>5, <4>1, <4>3, <5>1, <5>2 DEF PassType
            <4> QED BY <4>2, <4>3
        <3> QED BY <3>2, <3>3
    <2> QED BY <2>1, <2>4, <2>5
<1> HIDE DEF S
<1>13. \A n \in 0..K : n \in S
    BY <1>1, <1>11, <1>12, Induction
<1>14. K \in S
    BY <1>1, <1>13
<1> QED BY <1>9, <1>14 DEF S, Live, Ids, InEffect

\* The same of the state after a step.
FirstPassKnown ==
    (sHotkeyCount \in 0..Len(shk)) =>
        \A type \in HotkeyTypes :
            /\ FirstPass(type) \in HotkeyTypes
            /\ \A h \in Live : FirstPass(type)[h] = PassType(h, sHotkeyCount)

LEMMA FirstPassAlways == FirstPassKnown
BY FirstPassIs DEF FirstPassKnown

LEMMA FirstPassAfter == FirstPassKnown'
<1>1. FirstPassKnown
    BY FirstPassAlways
<1> QED BY <1>1, PTL

-----------------------------------------------------------------------------
(* The greatest and the least of a variant's numbers, and counting threads *)

LEMMA LeastOf ==
    ASSUME NEW S, S \subseteq Nat, S # {}
    PROVE  Min(S) \in S /\ \A n \in S : Min(S) <= n
BY LeastNumber DEF Min

LEMMA GreatestOf ==
    ASSUME NEW N \in Nat, NEW S, S \subseteq 0..N, S # {}
    PROVE  Max(S) \in S
<1>1. \E n \in S : \A m \in S : m <= n
    BY GreatestNumber
<1>2. \E n \in S : \A m \in S : n >= m
    BY <1>1
<1> QED BY <1>2 DEF Max

Runs(s, hv) == {i \in 1..Len(s) : s[i].hv = hv /\ s[i].at = "running"}
HotkeyThread == [hv : HV, at : {"running", "warning"}]

LEMMA RunsFinite ==
    ASSUME NEW s \in Seq(HotkeyThread), NEW hv
    PROVE  IsFiniteSet(Runs(s, hv)) /\ Cardinality(Runs(s, hv)) \in Nat
<1>1. Len(s) \in Nat
    OBVIOUS
<1>2. IsFiniteSet(1..Len(s))
    BY <1>1, FS_Interval
<1>3. Runs(s, hv) \in SUBSET (1..Len(s))
    BY DEF Runs
<1>4. IsFiniteSet(Runs(s, hv))
    BY <1>2, <1>3, FS_Subset
<1> QED BY <1>4, FS_CardinalityType

LEMMA RunsPushed ==
    ASSUME NEW s \in Seq(HotkeyThread), NEW t \in HotkeyThread, NEW hv
    PROVE  Cardinality(Runs(Append(s, t), hv)) =
                IF t.hv = hv /\ t.at = "running"
                THEN Cardinality(Runs(s, hv)) + 1 ELSE Cardinality(Runs(s, hv))
<1> DEFINE n == Len(s)
           r == Append(s, t)
<1>1. n \in Nat /\ Len(r) = n + 1 /\ r[n + 1] = t
      /\ \A i \in 1..n : r[i] = s[i]
    BY AppendProperties
<1>2. \A i \in 1..(n + 1) : i \in 1..n \/ i = n + 1
    BY <1>1
<1>3. (n + 1) \notin 1..n /\ n + 1 \in 1..(n + 1)
    BY <1>1
<1>4. \A i \in 1..n : i \in 1..(n + 1)
    BY <1>1
<1>5. CASE t.hv = hv /\ t.at = "running"
    <2>1. Runs(r, hv) = Runs(s, hv) \cup {n + 1}
        <3> HIDE DEF r
        <3> QED BY <1>1, <1>2, <1>3, <1>4, <1>5 DEF Runs
    <2>2. (n + 1) \notin Runs(s, hv)
        BY <1>3 DEF Runs
    <2>3. Cardinality(Runs(s, hv) \cup {n + 1}) = Cardinality(Runs(s, hv)) + 1
        BY <2>2, RunsFinite, FS_AddElement
    <2> QED BY <1>5, <2>1, <2>3
<1>6. CASE ~(t.hv = hv /\ t.at = "running")
    <2>1. Runs(r, hv) = Runs(s, hv)
        <3> HIDE DEF r
        <3> QED BY <1>1, <1>2, <1>3, <1>4, <1>6 DEF Runs
    <2> QED BY <1>6, <2>1
<1> QED BY <1>5, <1>6

LEMMA RunsPopped ==
    ASSUME NEW s \in Seq(HotkeyThread), s # <<>>
    PROVE  LET below == SubSeq(s, 1, Len(s) - 1)
               top == s[Len(s)]
           IN  /\ below \in Seq(HotkeyThread) /\ top \in HotkeyThread
               /\ Len(s) \in Nat \ {0} /\ Len(below) = Len(s) - 1
               /\ \A i \in 1..Len(below) : below[i] = s[i]
               /\ \A hv : Cardinality(Runs(s, hv)) =
                    IF top.hv = hv /\ top.at = "running"
                    THEN Cardinality(Runs(below, hv)) + 1
                    ELSE Cardinality(Runs(below, hv))
<1> DEFINE n == Len(s) - 1
           below == SubSeq(s, 1, n)
           top == s[Len(s)]
<1>1. Len(s) \in Nat \ {0} /\ n \in Nat
    BY EmptySeq
<1>2. \A i \in 1..Len(s) : s[i] \in HotkeyThread
    BY ElementOfSeq
<1>3. top \in HotkeyThread
    BY <1>1, <1>2
<1>4. /\ below \in Seq(HotkeyThread) /\ Len(below) = n
      /\ \A i \in 1..n : below[i] = s[i]
    <2>1. \A i \in 1..n : i \in 1..Len(s)
        BY <1>1
    <2>2. \A i \in 1..n : s[i] \in HotkeyThread
        BY <1>2, <2>1
    <2>3. /\ below \in Seq(HotkeyThread)
          /\ Len(below) = IF 1 <= n THEN n - 1 + 1 ELSE 0
          /\ \A i \in 1..(n - 1 + 1) : below[i] = s[1 + i - 1]
        <3> HIDE DEF n
        <3> QED BY <1>1, <2>2, SubSeqProperties
    <2>4. n - 1 + 1 = n /\ (n = 0 \/ 1 <= n) /\ \A i \in 1..n : 1 + i - 1 = i
        <3> HIDE DEF n
        <3> QED BY <1>1
    <2> HIDE DEF below, n
    <2>5. Len(below) = n
        BY <1>1, <2>3, <2>4
    <2>6. \A i \in 1..n : below[i] = s[i]
        BY <2>3, <2>4
    <2> QED BY <2>3, <2>5, <2>6
<1>5. Append(below, top) = s
    <2>1. /\ Append(below, top) \in Seq(HotkeyThread)
          /\ Len(Append(below, top)) = n + 1
          /\ \A i \in 1..n : Append(below, top)[i] = below[i]
          /\ Append(below, top)[n + 1] = top
        <3> HIDE DEF below, top
        <3> QED BY <1>3, <1>4, AppendProperties
    <2> DEFINE r == Append(below, top)
    <2>2. Len(r) = Len(s) /\ \A i \in 1..Len(s) : r[i] = s[i]
        BY <1>1, <1>4, <2>1
    <2> HIDE DEF r
    <2> QED BY <2>1, <2>2, SeqEqual DEF r
<1>6. ASSUME NEW hv
      PROVE  Cardinality(Runs(s, hv)) =
                    IF top.hv = hv /\ top.at = "running"
                    THEN Cardinality(Runs(below, hv)) + 1
                    ELSE Cardinality(Runs(below, hv))
    <2> HIDE DEF below, top
    <2> QED BY <1>3, <1>4, <1>5, RunsPushed
<1> QED BY <1>1, <1>3, <1>4, <1>6

-----------------------------------------------------------------------------
(* The inductive invariant *)

\* Only hotkeys that have been created are enabled.
Created == \A hv \in HV : mEnabled[hv] => hv[1] \in Ids

\* While a warning waits for its answer no press is buffered.
Buffered ==
    \A hv \in HV : mRunAgainAfterFinished[hv] =>
        /\ NoWarning /\ mEnabled[hv]
        /\ \E i \in 1..Len(threads) : threads[i].hv = hv

TypeInv ==
    /\ TypeOK
    /\ mJumpToLabel \in [HV -> Label] /\ mMaxThreads \in [HV -> Nat]
    /\ mMaxThreadsBuffer \in [HV -> BOOLEAN]
    /\ Created /\ ThreadsCounted /\ Buffered

LEMMA InitTyped == Init => TypeInv
<1> SUFFICES ASSUME Init PROVE TypeInv
    OBVIOUS
<1>1. Len(shk) \in Nat /\ DOMAIN hot = 1..Len(shk)
    BY Shapes
<1>2. /\ sHotkeyCount \in 0..Len(shk)
      /\ mType \in [DOMAIN hot -> {"normal", "hook"}]
      /\ mIsRegistered \in [DOMAIN hot -> BOOLEAN] /\ refused \subseteq Contested
      /\ g_IsSuspended \in BOOLEAN /\ matched \in BOOLEAN
    <2>1. sHotkeyCount \in 0..Len(shk)
        BY <1>1 DEF Init
    <2>2. mType \in [DOMAIN hot -> {"normal", "hook"}]
        BY DEF Init
    <2>3. mIsRegistered \in [DOMAIN hot -> BOOLEAN] /\ refused \subseteq Contested
        BY DEF Init
    <2> QED BY <2>1, <2>2, <2>3 DEF Init
<1>3. /\ mJumpToLabel \in [HV -> Label] /\ mMaxThreads \in [HV -> Nat]
      /\ mMaxThreadsBuffer \in [HV -> BOOLEAN]
      /\ mEnabled = [hv \in HV |-> FALSE]
      /\ mExistingThreads = [hv \in HV |-> 0]
      /\ mRunAgainAfterFinished = [hv \in HV |-> FALSE]
    BY DEF Init
<1>4. ASSUME NEW hv \in HV
      PROVE  /\ mJumpToLabel[hv] \in Attr[hv].mJumpToLabel
             /\ mMaxThreads[hv] \in 1..MAX_THREADS_LIMIT
             /\ mMaxThreadsBuffer[hv] \in Attr[hv].mMaxThreadsBuffer
    BY HotkeysAssumption DEF Init
<1>5. /\ queue \in Seq(DOMAIN hot) /\ threads \in Seq(HotkeyThread)
      /\ threads = <<>> /\ Len(threads) = 0
    BY EmptySeq DEF Init
<1>6. throttled_key_count \in 0..g_MaxHotkeysPerInterval + 1
    BY HotkeysAssumption DEF Init
<1>7. \A i : i \notin 1..Len(threads)
    BY <1>5
<1>8. ThreadsCounted
    <2>1. ASSUME NEW hv \in HV
          PROVE  mExistingThreads[hv] = Cardinality(Runs(threads, hv))
        <3>1. Runs(threads, hv) = {}
            BY <1>7 DEF Runs
        <3> QED BY <1>3, <3>1, FS_EmptySet
    <2> QED BY <2>1 DEF ThreadsCounted, Runs
<1>9. TypeOK
    <2>1. /\ mEnabled \in [HV -> BOOLEAN] /\ mExistingThreads \in [HV -> Nat]
          /\ mRunAgainAfterFinished \in [HV -> BOOLEAN]
        BY <1>3
    <2>2. reached \in BOOLEAN /\ taken \subseteq Contested
        BY DEF Init
    <2> QED BY <1>2, <1>4, <1>5, <1>6, <1>7, <2>1, <2>2, Zenon
            DEF TypeOK, HotkeyThread
<1> QED BY <1>3, <1>8, <1>9 DEF TypeInv, Created, Buffered

\* What ManifestAllHotkeys... leaves of the types and flags.
LEMMA ManifestTyped ==
    ASSUME TypeInv, sHotkeyCount' \in 0..Len(shk),
           NEW runAgain \in [HV -> BOOLEAN], Manifest(runAgain)
    PROVE  /\ mType' \in [DOMAIN hot -> {"normal", "hook"}]
           /\ mIsRegistered' \in [DOMAIN hot -> BOOLEAN] /\ refused' \subseteq Contested
           /\ mRunAgainAfterFinished' \in [HV -> BOOLEAN]
           /\ \A hv \in HV : mRunAgainAfterFinished'[hv] => runAgain[hv]
<1>1. mType \in HotkeyTypes /\ mIsRegistered \in [DOMAIN hot -> BOOLEAN] /\ taken \subseteq Contested
    BY DEF TypeInv, TypeOK, HotkeyTypes
<1>2. PICK type \in {mType} : \E first \in {FirstPass(type)'} :
        LET tried == ToRegister(first)'
            dropped == {h \in Ids : mIsRegistered[h]} \ Live'
        IN  /\ mIsRegistered' = [h \in DOMAIN hot |-> h \in tried /\ CanRegister(h)]
            /\ refused' = {h \in tried : ~CanRegister(h)}
            /\ mType' = [h \in DOMAIN hot |->
                    IF h \in Live' /\ ~mIsRegistered'[h] THEN "hook" ELSE first[h]]
            /\ mRunAgainAfterFinished' =
                    [hv \in HV |-> runAgain[hv] /\ hv[1] \notin dropped]
    BY DEF Manifest
<1>3. type \in HotkeyTypes
    BY <1>1, <1>2
<1>4. PICK first \in {FirstPass(type)'} :
        LET tried == ToRegister(first)'
            dropped == {h \in Ids : mIsRegistered[h]} \ Live'
        IN  /\ mIsRegistered' = [h \in DOMAIN hot |-> h \in tried /\ CanRegister(h)]
            /\ refused' = {h \in tried : ~CanRegister(h)}
            /\ mType' = [h \in DOMAIN hot |->
                    IF h \in Live' /\ ~mIsRegistered'[h] THEN "hook" ELSE first[h]]
            /\ mRunAgainAfterFinished' =
                    [hv \in HV |-> runAgain[hv] /\ hv[1] \notin dropped]
    BY <1>2
<1>5. first \in HotkeyTypes
    BY <1>3, <1>4, FirstPassAfter DEF FirstPassKnown
<1>6. mIsRegistered' \in [DOMAIN hot -> BOOLEAN] /\ refused' \subseteq Contested
    BY <1>1, <1>4 DEF CanRegister
<1>7. mType' \in [DOMAIN hot -> {"normal", "hook"}]
    BY <1>4, <1>5 DEF HotkeyTypes
<1>8. /\ mRunAgainAfterFinished' \in [HV -> BOOLEAN]
      /\ \A hv \in HV : mRunAgainAfterFinished'[hv] => runAgain[hv]
    BY <1>4
<1> QED BY <1>6, <1>7, <1>8

OptionsTyped ==
    /\ mJumpToLabel \in [HV -> Label] /\ mMaxThreads \in [HV -> Nat]
    /\ mMaxThreadsBuffer \in [HV -> BOOLEAN]
    /\ \A hv \in HV : /\ mJumpToLabel[hv] \in Attr[hv].mJumpToLabel
                       /\ mMaxThreads[hv] \in 1..MAX_THREADS_LIMIT
                       /\ mMaxThreadsBuffer[hv] \in Attr[hv].mMaxThreadsBuffer

\* A command leaves the threads alone, and buffers nothing.
LEMMA CommandTyped ==
    ASSUME TypeInv,
           UNCHANGED <<mExistingThreads, queue, threads, throttle, outside>>,
           sHotkeyCount' \in 0..Len(shk),
           mType' \in [DOMAIN hot -> {"normal", "hook"}],
           mIsRegistered' \in [DOMAIN hot -> BOOLEAN] /\ refused' \subseteq Contested,
           g_IsSuspended' \in BOOLEAN, OptionsTyped',
           mEnabled' \in [HV -> BOOLEAN], Created',
           mRunAgainAfterFinished' \in [HV -> BOOLEAN],
           \A hv \in HV : mRunAgainAfterFinished'[hv] =>
                mRunAgainAfterFinished[hv] /\ mEnabled'[hv]
    PROVE  TypeInv'
<1>1. TypeOK'
    BY DEF TypeInv, TypeOK, OptionsTyped, throttle, outside
<1>2. ThreadsCounted'
    BY DEF TypeInv, ThreadsCounted
<1>3. Buffered'
    BY DEF TypeInv, Buffered, NoWarning
<1> QED BY <1>1, <1>2, <1>3 DEF TypeInv, OptionsTyped

LEMMA OptionsKept ==
    ASSUME TypeInv, UNCHANGED options PROVE OptionsTyped'
BY DEF TypeInv, TypeOK, OptionsTyped, options

LEMMA LoadTyped ==
    ASSUME TypeInv, NEW n \in DOMAIN hot, Load(n) PROVE TypeInv'
<1>1. Len(shk) \in Nat /\ DOMAIN hot = 1..Len(shk)
    BY Shapes
<1>2. /\ sHotkeyCount = 0 /\ sHotkeyCount' = n
      /\ mEnabled' = [hv \in HV |-> hv[1] <= n]
      /\ UNCHANGED <<g_IsSuspended, options, mExistingThreads, queue, threads,
                     throttle, outside>>
      /\ Manifest(mRunAgainAfterFinished)
    BY DEF Load
<1>3. sHotkeyCount' \in 0..Len(shk)
    BY <1>1, <1>2
<1>4. mRunAgainAfterFinished \in [HV -> BOOLEAN] /\ g_IsSuspended' \in BOOLEAN
    BY <1>2 DEF TypeInv, TypeOK
<1>5. /\ mType' \in [DOMAIN hot -> {"normal", "hook"}]
      /\ mIsRegistered' \in [DOMAIN hot -> BOOLEAN] /\ refused' \subseteq Contested
      /\ mRunAgainAfterFinished' \in [HV -> BOOLEAN]
      /\ \A hv \in HV : mRunAgainAfterFinished'[hv] => mRunAgainAfterFinished[hv]
    BY <1>2, <1>3, <1>4, ManifestTyped
<1>6. \A hv \in HV : ~mRunAgainAfterFinished[hv]
    <2>1. \A hv \in HV : hv[1] \notin Ids
        BY <1>2, Shapes DEF Ids
    <2> QED BY <2>1 DEF TypeInv, Created, Buffered
<1>7. mEnabled' \in [HV -> BOOLEAN]
    BY <1>2
<1>8. Created'
    <2>1. \A hv \in HV : hv[1] <= n => hv[1] \in 1..n
        BY <1>1, Shapes
    <2> QED BY <1>2, <2>1 DEF Created, Ids
<1> QED BY <1>2, <1>3, <1>4, <1>5, <1>6, <1>7, <1>8, OptionsKept, CommandTyped

LEMMA ToggleTyped == ASSUME TypeInv, ToggleSuspendState PROVE TypeInv'
<1>1. /\ g_IsSuspended' = ~g_IsSuspended
      /\ UNCHANGED <<sHotkeyCount, options, mEnabled, mExistingThreads, queue,
                     threads, throttle, outside>>
      /\ Manifest(mRunAgainAfterFinished)
    BY DEF ToggleSuspendState
<1>2. /\ sHotkeyCount' \in 0..Len(shk) /\ mEnabled' \in [HV -> BOOLEAN]
      /\ mRunAgainAfterFinished \in [HV -> BOOLEAN] /\ g_IsSuspended' \in BOOLEAN
    BY <1>1 DEF TypeInv, TypeOK
<1>3. /\ mType' \in [DOMAIN hot -> {"normal", "hook"}]
      /\ mIsRegistered' \in [DOMAIN hot -> BOOLEAN] /\ refused' \subseteq Contested
      /\ mRunAgainAfterFinished' \in [HV -> BOOLEAN]
      /\ \A hv \in HV : mRunAgainAfterFinished'[hv] => mRunAgainAfterFinished[hv]
    BY <1>1, <1>2, ManifestTyped
<1>4. Created'
    BY <1>1 DEF TypeInv, Created, Ids
<1>5. \A hv \in HV : mRunAgainAfterFinished'[hv] => mEnabled'[hv]
    BY <1>1, <1>3 DEF TypeInv, Buffered
<1> QED BY <1>1, <1>2, <1>3, <1>4, <1>5, OptionsKept, CommandTyped

LEMMA OnOffTyped ==
    ASSUME TypeInv, NEW hv \in HV, DynamicOnOff(hv) PROVE TypeInv'
<1> DEFINE again == IF mEnabled[hv] THEN Disable(hv) ELSE mRunAgainAfterFinished
<1>1. /\ hv[1] \in Ids /\ mEnabled' = [mEnabled EXCEPT ![hv] = ~@]
      /\ UNCHANGED <<sHotkeyCount, g_IsSuspended, options, mExistingThreads,
                     queue, threads, throttle, outside>>
      /\ Manifest(again)
    BY DEF DynamicOnOff
<1>2. /\ sHotkeyCount' \in 0..Len(shk) /\ mEnabled \in [HV -> BOOLEAN]
      /\ mRunAgainAfterFinished \in [HV -> BOOLEAN] /\ g_IsSuspended' \in BOOLEAN
    BY <1>1 DEF TypeInv, TypeOK
<1>3. again \in [HV -> BOOLEAN]
    BY <1>2 DEF Disable
<1>4. \A w \in HV : again[w] =>
            mRunAgainAfterFinished[w] /\ (w = hv => ~mEnabled[hv])
    BY <1>2 DEF Disable
<1> HIDE DEF again
<1>5. /\ mType' \in [DOMAIN hot -> {"normal", "hook"}]
      /\ mIsRegistered' \in [DOMAIN hot -> BOOLEAN] /\ refused' \subseteq Contested
      /\ mRunAgainAfterFinished' \in [HV -> BOOLEAN]
      /\ \A w \in HV : mRunAgainAfterFinished'[w] => again[w]
    BY <1>1, <1>2, <1>3, ManifestTyped
<1>6. /\ mEnabled' \in [HV -> BOOLEAN] /\ mEnabled'[hv] = ~mEnabled[hv]
      /\ \A w \in HV : w # hv => mEnabled'[w] = mEnabled[w]
    BY <1>1, <1>2
<1>7. Created'
    BY <1>1, <1>6 DEF TypeInv, Created, Ids
<1>8. \A w \in HV : mRunAgainAfterFinished'[w] =>
            mRunAgainAfterFinished[w] /\ mEnabled'[w]
    BY <1>4, <1>5, <1>6 DEF TypeInv, Buffered
<1> QED BY <1>1, <1>2, <1>5, <1>6, <1>7, <1>8, OptionsKept, CommandTyped

LEMMA LabelTyped ==
    ASSUME TypeInv, NEW hv \in HV, DynamicLabel(hv) PROVE TypeInv'
<1>1. PICK label \in Attr[hv].mJumpToLabel \ {mJumpToLabel[hv]} :
        /\ mJumpToLabel' = [mJumpToLabel EXCEPT ![hv] = label]
        /\ UNCHANGED <<sHotkeyCount, g_IsSuspended, mMaxThreads,
                       mMaxThreadsBuffer, mEnabled, mExistingThreads,
                       queue, threads, throttle, outside>>
        /\ IF AffectsEffect(hv, label) THEN Manifest(mRunAgainAfterFinished)
           ELSE UNCHANGED <<mType, mIsRegistered, refused, mRunAgainAfterFinished>>
    BY DEF DynamicLabel
<1>2. /\ sHotkeyCount' \in 0..Len(shk) /\ mEnabled' \in [HV -> BOOLEAN]
      /\ mRunAgainAfterFinished \in [HV -> BOOLEAN] /\ g_IsSuspended' \in BOOLEAN
    BY <1>1 DEF TypeInv, TypeOK
<1>3. /\ mType' \in [DOMAIN hot -> {"normal", "hook"}]
      /\ mIsRegistered' \in [DOMAIN hot -> BOOLEAN] /\ refused' \subseteq Contested
      /\ mRunAgainAfterFinished' \in [HV -> BOOLEAN]
      /\ \A w \in HV : mRunAgainAfterFinished'[w] => mRunAgainAfterFinished[w]
    <2>1. CASE Manifest(mRunAgainAfterFinished)
        BY <1>2, <2>1, ManifestTyped
    <2>2. CASE UNCHANGED <<mType, mIsRegistered, refused, mRunAgainAfterFinished>>
        BY <2>2 DEF TypeInv, TypeOK
    <2> QED BY <1>1, <2>1, <2>2
<1>4. OptionsTyped'
    <2>1. label \in Label
        BY VariantShapes
    <2>2. mJumpToLabel' \in [HV -> Label]
        BY <1>1, <2>1 DEF TypeInv
    <2>3. \A w \in HV : mJumpToLabel'[w] \in Attr[w].mJumpToLabel
        BY <1>1 DEF TypeInv, TypeOK
    <2> QED BY <1>1, <2>2, <2>3 DEF TypeInv, TypeOK, OptionsTyped
<1>5. Created'
    BY <1>1 DEF TypeInv, Created, Ids
<1>6. \A w \in HV : mRunAgainAfterFinished'[w] => mEnabled'[w]
    BY <1>1, <1>3 DEF TypeInv, Buffered
<1> QED BY <1>1, <1>2, <1>3, <1>4, <1>5, <1>6, CommandTyped

LEMMA OptionTyped ==
    ASSUME TypeInv, NEW hv \in HV, DynamicOptions(hv) PROVE TypeInv'
<1>1. /\ \/ \E n \in Attr[hv].Limits :
                /\ mMaxThreads' = [mMaxThreads EXCEPT ![hv] = MaxThreadsFor(n)]
                /\ UNCHANGED mMaxThreadsBuffer
         \/ \E on \in Attr[hv].mMaxThreadsBuffer \ {mMaxThreadsBuffer[hv]} :
                /\ mMaxThreadsBuffer' = [mMaxThreadsBuffer EXCEPT ![hv] = on]
                /\ UNCHANGED mMaxThreads
      /\ UNCHANGED <<registration, g_IsSuspended, mJumpToLabel, mEnabled,
                     flags, queue, threads, throttle, outside>>
    BY DEF DynamicOptions
<1>2. OptionsTyped'
    <2>1. CASE \E n \in Attr[hv].Limits :
                /\ mMaxThreads' = [mMaxThreads EXCEPT ![hv] = MaxThreadsFor(n)]
                /\ UNCHANGED mMaxThreadsBuffer
        <3>1. PICK n \in Attr[hv].Limits :
                mMaxThreads' = [mMaxThreads EXCEPT ![hv] = MaxThreadsFor(n)]
            BY <2>1
        <3>2. n \in Nat /\ n % 256 \in 0..255
            BY VariantShapes
        <3>3. MaxThreadsFor(n) \in 1..MAX_THREADS_LIMIT
            <4> DEFINE byte == n % 256
            <4>1. byte \in Nat /\ MAX_THREADS_LIMIT \in Nat \ {0}
                <5>1. byte \in 0..255
                    BY <3>2
                <5> HIDE DEF byte
                <5> QED BY <5>1, HotkeysAssumption
            <4>2. MaxThreadsFor(n) =
                    IF byte > MAX_THREADS_LIMIT THEN MAX_THREADS_LIMIT
                    ELSE IF byte < 1 THEN 1 ELSE byte
                BY DEF MaxThreadsFor
            <4> HIDE DEF byte
            <4> QED BY <4>1, <4>2
        <3>4. MaxThreadsFor(n) \in Nat
            BY <3>3
        <3>5. mMaxThreads' \in [HV -> Nat]
            BY <3>1, <3>4 DEF TypeInv
        <3>6. \A w \in HV : mMaxThreads'[w] \in 1..MAX_THREADS_LIMIT
            BY <3>1, <3>3 DEF TypeInv, TypeOK
        <3> QED BY <1>1, <2>1, <3>5, <3>6 DEF OptionsTyped, TypeInv, TypeOK
    <2>2. CASE \E on \in Attr[hv].mMaxThreadsBuffer \ {mMaxThreadsBuffer[hv]} :
                /\ mMaxThreadsBuffer' = [mMaxThreadsBuffer EXCEPT ![hv] = on]
                /\ UNCHANGED mMaxThreads
        <3>1. PICK on \in Attr[hv].mMaxThreadsBuffer :
                mMaxThreadsBuffer' = [mMaxThreadsBuffer EXCEPT ![hv] = on]
            BY <2>2
        <3>2. on \in BOOLEAN
            BY VariantShapes
        <3>3. mMaxThreadsBuffer' \in [HV -> BOOLEAN]
            BY <3>1, <3>2 DEF TypeInv
        <3>4. \A w \in HV : mMaxThreadsBuffer'[w] \in Attr[w].mMaxThreadsBuffer
            BY <3>1 DEF TypeInv, TypeOK
        <3> QED BY <1>1, <2>2, <3>3, <3>4 DEF OptionsTyped, TypeInv, TypeOK
    <2> QED BY <1>1, <2>1, <2>2
<1>3. /\ sHotkeyCount' \in 0..Len(shk) /\ mEnabled' \in [HV -> BOOLEAN]
      /\ mType' \in [DOMAIN hot -> {"normal", "hook"}]
      /\ mIsRegistered' \in [DOMAIN hot -> BOOLEAN] /\ refused' \subseteq Contested
      /\ mRunAgainAfterFinished' \in [HV -> BOOLEAN] /\ g_IsSuspended' \in BOOLEAN
    BY <1>1 DEF TypeInv, TypeOK, registration, flags
<1>4. Created'
    BY <1>1 DEF TypeInv, Created, Ids, registration
<1>5. /\ UNCHANGED <<mExistingThreads, queue, threads, throttle, outside>>
      /\ \A w \in HV : mRunAgainAfterFinished'[w] =>
            mRunAgainAfterFinished[w] /\ mEnabled'[w]
    BY <1>1 DEF TypeInv, Buffered, flags
<1> QED BY <1>2, <1>3, <1>4, <1>5, CommandTyped

LEMMA NewTyped ==
    ASSUME TypeInv, NEW on \in BOOLEAN, DynamicNew(on) PROVE TypeInv'
<1>1. /\ sHotkeyCount < Len(shk) /\ sHotkeyCount' = sHotkeyCount + 1
      /\ mEnabled' = [hv \in HV |-> IF hv[1] = sHotkeyCount' THEN on
                                    ELSE mEnabled[hv]]
      /\ UNCHANGED <<g_IsSuspended, options, mExistingThreads, queue, threads,
                     throttle, outside>>
      /\ IF on THEN Manifest(mRunAgainAfterFinished)
         ELSE UNCHANGED <<mType, mIsRegistered, refused, mRunAgainAfterFinished>>
    BY DEF DynamicNew
<1>2. /\ Len(shk) \in Nat /\ sHotkeyCount \in 0..Len(shk)
      /\ mEnabled \in [HV -> BOOLEAN] /\ g_IsSuspended' \in BOOLEAN
      /\ mRunAgainAfterFinished \in [HV -> BOOLEAN]
    BY <1>1, Shapes DEF TypeInv, TypeOK
<1>3. sHotkeyCount' \in 0..Len(shk)
    BY <1>1, <1>2
<1>4. /\ mType' \in [DOMAIN hot -> {"normal", "hook"}]
      /\ mIsRegistered' \in [DOMAIN hot -> BOOLEAN] /\ refused' \subseteq Contested
      /\ mRunAgainAfterFinished' \in [HV -> BOOLEAN]
      /\ \A w \in HV : mRunAgainAfterFinished'[w] => mRunAgainAfterFinished[w]
    <2>1. CASE Manifest(mRunAgainAfterFinished)
        BY <1>2, <1>3, <2>1, ManifestTyped
    <2>2. CASE UNCHANGED <<mType, mIsRegistered, refused, mRunAgainAfterFinished>>
        BY <2>2 DEF TypeInv, TypeOK
    <2> QED BY <1>1, <2>1, <2>2
<1>5. mEnabled' \in [HV -> BOOLEAN]
    BY <1>1, <1>2
<1>6. sHotkeyCount + 1 \in 1..(sHotkeyCount + 1) /\ (sHotkeyCount + 1) \notin Ids
      /\ \A h \in Ids : h \in 1..(sHotkeyCount + 1)
    BY <1>2 DEF Ids
<1>7. Created'
    BY <1>1, <1>6 DEF TypeInv, Created, Ids
<1>8. \A hv \in HV : mRunAgainAfterFinished'[hv] => mEnabled'[hv]
    BY <1>1, <1>4, <1>6 DEF TypeInv, Created, Buffered
<1> QED BY <1>1, <1>2, <1>3, <1>4, <1>5, <1>7, <1>8, OptionsKept, CommandTyped

-----------------------------------------------------------------------------
(* Presses, launches and returns keep the invariant *)

OnlyTopWarns ==
    \A i \in 1..Len(threads) : threads[i].at = "warning" => i = Len(threads)

LEMMA PressTyped ==
    ASSUME TypeInv, UNCHANGED <<registration, g_IsSuspended, options, mEnabled>>,
           queue' \in Seq(DOMAIN hot), threads' \in Seq(HotkeyThread),
           OnlyTopWarns', mExistingThreads' \in [HV -> Nat], ThreadsCounted',
           mRunAgainAfterFinished' \in [HV -> BOOLEAN], Buffered',
           throttled_key_count' \in 0..g_MaxHotkeysPerInterval + 1,
           reached' \in BOOLEAN, matched' \in BOOLEAN, taken' \subseteq Contested
    PROVE  TypeInv'
<1>1. OptionsTyped'
    BY OptionsKept
<1>2. /\ sHotkeyCount' \in 0..Len(shk) /\ mEnabled' \in [HV -> BOOLEAN]
      /\ mType' \in [DOMAIN hot -> {"normal", "hook"}]
      /\ mIsRegistered' \in [DOMAIN hot -> BOOLEAN] /\ refused' \subseteq Contested
      /\ g_IsSuspended' \in BOOLEAN
      /\ sHotkeyCount' = sHotkeyCount /\ mEnabled' = mEnabled
    BY DEF TypeInv, TypeOK, registration
<1>3. TypeOK'
    BY <1>1, <1>2 DEF TypeOK, OptionsTyped, OnlyTopWarns, HotkeyThread
<1>4. Created'
    BY <1>2 DEF TypeInv, Created, Ids
<1> QED BY <1>1, <1>3, <1>4 DEF TypeInv, OptionsTyped

\* What a step that leaves the threads and the flags alone keeps of them.
LEMMA StackKept ==
    ASSUME TypeInv, UNCHANGED <<threads, flags, mEnabled>>
    PROVE  /\ threads' \in Seq(HotkeyThread) /\ OnlyTopWarns'
           /\ mExistingThreads' \in [HV -> Nat] /\ ThreadsCounted'
           /\ mRunAgainAfterFinished' \in [HV -> BOOLEAN] /\ Buffered'
<1>1. UNCHANGED <<threads, mExistingThreads, mRunAgainAfterFinished, mEnabled>>
    BY DEF flags
<1> QED BY <1>1 DEF TypeInv, TypeOK, HotkeyThread, OnlyTopWarns, ThreadsCounted,
                    Buffered, NoWarning

LEMMA ThrottleKept ==
    ASSUME TypeInv, UNCHANGED throttle
    PROVE  /\ throttled_key_count' \in 0..g_MaxHotkeysPerInterval + 1
           /\ reached' \in BOOLEAN
BY DEF TypeInv, TypeOK, throttle

LEMMA OutsideKept ==
    ASSUME TypeInv, UNCHANGED outside
    PROVE  matched' \in BOOLEAN /\ taken' \subseteq Contested
BY DEF TypeInv, TypeOK, outside

LEMMA RegisteredPressTyped ==
    ASSUME TypeInv, NEW h \in DOMAIN hot, Press(h) PROVE TypeInv'
<1>1. queue' = Append(queue, h) /\ queue \in Seq(DOMAIN hot)
    BY DEF Press, TypeInv, TypeOK
<1>2. queue' \in Seq(DOMAIN hot)
    BY <1>1, AppendProperties
<1> QED BY <1>2, StackKept, ThrottleKept, OutsideKept, PressTyped DEF Press

LEMMA DiscardedTyped ==
    ASSUME TypeInv, DiscardedByWarning PROVE TypeInv'
<1>1. queue' = Tail(queue) /\ queue \in Seq(DOMAIN hot) /\ queue # <<>>
    BY DEF DiscardedByWarning, TypeInv, TypeOK
<1>2. queue' \in Seq(DOMAIN hot)
    BY <1>1, HeadTailProperties
<1> QED BY <1>2, StackKept, ThrottleKept, OutsideKept, PressTyped
        DEF DiscardedByWarning

LEMMA OthersTyped == ASSUME TypeInv, OthersAct PROVE TypeInv'
<1>1. queue' \in Seq(DOMAIN hot)
    BY DEF OthersAct, TypeInv, TypeOK
<1>2. matched' \in BOOLEAN /\ taken' \subseteq Contested
    <2>1. taken \subseteq Contested /\ matched \in BOOLEAN
        BY DEF TypeInv, TypeOK
    <2>2. CASE matched' = ~matched /\ UNCHANGED taken
        BY <2>1, <2>2
    <2>3. CASE UNCHANGED matched
            /\ \E h \in Contested : taken' = SymDiff(taken, {h})
        BY <2>1, <2>3 DEF SymDiff
    <2> QED BY <2>2, <2>3 DEF OthersAct
<1> QED BY <1>1, <1>2, StackKept, ThrottleKept, PressTyped DEF OthersAct

\* The threads and their count agree.
LEMMA CountedRuns ==
    ASSUME TypeInv
    PROVE  /\ threads \in Seq(HotkeyThread)
           /\ mExistingThreads \in [HV -> Nat]
           /\ \A hv \in HV : mExistingThreads[hv] = Cardinality(Runs(threads, hv))
BY DEF TypeInv, TypeOK, HotkeyThread, ThreadsCounted, Runs

LEMMA WarningEndsTyped == ASSUME TypeInv, WarningEnds PROVE TypeInv'
<1> DEFINE below == SubSeq(threads, 1, Len(threads) - 1)
           top == threads[Len(threads)]
<1>1. /\ ~NoWarning /\ threads' = below
      /\ UNCHANGED <<registration, g_IsSuspended, options, mEnabled, flags,
                     queue, throttle, outside>>
    BY DEF WarningEnds
<1>2. PICK i \in 1..Len(threads) : threads[i].at # "running"
    BY <1>1 DEF NoWarning
<1>3. threads \in Seq(HotkeyThread) /\ threads # <<>>
    BY <1>2, EmptySeq, CountedRuns
<1>4. /\ below \in Seq(HotkeyThread) /\ top \in HotkeyThread
      /\ Len(threads) \in Nat \ {0} /\ Len(below) = Len(threads) - 1
      /\ \A j \in 1..Len(below) : below[j] = threads[j]
      /\ \A hv : Cardinality(Runs(threads, hv)) =
            IF top.hv = hv /\ top.at = "running"
            THEN Cardinality(Runs(below, hv)) + 1
            ELSE Cardinality(Runs(below, hv))
    BY <1>3, RunsPopped
<1>5. top.at = "warning"
    <2>1. threads[i] \in HotkeyThread
        BY <1>3, ElementOfSeq
    <2>2. i = Len(threads)
        BY <1>2, <2>1 DEF TypeInv, TypeOK, HotkeyThread
    <2> QED BY <1>2, <2>1, <2>2 DEF HotkeyThread
<1> HIDE DEF below, top
<1>6. OnlyTopWarns'
    <2>1. \A j \in 1..Len(below) : j \in 1..Len(threads) /\ j # Len(threads)
        BY <1>4
    <2>2. \A j \in 1..Len(below) : below[j].at # "warning"
        BY <1>4, <2>1 DEF TypeInv, TypeOK
    <2> QED BY <1>1, <2>2 DEF OnlyTopWarns
<1>7. ThreadsCounted'
    <2>1. \A hv \in HV : mExistingThreads[hv] = Cardinality(Runs(below, hv))
        BY <1>4, <1>5, CountedRuns
    <2> QED BY <1>1, <2>1 DEF ThreadsCounted, Runs, flags
<1>8. \A hv \in HV : ~mRunAgainAfterFinished[hv]
    BY <1>1 DEF TypeInv, Buffered
<1>9. Buffered'
    BY <1>1, <1>8 DEF Buffered, flags
<1>10. /\ threads' \in Seq(HotkeyThread) /\ queue' \in Seq(DOMAIN hot)
       /\ mExistingThreads' \in [HV -> Nat]
       /\ mRunAgainAfterFinished' \in [HV -> BOOLEAN]
    BY <1>1, <1>4 DEF TypeInv, TypeOK, flags
<1> QED BY <1>1, <1>6, <1>7, <1>9, <1>10, ThrottleKept, OutsideKept, PressTyped

LEMMA ReturnTyped ==
    ASSUME TypeInv, NEW failed \in BOOLEAN, NEW late \in BOOLEAN,
           PerformReturns(failed, late)
    PROVE  TypeInv'
<1> DEFINE below == SubSeq(threads, 1, Len(threads) - 1)
           top == threads[Len(threads)]
           hv == top.hv
<1>1. /\ threads # <<>> /\ NoWarning /\ threads' = below
      /\ mExistingThreads' = [mExistingThreads EXCEPT ![hv] = @ - 1]
      /\ mRunAgainAfterFinished' = [mRunAgainAfterFinished EXCEPT ![hv] = FALSE]
      /\ queue' = IF mRunAgainAfterFinished[hv] /\ ~failed /\ ~late
                  THEN Append(queue, hv[1]) ELSE queue
      /\ UNCHANGED <<registration, g_IsSuspended, options, mEnabled, throttle,
                     outside>>
    BY DEF PerformReturns, Left, TicketUsed
<1>2. threads \in Seq(HotkeyThread)
    BY CountedRuns
<1>3. /\ below \in Seq(HotkeyThread) /\ top \in HotkeyThread
      /\ Len(threads) \in Nat \ {0} /\ Len(below) = Len(threads) - 1
      /\ \A j \in 1..Len(below) : below[j] = threads[j]
      /\ \A w : Cardinality(Runs(threads, w)) =
            IF top.hv = w /\ top.at = "running"
            THEN Cardinality(Runs(below, w)) + 1
            ELSE Cardinality(Runs(below, w))
    BY <1>1, <1>2, RunsPopped
<1>4. hv \in HV /\ top.at = "running" /\ hv[1] \in DOMAIN hot
    <2>1. Len(threads) \in 1..Len(threads)
        BY <1>3
    <2> QED BY <1>1, <1>3, <2>1, Shapes DEF NoWarning, HotkeyThread
<1>5. /\ \A j \in 1..Len(below) : j \in 1..Len(threads)
      /\ \A j \in 1..Len(threads) : j \in 1..Len(below) \/ j = Len(threads)
    BY <1>3
<1>6. \A w \in HV : /\ Cardinality(Runs(below, w)) \in Nat
                    /\ mExistingThreads'[w] = Cardinality(Runs(below, w))
    <2> HIDE DEF below, hv
    <2>1. ASSUME NEW w \in HV
          PROVE  /\ Cardinality(Runs(below, w)) \in Nat
                 /\ mExistingThreads'[w] = Cardinality(Runs(below, w))
        <3>1. Cardinality(Runs(below, w)) \in Nat
            BY <1>3, RunsFinite
        <3>2. CASE w = hv
            <4>1. mExistingThreads[w] = Cardinality(Runs(below, w)) + 1
                BY <1>3, <1>4, <3>2, CountedRuns DEF hv
            <4>2. mExistingThreads'[w] = mExistingThreads[w] - 1
                BY <1>1, <3>2, CountedRuns
            <4> QED BY <3>1, <4>1, <4>2
        <3>3. CASE w # hv
            <4>1. mExistingThreads[w] = Cardinality(Runs(below, w))
                BY <1>3, <3>3, CountedRuns DEF hv
            <4>2. mExistingThreads'[w] = mExistingThreads[w]
                BY <1>1, <3>3, CountedRuns
            <4> QED BY <3>1, <4>1, <4>2
        <3> QED BY <3>2, <3>3
    <2> QED BY <2>1
<1> HIDE DEF below
<1>7. NoWarning' /\ OnlyTopWarns'
    <2>1. \A j \in 1..Len(below) : below[j].at = "running"
        BY <1>1, <1>3, <1>5 DEF NoWarning
    <2> QED BY <1>1, <2>1 DEF NoWarning, OnlyTopWarns
<1>8. ThreadsCounted' /\ mExistingThreads' \in [HV -> Nat]
    <2>1. ThreadsCounted'
        BY <1>1, <1>6 DEF ThreadsCounted, Runs
    <2>2. mExistingThreads' \in [HV -> Nat]
        <3> HIDE DEF hv
        <3> QED BY <1>1, <1>6, CountedRuns
    <2> QED BY <2>1, <2>2
<1>9. /\ mRunAgainAfterFinished' \in [HV -> BOOLEAN]
      /\ \A w \in HV : mRunAgainAfterFinished'[w] =>
                mRunAgainAfterFinished[w] /\ w # hv
    <2> HIDE DEF hv
    <2> QED BY <1>1 DEF TypeInv, TypeOK
<1>10. Buffered'
    <2>1. ASSUME NEW w \in HV, mRunAgainAfterFinished'[w]
          PROVE  mEnabled'[w] /\ \E j \in 1..Len(below) : below[j].hv = w
        <3>1. mEnabled[w] /\ \E j \in 1..Len(threads) : threads[j].hv = w
            BY <1>9, <2>1 DEF TypeInv, Buffered
        <3>2. PICK j \in 1..Len(threads) : threads[j].hv = w
            BY <3>1
        <3>3. j # Len(threads)
            BY <1>9, <2>1, <3>2
        <3> QED BY <1>1, <1>3, <1>5, <3>1, <3>2, <3>3
    <2> QED BY <1>1, <1>7, <2>1 DEF Buffered
<1>11. queue' \in Seq(DOMAIN hot)
    <2>1. queue \in Seq(DOMAIN hot)
        BY DEF TypeInv, TypeOK
    <2>2. Append(queue, hv[1]) \in Seq(DOMAIN hot)
        BY <1>4, <2>1, AppendProperties
    <2> QED BY <1>1, <2>1, <2>2
<1>12. threads' \in Seq(HotkeyThread)
    BY <1>1, <1>3
<1> QED BY <1>1, <1>7, <1>8, <1>9, <1>10, <1>11, <1>12, ThrottleKept,
           OutsideKept, PressTyped

\* The variant that a press may launch is one that is usable.
LEMMA FiringIsUsable ==
    ASSUME NEW h \in DOMAIN hot, NEW v \in CriterionAllowsFiring(h)
    PROVE  v \in Usable(h) /\ <<h, v>> \in HV
<1> DEFINE n == Len(hot[h].variants)
           specific == {w \in Usable(h) :
                            Attr[<<h, w>>].mHotCriterion # "HOT_NO_CRITERION"}
<1>1. n \in Nat
    BY Shapes
<1>2. Usable(h) \subseteq 0..n /\ specific \subseteq 0..n
    BY <1>1 DEF Usable, Variants
<1>3. CriterionAllowsFiring(h) =
            IF specific # {} THEN {Min(specific)}
            ELSE IF Usable(h) # {} THEN {Max(Usable(h))} ELSE {}
    BY DEF CriterionAllowsFiring
<1>4. specific \subseteq Usable(h)
    OBVIOUS
<1> HIDE DEF specific, n
<1>5. specific # {} => Min(specific) \in specific
    <2>1. specific \subseteq Nat
        BY <1>1, <1>2
    <2> QED BY <2>1, LeastOf
<1>6. Usable(h) # {} => Max(Usable(h)) \in Usable(h)
    BY <1>1, <1>2, GreatestOf
<1>7. v \in Usable(h)
    BY <1>3, <1>4, <1>5, <1>6
<1>8. v \in Variants(h)
    BY <1>7 DEF Usable
<1> QED BY <1>7, <1>8, Shapes

LEMMA TwoLeast ==
    ASSUME NEW a \in Nat, NEW b \in Nat
    PROVE  Min({a, b}) \in Nat /\ Min({a, b}) <= b
<1>1. {a, b} \subseteq Nat /\ {a, b} # {} /\ b \in {a, b}
    OBVIOUS
<1>2. Min({a, b}) \in {a, b} /\ \A n \in {a, b} : Min({a, b}) <= n
    BY <1>1, LeastOf
<1> QED BY <1>1, <1>2

\* What a fetched press does.
LEMMA FetchCases ==
    ASSUME TypeInv, Fetch
    PROVE  \/ UNCHANGED <<mExistingThreads, threads, throttle,
                          mRunAgainAfterFinished>>
           \/ \E hv \in HV :
                /\ hv[2] \in Usable(hv[1])
                /\ \/ PerformIsAllowed(hv) /\ Perform(hv)
                   \/ /\ ~PerformIsAllowed(hv) /\ RunAgainAfterFinished(hv)
                      /\ UNCHANGED <<mExistingThreads, threads, throttle>>
<1> DEFINE h == Head(queue)
           variant == {<<h, v>> : v \in CriterionAllowsFiring(h)}
           ignored == UNCHANGED <<mExistingThreads, threads, throttle>>
<1>1. \/ ignored /\ UNCHANGED mRunAgainAfterFinished
      \/ \E hv \in variant :
            IF PerformIsAllowed(hv) THEN Perform(hv)
            ELSE RunAgainAfterFinished(hv) /\ ignored
    BY DEF Fetch
<1>2. h \in DOMAIN hot
    BY HeadTailProperties DEF Fetch, TypeInv, TypeOK
<1>3. CASE \E hv \in variant :
            IF PerformIsAllowed(hv) THEN Perform(hv)
            ELSE RunAgainAfterFinished(hv) /\ ignored
    <2> HIDE DEF variant
    <2>1. PICK hv \in variant :
            IF PerformIsAllowed(hv) THEN Perform(hv)
            ELSE RunAgainAfterFinished(hv) /\ ignored
        BY <1>3
    <2> HIDE DEF h
    <2>2. PICK v \in CriterionAllowsFiring(h) : hv = <<h, v>>
        BY <2>1 DEF variant
    <2>3. hv \in HV /\ hv[1] = h /\ hv[2] = v /\ v \in Usable(h)
        BY <1>2, <2>2, FiringIsUsable
    <2> QED BY <2>1, <2>3
<1>4. CASE ignored /\ UNCHANGED mRunAgainAfterFinished
    BY <1>4
<1> QED BY <1>1, <1>3, <1>4

\* A launch puts a thread on the stack, unless it puts up the warning.
LEMMA PerformTyped ==
    ASSUME TypeInv, NoWarning, NEW hv \in HV, Perform(hv),
           UNCHANGED mEnabled
    PROVE  /\ threads' \in Seq(HotkeyThread) /\ OnlyTopWarns'
           /\ mExistingThreads' \in [HV -> Nat] /\ ThreadsCounted'
           /\ mRunAgainAfterFinished' \in [HV -> BOOLEAN] /\ Buffered'
           /\ throttled_key_count' \in 0..g_MaxHotkeysPerInterval + 1
           /\ reached' \in BOOLEAN
<1>1. PICK time_until_now \in {"less", "equal", "more"} :
        LET count == throttled_key_count + 1
            display_warning ==
                count > g_MaxHotkeysPerInterval /\ time_until_now = "less"
            restart == display_warning \/ time_until_now = "more"
        IN  /\ reached' = (time_until_now = "equal")
            /\ throttled_key_count' =
                 IF restart THEN 0 ELSE Min({count, g_MaxHotkeysPerInterval + 1})
            /\ threads' = Append(threads,
                 [hv |-> hv, at |-> IF display_warning THEN "warning" ELSE "running"])
            /\ IF display_warning
               THEN /\ mRunAgainAfterFinished' = ResetRunAgainAfterFinished
                    /\ UNCHANGED mExistingThreads
               ELSE /\ mExistingThreads' = [mExistingThreads EXCEPT ![hv] = @ + 1]
                    /\ UNCHANGED mRunAgainAfterFinished
    BY DEF Perform
<1> DEFINE count == throttled_key_count + 1
           display_warning ==
                count > g_MaxHotkeysPerInterval /\ time_until_now = "less"
           top == [hv |-> hv, at |-> IF display_warning THEN "warning"
                                     ELSE "running"]
<1>2. /\ reached' = (time_until_now = "equal")
      /\ threads' = Append(threads, top)
      /\ IF display_warning
         THEN /\ mRunAgainAfterFinished' = ResetRunAgainAfterFinished
              /\ UNCHANGED mExistingThreads
         ELSE /\ mExistingThreads' = [mExistingThreads EXCEPT ![hv] = @ + 1]
              /\ UNCHANGED mRunAgainAfterFinished
    BY <1>1
<1>3. throttled_key_count' \in {0, Min({count, g_MaxHotkeysPerInterval + 1})}
    BY <1>1
<1>4. throttled_key_count' \in 0..g_MaxHotkeysPerInterval + 1
    <2>1. count \in Nat /\ g_MaxHotkeysPerInterval + 1 \in Nat
        BY HotkeysAssumption DEF TypeInv, TypeOK
    <2> HIDE DEF count
    <2> QED BY <1>3, <2>1, TwoLeast
<1>5. reached' \in BOOLEAN
    BY <1>2
<1>6. top \in HotkeyThread /\ top.hv = hv
      /\ top.at = IF display_warning THEN "warning" ELSE "running"
    BY DEF HotkeyThread
<1> HIDE DEF display_warning, top
<1>7. threads \in Seq(HotkeyThread)
    BY CountedRuns
<1>8. /\ threads' \in Seq(HotkeyThread) /\ Len(threads) \in Nat
      /\ Len(threads') = Len(threads) + 1 /\ threads'[Len(threads) + 1] = top
      /\ \A i \in 1..Len(threads) : threads'[i] = threads[i]
    BY <1>2, <1>6, <1>7, AppendProperties
<1>9. /\ \A i \in 1..Len(threads') : i \in 1..Len(threads) \/ i = Len(threads) + 1
      /\ \A i \in 1..Len(threads) : i \in 1..Len(threads')
    BY <1>8
<1>10. OnlyTopWarns' /\ (~display_warning => NoWarning')
    <2>1. \A i \in 1..Len(threads) : threads'[i].at = "running"
        BY <1>8 DEF NoWarning
    <2>2. OnlyTopWarns'
        BY <1>8, <1>9, <2>1 DEF OnlyTopWarns
    <2>3. ~display_warning => NoWarning'
        BY <1>6, <1>8, <1>9, <2>1 DEF NoWarning
    <2> QED BY <2>2, <2>3
<1>11. ASSUME NEW w \in HV
       PROVE  /\ mExistingThreads'[w] = Cardinality(Runs(threads', w))
              /\ mExistingThreads'[w] \in Nat
    <2>1. /\ mExistingThreads[w] = Cardinality(Runs(threads, w))
          /\ mExistingThreads[w] \in Nat
        BY CountedRuns
    <2>2. Cardinality(Runs(threads', w)) =
            IF top.hv = w /\ top.at = "running"
            THEN Cardinality(Runs(threads, w)) + 1
            ELSE Cardinality(Runs(threads, w))
        BY <1>2, <1>6, <1>7, RunsPushed
    <2>3. mExistingThreads'[w] = IF ~display_warning /\ w = hv
                                 THEN mExistingThreads[w] + 1
                                 ELSE mExistingThreads[w]
        BY <1>2, CountedRuns
    <2> QED BY <1>6, <2>1, <2>2, <2>3
<1>12. ThreadsCounted' /\ mExistingThreads' \in [HV -> Nat]
    <2>1. ThreadsCounted'
        BY <1>11 DEF ThreadsCounted, Runs
    <2>2. mExistingThreads' \in [HV -> Nat]
        BY <1>2, <1>11, CountedRuns
    <2> QED BY <2>1, <2>2
<1>13. mRunAgainAfterFinished' \in [HV -> BOOLEAN]
       /\ \A w \in HV : mRunAgainAfterFinished'[w] =>
                ~display_warning /\ mRunAgainAfterFinished[w]
    BY <1>2 DEF ResetRunAgainAfterFinished, TypeInv, TypeOK
<1>14. Buffered'
    <2>1. ASSUME NEW w \in HV, mRunAgainAfterFinished'[w]
          PROVE  mEnabled'[w] /\ \E i \in 1..Len(threads') : threads'[i].hv = w
        <3>1. mEnabled[w] /\ \E i \in 1..Len(threads) : threads[i].hv = w
            BY <1>13, <2>1 DEF TypeInv, Buffered
        <3> QED BY <1>8, <1>9, <3>1
    <2> QED BY <1>10, <1>13, <2>1 DEF Buffered
<1> QED BY <1>4, <1>5, <1>8, <1>10, <1>12, <1>13, <1>14

\* A press that must wait has a thread to wait for.
LEMMA RunAgainTyped ==
    ASSUME TypeInv, NoWarning, NEW hv \in HV, mEnabled[hv],
           ~PerformIsAllowed(hv), RunAgainAfterFinished(hv),
           UNCHANGED <<mExistingThreads, threads, mEnabled>>
    PROVE  mRunAgainAfterFinished' \in [HV -> BOOLEAN] /\ Buffered'
<1>1. /\ mRunAgainAfterFinished' = [mRunAgainAfterFinished EXCEPT
            ![hv] = @ \/ mMaxThreadsBuffer[hv]]
      /\ mRunAgainAfterFinished \in [HV -> BOOLEAN]
      /\ mMaxThreadsBuffer[hv] \in BOOLEAN
    BY DEF RunAgainAfterFinished, TypeInv, TypeOK
<1>2. mRunAgainAfterFinished' \in [HV -> BOOLEAN]
      /\ \A w \in HV : w # hv =>
            mRunAgainAfterFinished'[w] = mRunAgainAfterFinished[w]
    BY <1>1
<1>3. \E i \in 1..Len(threads) : threads[i].hv = hv
    <2>1. mExistingThreads[hv] \in Nat /\ mMaxThreads[hv] \in Nat
          /\ mMaxThreads[hv] >= 1
        BY HotkeysAssumption DEF TypeInv, TypeOK
    <2>2. mExistingThreads[hv] # 0
        BY <2>1 DEF PerformIsAllowed
    <2>3. Runs(threads, hv) # {}
        BY <2>2, CountedRuns, FS_EmptySet
    <2> QED BY <2>3 DEF Runs
<1> QED BY <1>2, <1>3 DEF TypeInv, Buffered, NoWarning

LEMMA FetchTyped == ASSUME TypeInv, Fetch PROVE TypeInv'
<1>1. /\ NoWarning /\ queue # <<>> /\ queue' = Tail(queue)
      /\ UNCHANGED <<registration, g_IsSuspended, options, mEnabled, outside>>
    BY DEF Fetch
<1>2. queue' \in Seq(DOMAIN hot)
    BY <1>1, HeadTailProperties DEF TypeInv, TypeOK
<1>3. CASE UNCHANGED <<mExistingThreads, threads, throttle,
                       mRunAgainAfterFinished>>
    BY <1>1, <1>2, <1>3, StackKept, ThrottleKept, OutsideKept, PressTyped
       DEF flags
<1>4. ASSUME NEW hv \in HV, hv[2] \in Usable(hv[1]), PerformIsAllowed(hv),
             Perform(hv)
      PROVE  TypeInv'
    BY <1>1, <1>2, <1>4, PerformTyped, OutsideKept, PressTyped
<1>5. ASSUME NEW hv \in HV, hv[2] \in Usable(hv[1]), ~PerformIsAllowed(hv),
             RunAgainAfterFinished(hv),
             UNCHANGED <<mExistingThreads, threads, throttle>>
      PROVE  TypeInv'
    <2>1. mEnabled[hv]
        BY <1>5, Shapes DEF Usable
    <2>2. mRunAgainAfterFinished' \in [HV -> BOOLEAN] /\ Buffered'
        BY <1>1, <1>5, <2>1, RunAgainTyped
    <2>3. /\ threads' \in Seq(HotkeyThread) /\ OnlyTopWarns'
          /\ mExistingThreads' \in [HV -> Nat] /\ ThreadsCounted'
        BY <1>5 DEF TypeInv, TypeOK, HotkeyThread, OnlyTopWarns, ThreadsCounted
    <2> QED BY <1>1, <1>2, <1>5, <2>2, <2>3, ThrottleKept, OutsideKept, PressTyped
<1> QED BY <1>3, <1>4, <1>5, FetchCases

LEMMA StutterTyped == ASSUME TypeInv, UNCHANGED vars PROVE TypeInv'
<1>1. /\ UNCHANGED <<registration, g_IsSuspended, options, mEnabled>>
      /\ UNCHANGED <<queue, threads, flags, throttle, outside>>
    BY DEF vars
<1>2. queue' \in Seq(DOMAIN hot)
    BY <1>1 DEF TypeInv, TypeOK
<1> QED BY <1>1, <1>2, StackKept, ThrottleKept, OutsideKept, PressTyped

LEMMA StepTyped == TypeInv /\ [Next]_vars => TypeInv'
<1> SUFFICES ASSUME TypeInv, [Next]_vars PROVE TypeInv'
    OBVIOUS
<1>1. CASE UNCHANGED vars
    BY <1>1, StutterTyped
<1>2. CASE Next
    BY <1>2, LoadTyped, ToggleTyped, OnOffTyped, LabelTyped, OptionTyped,
       NewTyped, RegisteredPressTyped, FetchTyped, DiscardedTyped,
       WarningEndsTyped, ReturnTyped, OthersTyped DEF Next
<1> QED BY <1>1, <1>2

LEMMA Invariant == Spec => []TypeInv
<1>1. Init => TypeInv
    BY InitTyped
<1>2. TypeInv /\ [Next]_vars => TypeInv'
    BY StepTyped
<1> QED BY <1>1, <1>2, PTL DEF Spec

\* However the script suspends, disables, relabels and creates its hotkeys
\* while presses wait, every variable keeps to its values.
THEOREM TypeCorrect == Spec => []TypeOK
<1>1. TypeInv => TypeOK
    BY DEF TypeInv
<1> QED BY <1>1, Invariant, PTL

\* A buffered press always has an enabled variant and a thread to wait for,
\* and the count of the threads is right, for any hotkeys and any limits.
THEOREM BufferNeverForgotten == Spec => []BufferedTakenUp
<1>1. TypeInv => BufferedTakenUp
    BY DEF TypeInv, Buffered, BufferedTakenUp
<1> QED BY <1>1, Invariant, PTL

-----------------------------------------------------------------------------
(* What is checked of a press when it is fetched *)

Checked ==
    \A hv \in HV : mExistingThreads'[hv] > mExistingThreads[hv] =>
        /\ mEnabled[hv]
        /\ g_IsSuspended => mJumpToLabel[hv] = "suspend"
        /\ Attr[hv].mHotCriterion # "HOT_NO_CRITERION" =>
                (Attr[hv].mHotCriterion = "HOT_IF") = matched
        /\ mExistingThreads'[hv] <= mMaxThreads[hv] \/ AlwaysAllowed(hv)

LEMMA SameCount ==
    ASSUME TypeInv, UNCHANGED mExistingThreads PROVE Checked
BY DEF Checked, TypeInv, TypeOK

LEMMA PerformChecked ==
    ASSUME TypeInv, NEW hv \in HV, hv[2] \in Usable(hv[1]),
           PerformIsAllowed(hv), Perform(hv)
    PROVE  Checked
<1>1. \/ UNCHANGED mExistingThreads
      \/ mExistingThreads' = [mExistingThreads EXCEPT ![hv] = @ + 1]
    BY DEF Perform
<1>2. CASE mExistingThreads' = [mExistingThreads EXCEPT ![hv] = @ + 1]
    <2>1. \A w \in HV : mExistingThreads[w] \in Nat /\ mMaxThreads[w] \in Nat
        BY DEF TypeInv, TypeOK
    <2>2. /\ mExistingThreads'[hv] = mExistingThreads[hv] + 1
          /\ \A w \in HV : w # hv => mExistingThreads'[w] = mExistingThreads[w]
        BY <1>2 DEF TypeInv, TypeOK
    <2>3. mExistingThreads'[hv] <= mMaxThreads[hv] \/ AlwaysAllowed(hv)
        BY <2>1, <2>2 DEF PerformIsAllowed
    <2>4. /\ mEnabled[hv] /\ NotSuspended(hv)
          /\ HotCriterionAllowsFiring(Attr[hv].mHotCriterion)
        BY Shapes DEF Usable
    <2>5. g_IsSuspended => mJumpToLabel[hv] = "suspend"
        BY <2>4 DEF NotSuspended
    <2>6. matched \in BOOLEAN
        BY DEF TypeInv, TypeOK
    <2>7. Attr[hv].mHotCriterion # "HOT_NO_CRITERION" =>
                (Attr[hv].mHotCriterion = "HOT_IF") = matched
        BY <2>4, <2>6 DEF HotCriterionAllowsFiring
    <2> QED BY <2>1, <2>2, <2>3, <2>4, <2>5, <2>7 DEF Checked
<1> QED BY <1>1, <1>2, SameCount

LEMMA StepChecked == TypeInv /\ [Next]_vars => [Checked]_vars
<1> SUFFICES ASSUME TypeInv, Next PROVE Checked
    OBVIOUS
<1>1. CASE Fetch
    BY <1>1, FetchCases, SameCount, PerformChecked
<1>2. ASSUME NEW failed \in BOOLEAN, NEW late \in BOOLEAN,
             PerformReturns(failed, late)
      PROVE  Checked
    <2> DEFINE hv == threads[Len(threads)].hv
    <2>1. mExistingThreads' = [mExistingThreads EXCEPT ![hv] = @ - 1]
        BY <1>2 DEF PerformReturns, Left
    <2> HIDE DEF hv
    <2>2. ASSUME NEW w \in HV PROVE ~(mExistingThreads'[w] > mExistingThreads[w])
        <3>1. mExistingThreads \in [HV -> Nat] /\ mExistingThreads[w] \in Nat
            BY DEF TypeInv, TypeOK
        <3>2. mExistingThreads'[w] = IF w = hv THEN mExistingThreads[w] - 1
                                     ELSE mExistingThreads[w]
            BY <2>1, <3>1
        <3> QED BY <3>1, <3>2
    <2> QED BY <2>2 DEF Checked
<1>3. ASSUME NEW n \in DOMAIN hot, Load(n) PROVE Checked
    BY <1>3, SameCount DEF Load
<1>4. CASE ToggleSuspendState
    BY <1>4, SameCount DEF ToggleSuspendState
<1>5. ASSUME NEW hv \in HV,
             DynamicOnOff(hv) \/ DynamicLabel(hv) \/ DynamicOptions(hv)
      PROVE  Checked
    BY <1>5, SameCount DEF DynamicOnOff, DynamicLabel, DynamicOptions, flags
<1>6. ASSUME NEW on \in BOOLEAN, DynamicNew(on) PROVE Checked
    BY <1>6, SameCount DEF DynamicNew
<1>7. ASSUME NEW h \in DOMAIN hot, Press(h) PROVE Checked
    BY <1>7, SameCount DEF Press, flags
<1>8. CASE DiscardedByWarning \/ WarningEnds \/ OthersAct
    BY <1>8, SameCount DEF DiscardedByWarning, WarningEnds, OthersAct, flags
<1> QED BY <1>1, <1>2, <1>3, <1>4, <1>5, <1>6, <1>7, <1>8 DEF Next

\* However long a press has waited, what it launches is enabled, allowed by
\* Suspend and its window, and not one thread too many, at the launch itself.
THEOREM EveryLaunchChecked == Spec => LaunchChecked
<1>1. TypeInv /\ [Next]_vars => [Checked]_vars
    BY StepChecked
<1> QED BY <1>1, Invariant, PTL DEF Spec, LaunchChecked, Checked

-----------------------------------------------------------------------------
(* Which hotkeys are to be registered, whatever their types are now *)

Inert(h) ==
    /\ ~hot[h].mKeyUp /\ ~hot[h].mAllowExtraModifiers
    /\ hot[h].mModifierVK = NoKey

LeftToHook(h) ==
    \E i \in DOMAIN hot : i >= h /\ InEffect(i) /\ <<i, h>> \in TakesToHook
IsPrefix(h) ==
    /\ hot[h].mVK # NoKey
    /\ \E i \in DOMAIN hot : hot[i].mModifierVK = hot[h].mVK /\ InEffect(i)
ShouldRegister(h) ==
    /\ InEffect(h) /\ ~hot[h].mKeybdHookMandatory
    /\ ~LeftToHook(h) /\ ~IsPrefix(h) /\ HasGlobalVariant(h)

Registered ==
    \A h \in DOMAIN hot :
        /\ mIsRegistered[h] => ShouldRegister(h) /\ mType[h] = "normal"
        /\ ShouldRegister(h) /\ h \notin refused => mIsRegistered[h]

\* The two passes register what they should, whatever the types were.
LEMMA PassesAgree ==
    ASSUME sHotkeyCount \in 0..Len(shk), NEW type \in HotkeyTypes,
           NEW first, first = FirstPass(type), NEW h \in DOMAIN hot
    PROVE  h \in ToRegister(first) <=> ShouldRegister(h)
<1>1. /\ Len(shk) \in Nat /\ DOMAIN hot = 1..Len(shk) /\ sHotkeyCount \in Nat
      /\ \A i \in Ids : i \in DOMAIN hot
    BY Shapes DEF Ids
<1>2. \A i : InEffect(i) => i \in Ids
    BY DEF InEffect
<1>3. Taken(h, sHotkeyCount) <=> LeftToHook(h)
    <2>1. \A i \in DOMAIN hot : i \in h..sHotkeyCount <=> i >= h /\ i \in Ids
        BY <1>1 DEF Ids
    <2>2. \A i \in h..sHotkeyCount : i \in DOMAIN hot
        BY <1>1
    <2> QED BY <1>2, <2>1, <2>2 DEF Taken, LeftToHook
<1>4. PromotedToHook(h) <=> IsPrefix(h) \/ ~HasGlobalVariant(h)
    BY <1>1, <1>2 DEF PromotedToHook, IsPrefix, vk_is_prefix
<1>5. h \in Live =>
        (first[h] = "normal" <=>
            ~hot[h].mKeybdHookMandatory /\ ~Taken(h, sHotkeyCount))
    BY FirstPassIs DEF PassType
<1> QED BY <1>2, <1>3, <1>4, <1>5 DEF ToRegister, ShouldRegister, Live

PassesKnown ==
    (sHotkeyCount \in 0..Len(shk)) =>
        \A type \in HotkeyTypes : \A first : first = FirstPass(type) =>
            \A h \in DOMAIN hot : h \in ToRegister(first) <=> ShouldRegister(h)

LEMMA PassesAfter == PassesKnown'
<1>1. PassesKnown
    BY PassesAgree DEF PassesKnown
<1> QED BY <1>1, PTL

LEMMA RegisteredCurrent ==
    ASSUME TypeInv, Registered PROVE RegistrationCurrent
<1>1. mType \in HotkeyTypes /\ sHotkeyCount \in 0..Len(shk)
    BY DEF TypeInv, TypeOK, HotkeyTypes
<1>2. \A h \in DOMAIN hot :
            h \in ToRegister(FirstPass(mType)) <=> ShouldRegister(h)
    BY <1>1, PassesAgree
<1> QED BY <1>2 DEF Registered, RegistrationCurrent

LEMMA ManifestRegisters ==
    ASSUME TypeInv, sHotkeyCount' \in 0..Len(shk), NEW runAgain,
           Manifest(runAgain)
    PROVE  Registered'
<1>1. mType \in HotkeyTypes
    BY DEF TypeInv, TypeOK, HotkeyTypes
<1>2. PICK type \in {mType} : \E first \in {FirstPass(type)'} :
        LET tried == ToRegister(first)'
        IN  /\ mIsRegistered' = [h \in DOMAIN hot |-> h \in tried /\ CanRegister(h)]
            /\ refused' = {h \in tried : ~CanRegister(h)}
            /\ mType' = [h \in DOMAIN hot |->
                    IF h \in Live' /\ ~mIsRegistered'[h] THEN "hook" ELSE first[h]]
    BY DEF Manifest
<1>3. PICK first \in {FirstPass(type)'} :
        LET tried == ToRegister(first)'
        IN  /\ mIsRegistered' = [h \in DOMAIN hot |-> h \in tried /\ CanRegister(h)]
            /\ refused' = {h \in tried : ~CanRegister(h)}
            /\ mType' = [h \in DOMAIN hot |->
                    IF h \in Live' /\ ~mIsRegistered'[h] THEN "hook" ELSE first[h]]
    BY <1>2
<1>4. type \in HotkeyTypes /\ first = FirstPass(type)'
    BY <1>1, <1>2, <1>3
<1>5. \A h \in DOMAIN hot : h \in ToRegister(first)' <=> ShouldRegister(h)'
    BY <1>4, PassesAfter DEF PassesKnown
<1>6. \A h \in DOMAIN hot : mIsRegistered'[h] =>
            ShouldRegister(h)' /\ mType'[h] = "normal"
    <2>1. \A h \in DOMAIN hot : mIsRegistered'[h] => h \in ToRegister(first)'
        BY <1>3
    <2>2. \A h \in DOMAIN hot : h \in ToRegister(first)' => first[h] = "normal"
        BY DEF ToRegister
    <2> QED BY <1>3, <1>5, <2>1, <2>2
<1>7. \A h \in DOMAIN hot : ShouldRegister(h)' /\ h \notin refused' =>
            mIsRegistered'[h]
    BY <1>3, <1>5
<1> QED BY <1>6, <1>7 DEF Registered

-----------------------------------------------------------------------------
(* A hotkey whose effect changes without a new look at the others matters to *)
(* none of them                                                            *)

LEMMA InertTakesNone ==
    ASSUME NEW i \in DOMAIN hot, Inert(i)
    PROVE  \A h \in DOMAIN hot : /\ <<i, h>> \notin TakesToHook
                                 /\ hot[h].mVK # NoKey =>
                                        hot[i].mModifierVK # hot[h].mVK
BY DEF Inert, TakesToHook, KeyUpCounterpart, Eclipses

LEMMA EffectDecides ==
    ASSUME \A h \in DOMAIN hot : HasGlobalVariant(h)' <=> HasGlobalVariant(h),
           \A h \in DOMAIN hot : \/ InEffect(h)' <=> InEffect(h)
                                 \/ Inert(h) /\ ~HasGlobalVariant(h)
    PROVE  \A h \in DOMAIN hot : ShouldRegister(h)' <=> ShouldRegister(h)
<1> TAKE h \in DOMAIN hot
<1>1. LeftToHook(h)' <=> LeftToHook(h)
    BY InertTakesNone DEF LeftToHook
<1>2. IsPrefix(h)' <=> IsPrefix(h)
    BY InertTakesNone DEF IsPrefix
<1> QED BY <1>1, <1>2 DEF ShouldRegister

LEMMA RegisteredKept ==
    ASSUME Registered, UNCHANGED <<mType, mIsRegistered, refused>>,
           \A h \in DOMAIN hot : ShouldRegister(h)' <=> ShouldRegister(h)
    PROVE  Registered'
BY DEF Registered

LEMMA NoEffectChanged ==
    ASSUME Registered,
           UNCHANGED <<registration, g_IsSuspended, mJumpToLabel, mEnabled>>
    PROVE  Registered'
<1>1. \A h \in DOMAIN hot : HasGlobalVariant(h)' <=> HasGlobalVariant(h)
    BY DEF HasGlobalVariant, NotSuspended
<1>2. \A h \in DOMAIN hot : InEffect(h)' <=> InEffect(h)
    BY DEF InEffect, IsCompletelyDisabled, IsExemptFromSuspend, Ids, registration
<1> QED BY <1>1, <1>2, EffectDecides, RegisteredKept DEF registration

\* A hotkey with several variants, one of which may change its label between
\* Suspend and another, takes no other hotkey to the hook.
RelabelledInert ==
    \A h \in DOMAIN hot :
        (/\ Len(hot[h].variants) > 1
         /\ \E v \in Variants(h) : /\ "suspend" \in Attr[<<h, v>>].mJumpToLabel
                                   /\ Attr[<<h, v>>].mJumpToLabel # {"suspend"})
        => Inert(h)

\* The labels of hv's hotkey that a label given to hv leaves alone.
LEMMA LabelChanges ==
    ASSUME TypeInv, NEW hv \in HV, NEW label \in Attr[hv].mJumpToLabel,
           mJumpToLabel' = [mJumpToLabel EXCEPT ![hv] = label]
    PROVE  /\ mJumpToLabel'[hv] = label
           /\ \A w \in HV : w # hv => mJumpToLabel'[w] = mJumpToLabel[w]
           /\ mJumpToLabel[hv] \in Attr[hv].mJumpToLabel
BY DEF TypeInv, TypeOK

\* A label that gets no new look at the hotkeys.
LEMMA LabelUnnoticed ==
    ASSUME RelabelledInert, TypeInv, NEW hv \in HV,
           NEW label \in Attr[hv].mJumpToLabel, ~AffectsEffect(hv, label),
           mJumpToLabel' = [mJumpToLabel EXCEPT ![hv] = label],
           UNCHANGED <<sHotkeyCount, g_IsSuspended, mEnabled>>
    PROVE  \A h \in DOMAIN hot : ShouldRegister(h)' <=> ShouldRegister(h)
<1> DEFINE k == hv[1]
           Same == (label = "suspend") = (mJumpToLabel[hv] = "suspend")
<1>1. /\ mJumpToLabel'[hv] = label
      /\ \A w \in HV : w # hv => mJumpToLabel'[w] = mJumpToLabel[w]
      /\ mJumpToLabel[hv] \in Attr[hv].mJumpToLabel
    BY LabelChanges
<1>2. /\ k \in DOMAIN hot /\ hv[2] \in Variants(k) /\ hv = <<k, hv[2]>>
      /\ \A h \in DOMAIN hot : \A v \in Variants(h) : <<h, v>> \in HV
    BY Shapes
<1>3. \A h \in DOMAIN hot : IsCompletelyDisabled(h)' <=> IsCompletelyDisabled(h)
    BY DEF IsCompletelyDisabled
<1>4. ASSUME NEW h \in DOMAIN hot, h # k
      PROVE  IsExemptFromSuspend(h)' <=> IsExemptFromSuspend(h)
    <2>1. \A v \in Variants(h) : <<h, v>> # hv
        BY <1>2, <1>4
    <2>2. \A v \in Variants(h) : mJumpToLabel'[<<h, v>>] = mJumpToLabel[<<h, v>>]
        BY <1>1, <1>2, <2>1
    <2> QED BY <2>2 DEF IsExemptFromSuspend
<1>5. ~g_IsSuspended \/ Same \/ ~mEnabled[hv]
    BY DEF AffectsEffect
<1>6. ASSUME NEW h \in DOMAIN hot
      PROVE  HasGlobalVariant(h)' <=> HasGlobalVariant(h)
    <2>1. ASSUME NEW v \in Variants(h), mEnabled[<<h, v>>]
          PROVE  NotSuspended(<<h, v>>)' <=> NotSuspended(<<h, v>>)
        <3>1. CASE <<h, v>> = hv
            BY <1>1, <1>5, <2>1, <3>1 DEF NotSuspended
        <3>2. CASE <<h, v>> # hv
            BY <1>1, <1>2, <3>2 DEF NotSuspended
        <3> QED BY <3>1, <3>2
    <2> QED BY <2>1 DEF HasGlobalVariant
<1>7. ASSUME NEW h \in DOMAIN hot
      PROVE  \/ InEffect(h)' <=> InEffect(h)
             \/ Inert(h) /\ ~HasGlobalVariant(h)
    <2>1. CASE h # k \/ ~g_IsSuspended
        BY <1>3, <1>4, <2>1 DEF InEffect, Ids
    <2>2. CASE h = k /\ Same
        <3>1. \A v \in Variants(k) : mJumpToLabel'[<<k, v>>] = "suspend" <=>
                                     mJumpToLabel[<<k, v>>] = "suspend"
            BY <1>1, <1>2, <2>2
        <3>2. IsExemptFromSuspend(k)' <=> IsExemptFromSuspend(k)
            BY <3>1 DEF IsExemptFromSuspend
        <3> QED BY <1>3, <2>2, <3>2 DEF InEffect, Ids
    <2>3. CASE h = k /\ g_IsSuspended /\ ~Same
        <3>1. ~mEnabled[hv]
            BY <1>5, <2>3
        <3>2. "suspend" \in Attr[hv].mJumpToLabel
              /\ Attr[hv].mJumpToLabel # {"suspend"}
            BY <1>1, <2>3
        <3>3. CASE Len(hot[k].variants) = 1
            <4>1. \A v \in Variants(k) : v = hv[2]
                BY <1>2, <3>3 DEF Variants
            <4>2. IsCompletelyDisabled(k)
                BY <1>2, <3>1, <4>1 DEF IsCompletelyDisabled
            <4> QED BY <1>3, <2>3, <4>2 DEF InEffect
        <3>4. CASE Len(hot[k].variants) # 1
            <4>1. Len(hot[k].variants) > 1
                <5> HIDE DEF k
                <5>1. Len(hot[k].variants) \in Nat /\ Len(hot[k].variants) >= 1
                    BY <1>2, Shapes
                <5> DEFINE n == Len(hot[k].variants)
                <5>2. n \in Nat /\ n >= 1 /\ n # 1
                    BY <3>4, <5>1
                <5> HIDE DEF n
                <5>3. n > 1
                    BY <5>2
                <5> QED BY <5>3 DEF n
            <4>2. Inert(k)
                BY <1>2, <3>2, <4>1 DEF RelabelledInert
            <4>3. CASE HasGlobalVariant(k)
                <5>1. PICK v \in Variants(k) :
                        mEnabled[<<k, v>>] /\ NotSuspended(<<k, v>>)
                    BY <4>3 DEF HasGlobalVariant
                <5>2. /\ <<k, v>> # hv /\ <<k, v>> \in HV
                      /\ mJumpToLabel[<<k, v>>] = "suspend"
                    BY <1>2, <2>3, <3>1, <5>1 DEF NotSuspended
                <5>3. mJumpToLabel'[<<k, v>>] = "suspend"
                    BY <1>1, <5>2
                <5>4. IsExemptFromSuspend(k)' /\ IsExemptFromSuspend(k)
                    BY <5>2, <5>3 DEF IsExemptFromSuspend
                <5> QED BY <1>3, <2>3, <5>4 DEF InEffect, Ids
            <4> QED BY <2>3, <4>2, <4>3
        <3> QED BY <3>3, <3>4
    <2> QED BY <2>1, <2>2, <2>3
<1> QED BY <1>6, <1>7, EffectDecides

\* A hotkey created with the option Off is in nobody's way.
LEMMA NewUnnoticed ==
    ASSUME TypeInv, sHotkeyCount' = sHotkeyCount + 1,
           UNCHANGED <<g_IsSuspended, mJumpToLabel>>,
           mEnabled' = [hv \in HV |-> IF hv[1] = sHotkeyCount' THEN FALSE
                                      ELSE mEnabled[hv]]
    PROVE  \A h \in DOMAIN hot : ShouldRegister(h)' <=> ShouldRegister(h)
<1> DEFINE new == sHotkeyCount + 1
<1>1. /\ sHotkeyCount \in Nat /\ new \notin Ids
      /\ \A h \in DOMAIN hot : h \in Ids' <=> h \in Ids \/ h = new
    BY Shapes DEF TypeInv, TypeOK, Ids
<1>2. \A hv \in HV : mEnabled'[hv] <=> mEnabled[hv]
    BY <1>1 DEF TypeInv, TypeOK, Created
<1>3. \A h \in DOMAIN hot : \A v \in Variants(h) : <<h, v>> \in HV
    BY Shapes
<1>4. \A h \in DOMAIN hot : HasGlobalVariant(h)' <=> HasGlobalVariant(h)
    BY <1>2, <1>3 DEF HasGlobalVariant, NotSuspended
<1>5. \A h \in DOMAIN hot : IsCompletelyDisabled(h)' <=> IsCompletelyDisabled(h)
    BY <1>2, <1>3 DEF IsCompletelyDisabled
<1>6. new \in DOMAIN hot => IsCompletelyDisabled(new)
    <2>1. ASSUME new \in DOMAIN hot, NEW v \in Variants(new)
          PROVE  ~mEnabled[<<new, v>>]
        <3>1. <<new, v>> \in HV /\ <<new, v>>[1] = new
            BY <1>3, <2>1
        <3> HIDE DEF new
        <3> QED BY <1>1, <3>1 DEF TypeInv, Created
    <2> QED BY <2>1 DEF IsCompletelyDisabled
<1> HIDE DEF new
<1>7. \A h \in DOMAIN hot : InEffect(h)' <=> InEffect(h)
    BY <1>1, <1>5, <1>6 DEF InEffect, IsExemptFromSuspend
<1> QED BY <1>4, <1>7, EffectDecides

LEMMA StepRegistered ==
    ASSUME RelabelledInert
    PROVE  TypeInv /\ Registered /\ [Next]_vars => Registered'
<1> SUFFICES ASSUME TypeInv, Registered, [Next]_vars PROVE Registered'
    OBVIOUS
<1>1. TypeInv'
    BY StepTyped
<1>2. sHotkeyCount' \in 0..Len(shk)
    BY <1>1 DEF TypeInv, TypeOK
<1>3. ASSUME UNCHANGED <<registration, g_IsSuspended, options, mEnabled>>
      PROVE  Registered'
    BY <1>3, NoEffectChanged DEF options
<1>4. ASSUME NEW n \in DOMAIN hot, Load(n) PROVE Registered'
    BY <1>2, <1>4, ManifestRegisters DEF Load
<1>5. CASE ToggleSuspendState
    BY <1>2, <1>5, ManifestRegisters DEF ToggleSuspendState
<1>6. ASSUME NEW hv \in HV, DynamicOnOff(hv) PROVE Registered'
    BY <1>2, <1>6, ManifestRegisters DEF DynamicOnOff
<1>7. ASSUME NEW hv \in HV, DynamicLabel(hv) PROVE Registered'
    <2>1. PICK label \in Attr[hv].mJumpToLabel :
            /\ mJumpToLabel' = [mJumpToLabel EXCEPT ![hv] = label]
            /\ UNCHANGED <<sHotkeyCount, g_IsSuspended, mEnabled>>
            /\ IF AffectsEffect(hv, label) THEN Manifest(mRunAgainAfterFinished)
               ELSE UNCHANGED <<mType, mIsRegistered, refused, mRunAgainAfterFinished>>
        BY <1>7 DEF DynamicLabel
    <2>2. CASE AffectsEffect(hv, label)
        BY <1>2, <2>1, <2>2, ManifestRegisters
    <2>3. CASE ~AffectsEffect(hv, label)
        BY <2>1, <2>3, LabelUnnoticed, RegisteredKept
    <2> QED BY <2>2, <2>3
<1>8. ASSUME NEW hv \in HV, DynamicOptions(hv) PROVE Registered'
    BY <1>8, NoEffectChanged DEF DynamicOptions
<1>9. ASSUME NEW on \in BOOLEAN, DynamicNew(on) PROVE Registered'
    <2>1. CASE on
        BY <1>2, <1>9, <2>1, ManifestRegisters DEF DynamicNew
    <2>2. CASE ~on
        BY <1>9, <2>2, NewUnnoticed, RegisteredKept DEF DynamicNew, options
    <2> QED BY <2>1, <2>2
<1>10. ASSUME NEW h \in DOMAIN hot, Press(h) PROVE Registered'
    BY <1>3, <1>10 DEF Press
<1>11. CASE Fetch \/ DiscardedByWarning \/ WarningEnds \/ OthersAct
    BY <1>3, <1>11 DEF Fetch, DiscardedByWarning, WarningEnds, OthersAct
<1>12. ASSUME NEW failed \in BOOLEAN, NEW late \in BOOLEAN,
              PerformReturns(failed, late)
       PROVE  Registered'
    BY <1>3, <1>12 DEF PerformReturns
<1>13. CASE UNCHANGED vars
    BY <1>3, <1>13 DEF vars
<1> QED BY <1>4, <1>5, <1>6, <1>7, <1>8, <1>9, <1>10, <1>11, <1>12, <1>13
        DEF Next

LEMMA InitRegistered == Init => Registered
<1> SUFFICES ASSUME Init PROVE Registered
    OBVIOUS
<1>1. \A h : ~InEffect(h)
    BY DEF Init, InEffect, Ids
<1> QED BY <1>1 DEF Init, Registered, ShouldRegister

\* The hotkeys that are registered are those that a new look at all of them
\* would register, for every script in which a hotkey with several variants
\* that takes others to the hook keeps Suspend as the label of the same ones.
THEOREM RegistrationAlwaysCurrent ==
    ASSUME RelabelledInert
    PROVE  Spec => []RegistrationCurrent
<1>1. Init => Registered
    BY InitRegistered
<1>2. TypeInv /\ Registered /\ [Next]_vars => Registered'
    BY StepRegistered
<1>3. TypeInv /\ Registered => RegistrationCurrent
    BY RegisteredCurrent
<1> QED BY <1>1, <1>2, <1>3, Invariant, PTL DEF Spec
=============================================================================
