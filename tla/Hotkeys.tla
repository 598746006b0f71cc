------------------------------ MODULE Hotkeys ------------------------------
(***************************************************************************)
(* Which keys are hotkeys, and which subroutine a key press starts.        *)
(*                                                                         *)
(* A hotkey is registered with the system or left to the keyboard hook, and *)
(* what is right for one depends on the others: ManifestAllHotkeys... looks *)
(* at all of them after each change.  A hotkey has variants, for different *)
(* windows, each with a subroutine, a limit of threads and, if it buffers, *)
(* one press to run again after a thread has finished.  Between the press  *)
(* and the launch its message waits in the queue, while scripts suspend,   *)
(* disable and create hotkeys.                                             *)
(***************************************************************************)
EXTENDS Integers, Sequences, FiniteSets, FiniteSetsExt

CONSTANTS
    shk,                    \* the hotkeys by their ids: what never changes
    g_MaxThreadsTotal,      \* #MaxThreads
    MAX_THREADS_LIMIT,
    g_MaxHotkeysPerInterval,
    Contested,              \* the hotkeys other programs register, too
    MaxQueue                \* bound: no key is pressed with such a queue

NoKey == "none"
Keys == {shk[h].mVK : h \in 1..Len(shk)} \cup {NoKey}

\* mModifiers stands for mModifiersConsolidatedLR too.  A variant is for one
\* window or for all; Hotkey commands may change its label, its limit of
\* threads (by the numbers in Limits), and whether it buffers, within the sets
\* given.  A label is what the subroutine starts with: Suspend, a command
\* always allowed, or another.
Label == {"suspend", "always", "other"}
VariantRecord(v) ==
    /\ v.mHotCriterion \in {"HOT_NO_CRITERION", "HOT_IF", "HOT_IF_NOT"}
    /\ v.mJumpToLabel \subseteq Label /\ v.mJumpToLabel # {}
    /\ v.Limits \subseteq Nat
    /\ v.mMaxThreadsBuffer \subseteq BOOLEAN /\ v.mMaxThreadsBuffer # {}
HotkeyRecord(h) ==
    /\ h.mModifierVK \in Keys
    /\ {h.mKeyUp, h.mAllowExtraModifiers, h.mKeybdHookMandatory} \subseteq BOOLEAN
    /\ h.mKeyUp \/ h.mAllowExtraModifiers \/ h.mModifierVK # NoKey
            => h.mKeybdHookMandatory
    /\ IsFiniteSet(h.mModifiers) /\ Len(h.variants) \in Nat \ {0}
    /\ \A v \in 1..Len(h.variants) : VariantRecord(h.variants[v])

ASSUME HotkeysAssumption ==
    /\ Len(shk) \in Nat
    /\ \A h \in 1..Len(shk) : HotkeyRecord(shk[h])
    /\ Contested \subseteq 1..Len(shk)
    /\ g_MaxThreadsTotal \in Nat /\ MAX_THREADS_LIMIT \in Nat \ {0}
    /\ g_MaxHotkeysPerInterval \in Nat /\ MaxQueue \in Nat

hot == [h \in 1..Len(shk) |-> shk[h]]
Variants(h) == 1..Len(hot[h].variants)
HV == UNION {{<<h, v>> : v \in Variants(h)} : h \in 1..Len(shk)}
Attr == [hv \in HV |-> hot[hv[1]].variants[hv[2]]]

VARIABLES
    sHotkeyCount, mType, mIsRegistered,
    refused,        \* (auxiliary) the hotkeys that the last look at all of them
                    \* could not register, another program being first
    g_IsSuspended,
    mJumpToLabel, mEnabled, mMaxThreads, mMaxThreadsBuffer,  \* of each variant
    mExistingThreads, mRunAgainAfterFinished,
    queue,          \* the WM_HOTKEYs posted, by id
    threads,        \* the hotkey threads on the call stack, top last
    throttled_key_count,
    reached,        \* g_HotkeyThrottleInterval has gone by since sTimePrev
    matched,        \* the variants' windows: is there one that matches?
    taken           \* hotkeys that another program has registered

registration == <<sHotkeyCount, mType, mIsRegistered, refused>>
options == <<mJumpToLabel, mMaxThreads, mMaxThreadsBuffer>>
flags == <<mExistingThreads, mRunAgainAfterFinished>>
throttle == <<throttled_key_count, reached>>
outside == <<matched, taken>>
vars == <<registration, g_IsSuspended, options, mEnabled, flags, queue,
          threads, throttle, outside>>

Ids == 1..sHotkeyCount

-----------------------------------------------------------------------------
(* Which hotkeys are in effect *)

NotSuspended(hv) == ~g_IsSuspended \/ mJumpToLabel[hv] = "suspend"
IsExemptFromSuspend(h) ==
    \E v \in Variants(h) : mJumpToLabel[<<h, v>>] = "suspend"
IsCompletelyDisabled(h) == \A v \in Variants(h) : ~mEnabled[<<h, v>>]
InEffect(h) ==
    /\ h \in Ids /\ ~IsCompletelyDisabled(h)
    /\ g_IsSuspended => IsExemptFromSuspend(h)

\* A hotkey in effect that the hook must see leaves h to the hook as well.
KeyUpCounterpart(i, h) ==
    /\ hot[i].mKeyUp /\ hot[i].mVK = hot[h].mVK
    /\ hot[i].mModifiers = hot[h].mModifiers
Eclipses(i, h) ==
    /\ hot[i].mAllowExtraModifiers /\ hot[i].mModifierVK = NoKey
    /\ hot[i].mVK = hot[h].mVK /\ hot[i].mModifiers \subseteq hot[h].mModifiers
TakesToHook == {p \in (DOMAIN hot) \X (DOMAIN hot) :
                    KeyUpCounterpart(p[1], p[2]) \/ Eclipses(p[1], p[2])}

\* The first pass, over the hotkeys in effect: at hotkey i its own type is
\* set anew, then it takes other hotkeys to the hook.
PassAt(type, i) ==
    LET own == IF hot[i].mKeybdHookMandatory THEN "hook" ELSE "normal"
    IN  [h \in DOMAIN hot |-> IF h <= sHotkeyCount /\ <<i, h>> \in TakesToHook THEN "hook"
                               ELSE IF h = i THEN own ELSE type[h]]
Live == {h \in Ids : InEffect(h)}
FirstPass(type) ==
    LET after[n \in 0..sHotkeyCount] ==
            IF n = 0 THEN type
            ELSE IF InEffect(n) THEN PassAt(after[n - 1], n) ELSE after[n - 1]
    IN  after[sHotkeyCount]

\* The second pass: h is taken to the hook for its prefix or its variants.
vk_is_prefix(key) ==
    key # NoKey /\ \E i \in Ids : hot[i].mModifierVK = key /\ InEffect(i)
HasGlobalVariant(h) ==
    \E v \in Variants(h) : /\ Attr[<<h, v>>].mHotCriterion = "HOT_NO_CRITERION"
                           /\ mEnabled[<<h, v>>] /\ NotSuspended(<<h, v>>)
PromotedToHook(h) == vk_is_prefix(hot[h].mVK) \/ ~HasGlobalVariant(h)
ToRegister(first) == {h \in Ids : first[h] = "normal" /\ InEffect(h)
                                    /\ ~PromotedToHook(h)}

\* Register succeeds unless another program was first.
CanRegister(h) == mIsRegistered[h] \/ h \notin taken

\* Both passes, once the command has changed the rest of the state.  runAgain
\* has the run-again flags, which the hotkeys it unregisters lose.
Manifest(runAgain) ==
    \E type \in {mType} : \E first \in {FirstPass(type)'} :
        LET tried == ToRegister(first)'
            dropped == {h \in Ids : mIsRegistered[h]} \ Live'
        IN  /\ mIsRegistered' = [h \in DOMAIN hot |-> h \in tried /\ CanRegister(h)]
            /\ refused' = {h \in tried : ~CanRegister(h)}
            /\ mType' = [h \in DOMAIN hot |->
                    IF h \in Live' /\ ~mIsRegistered'[h] THEN "hook" ELSE first[h]]
            /\ mRunAgainAfterFinished' =
                    [hv \in HV |-> runAgain[hv] /\ hv[1] \notin dropped]

-----------------------------------------------------------------------------
(* Commands of the script *)

Interruptible == TRUE                                               \* mutant
\* A warning stops the scripts and discards what arrives.
NoWarning == \A i \in 1..Len(threads) : threads[i].at = "running"

\* Once the script is loaded: its first n hotkeys are there.
Load(n) ==
    /\ sHotkeyCount = 0 /\ ~g_IsSuspended
    /\ sHotkeyCount' = n
    /\ mEnabled' = [hv \in HV |-> hv[1] <= n]
    /\ UNCHANGED <<g_IsSuspended, options, mExistingThreads, queue, threads,
                   throttle, outside>>
    /\ Manifest(mRunAgainAfterFinished)

\* Suspend, whichever way it changes.
ToggleSuspendState ==
    /\ NoWarning
    /\ g_IsSuspended' = ~g_IsSuspended
    /\ UNCHANGED <<sHotkeyCount, options, mEnabled, mExistingThreads, queue,
                   threads, throttle, outside>>
    /\ Manifest(mRunAgainAfterFinished)

\* Hotkey, Name, On or Off
KeepsBuffer(hv) == mRunAgainAfterFinished                           \* mutant
Disable(hv) == [mRunAgainAfterFinished EXCEPT ![hv] = FALSE]
DynamicOnOff(hv) ==
    /\ NoWarning /\ hv[1] \in Ids
    /\ mEnabled' = [mEnabled EXCEPT ![hv] = ~@]
    /\ UNCHANGED <<sHotkeyCount, g_IsSuspended, options, mExistingThreads,
                   queue, threads, throttle, outside>>
    /\ Manifest(IF mEnabled[hv] THEN Disable(hv) ELSE mRunAgainAfterFinished)

\* Hotkey, Name, Label: a subroutine of the other kind needs a new look at
\* the hotkeys only while they are suspended.
NeverAffects(hv, label) == FALSE                                    \* mutant
AffectsEffect(hv, label) ==
    /\ mEnabled[hv] /\ g_IsSuspended
    /\ (label = "suspend") # (mJumpToLabel[hv] = "suspend")
DynamicLabel(hv) ==
    /\ NoWarning /\ hv[1] \in Ids
    /\ \E label \in Attr[hv].mJumpToLabel \ {mJumpToLabel[hv]} :
        /\ mJumpToLabel' = [mJumpToLabel EXCEPT ![hv] = label]
        /\ UNCHANGED <<sHotkeyCount, g_IsSuspended, mMaxThreads,
                       mMaxThreadsBuffer, mEnabled, mExistingThreads,
                       queue, threads, throttle, outside>>
        /\ IF AffectsEffect(hv, label) THEN Manifest(mRunAgainAfterFinished)
           ELSE UNCHANGED <<mType, mIsRegistered, refused, mRunAgainAfterFinished>>

\* Hotkey, Name,, T or B.  mMaxThreads is a byte.
MaxThreadsFor(n) ==
    LET byte == n % 256
    IN  IF byte > MAX_THREADS_LIMIT THEN MAX_THREADS_LIMIT
        ELSE IF byte < 1 THEN 1 ELSE byte
DynamicOptions(hv) ==
    /\ NoWarning /\ hv[1] \in Ids
    /\ \/ \E n \in Attr[hv].Limits :
            /\ mMaxThreads' = [mMaxThreads EXCEPT ![hv] = MaxThreadsFor(n)]
            /\ UNCHANGED mMaxThreadsBuffer
       \/ \E on \in Attr[hv].mMaxThreadsBuffer \ {mMaxThreadsBuffer[hv]} :
            /\ mMaxThreadsBuffer' = [mMaxThreadsBuffer EXCEPT ![hv] = on]
            /\ UNCHANGED mMaxThreads
    /\ UNCHANGED <<registration, g_IsSuspended, mJumpToLabel, mEnabled, flags,
                   queue, threads, throttle, outside>>

\* Hotkey, Name, Label, On or Off: the next hotkey is created.
DynamicNew(on) ==
    /\ NoWarning /\ sHotkeyCount < Len(shk)
    /\ sHotkeyCount' = sHotkeyCount + 1
    /\ mEnabled' = [hv \in HV |-> IF hv[1] = sHotkeyCount' THEN on
                                  ELSE mEnabled[hv]]
    /\ UNCHANGED <<g_IsSuspended, options, mExistingThreads, queue, threads,
                   throttle, outside>>
    /\ IF on THEN Manifest(mRunAgainAfterFinished)
       ELSE UNCHANGED <<mType, mIsRegistered, refused, mRunAgainAfterFinished>>

-----------------------------------------------------------------------------
(* Presses and launches *)

\* The system posts WM_HOTKEY for a registered hotkey.
Press(h) ==
    /\ mIsRegistered[h] /\ Len(queue) < MaxQueue
    /\ queue' = Append(queue, h)
    /\ UNCHANGED <<registration, g_IsSuspended, options, mEnabled, flags,
                   threads, throttle, outside>>

HotCriterionAllowsFiring(criterion) ==
    \/ criterion = "HOT_NO_CRITERION"
    \/ criterion = (IF matched THEN "HOT_IF" ELSE "HOT_IF_NOT")
Usable(h) ==
    {v \in Variants(h) : /\ mEnabled[<<h, v>>] /\ NotSuspended(<<h, v>>)
                         /\ HotCriterionAllowsFiring(Attr[<<h, v>>].mHotCriterion)}
\* The first variant for a window, or else the last one for all.
AsRegistered(h) ==                                                  \* mutant
    IF Usable(h) # {} THEN {Min(Usable(h))} ELSE {1}
CriterionAllowsFiring(h) ==
    LET specific == {v \in Usable(h) :
                        Attr[<<h, v>>].mHotCriterion # "HOT_NO_CRITERION"}
    IN  IF specific # {} THEN {Min(specific)}
        ELSE IF Usable(h) # {} THEN {Max(Usable(h))} ELSE {}

AlwaysAllowed(hv) == mJumpToLabel[hv] = "always"
AtLimit(hv) ==
    /\ Len(threads) >= g_MaxThreadsTotal
    /\ Len(threads) > MAX_THREADS_LIMIT \/ ~AlwaysAllowed(hv)
PerformIsAllowed(hv) ==
    mExistingThreads[hv] < mMaxThreads[hv] \/ AlwaysAllowed(hv)

RunAgainAfterFinished(hv) ==
    mRunAgainAfterFinished' =
        [mRunAgainAfterFinished EXCEPT ![hv] = @ \/ mMaxThreadsBuffer[hv]]

\* Too many presses bring up a warning and are not performed.
ResetRunAgainAfterFinished == [hv \in HV |-> FALSE]
Perform(hv) == \E time_until_now \in {"less", "equal", "more"} :
    LET count == throttled_key_count + 1
        display_warning == count > g_MaxHotkeysPerInterval /\ time_until_now = "less"
        restart == display_warning \/ time_until_now = "more"
    IN  /\ reached => time_until_now # "less"
        /\ reached' = (time_until_now = "equal")
        /\ throttled_key_count' =
                IF restart THEN 0 ELSE Min({count, g_MaxHotkeysPerInterval + 1})
        /\ threads' = Append(threads,
                [hv |-> hv, at |-> IF display_warning THEN "warning" ELSE "running"])
        /\ IF display_warning
           THEN /\ mRunAgainAfterFinished' = ResetRunAgainAfterFinished
                /\ UNCHANGED mExistingThreads
           ELSE /\ mExistingThreads' = [mExistingThreads EXCEPT ![hv] = @ + 1]
                /\ UNCHANGED mRunAgainAfterFinished

\* MsgSleep fetches a WM_HOTKEY.  Other threads, which count as well, and the
\* priority of the current one may be in the way: then it is lost.
Fetch ==
    /\ NoWarning /\ queue # <<>>
    /\ queue' = Tail(queue)
    /\ LET h == Head(queue)
           variant == {<<h, v>> : v \in CriterionAllowsFiring(h)}
           ignored == UNCHANGED <<mExistingThreads, threads, throttle>>
       IN  \/ ignored /\ UNCHANGED mRunAgainAfterFinished
           \/ \E hv \in variant :
                /\ ~AtLimit(hv)
                /\ IF PerformIsAllowed(hv) THEN Perform(hv)
                   ELSE RunAgainAfterFinished(hv) /\ ignored
    /\ UNCHANGED <<registration, g_IsSuspended, options, mEnabled, outside>>

\* The main window reposts it without a window, and the dialog drops it.
DiscardedByWarning ==
    /\ ~NoWarning /\ queue # <<>>
    /\ queue' = Tail(queue)
    /\ UNCHANGED <<registration, g_IsSuspended, options, mEnabled, flags,
                   threads, throttle, outside>>

\* The warning is answered with Yes.
WarningEnds ==
    /\ ~NoWarning
    /\ threads' = SubSeq(threads, 1, Len(threads) - 1)
    /\ UNCHANGED <<registration, g_IsSuspended, options, mEnabled, flags, queue,
                   throttle, outside>>

\* The subroutine returns to Hotkey::Perform, after an error if failed.  A press
\* buffered over a second ago (late) is not replayed.
Left(hv, failed) == [mExistingThreads EXCEPT ![hv] = @ - 1]
TicketUsed(hv) == [mRunAgainAfterFinished EXCEPT ![hv] = FALSE]
PerformReturns(failed, late) ==
    /\ threads # <<>> /\ NoWarning
    /\ LET hv == threads[Len(threads)].hv
       IN  /\ mExistingThreads' = Left(hv, failed)
           /\ mRunAgainAfterFinished' = TicketUsed(hv)
           /\ queue' = IF mRunAgainAfterFinished[hv] /\ ~failed /\ ~late
                       THEN Append(queue, hv[1]) ELSE queue
    /\ threads' = SubSeq(threads, 1, Len(threads) - 1)
    /\ UNCHANGED <<registration, g_IsSuspended, options, mEnabled, throttle,
                   outside>>

-----------------------------------------------------------------------------
(* What happens outside of the program *)

\* A window comes or goes, another program registers a key or lets it go.
OthersAct ==
    /\ \/ matched' = ~matched /\ UNCHANGED taken
       \/ \E h \in Contested :
            /\ ~mIsRegistered[h]
            /\ taken' = SymDiff(taken, {h})
            /\ UNCHANGED matched
    /\ UNCHANGED <<registration, g_IsSuspended, options, mEnabled, flags,
                   queue, threads, throttle>>

-----------------------------------------------------------------------------
Init ==
    /\ sHotkeyCount = 0
    /\ mType = [h \in DOMAIN hot |-> "normal"]
    /\ mIsRegistered = [h \in DOMAIN hot |-> FALSE] /\ refused = {}
    /\ g_IsSuspended = FALSE
    /\ mJumpToLabel \in {l \in [HV -> Label] : \A hv \in HV :
                            l[hv] \in Attr[hv].mJumpToLabel}
    /\ mMaxThreads = [hv \in HV |-> 1]
    /\ mMaxThreadsBuffer \in {b \in [HV -> BOOLEAN] :
                            \A hv \in HV : b[hv] \in Attr[hv].mMaxThreadsBuffer}
    /\ mEnabled = [hv \in HV |-> FALSE]
    /\ mExistingThreads = [hv \in HV |-> 0]
    /\ mRunAgainAfterFinished = [hv \in HV |-> FALSE]
    /\ queue = <<>> /\ threads = <<>>
    /\ throttled_key_count = 0 /\ reached = FALSE
    /\ matched = FALSE /\ taken \in SUBSET Contested

Next ==
    \/ \E n \in DOMAIN hot : Load(n)
    \/ ToggleSuspendState
    \/ \E hv \in HV : DynamicOnOff(hv) \/ DynamicLabel(hv) \/ DynamicOptions(hv)
    \/ \E on \in BOOLEAN : DynamicNew(on)
    \/ \E h \in DOMAIN hot : Press(h)
    \/ Fetch \/ DiscardedByWarning \/ WarningEnds
    \/ \E failed, late \in BOOLEAN : PerformReturns(failed, late)
    \/ OthersAct

Spec == Init /\ [][Next]_vars

-----------------------------------------------------------------------------
(* Properties *)

\* What each variable holds.
TypeOK ==
    /\ sHotkeyCount \in 0..Len(shk)
    /\ mType \in [DOMAIN hot -> {"normal", "hook"}]
    /\ mIsRegistered \in [DOMAIN hot -> BOOLEAN] /\ refused \subseteq Contested
    /\ g_IsSuspended \in BOOLEAN /\ matched \in BOOLEAN
    /\ \A hv \in HV : /\ mJumpToLabel[hv] \in Attr[hv].mJumpToLabel
                       /\ mMaxThreads[hv] \in 1..MAX_THREADS_LIMIT
                       /\ mMaxThreadsBuffer[hv] \in Attr[hv].mMaxThreadsBuffer
    /\ mEnabled \in [HV -> BOOLEAN]
    /\ mExistingThreads \in [HV -> Nat]
    /\ mRunAgainAfterFinished \in [HV -> BOOLEAN]
    /\ queue \in Seq(DOMAIN hot)
    /\ threads \in Seq([hv : HV, at : {"running", "warning"}])
    /\ \A i \in 1..Len(threads) : threads[i].at = "warning" => i = Len(threads)
    /\ throttled_key_count \in 0..g_MaxHotkeysPerInterval + 1
    /\ reached \in BOOLEAN
    /\ taken \subseteq Contested

\* However suspending, disabling, relabelling and creating hotkeys went, a new
\* look at all of them would register no other hotkeys than those that are,
\* except where another program had the key at the last look (ManifestAllHotkeys... is
\* called by whatever makes a difference, and what it does is stable).
RegistrationCurrent ==
    LET tried == ToRegister(FirstPass(mType))
    IN  \A h \in DOMAIN hot :
            /\ mIsRegistered[h] => h \in tried /\ mType[h] = "normal"
            /\ h \in tried \ refused => mIsRegistered[h]

\* mExistingThreads counts the threads of the variant on the stack, however
\* they end: a count left too high makes the hotkey dead for good.
ThreadsCounted ==
    \A hv \in HV : mExistingThreads[hv] =
        Cardinality({i \in 1..Len(threads) :
                        threads[i].hv = hv /\ threads[i].at = "running"})

\* A press that is buffered is waited for by a thread of its variant, and the
\* variant is enabled: it is neither forgotten nor replayed after Off.  Nor do
\* the threads it waits for outlive themselves in the count.
BufferedTakenUp ==
    /\ ThreadsCounted
    /\ \A hv \in HV : mRunAgainAfterFinished[hv] =>
        /\ \E i \in 1..Len(threads) : threads[i].hv = hv
        /\ mEnabled[hv]

\* A press is checked again when it is fetched: no subroutine starts that has
\* been suspended, disabled or has lost its window since, nor one too many.
LaunchChecked ==
    [][\A hv \in HV : mExistingThreads'[hv] > mExistingThreads[hv] =>
        /\ mEnabled[hv]
        /\ g_IsSuspended => mJumpToLabel[hv] = "suspend"
        /\ Attr[hv].mHotCriterion # "HOT_NO_CRITERION" =>
                (Attr[hv].mHotCriterion = "HOT_IF") = matched
        /\ mExistingThreads'[hv] <= mMaxThreads[hv] \/ AlwaysAllowed(hv)
      ]_vars
=============================================================================
