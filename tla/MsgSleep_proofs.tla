-------------------------- MODULE MsgSleep_proofs --------------------------
(***************************************************************************)
(* Theorems about the message pumps, for every number of timers and        *)
(* threads and for queues of any length.                                   *)
(***************************************************************************)
EXTENDS MsgSleep, SequenceTheorems, FiniteSetTheorems, TLAPS

-----------------------------------------------------------------------------
(* The inductive invariant *)

Call == Layer \cup Thread \cup Dialog

Counts(c) == NeedsTimer(c) /\ c.at # "entry"
Turned(c) == c.kind = "layer" /\ c.turned
IsMainLoop(c) ==
    c.kind = "layer" /\ c.waits /\ c.sleeping /\ ~c.peek /\ ~c.turned
\* A thread whose launch may kill the main timer of the layer beneath, and
\* whose end sets it again.
Launched(c) == c.kind = "thread" /\ c.event \notin {"timer", "call"}

\* The main event loop is at the bottom, and only a host's call is launched
\* by anything but a layer.
Nested ==
    /\ Len(calls) >= 1 /\ IsMainLoop(calls[1])
    /\ \A i \in Depth : (calls[i].kind = "thread" /\ calls[i].event # "call")
                            => i > 1 /\ calls[i - 1].kind = "layer"

LayersCounted == g_nLayersNeedingTimer = Cardinality(Counted)
EnabledCounted ==
    mTimerEnabledCount = Cardinality({t \in 1..Timers : mEnabled[t]})

\* One layer at most answers for the flag.
DeferOwned ==
    /\ g_DeferMessagesForUnderlyingPump <=> \E i \in Depth : Turned(calls[i])
    /\ \A i, j \in Depth : (Turned(calls[i]) /\ Turned(calls[j])) => i = j

\* While the main timer is gone, a layer that needs it has given up waiting,
\* or has above it what sets the timer again on its return: another layer, or
\* the thread that the layer itself has launched.
Repaired ==
    ~g_MainTimerExists =>
        \A i \in Depth : Counts(calls[i]) =>
            \/ calls[i].peek
            \/ \E j \in Depth : j > i /\ calls[j].kind = "layer"
            \/ i + 1 \in Depth /\ Launched(calls[i + 1])
TimersServed == mTimerEnabledCount > 0 => g_MainTimerExists

IInv ==
    /\ TypeOK /\ Nested /\ LayersCounted /\ EnabledCounted
    /\ DeferOwned /\ Repaired /\ TimersServed

\* What OneThreadEach needs: the flag and the timers' counters tell exactly
\* which threads there are.
OneEach ==
    /\ \A i \in ThreadsAt : calls[i].event = "timer" <=> calls[i].timer # 0
    /\ mOnClipboardChangeIsRunning <=>
            \E i \in ThreadsAt : calls[i].event = "clipboard"
    /\ \A i, j \in ThreadsAt :
            calls[i].event = "clipboard" /\ calls[j].event = "clipboard"
                => i = j
    /\ \A t \in 1..Timers :
        /\ mExistingThreads[t] \in {0, 1}
        /\ mExistingThreads[t] = 1 <=> \E i \in ThreadsAt : calls[i].timer = t
        /\ \A i, j \in ThreadsAt :
                calls[i].timer = t /\ calls[j].timer = t => i = j

\* A menu item's message keeps its window on every round through the queue.
MenuHasWindow ==
    \A i \in 1..Len(queue) : queue[i].event = "menu" => queue[i].window

-----------------------------------------------------------------------------
(* What the actions do to the call stack *)

\* d differs from c in nothing that the invariant speaks of.
Alike(c, d) ==
    /\ d \in Call /\ d.kind = c.kind
    /\ Counts(c) <=> Counts(d)
    /\ Turned(c) <=> Turned(d)
    /\ IsMainLoop(c) => IsMainLoop(d)
    /\ (Counts(c) /\ c.peek) => d.peek
    /\ c.kind = "thread" => d.event = c.event /\ d.timer = c.timer

StackLike(s) ==
    /\ s \in Seq(Call) /\ Len(s) = Len(calls)
    /\ \A i \in Depth : Alike(calls[i], s[i])
Pushed(c) ==
    /\ calls' \in Seq(Call) /\ Len(calls') = Len(calls) + 1
    /\ \A i \in Depth : Alike(calls[i], calls'[i])
    /\ c \in Call /\ calls'[Len(calls) + 1] = c
Popped ==
    /\ Len(calls) >= 2
    /\ calls' \in Seq(Call) /\ Len(calls') = Len(calls) - 1
    /\ \A i \in 1..(Len(calls) - 1) : Alike(calls[i], calls'[i])

\* What a call on the stack can be, and what its kind says of it.
LEMMA Kinds ==
    ASSUME NEW c \in Call
    PROVE  /\ c.kind \in {"layer", "thread", "dialog"}
           /\ c.kind = "layer" => c \in Layer
           /\ c.kind = "thread" => c \in Thread
           /\ c.kind = "dialog" => c \in Dialog
BY DEF Call, Layer, Thread, Dialog

LEMMA AlikeItself ==
    ASSUME NEW c \in Call
    PROVE  Alike(c, c)
BY DEF Alike

LEMMA SmallNumbers ==
    ASSUME NEW n \in Nat, n >= 1
    PROVE  n = 1 \/ n >= 2
OBVIOUS

LEMMA StackTop ==
    ASSUME TypeOK, Nested
    PROVE  /\ calls \in Seq(Call)
           /\ Len(calls) \in Nat /\ Len(calls) \in Depth
           /\ Top \in Call
           /\ \A i \in Depth : calls[i] \in Call
<1>1. calls \in Seq(Call)
    BY DEF TypeOK, Call
<1>2. Len(calls) \in Nat /\ Len(calls) \in Depth
    BY <1>1, LenProperties DEF Nested, Depth
<1>3. \A i \in Depth : calls[i] \in Call
    BY <1>1, ElementOfSeq DEF Depth
<1> QED BY <1>1, <1>2, <1>3 DEF Top

LEMMA SameStack ==
    ASSUME TypeOK, Nested
    PROVE  StackLike(calls)
BY StackTop, AlikeItself DEF StackLike

LEMMA OneChanged ==
    ASSUME TypeOK, Nested, NEW i \in Depth, NEW d, Alike(calls[i], d)
    PROVE  StackLike([calls EXCEPT ![i] = d])
<1>1. d \in Call
    BY DEF Alike
<1>2. calls \in Seq(Call) /\ i \in 1..Len(calls)
    BY StackTop DEF Depth
<1>3. /\ [calls EXCEPT ![i] = d] \in Seq(Call)
      /\ Len([calls EXCEPT ![i] = d]) = Len(calls)
      /\ \A j \in 1..Len(calls) :
            [calls EXCEPT ![i] = d][j] = IF j = i THEN d ELSE calls[j]
    BY <1>1, <1>2, ExceptSeq
<1>4. \A j \in Depth : Alike(calls[j], [calls EXCEPT ![i] = d][j])
    BY <1>3, StackTop, AlikeItself DEF Depth
<1> QED BY <1>3, <1>4 DEF StackLike

LEMMA TopChanged ==
    ASSUME TypeOK, Nested, NEW d, Alike(Top, d)
    PROVE  StackLike(AtTop(d))
BY StackTop, OneChanged DEF AtTop, Top

LEMMA Push ==
    ASSUME TypeOK, Nested, NEW s, StackLike(s), NEW c \in Call,
           calls' = Append(s, c)
    PROVE  Pushed(c)
<1>1. s \in Seq(Call) /\ Len(s) = Len(calls) /\ Len(calls) \in Nat
    BY StackTop DEF StackLike
<1>2. /\ Append(s, c) \in Seq(Call) /\ Len(Append(s, c)) = Len(s) + 1
      /\ Append(s, c)[Len(s) + 1] = c
      /\ \A i \in 1..Len(s) : Append(s, c)[i] = s[i]
    BY <1>1
<1> QED BY <1>1, <1>2 DEF Pushed, StackLike, Depth

LEMMA PrefixLike ==
    ASSUME TypeOK, Nested, Len(calls) >= 2
    PROVE  /\ Beneath \in Seq(Call) /\ Len(Beneath) = Len(calls) - 1
           /\ \A i \in 1..(Len(calls) - 1) : Beneath[i] = calls[i]
<1> DEFINE n == Len(calls) - 1
<1>1. n \in Nat /\ n >= 1 /\ \A i \in 1..n : calls[i] \in Call
    BY StackTop DEF Depth
<1>2. /\ SubSeq(calls, 1, n) \in Seq(Call)
      /\ Len(SubSeq(calls, 1, n)) = n
      /\ \A i \in 1..n : SubSeq(calls, 1, n)[i] = calls[i]
  <2> HIDE DEF n
  <2> QED BY <1>1, SubSeqProperties
<1> QED BY <1>2 DEF Beneath

LEMMA Pop ==
    ASSUME TypeOK, Nested, Len(calls) >= 2, calls' = Beneath
    PROVE  Popped
<1>1. \A i \in 1..(Len(calls) - 1) : calls[i] \in Call
    BY StackTop DEF Depth
<1> QED BY <1>1, PrefixLike, AlikeItself DEF Popped

LEMMA PopChanged ==
    ASSUME TypeOK, Nested, Len(calls) >= 2,
           NEW d, Alike(calls[Len(calls) - 1], d),
           calls' = [Beneath EXCEPT ![Len(Beneath)] = d]
    PROVE  Popped /\ calls'[Len(calls) - 1] = d
<1> DEFINE n == Len(calls) - 1
<1>1. n \in Nat /\ n >= 1 /\ d \in Call /\ Alike(calls[n], d)
      /\ \A i \in 1..n : calls[i] \in Call
    BY StackTop DEF Depth, Alike
<1>2. Beneath \in Seq(Call) /\ Len(Beneath) = n
      /\ \A i \in 1..n : Beneath[i] = calls[i]
    BY PrefixLike
<1>3. /\ calls' \in Seq(Call) /\ Len(calls') = n
      /\ \A j \in 1..n : calls'[j] = IF j = n THEN d ELSE Beneath[j]
  <2> HIDE DEF n
  <2>1. n \in 1..Len(Beneath) /\ calls' = [Beneath EXCEPT ![n] = d]
        BY <1>1, <1>2
  <2> QED BY <1>1, <1>2, <2>1, ExceptSeq
<1>4. \A j \in 1..n : Alike(calls[j], calls'[j])
  <2> HIDE DEF n
  <2> QED BY <1>1, <1>2, <1>3, AlikeItself
<1>5. n \in 1..n
    BY <1>1
<1>6. calls'[n] = d
  <2> HIDE DEF n
  <2> QED BY <1>3, <1>5
<1> QED BY <1>3, <1>4, <1>6 DEF Popped
-----------------------------------------------------------------------------
(* The six shapes of a step *)

\* The main timer is only killed when no layer needs it.
TimerKept ==
    g_MainTimerExists => g_MainTimerExists' \/ g_nLayersNeedingTimer = 0
CountsKept ==
    /\ g_nLayersNeedingTimer' = g_nLayersNeedingTimer
    /\ g_DeferMessagesForUnderlyingPump' = g_DeferMessagesForUnderlyingPump

ThreadsKept ==
    /\ mExistingThreads' = mExistingThreads
    /\ mOnClipboardChangeIsRunning' = mOnClipboardChangeIsRunning

Stays == StackLike(calls') /\ CountsKept /\ TimerKept /\ ThreadsKept

\* A layer goes from its entry to its loop and counts itself.
Joins ==
    /\ Top.kind = "layer" /\ ~Counts(Top)
    /\ \E d \in Call :
        /\ calls' = AtTop(d) /\ d.kind = "layer" /\ Counts(d)
        /\ (Turned(Top) <=> Turned(d)) /\ (IsMainLoop(Top) => IsMainLoop(d))
    /\ g_nLayersNeedingTimer' = g_nLayersNeedingTimer + 1
    /\ UNCHANGED g_DeferMessagesForUnderlyingPump
    /\ g_MainTimerExists' /\ ThreadsKept

\* The thread c is the only one of its timer, or of the clipboard.
Admitted(c) ==
    /\ c.timer \in 0..Timers /\ (c.event = "timer" <=> c.timer # 0)
    /\ c.timer = 0 => mExistingThreads' = mExistingThreads
    /\ c.timer # 0 =>
            /\ mExistingThreads[c.timer] < 1
            /\ mExistingThreads' = [mExistingThreads EXCEPT ![c.timer] = @ + 1]
    /\ c.event = "clipboard" => ~mOnClipboardChangeIsRunning
    /\ mOnClipboardChangeIsRunning' <=>
            (mOnClipboardChangeIsRunning \/ c.event = "clipboard")
Released ==
    /\ Top.kind # "thread" => ThreadsKept
    /\ Top.kind = "thread" =>
        /\ mExistingThreads' =
                IF Top.event = "timer"
                THEN [mExistingThreads EXCEPT ![Top.timer] = @ - 1]
                ELSE mExistingThreads
        /\ mOnClipboardChangeIsRunning' <=>
                (mOnClipboardChangeIsRunning /\ Top.event # "clipboard")

Starts(c) ==
    /\ Pushed(c) /\ c.kind = "thread" /\ CountsKept
    /\ c.event # "call" => Top.kind = "layer"
    /\ TimerKept \/ (Top.kind = "layer" /\ Launched(c))
    /\ Admitted(c)

Enters(c) ==
    /\ Pushed(c) /\ c.kind \in {"layer", "dialog"} /\ ~Counts(c)
    /\ UNCHANGED g_nLayersNeedingTimer /\ TimerKept /\ ThreadsKept
    /\ \/ ~Turned(c) /\ UNCHANGED g_DeferMessagesForUnderlyingPump
       \/ /\ Turned(c) <=> ~g_DeferMessagesForUnderlyingPump
          /\ g_DeferMessagesForUnderlyingPump'

Leaves ==
    /\ Popped /\ Top.kind = "layer"
    /\ g_nLayersNeedingTimer' =
            IF Counts(Top) THEN g_nLayersNeedingTimer - 1
                           ELSE g_nLayersNeedingTimer
    /\ g_DeferMessagesForUnderlyingPump' <=>
            (g_DeferMessagesForUnderlyingPump /\ ~Turned(Top))
    /\ g_MainTimerExists' \/ g_nLayersNeedingTimer' = 0
    /\ ThreadsKept

Ends ==
    /\ Popped /\ Top.kind # "layer" /\ CountsKept /\ Released
    /\ g_MainTimerExists => g_MainTimerExists'
    /\ (Launched(Top) /\ Counts(calls'[Len(calls) - 1])) =>
            g_MainTimerExists' \/ calls'[Len(calls) - 1].peek

\* Any change of a layer's at and timer but the one of AfterCheck.
LEMMA LayerAlike ==
    ASSUME NEW c \in Layer, NEW d \in Layer,
           d.waits = c.waits, d.sleeping = c.sleeping, d.turned = c.turned,
           d.peek = c.peek,
           NeedsTimer(c) => (c.at = "entry" <=> d.at = "entry")
    PROVE  Alike(c, d)
<1>1. c.kind = "layer" /\ d.kind = "layer" /\ d \in Call
    BY DEF Call, Layer
<1>2. Counts(c) <=> Counts(d)
    BY <1>1 DEF Counts, NeedsTimer
<1>3. Turned(c) <=> Turned(d)
    BY <1>1 DEF Turned
<1>4. IsMainLoop(c) => IsMainLoop(d)
    BY <1>1 DEF IsMainLoop
<1>5. c.peek => d.peek
    OBVIOUS
<1> QED BY <1>1, <1>2, <1>3, <1>4, <1>5, Zenon DEF Alike

LEMMA LayerAt ==
    ASSUME NEW c \in Layer, NEW at \in {"entry", "loop", "tick"},
           NEW t \in 0..Timers,
           NEW d, d = [c EXCEPT !.at = at, !.timer = t]
    PROVE  /\ d \in Layer
           /\ (NeedsTimer(c) => (c.at = "entry" <=> at = "entry"))
                    => Alike(c, d)
<1>1. [c EXCEPT !.at = at, !.timer = t] \in Layer
    BY DEF Layer
<1>2. /\ d.waits = c.waits /\ d.sleeping = c.sleeping
      /\ d.turned = c.turned /\ d.peek = c.peek /\ d.at = at
    BY DEF Layer
<1>3. d \in Layer
    BY <1>1
<1> QED BY <1>2, <1>3, LayerAlike

LEMMA ThreadNew ==
    ASSUME NEW event \in AllEvents \cup {"timer"}, NEW t \in 0..Timers
    PROVE  /\ NewThread(event, t) \in Call
           /\ NewThread(event, t).kind = "thread"
           /\ NewThread(event, t).event = event
           /\ NewThread(event, t).timer = t
BY DEF NewThread, Call, Thread

LEMMA LayerRecord ==
    ASSUME NEW sleeping \in BOOLEAN, NEW elapsed \in BOOLEAN,
           NEW turned \in BOOLEAN,
           NEW c, c = [kind |-> "layer", at |-> "entry", waits |-> FALSE,
                       sleeping |-> sleeping, elapsed |-> elapsed,
                       peek |-> FALSE, timer |-> 0, turned |-> turned]
    PROVE  /\ c \in Call /\ c.kind = "layer" /\ ~Counts(c)
           /\ Turned(c) <=> turned
<1>1. c \in Layer
    BY MsgSleepAssumption DEF Layer
<1> QED BY <1>1 DEF Call, Counts, Turned

LEMMA LayerNew ==
    ASSUME TypeOK, NEW sleeping \in BOOLEAN, NEW early \in BOOLEAN,
           NEW special \in BOOLEAN,
           NEW c, c = MsgSleep(FALSE, sleeping, early, special)
    PROVE  /\ c \in Call /\ c.kind = "layer" /\ ~Counts(c)
           /\ Turned(c) <=> (special /\ ~g_DeferMessagesForUnderlyingPump)
<1>1. (~sleeping \/ early) \in BOOLEAN
      /\ (special /\ ~g_DeferMessagesForUnderlyingPump) \in BOOLEAN
    OBVIOUS
<1> QED BY <1>1, LayerRecord, Zenon DEF MsgSleep
-----------------------------------------------------------------------------
(* Each action has one of the shapes *)

LEMMA TopLayer ==
    ASSUME IInv, NEW place, TopAt(place)
    PROVE  Top \in Layer /\ Top.kind = "layer" /\ Top.at = place
BY StackTop, Kinds DEF IInv, TopAt

LEMMA TopThread ==
    ASSUME IInv, Top.kind = "thread"
    PROVE  /\ Top \in Thread /\ Len(calls) >= 2
           /\ Top.event # "call" => calls[Len(calls) - 1].kind = "layer"
<1>1. Top \in Thread /\ Len(calls) \in Nat /\ Len(calls) \in Depth
    BY StackTop, Kinds DEF IInv
<1>2. Len(calls) >= 1 /\ calls[1].kind = "layer"
    BY DEF IInv, Nested, IsMainLoop
<1>3. Len(calls) # 1
    BY <1>2 DEF Top
<1>4. Top.event # "call" => calls[Len(calls) - 1].kind = "layer"
    BY <1>1 DEF IInv, Nested, Top
<1>5. Len(calls) >= 2
    BY <1>1, <1>2, <1>3, SmallNumbers, Zenon
<1> QED BY <1>1, <1>4, <1>5, Zenon

LEMMA KillShape ==
    ASSUME NEW layers, NEW enabled, KillIfUnneeded(layers, enabled)
    PROVE  /\ g_MainTimerExists => g_MainTimerExists' \/ layers = 0
           /\ (enabled # 0 /\ g_MainTimerExists) => g_MainTimerExists'
BY DEF KillIfUnneeded, NobodyNeedsIt, mainTimer

LEMMA DisableShape ==
    ASSUME NEW t, Disable(t)
    PROVE  TimerKept
BY KillShape DEF Disable, TimerKept

LEMMA CheckShape ==
    ASSUME IInv, NEW t \in 1..Timers, CheckScriptTimers(t)
    PROVE  \E c : Starts(c)
<1> DEFINE d == [Top EXCEPT !.timer = t]
           c == NewThread("timer", t)
<1>1. Top \in Layer /\ Top.kind = "layer"
    BY TopLayer DEF CheckScriptTimers
<1>2. /\ d \in Layer /\ d.waits = Top.waits /\ d.sleeping = Top.sleeping
      /\ d.turned = Top.turned /\ d.peek = Top.peek /\ d.at = Top.at
    BY <1>1 DEF Layer
<1>3. Alike(Top, d)
  <2> HIDE DEF d
  <2> QED BY <1>1, <1>2, LayerAlike
<1>4. c \in Call /\ c.kind = "thread" /\ c.event = "timer" /\ c.timer = t
    BY MsgSleepAssumption, ThreadNew
<1>5. calls' = Append(AtTop(d), c)
    BY DEF CheckScriptTimers
<1>6. StackLike(AtTop(d))
  <2> HIDE DEF d
  <2> QED BY <1>3, TopChanged DEF IInv
<1>7. Pushed(c)
  <2> HIDE DEF c, d
  <2> QED BY <1>4, <1>5, <1>6, Push DEF IInv
<1>8. TimerKept
    BY DisableShape DEF CheckScriptTimers, TimerKept, mainTimer
<1>9. CountsKept
    BY DEF CheckScriptTimers, CountsKept, Disable
<1>10. /\ mExistingThreads[t] < 1
       /\ mExistingThreads' = [mExistingThreads EXCEPT ![t] = @ + 1]
       /\ UNCHANGED mOnClipboardChangeIsRunning
    BY DEF CheckScriptTimers, ToRun, Eligible
<1>11. t \in 0..Timers /\ t # 0
    BY MsgSleepAssumption
<1> HIDE DEF c, d
<1>12. Admitted(c)
    BY <1>4, <1>10, <1>11 DEF Admitted
<1> QED BY <1>1, <1>4, <1>7, <1>8, <1>9, <1>12 DEF Starts

LEMMA CountedFinite ==
    ASSUME TypeOK, Nested
    PROVE  IsFiniteSet(Counted) /\ Cardinality(Counted) \in Nat
<1>1. Len(calls) \in Nat
    BY StackTop
<1>2. IsFiniteSet(1..Len(calls))
    BY <1>1, FS_Interval
<1>3. Counted \in SUBSET (1..Len(calls))
    BY DEF Counted, Depth
<1>4. IsFiniteSet(Counted)
    BY <1>2, <1>3, FS_Subset
<1> QED BY <1>4, FS_CardinalityType

LEMMA ReturnShape ==
    ASSUME IInv, TopAt("loop") \/ TopAt("tick"), Len(calls) >= 2,
           RETURN_FROM_MSGSLEEP
    PROVE  Leaves
<1>1. Top \in Layer /\ Top.kind = "layer" /\ Top.at # "entry"
    BY TopLayer
<1>2. Popped
    BY Pop DEF RETURN_FROM_MSGSLEEP, IInv
<1>3. g_nLayersNeedingTimer' =
            IF Counts(Top) THEN g_nLayersNeedingTimer - 1
                           ELSE g_nLayersNeedingTimer
    BY <1>1 DEF RETURN_FROM_MSGSLEEP, LayersAfterReturn, Counts
<1>4. g_DeferMessagesForUnderlyingPump' <=>
            (g_DeferMessagesForUnderlyingPump /\ ~Turned(Top))
    BY <1>1, Zenon
    DEF RETURN_FROM_MSGSLEEP, DeferAfterReturn, Turned, IInv, TypeOK
<1>5. g_nLayersNeedingTimer' \in Int
    BY <1>3 DEF IInv, TypeOK
<1>6. g_nLayersNeedingTimer' >= 0
  <2>1. IsFiniteSet(Counted)
    BY CountedFinite DEF IInv
  <2>2. Counts(Top) => Len(calls) \in Counted
    BY StackTop DEF Counted, Counts, Top, IInv
  <2>3. Counts(Top) => Cardinality(Counted) # 0
    BY <2>1, <2>2, FS_EmptySet
  <2> QED BY <1>3, <2>3 DEF IInv, TypeOK, LayersCounted
<1>7. g_MainTimerExists' \/ g_nLayersNeedingTimer' = 0
  <2>1. CASE ~g_MainTimerExists
    BY <1>5, <1>6, <2>1
    DEF RETURN_FROM_MSGSLEEP, SetIfStillNeeded, SET_MAIN_TIMER
  <2>2. CASE g_MainTimerExists
    BY <2>2, KillShape DEF RETURN_FROM_MSGSLEEP, mainTimer
  <2> QED BY <2>1, <2>2
<1>8. ThreadsKept
    BY DEF RETURN_FROM_MSGSLEEP, ThreadsKept, scriptTimers
<1> QED BY <1>1, <1>2, <1>3, <1>4, <1>7, <1>8 DEF Leaves

\* The main event loop never returns: no layer above it is there to set the
\* flag that would let it find the queue empty.
LEMMA MainLoopStays ==
    ASSUME IInv, Top.kind = "layer", ~(Len(calls) >= 2)
    PROVE  Top.waits /\ Waits(Top)
<1>0. IsMainLoop(calls[1])
    BY DEF IInv, Nested
<1>1. Len(calls) = 1
  <2>1. Len(calls) \in Nat /\ Len(calls) >= 1
    BY StackTop DEF IInv, Nested
  <2> QED BY <2>1, SmallNumbers, Zenon
<1>2. IsMainLoop(Top)
    BY <1>0, <1>1, Zenon DEF Top
<1>3. ~Turned(calls[1])
    BY <1>0 DEF Turned, IsMainLoop
<1>4. ~g_DeferMessagesForUnderlyingPump
    BY <1>1, <1>3 DEF IInv, DeferOwned, Depth
<1> QED BY <1>2, <1>4, Zenon DEF IsMainLoop, Waits
LEMMA AfterCheckShape ==
    ASSUME IInv, AfterCheck
    PROVE  Joins \/ Stays
<1> DEFINE d == [Top EXCEPT !.at = "loop", !.timer = 0]
<1>1. Top \in Layer /\ Top.kind = "layer" /\ Top.at = "entry"
    BY TopLayer DEF AfterCheck
<1>2. "loop" \in {"entry", "loop", "tick"} /\ 0 \in 0..Timers
    BY MsgSleepAssumption
<1>3. d = [Top EXCEPT !.at = "loop", !.timer = 0]
    OBVIOUS
<1>4. calls' = AtTop(d)
    BY DEF AfterCheck
<1> HIDE DEF d
<1>5. d \in Layer /\ d.at = "loop"
  <2>1. d \in Layer
    BY <1>1, <1>2, <1>3, LayerAt
  <2>2. d.at = "loop"
    BY <1>1, <1>3 DEF Layer
  <2> QED BY <2>1, <2>2
<1>6. CASE ~NeedsTimer(Top)
  <2>1. Alike(Top, d)
    BY <1>1, <1>2, <1>3, <1>6, LayerAt
  <2>2. StackLike(calls')
    BY <1>4, <2>1, TopChanged DEF IInv
  <2> QED BY <1>6, <2>2 
      DEF AfterCheck, Stays, CountsKept, TimerKept, ThreadsKept, mainTimer, scriptTimers
<1>7. CASE NeedsTimer(Top)
  <2>1. ~Counts(Top)
    BY <1>1 DEF Counts
  <2>2. d \in Call /\ d.kind = "layer"
    BY <1>5 DEF Call, Layer
  <2>3. Top.waits = d.waits /\ Top.sleeping = d.sleeping
        /\ Top.turned = d.turned /\ Top.peek = d.peek
    BY <1>1, <1>3 DEF Layer
  <2>4. Turned(Top) <=> Turned(d)
    BY <1>1, <2>2, <2>3 DEF Turned
  <2>5. IsMainLoop(Top) => IsMainLoop(d)
    BY <1>1, <2>2, <2>3 DEF IsMainLoop
  <2>6. Counts(d)
    BY <1>1, <1>5, <1>7, <2>2, <2>3 DEF Counts, NeedsTimer
  <2>7. /\ g_nLayersNeedingTimer' = g_nLayersNeedingTimer + 1
        /\ UNCHANGED g_DeferMessagesForUnderlyingPump
        /\ g_MainTimerExists' /\ ThreadsKept
    BY <1>7 DEF AfterCheck, SET_MAIN_TIMER, ThreadsKept, scriptTimers
  <2> QED BY <1>1, <1>4, <2>1, <2>2, <2>4, <2>5, <2>6, <2>7 DEF Joins
<1> QED BY <1>6, <1>7

LEMMA AfterTickShape ==
    ASSUME IInv, AfterTick
    PROVE  Stays \/ Leaves
<1> DEFINE d == [Top EXCEPT !.at = "loop", !.timer = 0]
<1>1. Top \in Layer /\ Top.kind = "layer" /\ Top.at = "tick"
    BY TopLayer DEF AfterTick
<1>2. CASE Top.waits \/ ~Top.sleeping \/ ~IsCycleComplete(Top)
  <2>1. "loop" \in {"entry", "loop", "tick"} /\ 0 \in 0..Timers
    BY MsgSleepAssumption
  <2>2. d = [Top EXCEPT !.at = "loop", !.timer = 0]
    OBVIOUS
  <2>3. calls' = AtTop(d)
    BY <1>2 DEF AfterTick
  <2> HIDE DEF d
  <2>4. Alike(Top, d)
    BY <1>1, <2>1, <2>2, LayerAt
  <2>5. StackLike(calls')
    BY <2>3, <2>4, TopChanged DEF IInv
  <2> QED BY <1>2, <2>5 
      DEF AfterTick, Stays, CountsKept, TimerKept, ThreadsKept, mainTimer, scriptTimers
<1>3. CASE ~(Top.waits \/ ~Top.sleeping \/ ~IsCycleComplete(Top))
  <2>1. Len(calls) >= 2
    BY <1>1, <1>3, MainLoopStays
  <2> QED BY <1>3, <2>1, ReturnShape DEF AfterTick
<1> QED BY <1>2, <1>3

LEMMA FetchTickShape ==
    ASSUME IInv, FetchTick
    PROVE  Stays
<1> DEFINE d == [Top EXCEPT !.at = "tick", !.timer = 0]
<1>1. Top \in Layer /\ Top.kind = "layer" /\ Top.at = "loop"
    BY TopLayer DEF FetchTick
<1>2. "tick" \in {"entry", "loop", "tick"} /\ 0 \in 0..Timers
    BY MsgSleepAssumption
<1>3. d = [Top EXCEPT !.at = "tick", !.timer = 0]
    OBVIOUS
<1>4. calls' = AtTop(d)
    BY DEF FetchTick
<1> HIDE DEF d
<1>5. Alike(Top, d)
    BY <1>1, <1>2, <1>3, LayerAt
<1>6. StackLike(calls')
    BY <1>4, <1>5, TopChanged DEF IInv
<1> QED BY <1>6 
    DEF FetchTick, Stays, CountsKept, TimerKept, ThreadsKept, scriptTimers

LEMMA FetchNothingShape ==
    ASSUME IInv, FetchNothing
    PROVE  Leaves
<1>1. Top.kind = "layer" /\ ~Waits(Top)
    BY TopLayer DEF FetchNothing
<1>2. Len(calls) >= 2
    BY <1>1, MainLoopStays
<1> QED BY <1>2, ReturnShape DEF FetchNothing
\* A step that leaves the stack and the counts of layers alone.
LEMMA SameShape ==
    ASSUME IInv, UNCHANGED calls, CountsKept, TimerKept, ThreadsKept
    PROVE  Stays
<1>1. StackLike(calls)
    BY SameStack DEF IInv
<1> QED BY <1>1 DEF Stays

LEMMA LaunchShape ==
    ASSUME IInv, NEW event \in AllEvents,
           calls' = Append(calls, NewThread(event, 0)), CountsKept,
           mExistingThreads' = mExistingThreads,
           event = "clipboard" => ~mOnClipboardChangeIsRunning,
           mOnClipboardChangeIsRunning' <=>
                (mOnClipboardChangeIsRunning \/ event = "clipboard"),
           event = "call" \/ Top.kind = "layer",
           TimerKept \/ (Top.kind = "layer" /\ event # "call")
    PROVE  \E c : Starts(c)
<1> DEFINE c == NewThread(event, 0)
<1>1. c \in Call /\ c.kind = "thread" /\ c.event = event /\ c.timer = 0
    BY MsgSleepAssumption, ThreadNew
<1>2. calls' = Append(calls, c)
    OBVIOUS
<1> HIDE DEF c
<1>3. Pushed(c)
    BY <1>1, <1>2, SameStack, Push DEF IInv
<1>4. c.event # "timer"
    BY <1>1 DEF AllEvents
<1>5. TimerKept \/ (Top.kind = "layer" /\ Launched(c))
    BY <1>1, <1>4 DEF Launched
<1>6. c.event # "call" => Top.kind = "layer"
    BY <1>1
<1>7. Admitted(c)
    BY <1>1, <1>4, MsgSleepAssumption DEF Admitted
<1> QED BY <1>1, <1>3, <1>5, <1>6, <1>7 DEF Starts

LEMMA FetchEventShape ==
    ASSUME IInv, FetchEvent
    PROVE  Stays \/ \E c : Starts(c)
<1> DEFINE event == Head(queue).event
<1>1. Top.kind = "layer"
    BY TopLayer DEF FetchEvent
<1>2. CountsKept
    BY DEF FetchEvent, CountsKept
<1>3. event \in AllEvents
  <2>1. Head(queue) \in [event : AllEvents, window : BOOLEAN]
    BY HeadTailProperties DEF FetchEvent, Visible, IInv, TypeOK
  <2> QED BY <2>1
<1>4. CASE ~Launchable(event)
  <2>1. UNCHANGED calls /\ TimerKept /\ ThreadsKept
    BY <1>4 DEF FetchEvent, TimerKept, ThreadsKept, mainTimer, scriptTimers
  <2> QED BY <1>2, <2>1, SameShape
<1>5. CASE Launchable(event)
  <2>1. calls' = Append(calls, NewThread(event, 0))
    BY <1>5 DEF FetchEvent
  <2>2. event # "call" \/ TimerKept
    BY <1>5 DEF FetchEvent, TimerKept, mainTimer
  <2>3. /\ mExistingThreads' = mExistingThreads
        /\ event = "clipboard" => ~mOnClipboardChangeIsRunning
        /\ mOnClipboardChangeIsRunning' <=>
                (mOnClipboardChangeIsRunning \/ event = "clipboard")
    BY <1>5 DEF FetchEvent, Launchable, scriptTimers
  <2> HIDE DEF event
  <2> QED BY <1>1, <1>2, <1>3, <2>1, <2>2, <2>3, LaunchShape
<1> QED BY <1>4, <1>5

LEMMA CallShape ==
    ASSUME IInv, CallMsgSleep, TimerKept, ThreadsKept,
           UNCHANGED g_nLayersNeedingTimer
    PROVE  \E c : Enters(c)
<1> DEFINE c == MsgSleep(FALSE, FALSE, FALSE, TRUE)
<1>1. /\ c \in Call /\ c.kind = "layer" /\ ~Counts(c)
      /\ Turned(c) <=> ~g_DeferMessagesForUnderlyingPump
  <2>1. c = MsgSleep(FALSE, FALSE, FALSE, TRUE)
    OBVIOUS
  <2> HIDE DEF c
  <2> QED BY <2>1, LayerNew, Zenon DEF IInv
<1>2. calls' = Append(calls, c) /\ g_DeferMessagesForUnderlyingPump'
    BY DEF CallMsgSleep
<1> HIDE DEF c
<1>3. Pushed(c)
    BY <1>1, <1>2, SameStack, Push DEF IInv
<1> QED BY <1>1, <1>2, <1>3 DEF Enters

LEMMA MainWindowShape ==
    ASSUME IInv, MainWindowProc
    PROVE  Stays \/ (\E c : Enters(c)) \/ (\E c : Starts(c))
<1>1. TimerKept /\ ThreadsKept /\ UNCHANGED g_nLayersNeedingTimer
    BY DEF MainWindowProc, TimerKept, ThreadsKept, mainTimer, scriptTimers
<1>2. CASE CallMsgSleep
    BY <1>1, <1>2, CallShape
<1>3. CASE UNCHANGED <<calls, g_DeferMessagesForUnderlyingPump>>
    BY <1>1, <1>3, SameShape DEF CountsKept
<1>4. CASE calls' = Append(calls, NewThread("call", 0))
           /\ UNCHANGED g_DeferMessagesForUnderlyingPump
    BY <1>1, <1>4, LaunchShape DEF CountsKept, ThreadsKept, AllEvents
<1> QED BY <1>2, <1>3, <1>4 DEF MainWindowProc, NoCall
LEMMA DialogTickShape ==
    ASSUME IInv, DialogTick
    PROVE  \E c : Enters(c)
BY CallShape DEF DialogTick, TimerKept, ThreadsKept, scriptTimers

LEMMA SleepShape ==
    ASSUME IInv, NEW sleeping \in BOOLEAN, NEW early \in BOOLEAN,
           Sleep(sleeping, early)
    PROVE  \E c : Enters(c)
<1> DEFINE c == MsgSleep(FALSE, sleeping, early, FALSE)
<1>1. c \in Call /\ c.kind = "layer" /\ ~Counts(c) /\ ~Turned(c)
  <2>1. c = MsgSleep(FALSE, sleeping, early, FALSE)
    OBVIOUS
  <2> HIDE DEF c
  <2> QED BY <2>1, LayerNew, Zenon DEF IInv
<1>2. calls' = Append(calls, c)
    BY DEF Sleep
<1>3. UNCHANGED <<g_nLayersNeedingTimer, g_DeferMessagesForUnderlyingPump>>
      /\ TimerKept /\ ThreadsKept
    BY DEF Sleep, TimerKept, ThreadsKept, mainTimer, scriptTimers
<1> HIDE DEF c
<1>4. Pushed(c)
    BY <1>1, <1>2, SameStack, Push DEF IInv
<1> QED BY <1>1, <1>3, <1>4 DEF Enters

LEMMA MsgBoxShape ==
    ASSUME IInv, MsgBox
    PROVE  \E c : Enters(c)
<1> DEFINE c == [kind |-> "dialog"]
<1>1. c \in Call /\ c.kind = "dialog"
    BY DEF Call, Dialog
<1>2. ~Counts(c) /\ ~Turned(c)
    BY <1>1 DEF Counts, NeedsTimer, Turned
<1>3. calls' = Append(calls, c)
    BY DEF MsgBox
<1>4. UNCHANGED <<g_nLayersNeedingTimer, g_DeferMessagesForUnderlyingPump>>
      /\ TimerKept /\ ThreadsKept
    BY DEF MsgBox, TimerKept, ThreadsKept, mainTimer, scriptTimers
<1> HIDE DEF c
<1>5. Pushed(c)
    BY <1>1, <1>3, SameStack, Push DEF IInv
<1> QED BY <1>1, <1>2, <1>4, <1>5 DEF Enters

LEMMA CloseShape ==
    ASSUME IInv, CloseDialog
    PROVE  Ends
<1>1. Top.kind = "dialog"
    BY DEF CloseDialog
<1>2. Len(calls) >= 2
  <2>1. Len(calls) \in Nat /\ Len(calls) >= 1
    BY StackTop DEF IInv, Nested
  <2>2. Len(calls) # 1
    BY <1>1 DEF IInv, Nested, IsMainLoop, Top
  <2> QED BY <2>1, <2>2, SmallNumbers, Zenon
<1>3. Popped
    BY <1>2, Pop DEF CloseDialog, IInv
<1> QED BY <1>1, <1>3 
    DEF CloseDialog, Ends, CountsKept, Launched, Released, ThreadsKept,
        mainTimer, scriptTimers

LEMMA ThreadAlike ==
    ASSUME NEW c \in Thread, NEW shield \in {"none", "start", "critical"},
           NEW d, d = [c EXCEPT !.shield = shield]
    PROVE  Alike(c, d)
<1>1. [c EXCEPT !.shield = shield] \in Thread
    BY DEF Thread
<1>2. d \in Call /\ c.kind = "thread" /\ d.kind = "thread"
      /\ d.event = c.event /\ d.timer = c.timer
    BY <1>1 DEF Call, Thread
<1> QED BY <1>2, Zenon DEF Alike, Counts, NeedsTimer, Turned, IsMainLoop

LEMMA ShieldShape ==
    ASSUME IInv, NEW i \in Depth, calls[i].kind = "thread",
           NEW shield \in {"none", "start", "critical"},
           NEW d, d = [calls[i] EXCEPT !.shield = shield],
           calls' = [calls EXCEPT ![i] = d],
           CountsKept, TimerKept, ThreadsKept
    PROVE  Stays
<1>1. calls[i] \in Thread
    BY StackTop, Kinds DEF IInv
<1>2. Alike(calls[i], d)
    BY <1>1, ThreadAlike
<1>3. StackLike([calls EXCEPT ![i] = d])
    BY <1>2, OneChanged DEF IInv
<1> QED BY <1>3 DEF Stays

LEMMA ElapseShape ==
    ASSUME IInv, NEW i \in Depth, Elapse(i)
    PROVE  Stays
<1> DEFINE c == calls[i]
           d == [c EXCEPT !.elapsed = TRUE]
<1>1. c \in Layer
  <2>1. c \in Call /\ c.kind = "layer"
    BY StackTop DEF IInv, Elapse, NeedsTimer
  <2> HIDE DEF c
  <2> QED BY <2>1, Kinds
<1>2. calls' = [calls EXCEPT ![i] = d]
    BY DEF Elapse
<1>3. d = [c EXCEPT !.elapsed = TRUE]
    OBVIOUS
<1>4. [c EXCEPT !.elapsed = TRUE] \in Layer
  <2> HIDE DEF c
  <2> QED BY <1>1 DEF Layer
<1> HIDE DEF c, d
<1>5. /\ d \in Layer /\ d.waits = c.waits /\ d.sleeping = c.sleeping
      /\ d.turned = c.turned /\ d.peek = c.peek /\ d.at = c.at
    BY <1>1, <1>3, <1>4 DEF Layer
<1>6. Alike(c, d)
    BY <1>1, <1>5, LayerAlike
<1>7. StackLike(calls')
    BY <1>2, <1>6, OneChanged DEF IInv, c
<1> QED BY <1>7 
    DEF Elapse, Stays, CountsKept, TimerKept, ThreadsKept, mainTimer,
        scriptTimers
LEMMA UntouchedShape ==
    ASSUME IInv,
           \/ \E t \in 1..Timers, once \in BOOLEAN : SetTimerOn(t, once)
           \/ \E t \in 1..Timers : SetTimerOff(t)
           \/ \E t \in 1..Timers : Due(t)
           \/ \E event \in Events : Post(event)
           \/ Tick \/ Discard \/ UNCHANGED vars
    PROVE  Stays
<1>1. UNCHANGED calls /\ CountsKept
    BY DEF SetTimerOn, SetTimerOff, Disable, Due, Post, Tick, Discard, NoCall,
           vars, CountsKept
<1>2. TimerKept
  <2>1. ASSUME NEW t \in 1..Timers, NEW once \in BOOLEAN, SetTimerOn(t, once)
        PROVE  TimerKept
    BY <2>1 DEF SetTimerOn, SET_MAIN_TIMER, TimerKept, mainTimer
  <2>2. ASSUME NEW t \in 1..Timers, SetTimerOff(t)
        PROVE  TimerKept
    BY <2>2, DisableShape DEF SetTimerOff, TimerKept, mainTimer
  <2>3. ASSUME \/ \E t \in 1..Timers : Due(t)
               \/ \E event \in Events : Post(event)
               \/ Tick \/ Discard \/ UNCHANGED vars
        PROVE  UNCHANGED g_MainTimerExists
    BY <2>3 DEF Due, Post, Tick, Discard, vars, mainTimer
  <2> QED BY <2>1, <2>2, <2>3 DEF TimerKept
<1>3. ThreadsKept
    BY DEF SetTimerOn, SetTimerOff, Disable, Due, Post, Tick, Discard, vars,
           ThreadsKept, scriptTimers
<1> QED BY <1>1, <1>2, <1>3, SameShape

LEMMA EmptiedAlike ==
    ASSUME NEW c \in Layer,
           NEW d, d = [c EXCEPT !.peek = @ \/ c.sleeping, !.elapsed = TRUE]
    PROVE  /\ ~c.waits => Alike(c, d)
           /\ Counts(d) => d.peek
<1> DEFINE peek == c.peek \/ c.sleeping
<1>1. peek \in BOOLEAN
    OBVIOUS
<1>2. d = [c EXCEPT !.peek = peek, !.elapsed = TRUE]
    OBVIOUS
<1>3. (c.peek => peek) /\ (c.sleeping => peek)
    OBVIOUS
<1> HIDE DEF peek
<1>4. [c EXCEPT !.peek = peek, !.elapsed = TRUE] \in Layer
    BY <1>1 DEF Layer
<1>5. /\ d \in Layer /\ d.waits = c.waits /\ d.sleeping = c.sleeping
      /\ d.turned = c.turned /\ d.peek = peek /\ d.at = c.at
      /\ c.kind = "layer" /\ d.kind = "layer"
    BY <1>1, <1>2, <1>4 DEF Layer
<1>6. d \in Call
    BY <1>5 DEF Call
<1>7. (Counts(c) <=> Counts(d)) /\ (Turned(c) <=> Turned(d))
    BY <1>5, Zenon DEF Counts, NeedsTimer, Turned
<1>8. ~c.waits => Alike(c, d)
    BY <1>3, <1>5, <1>6, <1>7, Zenon DEF Alike, IsMainLoop
<1>9. Counts(d) => d.peek
    BY <1>3, <1>5, Zenon DEF Counts, NeedsTimer
<1> QED BY <1>8, <1>9

LEMMA ThreadReturnsShape ==
    ASSUME IInv, ThreadReturns
    PROVE  Ends
<1> DEFINE under == Beneath[Len(Beneath)]
           launched == Top.event \notin {"timer", "call"}
           emptied == launched /\ ~under.waits /\ IsCycleComplete(under)
           n == Len(calls) - 1
           d == [under EXCEPT !.peek = @ \/ under.sleeping, !.elapsed = TRUE]
<1>1. Top \in Thread /\ Top.kind = "thread" /\ Len(calls) >= 2
      /\ (Top.event # "call" => calls[n].kind = "layer")
    BY TopThread DEF ThreadReturns
<1>2. under = calls[n] /\ n \in Depth /\ n \in 1..n /\ Len(Beneath) = n
  <2>1. Len(calls) \in Nat /\ Len(calls) >= 2 /\ n \in 1..n
    BY <1>1, StackTop DEF IInv
  <2>2. Len(Beneath) = n /\ \A i \in 1..n : Beneath[i] = calls[i]
    BY <1>1, PrefixLike DEF IInv
  <2>3. n \in Depth
    BY <2>1 DEF Depth
  <2> QED BY <2>1, <2>2, <2>3
<1>3. launched => under \in Layer
    BY <1>1, <1>2, StackTop, Kinds DEF IInv
<1>0. Released
    BY <1>1 DEF ThreadReturns, Released
<1>4. CASE emptied
  <2>1. calls' = [Beneath EXCEPT ![Len(Beneath)] = d]
    BY <1>4 DEF ThreadReturns
  <2>2. Alike(under, d) /\ (Counts(d) => d.peek)
    <3>1. d = [under EXCEPT !.peek = @ \/ under.sleeping, !.elapsed = TRUE]
      OBVIOUS
    <3>2. under \in Layer /\ ~under.waits
      BY <1>3, <1>4
    <3> HIDE DEF d, under
    <3> QED BY <3>1, <3>2, EmptiedAlike
  <2>3. Popped /\ calls'[n] = d
    BY <1>1, <1>2, <2>1, <2>2, PopChanged DEF IInv
  <2> QED BY <1>1, <1>0, <2>2, <2>3
      DEF Ends, ThreadReturns, CountsKept, SET_MAIN_TIMER, mainTimer
<1>5. CASE ~emptied
  <2>1. calls' = Beneath
    BY <1>5 DEF ThreadReturns
  <2>2. Popped
    BY <1>1, <2>1, Pop DEF IInv
  <2>3. calls'[n] = under
    BY <2>1, <1>2
  <2>4. (launched /\ Counts(under)) => g_MainTimerExists'
    BY <1>5 DEF ThreadReturns, RestartsTimer, Counts, NeedsTimer, SET_MAIN_TIMER
  <2> QED BY <1>1, <1>0, <2>2, <2>3, <2>4
      DEF Ends, Launched, ThreadReturns, CountsKept, SET_MAIN_TIMER, mainTimer
<1> QED BY <1>4, <1>5
LEMMA StepShape ==
    ASSUME IInv, [Next]_vars
    PROVE  \/ Stays \/ Joins \/ Leaves \/ Ends
           \/ \E c : Starts(c)
           \/ \E c : Enters(c)
<1>1. CASE \E t \in 1..Timers : CheckScriptTimers(t)
    BY <1>1, CheckShape
<1>2. CASE AfterCheck \/ AfterTick
    BY <1>2, AfterCheckShape, AfterTickShape
<1>3. CASE FetchEvent \/ FetchTick \/ FetchNothing
    BY <1>3, FetchEventShape, FetchTickShape, FetchNothingShape
<1>4. CASE MainWindowProc \/ DialogTick
    BY <1>4, MainWindowShape, DialogTickShape
<1>5. CASE \E sleeping, early \in BOOLEAN : Sleep(sleeping, early)
    BY <1>5, SleepShape
<1>6. CASE MsgBox \/ CloseDialog \/ ThreadReturns
    BY <1>6, MsgBoxShape, CloseShape, ThreadReturnsShape
<1>7. CASE \E shield \in Shields \cup {"none"} : Shield(shield)
  <2>1. PICK shield \in Shields \cup {"none"} : Shield(shield)
    BY <1>7
  <2>2. shield \in {"none", "start", "critical"}
    BY MsgSleepAssumption
  <2>3. Len(calls) \in Depth /\ calls[Len(calls)].kind = "thread"
    BY <2>1, StackTop DEF IInv, Shield, Top
  <2>4. CountsKept /\ TimerKept /\ ThreadsKept
    BY <2>1 DEF Shield, CountsKept, TimerKept, ThreadsKept, mainTimer,
                scriptTimers
  <2>5. calls' = [calls EXCEPT ![Len(calls)] =
                    [calls[Len(calls)] EXCEPT !.shield = shield]]
    BY <2>1 DEF Shield, AtTop, Top
  <2> QED BY <2>2, <2>3, <2>4, <2>5, ShieldShape
<1>8. CASE \E i \in Depth : Elapse(i)
    BY <1>8, ElapseShape
<1>9. CASE \E i \in Depth : UninterruptibleTimeout(i)
  <2>1. PICK i \in Depth : UninterruptibleTimeout(i)
    BY <1>9
  <2>2. calls[i].kind = "thread"
    BY <2>1 DEF UninterruptibleTimeout, Current, ThreadsAt
  <2>3. CountsKept /\ TimerKept /\ ThreadsKept
    BY <2>1 DEF UninterruptibleTimeout, CountsKept, TimerKept, ThreadsKept, mainTimer,
                scriptTimers
  <2>4. calls' = [calls EXCEPT ![i] = [calls[i] EXCEPT !.shield = "none"]]
    BY <2>1 DEF UninterruptibleTimeout
  <2> QED BY <2>2, <2>3, <2>4, ShieldShape
<1>10. CASE \/ \E t \in 1..Timers, once \in BOOLEAN : SetTimerOn(t, once)
            \/ \E t \in 1..Timers : SetTimerOff(t)
            \/ \E t \in 1..Timers : Due(t)
            \/ \E event \in Events : Post(event)
            \/ Tick \/ Discard \/ UNCHANGED vars
    BY <1>10, UntouchedShape
<1> QED
    BY <1>1, <1>2, <1>3, <1>4, <1>5, <1>6, <1>7, <1>8, <1>9, <1>10, Zenon
    DEF Next, PumpStep, ScriptStep, OutsideStep
-----------------------------------------------------------------------------
(* Each shape preserves the invariant of the stack *)

StackInv ==
    calls \in Seq(Call) /\ Nested /\ LayersCounted /\ DeferOwned /\ Repaired

LEMMA StackDepth ==
    ASSUME IInv
    PROVE  /\ Len(calls) \in Nat /\ Len(calls) >= 1 /\ Depth = 1..Len(calls)
           /\ 1 \in Depth /\ Len(calls) \in Depth /\ IsMainLoop(calls[1])
<1>1. Len(calls) \in Nat /\ Len(calls) \in Depth
    BY StackTop DEF IInv
<1>2. Len(calls) >= 1 /\ IsMainLoop(calls[1])
    BY DEF IInv, Nested
<1>3. 1 \in 1..Len(calls)
  <2>1. Len(calls) \in Nat /\ Len(calls) >= 1
    BY <1>1, <1>2
  <2> QED BY <2>1
<1> QED BY <1>1, <1>2, <1>3 DEF Depth

LEMMA StaysPreserves ==
    ASSUME IInv, Stays
    PROVE  StackInv'
<1>1. /\ calls' \in Seq(Call) /\ Depth' = Depth
      /\ \A i \in Depth : Alike(calls[i], calls'[i])
    BY DEF Stays, StackLike, Depth
<1>2. Nested'
  <2>1. Len(calls') >= 1
    BY StackDepth DEF Stays, StackLike
  <2>2. IsMainLoop(calls'[1])
    BY <1>1, StackDepth DEF Alike
  <2>3. ASSUME NEW i \in Depth, calls'[i].kind = "thread",
               calls'[i].event # "call"
        PROVE  i > 1 /\ calls'[i - 1].kind = "layer"
    <3>1. calls[i].kind = "thread" /\ calls[i].event # "call"
      BY <1>1, <2>3 DEF Alike
    <3>2. i > 1 /\ calls[i - 1].kind = "layer"
      BY <3>1 DEF IInv, Nested
    <3>3. i - 1 \in Depth
      BY <3>2, StackDepth
    <3> QED BY <1>1, <3>2, <3>3 DEF Alike
  <2> QED BY <1>1, <2>1, <2>2, <2>3 DEF Nested, IsMainLoop
<1>3. LayersCounted'
  <2>1. Counted' = {i \in Depth : Counts(calls'[i])}
    BY <1>1 DEF Counted, Counts, NeedsTimer
  <2>2. Counted = {i \in Depth : Counts(calls[i])}
    BY DEF Counted, Counts
  <2>3. \A i \in Depth : Counts(calls[i]) <=> Counts(calls'[i])
    BY <1>1 DEF Alike
  <2>4. Counted' = Counted
    BY <2>1, <2>2, <2>3
  <2> QED BY <2>4 DEF IInv, LayersCounted, Stays, CountsKept
<1>4. DeferOwned'
  <2>1. \A i \in Depth : Turned(calls[i]) <=> Turned(calls'[i])
    BY <1>1 DEF Alike
  <2>2. g_DeferMessagesForUnderlyingPump' = g_DeferMessagesForUnderlyingPump
    BY DEF Stays, CountsKept
  <2> QED BY <1>1, <2>1, <2>2 DEF IInv, DeferOwned, Turned
<1>5. Repaired'
  <2> SUFFICES ASSUME ~g_MainTimerExists', NEW i \in Depth, Counts(calls'[i])
               PROVE  \/ calls'[i].peek
                      \/ \E j \in Depth : j > i /\ calls'[j].kind = "layer"
                      \/ i + 1 \in Depth /\ Launched(calls'[i + 1])
    BY <1>1 DEF Repaired, Counts, NeedsTimer, Launched
  <2>1. Counts(calls[i])
    BY <1>1 DEF Alike
  <2>2. ~g_MainTimerExists
    <3>1. i \in Counted
      BY <2>1 DEF Counted, Counts
    <3>2. Cardinality(Counted) # 0
      BY <3>1, CountedFinite, FS_EmptySet DEF IInv
    <3> QED BY <3>2 DEF IInv, LayersCounted, Stays, TimerKept
  <2>3. CASE calls[i].peek
    BY <1>1, <2>1, <2>3 DEF Alike
  <2>4. CASE \E j \in Depth : j > i /\ calls[j].kind = "layer"
    BY <1>1, <2>4 DEF Alike
  <2>5. CASE i + 1 \in Depth /\ Launched(calls[i + 1])
    BY <1>1, <2>5 DEF Alike, Launched
  <2> QED BY <2>1, <2>2, <2>3, <2>4, <2>5 DEF IInv, Repaired
<1> QED BY <1>1, <1>2, <1>3, <1>4, <1>5 DEF StackInv
LEMMA JoinsPreserves ==
    ASSUME IInv, Joins
    PROVE  StackInv'
<1> DEFINE n == Len(calls)
<1>1. PICK d \in Call :
        /\ calls' = AtTop(d) /\ d.kind = "layer" /\ Counts(d)
        /\ (Turned(Top) <=> Turned(d)) /\ (IsMainLoop(Top) => IsMainLoop(d))
    BY DEF Joins
<1>2. /\ calls' \in Seq(Call) /\ Len(calls') = n
      /\ \A j \in 1..n : calls'[j] = IF j = n THEN d ELSE calls[j]
  <2>1. calls \in Seq(Call) /\ n \in 1..Len(calls)
    BY StackTop DEF IInv, Depth
  <2>2. calls' = [calls EXCEPT ![n] = d]
    BY <1>1 DEF AtTop
  <2> QED BY <2>1, <2>2, ExceptSeq
<1>3. Depth' = Depth /\ Depth = 1..n /\ n \in Nat /\ n \in Depth
    BY <1>2, StackDepth DEF Depth
<1> HIDE DEF n
<1>4. Nested'
  <2>1. Len(calls') >= 1
    BY <1>2, StackDepth DEF n
  <2>2. IsMainLoop(calls'[1])
    BY <1>1, <1>2, <1>3, StackDepth DEF n, Top
  <2>3. ASSUME NEW i \in Depth, calls'[i].kind = "thread",
               calls'[i].event # "call"
        PROVE  i > 1 /\ calls'[i - 1].kind = "layer"
    <3>1. i # n /\ calls'[i] = calls[i]
      BY <1>1, <1>2, <1>3, <2>3
    <3>2. i > 1 /\ calls[i - 1].kind = "layer"
      BY <2>3, <3>1 DEF IInv, Nested
    <3>3. i - 1 \in 1..n
      BY <1>3, <3>2
    <3> QED BY <1>1, <1>2, <3>2, <3>3
  <2> QED BY <1>3, <2>1, <2>2, <2>3 DEF Nested, IsMainLoop
<1>5. LayersCounted'
  <2>1. Counted' = {i \in Depth : Counts(calls'[i])}
    BY <1>3 DEF Counted, Counts, NeedsTimer
  <2>2. Counted = {i \in Depth : Counts(calls[i])}
    BY DEF Counted, Counts
  <2>3. ~Counts(calls[n])
    BY DEF Joins, Top, n
  <2>4. \A i \in Depth : Counts(calls'[i]) <=> (i = n \/ Counts(calls[i]))
    BY <1>1, <1>2, <1>3
  <2>5. Counted' = Counted \cup {n} /\ n \notin Counted
    BY <1>3, <2>1, <2>2, <2>3, <2>4
  <2>6. Cardinality(Counted') = Cardinality(Counted) + 1
    BY <2>5, CountedFinite, FS_AddElement DEF IInv
  <2> QED BY <2>6 DEF IInv, LayersCounted, Joins
<1>6. DeferOwned'
  <2>1. \A i \in Depth : Turned(calls'[i]) <=> Turned(calls[i])
    BY <1>1, <1>2, <1>3 DEF Top, n
  <2>2. g_DeferMessagesForUnderlyingPump' = g_DeferMessagesForUnderlyingPump
    BY DEF Joins
  <2> QED BY <1>3, <2>1, <2>2 DEF IInv, DeferOwned, Turned
<1>7. Repaired'
    BY DEF Joins, Repaired
<1> QED BY <1>2, <1>4, <1>5, <1>6, <1>7 DEF StackInv

\* What Starts and Enters have in common.
LEMMA PushedPreserves ==
    ASSUME IInv, NEW c, Pushed(c), ~Counts(c),
           c.kind = "thread" /\ c.event # "call" => Top.kind = "layer"
    PROVE  /\ Depth' = 1..(Len(calls) + 1) /\ Nested'
           /\ Counted' = Counted
<1> DEFINE n == Len(calls)
<1>1. /\ n \in Nat /\ n >= 1 /\ Depth = 1..n
      /\ 1 \in Depth /\ n \in Depth /\ IsMainLoop(calls[1])
    BY StackDepth
<1>2. /\ Len(calls') = n + 1 /\ Depth' = 1..(n + 1)
      /\ \A i \in Depth : Alike(calls[i], calls'[i])
      /\ calls'[n + 1] = c
    BY DEF Pushed, Depth
<1> HIDE DEF n
<1>3. \A i \in 1..(n + 1) : i \in 1..n \/ i = n + 1
    BY <1>1
<1>4. \A i \in 1..n : i \in 1..(n + 1)
    BY <1>1
<1>5. Nested'
  <2>1. Len(calls') >= 1
    BY <1>1, <1>2
  <2>2. IsMainLoop(calls'[1])
    BY <1>1, <1>2 DEF Alike
  <2>3. ASSUME NEW i \in 1..(n + 1), calls'[i].kind = "thread",
               calls'[i].event # "call"
        PROVE  i > 1 /\ calls'[i - 1].kind = "layer"
    <3>1. CASE i \in 1..n
      <4>1. calls[i].kind = "thread" /\ calls[i].event # "call"
        BY <1>1, <1>2, <2>3, <3>1 DEF Alike
      <4>2. i > 1 /\ calls[i - 1].kind = "layer"
        BY <1>1, <3>1, <4>1 DEF IInv, Nested
      <4>3. i - 1 \in 1..n
        BY <1>1, <3>1, <4>2
      <4> QED BY <1>1, <1>2, <4>2, <4>3 DEF Alike
    <3>2. CASE i = n + 1
      <4>1. calls[n].kind = "layer"
        BY <1>2, <2>3, <3>2 DEF Top, n
      <4>2. calls'[n].kind = "layer"
        BY <1>1, <1>2, <4>1 DEF Alike
      <4>3. i > 1 /\ i - 1 = n
        BY <1>1, <3>2
      <4> QED BY <4>2, <4>3
    <3> QED BY <1>3, <3>1, <3>2
  <2> QED BY <1>2, <2>1, <2>2, <2>3 DEF Nested, IsMainLoop
<1>6. Counted' = Counted
  <2>1. Counted' = {i \in 1..(n + 1) : Counts(calls'[i])}
    BY <1>2 DEF Counted, Counts, NeedsTimer
  <2>2. Counted = {i \in 1..n : Counts(calls[i])}
    BY <1>1 DEF Counted, Counts
  <2>3. \A i \in 1..n : Counts(calls[i]) <=> Counts(calls'[i])
    BY <1>1, <1>2 DEF Alike
  <2>4. ~Counts(calls'[n + 1])
    BY <1>2
  <2> QED BY <1>3, <1>4, <2>1, <2>2, <2>3, <2>4
<1> QED BY <1>2, <1>5, <1>6 DEF n
LEMMA PushedRepaired ==
    ASSUME IInv, NEW c, Pushed(c), ~Counts(c),
           \/ TimerKept
           \/ Top.kind = "layer" /\ Launched(c)
    PROVE  Repaired'
<1> DEFINE n == Len(calls)
<1>1. /\ n \in Nat /\ n >= 1 /\ Depth = 1..n /\ n \in Depth
    BY StackDepth
<1>2. /\ Depth' = 1..(n + 1)
      /\ \A i \in Depth : Alike(calls[i], calls'[i])
      /\ calls'[n + 1] = c
    BY DEF Pushed, Depth
<1>3. Top = calls[n]
    BY DEF Top
<1> HIDE DEF n
<1>4. \A i \in 1..(n + 1) : i \in 1..n \/ i = n + 1
    BY <1>1
<1>5. (\A i \in 1..n : i \in 1..(n + 1)) /\ n + 1 \in 1..(n + 1)
    BY <1>1
<1> SUFFICES ASSUME ~g_MainTimerExists', NEW i \in 1..(n + 1),
                    Counts(calls'[i])
             PROVE  \/ calls'[i].peek
                    \/ \E j \in 1..(n + 1) : j > i /\ calls'[j].kind = "layer"
                    \/ i + 1 \in 1..(n + 1) /\ Launched(calls'[i + 1])
    BY <1>2 DEF Repaired, Counts, NeedsTimer, Launched
<1>6. i \in Depth /\ Counts(calls[i])
    BY <1>1, <1>2, <1>4 DEF Alike
<1>7. g_nLayersNeedingTimer # 0
  <2>1. i \in Counted
    BY <1>6 DEF Counted, Counts
  <2> QED BY <2>1, CountedFinite, FS_EmptySet DEF IInv, LayersCounted
<1>8. CASE g_MainTimerExists
  <2>1. Top.kind = "layer" /\ Launched(c)
    BY <1>7, <1>8 DEF TimerKept
  <2>2. CASE i = n
    BY <1>2, <1>5, <2>1, <2>2
  <2>3. CASE i # n
    <3>1. n > i
      BY <1>1, <1>6, <2>3
    <3>2. calls'[n].kind = "layer"
      BY <1>1, <1>2, <1>3, <2>1 DEF Alike
    <3> QED BY <1>1, <1>5, <3>1, <3>2
  <2> QED BY <2>2, <2>3
<1>9. CASE ~g_MainTimerExists
  <2>1. CASE calls[i].peek
    BY <1>2, <1>6, <2>1 DEF Alike
  <2>2. CASE \E j \in Depth : j > i /\ calls[j].kind = "layer"
    BY <1>1, <1>2, <1>5, <2>2 DEF Alike
  <2>3. CASE i + 1 \in Depth /\ Launched(calls[i + 1])
    BY <1>1, <1>2, <1>5, <2>3 DEF Alike, Launched
  <2> QED BY <1>6, <1>9, <2>1, <2>2, <2>3 DEF IInv, Repaired
<1> QED BY <1>8, <1>9

LEMMA PushedDefer ==
    ASSUME IInv, NEW c, Pushed(c),
           \/ ~Turned(c) /\ UNCHANGED g_DeferMessagesForUnderlyingPump
           \/ /\ Turned(c) <=> ~g_DeferMessagesForUnderlyingPump
              /\ g_DeferMessagesForUnderlyingPump'
    PROVE  DeferOwned'
<1> DEFINE n == Len(calls)
<1>1. n \in Nat /\ Depth = 1..n
    BY StackDepth
<1>2. /\ Depth' = 1..(n + 1)
      /\ \A i \in Depth : Alike(calls[i], calls'[i])
      /\ calls'[n + 1] = c
    BY DEF Pushed, Depth
<1> HIDE DEF n
<1>3. \A i \in 1..(n + 1) : i \in 1..n \/ i = n + 1
    BY <1>1
<1>4. (\A i \in 1..n : i \in 1..(n + 1)) /\ n + 1 \in 1..(n + 1)
    BY <1>1
<1>5. \A i \in 1..n : Turned(calls[i]) <=> Turned(calls'[i])
    BY <1>1, <1>2 DEF Alike
<1>6. /\ g_DeferMessagesForUnderlyingPump <=> \E i \in 1..n : Turned(calls[i])
      /\ \A i, j \in 1..n : (Turned(calls[i]) /\ Turned(calls[j])) => i = j
    BY <1>1 DEF IInv, DeferOwned
<1>7. CASE ~Turned(c) /\ UNCHANGED g_DeferMessagesForUnderlyingPump
  <2>1. ~Turned(calls'[n + 1])
    BY <1>2, <1>7
  <2>2. g_DeferMessagesForUnderlyingPump' <=>
            \E i \in 1..(n + 1) : Turned(calls'[i])
    BY <1>3, <1>4, <1>5, <1>6, <1>7, <2>1
  <2>3. ASSUME NEW i \in 1..(n + 1), NEW j \in 1..(n + 1),
               Turned(calls'[i]), Turned(calls'[j])
        PROVE  i = j
    BY <1>3, <1>5, <1>6, <2>1, <2>3
  <2> QED BY <1>2, <2>2, <2>3 DEF DeferOwned, Turned
<1>8. CASE /\ Turned(c) <=> ~g_DeferMessagesForUnderlyingPump
           /\ g_DeferMessagesForUnderlyingPump'
  <2>1. \E i \in 1..(n + 1) : Turned(calls'[i])
    BY <1>2, <1>4, <1>5, <1>6, <1>8
  <2>2. ASSUME NEW i \in 1..(n + 1), NEW j \in 1..(n + 1),
               Turned(calls'[i]), Turned(calls'[j])
        PROVE  i = j
    BY <1>2, <1>3, <1>5, <1>6, <1>8, <2>2
  <2> QED BY <1>2, <1>8, <2>1, <2>2 DEF DeferOwned, Turned
<1> QED BY <1>7, <1>8

LEMMA StartsPreserves ==
    ASSUME IInv, NEW c, Starts(c)
    PROVE  StackInv'
<1>1. Pushed(c) /\ ~Counts(c) /\ ~Turned(c)
    BY DEF Starts, Counts, NeedsTimer, Turned
<1>2. Nested' /\ Counted' = Counted
    BY <1>1, PushedPreserves DEF Starts
<1>3. LayersCounted'
    BY <1>2 DEF LayersCounted, IInv, Starts, CountsKept
<1>4. Repaired'
    BY <1>1, PushedRepaired DEF Starts
<1>5. DeferOwned'
    BY <1>1, PushedDefer DEF Starts, CountsKept
<1> QED BY <1>1, <1>2, <1>3, <1>4, <1>5 DEF StackInv, Pushed

LEMMA EntersPreserves ==
    ASSUME IInv, NEW c, Enters(c)
    PROVE  StackInv'
<1>1. Pushed(c) /\ ~Counts(c) /\ c.kind # "thread"
    BY DEF Enters
<1>2. Nested' /\ Counted' = Counted
    BY <1>1, PushedPreserves
<1>3. LayersCounted'
    BY <1>2 DEF LayersCounted, IInv, Enters
<1>4. Repaired'
    BY <1>1, PushedRepaired DEF Enters
<1>5. DeferOwned'
    BY <1>1, PushedDefer DEF Enters
<1> QED BY <1>1, <1>2, <1>3, <1>4, <1>5 DEF StackInv, Pushed
\* What Leaves and Ends have in common.
LEMMA PoppedPreserves ==
    ASSUME IInv, Popped
    PROVE  /\ Depth' = 1..(Len(calls) - 1) /\ Nested'
           /\ Counted' = Counted \ {Len(calls)}
<1> DEFINE n == Len(calls)
           m == n - 1
<1>1. n \in Nat /\ Depth = 1..n /\ n >= 2 /\ IsMainLoop(calls[1])
    BY StackDepth DEF Popped
<1>2. m \in Nat /\ m >= 1 /\ n = m + 1
    BY <1>1
<1>3. /\ Len(calls') = m /\ Depth' = 1..m
      /\ \A i \in 1..m : Alike(calls[i], calls'[i])
    BY DEF Popped, Depth
<1> HIDE DEF n, m
<1>4. (\A i \in 1..m : i \in Depth /\ i # n) /\ 1 \in 1..m
    BY <1>1, <1>2
<1>5. \A i \in Depth : i # n => i \in 1..m
    BY <1>1, <1>2
<1>6. Nested'
  <2>1. Len(calls') >= 1
    BY <1>2, <1>3
  <2>2. IsMainLoop(calls'[1])
    BY <1>1, <1>3, <1>4 DEF Alike
  <2>3. ASSUME NEW i \in 1..m, calls'[i].kind = "thread",
               calls'[i].event # "call"
        PROVE  i > 1 /\ calls'[i - 1].kind = "layer"
    <3>1. calls[i].kind = "thread" /\ calls[i].event # "call"
      BY <1>3, <2>3 DEF Alike
    <3>2. i > 1 /\ calls[i - 1].kind = "layer"
      BY <1>4, <3>1 DEF IInv, Nested
    <3>3. i - 1 \in 1..m
      BY <1>2, <3>2
    <3> QED BY <1>3, <3>2, <3>3 DEF Alike
  <2> QED BY <1>3, <2>1, <2>2, <2>3 DEF Nested, IsMainLoop
<1>7. Counted' = Counted \ {n}
  <2>1. Counted' = {i \in 1..m : Counts(calls'[i])}
    BY <1>3 DEF Counted, Counts, NeedsTimer
  <2>2. Counted = {i \in Depth : Counts(calls[i])}
    BY DEF Counted, Counts
  <2>3. \A i \in 1..m : Counts(calls[i]) <=> Counts(calls'[i])
    BY <1>3 DEF Alike
  <2> QED BY <1>4, <1>5, <2>1, <2>2, <2>3
<1> QED BY <1>3, <1>6, <1>7 DEF n, m

LEMMA PoppedDefer ==
    ASSUME IInv, Popped,
           g_DeferMessagesForUnderlyingPump' <=>
                (g_DeferMessagesForUnderlyingPump /\ ~Turned(Top))
    PROVE  DeferOwned'
<1> DEFINE n == Len(calls)
           m == n - 1
<1>1. n \in Nat /\ Depth = 1..n /\ n >= 2
    BY StackDepth DEF Popped
<1>2. /\ Depth' = 1..m
      /\ \A i \in 1..m : Alike(calls[i], calls'[i])
    BY DEF Popped, Depth
<1>3. /\ \A i \in 1..m : i \in 1..n /\ i # n
      /\ \A i \in 1..n : i # n => i \in 1..m
      /\ n \in 1..n
    BY <1>1
<1>4. Top = calls[n]
    BY DEF Top
<1> HIDE DEF n, m
<1>5. \A i \in 1..m : Turned(calls[i]) <=> Turned(calls'[i])
    BY <1>2 DEF Alike
<1>6. /\ g_DeferMessagesForUnderlyingPump <=> \E i \in 1..n : Turned(calls[i])
      /\ \A i, j \in 1..n : (Turned(calls[i]) /\ Turned(calls[j])) => i = j
    BY <1>1 DEF IInv, DeferOwned
<1>7. g_DeferMessagesForUnderlyingPump' <=> \E i \in 1..m : Turned(calls'[i])
    BY <1>3, <1>4, <1>5, <1>6
<1>8. ASSUME NEW i \in 1..m, NEW j \in 1..m,
             Turned(calls'[i]), Turned(calls'[j])
      PROVE  i = j
    BY <1>3, <1>5, <1>6, <1>8
<1> QED BY <1>2, <1>7, <1>8 DEF DeferOwned, Turned

LEMMA LeavesPreserves ==
    ASSUME IInv, Leaves
    PROVE  StackInv'
<1>1. Popped
    BY DEF Leaves
<1>2. Nested' /\ Counted' = Counted \ {Len(calls)}
    BY <1>1, PoppedPreserves
<1>3. Len(calls) \in Counted <=> Counts(Top)
    BY StackDepth DEF Counted, Counts, Top
<1>4. /\ IsFiniteSet(Counted')
      /\ Cardinality(Counted') =
            IF Counts(Top) THEN Cardinality(Counted) - 1
                           ELSE Cardinality(Counted)
    BY <1>2, <1>3, CountedFinite, FS_RemoveElement DEF IInv
<1>5. LayersCounted'
    BY <1>4 DEF LayersCounted, IInv, Leaves
<1>6. DeferOwned'
    BY <1>1, PoppedDefer DEF Leaves
<1>7. Repaired'
  <2> SUFFICES ASSUME ~g_MainTimerExists', NEW i \in Depth', Counts(calls'[i])
               PROVE  FALSE
    BY DEF Repaired, Counts, NeedsTimer
  <2>1. Cardinality(Counted') = 0
    BY <1>5 DEF Leaves, LayersCounted
  <2>2. Counted' = {}
    BY <1>4, <2>1, FS_EmptySet
  <2>3. i \in Counted'
    BY DEF Counted, Counts, NeedsTimer
  <2> QED BY <2>2, <2>3
<1> QED BY <1>1, <1>2, <1>5, <1>6, <1>7 DEF StackInv, Popped
LEMMA EndsPreserves ==
    ASSUME IInv, Ends
    PROVE  StackInv'
<1> DEFINE n == Len(calls)
           m == n - 1
<1>1. Popped /\ ~Counts(Top) /\ ~Turned(Top)
    BY DEF Ends, Counts, NeedsTimer, Turned
<1>2. Nested' /\ Counted' = Counted \ {Len(calls)}
    BY <1>1, PoppedPreserves
<1>3. Len(calls) \notin Counted
    BY <1>1 DEF Counted, Counts, Top
<1>4. LayersCounted'
  <2>1. Counted' = Counted
    BY <1>2, <1>3
  <2> QED BY <2>1 DEF LayersCounted, IInv, Ends, CountsKept
<1>5. DeferOwned'
    BY <1>1, PoppedDefer DEF Ends, CountsKept
<1>6. Repaired'
  <2>1. /\ n \in Nat /\ Depth = 1..n /\ n >= 2 /\ Top = calls[n]
    BY <1>1, StackDepth DEF Popped, Top
  <2>2. /\ Depth' = 1..m
        /\ \A i \in 1..m : Alike(calls[i], calls'[i])
    BY <1>1 DEF Popped, Depth
  <2>3. /\ \A i \in 1..m : i \in Depth /\ i # n
        /\ \A i \in Depth : i # n => i \in 1..m
        /\ \A i \in 1..m : i + 1 = n => i = m
    BY <2>1
  <2>4. (Launched(Top) /\ Counts(calls'[m])) =>
            g_MainTimerExists' \/ calls'[m].peek
    BY DEF Ends
  <2> HIDE DEF n, m
  <2> SUFFICES ASSUME ~g_MainTimerExists', NEW i \in 1..m, Counts(calls'[i])
               PROVE  \/ calls'[i].peek
                      \/ \E j \in 1..m : j > i /\ calls'[j].kind = "layer"
                      \/ i + 1 \in 1..m /\ Launched(calls'[i + 1])
    BY <2>2 DEF Repaired, Counts, NeedsTimer, Launched
  <2>5. i \in Depth /\ Counts(calls[i]) /\ ~g_MainTimerExists
    BY <2>2, <2>3 DEF Alike, Ends
  <2>6. CASE calls[i].peek
    BY <2>2, <2>5, <2>6 DEF Alike
  <2>7. CASE \E j \in Depth : j > i /\ calls[j].kind = "layer"
    <3>1. PICK j \in Depth : j > i /\ calls[j].kind = "layer"
      BY <2>7
    <3>2. j \in 1..m
      BY <2>1, <2>3, <3>1 DEF Ends
    <3>3. calls'[j].kind = "layer"
      BY <2>2, <3>1, <3>2 DEF Alike
    <3> QED BY <3>1, <3>2, <3>3
  <2>8. CASE i + 1 \in Depth /\ Launched(calls[i + 1])
    <3>1. CASE i + 1 = n
      BY <2>1, <2>3, <2>4, <2>8, <3>1
    <3>2. CASE i + 1 # n
      <4>1. i + 1 \in 1..m
        BY <2>3, <2>8, <3>2
      <4>2. Launched(calls'[i + 1])
        BY <2>2, <2>8, <4>1 DEF Alike, Launched
      <4> QED BY <4>1, <4>2
    <3> QED BY <3>1, <3>2
  <2> QED BY <2>5, <2>6, <2>7, <2>8 DEF IInv, Repaired
<1> QED BY <1>1, <1>2, <1>4, <1>5, <1>6 DEF StackInv, Popped

LEMMA StackStep ==
    ASSUME IInv, [Next]_vars
    PROVE  StackInv'
BY StepShape, StaysPreserves, JoinsPreserves, LeavesPreserves, EndsPreserves,
   StartsPreserves, EntersPreserves

-----------------------------------------------------------------------------
(* The script's timers *)

Enabled == {t \in 1..Timers : mEnabled[t]}

TimersStay ==
    /\ mEnabled' = mEnabled /\ mTimerEnabledCount' = mTimerEnabledCount
    /\ (mTimerEnabledCount # 0 /\ g_MainTimerExists) => g_MainTimerExists'
TurnedOff(t) ==
    /\ mEnabled[t] /\ mEnabled' = [mEnabled EXCEPT ![t] = FALSE]
    /\ mTimerEnabledCount' = mTimerEnabledCount - 1
    /\ (mTimerEnabledCount' # 0 /\ g_MainTimerExists) => g_MainTimerExists'
TurnedOn(t) ==
    /\ ~mEnabled[t] /\ mEnabled' = [mEnabled EXCEPT ![t] = TRUE]
    /\ mTimerEnabledCount' = mTimerEnabledCount + 1
    /\ g_MainTimerExists'

LEMMA DisableOff ==
    ASSUME NEW t, mEnabled[t], Disable(t)
    PROVE  TurnedOff(t)
BY KillShape DEF Disable, TurnedOff

LEMMA ReturnTimers ==
    ASSUME RETURN_FROM_MSGSLEEP
    PROVE  TimersStay
<1>1. mEnabled' = mEnabled /\ mTimerEnabledCount' = mTimerEnabledCount
    BY DEF RETURN_FROM_MSGSLEEP, scriptTimers
<1>2. ASSUME mTimerEnabledCount # 0, g_MainTimerExists
      PROVE  g_MainTimerExists'
    BY <1>2, KillShape DEF RETURN_FROM_MSGSLEEP, mainTimer
<1> QED BY <1>1, <1>2 DEF TimersStay

LEMMA TimersShape ==
    ASSUME IInv, [Next]_vars
    PROVE  \/ TimersStay
           \/ \E t \in 1..Timers : TurnedOff(t) \/ TurnedOn(t)
<1>1. ASSUME NEW t \in 1..Timers, CheckScriptTimers(t)
      PROVE  TimersStay \/ TurnedOff(t)
  <2>1. mEnabled[t]
    BY <1>1 DEF CheckScriptTimers, ToRun, Eligible
  <2> QED BY <1>1, <2>1, DisableOff DEF CheckScriptTimers, TimersStay, mainTimer
<1>2. CASE AfterCheck
    BY <1>2 DEF AfterCheck, SET_MAIN_TIMER, TimersStay, scriptTimers, mainTimer
<1>3. CASE AfterTick \/ FetchNothing
    BY <1>3, ReturnTimers
    DEF AfterTick, FetchNothing, TimersStay, scriptTimers, mainTimer
<1>4. CASE FetchEvent
    BY <1>4 DEF FetchEvent, TimersStay, scriptTimers, mainTimer
<1>5. CASE FetchTick
    BY <1>5 DEF FetchTick, TimersStay, scriptTimers
<1>6. CASE Discard \/ MainWindowProc \/ DialogTick
    BY <1>6
    DEF Discard, MainWindowProc, DialogTick, TimersStay, scriptTimers, mainTimer
<1>7. CASE \E sleeping, early \in BOOLEAN : Sleep(sleeping, early)
    BY <1>7 DEF Sleep, TimersStay, scriptTimers, mainTimer
<1>8. CASE MsgBox \/ CloseDialog
    BY <1>8 DEF MsgBox, CloseDialog, TimersStay, scriptTimers, mainTimer
<1>9. CASE ThreadReturns
    BY <1>9 DEF ThreadReturns, SET_MAIN_TIMER, TimersStay, mainTimer
<1>10. CASE \E shield \in Shields \cup {"none"} : Shield(shield)
    BY <1>10 DEF Shield, TimersStay, scriptTimers, mainTimer
<1>11. ASSUME NEW t \in 1..Timers, NEW once \in BOOLEAN, SetTimerOn(t, once)
       PROVE  TimersStay \/ TurnedOn(t)
  <2>1. CASE mEnabled[t]
    <3>1. mEnabled' = mEnabled
      BY <1>11, <2>1 DEF SetTimerOn, IInv, TypeOK
    <3> QED BY <1>11, <2>1, <3>1 DEF SetTimerOn, TimersStay, mainTimer
  <2>2. CASE ~mEnabled[t]
    BY <1>11, <2>2 DEF SetTimerOn, TurnedOn, SET_MAIN_TIMER
  <2> QED BY <2>1, <2>2
<1>12. ASSUME NEW t \in 1..Timers, SetTimerOff(t)
       PROVE  TimersStay \/ TurnedOff(t)
    BY <1>12, DisableOff DEF SetTimerOff, TimersStay, mainTimer
<1>13. CASE \/ \E event \in Events : Post(event)
            \/ Tick
            \/ \E i \in Depth : Elapse(i)
            \/ \E i \in Depth : UninterruptibleTimeout(i)
            \/ \E t \in 1..Timers : Due(t)
            \/ UNCHANGED vars
    BY <1>13 DEF Post, Tick, Elapse, UninterruptibleTimeout, Due, vars,
                 TimersStay, scriptTimers, mainTimer
<1> QED
    BY <1>1, <1>2, <1>3, <1>4, <1>5, <1>6, <1>7, <1>8, <1>9, <1>10, <1>11,
       <1>12, <1>13, Zenon
    DEF Next, PumpStep, ScriptStep, OutsideStep
LEMMA EnabledFinite == IsFiniteSet(Enabled) /\ Cardinality(Enabled) \in Nat
<1>1. IsFiniteSet(1..Timers)
    BY MsgSleepAssumption, FS_Interval
<1>2. Enabled \in SUBSET (1..Timers)
    BY DEF Enabled
<1>3. IsFiniteSet(Enabled)
    BY <1>1, <1>2, FS_Subset
<1> QED BY <1>3, FS_CardinalityType

LEMMA TimersStep ==
    ASSUME IInv, [Next]_vars
    PROVE  EnabledCounted' /\ TimersServed'
<1>1. mEnabled \in [1..Timers -> BOOLEAN] /\ mTimerEnabledCount \in Nat
      /\ mTimerEnabledCount = Cardinality(Enabled)
      /\ (mTimerEnabledCount > 0 => g_MainTimerExists)
    BY DEF IInv, TypeOK, EnabledCounted, Enabled, TimersServed
<1>2. Enabled' = {t \in 1..Timers : mEnabled'[t]}
    BY DEF Enabled
<1>3. CASE TimersStay
    BY <1>1, <1>3 DEF TimersStay, EnabledCounted, TimersServed, IInv
<1>4. ASSUME NEW t \in 1..Timers, TurnedOff(t)
      PROVE  EnabledCounted' /\ TimersServed'
  <2>1. Enabled' = Enabled \ {t} /\ t \in Enabled
    BY <1>1, <1>2, <1>4 DEF TurnedOff, Enabled
  <2>2. Cardinality(Enabled') = Cardinality(Enabled) - 1
    BY <2>1, EnabledFinite, FS_RemoveElement
  <2>3. mTimerEnabledCount' = Cardinality(Enabled')
    BY <1>1, <1>4, <2>2 DEF TurnedOff
  <2>4. TimersServed'
    BY <1>1, <1>4 DEF TurnedOff, TimersServed
  <2> QED BY <2>3, <2>4 DEF EnabledCounted, Enabled
<1>5. ASSUME NEW t \in 1..Timers, TurnedOn(t)
      PROVE  EnabledCounted' /\ TimersServed'
  <2>1. Enabled' = Enabled \cup {t} /\ t \notin Enabled
    BY <1>1, <1>2, <1>5 DEF TurnedOn, Enabled
  <2>2. Cardinality(Enabled') = Cardinality(Enabled) + 1
    BY <2>1, EnabledFinite, FS_AddElement
  <2>3. mTimerEnabledCount' = Cardinality(Enabled')
    BY <1>1, <1>5, <2>2 DEF TurnedOn
  <2> QED BY <1>5, <2>3 DEF TurnedOn, EnabledCounted, Enabled, TimersServed
<1> QED BY <1>3, <1>4, <1>5, TimersShape

-----------------------------------------------------------------------------
(* The types of what is not on the stack *)

Message == [event : AllEvents, window : BOOLEAN]
FlagsOK ==
    /\ ticked \in BOOLEAN /\ g_MainTimerExists \in BOOLEAN
    /\ g_DeferMessagesForUnderlyingPump \in BOOLEAN
    /\ mOnClipboardChangeIsRunning \in BOOLEAN
TimersOK ==
    /\ mEnabled \in [1..Timers -> BOOLEAN]
    /\ mRunOnlyOnce \in [1..Timers -> BOOLEAN]
    /\ mExistingThreads \in [1..Timers -> Int]
    /\ due \in [1..Timers -> BOOLEAN]

LEMMA KillType ==
    ASSUME TypeOK, NEW layers, NEW enabled, KillIfUnneeded(layers, enabled)
    PROVE  ticked' \in BOOLEAN /\ g_MainTimerExists' \in BOOLEAN
BY DEF KillIfUnneeded, KILL_MAIN_TIMER, mainTimer, TypeOK

LEMMA DisableType ==
    ASSUME TypeOK, NEW t \in 1..Timers, Disable(t)
    PROVE  /\ ticked' \in BOOLEAN /\ g_MainTimerExists' \in BOOLEAN
           /\ mEnabled' \in [1..Timers -> BOOLEAN]
BY KillType DEF Disable, TypeOK

LEMMA ReturnType ==
    ASSUME TypeOK, RETURN_FROM_MSGSLEEP
    PROVE  FlagsOK' /\ TimersOK'
<1>1. ticked' \in BOOLEAN /\ g_MainTimerExists' \in BOOLEAN
    BY KillType DEF RETURN_FROM_MSGSLEEP, SetIfStillNeeded, SET_MAIN_TIMER,
                    mainTimer, TypeOK
<1>2. g_DeferMessagesForUnderlyingPump' \in BOOLEAN
    BY DEF RETURN_FROM_MSGSLEEP, DeferAfterReturn, TypeOK
<1> QED BY <1>1, <1>2
        DEF RETURN_FROM_MSGSLEEP, FlagsOK, TimersOK, scriptTimers, TypeOK

LEMMA TimersTypeStep ==
    ASSUME IInv, [Next]_vars
    PROVE  TimersOK'
<1> USE DEF TimersOK, IInv, TypeOK
<1>1. ASSUME NEW t \in 1..Timers, CheckScriptTimers(t)
      PROVE  TimersOK'
  <2>1. mEnabled' \in [1..Timers -> BOOLEAN]
    BY <1>1, DisableType DEF CheckScriptTimers
  <2>2. due' = [due EXCEPT ![t] = FALSE]
        /\ mExistingThreads' = [mExistingThreads EXCEPT ![t] = @ + 1]
        /\ mRunOnlyOnce' = mRunOnlyOnce
    BY <1>1 DEF CheckScriptTimers
  <2>3. mExistingThreads' \in [1..Timers -> Int]
    BY <2>2
  <2>4. due' \in [1..Timers -> BOOLEAN]
    BY <2>2
  <2> QED BY <2>1, <2>2, <2>3, <2>4
<1>2. CASE AfterCheck \/ AfterTick \/ FetchNothing
    BY <1>2, ReturnType DEF AfterCheck, AfterTick, FetchNothing, scriptTimers
<1>3. CASE FetchEvent \/ FetchTick
    BY <1>3 DEF FetchEvent, FetchTick, scriptTimers
<1>4. CASE Discard \/ MainWindowProc \/ DialogTick
    BY <1>4 DEF Discard, MainWindowProc, DialogTick, scriptTimers
<1>5. CASE \/ \E sleeping, early \in BOOLEAN : Sleep(sleeping, early)
           \/ MsgBox \/ CloseDialog
           \/ \E shield \in Shields \cup {"none"} : Shield(shield)
    BY <1>5 DEF Sleep, MsgBox, CloseDialog, Shield, scriptTimers
<1>6. CASE ThreadReturns
  <2>1. UNCHANGED <<mEnabled, mRunOnlyOnce, due>>
    BY <1>6 DEF ThreadReturns
  <2>2. \/ mExistingThreads' = mExistingThreads
        \/ mExistingThreads' =
                [mExistingThreads EXCEPT ![Top.timer] = @ - 1]
    BY <1>6 DEF ThreadReturns
  <2>3. mExistingThreads' \in [1..Timers -> Int]
    BY <2>2
  <2> QED BY <2>1, <2>3
<1>7. ASSUME NEW t \in 1..Timers, NEW once \in BOOLEAN, SetTimerOn(t, once)
      PROVE  TimersOK'
    BY <1>7 DEF SetTimerOn
<1>8. ASSUME NEW t \in 1..Timers, SetTimerOff(t)
      PROVE  TimersOK'
    BY <1>8, DisableType DEF SetTimerOff
<1>9. CASE \E t \in 1..Timers : Due(t)
    BY <1>9 DEF Due
<1>10. CASE \/ \E event \in Events : Post(event)
            \/ Tick
            \/ \E i \in Depth : Elapse(i)
            \/ \E i \in Depth : UninterruptibleTimeout(i)
            \/ UNCHANGED vars
    BY <1>10 DEF Post, Tick, Elapse, UninterruptibleTimeout, vars, scriptTimers
<1> HIDE DEF TimersOK, IInv, TypeOK
<1> QED
    BY <1>1, <1>2, <1>3, <1>4, <1>5, <1>6, <1>7, <1>8, <1>9, <1>10, Zenon
    DEF Next, PumpStep, ScriptStep, OutsideStep
LEMMA FlagsTypeStep ==
    ASSUME IInv, [Next]_vars
    PROVE  FlagsOK'
<1> USE DEF FlagsOK, IInv, TypeOK
<1>1. ASSUME NEW t \in 1..Timers, CheckScriptTimers(t)
      PROVE  FlagsOK'
    BY <1>1, DisableType DEF CheckScriptTimers, mainTimer
<1>2. CASE AfterCheck
    BY <1>2 DEF AfterCheck, SET_MAIN_TIMER, mainTimer
<1>3. CASE AfterTick \/ FetchNothing
    BY <1>3, ReturnType DEF AfterTick, FetchNothing, mainTimer
<1>4. CASE FetchEvent
  <2>1. ticked' \in BOOLEAN /\ g_MainTimerExists' \in BOOLEAN
    BY <1>4 DEF FetchEvent, KILL_MAIN_TIMER, mainTimer
  <2>2. /\ mOnClipboardChangeIsRunning' \in BOOLEAN
        /\ UNCHANGED g_DeferMessagesForUnderlyingPump
    BY <1>4, Zenon DEF FetchEvent
  <2> QED BY <2>1, <2>2
<1>5. CASE FetchTick
    BY <1>5 DEF FetchTick
<1>6. CASE Discard \/ MainWindowProc \/ DialogTick
    BY <1>6 DEF Discard, MainWindowProc, DialogTick, CallMsgSleep, NoCall,
                mainTimer
<1>7. CASE \/ \E sleeping, early \in BOOLEAN : Sleep(sleeping, early)
           \/ MsgBox \/ CloseDialog
           \/ \E shield \in Shields \cup {"none"} : Shield(shield)
    BY <1>7 DEF Sleep, MsgBox, CloseDialog, Shield, mainTimer
<1>8. CASE ThreadReturns
  <2>1. ticked' \in BOOLEAN /\ g_MainTimerExists' \in BOOLEAN
    BY <1>8 DEF ThreadReturns, SET_MAIN_TIMER, mainTimer
  <2>2. /\ mOnClipboardChangeIsRunning' \in BOOLEAN
        /\ UNCHANGED g_DeferMessagesForUnderlyingPump
    BY <1>8 DEF ThreadReturns
  <2> QED BY <2>1, <2>2
<1>9. ASSUME NEW t \in 1..Timers, NEW once \in BOOLEAN, SetTimerOn(t, once)
      PROVE  FlagsOK'
    BY <1>9 DEF SetTimerOn, SET_MAIN_TIMER, mainTimer
<1>10. ASSUME NEW t \in 1..Timers, SetTimerOff(t)
       PROVE  FlagsOK'
    BY <1>10, DisableType DEF SetTimerOff, mainTimer
<1>11. CASE \/ \E event \in Events : Post(event)
            \/ Tick
            \/ \E i \in Depth : Elapse(i)
            \/ \E i \in Depth : UninterruptibleTimeout(i)
            \/ \E t \in 1..Timers : Due(t)
            \/ UNCHANGED vars
    BY <1>11 DEF Post, Tick, Elapse, UninterruptibleTimeout, Due, vars,
                 mainTimer
<1> HIDE DEF FlagsOK, IInv, TypeOK
<1> QED
    BY <1>1, <1>2, <1>3, <1>4, <1>5, <1>6, <1>7, <1>8, <1>9, <1>10, <1>11,
       Zenon
    DEF Next, PumpStep, ScriptStep, OutsideStep

LEMMA QueueShape ==
    ASSUME [Next]_vars
    PROVE  \/ queue' = queue
           \/ queue # <<>> /\ queue' = Tail(queue)
           \/ /\ queue # <<>>
              /\ \/ queue' = Append(Tail(queue), Head(queue))
                 \/ /\ Head(queue).event \in Reposted
                    /\ queue' = Append(Tail(queue),
                                       [Head(queue) EXCEPT !.window = FALSE])
           \/ \E event \in Events :
                queue' = Append(queue, [event |-> event, window |-> TRUE])
<1>1. CASE FetchEvent
    BY <1>1 DEF FetchEvent, Visible
<1>2. CASE Discard
    BY <1>2 DEF Discard
<1>3. CASE MainWindowProc
    BY <1>3 DEF MainWindowProc, RepostMenu
<1>4. CASE \E event \in Events : Post(event)
    BY <1>4 DEF Post
<1>5. CASE \/ \E t \in 1..Timers : CheckScriptTimers(t)
           \/ AfterCheck \/ AfterTick \/ FetchTick \/ FetchNothing
           \/ DialogTick
    BY <1>5 DEF CheckScriptTimers, AfterCheck, AfterTick, FetchTick,
                FetchNothing, RETURN_FROM_MSGSLEEP, DialogTick
<1>6. CASE ScriptStep
    BY <1>6 DEF ScriptStep, Sleep, MsgBox, CloseDialog, ThreadReturns, Shield,
                SetTimerOn, SetTimerOff
<1>7. CASE \/ Tick
           \/ \E i \in Depth : Elapse(i)
           \/ \E i \in Depth : UninterruptibleTimeout(i)
           \/ \E t \in 1..Timers : Due(t)
           \/ UNCHANGED vars
    BY <1>7 DEF Tick, Elapse, UninterruptibleTimeout, Due, vars
<1> QED
    BY <1>1, <1>2, <1>3, <1>4, <1>5, <1>6, <1>7, Zenon
    DEF Next, PumpStep, OutsideStep
LEMMA QueueTypeStep ==
    ASSUME IInv, [Next]_vars
    PROVE  queue' \in Seq(Message)
<1>1. queue \in Seq(Message)
    BY DEF IInv, TypeOK, Message
<1>2. CASE queue # <<>>
  <2>1. Head(queue) \in Message /\ Tail(queue) \in Seq(Message)
    BY <1>1, <1>2, HeadTailProperties
  <2>2. [Head(queue) EXCEPT !.window = FALSE] \in Message
    BY <2>1 DEF Message
  <2>3. \A m \in Message : Append(Tail(queue), m) \in Seq(Message)
    BY <2>1
  <2>4. ASSUME NEW event \in Events
        PROVE  Append(queue, [event |-> event, window |-> TRUE]) \in Seq(Message)
    <3>1. [event |-> event, window |-> TRUE] \in Message
      BY MsgSleepAssumption DEF Message
    <3> QED BY <1>1, <3>1
  <2> QED BY <1>1, <2>1, <2>2, <2>3, <2>4, QueueShape
<1>3. CASE queue = <<>>
  <2>1. ASSUME NEW event \in Events
        PROVE  Append(queue, [event |-> event, window |-> TRUE]) \in Seq(Message)
    <3>1. [event |-> event, window |-> TRUE] \in Message
      BY MsgSleepAssumption DEF Message
    <3> QED BY <1>1, <3>1
  <2> QED BY <1>1, <1>3, <2>1, QueueShape
<1> QED BY <1>2, <1>3

-----------------------------------------------------------------------------
(* The theorems *)

LEMMA InitIInv == Init => IInv
<1> SUFFICES ASSUME Init PROVE IInv
    OBVIOUS
<1> DEFINE main == [kind |-> "layer", at |-> "loop", waits |-> TRUE,
                    sleeping |-> TRUE, elapsed |-> FALSE, peek |-> FALSE,
                    timer |-> 0, turned |-> FALSE]
<1>1. calls = <<main>> /\ main \in Layer
    BY MsgSleepAssumption DEF Init, Layer
<1>2. main.kind = "layer" /\ IsMainLoop(main) /\ ~Counts(main) /\ ~Turned(main)
    BY DEF IsMainLoop, Counts, NeedsTimer, Turned
<1> HIDE DEF main
<1>3. Len(calls) = 1 /\ calls[1] = main /\ Depth = 1..1
    BY <1>1 DEF Depth
<1>4. \A i \in Depth : i = 1
    BY <1>3
<1>5. TypeOK
  <2>1. calls \in Seq(Layer \cup Thread \cup Dialog)
    BY <1>1
  <2>2. mTimerEnabledCount \in Nat
    BY EnabledFinite DEF Init, Enabled
  <2>3. queue \in Seq([event : AllEvents, window : BOOLEAN])
    BY DEF Init
  <2>4. g_MainTimerExists \in BOOLEAN
    BY <2>2 DEF Init
  <2>5. /\ mEnabled \in [1..Timers -> BOOLEAN]
        /\ mRunOnlyOnce \in [1..Timers -> BOOLEAN]
        /\ mExistingThreads \in [1..Timers -> Int]
        /\ due \in [1..Timers -> BOOLEAN]
    BY DEF Init
  <2>6. /\ ticked \in BOOLEAN /\ g_nLayersNeedingTimer \in Nat
        /\ g_DeferMessagesForUnderlyingPump \in BOOLEAN
        /\ mOnClipboardChangeIsRunning \in BOOLEAN
    BY DEF Init
  <2> QED BY <2>1, <2>2, <2>3, <2>4, <2>5, <2>6, Zenon DEF TypeOK
<1>6. Nested
    BY <1>2, <1>3, <1>4 DEF Nested
<1>7. LayersCounted
  <2>1. Counted = {}
    BY <1>2, <1>3, <1>4 DEF Counted, Counts
  <2> QED BY <2>1, FS_EmptySet DEF LayersCounted, Init
<1>8. EnabledCounted /\ TimersServed
    BY DEF Init, EnabledCounted, TimersServed
<1>9. DeferOwned
    BY <1>2, <1>3, <1>4 DEF Init, DeferOwned
<1>10. Repaired
    BY <1>2, <1>3, <1>4 DEF Repaired
<1> QED BY <1>5, <1>6, <1>7, <1>8, <1>9, <1>10 DEF IInv

LEMMA StepIInv == IInv /\ [Next]_vars => IInv'
<1> SUFFICES ASSUME IInv, [Next]_vars PROVE IInv'
    OBVIOUS
<1>1. StackInv'
    BY StackStep
<1>2. EnabledCounted' /\ TimersServed'
    BY TimersStep
<1>3. FlagsOK' /\ TimersOK' /\ queue' \in Seq(Message)
    BY FlagsTypeStep, TimersTypeStep, QueueTypeStep
<1>4. g_nLayersNeedingTimer' \in Nat
  <2>1. Len(calls') \in Nat
    BY <1>1, LenProperties DEF StackInv
  <2>2. IsFiniteSet(1..Len(calls'))
    BY <2>1, FS_Interval
  <2>3. Counted' \in SUBSET (1..Len(calls'))
    BY DEF Counted, Depth
  <2>4. Cardinality(Counted') \in Nat
    BY <2>2, <2>3, FS_Subset, FS_CardinalityType
  <2> QED BY <1>1, <2>4 DEF StackInv, LayersCounted
<1>5. mTimerEnabledCount' \in Nat
  <2>1. IsFiniteSet(1..Timers)
    BY MsgSleepAssumption, FS_Interval
  <2>2. Enabled' \in SUBSET (1..Timers)
    BY DEF Enabled
  <2>3. Cardinality(Enabled') \in Nat
    BY <2>1, <2>2, FS_Subset, FS_CardinalityType
  <2> QED BY <1>2, <2>3 DEF EnabledCounted, Enabled
<1>6. TypeOK'
  <2>1. calls' \in Seq(Layer \cup Thread \cup Dialog)
    BY <1>1 DEF StackInv, Call, Layer, Thread, Dialog
  <2>2. queue' \in Seq([event : AllEvents, window : BOOLEAN])
    BY <1>3 DEF Message
  <2> QED BY <1>3, <1>4, <1>5, <2>1, <2>2 DEF FlagsOK, TimersOK, TypeOK, Layer, Thread, Dialog
<1> QED BY <1>1, <1>2, <1>6 DEF StackInv, IInv

LEMMA Invariant == Spec => []IInv
<1>1. Init => IInv
    BY InitIInv
<1>2. IInv /\ [Next]_vars => IInv'
    BY StepIInv
<1> QED BY <1>1, <1>2, PTL DEF Spec

\* The stack, the queue and the timers keep their types: no count falls below
\* zero and no call of the stack is anything but a layer, a thread, a dialog.
THEOREM TypeCorrect == Spec => []TypeOK
<1>1. IInv => TypeOK
    BY DEF IInv
<1> QED BY <1>1, Invariant, PTL

\* However deep layers, dialogs and threads are nested, g_nLayersNeedingTimer
\* and mTimerEnabledCount count exactly, and the flag tells exactly whether a
\* dialog's pump has called back: what the kills of the main timer rely on
\* (application.cpp's RETURN_FROM_MSGSLEEP, script.h's Disable).
THEOREM Counting == Spec => []CountsExact
<1>1. IInv => CountsExact
    BY DEF IInv, LayersCounted, EnabledCounted, DeferOwned, Turned, CountsExact
<1> QED BY <1>1, Invariant, PTL

\* No pump that waits in GetMessage is left without the main timer while it
\* needs it, whatever has been launched, nested and killed above it.
THEOREM Unstuck == Spec => []NeverStuck
<1>1. ASSUME IInv, TopAt("loop"), NeedsTimer(Top), Waits(Top),
             ~g_MainTimerExists
      PROVE  FALSE
  <2> DEFINE n == Len(calls)
  <2>1. n \in Nat /\ n \in Depth /\ Depth = 1..n /\ Top = calls[n]
    BY <1>1, StackDepth DEF Top
  <2>2. Counts(calls[n]) /\ ~calls[n].peek
    BY <1>1, <2>1 DEF TopAt, Counts, Waits
  <2> HIDE DEF n
  <2>3. \/ \E j \in Depth : j > n /\ calls[j].kind = "layer"
        \/ n + 1 \in Depth /\ Launched(calls[n + 1])
    BY <1>1, <2>1, <2>2 DEF IInv, Repaired
  <2>4. (\A j \in 1..n : ~(j > n)) /\ n + 1 \notin 1..n
    BY <2>1
  <2> QED BY <2>1, <2>3, <2>4
<1>2. IInv => NeverStuck
    BY <1>1 DEF IInv, TimersServed, NeverStuck
<1> QED BY <1>2, Invariant, PTL

\* A layer above a dialog's pump that has called back never waits.
THEOREM PumpNotStarved == Spec => []NoWaitAboveForeignPump
<1>1. IInv => NoWaitAboveForeignPump
    BY DEF IInv, DeferOwned, Turned, Waits, NoWaitAboveForeignPump
<1> QED BY <1>1, Invariant, PTL

\* A menu item's message that a dialog takes out of the queue goes back into
\* it, with the window that keeps the dialog from discarding it.
THEOREM MenuNotLost == Spec => MenuKept
<1>1. Init => MenuHasWindow
    BY DEF Init, MenuHasWindow
<1>2. IInv /\ MenuHasWindow /\ [Next]_vars => MenuHasWindow'
  <2> SUFFICES ASSUME IInv, MenuHasWindow, [Next]_vars
               PROVE  MenuHasWindow'
    OBVIOUS
  <2> DEFINE Kept(m) == m.event = "menu" => m.window
             AllKept(s) == \A i \in 1..Len(s) : Kept(s[i])
  <2>1. queue \in Seq(Message) /\ AllKept(queue)
    BY DEF IInv, TypeOK, Message, MenuHasWindow
  <2>2. ASSUME NEW s \in Seq(Message), AllKept(s), NEW m, Kept(m)
        PROVE  AllKept(Append(s, m))
    <3> HIDE DEF Kept
    <3>1. Len(s) \in Nat /\ Len(Append(s, m)) = Len(s) + 1
          /\ Append(s, m)[Len(s) + 1] = m
          /\ \A i \in 1..Len(s) : Append(s, m)[i] = s[i]
      BY <2>2
    <3>2. ASSUME NEW n \in Nat, NEW i \in 1..(n + 1)
          PROVE  i \in 1..n \/ i = n + 1
      BY <3>2
    <3>3. ASSUME NEW i \in 1..(Len(s) + 1)
          PROVE  Kept(Append(s, m)[i])
      BY <2>2, <3>1, <3>2, <3>3
    <3> QED BY <3>1, <3>3
  <2>3. queue # <<>> =>
            /\ Tail(queue) \in Seq(Message) /\ AllKept(Tail(queue))
            /\ Kept(Head(queue)) /\ Head(queue) \in Message
    <3> SUFFICES ASSUME queue # <<>>
                 PROVE  /\ Tail(queue) \in Seq(Message) /\ AllKept(Tail(queue))
                        /\ Kept(Head(queue)) /\ Head(queue) \in Message
      OBVIOUS
    <3> HIDE DEF Kept
    <3>1. /\ Head(queue) \in Message /\ Tail(queue) \in Seq(Message)
          /\ Len(Tail(queue)) = Len(queue) - 1
          /\ \A i \in 1..Len(Tail(queue)) : Tail(queue)[i] = queue[i + 1]
      BY <2>1, HeadTailProperties
    <3>2. Len(queue) \in Nat /\ Len(queue) >= 1 /\ Head(queue) = queue[1]
      BY <2>1, EmptySeq
    <3>3. Kept(Head(queue))
      BY <2>1, <3>2
    <3>4. \A i \in 1..(Len(queue) - 1) : i + 1 \in 1..Len(queue)
      BY <3>2
    <3> QED BY <2>1, <3>1, <3>3, <3>4
  <2>4. queue # <<>> => (Head(queue).event \in Reposted =>
                Kept([Head(queue) EXCEPT !.window = FALSE]))
    BY <2>3 DEF Reposted, Message
  <2>5. \A event \in Events : Kept([event |-> event, window |-> TRUE])
    OBVIOUS
  <2>6. AllKept(queue')
    <3> HIDE DEF Kept, AllKept
    <3> QED BY <2>1, <2>2, <2>3, <2>4, <2>5, QueueShape
  <2> QED BY <2>6 DEF MenuHasWindow
<1>3. MenuHasWindow /\ IInv => (Discard => Head(queue).event # "menu")
  <2> SUFFICES ASSUME MenuHasWindow, IInv, Discard
               PROVE  Head(queue).event # "menu"
    OBVIOUS
  <2>1. queue \in Seq(Message) /\ queue # <<>> /\ ~Head(queue).window
    BY DEF Discard, IInv, TypeOK, Message
  <2>2. 1 \in 1..Len(queue) /\ Head(queue) = queue[1]
    BY <2>1, EmptySeq
  <2> QED BY <2>1, <2>2 DEF MenuHasWindow
<1> QED BY <1>1, <1>2, <1>3, Invariant, PTL DEF Spec, MenuKept
-----------------------------------------------------------------------------
(* One thread of each timer and of the clipboard *)

\* The threads that stay on the stack run what they ran.
ThreadsAlike ==
    \A i \in ThreadsAt \cap ThreadsAt' :
        calls'[i].event = calls[i].event /\ calls'[i].timer = calls[i].timer

LEMMA SameThreads ==
    ASSUME OneEach, ThreadsKept, ThreadsAlike, ThreadsAt' = ThreadsAt
    PROVE  OneEach'
<1>1. \A i \in ThreadsAt :
        calls'[i].event = calls[i].event /\ calls'[i].timer = calls[i].timer
    BY DEF ThreadsAlike
<1>2. \A i \in ThreadsAt : calls'[i].event = "timer" <=> calls'[i].timer # 0
    BY <1>1 DEF OneEach
<1>3. /\ mOnClipboardChangeIsRunning' <=>
            \E i \in ThreadsAt : calls'[i].event = "clipboard"
      /\ \A i, j \in ThreadsAt :
            calls'[i].event = "clipboard" /\ calls'[j].event = "clipboard"
                => i = j
    BY <1>1 DEF OneEach, ThreadsKept
<1>4. \A t \in 1..Timers :
        /\ mExistingThreads'[t] \in {0, 1}
        /\ mExistingThreads'[t] = 1 <=> \E i \in ThreadsAt : calls'[i].timer = t
        /\ \A i, j \in ThreadsAt :
                calls'[i].timer = t /\ calls'[j].timer = t => i = j
    BY <1>1 DEF OneEach, ThreadsKept
<1> QED BY <1>2, <1>3, <1>4 DEF OneEach

LEMMA MoreThreads ==
    ASSUME IInv, OneEach, ThreadsAlike, NEW m, m \notin ThreadsAt,
           ThreadsAt' = ThreadsAt \cup {m}, Admitted(calls'[m])
    PROVE  OneEach'
<1> DEFINE c == calls'[m]
<1>1. \A i \in ThreadsAt :
        calls'[i].event = calls[i].event /\ calls'[i].timer = calls[i].timer
    BY DEF ThreadsAlike
<1>2. \A i \in ThreadsAt' : calls'[i].event = "timer" <=> calls'[i].timer # 0
    BY <1>1 DEF OneEach, Admitted
<1>3. mOnClipboardChangeIsRunning' <=>
            \E i \in ThreadsAt' : calls'[i].event = "clipboard"
    BY <1>1 DEF OneEach, Admitted
<1>4. ASSUME NEW i \in ThreadsAt', NEW j \in ThreadsAt',
             calls'[i].event = "clipboard", calls'[j].event = "clipboard"
      PROVE  i = j
    BY <1>1, <1>4 DEF OneEach, Admitted
<1>5. ASSUME NEW t \in 1..Timers
      PROVE  /\ mExistingThreads'[t] \in {0, 1}
             /\ mExistingThreads'[t] = 1 <=>
                    \E i \in ThreadsAt' : calls'[i].timer = t
             /\ \A i, j \in ThreadsAt' :
                    calls'[i].timer = t /\ calls'[j].timer = t => i = j
  <2>1. mExistingThreads \in [1..Timers -> Int] /\ t # 0
        /\ mExistingThreads[t] \in {0, 1}
    BY MsgSleepAssumption DEF IInv, TypeOK, OneEach
  <2>2. CASE c.timer = t
    <3>1. mExistingThreads[t] = 0 /\ mExistingThreads'[t] = 1
      BY <2>1, <2>2 DEF Admitted
    <3>2. \A i \in ThreadsAt : calls'[i].timer # t
      BY <1>1, <3>1 DEF OneEach
    <3> QED BY <2>2, <3>1, <3>2
  <2>3. CASE c.timer # t
    <3>1. mExistingThreads'[t] = mExistingThreads[t]
      BY <2>1, <2>3 DEF Admitted
    <3>2. /\ mExistingThreads[t] = 1 <=>
                    \E i \in ThreadsAt : calls[i].timer = t
          /\ \A i, j \in ThreadsAt :
                    calls[i].timer = t /\ calls[j].timer = t => i = j
      BY DEF OneEach
    <3>3. \A i \in ThreadsAt' : calls'[i].timer = t =>
                i \in ThreadsAt /\ calls[i].timer = t
      BY <1>1, <2>3
    <3>4. \A i \in ThreadsAt : calls[i].timer = t =>
                i \in ThreadsAt' /\ calls'[i].timer = t
      BY <1>1
    <3>5. (\E i \in ThreadsAt' : calls'[i].timer = t) <=>
                \E i \in ThreadsAt : calls[i].timer = t
      BY <3>3, <3>4
    <3>6. \A i, j \in ThreadsAt' :
                calls'[i].timer = t /\ calls'[j].timer = t => i = j
      BY <3>2, <3>3
    <3> QED BY <2>1, <3>1, <3>2, <3>5, <3>6
  <2> QED BY <2>2, <2>3
<1> QED BY <1>2, <1>3, <1>4, <1>5 DEF OneEach

LEMMA FewerThreads ==
    ASSUME IInv, OneEach, ThreadsAlike, NEW n \in ThreadsAt, Top = calls[n],
           ThreadsAt' = ThreadsAt \ {n}, Released
    PROVE  OneEach'
<1>1. \A i \in ThreadsAt' : /\ i \in ThreadsAt /\ i # n
                            /\ calls'[i].event = calls[i].event
                            /\ calls'[i].timer = calls[i].timer
    BY DEF ThreadsAlike
<1>2. \A i \in ThreadsAt : i # n => i \in ThreadsAt'
    OBVIOUS
<1>3. \A i \in ThreadsAt' : calls'[i].event = "timer" <=> calls'[i].timer # 0
    BY <1>1 DEF OneEach
<1>4. Top.kind = "thread" /\ (Top.event = "timer" <=> Top.timer # 0)
    BY DEF ThreadsAt, OneEach
<1>5. mOnClipboardChangeIsRunning' <=>
            \E i \in ThreadsAt' : calls'[i].event = "clipboard"
    BY <1>1, <1>2, <1>4 DEF OneEach, Released
<1>6. ASSUME NEW i \in ThreadsAt', NEW j \in ThreadsAt',
             calls'[i].event = "clipboard", calls'[j].event = "clipboard"
      PROVE  i = j
    BY <1>1, <1>6 DEF OneEach
<1>7. ASSUME NEW t \in 1..Timers
      PROVE  /\ mExistingThreads'[t] \in {0, 1}
             /\ mExistingThreads'[t] = 1 <=>
                    \E i \in ThreadsAt' : calls'[i].timer = t
             /\ \A i, j \in ThreadsAt' :
                    calls'[i].timer = t /\ calls'[j].timer = t => i = j
  <2>1. /\ mExistingThreads \in [1..Timers -> Int] /\ t # 0
        /\ mExistingThreads[t] \in {0, 1}
    BY MsgSleepAssumption DEF IInv, TypeOK, OneEach
  <2>2. /\ mExistingThreads[t] = 1 <=>
                \E i \in ThreadsAt : calls[i].timer = t
        /\ \A i, j \in ThreadsAt :
                calls[i].timer = t /\ calls[j].timer = t => i = j
    BY DEF OneEach
  <2>3. \A i, j \in ThreadsAt' :
                calls'[i].timer = t /\ calls'[j].timer = t => i = j
    BY <1>1, <2>2
  <2>4. CASE Top.timer = t
    <3>1. mExistingThreads[t] = 1 /\ mExistingThreads'[t] = 0
      <4>1. mExistingThreads[t] = 1
        BY <2>2, <2>4
      <4>2. Top.event = "timer"
        BY <1>4, <2>1, <2>4
      <4>3. mExistingThreads' = [mExistingThreads EXCEPT ![t] = @ - 1]
        BY <1>4, <2>4, <4>2 DEF Released
      <4> QED BY <2>1, <4>1, <4>3
    <3>2. \A i \in ThreadsAt' : calls'[i].timer # t
      BY <1>1, <2>2, <2>4
    <3> QED BY <2>3, <3>1, <3>2
  <2>5. CASE Top.timer # t
    <3>1. mExistingThreads'[t] = mExistingThreads[t]
      BY <1>4, <2>1, <2>5 DEF Released
    <3>2. (\E i \in ThreadsAt' : calls'[i].timer = t) <=>
                \E i \in ThreadsAt : calls[i].timer = t
      BY <1>1, <1>2, <2>5
    <3> QED BY <2>1, <2>2, <2>3, <3>1, <3>2
  <2> QED BY <2>4, <2>5
<1> QED BY <1>3, <1>5, <1>6, <1>7 DEF OneEach
LEMMA StepOneEach ==
    ASSUME IInv, OneEach, [Next]_vars
    PROVE  OneEach'
<1> DEFINE n == Len(calls)
           Same(c, d) == /\ d.kind = c.kind
                         /\ c.kind = "thread" =>
                                d.event = c.event /\ d.timer = c.timer
<1>1. /\ n \in Nat /\ n >= 1 /\ Depth = 1..n /\ n \in Depth
      /\ Top = calls[n] /\ Depth' = 1..Len(calls')
    BY StackDepth DEF Top, Depth
<1>2. /\ ThreadsAt = {i \in 1..n : calls[i].kind = "thread"}
      /\ ThreadsAt' = {i \in 1..Len(calls') : calls'[i].kind = "thread"}
    BY <1>1 DEF ThreadsAt
<1>3. \A c, d : Alike(c, d) => Same(c, d)
    BY DEF Alike
<1> HIDE DEF n
<1>4. ASSUME ThreadsKept, Len(calls') = n, \A i \in 1..n : Same(calls[i], calls'[i])
      PROVE  OneEach'
  <2>1. ThreadsAt' = ThreadsAt /\ ThreadsAlike
    BY <1>2, <1>4 DEF ThreadsAlike
  <2> QED BY <1>4, <2>1, SameThreads
<1>5. CASE Stays
    BY <1>1, <1>3, <1>4, <1>5 DEF Stays, StackLike, n
<1>6. CASE Joins
  <2>1. PICK d \in Call : calls' = [calls EXCEPT ![n] = d] /\ d.kind = "layer"
    BY <1>6 DEF Joins, AtTop, n
  <2>2. calls \in Seq(Call) /\ n \in 1..Len(calls)
    BY <1>1, StackTop DEF IInv, n
  <2>3. /\ Len(calls') = n
        /\ \A j \in 1..n : calls'[j] = IF j = n THEN d ELSE calls[j]
    BY <2>1, <2>2, ExceptSeq DEF n
  <2>4. \A j \in 1..n : Same(calls[j], calls'[j])
    BY <1>1, <1>6, <2>1, <2>3 DEF Joins
  <2> QED BY <1>4, <1>6, <2>3, <2>4 DEF Joins
<1>7. ASSUME NEW c, Pushed(c)
      PROVE  /\ ThreadsAlike /\ n + 1 \notin ThreadsAt /\ calls'[n + 1] = c
             /\ ThreadsAt' = IF c.kind = "thread" THEN ThreadsAt \cup {n + 1}
                                                  ELSE ThreadsAt
  <2>1. Len(calls') = n + 1 /\ calls'[n + 1] = c
        /\ \A i \in 1..n : Same(calls[i], calls'[i])
    BY <1>1, <1>3, <1>7 DEF Pushed, n
  <2>2. /\ \A i \in 1..(n + 1) : i \in 1..n \/ i = n + 1
        /\ \A i \in 1..n : i \in 1..(n + 1)
        /\ n + 1 \in 1..(n + 1) /\ n + 1 \notin 1..n
    BY <1>1
  <2>3. ThreadsAlike
    BY <1>2, <2>1 DEF ThreadsAlike
  <2>4. ThreadsAt' = IF c.kind = "thread" THEN ThreadsAt \cup {n + 1}
                                          ELSE ThreadsAt
    BY <1>2, <2>1, <2>2
  <2> QED BY <1>2, <2>1, <2>2, <2>3, <2>4
<1>8. ASSUME NEW c, Starts(c)
      PROVE  OneEach'
  <2>1. Pushed(c) /\ c.kind = "thread" /\ Admitted(c)
    BY <1>8 DEF Starts
  <2>2. /\ ThreadsAlike /\ n + 1 \notin ThreadsAt /\ calls'[n + 1] = c
        /\ ThreadsAt' = ThreadsAt \cup {n + 1}
    BY <1>7, <2>1
  <2>3. Admitted(calls'[n + 1])
    BY <2>1, <2>2
  <2> QED BY <2>2, <2>3, MoreThreads
<1>9. ASSUME NEW c, Enters(c)
      PROVE  OneEach'
  <2>1. Pushed(c) /\ c.kind # "thread" /\ ThreadsKept
    BY <1>9 DEF Enters
  <2>2. ThreadsAlike /\ ThreadsAt' = ThreadsAt
    BY <1>7, <2>1
  <2> QED BY <2>1, <2>2, SameThreads
<1>10. ASSUME Popped
       PROVE  ThreadsAlike /\ ThreadsAt' = ThreadsAt \ {n}
  <2> DEFINE m == n - 1
  <2>1. Len(calls') = m /\ \A i \in 1..m : Same(calls[i], calls'[i])
    BY <1>3, <1>10 DEF Popped, n
  <2>2. /\ \A i \in 1..m : i \in 1..n /\ i # n
        /\ \A i \in 1..n : i # n => i \in 1..m
    BY <1>1
  <2> HIDE DEF m
  <2>3. ThreadsAlike
    BY <1>2, <2>1, <2>2 DEF ThreadsAlike
  <2>4. ThreadsAt' = ThreadsAt \ {n}
    BY <1>2, <2>1, <2>2
  <2> QED BY <2>3, <2>4
<1>11. CASE Leaves
  <2>1. ThreadsAlike /\ ThreadsAt' = ThreadsAt /\ ThreadsKept
    BY <1>1, <1>2, <1>10, <1>11 DEF Leaves
  <2> QED BY <2>1, SameThreads
<1>12. CASE Ends
  <2>1. ThreadsAlike /\ ThreadsAt' = ThreadsAt \ {n} /\ Released
    BY <1>10, <1>12 DEF Ends
  <2>2. CASE Top.kind = "thread"
    <3>1. n \in ThreadsAt
      BY <1>1, <1>2, <2>2
    <3> QED BY <1>1, <2>1, <3>1, FewerThreads
  <2>3. CASE Top.kind # "thread"
    <3>1. ThreadsAt' = ThreadsAt /\ ThreadsKept
      BY <1>1, <1>2, <2>1, <2>3 DEF Released
    <3> QED BY <2>1, <3>1, SameThreads
  <2> QED BY <2>2, <2>3
<1> QED BY <1>5, <1>6, <1>8, <1>9, <1>11, <1>12, StepShape

LEMMA AtMostOne ==
    ASSUME NEW S, \A i, j \in S : i = j
    PROVE  Cardinality(S) <= 1
<1>1. CASE S = {}
    BY <1>1, FS_EmptySet
<1>2. CASE S # {}
  <2>1. PICK i \in S : S = {i}
    BY <1>2
  <2>2. Cardinality({i}) = 1
    BY FS_Singleton
  <2> QED BY <2>1, <2>2
<1> QED BY <1>1, <1>2

\* OnClipboardChange and each timer's subroutine never run twice at once, in
\* whatever order layers, dialogs and threads interrupt each other; the flag
\* mOnClipboardChangeIsRunning tells exactly whether the former runs.
THEOREM NoThreadTwice == Spec => []OneThreadEach
<1>1. Init => OneEach
  <2> SUFFICES ASSUME Init PROVE OneEach
    OBVIOUS
  <2>1. ThreadsAt = {}
    BY DEF Init, ThreadsAt, Depth
  <2>2. \A t \in 1..Timers : mExistingThreads[t] = 0
    BY DEF Init
  <2> QED BY <2>1, <2>2 DEF Init, OneEach
<1>2. IInv /\ OneEach /\ [Next]_vars => OneEach'
    BY StepOneEach
<1>3. OneEach => OneThreadEach
    BY AtMostOne DEF OneEach, OneThreadEach
<1> QED BY <1>1, <1>2, <1>3, Invariant, PTL DEF Spec
=============================================================================
