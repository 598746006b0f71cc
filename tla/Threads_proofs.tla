--------------------------- MODULE Threads_proofs ---------------------------
(***************************************************************************)
(* Theorems about the quasi-thread scheduler, for every number of threads, *)
(* timers and priorities.                                                  *)
(***************************************************************************)
EXTENDS Threads, SequenceTheorems, FiniteSetTheorems, TLAPS

\* The counter of ResumeUnderlyingThread and InitNewThread is the depth of
\* the call stack: what makes g_nThreads a number that never goes below zero.
ThreadCount == g_nThreads = Len(frames)
TypeInv == TypeOK /\ ThreadCount

-----------------------------------------------------------------------------
(* The stack of launchers *)

LEMMA Prefix ==
    ASSUME NEW S, NEW s, NEW n \in Nat, \A i \in 1..n : s[i] \in S
    PROVE  /\ SubSeq(s, 1, n) \in Seq(S)
           /\ Len(SubSeq(s, 1, n)) = n
           /\ \A i \in 1..n : SubSeq(s, 1, n)[i] = s[i]
BY SubSeqProperties

\* The thread on top of a stack that is not empty, and what is beneath it.
LEMMA StackRest ==
    ASSUME TypeOK, frames # <<>>
    PROVE  /\ Len(frames) \in Nat /\ Len(frames) >= 1
           /\ Top \in Frame
           /\ Rest \in Seq(Frame)
           /\ Len(Rest) = Len(frames) - 1
           /\ \A i \in 1..(Len(frames) - 1) : Rest[i] = frames[i]
<1>1. frames \in Seq(Frame)
    BY DEF TypeOK
<1>2. Len(frames) \in Nat /\ Len(frames) >= 1
    BY <1>1, EmptySeq
<1>3. Top \in Frame
    BY <1>1, <1>2, ElementOfSeq DEF Top
<1>4. \A i \in 1..(Len(frames) - 1) : frames[i] \in Frame
    BY <1>1, <1>2, ElementOfSeq
<1>5. ASSUME NEW n \in Nat, n = Len(frames) - 1
      PROVE  /\ SubSeq(frames, 1, n) \in Seq(Frame)
             /\ Len(SubSeq(frames, 1, n)) = n
             /\ \A i \in 1..n : SubSeq(frames, 1, n)[i] = frames[i]
    BY <1>4, <1>5, Prefix
<1>6. Len(frames) - 1 \in Nat
    BY <1>2
<1> QED
    BY <1>2, <1>3, <1>5, <1>6, Zenon DEF Rest

\* A launch adds one frame and leaves the others alone.
LEMMA StackPush ==
    ASSUME TypeOK, NEW f \in Frame
    PROVE  /\ Append(frames, f) \in Seq(Frame)
           /\ Len(Append(frames, f)) = Len(frames) + 1
           /\ Len(frames) \in Nat
           /\ Append(frames, f)[Len(frames) + 1] = f
           /\ \A i \in 1..Len(frames) : Append(frames, f)[i] = frames[i]
BY DEF TypeOK

\* The states that the launchers build are states of threads.
LEMMA NewThreadType ==
    ASSUME TypeOK, NEW priority \in AllPriorities, NEW skip \in BOOLEAN,
           NEW first, InitNewThread(priority, skip, first)
    PROVE  g' \in ThreadState
<1>1. StartsCritical(skip, first) \in BOOLEAN
      /\ StartsShielded(skip, first) \in BOOLEAN
    BY Zenon DEF StartsCritical, StartsShielded
<1> DEFINE crit == StartsCritical(skip, first)
           shld == StartsShielded(skip, first)
<1> HIDE DEF crit, shld
<1>2. g' = [g_default EXCEPT
            !.UnderlyingThreadIsPaused = g.IsPaused,
            !.Priority = priority,
            !.ThreadIsCritical = @ \/ crit,
            !.AllowThreadToBeInterrupted = @ /\ ~shld]
    BY DEF InitNewThread, crit, shld
<1> QED BY <1>2 DEF TypeOK, ThreadState

LEMMA PushType ==
    ASSUME TypeInv, NEW kind \in Kinds, NEW timer \in 0..Timers,
           Push(kind, timer)
    PROVE  /\ frames' \in Seq(Frame) /\ ThreadCount'
           /\ doing' \in Doing /\ labels' \in Seq(LabelRun)
           /\ g_nThreads' \in Nat /\ g_nPausedThreads' \in Int
           /\ g_IdleIsPaused' \in BOOLEAN
<1> DEFINE f == [kind |-> kind, saved |-> g, doing |-> doing,
             timer |-> timer,
             allow |-> g_AllowInterruption,
             pending |-> g_UninterruptibleTimerExists]
<1>1. f \in Frame
    BY DEF TypeInv, TypeOK, Frame
<1>2. frames' = Append(frames, f)
    BY DEF Push
<1> QED BY <1>1, <1>2, StackPush DEF Push, TypeInv, TypeOK, ThreadCount, Doing

LEMMA ResumeType ==
    ASSUME TypeInv, frames # <<>>, NEW idle, ResumeUnderlyingThread(idle)
    PROVE  /\ g' \in ThreadState
           /\ frames' \in Seq(Frame) /\ ThreadCount'
           /\ doing' \in Doing /\ labels' \in Seq(LabelRun)
           /\ g_nThreads' \in Nat /\ g_nPausedThreads' \in Int
           /\ g_IdleIsPaused' \in BOOLEAN
<1> DEFINE mark == g.UnderlyingThreadIsPaused
           saved == Top.saved
<1>1. mark \in BOOLEAN /\ saved \in ThreadState /\ Top.doing \in Doing
    BY StackRest DEF TypeInv, TypeOK, ThreadState, Frame
<1>2. Resumed(saved, mark) \in ThreadState
    BY <1>1 DEF Resumed, ThreadState
<1>3. AsIdle(Resumed(saved, mark)) \in ThreadState
    BY <1>2 DEF AsIdle, ThreadState, AllPriorities
<1>4. g' \in ThreadState
    BY <1>2, <1>3 DEF ResumeUnderlyingThread
<1>5. g_nPausedThreads' \in Int
    BY <1>1 DEF ResumeUnderlyingThread, PausedCountAfter, TypeInv, TypeOK
<1>6. frames' \in Seq(Frame) /\ ThreadCount' /\ g_nThreads' \in Nat
    BY StackRest DEF ResumeUnderlyingThread, TypeInv, ThreadCount
<1> QED
    BY <1>1, <1>4, <1>5, <1>6 DEF ResumeUnderlyingThread, TypeInv, TypeOK

LEMMA KillTimerType ==
    ASSUME TypeOK, NEW exists,
           NEW name \in {"uninterruptible", "autoexec"},
           KillTimer(exists, name)
    PROVE  late' \subseteq {"uninterruptible", "autoexec"}
BY DEF KillTimer, TypeOK

LEMMA LaunchType ==
    ASSUME TypeInv, NEW kind \in Kinds, NEW priority \in AllPriorities,
           NEW timer \in 0..Timers, NEW first,
           Launch(kind, priority, timer, first),
           UNCHANGED <<g_default, phase, switches, settings>>,
           mExistingThreads' \in [1..Timers -> Int]
    PROVE  TypeInv'
<1>1. g' \in ThreadState
    BY NewThreadType, FALSE \in BOOLEAN DEF TypeInv, Launch
<1>2. /\ frames' \in Seq(Frame) /\ ThreadCount'
      /\ doing' \in Doing /\ labels' \in Seq(LabelRun)
      /\ g_nThreads' \in Nat /\ g_nPausedThreads' \in Int
      /\ g_IdleIsPaused' \in BOOLEAN
    BY PushType, Zenon DEF Launch
<1>3. g_UninterruptibleTimerExists' \in BOOLEAN
    BY Zenon DEF Launch, StartsTimer, TypeInv, TypeOK
<1> QED
    BY <1>1, <1>2, <1>3
    DEF Launch, TypeInv, TypeOK, switches, settings, ThreadCount

LEMMA CounterType ==
    ASSUME NEW m \in [1..Timers -> Int], NEW t
    PROVE  [m EXCEPT ![t] = @ - 1] \in [1..Timers -> Int]
<1>1. CASE t \in 1..Timers
    BY <1>1
<1>2. CASE t \notin 1..Timers
    BY <1>2
<1> QED BY <1>1, <1>2

LEMMA InitType == Init => TypeInv
<1> SUFFICES ASSUME Init PROVE TypeInv
    OBVIOUS
<1>1. global_init \in ThreadState
    BY ThreadsAssumption DEF global_init, ThreadState, AllPriorities
<1>2. g \in ThreadState /\ g_default \in ThreadState
    BY <1>1 DEF Init, ThreadState
<1>3. frames \in Seq(Frame) /\ g_nThreads \in Nat
    <2> DEFINE f == [kind |-> "auto", saved |-> global_init, doing |-> "none",
                timer |-> 0, allow |-> TRUE,
                pending |-> FALSE]
    <2>1. f \in Frame
        BY <1>1, ThreadsAssumption DEF Frame, Kinds, Doing, AllPriorities
    <2>2. frames = <<>> \/ frames = <<f>>
        BY DEF Init
    <2>3. g_nThreads = Len(frames)
        BY DEF Init
    <2> HIDE DEF f
    <2>4. CASE frames = <<>>
        BY <2>3, <2>4
    <2>5. CASE frames = <<f>>
        BY <2>1, <2>3, <2>5
    <2> QED BY <2>2, <2>4, <2>5
<1>4. phase \in Phases
    BY DEF Init, Phases
<1>5. mExistingThreads \in [1..Timers -> Int]
    BY DEF Init
<1>6. mUninterruptibleTime \in Int /\ mUninterruptedLineCountMax \in Int
    BY ThreadsAssumption DEF Init
<1>7. labels \in Seq(LabelRun) /\ doing \in Doing
    BY DEF Init, Doing
<1>8. ThreadCount /\ g_nPausedThreads \in Int
    BY DEF Init, ThreadCount
<1>9. /\ g_IdleIsPaused \in BOOLEAN /\ g_AllowInterruption \in BOOLEAN
      /\ g_MenuIsVisible \in BOOLEAN /\ sExitLabelIsRunning \in BOOLEAN
      /\ g_UninterruptibleTimerExists \in BOOLEAN
      /\ g_AutoExecTimerExists \in BOOLEAN
      /\ late \subseteq {"uninterruptible", "autoexec"}
    BY Zenon DEF Init
<1> QED
    BY <1>2, <1>3, <1>4, <1>5, <1>6, <1>7, <1>8, <1>9 DEF TypeInv, TypeOK

LEMMA TypeStep == TypeInv /\ [Next]_vars => TypeInv'
<1> SUFFICES ASSUME TypeInv, [Next]_vars PROVE TypeInv'
    OBVIOUS
<1> USE DEF TypeInv
<1>A. Priorities \subseteq AllPriorities /\ 0 \in AllPriorities
    BY ThreadsAssumption DEF AllPriorities
<1>1. ASSUME NEW priority \in Priorities, NEW first \in FirstLines,
             LaunchMsg(priority, first)
      PROVE  TypeInv'
    BY <1>1, <1>A, LaunchType, ThreadsAssumption
    DEF LaunchMsg, Kinds, TypeOK
<1>2. ASSUME NEW t \in 1..Timers, NEW first \in FirstLines,
             LaunchTimer(t, first)
      PROVE  TypeInv'
    <2>1. TimerPriority[t] \in AllPriorities /\ t \in 0..Timers
        <3>1. TimerPriority[t] \in Priorities
            BY ThreadsAssumption
        <3>2. t \in 0..Timers
            BY ThreadsAssumption
        <3> QED BY <1>A, <3>1, <3>2
    <2>2. mExistingThreads' \in [1..Timers -> Int]
        BY <1>2 DEF LaunchTimer, TypeOK
    <2> QED
        BY <1>2, <2>1, <2>2, LaunchType DEF LaunchTimer, Kinds
<1>3. ASSUME NEW kind \in ExitKinds, ExitApp(kind)
      PROVE  TypeInv'
    <2>1. CASE TerminateApp
        BY <2>1 DEF TerminateApp, TypeOK, ThreadCount, Phases, stack,
                    counters, switches, clocks, settings
    <2>2. CASE ~TerminateApp
        <3>1. g' \in ThreadState
            BY <1>3, <1>A, <2>2, NewThreadType DEF ExitApp
        <3>2. /\ frames' \in Seq(Frame) /\ ThreadCount'
              /\ doing' \in Doing /\ labels' \in Seq(LabelRun)
              /\ g_nThreads' \in Nat /\ g_nPausedThreads' \in Int
              /\ g_IdleIsPaused' \in BOOLEAN
            <4>1. kind \in Kinds
                BY DEF ExitKinds, Kinds
            <4>2. 0 \in 0..Timers
                BY ThreadsAssumption
            <4> QED BY <1>3, <1>A, <2>2, <4>1, <4>2, PushType DEF ExitApp
        <3> QED
            BY <1>3, <2>2, <3>1, <3>2
            DEF ExitApp, TypeOK, Phases, clocks, settings, ThreadCount
    <2> QED BY <2>1, <2>2
<1>4. ASSUME NEW first \in HostFirstLines, callFunc(first)
      PROVE  TypeInv'
    BY <1>4, <1>A, LaunchType, ThreadsAssumption
    DEF callFunc, Kinds, TypeOK
<1>5. CASE FinishMsg
    <2>1. /\ g' \in ThreadState
          /\ frames' \in Seq(Frame) /\ ThreadCount'
          /\ doing' \in Doing /\ labels' \in Seq(LabelRun)
          /\ g_nThreads' \in Nat /\ g_nPausedThreads' \in Int
          /\ g_IdleIsPaused' \in BOOLEAN
        BY <1>5, ResumeType, Zenon DEF FinishMsg
    <2>2. late' \subseteq {"uninterruptible", "autoexec"}
        BY <1>5, KillTimerType DEF FinishMsg, KILL_UNINTERRUPTIBLE_TIMER
    <2> QED
        BY <1>5, <2>1, <2>2
        DEF FinishMsg, KILL_UNINTERRUPTIBLE_TIMER, TypeOK, switches, settings,
            ThreadCount
<1>6. CASE FinishTimer
    <2>1. /\ g' \in ThreadState
          /\ frames' \in Seq(Frame) /\ ThreadCount'
          /\ doing' \in Doing /\ labels' \in Seq(LabelRun)
          /\ g_nThreads' \in Nat /\ g_nPausedThreads' \in Int
          /\ g_IdleIsPaused' \in BOOLEAN
        BY <1>6, ResumeType, Zenon DEF FinishTimer, TimerReturns
    <2>2. late' \subseteq {"uninterruptible", "autoexec"}
        BY <1>6, KillTimerType DEF FinishTimer, KILL_UNINTERRUPTIBLE_TIMER
    <2>3. mExistingThreads' \in [1..Timers -> Int]
        BY <1>6, CounterType DEF FinishTimer, TypeOK
    <2> QED
        BY <1>6, <2>1, <2>2, <2>3
        DEF FinishTimer, KILL_UNINTERRUPTIBLE_TIMER, TypeOK, switches,
            settings, ThreadCount
<1>7. CASE FinishExit
    <2>1. CASE TerminateApp
        BY <2>1 DEF TerminateApp, TypeOK, ThreadCount, Phases, stack,
                    counters, switches, clocks, settings
    <2>2. CASE ~TerminateApp
        <3>1. /\ g' \in ThreadState
              /\ frames' \in Seq(Frame) /\ ThreadCount'
              /\ doing' \in Doing /\ labels' \in Seq(LabelRun)
              /\ g_nThreads' \in Nat /\ g_nPausedThreads' \in Int
              /\ g_IdleIsPaused' \in BOOLEAN
            BY <1>7, <2>2, ResumeType, Zenon DEF FinishExit
        <3>2. Top.allow \in BOOLEAN /\ Top.pending \in BOOLEAN
            BY <1>7, StackRest DEF FinishExit, Frame
        <3> QED
            BY <1>7, <2>2, <3>1, <3>2
            DEF FinishExit, TypeOK, settings, ThreadCount
    <2> QED BY <2>1, <2>2
<1>8. CASE FinishAutoExec
    <2>1. /\ late' \subseteq {"uninterruptible", "autoexec"}
          /\ g_UninterruptibleTimerExists' \in BOOLEAN
          /\ g_AutoExecTimerExists' \in BOOLEAN
        BY <1>8, KillTimerType
        DEF FinishAutoExec, KILL_AUTOEXEC_TIMER, TypeOK
    <2>2. g' \in ThreadState
        BY <1>8 DEF FinishAutoExec, Uncritical, TypeOK, ThreadState
    <2>3. frames' \in Seq(Frame) /\ ThreadCount' /\ g_nThreads' \in Nat
        BY <1>8, StackRest DEF FinishAutoExec, ThreadCount
    <2> QED
        BY <1>8, <2>1, <2>2, <2>3
        DEF FinishAutoExec, TypeOK, Phases, Doing, switches, settings,
            ThreadCount
<1>9. ASSUME NEW t \in 1..Timers, NEW first \in FirstLines,
             NextTimer(t, first)
      PROVE  TypeInv'
    <2>1. TimerPriority[t] \in AllPriorities /\ t \in 0..Timers
        <3>1. TimerPriority[t] \in Priorities
            BY ThreadsAssumption
        <3>2. t \in 0..Timers
            BY ThreadsAssumption
        <3> QED BY <1>A, <3>1, <3>2
    <2>2. g' \in ThreadState
        BY <1>9, <2>1, NewThreadType DEF NextTimer
    <2>3. late' \subseteq {"uninterruptible", "autoexec"}
        BY <1>9, KillTimerType DEF NextTimer
    <2>4. frames' \in Seq(Frame) /\ Len(frames') = Len(frames)
        <3> DEFINE f == [Top EXCEPT !.timer = t]
        <3>1. f \in Frame
            BY <1>9, <2>1, StackRest DEF NextTimer, TimerReturns, Frame
        <3>2. frames' = [frames EXCEPT ![Len(frames)] = f]
            BY <1>9 DEF NextTimer
        <3> HIDE DEF f
        <3>3. frames \in Seq(Frame) /\ Len(frames) \in 1..Len(frames)
            BY <1>9, StackRest DEF NextTimer, TimerReturns, TypeOK
        <3> QED BY <3>1, <3>2, <3>3, ExceptSeq
    <2>5. g_UninterruptibleTimerExists' \in BOOLEAN
        BY <1>9, Zenon DEF NextTimer, StartsTimer
    <2>6. mExistingThreads' \in [1..Timers -> Int]
        BY <1>9 DEF NextTimer, TypeOK
    <2> QED
        BY <1>9, <2>2, <2>3, <2>4, <2>5, <2>6
        DEF NextTimer, TypeOK, Doing, counters, switches, settings,
            ThreadCount
<1>10. ASSUME NEW mode \in {"on", "off", "toggle"}, NEW underlying \in BOOLEAN,
              ChangePauseState(mode, underlying)
       PROVE  TypeInv'
    <2>1. g' \in ThreadState
        BY <1>10 DEF ChangePauseState, TypeOK, ThreadState
    <2>2. g_nPausedThreads' \in Int /\ g_nThreads' = g_nThreads
          /\ g_IdleIsPaused' = g_IdleIsPaused
        BY <1>10 DEF ChangePauseState, TypeOK, counters
    <2> QED
        BY <1>10, <2>1, <2>2
        DEF ChangePauseState, Rescheduled, TypeOK, ThreadCount, stack,
            switches, clocks, settings
<1>11. ASSUME NEW on \in BOOLEAN, Critical(on)
       PROVE  TypeInv'
    <2>1. g' \in ThreadState
        BY <1>11 DEF Critical, TypeOK, ThreadState
    <2>2. late' \subseteq {"uninterruptible", "autoexec"}
        BY <1>11, KillTimerType DEF Critical, KILL_UNINTERRUPTIBLE_TIMER
    <2> QED
        BY <1>11, <2>1, <2>2
        DEF Critical, KILL_UNINTERRUPTIBLE_TIMER, Rescheduled, TypeOK,
            ThreadCount, stack, counters, switches, settings
<1>12. ASSUME NEW priority \in Priorities, ThreadPriority(priority)
       PROVE  TypeInv'
    <2>1. g' \in ThreadState
        BY <1>12, <1>A DEF ThreadPriority, TypeOK, ThreadState
    <2> QED
        BY <1>12, <2>1
        DEF ThreadPriority, Rescheduled, TypeOK, ThreadCount, stack, counters,
            switches, clocks, settings
<1>13. ASSUME NEW off \in BOOLEAN, ThreadNoTimers(off)
       PROVE  TypeInv'
    <2>1. g' \in ThreadState
        BY <1>13 DEF ThreadNoTimers, TypeOK, ThreadState
    <2> QED
        BY <1>13, <2>1
        DEF ThreadNoTimers, Rescheduled, TypeOK, ThreadCount, stack, counters,
            switches, clocks, settings
<1>14. ASSUME NEW time \in InterruptTimes, NEW lines \in InterruptLines,
              ThreadInterrupt(time, lines)
       PROVE  TypeInv'
    <2>1. mUninterruptibleTime' \in Int /\ mUninterruptedLineCountMax' \in Int
        BY <1>14, ThreadsAssumption DEF ThreadInterrupt, TypeOK
    <2> QED
        BY <1>14, <2>1
        DEF ThreadInterrupt, Rescheduled, TypeOK, ThreadCount, stack, counters,
            switches, clocks
<1>15. CASE LineCountExceeded
    <2>1. g' \in ThreadState
        BY <1>15 DEF LineCountExceeded, TypeOK, ThreadState
    <2>2. late' \subseteq {"uninterruptible", "autoexec"}
        BY <1>15, KillTimerType
        DEF LineCountExceeded, KILL_UNINTERRUPTIBLE_TIMER
    <2> QED
        BY <1>15, <2>1, <2>2
        DEF LineCountExceeded, KILL_UNINTERRUPTIBLE_TIMER, Rescheduled, TypeOK,
            ThreadCount, stack, counters, switches, settings
<1>16. ASSUME NEW error \in BOOLEAN, OpenDialog(error)
       PROVE  TypeInv'
    BY <1>16 DEF OpenDialog, TypeOK, ThreadCount, Doing, counters, switches,
                 clocks, settings
<1>17. ASSUME NEW thread_was_critical \in BOOLEAN,
              CloseDialog(thread_was_critical)
       PROVE  TypeInv'
    <2>1. g' \in ThreadState
        BY <1>17 DEF CloseDialog, TypeOK, ThreadState
    <2> QED
        BY <1>17, <2>1
        DEF CloseDialog, TypeOK, ThreadCount, Doing, counters, switches,
            clocks, settings
<1>18. CASE EnterMainLoop
    <2>1. global_clear_state(g) \in ThreadState
        BY DEF global_clear_state, TypeOK, ThreadState
    <2>2. AsIdle(global_clear_state(g)) \in ThreadState
        BY <2>1 DEF AsIdle, ThreadState, AllPriorities
    <2> QED
        BY <1>18, <2>1, <2>2
        DEF EnterMainLoop, TypeOK, ThreadCount, Phases, stack, counters,
            switches, clocks, settings
<1>19. CASE AutoExecSectionTimeout
    <2>1. Uncritical(g) \in ThreadState
          /\ global_clear_state(Uncritical(g)) \in ThreadState
        BY DEF global_clear_state, Uncritical, TypeOK, ThreadState
    <2>2. late' \subseteq {"uninterruptible", "autoexec"}
        BY <1>19 DEF AutoExecSectionTimeout, TypeOK
    <2> QED
        BY <1>19, <2>1, <2>2
        DEF AutoExecSectionTimeout, TypeOK, ThreadCount, stack, counters,
            switches, settings
<1>20. CASE UninterruptibleTimeout
    <2>1. Uncritical(g) \in ThreadState
        BY DEF Uncritical, TypeOK, ThreadState
    <2>2. late' \subseteq {"uninterruptible", "autoexec"}
        BY <1>20 DEF UninterruptibleTimeout, TypeOK
    <2> QED
        BY <1>20, <2>1, <2>2
        DEF UninterruptibleTimeout, TypeOK, ThreadCount, stack, counters,
            switches, settings
<1>21. CASE WM_ENTERMENULOOP
    BY <1>21 DEF WM_ENTERMENULOOP, TypeOK, ThreadCount, Doing, counters,
                 clocks, settings
<1>22. CASE WM_EXITMENULOOP
    BY <1>22 DEF WM_EXITMENULOOP, TypeOK, ThreadCount, Doing, counters,
                 clocks, settings
<1>23. CASE ExecuteLabel
    <2>1. [depth |-> Len(frames), doing |-> doing] \in LabelRun
        BY DEF LabelRun, TypeOK
    <2>2. labels' \in Seq(LabelRun)
        BY <1>23, <2>1 DEF ExecuteLabel, TypeOK
    <2> QED
        BY <1>23, <2>2 DEF ExecuteLabel, TypeOK, ThreadCount, Doing, counters,
                           switches, clocks, settings
<1>24. CASE FinishLabel
    <2>1. labels \in Seq(LabelRun) /\ labels # <<>>
        BY <1>24 DEF FinishLabel, InLabel, TypeOK
    <2>2. Len(labels) \in Nat /\ Len(labels) >= 1
        BY <2>1, EmptySeq
    <2>3. labels[Len(labels)].doing \in Doing
        <3>1. labels[Len(labels)] \in LabelRun
            BY <2>1, <2>2, ElementOfSeq
        <3> QED BY <3>1 DEF LabelRun
    <2>4. \A n \in Nat : n = Len(labels) - 1 =>
                SubSeq(labels, 1, n) \in Seq(LabelRun)
        <3> SUFFICES ASSUME NEW n \in Nat, n = Len(labels) - 1
                     PROVE  SubSeq(labels, 1, n) \in Seq(LabelRun)
            OBVIOUS
        <3>1. \A i \in 1..n : labels[i] \in LabelRun
            BY <2>1, <2>2, ElementOfSeq
        <3> QED BY <3>1, Prefix
    <2>5. Len(labels) - 1 \in Nat
        BY <2>2
    <2>6. labels' \in Seq(LabelRun)
        BY <1>24, <2>4, <2>5, Zenon DEF FinishLabel
    <2> QED
        BY <1>24, <2>3, <2>6 DEF FinishLabel, TypeOK, ThreadCount, counters,
                           switches, clocks, settings
<1>25. CASE UNCHANGED vars
    BY <1>25 DEF vars, TypeOK, ThreadCount, stack, counters, switches, clocks,
                 settings
<1> QED
    BY <1>1, <1>2, <1>3, <1>4, <1>5, <1>6, <1>7, <1>8, <1>9, <1>10, <1>11,
       <1>12, <1>13, <1>14, <1>15, <1>16, <1>17, <1>18, <1>19, <1>20, <1>21,
       <1>22, <1>23, <1>24, <1>25
    DEF Next, LaunchStep, FinishStep, CommandStep, PumpStep

\* Every variable keeps its type, and g_nThreads is the depth of the stack.
THEOREM TypeCorrect == Spec => []TypeOK
<1>1. TypeInv => TypeOK
    BY DEF TypeInv
<1> QED BY <1>1, InitType, TypeStep, PTL DEF Spec

-----------------------------------------------------------------------------
(* What the stack is after a launch, a return and the next timer of a loop *)

LEMMA Pushed ==
    ASSUME TypeInv, NEW kind \in Kinds, NEW timer \in 0..Timers,
           Push(kind, timer)
    PROVE  /\ Len(frames) \in Nat /\ Len(frames') = Len(frames) + 1
           /\ \A i \in 1..Len(frames) : frames'[i] = frames[i]
           /\ frames'[Len(frames')].kind = kind
           /\ frames'[Len(frames')].saved = g
           /\ frames'[Len(frames')].allow = g_AllowInterruption
           /\ frames'[Len(frames')].timer = timer
<1> DEFINE f == [kind |-> kind, saved |-> g, doing |-> doing,
             timer |-> timer,
             allow |-> g_AllowInterruption,
             pending |-> g_UninterruptibleTimerExists]
<1>1. f \in Frame
    BY DEF TypeInv, TypeOK, Frame
<1>2. frames' = Append(frames, f)
    BY DEF Push
<1>3. /\ f.kind = kind /\ f.saved = g /\ f.timer = timer
      /\ f.allow = g_AllowInterruption
    OBVIOUS
<1> HIDE DEF f
<1> QED BY <1>1, <1>2, <1>3, StackPush DEF TypeInv

LEMMA Popped ==
    ASSUME TypeOK, frames # <<>>, frames' = Rest
    PROVE  /\ Len(frames) \in Nat /\ Len(frames) >= 1
           /\ Len(frames') = Len(frames) - 1
           /\ \A i \in 1..Len(frames') : frames'[i] = frames[i]
BY StackRest

LEMMA Swapped ==
    ASSUME TypeOK, NEW t \in 1..Timers, NEW first, NextTimer(t, first)
    PROVE  /\ frames # <<>> /\ Top.kind = "timer"
           /\ Len(frames) \in Nat /\ Len(frames') = Len(frames)
           /\ Len(frames) >= 1
           /\ \A i \in 1..(Len(frames) - 1) : frames'[i] = frames[i]
           /\ frames'[Len(frames)].kind = "timer"
           /\ frames'[Len(frames)].saved = Top.saved
           /\ frames'[Len(frames)].allow = Top.allow
           /\ frames'[Len(frames)].timer = t
<1> DEFINE f == [Top EXCEPT !.timer = t]
<1>1. frames # <<>> /\ Top.kind = "timer"
    BY DEF NextTimer, TimerReturns
<1>2. frames' = [frames EXCEPT ![Len(frames)] = f]
    BY DEF NextTimer
<1>3. Top \in Frame /\ Len(frames) \in Nat /\ Len(frames) >= 1
    BY <1>1, StackRest
<1>4. f.kind = "timer" /\ f.saved = Top.saved /\ f.allow = Top.allow
      /\ f.timer = t
    BY <1>1, <1>3 DEF Frame
<1> HIDE DEF f
<1>5. frames \in Seq(Frame)
    BY DEF TypeOK
<1> QED BY <1>1, <1>2, <1>3, <1>4, <1>5

-----------------------------------------------------------------------------
(* Shielded threads *)

\* A launch in a thread that can be interrupted, or of an emergency thread,
\* leaves no shielded thread beneath an ordinary one.
LEMMA ShieldPush ==
    ASSUME TypeInv, UninterruptibleRespected,
           NEW kind \in Kinds, NEW timer \in 0..Timers,
           Push(kind, timer),
           g.AllowThreadToBeInterrupted \/ kind \in EmergencyKinds
    PROVE  UninterruptibleRespected'
BY Pushed DEF UninterruptibleRespected, Depth

LEMMA ShieldPop ==
    ASSUME TypeOK, UninterruptibleRespected, frames # <<>>, frames' = Rest
    PROVE  UninterruptibleRespected'
BY Popped DEF UninterruptibleRespected, Depth

LEMMA ShieldStep ==
    TypeInv /\ UninterruptibleRespected /\ [Next]_vars
        => UninterruptibleRespected'
<1> SUFFICES ASSUME TypeInv, UninterruptibleRespected, [Next]_vars
             PROVE  UninterruptibleRespected'
    OBVIOUS
<1>A. Priorities \subseteq AllPriorities /\ 0 \in AllPriorities
      /\ 0 \in 0..Timers
    BY ThreadsAssumption DEF AllPriorities
<1>1. ASSUME NEW priority \in Priorities, NEW first \in FirstLines,
             LaunchMsg(priority, first)
      PROVE  UninterruptibleRespected'
    BY <1>1, <1>A, ShieldPush DEF LaunchMsg, Launch, INTERRUPTIBLE, Kinds
<1>2. ASSUME NEW t \in 1..Timers, NEW first \in FirstLines,
             LaunchTimer(t, first)
      PROVE  UninterruptibleRespected'
    <2>1. TimerPriority[t] \in Priorities
        BY ThreadsAssumption
    <2>2. t \in 0..Timers
        BY ThreadsAssumption
    <2> QED
        BY <1>2, <1>A, <2>1, <2>2, ShieldPush
        DEF LaunchTimer, Launch, TimersAllowed, INTERRUPTIBLE, Kinds
<1>3. ASSUME NEW kind \in ExitKinds, ExitApp(kind)
      PROVE  UninterruptibleRespected'
    <2>1. CASE TerminateApp
        BY <2>1 DEF TerminateApp, stack, UninterruptibleRespected, Depth
    <2>2. CASE ~TerminateApp
        BY <1>3, <1>A, <2>2, ShieldPush
        DEF ExitApp, EmergencyKinds, ExitKinds, Kinds
    <2> QED BY <2>1, <2>2
<1>4. ASSUME NEW first \in HostFirstLines, callFunc(first)
      PROVE  UninterruptibleRespected'
    BY <1>4, <1>A, ShieldPush DEF callFunc, Launch, EmergencyKinds, Kinds
<1>5. CASE FinishMsg \/ FinishTimer \/ FinishAutoExec \/ FinishExit
    <2>1. CASE TerminateApp
        BY <2>1 DEF TerminateApp, stack, UninterruptibleRespected, Depth
    <2>2. CASE ~TerminateApp
        BY <1>5, <2>2, ShieldPop
        DEF FinishMsg, FinishTimer, TimerReturns, FinishAutoExec, FinishExit,
            ResumeUnderlyingThread, TypeInv
    <2> QED BY <2>1, <2>2
<1>6. ASSUME NEW t \in 1..Timers, NEW first \in FirstLines,
             NextTimer(t, first)
      PROVE  UninterruptibleRespected'
    <2>1. Top.saved.AllowThreadToBeInterrupted
        BY <1>6, Swapped
        DEF UninterruptibleRespected, Depth, Top, EmergencyKinds, ExitKinds,
            TypeInv
    <2> QED
        BY <1>6, <2>1, Swapped DEF UninterruptibleRespected, Depth, TypeInv
<1>7. CASE CommandStep \/ PumpStep \/ UNCHANGED vars
    <2>1. UNCHANGED frames
        BY <1>7 DEF CommandStep, PumpStep, ChangePauseState, Critical,
            ThreadPriority, ThreadNoTimers, ThreadInterrupt,
            LineCountExceeded, OpenDialog, CloseDialog, EnterMainLoop,
            AutoExecSectionTimeout, UninterruptibleTimeout, WM_ENTERMENULOOP,
            WM_EXITMENULOOP, ExecuteLabel, FinishLabel, Rescheduled, stack,
            vars
    <2> QED BY <2>1 DEF UninterruptibleRespected, Depth
<1> QED
    BY <1>1, <1>2, <1>3, <1>4, <1>5, <1>6, <1>7
    DEF Next, LaunchStep, FinishStep

\* Only OnExit's thread and a host's call ever cover a thread that is
\* uninterruptible, whatever the settings, priorities and commands are.
THEOREM ShieldHolds == Spec => []UninterruptibleRespected
<1>1. Init => UninterruptibleRespected
    BY DEF Init, global_init, UninterruptibleRespected, Depth
<1>2. TypeInv /\ UninterruptibleRespected /\ [Next]_vars
        => TypeInv' /\ UninterruptibleRespected'
    BY TypeStep, ShieldStep
<1> QED BY <1>1, <1>2, InitType, PTL DEF Spec

-----------------------------------------------------------------------------
(* OnExit's thread *)

\* Interruption is forbidden for everyone exactly while the OnExit thread
\* exists, which is then on top, and that thread found it allowed: so that
\* putting it back as it was found allows it again.
ExitInv ==
    /\ g_AllowInterruption = ~sExitLabelIsRunning
    /\ \A i \in Depth : frames[i].kind \in ExitKinds =>
          i = Len(frames) /\ frames[i].allow
    /\ sExitLabelIsRunning <=> (frames # <<>> /\ Top.kind \in ExitKinds)

LEMMA ExitPush ==
    ASSUME TypeInv, ExitInv, g_AllowInterruption,
           NEW kind \in Kinds, NEW timer \in 0..Timers,
           Push(kind, timer),
           g_AllowInterruption' = ~sExitLabelIsRunning',
           sExitLabelIsRunning' <=> kind \in ExitKinds
    PROVE  ExitInv'
<1>1. /\ Len(frames) \in Nat /\ Len(frames') = Len(frames) + 1
      /\ \A i \in 1..Len(frames) : frames'[i] = frames[i]
      /\ frames'[Len(frames')].kind = kind
      /\ frames'[Len(frames')].allow = g_AllowInterruption
    BY Pushed
<1>2. ASSUME NEW i \in 1..Len(frames)
      PROVE  frames[i].kind \notin ExitKinds
    <2>1. frames # <<>>
        BY <1>1
    <2> QED BY <2>1 DEF ExitInv, Depth, Top
<1>3. frames' # <<>>
    BY <1>1
<1>4. ASSUME NEW i \in 1..Len(frames'), frames'[i].kind \in ExitKinds
      PROVE  i = Len(frames') /\ frames'[i].allow
    <2>1. i \notin 1..Len(frames)
        BY <1>1, <1>2, <1>4
    <2>2. i = Len(frames')
        BY <1>1, <2>1
    <2> QED BY <1>1, <2>2
<1> QED BY <1>1, <1>3, <1>4 DEF ExitInv, Depth, Top

LEMMA ExitPop ==
    ASSUME TypeOK, ExitInv, frames # <<>>, frames' = Rest,
           g_AllowInterruption' = ~sExitLabelIsRunning',
           ~sExitLabelIsRunning'
    PROVE  ExitInv'
<1>1. /\ Len(frames) \in Nat /\ Len(frames) >= 1
      /\ Len(frames') = Len(frames) - 1
      /\ \A i \in 1..Len(frames') : frames'[i] = frames[i]
    BY Popped
<1>2. ASSUME NEW i \in 1..Len(frames')
      PROVE  frames'[i].kind \notin ExitKinds
    <2>1. i \in 1..Len(frames) /\ i # Len(frames)
        BY <1>1
    <2>2. frames[i].kind \notin ExitKinds
        BY <2>1 DEF ExitInv, Depth
    <2> QED BY <1>1, <2>2
<1>3. frames' # <<>> => Len(frames') \in 1..Len(frames')
    <2>1. frames' \in Seq(Frame)
        BY StackRest
    <2> QED BY <2>1, EmptySeq
<1> QED BY <1>2, <1>3 DEF ExitInv, Depth, Top

LEMMA ExitStep == TypeInv /\ ExitInv /\ [Next]_vars => ExitInv'
<1> SUFFICES ASSUME TypeInv, ExitInv, [Next]_vars PROVE ExitInv'
    OBVIOUS
<1>A. Priorities \subseteq AllPriorities /\ 0 \in AllPriorities
      /\ 0 \in 0..Timers
    BY ThreadsAssumption DEF AllPriorities
<1>1. ASSUME NEW priority \in Priorities, NEW first \in FirstLines,
             LaunchMsg(priority, first)
      PROVE  ExitInv'
    BY <1>1, <1>A, ExitPush
    DEF LaunchMsg, Launch, INTERRUPTIBLE, INTERRUPTIBLE_IN_EMERGENCY, Kinds,
        ExitKinds, switches, ExitInv
<1>2. ASSUME NEW t \in 1..Timers, NEW first \in FirstLines,
             LaunchTimer(t, first)
      PROVE  ExitInv'
    <2>1. TimerPriority[t] \in Priorities
        BY ThreadsAssumption
    <2>2. t \in 0..Timers
        BY ThreadsAssumption
    <2> QED
        BY <1>2, <1>A, <2>1, <2>2, ExitPush
        DEF LaunchTimer, Launch, TimersAllowed, INTERRUPTIBLE,
            INTERRUPTIBLE_IN_EMERGENCY, Kinds, ExitKinds, switches, ExitInv
<1>3. ASSUME NEW kind \in ExitKinds, ExitApp(kind)
      PROVE  ExitInv'
    <2>1. CASE TerminateApp
        BY <2>1 DEF TerminateApp, stack, switches, ExitInv, Depth, Top
    <2>2. CASE ~TerminateApp
        <3>1. g_AllowInterruption
            BY <1>3, <2>2 DEF ExitApp, ExitInv
        <3> QED
            BY <1>3, <1>A, <2>2, <3>1, ExitPush DEF ExitApp, ExitKinds, Kinds
    <2> QED BY <2>1, <2>2
<1>4. ASSUME NEW first \in HostFirstLines, callFunc(first)
      PROVE  ExitInv'
    BY <1>4, <1>A, ExitPush
    DEF callFunc, Launch, INTERRUPTIBLE_IN_EMERGENCY, Kinds, ExitKinds,
        switches, ExitInv
<1>5. CASE FinishMsg \/ FinishTimer \/ FinishAutoExec
    <2>1. frames # <<>> /\ ~sExitLabelIsRunning
        BY <1>5 DEF FinishMsg, FinishTimer, TimerReturns, FinishAutoExec,
                    ExitInv, ExitKinds
    <2> QED
        BY <1>5, <2>1, ExitPop
        DEF FinishMsg, FinishTimer, FinishAutoExec, ResumeUnderlyingThread,
            switches, TypeInv, ExitInv
<1>6. CASE FinishExit
    <2>1. CASE TerminateApp
        BY <2>1 DEF TerminateApp, stack, switches, ExitInv, Depth, Top
    <2>2. CASE ~TerminateApp
        <3>1. frames # <<>> /\ Top.kind \in ExitKinds
            BY <1>6 DEF FinishExit
        <3>2. Top.allow
            BY <3>1, StackRest DEF ExitInv, Depth, Top, TypeInv
        <3> QED
            BY <1>6, <2>2, <3>1, <3>2, ExitPop
            DEF FinishExit, ResumeUnderlyingThread, TypeInv
    <2> QED BY <2>1, <2>2
<1>7. ASSUME NEW t \in 1..Timers, NEW first \in FirstLines,
             NextTimer(t, first)
      PROVE  ExitInv'
    <2>1. frames' # <<>>
        BY <1>7, Swapped, EmptySeq, TypeStep DEF TypeInv, TypeOK
    <2>2. UNCHANGED <<g_AllowInterruption, sExitLabelIsRunning>>
        BY <1>7 DEF NextTimer, switches
    <2> QED
        BY <1>7, <2>1, <2>2, Swapped
        DEF ExitInv, Depth, Top, ExitKinds, TypeInv
<1>8. CASE CommandStep \/ PumpStep \/ UNCHANGED vars
    <2>1. UNCHANGED <<frames, g_AllowInterruption, sExitLabelIsRunning>>
        BY <1>8 DEF CommandStep, PumpStep, ChangePauseState, Critical,
            ThreadPriority, ThreadNoTimers, ThreadInterrupt,
            LineCountExceeded, OpenDialog, CloseDialog, EnterMainLoop,
            AutoExecSectionTimeout, UninterruptibleTimeout, WM_ENTERMENULOOP,
            WM_EXITMENULOOP, ExecuteLabel, FinishLabel, Rescheduled, stack,
            switches, vars
    <2> QED BY <2>1 DEF ExitInv, Depth, Top
<1> QED
    BY <1>1, <1>2, <1>3, <1>4, <1>5, <1>6, <1>7, <1>8
    DEF Next, LaunchStep, FinishStep

LEMMA ExitInit == Init => ExitInv
<1> SUFFICES ASSUME Init PROVE ExitInv
    OBVIOUS
<1>1. frames = <<>> \/ (Len(frames) = 1 /\ frames[1].kind = "auto")
    BY DEF Init
<1>2. g_AllowInterruption = TRUE /\ sExitLabelIsRunning = FALSE
    BY DEF Init
<1>3. \A i \in Depth : frames[i].kind \notin ExitKinds
    BY <1>1 DEF Depth, ExitKinds
<1>4. frames = <<>> \/ Top.kind \notin ExitKinds
    BY <1>1 DEF Top, ExitKinds
<1> QED BY <1>2, <1>3, <1>4, Zenon DEF ExitInv

\* Nothing is launched above the OnExit thread, and the switch that forbids
\* it is on again once that thread has ended.
THEOREM ExitAlone == Spec => []ExitRunsAlone
<1>1. TypeInv /\ ExitInv /\ [Next]_vars => TypeInv' /\ ExitInv'
    BY TypeStep, ExitStep
<1>2. ExitInv => ExitRunsAlone
    BY DEF ExitInv, ExitRunsAlone
<1> QED BY <1>1, <1>2, InitType, ExitInit, PTL DEF Spec

-----------------------------------------------------------------------------
(* The uninterruptible timer *)

\* No struct but that of a thread whose shield some timer will end is
\* uninterruptible without being critical: not the defaults, not the idle
\* thread's.
Free(state) == state.AllowThreadToBeInterrupted \/ state.ThreadIsCritical
ShieldInv ==
    /\ NeverStranded
    /\ Free(g_default)
    /\ frames = <<>> => Free(g)
    /\ mUninterruptibleTime \in Nat

LEMMA NewThreadShield ==
    ASSUME TypeOK, ShieldInv, NEW priority, NEW skip \in BOOLEAN, NEW first,
           InitNewThread(priority, skip, first)
    PROVE  Free(g') \/ StartsTimer(skip, first)
<1> SUFFICES ASSUME ~Free(g') PROVE StartsTimer(skip, first)
    OBVIOUS
<1> DEFINE crit == StartsCritical(skip, first)
           shld == StartsShielded(skip, first)
<1>1. g' = [g_default EXCEPT
            !.UnderlyingThreadIsPaused = g.IsPaused,
            !.Priority = priority,
            !.ThreadIsCritical = @ \/ crit,
            !.AllowThreadToBeInterrupted = @ /\ ~shld]
    BY DEF InitNewThread
<1>2. crit \in BOOLEAN /\ shld \in BOOLEAN
    BY Zenon DEF StartsCritical, StartsShielded
<1> HIDE DEF crit, shld
<1>3. ~crit /\ shld
    BY <1>1, <1>2 DEF Free, ShieldInv, TypeOK, ThreadState
<1> USE DEF crit, shld
<1>4. mUninterruptibleTime # 0
    BY <1>3 DEF StartsShielded
<1>5. mUninterruptibleTime > 0
    BY <1>4 DEF ShieldInv
<1> QED BY <1>3, <1>5, Zenon DEF StartsTimer

LEMMA ResumedFree ==
    ASSUME TypeOK, frames # <<>>, NEW idle, ResumeUnderlyingThread(idle)
    PROVE  Free(g')
<1>1. Top.saved \in ThreadState
    BY StackRest DEF Frame
<1>2. Free(Resumed(Top.saved, g.UnderlyingThreadIsPaused))
    BY <1>1 DEF Free, Resumed, ThreadState
<1>3. Resumed(Top.saved, g.UnderlyingThreadIsPaused) \in ThreadState
    BY <1>1 DEF Resumed, ThreadState, TypeOK
<1>4. Free(AsIdle(Resumed(Top.saved, g.UnderlyingThreadIsPaused)))
    BY <1>3 DEF Free, AsIdle, ThreadState
<1> QED BY <1>2, <1>4 DEF ResumeUnderlyingThread

LEMMA UncriticalFree ==
    ASSUME NEW state \in ThreadState
    PROVE  /\ Free(Uncritical(state))
           /\ Free(global_clear_state(Uncritical(state)))
BY DEF Free, Uncritical, global_clear_state, ThreadState

LEMMA LaunchShield ==
    ASSUME TypeInv, ShieldInv, NEW kind \in Kinds,
           NEW priority \in AllPriorities, NEW timer \in 0..Timers, NEW first,
           Launch(kind, priority, timer, first),
           UNCHANGED <<g_default, settings>>
    PROVE  ShieldInv'
<1>1. Free(g') \/ StartsTimer(FALSE, first)
    BY NewThreadShield DEF Launch, TypeInv
<1>2. NeverStranded'
    BY <1>1, Zenon DEF Launch, NeverStranded, Free
<1>3. frames' # <<>>
    BY Pushed DEF Launch
<1> QED BY <1>2, <1>3 DEF ShieldInv, settings

LEMMA ShieldTimerStep ==
    ASSUME InterruptTimes \ {Blank} \subseteq Nat
    PROVE  TypeInv /\ ShieldInv /\ [Next]_vars => ShieldInv'
<1> SUFFICES ASSUME TypeInv, ShieldInv, [Next]_vars PROVE ShieldInv'
    OBVIOUS
<1>T. TypeInv'
    BY TypeStep
<1>A. Priorities \subseteq AllPriorities /\ 0 \in AllPriorities
      /\ 0 \in 0..Timers
    BY ThreadsAssumption DEF AllPriorities
<1>1. ASSUME NEW priority \in Priorities, NEW first \in FirstLines,
             LaunchMsg(priority, first)
      PROVE  ShieldInv'
    BY <1>1, <1>A, LaunchShield DEF LaunchMsg, Kinds
<1>2. ASSUME NEW t \in 1..Timers, NEW first \in FirstLines,
             LaunchTimer(t, first)
      PROVE  ShieldInv'
    <2>1. TimerPriority[t] \in Priorities
        BY ThreadsAssumption
    <2>2. t \in 0..Timers
        BY ThreadsAssumption
    <2> QED BY <1>2, <1>A, <2>1, <2>2, LaunchShield DEF LaunchTimer, Kinds
<1>3. ASSUME NEW kind \in ExitKinds, ExitApp(kind)
      PROVE  ShieldInv'
    <2>1. CASE TerminateApp
        BY <2>1 DEF TerminateApp, stack, settings, clocks, ShieldInv,
                    NeverStranded
    <2>2. CASE ~TerminateApp
        <3>1. Free(g')
            BY <1>3, <2>2, NewThreadShield, Zenon
            DEF ExitApp, TypeInv, StartsTimer, StartsShielded
        <3>2. frames' # <<>>
            <4>1. kind \in Kinds
                BY DEF ExitKinds, Kinds
            <4>2. Push(kind, 0)
                BY <1>3, <2>2 DEF ExitApp
            <4>3. Len(frames) \in Nat /\ Len(frames') = Len(frames) + 1
                BY <1>A, <4>1, <4>2, Pushed
            <4> QED BY <4>3, EmptySeq
        <3> QED
            BY <1>3, <2>2, <3>1, <3>2
            DEF ExitApp, ShieldInv, NeverStranded, Free, settings
    <2> QED BY <2>1, <2>2
<1>4. ASSUME NEW first \in HostFirstLines, callFunc(first)
      PROVE  ShieldInv'
    BY <1>4, <1>A, LaunchShield DEF callFunc, Kinds
<1>5. CASE FinishMsg \/ FinishTimer \/ FinishExit
    <2>1. CASE TerminateApp
        BY <2>1 DEF TerminateApp, stack, settings, clocks, ShieldInv,
                    NeverStranded
    <2>2. CASE ~TerminateApp
        <3>1. Free(g') /\ UNCHANGED <<g_default, settings>>
            BY <1>5, <2>2, ResumedFree, Zenon
            DEF FinishMsg, FinishTimer, TimerReturns, FinishExit, TypeInv
        <3> QED BY <3>1 DEF ShieldInv, NeverStranded, Free, settings
    <2> QED BY <2>1, <2>2
<1>6. CASE FinishAutoExec
    <2>1. Free(g')
        BY <1>6, UncriticalFree DEF FinishAutoExec, TypeInv, TypeOK
    <2> QED BY <1>6, <2>1 DEF FinishAutoExec, ShieldInv, NeverStranded, Free,
                              settings
<1>7. ASSUME NEW t \in 1..Timers, NEW first \in FirstLines,
             NextTimer(t, first)
      PROVE  ShieldInv'
    <2>1. Free(g') \/ StartsTimer(FALSE, first)
        BY <1>7, NewThreadShield DEF NextTimer, TypeInv
    <2>2. NeverStranded'
        BY <1>7, <2>1, Zenon DEF NextTimer, NeverStranded, Free
    <2>3. frames' # <<>>
        BY <1>7, Swapped, EmptySeq DEF TypeInv
    <2> QED BY <1>7, <2>2, <2>3 DEF NextTimer, ShieldInv, settings
<1>8. CASE \E mode \in {"on", "off", "toggle"}, underlying \in BOOLEAN :
             ChangePauseState(mode, underlying)
    <2>1. Free(g') <=> Free(g)
        BY <1>8 DEF ChangePauseState, TypeInv, TypeOK, ThreadState, Free
    <2> QED
        BY <1>8, <2>1
        DEF ChangePauseState, Rescheduled, clocks, settings, stack, ShieldInv,
            NeverStranded, Free
<1>9. CASE (\E on \in BOOLEAN : Critical(on)) \/ LineCountExceeded
           \/ (\E thread_was_critical \in BOOLEAN :
                  CloseDialog(thread_was_critical))
           \/ UninterruptibleTimeout
    <2>1. Free(g')
        BY <1>9, UncriticalFree
        DEF Critical, LineCountExceeded, CloseDialog, UninterruptibleTimeout,
            TypeInv, TypeOK, ThreadState, Free
    <2> QED
        BY <1>9, <2>1
        DEF Critical, LineCountExceeded, CloseDialog, UninterruptibleTimeout,
            Rescheduled, settings, ShieldInv, NeverStranded, Free
<1>10. CASE (\E priority \in Priorities : ThreadPriority(priority))
            \/ (\E off \in BOOLEAN : ThreadNoTimers(off))
    <2>1. Free(g') <=> Free(g)
        BY <1>10 DEF ThreadPriority, ThreadNoTimers, TypeInv, TypeOK,
                     ThreadState, Free
    <2> QED
        BY <1>10, <2>1
        DEF ThreadPriority, ThreadNoTimers, Rescheduled, clocks, settings,
            stack, ShieldInv, NeverStranded, Free
<1>11. ASSUME NEW time \in InterruptTimes, NEW lines \in InterruptLines,
              ThreadInterrupt(time, lines)
       PROVE  ShieldInv'
    <2>1. mUninterruptibleTime' \in Nat
        BY <1>11 DEF ThreadInterrupt
    <2> QED
        BY <1>11, <2>1
        DEF ThreadInterrupt, Rescheduled, clocks, stack, ShieldInv,
            NeverStranded
<1>12. CASE EnterMainLoop
    <2>1. Free(g) /\ g \in ThreadState
        BY <1>12 DEF EnterMainLoop, ShieldInv, TypeInv, TypeOK
    <2>2. Free(global_clear_state(g)) /\ global_clear_state(g) \in ThreadState
        BY <2>1 DEF Free, global_clear_state, ThreadState
    <2>3. Free(AsIdle(global_clear_state(g)))
        BY <2>2 DEF Free, AsIdle, ThreadState
    <2> QED
        BY <1>12, <2>2, <2>3
        DEF EnterMainLoop, settings, ShieldInv, NeverStranded, Free
<1>13. CASE AutoExecSectionTimeout
    <2>1. Free(g') /\ Free(g_default')
        BY <1>13, UncriticalFree
        DEF AutoExecSectionTimeout, ShieldInv, TypeInv, TypeOK
    <2> QED
        BY <1>13, <2>1
        DEF AutoExecSectionTimeout, settings, ShieldInv, NeverStranded, Free
<1>14. CASE (\E error \in BOOLEAN : OpenDialog(error)) \/ WM_ENTERMENULOOP
            \/ WM_EXITMENULOOP \/ ExecuteLabel \/ FinishLabel
            \/ UNCHANGED vars
    BY <1>14 DEF OpenDialog, WM_ENTERMENULOOP, WM_EXITMENULOOP, ExecuteLabel,
                 FinishLabel, vars, stack, clocks, settings, ShieldInv,
                 NeverStranded
<1> QED
    BY <1>1, <1>2, <1>3, <1>4, <1>5, <1>6, <1>7, <1>8, <1>9, <1>10, <1>11,
       <1>12, <1>13, <1>14
    DEF Next, LaunchStep, FinishStep, CommandStep, PumpStep

\* As long as no script asks for a negative uninterruptible time, a thread
\* that is uninterruptible without being critical has a timer that ends it.
THEOREM NotStranded ==
    ASSUME InterruptTimes \ {Blank} \subseteq Nat
    PROVE  Spec => []NeverStranded
<1>1. Init => ShieldInv
    <2> SUFFICES ASSUME Init PROVE ShieldInv
        OBVIOUS
    <2>1. mUninterruptibleTime \in Nat
        BY DEF Init
    <2>2. Free(g_default) /\ (frames = <<>> => Free(g))
        BY DEF Init, global_init, Free
    <2>3. NeverStranded
        BY DEF Init, global_init, NeverStranded
    <2> QED BY <2>1, <2>2, <2>3 DEF ShieldInv
<1>2. TypeInv /\ ShieldInv /\ [Next]_vars => TypeInv' /\ ShieldInv'
    BY TypeStep, ShieldTimerStep
<1>3. ShieldInv => NeverStranded
    BY DEF ShieldInv
<1> QED BY <1>1, <1>2, <1>3, InitType, PTL DEF Spec

-----------------------------------------------------------------------------
(* One thread per timer *)

\* Only timers' threads carry a timer, no two carry the same one, and
\* mExistingThreads says for each timer whether a thread carries it.
TimerInv ==
    /\ \A i \in Depth : frames[i].kind = "timer" <=> frames[i].timer # 0
    /\ \A i, j \in Depth :
          frames[i].timer = frames[j].timer /\ frames[i].timer # 0 => i = j
    /\ \A t \in 1..Timers :
          mExistingThreads[t] = IF \E i \in Depth : frames[i].timer = t
                                THEN 1 ELSE 0

\* The launch of a thread that is not a timer's changes nothing.
LEMMA TimerPush ==
    ASSUME TypeInv, TimerInv, NEW kind \in Kinds,
           Push(kind, 0),
           kind # "timer", UNCHANGED mExistingThreads
    PROVE  TimerInv'
<1>1. 0 \in 0..Timers
    BY ThreadsAssumption
<1>2. /\ Len(frames) \in Nat /\ Len(frames') = Len(frames) + 1
      /\ \A i \in 1..Len(frames) : frames'[i] = frames[i]
      /\ frames'[Len(frames')].kind = kind
      /\ frames'[Len(frames')].timer = 0
    BY <1>1, Pushed
<1>3. \A i \in Depth' : i \in Depth \/ i = Len(frames')
    BY <1>2 DEF Depth
<1>4. \A i \in Depth' : frames'[i].kind = "timer" <=> frames'[i].timer # 0
    BY <1>2, <1>3 DEF TimerInv, Depth
<1>5. \A i, j \in Depth' :
        frames'[i].timer = frames'[j].timer /\ frames'[i].timer # 0 => i = j
    BY <1>2, <1>3 DEF TimerInv, Depth
<1>6. ASSUME NEW t \in 1..Timers
      PROVE  (\E i \in Depth' : frames'[i].timer = t)
                <=> (\E i \in Depth : frames[i].timer = t)
    BY <1>2, <1>3 DEF Depth
<1> QED BY <1>4, <1>5, <1>6 DEF TimerInv

\* A return to a launcher changes nothing, but for the timer that ends.
LEMMA TimerPop ==
    ASSUME TypeInv, TimerInv, frames # <<>>, frames' = Rest,
           mExistingThreads' = IF Top.kind = "timer"
                               THEN [mExistingThreads EXCEPT ![Top.timer] = @ - 1]
                               ELSE mExistingThreads
    PROVE  TimerInv'
<1>1. /\ Len(frames) \in Nat /\ Len(frames) >= 1
      /\ Len(frames') = Len(frames) - 1
      /\ \A i \in 1..Len(frames') : frames'[i] = frames[i]
    BY Popped DEF TypeInv
<1>2. \A i \in Depth : i \in Depth' \/ i = Len(frames)
    BY <1>1 DEF Depth
<1>3. \A i \in Depth' : i \in Depth /\ i # Len(frames)
    BY <1>1 DEF Depth
<1>4. \A i \in Depth' : frames'[i].kind = "timer" <=> frames'[i].timer # 0
    BY <1>1, <1>3 DEF TimerInv, Depth
<1>5. \A i, j \in Depth' :
        frames'[i].timer = frames'[j].timer /\ frames'[i].timer # 0 => i = j
    BY <1>1, <1>3 DEF TimerInv, Depth
<1>6. ASSUME NEW t \in 1..Timers
      PROVE  mExistingThreads'[t] =
                IF \E i \in Depth' : frames'[i].timer = t THEN 1 ELSE 0
    <2>0. Len(frames) \in Depth
        BY <1>1 DEF Depth
    <2>1. CASE Top.timer = t
        <3>1. Top.kind = "timer"
            BY <2>0, <2>1 DEF Top, TimerInv
        <3>2. mExistingThreads[t] = 1
            BY <2>0, <2>1 DEF Top, TimerInv
        <3>3. mExistingThreads'[t] = 0
            BY <2>1, <3>1, <3>2 DEF TypeInv, TypeOK
        <3>4. ASSUME NEW i \in Depth', frames'[i].timer = t
              PROVE  FALSE
            <4>1. i \in Depth /\ i # Len(frames) /\ frames'[i] = frames[i]
                BY <1>1, <1>3 DEF Depth
            <4>2. frames[i].timer = frames[Len(frames)].timer
                  /\ frames[i].timer # 0
                BY <2>1, <3>4, <4>1 DEF Top
            <4> QED BY <2>0, <4>1, <4>2 DEF TimerInv
        <3> QED BY <3>3, <3>4
    <2>2. CASE Top.timer # t
        <3>1. mExistingThreads'[t] = mExistingThreads[t]
            BY <2>2 DEF TypeInv, TypeOK
        <3>2. (\E i \in Depth' : frames'[i].timer = t)
                <=> (\E i \in Depth : frames[i].timer = t)
            <4>1. \A i \in Depth' : frames'[i] = frames[i]
                BY <1>1 DEF Depth
            <4>2. \A i \in Depth : frames[i].timer = t => i \in Depth'
                BY <1>2, <2>2 DEF Top
            <4> QED BY <1>3, <4>1, <4>2
        <3> QED BY <3>1, <3>2 DEF TimerInv
    <2> QED BY <2>1, <2>2
<1> QED BY <1>4, <1>5, <1>6 DEF TimerInv

\* A launch by CheckScriptTimers, whose timer has no thread yet.
LEMMA TimerLaunch ==
    ASSUME TypeInv, TimerInv, NEW t \in 1..Timers, NEW first,
           LaunchTimer(t, first)
    PROVE  TimerInv'
<1>1. /\ Len(frames) \in Nat /\ Len(frames') = Len(frames) + 1
      /\ \A i \in 1..Len(frames) : frames'[i] = frames[i]
      /\ frames'[Len(frames')].kind = "timer"
      /\ frames'[Len(frames')].timer = t
    <2>1. TimerPriority[t] \in AllPriorities
        BY ThreadsAssumption DEF AllPriorities
    <2>2. t \in 0..Timers /\ "timer" \in Kinds
        BY ThreadsAssumption DEF Kinds
    <2>3. Push("timer", t)
        BY DEF LaunchTimer, Launch
    <2> QED BY <2>1, <2>2, <2>3, Pushed
<1>2. \A i \in Depth' : i \in Depth \/ i = Len(frames')
    BY <1>1 DEF Depth
<1>3. Len(frames') \in Depth' /\ t # 0
    BY <1>1 DEF Depth
<1>4. mExistingThreads[t] < 1 /\ mExistingThreads[t] = 0
      /\ \A i \in Depth : frames[i].timer # t
    BY DEF LaunchTimer, Eligible, TimerInv
<1>5. mExistingThreads' = [mExistingThreads EXCEPT ![t] = @ + 1]
    BY DEF LaunchTimer
<1>6. \A i \in Depth' : frames'[i].kind = "timer" <=> frames'[i].timer # 0
    BY <1>1, <1>2, <1>3 DEF TimerInv, Depth
<1>7. \A i, j \in Depth' :
        frames'[i].timer = frames'[j].timer /\ frames'[i].timer # 0 => i = j
    BY <1>1, <1>2, <1>4 DEF TimerInv, Depth
<1>8. ASSUME NEW u \in 1..Timers
      PROVE  mExistingThreads'[u] =
                IF \E i \in Depth' : frames'[i].timer = u THEN 1 ELSE 0
    <2>1. CASE u = t
        BY <1>1, <1>3, <1>4, <1>5, <2>1 DEF TypeInv, TypeOK
    <2>2. CASE u # t
        <3>1. mExistingThreads'[u] = mExistingThreads[u]
            BY <1>5, <2>2 DEF TypeInv, TypeOK
        <3>2. (\E i \in Depth' : frames'[i].timer = u)
                <=> (\E i \in Depth : frames[i].timer = u)
            BY <1>1, <1>2, <2>2 DEF Depth
        <3> QED BY <3>1, <3>2 DEF TimerInv
    <2> QED BY <2>1, <2>2
<1> QED BY <1>6, <1>7, <1>8 DEF TimerInv

\* The loop goes on to a timer that has no thread, in the place of the
\* finished one.
LEMMA TimerSwap ==
    ASSUME TypeInv, TimerInv, NEW t \in 1..Timers, NEW first,
           NextTimer(t, first)
    PROVE  TimerInv'
<1> DEFINE n == Len(frames)
           old == Top.timer
<1>1. /\ n \in Nat /\ n >= 1 /\ Len(frames') = n
      /\ \A i \in 1..(n - 1) : frames'[i] = frames[i]
      /\ frames'[n].kind = "timer" /\ frames'[n].timer = t
      /\ Top.kind = "timer"
    BY Swapped DEF TypeInv
<1>2. Depth' = Depth /\ n \in Depth
    BY <1>1 DEF Depth
<1>3. \A i \in Depth : i # n => frames'[i] = frames[i]
    BY <1>1 DEF Depth
<1>4. old = frames[n].timer /\ old # 0 /\ old # t
    BY <1>1, <1>2 DEF Top, TimerInv, NextTimer
<1>5. mExistingThreads[t] = 0 /\ \A i \in Depth : frames[i].timer # t
    BY DEF NextTimer, Eligible, TimerInv
<1>6. mExistingThreads' = [mExistingThreads EXCEPT ![old] = @ - 1, ![t] = @ + 1]
    BY DEF NextTimer
<1> HIDE DEF n, old
<1>7. \A i \in Depth' : frames'[i].kind = "timer" <=> frames'[i].timer # 0
    BY <1>1, <1>2, <1>3 DEF TimerInv
<1>8. \A i, j \in Depth' :
        frames'[i].timer = frames'[j].timer /\ frames'[i].timer # 0 => i = j
    BY <1>1, <1>2, <1>3, <1>5 DEF TimerInv
<1>9. ASSUME NEW u \in 1..Timers
      PROVE  mExistingThreads'[u] =
                IF \E i \in Depth' : frames'[i].timer = u THEN 1 ELSE 0
    <2>1. CASE u = t
        BY <1>1, <1>2, <1>4, <1>5, <1>6, <2>1 DEF TypeInv, TypeOK
    <2>2. CASE u = old
        <3>1. mExistingThreads[u] = 1
            BY <1>2, <1>4, <2>2 DEF TimerInv
        <3>2. mExistingThreads'[u] = 0
            BY <1>4, <1>6, <2>2, <3>1 DEF TypeInv, TypeOK
        <3>3. ASSUME NEW i \in Depth, frames'[i].timer = u
              PROVE  FALSE
            <4>1. i # n
                BY <1>1, <1>4, <2>2, <3>3
            <4>2. frames[i].timer = frames[n].timer /\ frames[i].timer # 0
                BY <1>3, <1>4, <2>2, <3>3, <4>1
            <4> QED BY <1>2, <4>1, <4>2 DEF TimerInv
        <3> QED BY <1>2, <3>2, <3>3
    <2>3. CASE u # t /\ u # old
        <3>1. mExistingThreads'[u] = mExistingThreads[u]
            BY <1>6, <2>3 DEF TypeInv, TypeOK
        <3>2. (\E i \in Depth' : frames'[i].timer = u)
                <=> (\E i \in Depth : frames[i].timer = u)
            BY <1>1, <1>2, <1>3, <1>4, <2>3
        <3> QED BY <3>1, <3>2 DEF TimerInv
    <2> QED BY <2>1, <2>2, <2>3
<1> QED BY <1>7, <1>8, <1>9 DEF TimerInv

LEMMA TimerStep == TypeInv /\ TimerInv /\ [Next]_vars => TimerInv'
<1> SUFFICES ASSUME TypeInv, TimerInv, [Next]_vars PROVE TimerInv'
    OBVIOUS
<1>A. Priorities \subseteq AllPriorities /\ 0 \in AllPriorities
    BY ThreadsAssumption DEF AllPriorities
<1>1. ASSUME NEW priority \in Priorities, NEW first \in FirstLines,
             LaunchMsg(priority, first)
      PROVE  TimerInv'
    BY <1>1, <1>A, TimerPush DEF LaunchMsg, Launch, Kinds
<1>2. ASSUME NEW kind \in ExitKinds, ExitApp(kind)
      PROVE  TimerInv'
    <2>1. CASE TerminateApp
        BY <2>1 DEF TerminateApp, stack, TimerInv, Depth
    <2>2. CASE ~TerminateApp
        BY <1>2, <1>A, <2>2, TimerPush DEF ExitApp, ExitKinds, Kinds
    <2> QED BY <2>1, <2>2
<1>3. ASSUME NEW first \in HostFirstLines, callFunc(first)
      PROVE  TimerInv'
    BY <1>3, <1>A, TimerPush DEF callFunc, Launch, Kinds
<1>4. CASE FinishMsg \/ FinishAutoExec \/ FinishExit
    <2>1. CASE TerminateApp
        BY <2>1 DEF TerminateApp, stack, TimerInv, Depth
    <2>2. CASE ~TerminateApp
        BY <1>4, <2>2, TimerPop
        DEF FinishMsg, FinishAutoExec, FinishExit, ResumeUnderlyingThread,
            ExitKinds
    <2> QED BY <2>1, <2>2
<1>5. CASE FinishTimer
    BY <1>5, TimerPop DEF FinishTimer, TimerReturns, ResumeUnderlyingThread
<1>6. CASE CommandStep \/ PumpStep \/ UNCHANGED vars
    <2>1. UNCHANGED <<frames, mExistingThreads>>
        BY <1>6 DEF CommandStep, PumpStep, ChangePauseState, Critical,
            ThreadPriority, ThreadNoTimers, ThreadInterrupt,
            LineCountExceeded, OpenDialog, CloseDialog, EnterMainLoop,
            AutoExecSectionTimeout, UninterruptibleTimeout, WM_ENTERMENULOOP,
            WM_EXITMENULOOP, ExecuteLabel, FinishLabel, Rescheduled, stack,
            vars
    <2> QED BY <2>1 DEF TimerInv, Depth
<1> QED
    BY <1>1, <1>2, <1>3, <1>4, <1>5, <1>6, TimerLaunch, TimerSwap
    DEF Next, LaunchStep, FinishStep

LEMMA TimerInit == Init => TimerInv
<1> SUFFICES ASSUME Init PROVE TimerInv
    OBVIOUS
<1>1. frames = <<>> \/ (Len(frames) = 1 /\ frames[1].kind = "auto"
                                       /\ frames[1].timer = 0)
    BY DEF Init
<1>2. \A i \in Depth : frames[i].kind # "timer" /\ frames[i].timer = 0
    BY <1>1 DEF Depth
<1>3. \A t \in 1..Timers : mExistingThreads[t] = 0 /\ t # 0
    BY DEF Init
<1> QED BY <1>2, <1>3 DEF TimerInv

\* A timer never has two threads, and its counter is exact, however often
\* CheckScriptTimers is entered again from the threads it runs.
THEOREM TimerOnce == Spec => []TimerNotReentered
<1>1. TypeInv /\ TimerInv /\ [Next]_vars => TypeInv' /\ TimerInv'
    BY TypeStep, TimerStep
<1>2. TimerInv => TimerNotReentered
    <2> SUFFICES ASSUME TimerInv, NEW t \in 1..Timers
                 PROVE  /\ mExistingThreads[t] =
                            Cardinality({i \in Depth : frames[i].timer = t})
                        /\ mExistingThreads[t] <= 1
        BY DEF TimerNotReentered
    <2> DEFINE S == {i \in Depth : frames[i].timer = t}
    <2>1. CASE S = {}
        <3>1. mExistingThreads[t] = 0
            BY <2>1 DEF TimerInv
        <3> QED BY <2>1, <3>1, FS_EmptySet
    <2>2. CASE S # {}
        <3>1. PICK i \in Depth : frames[i].timer = t
            BY <2>2
        <3>2. mExistingThreads[t] = 1
            BY <3>1 DEF TimerInv
        <3>3. S = {i}
            BY <3>1 DEF TimerInv
        <3>4. Cardinality({i}) = 1
            BY FS_Singleton
        <3> QED BY <3>2, <3>3, <3>4
    <2> QED BY <2>1, <2>2
<1> QED BY <1>1, <1>2, InitType, TimerInit, PTL DEF Spec

-------------------------------------------------------------------------------
(***************************************************************************)
(* Theorems about what threads do to each other: pausing, the limit on     *)
(* their number and the idle thread they return to.  Each is for every     *)
(* number of threads, timers and priorities; the hypotheses of those that  *)
(* do not hold of every script say which scripts they are about.           *)
(***************************************************************************)

-----------------------------------------------------------------------------
(* The threads that are paused *)

PausedThreads == {i \in Depth : PausedAt(i)}

\* What the count makes up for: an idle thread that was paused by a host's
\* label run counts as a paused thread and is not known to g_IdleIsPaused.
PauseBound ==
    g_nPausedThreads >= Cardinality(PausedThreads)
                          + (IF PausedAt(0) /\ ~g_IdleIsPaused THEN 1 ELSE 0)

\* New threads start unpaused, and the auto-execute section's thread, which
\* ends without resuming anything, lies at the bottom.
BottomInv ==
    /\ ~g_default.IsPaused
    /\ \A i \in Depth : frames[i].kind = "auto" => i = 1

LEMMA PausedType ==
    ASSUME TypeInv
    PROVE  /\ Len(frames) \in Nat
           /\ IsFiniteSet(PausedThreads)
           /\ Cardinality(PausedThreads) \in Nat
           /\ \A i \in 0..Len(frames) : PausedAt(i) \in BOOLEAN
           /\ \A i \in Depth : frames[i] \in Frame
<1>1. frames \in Seq(Frame) /\ Len(frames) \in Nat
    BY DEF TypeInv, TypeOK
<1>2. IsFiniteSet(1..Len(frames))
    BY <1>1, FS_Interval
<1>3. PausedThreads \subseteq 1..Len(frames)
    BY DEF PausedThreads, Depth
<1>4. IsFiniteSet(PausedThreads) /\ Cardinality(PausedThreads) \in Nat
    BY <1>2, <1>3, FS_Subset, FS_CardinalityType
<1>5. \A i \in Depth : frames[i] \in Frame
    BY <1>1, ElementOfSeq DEF Depth
<1>6. ASSUME NEW i \in 0..Len(frames)
      PROVE  PausedAt(i) \in BOOLEAN
    <2>1. CASE i = Len(frames)
        BY <2>1 DEF PausedAt, TypeInv, TypeOK, ThreadState
    <2>2. CASE i # Len(frames)
        <3>1. frames[i + 1].saved \in ThreadState
            BY <1>1, <1>5, <2>2 DEF Depth, Frame
        <3> QED BY <2>2, <3>1 DEF PausedAt, ThreadState
    <2> QED BY <2>1, <2>2
<1> QED BY <1>1, <1>4, <1>5, <1>6

LEMMA NewUnpaused ==
    ASSUME TypeOK, ~g_default.IsPaused, NEW priority, NEW skip, NEW first,
           InitNewThread(priority, skip, first)
    PROVE  ~g'.IsPaused /\ g'.UnderlyingThreadIsPaused = g.IsPaused
<1> DEFINE crit == StartsCritical(skip, first)
           shld == StartsShielded(skip, first)
<1> HIDE DEF crit, shld
<1>1. g' = [g_default EXCEPT
            !.UnderlyingThreadIsPaused = g.IsPaused,
            !.Priority = priority,
            !.ThreadIsCritical = @ \/ crit,
            !.AllowThreadToBeInterrupted = @ /\ ~shld]
    BY DEF InitNewThread, crit, shld
<1> QED BY <1>1 DEF TypeOK, ThreadState

\* A launch pauses nothing and unpauses nothing.
LEMMA PausedPush ==
    ASSUME TypeInv, NEW kind \in Kinds, NEW timer \in 0..Timers,
           Push(kind, timer), ~g'.IsPaused
    PROVE  /\ PausedThreads' = PausedThreads
           /\ PausedAt(0)' = PausedAt(0)
           /\ UNCHANGED <<g_nPausedThreads, g_IdleIsPaused>>
<1>1. /\ Len(frames) \in Nat /\ Len(frames') = Len(frames) + 1
      /\ \A i \in 1..Len(frames) : frames'[i] = frames[i]
      /\ frames'[Len(frames')].saved = g
    BY Pushed
<1>2. ASSUME NEW i \in 0..Len(frames)
      PROVE  PausedAt(i)' = PausedAt(i)
    <2>1. i # Len(frames') /\ PausedAt(i)' = frames'[i + 1].saved.IsPaused
        BY <1>1 DEF PausedAt
    <2>2. CASE i = Len(frames)
        BY <1>1, <2>1, <2>2 DEF PausedAt
    <2>3. CASE i # Len(frames)
        BY <1>1, <2>1, <2>3 DEF PausedAt
    <2> QED BY <2>2, <2>3
<1>3. ASSUME NEW i, i = Len(frames') PROVE ~PausedAt(i)'
    BY <1>3 DEF PausedAt
<1>4. Depth' = Depth \cup {Len(frames')} /\ Depth \subseteq 0..Len(frames)
    BY <1>1 DEF Depth
<1>5. PausedThreads' = PausedThreads
    BY <1>2, <1>3, <1>4 DEF PausedThreads
<1>6. 0 \in 0..Len(frames)
    BY <1>1
<1> QED BY <1>2, <1>5, <1>6 DEF Push

\* What ResumeUnderlyingThread does to the pause states, and that the count
\* follows it, the thread that ends left aside.
LEMMA PausedPop ==
    ASSUME TypeInv, frames # <<>>, NEW idle, ResumeUnderlyingThread(idle)
    PROVE  /\ Len(frames) = 1 =>
                /\ PausedThreads' = {}
                /\ PausedAt(0)' = g.UnderlyingThreadIsPaused
                /\ g_nPausedThreads' = g_nPausedThreads
                /\ g_IdleIsPaused' =
                      IF PausedAt(0) # g.UnderlyingThreadIsPaused
                      THEN g.UnderlyingThreadIsPaused ELSE g_IdleIsPaused
           /\ Len(frames) # 1 =>
                /\ PausedAt(0)' = PausedAt(0)
                /\ g_IdleIsPaused' = g_IdleIsPaused
                /\ g_nPausedThreads' - g_nPausedThreads
                     = Cardinality(PausedThreads')
                         - Cardinality(PausedThreads \ {Len(frames)})
<1> DEFINE n == Len(frames)
           mark == g.UnderlyingThreadIsPaused
           saved == Top.saved
<1>1. /\ n \in Nat /\ n >= 1 /\ Len(frames') = n - 1
      /\ \A i \in 1..(n - 1) : frames'[i] = frames[i]
    BY Popped DEF ResumeUnderlyingThread, TypeInv
<1>2. mark \in BOOLEAN /\ saved \in ThreadState /\ saved.IsPaused \in BOOLEAN
    BY StackRest DEF TypeInv, TypeOK, ThreadState, Frame
<1>3. g'.IsPaused = mark
    <2>1. Resumed(saved, mark) \in ThreadState
        BY <1>2 DEF Resumed, ThreadState
    <2>2. Resumed(saved, mark).IsPaused = mark
        BY <1>2 DEF Resumed, ThreadState
    <2>3. AsIdle(Resumed(saved, mark)).IsPaused = mark
        BY <2>1, <2>2 DEF AsIdle, ThreadState
    <2> QED BY <2>2, <2>3 DEF ResumeUnderlyingThread
<1>4. ASSUME NEW i, i = n - 1
      PROVE  PausedAt(i) = saved.IsPaused /\ PausedAt(i)' = mark
    BY <1>1, <1>3, <1>4 DEF PausedAt, Top
<1>5. ASSUME NEW i \in 0..(n - 2)
      PROVE  PausedAt(i)' = PausedAt(i)
    BY <1>1 DEF PausedAt
<1>6. g_nThreads - 1 = n - 1 /\ g_nThreads - 1 = Len(frames')
    BY <1>1 DEF TypeInv, ThreadCount
<1>7. CASE n = 1
    <2>1. PausedThreads' = {}
        BY <1>1, <1>7 DEF PausedThreads, Depth
    <2> QED
        BY <1>4, <1>6, <1>7, <2>1 DEF ResumeUnderlyingThread, PausedCountAfter
<1>8. CASE n # 1
    <2> DEFINE A == PausedThreads \ {n, n - 1}
               B == PausedThreads \ {n}
    <2>1. PausedThreads' = IF mark THEN A \cup {n - 1} ELSE A
        BY <1>1, <1>4, <1>5, <1>8 DEF PausedThreads, Depth
    <2>2. B = IF saved.IsPaused THEN A \cup {n - 1} ELSE A
        BY <1>1, <1>4, <1>8 DEF PausedThreads, Depth
    <2>3. IsFiniteSet(A) /\ n - 1 \notin A
        BY PausedType, FS_Subset
    <2>4. Cardinality(A) \in Nat
          /\ Cardinality(A \cup {n - 1}) = Cardinality(A) + 1
        BY <2>3, FS_AddElement, FS_CardinalityType
    <2>5. g_nPausedThreads \in Int
        BY DEF TypeInv, TypeOK
    <2>6. g_nPausedThreads' = IF saved.IsPaused # mark
                              THEN g_nPausedThreads + (IF mark THEN 1 ELSE -1)
                              ELSE g_nPausedThreads
        BY <1>1, <1>6, <1>8 DEF ResumeUnderlyingThread, PausedCountAfter
    <2>7. g_IdleIsPaused' = g_IdleIsPaused
        BY <1>1, <1>6, <1>8 DEF ResumeUnderlyingThread
    <2>8. PausedAt(0)' = PausedAt(0)
        BY <1>1, <1>5, <1>8
    <2> HIDE DEF A, B
    <2>9. g_nPausedThreads' - g_nPausedThreads
             = Cardinality(PausedThreads') - Cardinality(B)
        BY <1>2, <2>1, <2>2, <2>4, <2>5, <2>6
    <2> QED BY <1>8, <2>7, <2>8, <2>9 DEF B
<1> QED BY <1>7, <1>8

-----------------------------------------------------------------------------
(* What a step can be, as far as pausing goes *)

\* A thread is launched on top of the running one.
Launching ==
    \E kind \in Kinds \ {"auto"}, timer \in 0..Timers,
       priority \in AllPriorities, skip \in BOOLEAN, first \in AllFirstLines :
          /\ Push(kind, timer) /\ InitNewThread(priority, skip, first)
          /\ kind = "timer" => TimersAllowed
          /\ UNCHANGED g_default

\* A thread ends and the one beneath it goes on.
Ending ==
    \E idle \in BOOLEAN :
          /\ frames # <<>> /\ Top.kind # "auto" /\ Returning
          /\ ResumeUnderlyingThread(idle)
          /\ UNCHANGED g_default

\* The stack and every pause state stay as they are.
Quiet ==
    /\ UNCHANGED <<frames, counters>>
    /\ g'.IsPaused = g.IsPaused
    /\ g_default'.IsPaused => g_default.IsPaused

LEMMA CommandCases ==
    ASSUME TypeInv, CommandStep
    PROVE  \/ \E mode \in {"on", "off", "toggle"}, underlying \in BOOLEAN :
                ChangePauseState(mode, underlying)
           \/ Quiet
<1> USE DEF TypeInv, TypeOK, ThreadState, Quiet, counters
<1>1. ASSUME NEW on \in BOOLEAN, Critical(on)
      PROVE  Quiet
    BY <1>1 DEF Critical, Rescheduled, stack
<1>2. ASSUME NEW priority \in Priorities, ThreadPriority(priority)
      PROVE  Quiet
    BY <1>2 DEF ThreadPriority, Rescheduled, stack
<1>3. ASSUME NEW off \in BOOLEAN, ThreadNoTimers(off)
      PROVE  Quiet
    BY <1>3 DEF ThreadNoTimers, Rescheduled, stack
<1>4. ASSUME NEW time \in InterruptTimes, NEW lines \in InterruptLines,
             ThreadInterrupt(time, lines)
      PROVE  Quiet
    BY <1>4 DEF ThreadInterrupt, Rescheduled, stack
<1>5. CASE LineCountExceeded
    BY <1>5 DEF LineCountExceeded, Rescheduled, stack
<1>6. ASSUME NEW error \in BOOLEAN, OpenDialog(error)
      PROVE  Quiet
    BY <1>6 DEF OpenDialog
<1>7. ASSUME NEW thread_was_critical \in BOOLEAN,
             CloseDialog(thread_was_critical)
      PROVE  Quiet
    BY <1>7 DEF CloseDialog
<1> QED
    BY <1>1, <1>2, <1>3, <1>4, <1>5, <1>6, <1>7, Zenon DEF CommandStep

LEMMA PumpCases ==
    ASSUME TypeInv, PumpStep
    PROVE  EnterMainLoop \/ Quiet
<1> USE DEF TypeInv, TypeOK, ThreadState, Quiet, counters, stack
<1>1. CASE AutoExecSectionTimeout
    BY <1>1 DEF AutoExecSectionTimeout, Uncritical, global_clear_state
<1>2. CASE UninterruptibleTimeout
    BY <1>2 DEF UninterruptibleTimeout, Uncritical
<1>3. CASE WM_ENTERMENULOOP \/ WM_EXITMENULOOP
    BY <1>3 DEF WM_ENTERMENULOOP, WM_EXITMENULOOP
<1>4. CASE ExecuteLabel \/ FinishLabel
    BY <1>4 DEF ExecuteLabel, FinishLabel
<1> QED
    BY <1>1, <1>2, <1>3, <1>4 DEF PumpStep

LEMMA LaunchCases ==
    ASSUME TypeInv, LaunchStep
    PROVE  Launching \/ Quiet
<1>A. /\ Priorities \subseteq AllPriorities /\ 0 \in AllPriorities
      /\ 0 \in 0..Timers /\ 1..Timers \subseteq 0..Timers
      /\ FirstLines \subseteq AllFirstLines
      /\ HostFirstLines \subseteq AllFirstLines /\ "plain" \in AllFirstLines
      /\ {"msg", "func", "exit", "destroy", "timer"} \subseteq Kinds \ {"auto"}
      /\ TRUE \in BOOLEAN /\ FALSE \in BOOLEAN
    BY ThreadsAssumption DEF AllPriorities, AllFirstLines, Kinds
<1>1. ASSUME NEW priority \in Priorities, NEW first \in FirstLines,
             LaunchMsg(priority, first)
      PROVE  Launching
    <2>1. /\ Push("msg", 0) /\ InitNewThread(priority, FALSE, first)
          /\ UNCHANGED g_default
        BY <1>1 DEF LaunchMsg, Launch
    <2> QED BY <2>1, <1>A, Zenon DEF Launching
<1>2. ASSUME NEW t \in 1..Timers, NEW first \in FirstLines,
             LaunchTimer(t, first)
      PROVE  Launching
    <2>1. /\ Push("timer", t) /\ InitNewThread(TimerPriority[t], FALSE, first)
          /\ UNCHANGED g_default /\ TimersAllowed
        BY <1>2 DEF LaunchTimer, Launch
    <2>2. TimerPriority[t] \in AllPriorities
        BY <1>A, ThreadsAssumption
    <2> QED BY <2>1, <2>2, <1>A, Zenon DEF Launching
<1>3. ASSUME NEW kind \in ExitKinds, ExitApp(kind)
      PROVE  Launching \/ Quiet
    <2>1. CASE TerminateApp
        BY <2>1 DEF TerminateApp, Quiet, stack, counters
    <2>2. CASE ~TerminateApp
        <3>1. /\ Push(kind, 0) /\ InitNewThread(0, TRUE, "plain")
              /\ UNCHANGED g_default
            BY <1>3, <2>2 DEF ExitApp
        <3>2. kind \in Kinds \ {"auto"} /\ kind # "timer"
            BY DEF ExitKinds, Kinds
        <3> QED BY <3>1, <3>2, <1>A, Zenon DEF Launching
    <2> QED BY <2>1, <2>2
<1>4. ASSUME NEW first \in HostFirstLines, callFunc(first)
      PROVE  Launching
    <2>1. /\ Push("func", 0) /\ InitNewThread(0, FALSE, first)
          /\ UNCHANGED g_default
        BY <1>4 DEF callFunc, Launch
    <2> QED BY <2>1, <1>A, Zenon DEF Launching
<1> QED BY <1>1, <1>2, <1>3, <1>4 DEF LaunchStep

LEMMA FinishCases ==
    ASSUME TypeInv, FinishStep
    PROVE  \/ Ending \/ FinishAutoExec \/ Quiet
           \/ \E t \in 1..Timers, first \in FirstLines : NextTimer(t, first)
<1>1. CASE FinishMsg
    <2> DEFINE idle == Top.kind = "msg" /\ phase = "idle"
                         /\ Len(frames) = 1 /\ labels = <<>>
    <2>1. idle \in BOOLEAN
        OBVIOUS
    <2>2. /\ frames # <<>> /\ Top.kind # "auto" /\ Returning
          /\ ResumeUnderlyingThread(idle) /\ UNCHANGED g_default
        BY <1>1 DEF FinishMsg
    <2> HIDE DEF idle
    <2> QED BY <2>1, <2>2 DEF Ending
<1>2. CASE FinishTimer
    BY <1>2, FALSE \in BOOLEAN, Zenon DEF FinishTimer, TimerReturns, Ending
<1>3. CASE FinishExit
    <2>1. CASE TerminateApp
        BY <2>1 DEF TerminateApp, Quiet, stack, counters
    <2>2. CASE ~TerminateApp
        <3>1. /\ frames # <<>> /\ Top.kind # "auto" /\ Returning
              /\ ResumeUnderlyingThread(FALSE) /\ UNCHANGED g_default
            BY <1>3, <2>2 DEF FinishExit, ExitKinds
        <3> QED BY <3>1, FALSE \in BOOLEAN, Zenon DEF Ending
    <2> QED BY <2>1, <2>2
<1> QED BY <1>1, <1>2, <1>3, Zenon DEF FinishStep

LEMMA PauseCases ==
    ASSUME TypeInv, [Next]_vars
    PROVE  \/ Launching \/ Ending \/ FinishAutoExec \/ EnterMainLoop \/ Quiet
           \/ \E t \in 1..Timers, first \in FirstLines : NextTimer(t, first)
           \/ \E mode \in {"on", "off", "toggle"}, underlying \in BOOLEAN :
                ChangePauseState(mode, underlying)
<1>1. CASE UNCHANGED vars
    BY <1>1 DEF vars, Quiet, stack, counters
<1> QED
    BY <1>1, CommandCases, PumpCases, LaunchCases, FinishCases, Zenon DEF Next

LEMMA QuietPaused ==
    ASSUME TypeInv, Quiet
    PROVE  /\ PausedThreads' = PausedThreads
           /\ PausedAt(0)' = PausedAt(0)
           /\ UNCHANGED counters
<1>1. Depth' = Depth
    BY DEF Quiet, Depth
<1>2. ASSUME NEW i PROVE PausedAt(i)' = PausedAt(i)
    BY DEF Quiet, PausedAt
<1> QED BY <1>1, <1>2, Zenon DEF Quiet, PausedThreads

\* The auto-execute section's thread ends: nothing is beneath it.
LEMMA AutoPaused ==
    ASSUME TypeInv, BottomInv, FinishAutoExec
    PROVE  /\ Len(frames) = 1 /\ Depth = {1}
           /\ PausedThreads = IF g.IsPaused THEN {1} ELSE {}
           /\ PausedThreads' = {}
           /\ PausedAt(0)' = g.IsPaused
           /\ UNCHANGED <<g_nPausedThreads, g_IdleIsPaused>>
<1>1. /\ Len(frames) \in Nat /\ Len(frames) >= 1
      /\ Len(frames') = Len(frames) - 1
    BY Popped DEF FinishAutoExec, TypeInv
<1>2. Len(frames) = 1
    <2>1. Len(frames) \in Depth
        BY <1>1 DEF Depth
    <2> QED BY <2>1 DEF FinishAutoExec, BottomInv, Top
<1>3. Depth = {1} /\ Depth' = {}
    BY <1>1, <1>2 DEF Depth
<1>4. PausedThreads = IF g.IsPaused THEN {1} ELSE {}
    BY <1>2, <1>3 DEF PausedThreads, PausedAt
<1>5. g'.IsPaused = g.IsPaused
    BY DEF FinishAutoExec, Uncritical, TypeInv, TypeOK, ThreadState
<1>6. PausedAt(0)' = g.IsPaused
    BY <1>1, <1>2, <1>5 DEF PausedAt
<1> QED
    BY <1>2, <1>3, <1>4, <1>6 DEF FinishAutoExec, PausedThreads

\* The next timer of a loop: its thread starts unpaused where the finished
\* one was.
LEMMA NextPaused ==
    ASSUME TypeInv, BottomInv, NEW t \in 1..Timers, NEW first,
           NextTimer(t, first)
    PROVE  /\ PausedThreads' = PausedThreads \ {Len(frames)}
           /\ PausedAt(0)' = PausedAt(0)
           /\ UNCHANGED counters /\ BottomInv'
<1>1. /\ Len(frames) \in Nat /\ Len(frames') = Len(frames)
      /\ Len(frames) >= 1
      /\ \A i \in 1..(Len(frames) - 1) : frames'[i] = frames[i]
      /\ frames'[Len(frames)].kind = "timer"
      /\ frames'[Len(frames)].saved = Top.saved
    BY Swapped DEF TypeInv
<1>2. ~g'.IsPaused /\ UNCHANGED <<g_default, counters>>
    <2>1. InitNewThread(TimerPriority[t], FALSE, first)
        BY DEF NextTimer
    <2> QED BY <2>1, NewUnpaused DEF TypeInv, BottomInv, NextTimer
<1>3. ASSUME NEW i \in 0..(Len(frames) - 1)
      PROVE  PausedAt(i)' = PausedAt(i)
    <2>1. PausedAt(i)' = frames'[i + 1].saved.IsPaused
          /\ PausedAt(i) = frames[i + 1].saved.IsPaused
        BY <1>1 DEF PausedAt
    <2> QED BY <1>1, <2>1 DEF Top
<1>4. ASSUME NEW i, i = Len(frames) PROVE ~PausedAt(i)'
    BY <1>1, <1>2, <1>4 DEF PausedAt
<1>5. PausedThreads' = PausedThreads \ {Len(frames)}
    BY <1>1, <1>3, <1>4 DEF PausedThreads, Depth
<1>6. BottomInv'
    BY <1>1, <1>2 DEF BottomInv, Depth
<1>7. 0 \in 0..(Len(frames) - 1)
    BY <1>1
<1> QED BY <1>2, <1>3, <1>5, <1>6, <1>7

\* Pause: a thread that is not paused, or the idle thread in a host's label
\* run, becomes paused and is counted.
LEMMA PausePaused ==
    ASSUME TypeInv, NEW mode, NEW underlying, ChangePauseState(mode, underlying)
    PROVE  /\ UNCHANGED <<frames, g_default, g_IdleIsPaused, phase, doing, labels>>
           /\ \/ /\ g'.IsPaused = g.IsPaused /\ UNCHANGED counters
                 /\ PausedThreads' = PausedThreads
                 /\ PausedAt(0)' = PausedAt(0)
              \/ /\ ~g.IsPaused /\ g'.IsPaused
                 /\ g_nPausedThreads' = g_nPausedThreads + 1
                 /\ frames = <<>> => PausedAt(0)' /\ ~PausedAt(0)
                                     /\ PausedThreads' = PausedThreads
                 /\ frames # <<>> =>
                       /\ PausedAt(0)' = PausedAt(0)
                       /\ PausedThreads' = PausedThreads \cup {Len(frames)}
                       /\ Len(frames) \notin PausedThreads
<1>1. UNCHANGED <<frames, g_default, g_IdleIsPaused, phase, doing, labels>>
    BY DEF ChangePauseState, Rescheduled, counters, stack
<1>2. \/ g'.IsPaused = g.IsPaused /\ UNCHANGED counters
      \/ ~g.IsPaused /\ g'.IsPaused /\ g_nPausedThreads' = g_nPausedThreads + 1
    <2> USE DEF ChangePauseState, counters, TypeInv, TypeOK, ThreadState
    <2>1. ~g.IsPaused
        BY DEF Command, Scripting, AtLine
    <2> QED BY <2>1
<1>3. CASE g'.IsPaused = g.IsPaused /\ UNCHANGED counters
    <2>1. Depth' = Depth
        BY <1>1 DEF Depth
    <2>2. ASSUME NEW i PROVE PausedAt(i)' = PausedAt(i)
        BY <1>1, <1>3 DEF PausedAt
    <2> QED BY <1>1, <1>3, <2>1, <2>2, Zenon DEF PausedThreads
<1>4. CASE /\ ~g.IsPaused /\ g'.IsPaused
           /\ g_nPausedThreads' = g_nPausedThreads + 1
    <2>1. frames \in Seq(Frame) /\ Len(frames) \in Nat
          /\ Len(frames') = Len(frames)
        BY <1>1 DEF TypeInv, TypeOK
    <2>2. CASE frames = <<>>
        <3>1. Len(frames) = 0 /\ Len(frames') = 0
            BY <2>1, <2>2
        <3>2. PausedAt(0)' /\ ~PausedAt(0)
            BY <1>4, <3>1 DEF PausedAt
        <3>3. PausedThreads' = {} /\ PausedThreads = {}
            BY <3>1 DEF PausedThreads, Depth
        <3> QED BY <1>1, <1>4, <2>2, <3>2, <3>3, Zenon
    <2>3. CASE frames # <<>>
        <3>1. Len(frames) >= 1
            BY <2>1, <2>3, EmptySeq
        <3>2. ASSUME NEW i \in 0..(Len(frames) - 1)
              PROVE  PausedAt(i)' = PausedAt(i)
            BY <1>1, <2>1 DEF PausedAt
        <3>3. ASSUME NEW i, i = Len(frames)
              PROVE  PausedAt(i)' /\ ~PausedAt(i)
            BY <1>1, <1>4, <3>3 DEF PausedAt
        <3>4. Depth' = 1..Len(frames) /\ Depth = 1..Len(frames)
            BY <1>1 DEF Depth
        <3>5. /\ PausedThreads' = PausedThreads \cup {Len(frames)}
              /\ Len(frames) \notin PausedThreads
            BY <2>1, <3>1, <3>2, <3>3, <3>4 DEF PausedThreads
        <3>6. 0 \in 0..(Len(frames) - 1)
            BY <2>1, <3>1
        <3> QED BY <1>1, <1>4, <2>3, <3>2, <3>5, <3>6
    <2> QED BY <2>2, <2>3
<1> QED BY <1>2, <1>3, <1>4

-----------------------------------------------------------------------------
(* A paused thread is never missed, and timers run above none *)

LEMMA BottomStep ==
    ASSUME TypeInv, BottomInv, [Next]_vars PROVE BottomInv'
<1>1. CASE Launching
    <2>1. PICK kind \in Kinds \ {"auto"}, timer \in 0..Timers :
                Push(kind, timer) /\ UNCHANGED g_default
        BY <1>1 DEF Launching
    <2>2. /\ Len(frames) \in Nat /\ Len(frames') = Len(frames) + 1
          /\ \A i \in 1..Len(frames) : frames'[i] = frames[i]
          /\ frames'[Len(frames')].kind # "auto"
        BY <2>1, Pushed
    <2> QED BY <2>1, <2>2 DEF BottomInv, Depth
<1>2. CASE Ending \/ FinishAutoExec
    <2>1. frames # <<>> /\ frames' = Rest /\ UNCHANGED g_default
        BY <1>2 DEF Ending, FinishAutoExec, ResumeUnderlyingThread
    <2> QED BY <2>1, Popped DEF BottomInv, Depth, TypeInv
<1>3. CASE EnterMainLoop
    <2>1. UNCHANGED frames /\ ~g_default'.IsPaused
        BY <1>3 DEF EnterMainLoop, global_clear_state, stack, TypeInv, TypeOK,
                    ThreadState
    <2> QED BY <2>1 DEF BottomInv, Depth
<1>4. CASE Quiet
    BY <1>4 DEF Quiet, BottomInv, Depth
<1>5. ASSUME NEW t \in 1..Timers, NEW first, NextTimer(t, first)
      PROVE  BottomInv'
    BY <1>5, NextPaused
<1>6. ASSUME NEW mode, NEW underlying, ChangePauseState(mode, underlying)
      PROVE  BottomInv'
    <2>1. UNCHANGED <<frames, g_default>>
        BY <1>6, PausePaused
    <2> QED BY <2>1 DEF BottomInv, Depth
<1> QED BY <1>1, <1>2, <1>3, <1>4, <1>5, <1>6, PauseCases

LEMMA PausedTypeNext ==
    TypeInv' => (Cardinality(PausedThreads) \in Nat /\ g_nPausedThreads \in Int)'
<1>1. TypeInv => Cardinality(PausedThreads) \in Nat /\ g_nPausedThreads \in Int
    BY PausedType DEF TypeInv, TypeOK
<1> QED BY <1>1, PTL

LEMMA BoundStep ==
    ASSUME TypeInv, BottomInv, PauseBound, [Next]_vars PROVE PauseBound'
<1> DEFINE P == PausedThreads
           c == g_nPausedThreads
           n == Len(frames)
<1>A. /\ IsFiniteSet(P) /\ Cardinality(P) \in Nat /\ c \in Int /\ n \in Nat
      /\ Cardinality(P \ {n}) \in Nat /\ Cardinality(P \ {n}) <= Cardinality(P)
    BY PausedType, FS_Subset, FS_CardinalityType DEF TypeInv, TypeOK
<1>B. c >= Cardinality(P) + (IF PausedAt(0) /\ ~g_IdleIsPaused THEN 1 ELSE 0)
    BY DEF PauseBound
<1>C. Cardinality({}) = 0
    BY FS_EmptySet
<1> HIDE DEF P
<1>1. CASE Launching
    <2>1. PICK kind \in Kinds \ {"auto"}, timer \in 0..Timers,
               priority \in AllPriorities, skip \in BOOLEAN,
               first \in AllFirstLines :
                Push(kind, timer) /\ InitNewThread(priority, skip, first)
        BY <1>1 DEF Launching
    <2>2. ~g'.IsPaused
        BY <2>1, NewUnpaused DEF TypeInv, BottomInv
    <2> QED BY <1>B, <2>1, <2>2, PausedPush DEF PauseBound, P
<1>2. CASE Ending
    <2>1. PICK idle : frames # <<>> /\ ResumeUnderlyingThread(idle)
        BY <1>2 DEF Ending
    <2>2. CASE n = 1
        <3>1. /\ P' = {} /\ PausedAt(0)' = g.UnderlyingThreadIsPaused
              /\ c' = c
              /\ g_IdleIsPaused' = IF PausedAt(0) # g.UnderlyingThreadIsPaused
                                   THEN g.UnderlyingThreadIsPaused
                                   ELSE g_IdleIsPaused
            BY <2>1, <2>2, PausedPop DEF P
        <3>2. Cardinality(P') = 0
            BY <3>1, <1>C
        <3> QED BY <3>1, <3>2, <1>A, <1>B DEF PauseBound, P
    <2>3. CASE n # 1
        <3>1. /\ PausedAt(0)' = PausedAt(0) /\ g_IdleIsPaused' = g_IdleIsPaused
              /\ c' - c = Cardinality(P') - Cardinality(P \ {n})
            BY <2>1, <2>3, PausedPop DEF P
        <3>2. Cardinality(P') \in Nat /\ c' \in Int
            BY TypeStep, PausedTypeNext DEF P
        <3> QED BY <3>1, <3>2, <1>A, <1>B DEF PauseBound, P
    <2> QED BY <2>2, <2>3
<1>3. CASE FinishAutoExec
    <2>1. /\ P = IF g.IsPaused THEN {1} ELSE {}
          /\ P' = {} /\ PausedAt(0)' = g.IsPaused /\ c' = c
        BY <1>3, AutoPaused DEF P
    <2>2. Cardinality({1}) = 1
        BY FS_Singleton
    <2> QED BY <1>A, <1>B, <1>C, <2>1, <2>2 DEF PauseBound, P
<1>4. CASE EnterMainLoop
    <2>1. Len(frames') = 0 /\ ~g'.IsPaused /\ c' = c
        BY <1>4 DEF EnterMainLoop, AsIdle, global_clear_state, stack, counters,
                    TypeInv, TypeOK, ThreadState
    <2>2. P' = {} /\ ~PausedAt(0)'
        BY <2>1 DEF P, PausedThreads, Depth, PausedAt
    <2>3. Cardinality(P') = 0
        BY <2>2, <1>C
    <2> QED BY <1>A, <1>B, <2>1, <2>2, <2>3 DEF PauseBound, P
<1>5. CASE Quiet
    <2>1. P' = P /\ PausedAt(0)' = PausedAt(0) /\ UNCHANGED counters
        BY <1>5, QuietPaused DEF P
    <2> QED BY <1>B, <2>1 DEF PauseBound, P, counters
<1>6. ASSUME NEW t \in 1..Timers, NEW first, NextTimer(t, first)
      PROVE  PauseBound'
    <2>1. P' = P \ {n} /\ PausedAt(0)' = PausedAt(0) /\ UNCHANGED counters
        BY <1>6, NextPaused DEF P
    <2> QED BY <1>A, <1>B, <2>1 DEF PauseBound, P, counters
<1>7. ASSUME NEW mode, NEW underlying, ChangePauseState(mode, underlying)
      PROVE  PauseBound'
    <2>1. UNCHANGED g_IdleIsPaused
        BY <1>7, PausePaused
    <2>2. CASE /\ UNCHANGED counters
               /\ P' = P /\ PausedAt(0)' = PausedAt(0)
        BY <1>B, <2>2 DEF PauseBound, P, counters
    <2>3. CASE /\ c' = c + 1 /\ frames = <<>>
               /\ PausedAt(0)' /\ ~PausedAt(0) /\ P' = P
        BY <1>A, <1>B, <2>1, <2>3 DEF PauseBound, P
    <2>4. CASE /\ c' = c + 1 /\ frames # <<>>
               /\ PausedAt(0)' = PausedAt(0) /\ P' = P \cup {n} /\ n \notin P
        <3>1. Cardinality(P \cup {n}) = Cardinality(P) + 1
            BY <1>A, <2>4, FS_AddElement
        <3> QED BY <1>A, <1>B, <2>1, <2>4, <3>1 DEF PauseBound, P
    <2> QED BY <1>7, <2>2, <2>3, <2>4, PausePaused DEF P
<1> QED BY <1>1, <1>2, <1>3, <1>4, <1>5, <1>6, <1>7, PauseCases

\* Nothing beneath a new timer's thread is paused, since nothing at all is.
LEMMA UnpausedLaunch ==
    ASSUME TypeInv, PauseBound, TimersAllowed
    PROVE  \A i \in 0..Len(frames) : ~PausedAt(i)
<1>1. /\ IsFiniteSet(PausedThreads) /\ Cardinality(PausedThreads) \in Nat
      /\ g_nPausedThreads \in Int
    BY PausedType DEF TypeInv, TypeOK
<1>2. g_nPausedThreads <= 0 /\ ~g_IdleIsPaused
    BY DEF TimersAllowed
<1>3. Cardinality(PausedThreads) = 0 /\ ~PausedAt(0)
    BY <1>1, <1>2 DEF PauseBound
<1>4. PausedThreads = {}
    BY <1>1, <1>3, FS_EmptySet
<1> QED BY <1>3, <1>4, PausedType DEF PausedThreads, Depth

LEMMA UnpausedStep ==
    ASSUME TypeInv, PauseBound, TimersRunUnpaused, [Next]_vars
    PROVE  TimersRunUnpaused'
<1>1. CASE Launching
    <2>1. PICK kind \in Kinds \ {"auto"}, timer \in 0..Timers :
                Push(kind, timer) /\ (kind = "timer" => TimersAllowed)
        BY <1>1 DEF Launching
    <2> DEFINE n == Len(frames)
    <2>2. /\ n \in Nat /\ Len(frames') = n + 1
          /\ \A i \in 1..n : frames'[i] = frames[i]
          /\ frames'[n + 1].kind = kind /\ frames'[n + 1].saved = g
        BY <2>1, Pushed
    <2>3. ASSUME NEW i \in Depth', frames'[i].kind = "timer", NEW j \in 1..i
          PROVE  ~frames'[j].saved.IsPaused
        <3>1. CASE i = n + 1
            <4>1. \A k \in 0..n : ~PausedAt(k)
                BY <2>1, <2>2, <2>3, <3>1, UnpausedLaunch
            <4>2. CASE j = n + 1
                BY <2>2, <4>1, <4>2 DEF PausedAt
            <4>3. CASE j # n + 1
                <5>1. j \in 1..n /\ j - 1 \in 0..n /\ j - 1 # n
                    BY <2>2, <3>1, <4>3
                <5>2. PausedAt(j - 1) = frames[j].saved.IsPaused
                    BY <2>2, <5>1 DEF PausedAt
                <5> QED BY <2>2, <4>1, <5>1, <5>2
            <4> QED BY <4>2, <4>3
        <3>2. CASE i # n + 1
            <4>1. i \in Depth /\ j \in 1..n /\ i \in 1..n
                BY <2>2, <3>2 DEF Depth
            <4> QED BY <2>2, <2>3, <4>1 DEF TimersRunUnpaused
        <3> QED BY <3>1, <3>2
    <2> QED BY <2>3 DEF TimersRunUnpaused
<1>2. CASE Ending \/ FinishAutoExec
    <2>1. frames # <<>> /\ frames' = Rest
        BY <1>2 DEF Ending, FinishAutoExec, ResumeUnderlyingThread
    <2> QED BY <2>1, Popped DEF TimersRunUnpaused, Depth, TypeInv
<1>3. CASE EnterMainLoop \/ Quiet
    BY <1>3 DEF EnterMainLoop, Quiet, stack, TimersRunUnpaused, Depth
<1>4. ASSUME NEW t \in 1..Timers, NEW first, NextTimer(t, first)
      PROVE  TimersRunUnpaused'
    <2> DEFINE n == Len(frames)
    <2>1. /\ n \in Nat /\ n >= 1 /\ Len(frames') = n
          /\ \A i \in 1..(n - 1) : frames'[i] = frames[i]
          /\ frames'[n].saved = frames[n].saved /\ frames[n].kind = "timer"
        BY <1>4, Swapped DEF TypeInv, Top
    <2>2. \A j \in 1..n : frames'[j].saved = frames[j].saved
        BY <2>1
    <2>3. \A i \in 1..n : frames'[i].kind = "timer" => frames[i].kind = "timer"
        BY <2>1
    <2> QED BY <2>1, <2>2, <2>3 DEF TimersRunUnpaused, Depth
<1>5. ASSUME NEW mode, NEW underlying, ChangePauseState(mode, underlying)
      PROVE  TimersRunUnpaused'
    <2>1. UNCHANGED frames
        BY <1>5, PausePaused
    <2> QED BY <2>1 DEF TimersRunUnpaused, Depth
<1> QED BY <1>1, <1>2, <1>3, <1>4, <1>5, PauseCases

PauseInv == TypeInv /\ BottomInv /\ PauseBound /\ TimersRunUnpaused

LEMMA PauseInit == Init => PauseInv
<1> SUFFICES ASSUME Init PROVE PauseInv
    OBVIOUS
<1>1. \/ frames = <<>> /\ Len(frames) = 0
      \/ /\ Len(frames) = 1 /\ frames[1].kind = "auto"
         /\ ~frames[1].saved.IsPaused
    BY DEF Init, global_init
<1>2. ~g.IsPaused /\ ~g_default.IsPaused /\ g_nPausedThreads = 0
    BY DEF Init, global_init
<1>3. ~PausedAt(0) /\ (Len(frames) = 1 => ~PausedAt(1))
    BY <1>1, <1>2 DEF PausedAt
<1>4. PausedThreads = {}
    <2>1. CASE Len(frames) = 0
        BY <2>1 DEF PausedThreads, Depth
    <2>2. CASE Len(frames) = 1
        BY <1>3, <2>2 DEF PausedThreads, Depth
    <2> QED BY <1>1, <2>1, <2>2
<1>5. PauseBound
    BY <1>2, <1>3, <1>4, FS_EmptySet DEF PauseBound
<1>6. BottomInv /\ TimersRunUnpaused
    BY <1>1, <1>2 DEF BottomInv, TimersRunUnpaused, Depth
<1> QED BY <1>5, <1>6, InitType DEF PauseInv

LEMMA PauseStep == PauseInv /\ [Next]_vars => PauseInv'
BY TypeStep, BottomStep, BoundStep, UnpausedStep DEF PauseInv

\* A paused thread is never left out of the count that keeps timers from
\* starting, in any script: with runtime errors, host label runs, OnExit
\* threads and scripts that are not persistent.
THEOREM PausedNeverMissedAlways == Spec => []PausedNeverMissed
<1>1. PauseInv => PausedNeverMissed
    <2> SUFFICES ASSUME PauseInv PROVE PausedNeverMissed
        OBVIOUS
    <2>1. Cardinality(PausedThreads) \in Nat /\ g_nPausedThreads \in Int
        BY PausedType DEF PauseInv, TypeInv, TypeOK
    <2> QED
        BY <2>1 DEF PauseInv, PauseBound, PausedNeverMissed, PausedThreads
<1> QED BY <1>1, PauseInit, PauseStep, PTL DEF Spec

\* "As documented, timers don't run when any thread is paused": no thread
\* beneath a timer's is, whatever any thread did with Pause before.
THEOREM TimersNeverAbovePaused == Spec => []TimersRunUnpaused
<1>1. PauseInv => TimersRunUnpaused
    BY DEF PauseInv
<1> QED BY <1>1, PauseInit, PauseStep, PTL DEF Spec

-----------------------------------------------------------------------------
(* Where nothing fails and no host runs a label: the count is exact *)

Failing == {"error", "failed"}

\* The states of a persistent script without runtime errors or host label
\* runs.  Such a script reaches its event loop with nothing beneath it paused.
SettledInv ==
    /\ labels = <<>>
    /\ doing \notin Failing
    /\ \A i \in Depth : /\ frames[i].doing \notin Failing
                        /\ frames[i].kind = "auto" =>
                              i = 1 /\ ~frames[i].saved.IsPaused
    /\ phase # "nonpersistent"
    /\ phase = "init" => frames = <<>> /\ ~g.IsPaused

\* What the activity beneath was doing goes with its launcher's frame.
LEMMA PushedDoing ==
    ASSUME TypeInv, NEW kind \in Kinds, NEW timer \in 0..Timers,
           Push(kind, timer)
    PROVE  /\ frames'[Len(frames')].doing = doing
           /\ doing' = "none" /\ UNCHANGED labels
<1> DEFINE f == [kind |-> kind, saved |-> g, doing |-> doing,
             timer |-> timer,
             allow |-> g_AllowInterruption,
             pending |-> g_UninterruptibleTimerExists]
<1>1. f \in Frame
    BY DEF TypeInv, TypeOK, Frame
<1>2. frames' = Append(frames, f) /\ f.doing = doing
    BY DEF Push
<1> HIDE DEF f
<1> QED BY <1>1, <1>2, StackPush DEF Push, TypeInv

LEMMA SwappedDoing ==
    ASSUME TypeOK, NEW t \in 1..Timers, NEW first, NextTimer(t, first)
    PROVE  frames'[Len(frames)].doing = frames[Len(frames)].doing
<1> DEFINE f == [Top EXCEPT !.timer = t]
<1>1. frames # <<>> /\ frames' = [frames EXCEPT ![Len(frames)] = f]
    BY DEF NextTimer, TimerReturns
<1>2. /\ Top \in Frame /\ Len(frames) \in Nat /\ Len(frames) >= 1
      /\ frames \in Seq(Frame)
    BY <1>1, StackRest DEF TypeOK
<1>3. f.doing = Top.doing
    BY <1>2 DEF Frame
<1> HIDE DEF f
<1> QED BY <1>1, <1>2, <1>3 DEF Top

LEMMA SettledPush ==
    ASSUME TypeInv, SettledInv, NEW kind \in Kinds \ {"auto"},
           NEW timer \in 0..Timers, Push(kind, timer), UNCHANGED phase,
           Pumping
    PROVE  SettledInv'
<1>1. /\ Len(frames) \in Nat /\ Len(frames') = Len(frames) + 1
      /\ \A i \in 1..Len(frames) : frames'[i] = frames[i]
      /\ frames'[Len(frames')].kind = kind
      /\ frames'[Len(frames')].doing = doing
      /\ doing' = "none" /\ UNCHANGED labels
    BY Pushed, PushedDoing
<1>2. phase # "init"
    BY DEF Pumping, SettledInv
<1> QED BY <1>1, <1>2 DEF SettledInv, Depth, Failing

LEMMA SettledPop ==
    ASSUME TypeInv, SettledInv, frames # <<>>, frames' = Rest,
           doing' = Top.doing \/ doing' = "none", UNCHANGED labels,
           phase' # "nonpersistent",
           phase' = "init" => ~g'.IsPaused /\ Len(frames) = 1
    PROVE  SettledInv'
<1>1. /\ Len(frames) \in Nat /\ Len(frames) >= 1
      /\ Len(frames') = Len(frames) - 1
      /\ \A i \in 1..Len(frames') : frames'[i] = frames[i]
    BY Popped DEF TypeInv
<1>2. doing' \notin Failing
    BY <1>1 DEF SettledInv, Depth, Top, Failing
<1>3. Len(frames) = 1 => frames' = <<>>
    <2>1. frames' \in Seq(Frame)
        BY StackRest DEF TypeInv
    <2> QED BY <1>1, <2>1, EmptySeq
<1> QED BY <1>1, <1>2, <1>3 DEF SettledInv, Depth

\* Every step keeps a persistent script settled.
LEMMA SettledStep ==
    ASSUME Persistent, MaxLabelRuns = 0, "error" \notin Commands,
           TypeInv, SettledInv, [Next]_vars
    PROVE  SettledInv'
<1>A. 0 \in 0..Timers /\ 1..Timers \subseteq 0..Timers
    BY ThreadsAssumption
<1>B. Scripting => frames # <<>> /\ doing = "none"
    BY DEF Scripting, InLabel, SettledInv, AtLine
<1>C. frames # <<>> => phase # "init"
    BY DEF SettledInv
<1>1. ASSUME NEW priority \in Priorities, NEW first \in FirstLines,
             LaunchMsg(priority, first)
      PROVE  SettledInv'
    BY <1>1, <1>A, SettledPush DEF LaunchMsg, Launch, Kinds
<1>2. ASSUME NEW t \in 1..Timers, NEW first \in FirstLines,
             LaunchTimer(t, first)
      PROVE  SettledInv'
    BY <1>2, <1>A, SettledPush DEF LaunchTimer, Launch, Kinds
<1>3. ASSUME NEW kind \in ExitKinds, ExitApp(kind)
      PROVE  SettledInv'
    <2>1. CASE TerminateApp
        BY <2>1 DEF TerminateApp, SettledInv, Depth, stack
    <2>2. CASE ~TerminateApp
        <3>1. Pumping /\ Push(kind, 0) /\ UNCHANGED phase
            BY <1>3, <2>2 DEF ExitApp, SettledInv
        <3>2. kind \in Kinds \ {"auto"}
            BY DEF ExitKinds, Kinds
        <3> QED BY <3>1, <3>2, <1>A, SettledPush
    <2> QED BY <2>1, <2>2
<1>4. ASSUME NEW first \in HostFirstLines, callFunc(first)
      PROVE  SettledInv'
    BY <1>4, <1>A, SettledPush DEF callFunc, Launch, Kinds
<1>5. CASE FinishMsg \/ FinishTimer \/ (FinishExit /\ ~TerminateApp)
    <2>1. /\ frames # <<>> /\ frames' = Rest /\ doing' = Top.doing
          /\ UNCHANGED <<labels, phase>>
        BY <1>5 DEF FinishMsg, FinishTimer, TimerReturns, FinishExit,
                    ResumeUnderlyingThread
    <2>2. phase' # "nonpersistent" /\ phase' # "init"
        BY <1>C, <2>1 DEF SettledInv
    <2> QED BY <2>1, <2>2, SettledPop
<1>6. CASE FinishExit /\ TerminateApp
    BY <1>6 DEF TerminateApp, SettledInv, Depth, stack
<1>7. CASE FinishAutoExec
    <2>1. /\ frames # <<>> /\ frames' = Rest /\ doing' = "none"
          /\ UNCHANGED labels /\ phase' = "init"
        BY <1>7 DEF FinishAutoExec
    <2>2. ~g.IsPaused
        BY <1>7 DEF FinishAutoExec, Returning, AtLine, SettledInv, Failing
    <2>3. ~g'.IsPaused
        BY <1>7, <2>2
        DEF FinishAutoExec, Uncritical, TypeInv, TypeOK, ThreadState
    <2>4. Len(frames) \in Depth
        BY <2>1, StackRest DEF TypeInv, Depth
    <2>5. Len(frames) = 1
        BY <1>7, <2>4 DEF FinishAutoExec, SettledInv, Top
    <2> QED BY <2>1, <2>3, <2>5, SettledPop
<1>8. ASSUME NEW t \in 1..Timers, NEW first, NextTimer(t, first)
      PROVE  SettledInv'
    <2> DEFINE n == Len(frames)
    <2>1. /\ frames # <<>> /\ n \in Nat /\ Len(frames') = n /\ n >= 1
          /\ \A i \in 1..(n - 1) : frames'[i] = frames[i]
          /\ frames'[n].kind = "timer"
          /\ frames'[n].doing = frames[n].doing
        BY <1>8, Swapped, SwappedDoing DEF TypeInv
    <2>2. doing' = "none" /\ UNCHANGED <<labels, phase>>
        BY <1>8 DEF NextTimer
    <2> QED
        BY <2>1, <2>2, <1>C DEF SettledInv, Depth, Failing
<1>9. CASE EnterMainLoop
    BY <1>9 DEF EnterMainLoop, SettledInv, Depth, stack
<1>10. ASSUME UNCHANGED <<frames, labels, phase>>, doing' \notin Failing,
              phase = "init" => g'.IsPaused = g.IsPaused
       PROVE  SettledInv'
    BY <1>10 DEF SettledInv, Depth
<1>11. CASE CommandStep
    <2>1. ASSUME NEW error \in BOOLEAN, OpenDialog(error)
          PROVE  SettledInv'
        <3>1. doing' = "dialog"
            BY <2>1 DEF OpenDialog, Command
        <3> QED BY <2>1, <3>1, <1>10 DEF OpenDialog, Failing
    <2>2. ASSUME NEW thread_was_critical \in BOOLEAN,
                 CloseDialog(thread_was_critical)
          PROVE  SettledInv'
        <3>1. doing' = "none"
            BY <2>2 DEF CloseDialog, SettledInv, Failing
        <3>2. g'.IsPaused = g.IsPaused
            BY <2>2 DEF CloseDialog, TypeInv, TypeOK, ThreadState
        <3> QED BY <2>2, <3>1, <3>2, <1>10 DEF CloseDialog, Failing
    <2>3. ASSUME Scripting, UNCHANGED <<stack, phase>>
          PROVE  SettledInv'
        BY <2>3, <1>B, <1>C, <1>10 DEF stack, SettledInv
    <2> QED
        BY <1>11, <2>1, <2>2, <2>3
        DEF CommandStep, ChangePauseState, Critical, ThreadPriority,
            ThreadNoTimers, ThreadInterrupt, LineCountExceeded, Command,
            Rescheduled
<1>12. CASE AutoExecSectionTimeout \/ UninterruptibleTimeout
    <2>1. UNCHANGED <<stack, phase>> /\ g'.IsPaused = g.IsPaused
        BY <1>12 DEF AutoExecSectionTimeout, UninterruptibleTimeout,
                     Uncritical, TypeInv, TypeOK, ThreadState
    <2> QED BY <2>1, <1>10 DEF stack, SettledInv
<1>13. CASE WM_ENTERMENULOOP \/ WM_EXITMENULOOP
    BY <1>13, <1>10 DEF WM_ENTERMENULOOP, WM_EXITMENULOOP, Failing
<1>14. CASE ExecuteLabel \/ FinishLabel
    BY <1>14 DEF ExecuteLabel, FinishLabel, InLabel, SettledInv
<1>15. CASE UNCHANGED vars
    BY <1>15, <1>10 DEF vars, stack, SettledInv
<1> QED
    BY <1>1, <1>2, <1>3, <1>4, <1>5, <1>6, <1>7, <1>8, <1>9, <1>11, <1>12,
       <1>13, <1>14, <1>15
    DEF Next, LaunchStep, FinishStep, PumpStep

\* A thread that ends is not paused, so what is left out of the count by
\* ResumeUnderlyingThread, the state of the thread that ends, is nothing.
LEMMA ExactStep ==
    ASSUME TypeInv, BottomInv, SettledInv, PausedCountExact, [Next]_vars
    PROVE  PausedCountExact'
<1> DEFINE P == PausedThreads
           c == g_nPausedThreads
           n == Len(frames)
<1>A. /\ IsFiniteSet(P) /\ Cardinality(P) \in Nat /\ c \in Int /\ n \in Nat
    BY PausedType DEF TypeInv, TypeOK
<1>B. c = Cardinality(P) /\ g_IdleIsPaused = PausedAt(0)
    BY DEF PausedCountExact, PausedThreads
<1>C. Cardinality({}) = 0
    BY FS_EmptySet
<1>D. ~(doing = "failed")
    BY DEF SettledInv, Failing
<1>E. SUFFICES c' = Cardinality(P') /\ g_IdleIsPaused' = PausedAt(0)'
    BY DEF PausedCountExact, PausedThreads
<1> HIDE DEF P
<1>1. CASE Launching
    <2>1. PICK kind \in Kinds \ {"auto"}, timer \in 0..Timers,
               priority \in AllPriorities, skip \in BOOLEAN,
               first \in AllFirstLines :
                Push(kind, timer) /\ InitNewThread(priority, skip, first)
        BY <1>1 DEF Launching
    <2>2. ~g'.IsPaused
        BY <2>1, NewUnpaused DEF TypeInv, BottomInv
    <2> QED BY <1>B, <2>1, <2>2, PausedPush DEF P
<1>2. CASE Ending
    <2>1. PICK idle : frames # <<>> /\ ResumeUnderlyingThread(idle)
        BY <1>2 DEF Ending
    <2>2. ~g.IsPaused
        BY <1>2, <1>D DEF Ending, Returning, AtLine
    <2>3. n \notin P
        BY <2>2 DEF P, PausedThreads, PausedAt
    <2>4. CASE n = 1
        <3>1. /\ P' = {} /\ PausedAt(0)' = g.UnderlyingThreadIsPaused
              /\ c' = c
              /\ g_IdleIsPaused' = IF PausedAt(0) # g.UnderlyingThreadIsPaused
                                   THEN g.UnderlyingThreadIsPaused
                                   ELSE g_IdleIsPaused
            BY <2>1, <2>4, PausedPop DEF P
        <3>2. P = {}
            BY <2>3, <2>4 DEF P, PausedThreads, Depth
        <3> QED BY <3>1, <3>2, <1>B, <1>C
    <2>5. CASE n # 1
        <3>1. /\ PausedAt(0)' = PausedAt(0) /\ g_IdleIsPaused' = g_IdleIsPaused
              /\ c' - c = Cardinality(P') - Cardinality(P \ {n})
            BY <2>1, <2>5, PausedPop DEF P
        <3>2. Cardinality(P') \in Nat /\ c' \in Int
            BY TypeStep, PausedTypeNext DEF P
        <3>3. P \ {n} = P
            BY <2>3
        <3>4. c' - c = Cardinality(P') - Cardinality(P)
            BY <3>1, <3>3
        <3>5. c' = Cardinality(P')
            BY <3>2, <3>4, <1>A, <1>B
        <3> QED BY <3>1, <3>5, <1>B
    <2> QED BY <2>4, <2>5
<1>3. CASE FinishAutoExec
    <2>1. /\ P = IF g.IsPaused THEN {1} ELSE {}
          /\ P' = {} /\ PausedAt(0)' = g.IsPaused
          /\ UNCHANGED <<g_nPausedThreads, g_IdleIsPaused>>
          /\ Len(frames) = 1 /\ Depth = {1}
        BY <1>3, AutoPaused DEF P
    <2>2. ~g.IsPaused
        BY <1>3, <1>D DEF FinishAutoExec, Returning, AtLine
    <2>3. ~PausedAt(0)
        BY <1>3, <2>1 DEF SettledInv, FinishAutoExec, Top, PausedAt
    <2>4. PausedAt(0)' = FALSE /\ PausedAt(0) = FALSE
        BY <2>1, <2>2, <2>3, PausedType
        DEF TypeInv, TypeOK, ThreadState
    <2> QED BY <1>B, <1>C, <2>1, <2>2, <2>4
<1>4. CASE EnterMainLoop
    <2>1. /\ Len(frames') = 0 /\ Len(frames) = 0 /\ UNCHANGED counters
          /\ ~g.IsPaused
        BY <1>4 DEF EnterMainLoop, SettledInv, stack
    <2>2. g'.IsPaused = FALSE /\ g.IsPaused = FALSE
        BY <1>4, <2>1 DEF EnterMainLoop, AsIdle, global_clear_state,
                    TypeInv, TypeOK, ThreadState
    <2>3. P' = {} /\ P = {} /\ PausedAt(0)' = FALSE /\ PausedAt(0) = FALSE
        BY <2>1, <2>2 DEF P, PausedThreads, Depth, PausedAt
    <2> QED BY <1>B, <2>1, <2>3 DEF counters
<1>5. CASE Quiet
    <2>1. P' = P /\ PausedAt(0)' = PausedAt(0) /\ UNCHANGED counters
        BY <1>5, QuietPaused DEF P
    <2> QED BY <1>B, <2>1 DEF counters
<1>6. ASSUME NEW t \in 1..Timers, NEW first, NextTimer(t, first)
      PROVE  c' = Cardinality(P') /\ g_IdleIsPaused' = PausedAt(0)'
    <2>1. P' = P \ {n} /\ PausedAt(0)' = PausedAt(0) /\ UNCHANGED counters
        BY <1>6, NextPaused DEF P
    <2>2. ~g.IsPaused
        BY <1>6, <1>D DEF NextTimer, TimerReturns, Returning, AtLine
    <2>3. P \ {n} = P
        BY <2>2 DEF P, PausedThreads, PausedAt
    <2> QED BY <1>B, <2>1, <2>3 DEF counters
<1>7. ASSUME NEW mode \in {"on", "off", "toggle"}, NEW underlying \in BOOLEAN,
             ChangePauseState(mode, underlying)
      PROVE  c' = Cardinality(P') /\ g_IdleIsPaused' = PausedAt(0)'
    <2>1. UNCHANGED g_IdleIsPaused /\ frames # <<>>
        BY <1>7, PausePaused
        DEF ChangePauseState, Command, Scripting, InLabel, SettledInv
    <2>2. CASE /\ UNCHANGED counters
               /\ P' = P /\ PausedAt(0)' = PausedAt(0)
        BY <1>B, <2>1, <2>2 DEF counters
    <2>3. CASE /\ c' = c + 1
               /\ PausedAt(0)' = PausedAt(0) /\ P' = P \cup {n} /\ n \notin P
        <3>1. Cardinality(P \cup {n}) = Cardinality(P) + 1
            BY <1>A, <2>3, FS_AddElement
        <3> QED BY <1>B, <2>1, <2>3, <3>1
    <2> QED BY <1>7, <2>1, <2>2, <2>3, PausePaused DEF P
<1> QED BY <1>1, <1>2, <1>3, <1>4, <1>5, <1>6, <1>7, PauseCases

\* g_nPausedThreads is the number of paused threads and g_IdleIsPaused the
\* state of the idle thread, in every persistent script whose threads never
\* fail and in which no host runs a label: in the others only
\* PausedNeverMissedAlways holds.
THEOREM PausedCountAlwaysExact ==
    ASSUME Persistent, MaxLabelRuns = 0, "error" \notin Commands
    PROVE  Spec => []PausedCountExact
<1> DEFINE Inv == TypeInv /\ BottomInv /\ SettledInv /\ PausedCountExact
<1>1. Init => Inv
    <2> SUFFICES ASSUME Init PROVE Inv
        OBVIOUS
    <2>1. TypeInv /\ BottomInv
        BY PauseInit DEF PauseInv
    <2>2. \/ frames = <<>> /\ Len(frames) = 0
          \/ /\ Len(frames) = 1 /\ frames[1].kind = "auto"
             /\ frames[1].doing = "none" /\ frames[1].saved.IsPaused = FALSE
             /\ phase = "auto"
        BY DEF Init, global_init
    <2>3. /\ g.IsPaused = FALSE /\ g_nPausedThreads = 0
          /\ g_IdleIsPaused = FALSE
          /\ doing = "none" /\ labels = <<>> /\ phase \in {"auto", "init"}
        BY DEF Init, global_init
    <2>4. SettledInv
        BY <2>2, <2>3 DEF SettledInv, Failing, Depth
    <2>5. PausedAt(0) = FALSE /\ (Len(frames) = 1 => PausedAt(1) = FALSE)
        BY <2>2, <2>3 DEF PausedAt
    <2>6. {i \in Depth : PausedAt(i)} = {}
        <3>1. CASE Len(frames) = 0
            BY <3>1 DEF Depth
        <3>2. CASE Len(frames) = 1
            BY <2>5, <3>2 DEF Depth
        <3> QED BY <2>2, <3>1, <3>2
    <2>7. PausedCountExact
        BY <2>3, <2>5, <2>6, FS_EmptySet DEF PausedCountExact
    <2> QED BY <2>1, <2>4, <2>7
<1>2. Inv /\ [Next]_vars => Inv'
    BY TypeStep, BottomStep, SettledStep, ExactStep
<1>3. Inv => PausedCountExact
    OBVIOUS
<1> QED BY <1>1, <1>2, <1>3, PTL DEF Spec

-----------------------------------------------------------------------------
(* The idle thread *)

Idled(state) ==
    /\ ~state.ThreadIsCritical
    /\ state.Priority = PRIORITY_MINIMUM
    /\ state.AllowTimers

\* From the event loop on, the struct of the idle thread, in g or in the
\* lowest launcher's copy, is one that every event can interrupt; and what
\* the idle thread can be in the middle of leaves g alone when it ends.
IdleInv ==
    /\ labels = <<>>
    /\ frames = <<>> => doing \in {"none", "menu"}
    /\ frames # <<>> => frames[1].doing \in {"none", "menu"}
    /\ (phase = "idle" /\ frames = <<>>) =>
          Idled(g) /\ g.AllowThreadToBeInterrupted
    /\ (phase = "idle" /\ frames # <<>>) => Idled(frames[1].saved)

LEMMA IdlePush ==
    ASSUME TypeInv, IdleInv, NEW kind \in Kinds, NEW timer \in 0..Timers,
           Push(kind, timer), phase' = "idle" => phase = "idle"
    PROVE  IdleInv'
<1>1. /\ Len(frames) \in Nat /\ Len(frames') = Len(frames) + 1
      /\ \A i \in 1..Len(frames) : frames'[i] = frames[i]
      /\ frames'[Len(frames')].saved = g
      /\ frames'[Len(frames')].doing = doing
      /\ UNCHANGED labels
    BY Pushed, PushedDoing
<1>2. frames' # <<>>
    BY <1>1
<1>3. CASE frames = <<>>
    <2>1. Len(frames') = 1
        BY <1>1, <1>3
    <2> QED BY <1>1, <1>2, <1>3, <2>1 DEF IdleInv
<1>4. CASE frames # <<>>
    <2>1. frames'[1] = frames[1]
        BY <1>1, <1>4, EmptySeq DEF TypeInv, TypeOK
    <2> QED BY <1>1, <1>2, <1>4, <2>1 DEF IdleInv
<1> QED BY <1>3, <1>4

LEMMA IdlePop ==
    ASSUME TypeInv, IdleInv, frames # <<>>, frames' = Rest,
           UNCHANGED labels,
           doing' = Top.doing \/ doing' = "none",
           phase' = "idle" => phase = "idle",
           (phase = "idle" /\ Idled(Top.saved)) =>
                Idled(g') /\ g'.AllowThreadToBeInterrupted
    PROVE  IdleInv'
<1>1. /\ Len(frames) \in Nat /\ Len(frames) >= 1
      /\ Len(frames') = Len(frames) - 1
      /\ \A i \in 1..Len(frames') : frames'[i] = frames[i]
      /\ frames' \in Seq(Frame)
    BY Popped, StackRest DEF TypeInv
<1>2. CASE Len(frames) = 1
    <2>1. frames' = <<>> /\ Top = frames[1]
        BY <1>1, <1>2, EmptySeq DEF Top
    <2> QED BY <1>2, <2>1 DEF IdleInv
<1>3. CASE Len(frames) # 1
    <2>1. frames' # <<>> /\ frames'[1] = frames[1]
        BY <1>1, <1>3
    <2> QED BY <1>1, <2>1 DEF IdleInv
<1> QED BY <1>2, <1>3

LEMMA ResumedIdle ==
    ASSUME TypeInv, frames # <<>>, NEW idle, ResumeUnderlyingThread(idle),
           Idled(Top.saved)
    PROVE  Idled(g') /\ g'.AllowThreadToBeInterrupted
<1> DEFINE mark == g.UnderlyingThreadIsPaused
           saved == Top.saved
<1>1. saved \in ThreadState /\ mark \in BOOLEAN
    BY StackRest DEF TypeInv, TypeOK, ThreadState, Frame
<1>2. /\ Idled(Resumed(saved, mark))
      /\ Resumed(saved, mark).AllowThreadToBeInterrupted
      /\ Resumed(saved, mark) \in ThreadState
    BY <1>1 DEF Idled, Resumed, ThreadState
<1>3. /\ Idled(AsIdle(Resumed(saved, mark)))
      /\ AsIdle(Resumed(saved, mark)).AllowThreadToBeInterrupted
    BY <1>2 DEF Idled, AsIdle, ThreadState
<1> QED BY <1>2, <1>3 DEF ResumeUnderlyingThread

LEMMA IdleStep ==
    ASSUME MaxLabelRuns = 0, TypeInv, IdleInv, [Next]_vars PROVE IdleInv'
<1>A. 0 \in 0..Timers /\ 1..Timers \subseteq 0..Timers
    BY ThreadsAssumption
<1>B. Scripting => frames # <<>>
    BY DEF Scripting, InLabel, IdleInv
<1>1. ASSUME NEW priority \in Priorities, NEW first \in FirstLines,
             LaunchMsg(priority, first)
      PROVE  IdleInv'
    BY <1>1, <1>A, IdlePush DEF LaunchMsg, Launch, Kinds
<1>2. ASSUME NEW t \in 1..Timers, NEW first \in FirstLines,
             LaunchTimer(t, first)
      PROVE  IdleInv'
    BY <1>2, <1>A, IdlePush DEF LaunchTimer, Launch, Kinds
<1>3. ASSUME NEW kind \in ExitKinds, ExitApp(kind), ~TerminateApp
      PROVE  IdleInv'
    <2>1. Push(kind, 0) /\ (phase' = "idle" => phase = "idle")
        BY <1>3 DEF ExitApp
    <2>2. kind \in Kinds
        BY DEF ExitKinds, Kinds
    <2> QED BY <2>1, <2>2, <1>A, IdlePush
<1>4. ASSUME NEW first \in HostFirstLines, callFunc(first)
      PROVE  IdleInv'
    BY <1>4, <1>A, IdlePush DEF callFunc, Launch, Kinds
<1>5. CASE FinishMsg \/ FinishTimer \/ (FinishExit /\ ~TerminateApp)
    <2>1. PICK idle : /\ frames # <<>> /\ ResumeUnderlyingThread(idle)
                      /\ UNCHANGED phase
        BY <1>5 DEF FinishMsg, FinishTimer, TimerReturns, FinishExit
    <2>2. frames' = Rest /\ doing' = Top.doing /\ UNCHANGED labels
        BY <2>1 DEF ResumeUnderlyingThread
    <2>3. Idled(Top.saved) => Idled(g') /\ g'.AllowThreadToBeInterrupted
        BY <2>1, ResumedIdle
    <2> QED BY <2>1, <2>2, <2>3, IdlePop
<1>6. CASE TerminateApp
    BY <1>6 DEF TerminateApp, IdleInv, stack
<1>7. CASE FinishAutoExec
    <2>1. /\ frames # <<>> /\ frames' = Rest /\ doing' = "none"
          /\ UNCHANGED labels /\ phase' # "idle"
        BY <1>7 DEF FinishAutoExec
    <2>2. /\ Len(frames) \in Nat /\ Len(frames) >= 1
          /\ Len(frames') = Len(frames) - 1
          /\ \A i \in 1..Len(frames') : frames'[i] = frames[i]
        BY <2>1, Popped DEF TypeInv
    <2>3. frames' # <<>> => frames'[1] = frames[1]
        BY <2>1, <2>2, StackRest, EmptySeq DEF TypeInv
    <2> QED BY <2>1, <2>3 DEF IdleInv
<1>8. ASSUME NEW t \in 1..Timers, NEW first, NextTimer(t, first)
      PROVE  IdleInv'
    <2> DEFINE n == Len(frames)
    <2>1. /\ frames # <<>> /\ n \in Nat /\ Len(frames') = n /\ n >= 1
          /\ \A i \in 1..(n - 1) : frames'[i] = frames[i]
          /\ frames'[n].saved = frames[n].saved
          /\ frames'[n].doing = frames[n].doing
        BY <1>8, Swapped, SwappedDoing DEF TypeInv, Top
    <2>2. /\ frames'[1].saved = frames[1].saved
          /\ frames'[1].doing = frames[1].doing /\ frames' # <<>>
        BY <2>1
    <2>3. UNCHANGED <<labels, phase>>
        BY <1>8 DEF NextTimer
    <2> QED BY <2>1, <2>2, <2>3 DEF IdleInv
<1>9. CASE EnterMainLoop
    <2>1. global_clear_state(g) \in ThreadState
        BY DEF global_clear_state, TypeInv, TypeOK, ThreadState
    <2>2. Idled(g') /\ g'.AllowThreadToBeInterrupted
        BY <1>9, <2>1 DEF EnterMainLoop, Idled, AsIdle, ThreadState
    <2> QED BY <1>9, <2>2 DEF EnterMainLoop, IdleInv, stack
<1>10. ASSUME frames # <<>>, UNCHANGED <<frames, labels, phase>>
       PROVE  IdleInv'
    BY <1>10 DEF IdleInv
<1>11. CASE CommandStep
    <2>1. ASSUME NEW error \in BOOLEAN, OpenDialog(error)
          PROVE  IdleInv'
        BY <2>1, <1>B, <1>10 DEF OpenDialog, Command
    <2>2. ASSUME NEW thread_was_critical \in BOOLEAN,
                 CloseDialog(thread_was_critical)
          PROVE  IdleInv'
        BY <2>2, <1>10 DEF CloseDialog, IdleInv
    <2>3. ASSUME Scripting, UNCHANGED <<stack, phase>>
          PROVE  IdleInv'
        BY <2>3, <1>B, <1>10 DEF stack
    <2> QED
        BY <1>11, <2>1, <2>2, <2>3
        DEF CommandStep, ChangePauseState, Critical, ThreadPriority,
            ThreadNoTimers, ThreadInterrupt, LineCountExceeded, Command,
            Rescheduled
<1>12. CASE AutoExecSectionTimeout \/ UninterruptibleTimeout
    <2>1. UNCHANGED <<stack, phase>> /\ g' = Uncritical(g)
        BY <1>12 DEF AutoExecSectionTimeout, UninterruptibleTimeout
    <2>2. Idled(g) => Idled(g') /\ g'.AllowThreadToBeInterrupted
        BY <2>1 DEF Idled, Uncritical, TypeInv, TypeOK, ThreadState
    <2> QED BY <2>1, <2>2 DEF stack, IdleInv
<1>13. CASE WM_ENTERMENULOOP \/ WM_EXITMENULOOP
    BY <1>13 DEF WM_ENTERMENULOOP, WM_EXITMENULOOP, IdleInv
<1>14. CASE ExecuteLabel \/ FinishLabel
    BY <1>14 DEF ExecuteLabel, FinishLabel, InLabel, IdleInv
<1>15. CASE UNCHANGED vars
    BY <1>15 DEF vars, stack, IdleInv
<1> QED
    BY <1>1, <1>2, <1>3, <1>4, <1>5, <1>6, <1>7, <1>8, <1>9, <1>11, <1>12,
       <1>13, <1>14, <1>15
    DEF Next, LaunchStep, FinishStep, PumpStep

\* Whatever threads ran before, the idle thread of a script in which no host
\* runs a label can be interrupted by every event and timer.
THEOREM IdleAlwaysAnswers ==
    ASSUME MaxLabelRuns = 0
    PROVE  Spec => []IdleAnswers
<1> DEFINE Inv == TypeInv /\ ExitInv /\ IdleInv
<1>1. Init => Inv
    <2> SUFFICES ASSUME Init PROVE Inv
        OBVIOUS
    <2>1. /\ labels = <<>> /\ doing = "none" /\ phase # "idle"
          /\ frames # <<>> => frames[1].doing = "none"
        BY DEF Init
    <2> QED BY <2>1, InitType, ExitInit DEF IdleInv
<1>2. Inv /\ [Next]_vars => Inv'
    BY TypeStep, ExitStep, IdleStep
<1>3. Inv => IdleAnswers
    <2> SUFFICES ASSUME Inv, phase = "idle", frames = <<>>, ~g_MenuIsVisible
                 PROVE  /\ INTERRUPTIBLE /\ g.Priority = PRIORITY_MINIMUM
                        /\ g.AllowTimers
        BY DEF IdleAnswers
    <2>1. g_AllowInterruption
        BY DEF ExitInv, TypeInv, TypeOK
    <2> QED
        BY <2>1
        DEF IdleInv, Idled, INTERRUPTIBLE, INTERRUPTIBLE_IN_EMERGENCY
<1> QED BY <1>1, <1>2, <1>3, PTL DEF Spec

-----------------------------------------------------------------------------
(* The number of threads *)

LEMMA LimitPush ==
    ASSUME TypeInv, NEW kind \in Kinds, NEW timer \in 0..Timers,
           Push(kind, timer),
           g_nThreads <= MAX_THREADS_LIMIT
             \/ (g_nThreads <= MAX_THREADS_LIMIT + 1 /\ kind \in ExitKinds)
    PROVE  ThreadLimit'
<1>1. /\ Len(frames) \in Nat /\ Len(frames') = Len(frames) + 1
      /\ frames'[Len(frames')].kind = kind
    BY Pushed
<1>2. frames' # <<>> /\ Top' = frames'[Len(frames')]
    BY <1>1 DEF Top
<1>3. g_nThreads' = g_nThreads + 1 /\ g_nThreads = Len(frames)
    BY DEF Push, TypeInv, ThreadCount
<1> QED BY <1>1, <1>2, <1>3, ThreadsAssumption DEF ThreadLimit

LEMMA LimitPop ==
    ASSUME TypeInv, ThreadLimit, frames # <<>>, frames' = Rest,
           g_nThreads' = g_nThreads - 1
    PROVE  ThreadLimit'
<1>1. /\ Len(frames) \in Nat /\ Len(frames') = Len(frames) - 1
    BY Popped DEF TypeInv
<1> QED BY <1>1, ThreadsAssumption DEF ThreadLimit

LEMMA LimitStep ==
    ASSUME "always" \notin HostFirstLines,
           TypeInv, ExitInv, ThreadLimit, [Next]_vars
    PROVE  ThreadLimit'
<1>A. 0 \in 0..Timers /\ 1..Timers \subseteq 0..Timers
      /\ g_MaxThreadsTotal <= MAX_THREADS_LIMIT
      /\ g_MaxThreadsTotal \in Nat /\ MAX_THREADS_LIMIT \in Nat
      /\ g_nThreads \in Nat
    BY ThreadsAssumption DEF TypeInv, TypeOK
<1>1. ASSUME NEW priority \in Priorities, NEW first \in FirstLines,
             LaunchMsg(priority, first)
      PROVE  ThreadLimit'
    <2>1. Push("msg", 0) /\ g_nThreads <= MAX_THREADS_LIMIT
        BY <1>1, <1>A DEF LaunchMsg, Launch, RoomFor
    <2> QED BY <2>1, <1>A, LimitPush DEF Kinds
<1>2. ASSUME NEW t \in 1..Timers, NEW first \in FirstLines,
             LaunchTimer(t, first)
      PROVE  ThreadLimit'
    <2>1. Push("timer", t) /\ g_nThreads <= MAX_THREADS_LIMIT
        BY <1>2, <1>A DEF LaunchTimer, Launch, TimersAllowed
    <2> QED BY <2>1, <1>A, LimitPush DEF Kinds
<1>3. ASSUME NEW kind \in ExitKinds, ExitApp(kind), ~TerminateApp
      PROVE  ThreadLimit'
    <2>1. Push(kind, 0) /\ ~sExitLabelIsRunning
        BY <1>3 DEF ExitApp
    <2>2. ~(frames # <<>> /\ Top.kind \in ExitKinds)
        BY <2>1 DEF ExitInv
    <2>3. g_nThreads <= MAX_THREADS_LIMIT + 1
        BY <2>2, <1>A DEF ThreadLimit
    <2>4. kind \in Kinds
        BY DEF ExitKinds, Kinds
    <2> QED BY <2>1, <2>3, <2>4, <1>A, LimitPush
<1>4. ASSUME NEW first \in HostFirstLines, callFunc(first)
      PROVE  ThreadLimit'
    <2>1. Push("func", 0) /\ g_nThreads <= MAX_THREADS_LIMIT
        BY <1>4, <1>A DEF callFunc, Launch
    <2> QED BY <2>1, <1>A, LimitPush DEF Kinds
<1>5. CASE \/ FinishMsg \/ FinishTimer \/ FinishAutoExec
           \/ (FinishExit /\ ~TerminateApp)
    <2>1. /\ frames # <<>> /\ frames' = Rest
          /\ g_nThreads' = g_nThreads - 1
        BY <1>5 DEF FinishMsg, FinishTimer, TimerReturns, FinishExit,
                    FinishAutoExec, ResumeUnderlyingThread
    <2> QED BY <2>1, LimitPop
<1>6. ASSUME NEW t \in 1..Timers, NEW first, NextTimer(t, first)
      PROVE  ThreadLimit'
    <2>1. /\ frames # <<>> /\ Top.kind = "timer"
          /\ Len(frames') = Len(frames)
        BY <1>6, Swapped DEF TypeInv
    <2>2. UNCHANGED g_nThreads
        BY <1>6 DEF NextTimer, counters
    <2> QED BY <2>1, <2>2, <1>A DEF ThreadLimit, ExitKinds
<1>7. CASE TerminateApp \/ CommandStep \/ PumpStep \/ UNCHANGED vars
    <2>1. UNCHANGED <<frames, g_nThreads>>
        BY <1>7 DEF TerminateApp, CommandStep, PumpStep, ChangePauseState,
            Critical, ThreadPriority, ThreadNoTimers, ThreadInterrupt,
            LineCountExceeded, OpenDialog, CloseDialog, EnterMainLoop,
            AutoExecSectionTimeout, UninterruptibleTimeout, WM_ENTERMENULOOP,
            WM_EXITMENULOOP, ExecuteLabel, FinishLabel, Rescheduled, stack,
            counters, vars
    <2> QED BY <2>1 DEF ThreadLimit, Top
<1> QED
    BY <1>1, <1>2, <1>3, <1>4, <1>5, <1>6, <1>7
    DEF Next, LaunchStep, FinishStep

\* There are never more threads than the absolute limit, the one that may
\* always start and OnExit's: unless a host calls a function whose first line
\* is one of those that may always start, for which callFunc, unlike MsgSleep,
\* never looks at the limit.
THEOREM ThreadsLimited ==
    ASSUME "always" \notin HostFirstLines
    PROVE  Spec => []ThreadLimit
<1> DEFINE Inv == TypeInv /\ ExitInv /\ ThreadLimit
<1>1. Init => ThreadLimit
    <2> SUFFICES ASSUME Init PROVE ThreadLimit
        OBVIOUS
    <2>1. Len(frames) \in {0, 1} /\ g_nThreads = Len(frames)
        BY DEF Init
    <2> QED BY <2>1, ThreadsAssumption DEF ThreadLimit
<1>2. Inv /\ [Next]_vars => Inv'
    BY TypeStep, ExitStep, LimitStep
<1> QED BY <1>1, <1>2, InitType, ExitInit, PTL DEF Spec
=============================================================================
