------------------------------- MODULE Threads -------------------------------
(***************************************************************************)
(* The quasi-thread scheduler of application.cpp and script.cpp.           *)
(*                                                                         *)
(* The program is one OS thread.  A script "thread" is a subroutine that   *)
(* MsgSleep, CheckScriptTimers, ExitApp or callFunc runs on top of the one *)
(* that was waiting for messages: the launcher copies the struct g aside,  *)
(* InitNewThread fills g from g_default, and ResumeUnderlyingThread puts   *)
(* the copy back.  "frames" is that call stack: frames[i].saved is the     *)
(* copy held by the launcher of thread i, that is, the state of thread     *)
(* i - 1 (of the idle thread for i = 1).                                   *)
(*                                                                         *)
(* Every state is one in which the activity on top is at a point where it  *)
(* looks at messages, which every line of a script is (LONG_OPERATION_     *)
(* UPDATE), so a step is one script command or one thread switch.          *)
(***************************************************************************)
EXTENDS Integers, Sequences, FiniteSets

CONSTANTS
    g_MaxThreadsTotal,  \* #MaxThreads
    MAX_THREADS_LIMIT,  \* its absolute limit, 20 in the program
    Timers,             \* the script's timers in list order are 1..Timers
    TimerPriority,      \* TimerPriority[t]: the priority of timer t
    Priorities,         \* other priorities the script uses
    FirstLines,         \* first lines of the subroutines messages launch
    HostFirstLines,     \* first lines of the functions a host calls
    Commands,           \* the scheduling commands the script contains
    InterruptTimes,     \* "Thread, Interrupt" times; Blank is an empty arg
    InterruptLines,     \* "Thread, Interrupt" line counts
    Persistent,         \* IS_PERSISTENT when the auto-execute section ends
    MaxLabelRuns,       \* bound: nested AHK_EXECUTE_LABEL runs; 0 if no host
    MaxPausedCount      \* bound: no Pause when g_nPausedThreads is there

PRIORITY_MINIMUM == -1  \* INT_MIN in the program: below every other one
Blank == -2             \* an omitted argument, which ATOI reads as 0

AllFirstLines == {"plain", "critical", "always"}
AllCommands ==
    {"pause", "critical", "notimers", "priority", "interrupt", "msgbox",
     "error", "onexit", "menu"}

ASSUME ThreadsAssumption ==
    /\ g_MaxThreadsTotal \in Nat /\ MAX_THREADS_LIMIT \in Nat
    /\ g_MaxThreadsTotal <= MAX_THREADS_LIMIT
    /\ Timers \in Nat
    /\ Priorities \subseteq Nat /\ 0 \in Priorities
    /\ TimerPriority \in [1..Timers -> Priorities]
    /\ FirstLines \subseteq AllFirstLines
    /\ HostFirstLines \subseteq AllFirstLines
    /\ Commands \subseteq AllCommands
    /\ InterruptTimes \subseteq Int /\ InterruptLines \subseteq Int
    /\ Persistent \in BOOLEAN /\ MaxLabelRuns \in Nat
    /\ MaxPausedCount \in Nat

VARIABLES
    g,                  \* the running thread's struct (the fields that schedule)
    g_default,          \* what a new thread starts from
    doing,              \* what the activity on top is in the middle of
    frames,             \* the launchers' saved state, oldest first
    labels,             \* host label runs in progress, oldest first
    phase,              \* where OldWinMain is
    g_nThreads, g_nPausedThreads, g_IdleIsPaused,
    g_AllowInterruption, g_MenuIsVisible, sExitLabelIsRunning,
    g_UninterruptibleTimerExists, g_AutoExecTimerExists,
    late,               \* killed timers whose WM_TIMER is still in the queue
    mExistingThreads,   \* threads of each timer
    mUninterruptibleTime, mUninterruptedLineCountMax

settings == <<mUninterruptibleTime, mUninterruptedLineCountMax>>
clocks   == <<g_UninterruptibleTimerExists, g_AutoExecTimerExists, late>>
counters == <<g_nThreads, g_nPausedThreads, g_IdleIsPaused>>
switches == <<g_AllowInterruption, g_MenuIsVisible, sExitLabelIsRunning>>
stack    == <<doing, frames, labels>>
vars == <<g, g_default, stack, phase, counters, switches, clocks,
          mExistingThreads, settings>>

-----------------------------------------------------------------------------
(* Types *)

AllPriorities == Priorities \cup {PRIORITY_MINIMUM}
ThreadState ==
    [IsPaused : BOOLEAN, UnderlyingThreadIsPaused : BOOLEAN,
     Priority : AllPriorities, AllowThreadToBeInterrupted : BOOLEAN,
     ThreadIsCritical : BOOLEAN, AllowTimers : BOOLEAN]

\* The auto-execute section; between it and the event loop, with or without an
\* ExitApp to do first because nothing keeps the script running; the event loop.
Phases == {"auto", "nonpersistent", "init", "idle", "exited"}

\* "dialog": in a MsgBox.  "error": in the dialog of a runtime error.
\* "failed": that dialog closed, the command returns FAIL.  "menu": in the
\* modal loop of a menu bar.
Doing == {"none", "dialog", "error", "failed", "menu"}

\* "destroy" is an ExitApp that terminates after the OnExit subroutine.
Kinds == {"auto", "msg", "timer", "func", "exit", "destroy"}
ExitKinds == {"exit", "destroy"}
EmergencyKinds == ExitKinds \cup {"func"}

Frame == [kind : Kinds, saved : ThreadState, doing : Doing,
          timer : 0..Timers,
          allow : BOOLEAN, pending : BOOLEAN]
LabelRun == [depth : Nat, doing : Doing]

TypeOK ==
    /\ g \in ThreadState /\ g_default \in ThreadState
    /\ doing \in Doing /\ frames \in Seq(Frame) /\ labels \in Seq(LabelRun)
    /\ phase \in Phases
    /\ g_nThreads \in Nat /\ g_nPausedThreads \in Int
    /\ g_IdleIsPaused \in BOOLEAN /\ g_AllowInterruption \in BOOLEAN
    /\ g_MenuIsVisible \in BOOLEAN /\ sExitLabelIsRunning \in BOOLEAN
    /\ g_UninterruptibleTimerExists \in BOOLEAN
    /\ g_AutoExecTimerExists \in BOOLEAN
    /\ late \subseteq {"uninterruptible", "autoexec"}
    /\ mExistingThreads \in [1..Timers -> Int]
    /\ mUninterruptibleTime \in Int /\ mUninterruptedLineCountMax \in Int

Top == frames[Len(frames)]
RestKept == frames                                                \* mutant
Rest == SubSeq(frames, 1, Len(frames) - 1)

-----------------------------------------------------------------------------
(* Conditions of the code *)

EmergencyInOnExit == ~g_MenuIsVisible                            \* mutant
INTERRUPTIBLE_IN_EMERGENCY == g_AllowInterruption /\ ~g_MenuIsVisible
InterruptibleAlways == INTERRUPTIBLE_IN_EMERGENCY                  \* mutant
INTERRUPTIBLE ==
    g.AllowThreadToBeInterrupted /\ INTERRUPTIBLE_IN_EMERGENCY

\* Messages are fetched and dispatched: always, except between the end of
\* the auto-execute section and the main event loop.
Pumping == phase # "exited" /\ (phase \in {"auto", "idle"} \/ frames # <<>>)

\* A host label is what runs on top, inside the thread it interrupted.
InLabel == labels # <<>> /\ labels[Len(labels)].depth = Len(frames)

\* The activity on top can execute a line: ExecUntil holds a paused thread
\* in "while (g.IsPaused) MsgSleep" before each one.
AtLine == doing = "none" /\ ~g.IsPaused
Scripting == phase # "exited" /\ (frames # <<>> \/ InLabel) /\ AtLine

\* Execute() returns: at the line that ends the subroutine, or on FAIL.
Returning == AtLine \/ doing = "failed"

-----------------------------------------------------------------------------
(* Timers of the message pump.  KillTimer leaves a WM_TIMER that is already
   in the queue where it is, so that its TimerProc still runs once.        *)

KillTimer(exists, name) ==
    IF exists THEN late' \in {late, late \cup {name}} ELSE UNCHANGED late

KILL_UNINTERRUPTIBLE_TIMER ==
    /\ KillTimer(g_UninterruptibleTimerExists, "uninterruptible")
    /\ g_UninterruptibleTimerExists' = FALSE
    /\ UNCHANGED g_AutoExecTimerExists

-----------------------------------------------------------------------------
(* Launching and resuming *)

StartsCritical(skip, first) ==
    ~skip /\ (g_default.ThreadIsCritical \/ first = "critical")
StartsShielded(skip, first) ==
    /\ ~skip
    /\ \/ mUninterruptibleTime # 0 /\ mUninterruptedLineCountMax # 0
       \/ StartsCritical(skip, first)
StartsTimer(skip, first) ==
    /\ StartsShielded(skip, first) /\ mUninterruptibleTime > 0
    /\ ~StartsCritical(skip, first)

\* g after InitNewThread: the defaults, marked with the pause state of the
\* thread it was called in.
InitNewThread(priority, skip, first) ==
    g' = [g_default EXCEPT
            !.UnderlyingThreadIsPaused = g.IsPaused,
            !.Priority = priority,
            !.ThreadIsCritical = @ \/ StartsCritical(skip, first),
            !.AllowThreadToBeInterrupted =
                @ /\ ~StartsShielded(skip, first)]

Push(kind, timer) ==
    /\ frames' = Append(frames,
            [kind |-> kind, saved |-> g, doing |-> doing,
             timer |-> timer,
             allow |-> g_AllowInterruption,
             pending |-> g_UninterruptibleTimerExists])
    /\ doing' = "none"
    /\ g_nThreads' = g_nThreads + 1
    /\ UNCHANGED <<labels, g_nPausedThreads, g_IdleIsPaused>>

\* A launch that may start the uninterruptible timer.
Launch(kind, priority, timer, first) ==
    /\ Push(kind, timer)
    /\ InitNewThread(priority, FALSE, first)
    /\ g_UninterruptibleTimerExists' =
            (g_UninterruptibleTimerExists \/ StartsTimer(FALSE, first))
    /\ UNCHANGED <<g_AutoExecTimerExists, late>>

AsIdleShielded(state) ==                                          \* mutant
    [state EXCEPT !.AllowTimers = TRUE, !.Priority = PRIORITY_MINIMUM]
\* The struct the idle thread gets back in MsgSleep's WAIT_FOR_MESSAGES mode.
AsIdle(state) ==
    [state EXCEPT !.AllowThreadToBeInterrupted = TRUE,
                  !.ThreadIsCritical = FALSE, !.AllowTimers = TRUE,
                  !.Priority = PRIORITY_MINIMUM]

\* The struct of the thread beneath as ResumeUnderlyingThread leaves it: "mark"
\* is the pause state that the ending thread wants it to have.
ResumedAsSaved(saved, mark) == [saved EXCEPT !.IsPaused = mark]   \* mutant
Resumed(saved, mark) ==
    [saved EXCEPT !.IsPaused = mark,
                  !.AllowThreadToBeInterrupted = ~saved.ThreadIsCritical]

CountWithIdle(saved, mark, beneath) ==                            \* mutant
    IF saved.IsPaused # mark THEN g_nPausedThreads + (IF mark THEN 1 ELSE -1)
                             ELSE g_nPausedThreads
CountUnpauseOnly(saved, mark, beneath) ==                         \* mutant
    IF ~mark /\ beneath # 0 THEN g_nPausedThreads - 1 ELSE g_nPausedThreads
PausedCountAfter(saved, mark, beneath) ==
    IF saved.IsPaused # mark /\ beneath # 0
    THEN g_nPausedThreads + (IF mark THEN 1 ELSE -1)
    ELSE g_nPausedThreads

\* Everything but the uninterruptible timer, which is left to the caller.
ResumeUnderlyingThread(idle) ==
    LET saved   == Top.saved
        mark    == g.UnderlyingThreadIsPaused
        beneath == g_nThreads - 1
    IN  /\ g' = IF idle THEN AsIdle(Resumed(saved, mark))
                        ELSE Resumed(saved, mark)
        /\ g_nThreads' = beneath
        /\ g_nPausedThreads' = PausedCountAfter(saved, mark, beneath)
        /\ g_IdleIsPaused' = IF saved.IsPaused # mark /\ beneath = 0
                             THEN mark ELSE g_IdleIsPaused
        /\ frames' = Rest /\ doing' = Top.doing
        /\ UNCHANGED labels

-----------------------------------------------------------------------------
(* MsgSleep: hotkeys, hotstrings, GUI events, menu items, clipboard changes *)

RoomUnlimited(first) ==                                           \* mutant
    g_nThreads < g_MaxThreadsTotal \/ first = "always"
RoomFor(first) ==
    \/ g_nThreads < g_MaxThreadsTotal
    \/ g_nThreads <= MAX_THREADS_LIMIT /\ first = "always"

LaunchMsg(priority, first) ==
    /\ Pumping /\ INTERRUPTIBLE
    /\ RoomFor(first)
    /\ priority >= g.Priority
    /\ Launch("msg", priority, 0, first)
    /\ UNCHANGED <<g_default, phase, switches, mExistingThreads, settings>>

\* The subroutine returns to MsgSleep or callFunc.  The main event loop, which
\* is what MsgSleep is when nothing else runs, also resets the idle thread.
FinishMsg ==
    /\ frames # <<>> /\ Top.kind \in {"msg", "func"}
    /\ ~InLabel /\ Returning
    /\ ResumeUnderlyingThread(Top.kind = "msg" /\ phase = "idle"
                                 /\ Len(frames) = 1 /\ labels = <<>>)
    /\ KILL_UNINTERRUPTIBLE_TIMER
    /\ UNCHANGED <<g_default, phase, switches, mExistingThreads, settings>>

-----------------------------------------------------------------------------
(* CheckScriptTimers.  Which timers are enabled and due is left open here:
   see module MsgSleep.                                                 *)

EligibleAgain(t) == TimerPriority[t] >= g.Priority                \* mutant
Eligible(t) == mExistingThreads[t] < 1 /\ TimerPriority[t] >= g.Priority

TimersWhileIdlePaused ==                                          \* mutant
    /\ INTERRUPTIBLE /\ g_nPausedThreads <= 0
    /\ g.AllowTimers /\ g_nThreads < g_MaxThreadsTotal
TimersAllowed ==
    /\ INTERRUPTIBLE /\ g_nPausedThreads <= 0 /\ ~g_IdleIsPaused
    /\ g.AllowTimers /\ g_nThreads < g_MaxThreadsTotal

LaunchTimer(t, first) ==
    /\ Pumping /\ TimersAllowed
    /\ Eligible(t)
    /\ Launch("timer", TimerPriority[t], t, first)
    /\ mExistingThreads' = [mExistingThreads EXCEPT ![t] = @ + 1]
    /\ UNCHANGED <<g_default, phase, switches, settings>>

TimerReturns ==
    frames # <<>> /\ Top.kind = "timer" /\ ~InLabel /\ Returning

\* The loop goes on to a later timer of the list: the new thread takes the
\* place of the finished one, with none of the checks made before the loop.
NextTimer(t, first) ==
    /\ TimerReturns
    /\ t > Top.timer /\ Eligible(t)
    /\ mExistingThreads' = [mExistingThreads EXCEPT ![Top.timer] = @ - 1,
                                                    ![t] = @ + 1]
    /\ InitNewThread(TimerPriority[t], FALSE, first)
    /\ KillTimer(g_UninterruptibleTimerExists, "uninterruptible")
    /\ g_UninterruptibleTimerExists' = StartsTimer(FALSE, first)
    /\ frames' = [frames EXCEPT ![Len(frames)] =
                    [Top EXCEPT !.timer = t]]
    /\ doing' = "none"
    /\ UNCHANGED <<labels, g_default, phase, counters, switches,
                   g_AutoExecTimerExists, settings>>

FinishTimer ==
    /\ TimerReturns
    /\ mExistingThreads' = [mExistingThreads EXCEPT ![Top.timer] = @ - 1]
    /\ KILL_UNINTERRUPTIBLE_TIMER
    /\ ResumeUnderlyingThread(FALSE)
    /\ UNCHANGED <<g_default, phase, switches, settings>>

-----------------------------------------------------------------------------
(* ExitApp *)

mOnExitLabel == "onexit" \in Commands
TerminateApp ==
    /\ phase' = "exited"
    /\ UNCHANGED <<g, g_default, stack, counters, switches, clocks,
                   mExistingThreads, settings>>

\* Asked for by the ExitApp command, by WM_CLOSE, WM_ENDSESSION, WM_QUIT or
\* a new instance at any time messages are dispatched, and by OldWinMain when
\* the script is not persistent.
ExitApp(kind) ==
    /\ Pumping \/ phase = "nonpersistent"
    /\ IF ~mOnExitLabel \/ sExitLabelIsRunning
       THEN TerminateApp
       ELSE /\ Push(kind, 0)
            /\ InitNewThread(0, TRUE, "plain")
            /\ g_AllowInterruption' = FALSE
            /\ sExitLabelIsRunning' = TRUE
            /\ phase' = IF phase = "nonpersistent" THEN "init" ELSE phase
            /\ UNCHANGED <<g_default, g_MenuIsVisible, clocks,
                           mExistingThreads, settings>>

\* The OnExit subroutine ends without exiting the program.
FinishExit ==
    /\ frames # <<>> /\ Top.kind \in ExitKinds /\ ~InLabel /\ Returning
    /\ IF doing = "failed" \/ Top.kind = "destroy"
       THEN TerminateApp
       ELSE /\ ResumeUnderlyingThread(FALSE)
            /\ sExitLabelIsRunning' = FALSE
            /\ g_AllowInterruption' = Top.allow
            /\ g_UninterruptibleTimerExists' =
                    (g_UninterruptibleTimerExists \/ Top.pending)
            /\ UNCHANGED <<g_default, phase, g_MenuIsVisible, late,
                           g_AutoExecTimerExists, mExistingThreads, settings>>

-----------------------------------------------------------------------------
(* AutoExecSection, OldWinMain and the TimerProcs *)

global_clear_state(state) ==
    [state EXCEPT !.IsPaused = FALSE, !.UnderlyingThreadIsPaused = FALSE]

KILL_AUTOEXEC_TIMER ==
    /\ KillTimer(g_AutoExecTimerExists, "autoexec")
    /\ g_AutoExecTimerExists' = FALSE
    /\ UNCHANGED g_UninterruptibleTimerExists
Uncritical(state) ==
    [state EXCEPT !.AllowThreadToBeInterrupted = ~state.ThreadIsCritical]

FinishAutoExec ==
    /\ frames # <<>> /\ Top.kind = "auto" /\ ~InLabel /\ Returning
    /\ g_nThreads' = g_nThreads - 1
    /\ KILL_AUTOEXEC_TIMER
    /\ g' = Uncritical(g)
    /\ phase' = IF Persistent THEN "init" ELSE "nonpersistent"
    /\ frames' = Rest /\ doing' = "none"
    /\ UNCHANGED <<labels, g_default, g_nPausedThreads, g_IdleIsPaused,
                   switches, mExistingThreads, settings>>

EnterMainLoop ==
    /\ phase = "init" /\ frames = <<>>
    /\ phase' = "idle"
    /\ g_default' = global_clear_state(g)
    /\ g' = AsIdle(global_clear_state(g))
    /\ UNCHANGED <<stack, counters, switches, clocks, mExistingThreads, settings>>

AutoExecSectionTimeout ==
    /\ Pumping
    /\ \/ g_AutoExecTimerExists /\ UNCHANGED late
       \/ "autoexec" \in late /\ late' = late \ {"autoexec"}
    /\ g_AutoExecTimerExists' = FALSE
    /\ g' = Uncritical(g)
    /\ g_default' = IF phase = "auto" THEN global_clear_state(Uncritical(g))
                                     ELSE g_default
    /\ UNCHANGED <<stack, phase, counters, switches, mExistingThreads,
                   settings, g_UninterruptibleTimerExists>>

UninterruptibleTimeout ==
    /\ Pumping
    /\ \/ g_UninterruptibleTimerExists /\ UNCHANGED late
       \/ "uninterruptible" \in late /\ late' = late \ {"uninterruptible"}
    /\ g_UninterruptibleTimerExists' = FALSE
    /\ g' = Uncritical(g)
    /\ UNCHANGED <<g_default, stack, phase, counters, switches,
                   mExistingThreads, settings, g_AutoExecTimerExists>>

-----------------------------------------------------------------------------
(* Script commands.  None of them launches or ends a thread.               *)

Command(name) == name \in Commands /\ Scripting
Rescheduled == UNCHANGED <<g_default, stack, phase, switches, mExistingThreads>>

\* Pause, mode[, OperateOnUnderlyingThread]
ChangePauseState(mode, aAlwaysOperateOnUnderlyingThread) ==
    /\ Command("pause")
    /\ \/ /\ mode = "off" \/ (mode = "toggle" /\ g.UnderlyingThreadIsPaused)
          /\ g' = [g EXCEPT !.UnderlyingThreadIsPaused = FALSE]
          /\ UNCHANGED counters
       \/ /\ g_nPausedThreads < MaxPausedCount
          /\ mode = "on" \/ (mode = "toggle" /\ ~g.UnderlyingThreadIsPaused)
          /\ IF aAlwaysOperateOnUnderlyingThread
             THEN /\ g' = [g EXCEPT !.UnderlyingThreadIsPaused = TRUE]
                  /\ UNCHANGED counters
             ELSE /\ g' = [g EXCEPT !.IsPaused = TRUE]
                  /\ g_nPausedThreads' = g_nPausedThreads + 1
                  /\ UNCHANGED <<g_nThreads, g_IdleIsPaused>>
    /\ Rescheduled /\ UNCHANGED <<clocks, settings>>

Critical(on) ==
    /\ Command("critical")
    /\ g' = [g EXCEPT !.ThreadIsCritical = on,
                      !.AllowThreadToBeInterrupted = ~on]
    /\ KILL_UNINTERRUPTIBLE_TIMER
    /\ Rescheduled /\ UNCHANGED <<counters, settings>>

ThreadPriority(priority) ==
    /\ Command("priority")
    /\ g' = [g EXCEPT !.Priority = priority]
    /\ Rescheduled /\ UNCHANGED <<counters, clocks, settings>>

ThreadNoTimers(off) ==
    /\ Command("notimers")
    /\ g' = [g EXCEPT !.AllowTimers = ~off]
    /\ Rescheduled /\ UNCHANGED <<counters, clocks, settings>>

\* Thread, Interrupt, time, lines: "if (*ARG1)" is true of the word Interrupt
\* itself, and "if (*ARG2)" asks whether the time is given.
ThreadInterrupt(time, lines) ==
    LET ATOI(arg) == IF arg = Blank THEN 0 ELSE arg
    IN  /\ Command("interrupt")
        /\ mUninterruptibleTime' = ATOI(time)
        /\ mUninterruptedLineCountMax' =
                IF time # Blank THEN ATOI(lines) ELSE mUninterruptedLineCountMax
        /\ Rescheduled /\ UNCHANGED <<g, counters, clocks>>

\* ExecUntil has counted more uninterrupted lines than the setting allows.
LineCountExceeded ==
    /\ Scripting
    /\ ~g.AllowThreadToBeInterrupted /\ ~g.ThreadIsCritical
    /\ mUninterruptedLineCountMax > -1
    /\ g' = [g EXCEPT !.AllowThreadToBeInterrupted = TRUE]
    /\ KILL_UNINTERRUPTIBLE_TIMER
    /\ Rescheduled /\ UNCHANGED <<counters, settings>>

\* MsgBox, from the MsgBox command or from LineError.  DialogPrep's body is
\* commented out: it changes nothing and returns no value, so what DIALOG_END
\* stores is any boolean.
OpenDialog(error) ==
    /\ Command(IF error THEN "error" ELSE "msgbox")
    /\ doing' = IF error THEN "error" ELSE "dialog"
    /\ UNCHANGED <<g, g_default, frames, labels, phase, counters, switches,
                   clocks, mExistingThreads, settings>>

CloseDialog(thread_was_critical) ==
    /\ phase # "exited" /\ doing \in {"dialog", "error"}
    /\ doing' = IF doing = "error" THEN "failed" ELSE "none"
    /\ g' = [g EXCEPT !.ThreadIsCritical = thread_was_critical,
                      !.AllowThreadToBeInterrupted = ~thread_was_critical]
    /\ UNCHANGED <<g_default, frames, labels, phase, counters, switches,
                   clocks, mExistingThreads, settings>>

\* HANDLE_MENU_LOOP: the modal loop of a menu bar, run from inside the
\* message pump of the activity on top.  Bound: not from inside a dialog.
WM_ENTERMENULOOP ==
    /\ Pumping /\ "menu" \in Commands /\ doing = "none" /\ ~g_MenuIsVisible
    /\ g_MenuIsVisible' = TRUE /\ doing' = "menu"
    /\ UNCHANGED <<g, g_default, frames, labels, phase, counters, clocks,
                   mExistingThreads, settings, g_AllowInterruption,
                   sExitLabelIsRunning>>
WM_EXITMENULOOP ==
    /\ Pumping /\ doing = "menu"
    /\ g_MenuIsVisible' = FALSE /\ doing' = "none"
    /\ UNCHANGED <<g, g_default, frames, labels, phase, counters, clocks,
                   mExistingThreads, settings, g_AllowInterruption,
                   sExitLabelIsRunning>>

-----------------------------------------------------------------------------
(* A host program: ahkFunction and ahkLabel post messages that MainWindowProc
   handles whenever anything dispatches them.                              *)

callFunc(first) ==
    /\ Pumping /\ INTERRUPTIBLE_IN_EMERGENCY
    /\ g_nThreads >= g_MaxThreadsTotal => first = "always"
    /\ Launch("func", 0, 0, first)
    /\ UNCHANGED <<g_default, phase, switches, mExistingThreads, settings>>

\* AHK_EXECUTE_LABEL runs the subroutine without launching a thread for it.
ExecuteLabel ==
    /\ Pumping /\ Len(labels) < MaxLabelRuns
    /\ labels' = Append(labels, [depth |-> Len(frames), doing |-> doing])
    /\ doing' = "none"
    /\ UNCHANGED <<g, g_default, frames, phase, counters, switches, clocks,
                   mExistingThreads, settings>>

FinishLabel ==
    /\ phase # "exited" /\ InLabel /\ Returning
    /\ doing' = labels[Len(labels)].doing
    /\ labels' = SubSeq(labels, 1, Len(labels) - 1)
    /\ UNCHANGED <<g, g_default, frames, phase, counters, switches, clocks,
                   mExistingThreads, settings>>

-----------------------------------------------------------------------------
(* The specification *)

global_init ==
    [IsPaused |-> FALSE, UnderlyingThreadIsPaused |-> FALSE, Priority |-> 0,
     AllowThreadToBeInterrupted |-> TRUE, ThreadIsCritical |-> FALSE,
     AllowTimers |-> TRUE]

\* AutoExecSection has just started, or there is no line for it to run.
Init ==
    /\ g_default = global_init
    /\ phase \in {"auto", IF Persistent THEN "init" ELSE "nonpersistent"}
    /\ g_AutoExecTimerExists = (phase = "auto")
    /\ g = [global_init EXCEPT !.AllowThreadToBeInterrupted = phase # "auto"]
    /\ frames = IF phase # "auto" THEN <<>> ELSE
            << [kind |-> "auto", saved |-> global_init, doing |-> "none",
                timer |-> 0, allow |-> TRUE,
                pending |-> FALSE] >>
    /\ g_nThreads = Len(frames)
    /\ doing = "none" /\ labels = <<>>
    /\ g_nPausedThreads = 0 /\ g_IdleIsPaused = FALSE
    /\ g_AllowInterruption = TRUE /\ g_MenuIsVisible = FALSE
    /\ sExitLabelIsRunning = FALSE
    /\ g_UninterruptibleTimerExists = FALSE /\ late = {}
    /\ mExistingThreads = [t \in 1..Timers |-> 0]
    /\ mUninterruptibleTime \in InterruptTimes \ {Blank}
    /\ mUninterruptedLineCountMax \in InterruptLines \ {Blank}

LaunchStep ==
    \/ \E priority \in Priorities, first \in FirstLines :
          LaunchMsg(priority, first)
    \/ \E t \in 1..Timers, first \in FirstLines : LaunchTimer(t, first)
    \/ \E kind \in ExitKinds : ExitApp(kind)
    \/ \E first \in HostFirstLines : callFunc(first)

FinishStep ==
    \/ FinishMsg \/ FinishTimer \/ FinishExit \/ FinishAutoExec
    \/ \E t \in 1..Timers, first \in FirstLines : NextTimer(t, first)

CommandStep ==
    \/ \E mode \in {"on", "off", "toggle"}, underlying \in BOOLEAN :
          ChangePauseState(mode, underlying)
    \/ \E on \in BOOLEAN : Critical(on)
    \/ \E priority \in Priorities : ThreadPriority(priority)
    \/ \E off \in BOOLEAN : ThreadNoTimers(off)
    \/ \E time \in InterruptTimes, lines \in InterruptLines :
          ThreadInterrupt(time, lines)
    \/ LineCountExceeded
    \/ \E error \in BOOLEAN : OpenDialog(error)
    \/ \E thread_was_critical \in BOOLEAN : CloseDialog(thread_was_critical)

PumpStep ==
    \/ EnterMainLoop \/ AutoExecSectionTimeout \/ UninterruptibleTimeout
    \/ WM_ENTERMENULOOP \/ WM_EXITMENULOOP
    \/ ExecuteLabel \/ FinishLabel

Next == LaunchStep \/ FinishStep \/ CommandStep \/ PumpStep
Spec == Init /\ [][Next]_vars

-----------------------------------------------------------------------------
(* Properties *)

Depth == 1..Len(frames)

\* g_nThreads is the number of threads on the stack, and the absolute limit
\* of globaldata.h:90 holds but for the one thread beyond it that MsgSleep
\* allows (application.cpp:856) and an OnExit thread, which is never refused.
ThreadLimit ==
    /\ g_nThreads = Len(frames)
    /\ g_nThreads <= MAX_THREADS_LIMIT +
            (IF frames # <<>> /\ Top.kind \in ExitKinds THEN 2 ELSE 1)

\* The pause state of thread i, 0 being the idle thread (or, before the main
\* loop, OldWinMain itself).
PausedAt(i) ==
    IF i = Len(frames) THEN g.IsPaused ELSE frames[i + 1].saved.IsPaused

\* g_nPausedThreads counts the paused threads and g_IdleIsPaused is the pause
\* state of the idle thread, whatever order threads are launched, paused,
\* marked and resumed in: CheckScriptTimers and the tray icon rely on it.
PausedCountExact ==
    /\ g_nPausedThreads = Cardinality({i \in Depth : PausedAt(i)})
    /\ g_IdleIsPaused = PausedAt(0)

\* The weaker half of it that survives runtime errors, host labels and scripts
\* that are not persistent: a paused thread is never left out of the count, so
\* that timers cannot start while one exists.
PausedNeverMissed ==
    /\ g_nPausedThreads >= Cardinality({i \in Depth : PausedAt(i)})
    /\ PausedAt(0) => (g_IdleIsPaused \/ g_nPausedThreads > 0)

\* "as documented, timers don't run when any thread is paused"
\* (application.cpp:1565): nothing beneath a timer's thread is paused, however
\* the threads above it and the later timers of the same loop behave.
TimersRunUnpaused ==
    \A i \in Depth : frames[i].kind = "timer" =>
        \A j \in 1..i : ~frames[j].saved.IsPaused

\* A thread that is uninterruptible, critical or not, is only ever covered by
\* an emergency thread: OnExit's or a host's function call.
UninterruptibleRespected ==
    \A i \in Depth : ~frames[i].saved.AllowThreadToBeInterrupted =>
        frames[i].kind \in EmergencyKinds

\* The OnExit thread is "permanently uninterruptible (i.e. until it finishes)"
\* (script.cpp:774): no thread is ever launched above it.
ExitRunsAlone ==
    \A i \in Depth : frames[i].kind \in ExitKinds => i = Len(frames)

\* A timer has at most one thread, and mExistingThreads knows it, through
\* interruptions of the timer loop by other instances of the same loop.
TimerNotReentered ==
    \A t \in 1..Timers :
        /\ mExistingThreads[t] =
                Cardinality({i \in Depth : frames[i].timer = t})
        /\ mExistingThreads[t] <= 1

\* A thread that starts uninterruptible without being critical has a timer
\* that ends it: losing it would leave the script "permanently
\* uninterruptible" (globaldata.h:255).
NeverStranded ==
    (~g.AllowThreadToBeInterrupted /\ ~g.ThreadIsCritical) =>
        (g_UninterruptibleTimerExists \/ g_AutoExecTimerExists)

\* When no thread runs, whatever ran before, the script answers every event:
\* "Ensure minimum priority so that idle state can always be interrupted".
IdleAnswers ==
    (phase = "idle" /\ frames = <<>> /\ ~g_MenuIsVisible) =>
        INTERRUPTIBLE /\ g.Priority = PRIORITY_MINIMUM /\ g.AllowTimers

\* What a thread asked for with Pause, as to the thread beneath it, is carried
\* out when it ends: "Flag this thread so that when it ends, the thread beneath
\* it will be unpaused", "Allow underlying thread to be directly paused"
\* (script.cpp:12220, 12243).  A later timer of the same loop takes the place
\* of the ending thread and is to have its mark, as nothing else remembers it.
ThreadEnds ==
    /\ frames # <<>> /\ Top.kind # "auto" /\ frames' # frames
    /\ Len(frames') <= Len(frames)
PauseMarkHonoured ==
    [][ThreadEnds => IF Len(frames') < Len(frames)
                     THEN g'.IsPaused = g.UnderlyingThreadIsPaused
                     ELSE g'.UnderlyingThreadIsPaused
                            = g.UnderlyingThreadIsPaused]_vars

\* The message pump delivers the WM_TIMER of both timers: an uninterruptible
\* thread looks at its messages too, and Windows posts them while asked to.
FairSpec == /\ Spec
            /\ WF_vars(UninterruptibleTimeout)
            /\ WF_vars(AutoExecSectionTimeout)

\* The shield a thread starts with never outlives its timer, whoever else
\* starts, kills or is hit by that one timer in the meantime.
ShieldExpires ==
    (~g.AllowThreadToBeInterrupted /\ ~g.ThreadIsCritical)
        ~> (g.AllowThreadToBeInterrupted \/ g.ThreadIsCritical
              \/ phase = "exited")
=============================================================================
