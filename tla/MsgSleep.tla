------------------------------ MODULE MsgSleep ------------------------------
(***************************************************************************)
(* The message pumps on the call stack.                                    *)
(*                                                                         *)
(* Module Threads lets any message come at any time.  This module models   *)
(* how messages come: the queue of the program's one OS thread, and the    *)
(* pumps that take messages from it.  MsgSleep is the script's own pump:   *)
(* one instance of it ("layer") is the main event loop, others wait in the *)
(* commands of the threads above.  A MsgBox has a pump of its own, which   *)
(* knows nothing of threads and hands the messages of the main window to   *)
(* MainWindowProc, which calls MsgSleep in turn.                           *)
(*                                                                         *)
(* One OS timer, the main timer, wakes all of these pumps.  It is what ends *)
(* a Sleep and what runs the script's timers, and it is set and killed by  *)
(* each layer, by each launch of a thread and by SetTimer.                 *)
(***************************************************************************)
EXTENDS Integers, Sequences, FiniteSets

CONSTANTS
    Timers,             \* the script's timers in list order are 1..Timers
    Events,             \* what is posted to the main window
    Shields,            \* why a script's threads may be uninterruptible
    g_MaxThreadsTotal,  \* #MaxThreads
    MaxQueue            \* bound: nothing is posted to a queue of this length

\* Hotkeys, hotstrings and clipboard changes are treated alike, but for the
\* flag of the latter.  "call" is a host's AHK_EXECUTE_FUNCTION.
AllEvents == {"hotkey", "clipboard", "menu", "call"}
Reposted == {"hotkey", "clipboard"}

ASSUME MsgSleepAssumption ==
    /\ Timers \in Nat /\ Events \subseteq AllEvents
    /\ Shields \subseteq {"start", "critical"}
    /\ g_MaxThreadsTotal \in Nat /\ MaxQueue \in Nat

VARIABLES
    calls,              \* pumps and script threads on the call stack
    queue,              \* posted messages; "window" tells g_hWnd from NULL
    ticked,             \* a WM_TIMER of the main timer is to be generated
    g_MainTimerExists, g_nLayersNeedingTimer, g_DeferMessagesForUnderlyingPump,
    mTimerEnabledCount,
    mEnabled, mRunOnlyOnce, mExistingThreads,   \* of each timer
    due,                \* the timer's period has passed since mTimeLastRun
    mOnClipboardChangeIsRunning

scriptTimers == <<mTimerEnabledCount, mEnabled, mRunOnlyOnce, mExistingThreads,
                  due>>
mainTimer == <<ticked, g_MainTimerExists>>
vars == <<calls, queue, mainTimer, g_nLayersNeedingTimer, scriptTimers,
          g_DeferMessagesForUnderlyingPump, mOnClipboardChangeIsRunning>>

-----------------------------------------------------------------------------
(* The call stack *)

\* A call of MsgSleep.  at: in CheckScriptTimers on entry, in the message loop,
\* or in CheckScriptTimers for a WM_TIMER; timer: the last timer that loop ran.
\* elapsed: IsCycleComplete would not ask for more time, which it never does
\* of a layer that allows an early return or does not sleep.
Layer == [kind : {"layer"}, at : {"entry", "loop", "tick"},
          waits : BOOLEAN,      \* WAIT_FOR_MESSAGES: the main event loop
          sleeping : BOOLEAN,   \* aSleepDuration > 0
          elapsed : BOOLEAN,
          peek : BOOLEAN,       \* empty_the_queue_via_peek
          turned : BOOLEAN,     \* we_turned_on_defer
          timer : 0..Timers]
\* A script thread.  timer: which one it runs, 0 if it is not a timer's.
\* shield: why it cannot be interrupted; the start of a thread times out.
Thread == [kind : {"thread"}, event : AllEvents \cup {"timer"},
           timer : 0..Timers, shield : {"none", "start", "critical"}]
Dialog == [kind : {"dialog"}]

MsgSleep(waits, sleeping, early, special) ==
    [kind |-> "layer", at |-> "entry", waits |-> waits, sleeping |-> sleeping,
     elapsed |-> ~sleeping \/ early, peek |-> FALSE, timer |-> 0,
     turned |-> special /\ ~g_DeferMessagesForUnderlyingPump]
NewThread(event, timer) ==
    [kind |-> "thread", event |-> event, timer |-> timer, shield |-> "none"]

Depth == 1..Len(calls)
Top == calls[Len(calls)]
Beneath == SubSeq(calls, 1, Len(calls) - 1)
AtTop(c) == [calls EXCEPT ![Len(calls)] = c]
TopAt(place) == Top.kind = "layer" /\ Top.at = place

ThreadsAt == {i \in Depth : calls[i].kind = "thread"}
Room == Cardinality(ThreadsAt) < g_MaxThreadsTotal
Current(i) == i \in ThreadsAt /\ \A j \in ThreadsAt : j <= i
INTERRUPTIBLE == \A i \in Depth : Current(i) => calls[i].shield = "none"

NeedsTimer(c) == c.kind = "layer" /\ c.sleeping /\ ~c.waits
IsCycleComplete(c) == c.elapsed

-----------------------------------------------------------------------------
(* The main timer *)

SET_MAIN_TIMER == g_MainTimerExists' = TRUE /\ UNCHANGED ticked
KILL_MAIN_TIMER == g_MainTimerExists' = FALSE /\ ticked' \in {ticked, FALSE}

KillAlways(layers, enabled) == TRUE                               \* mutant
NobodyNeedsIt(layers, enabled) == layers = 0 /\ enabled = 0
KillIfUnneeded(layers, enabled) ==
    IF NobodyNeedsIt(layers, enabled) THEN KILL_MAIN_TIMER
                                      ELSE UNCHANGED mainTimer

\* RETURN_FROM_MSGSLEEP, of the layer on top.
LayersKept == g_nLayersNeedingTimer                               \* mutant
LayersCountedAll == g_nLayersNeedingTimer - 1                     \* mutant
LayersAfterReturn ==
    IF NeedsTimer(Top) THEN g_nLayersNeedingTimer - 1 ELSE g_nLayersNeedingTimer
DeferCleared == FALSE                                             \* mutant
DeferAfterReturn ==
    IF Top.turned THEN FALSE ELSE g_DeferMessagesForUnderlyingPump
SetIfStillNeeded ==
    IF g_nLayersNeedingTimer' > 0 THEN SET_MAIN_TIMER ELSE UNCHANGED mainTimer

RETURN_FROM_MSGSLEEP ==
    /\ g_DeferMessagesForUnderlyingPump' = DeferAfterReturn
    /\ g_nLayersNeedingTimer' = LayersAfterReturn
    /\ IF ~g_MainTimerExists THEN SetIfStillNeeded
       ELSE IF Top.sleeping
            THEN KillIfUnneeded(g_nLayersNeedingTimer', mTimerEnabledCount)
            ELSE UNCHANGED mainTimer
    /\ calls' = Beneath
    /\ UNCHANGED <<queue, scriptTimers, mOnClipboardChangeIsRunning>>

-----------------------------------------------------------------------------
(* Script timers *)

\* ScriptTimer::Disable
Disable(t) ==
    /\ mEnabled' = [mEnabled EXCEPT ![t] = FALSE]
    /\ mTimerEnabledCount' = mTimerEnabledCount - 1
    /\ KillIfUnneeded(g_nLayersNeedingTimer, mTimerEnabledCount')

\* The timers the loop of CheckScriptTimers would still run.  The checks that
\* it makes before its first launch are not made again.
EligibleReentered(t) == mEnabled[t] /\ due[t]                     \* mutant
Eligible(t) == mEnabled[t] /\ due[t] /\ mExistingThreads[t] < 1
ToRun ==
    IF Top.timer # 0 \/ (INTERRUPTIBLE /\ Room)
    THEN {t \in 1..Timers : t > Top.timer /\ Eligible(t)}
    ELSE {}

CheckScriptTimers(t) ==
    /\ TopAt("entry") \/ TopAt("tick")
    /\ t \in ToRun /\ \A u \in ToRun : t <= u
    /\ due' = [due EXCEPT ![t] = FALSE]
    /\ IF mRunOnlyOnce[t] THEN Disable(t)
       ELSE UNCHANGED <<mEnabled, mTimerEnabledCount, mainTimer>>
    /\ mExistingThreads' = [mExistingThreads EXCEPT ![t] = @ + 1]
    /\ calls' = Append(AtTop([Top EXCEPT !.timer = t]), NewThread("timer", t))
    /\ UNCHANGED <<queue, g_nLayersNeedingTimer, mRunOnlyOnce,
                   g_DeferMessagesForUnderlyingPump,
                   mOnClipboardChangeIsRunning>>

\* The loop is over, or there was nothing to do.
AfterCheck ==
    /\ TopAt("entry") /\ ToRun = {}
    /\ calls' = AtTop([Top EXCEPT !.at = "loop", !.timer = 0])
    /\ IF NeedsTimer(Top)
       THEN /\ g_nLayersNeedingTimer' = g_nLayersNeedingTimer + 1
            /\ SET_MAIN_TIMER
       ELSE UNCHANGED <<g_nLayersNeedingTimer, mainTimer>>
    /\ UNCHANGED <<queue, scriptTimers, g_DeferMessagesForUnderlyingPump,
                   mOnClipboardChangeIsRunning>>
AfterTick ==
    /\ TopAt("tick") /\ ToRun = {}
    /\ IF Top.waits \/ ~Top.sleeping \/ ~IsCycleComplete(Top)
       THEN /\ calls' = AtTop([Top EXCEPT !.at = "loop", !.timer = 0])
            /\ UNCHANGED <<queue, mainTimer, g_nLayersNeedingTimer,
                           scriptTimers, g_DeferMessagesForUnderlyingPump,
                           mOnClipboardChangeIsRunning>>
       ELSE RETURN_FROM_MSGSLEEP

\* SetTimer, label, On or a period
SetTimerOn(t, once) ==
    /\ Top.kind = "thread"
    /\ mEnabled' = [mEnabled EXCEPT ![t] = TRUE]
    /\ IF mEnabled[t]
       THEN UNCHANGED <<mTimerEnabledCount, mainTimer>>
       ELSE mTimerEnabledCount' = mTimerEnabledCount + 1 /\ SET_MAIN_TIMER
    /\ mRunOnlyOnce' = [mRunOnlyOnce EXCEPT ![t] = once]
    /\ due' = [due EXCEPT ![t] = FALSE]
    /\ UNCHANGED <<calls, queue, g_nLayersNeedingTimer, mExistingThreads,
                   g_DeferMessagesForUnderlyingPump,
                   mOnClipboardChangeIsRunning>>

\* SetTimer, label, Off
SetTimerOff(t) ==
    /\ Top.kind = "thread"
    /\ IF mEnabled[t] THEN Disable(t)
       ELSE UNCHANGED <<mEnabled, mTimerEnabledCount, mainTimer>>
    /\ due' = [due EXCEPT ![t] = FALSE]
    /\ UNCHANGED <<calls, queue, g_nLayersNeedingTimer, mRunOnlyOnce,
                   mExistingThreads, g_DeferMessagesForUnderlyingPump,
                   mOnClipboardChangeIsRunning>>

-----------------------------------------------------------------------------
(* MsgSleep's message loop *)

\* MSG_FILTER_MAX hides every event while the script is uninterruptible.
Visible == INTERRUPTIBLE /\ queue # <<>>
Launchable(event) ==
    Room /\ (event = "clipboard" => ~mOnClipboardChangeIsRunning)

\* A launch kills the main timer unless script timers need it.
FetchEvent ==
    /\ TopAt("loop") /\ Visible
    /\ queue' = Tail(queue)
    /\ LET event == Head(queue).event
       IN  IF ~Launchable(event)
           THEN UNCHANGED <<calls, mainTimer, mOnClipboardChangeIsRunning>>
           ELSE /\ calls' = Append(calls, NewThread(event, 0))
                /\ IF event # "call" /\ mTimerEnabledCount = 0
                   THEN KILL_MAIN_TIMER ELSE UNCHANGED mainTimer
                /\ mOnClipboardChangeIsRunning' =
                        (mOnClipboardChangeIsRunning \/ event = "clipboard")
    /\ UNCHANGED <<g_nLayersNeedingTimer, scriptTimers,
                   g_DeferMessagesForUnderlyingPump>>

\* WM_TIMER is only generated when there is nothing else to fetch.
FetchTick ==
    /\ TopAt("loop") /\ ~Visible /\ ticked
    /\ ticked' = FALSE
    /\ calls' = AtTop([Top EXCEPT !.at = "tick", !.timer = 0])
    /\ UNCHANGED <<queue, g_MainTimerExists, g_nLayersNeedingTimer,
                   scriptTimers, g_DeferMessagesForUnderlyingPump,
                   mOnClipboardChangeIsRunning>>

\* GetMessage waits; PeekMessage finds the queue empty.
Waits(c) == c.sleeping /\ ~c.peek /\ ~g_DeferMessagesForUnderlyingPump
FetchNothing ==
    /\ TopAt("loop") /\ ~Visible /\ ~ticked /\ ~Waits(Top)
    /\ IsCycleComplete(Top)
    /\ RETURN_FROM_MSGSLEEP

\* The subroutine that a thread runs returns to what launched it.
RestartForgotten(layer) == FALSE                                  \* mutant
RestartsTimer(layer) ==
    ~layer.waits /\ ~IsCycleComplete(layer) /\ NeedsTimer(layer)
ThreadReturns ==
    LET event == Top.event
        under == Beneath[Len(Beneath)]
        launched == event \notin {"timer", "call"}
        emptied == launched /\ ~under.waits /\ IsCycleComplete(under)
    IN  /\ Top.kind = "thread"
        /\ calls' = IF emptied
                    THEN [Beneath EXCEPT ![Len(Beneath)] =
                            [under EXCEPT !.peek = @ \/ under.sleeping, !.elapsed = TRUE]]
                    ELSE Beneath
        /\ IF launched /\ RestartsTimer(under)
           THEN SET_MAIN_TIMER ELSE UNCHANGED mainTimer
        /\ mExistingThreads' = IF event = "timer"
                               THEN [mExistingThreads EXCEPT ![Top.timer] = @ - 1]
                               ELSE mExistingThreads
        /\ mOnClipboardChangeIsRunning' =
                (mOnClipboardChangeIsRunning /\ event # "clipboard")
        /\ UNCHANGED <<queue, g_nLayersNeedingTimer, mTimerEnabledCount,
                       mEnabled, mRunOnlyOnce, due,
                       g_DeferMessagesForUnderlyingPump>>

-----------------------------------------------------------------------------
(* What a script thread does *)

\* A command that waits, or that only looks at messages.
Sleep(sleeping, early) ==
    /\ Top.kind = "thread"
    /\ calls' = Append(calls, MsgSleep(FALSE, sleeping, early, FALSE))
    /\ UNCHANGED <<queue, mainTimer, g_nLayersNeedingTimer, scriptTimers,
                   g_DeferMessagesForUnderlyingPump,
                   mOnClipboardChangeIsRunning>>

MsgBox ==
    /\ Top.kind = "thread"
    /\ calls' = Append(calls, [kind |-> "dialog"])
    /\ UNCHANGED <<queue, mainTimer, g_nLayersNeedingTimer, scriptTimers,
                   g_DeferMessagesForUnderlyingPump,
                   mOnClipboardChangeIsRunning>>

\* The uninterruptible start of a thread, its end by the line count, Critical.
Shield(shield) ==
    /\ Top.kind = "thread"
    /\ calls' = AtTop([Top EXCEPT !.shield = shield])
    /\ UNCHANGED <<queue, mainTimer, g_nLayersNeedingTimer, scriptTimers,
                   g_DeferMessagesForUnderlyingPump,
                   mOnClipboardChangeIsRunning>>

-----------------------------------------------------------------------------
(* A dialog's pump and MainWindowProc *)

CloseDialog ==
    /\ Top.kind = "dialog"
    /\ calls' = Beneath
    /\ UNCHANGED <<queue, mainTimer, g_nLayersNeedingTimer, scriptTimers,
                   g_DeferMessagesForUnderlyingPump,
                   mOnClipboardChangeIsRunning>>

\* MsgSleep(-1, RETURN_AFTER_MESSAGES_SPECIAL_FILTER)
CallMsgSleep ==
    /\ calls' = Append(calls, MsgSleep(FALSE, FALSE, FALSE, TRUE))
    /\ g_DeferMessagesForUnderlyingPump' = TRUE
NoCall == UNCHANGED <<calls, g_DeferMessagesForUnderlyingPump>>

\* A message without a window is for nobody that DispatchMessage knows.
Discard ==
    /\ Top.kind = "dialog" /\ queue # <<>> /\ ~Head(queue).window
    /\ queue' = Tail(queue)
    /\ NoCall
    /\ UNCHANGED <<mainTimer, g_nLayersNeedingTimer, scriptTimers,
                   mOnClipboardChangeIsRunning>>

RepostMenuNull(m) == [m EXCEPT !.window = FALSE]                   \* mutant
RepostMenu(m) == m

MainWindowProc ==
    /\ Top.kind = "dialog" /\ queue # <<>> /\ Head(queue).window
    /\ LET m == Head(queue)
       IN  \/ /\ m.event = "menu"
              /\ queue' = Append(Tail(queue), RepostMenu(m))
              /\ CallMsgSleep
           \/ /\ m.event \in Reposted
              /\ queue' = Append(Tail(queue), [m EXCEPT !.window = FALSE])
              /\ IF INTERRUPTIBLE THEN CallMsgSleep ELSE NoCall
           \/ /\ m.event = "call"
              /\ queue' = Tail(queue)
              /\ calls' = IF Room THEN Append(calls, NewThread("call", 0))
                          ELSE calls
              /\ UNCHANGED g_DeferMessagesForUnderlyingPump
    /\ UNCHANGED <<mainTimer, g_nLayersNeedingTimer, scriptTimers,
                   mOnClipboardChangeIsRunning>>

DialogTick ==
    /\ Top.kind = "dialog" /\ queue = <<>> /\ ticked
    /\ ticked' = FALSE
    /\ CallMsgSleep
    /\ UNCHANGED <<queue, g_MainTimerExists, g_nLayersNeedingTimer,
                   scriptTimers, mOnClipboardChangeIsRunning>>

-----------------------------------------------------------------------------
(* What happens outside of the program *)

Post(event) ==
    /\ Len(queue) < MaxQueue
    /\ queue' = Append(queue, [event |-> event, window |-> TRUE])
    /\ UNCHANGED <<calls, mainTimer, g_nLayersNeedingTimer, scriptTimers,
                   g_DeferMessagesForUnderlyingPump,
                   mOnClipboardChangeIsRunning>>

Tick ==
    /\ g_MainTimerExists /\ ~ticked
    /\ ticked' = TRUE
    /\ UNCHANGED <<calls, queue, g_MainTimerExists, g_nLayersNeedingTimer,
                   scriptTimers, g_DeferMessagesForUnderlyingPump,
                   mOnClipboardChangeIsRunning>>

\* The uninterruptible timer, dispatched by whichever pump is on top.
UninterruptibleTimeout(i) ==
    /\ TopAt("loop") \/ Top.kind = "dialog"
    /\ Current(i) /\ calls[i].shield = "start"
    /\ calls' = [calls EXCEPT ![i].shield = "none"]
    /\ UNCHANGED <<queue, mainTimer, g_nLayersNeedingTimer, scriptTimers,
                   g_DeferMessagesForUnderlyingPump,
                   mOnClipboardChangeIsRunning>>

\* GetTickCount passes the end of layer i's time, or of timer t's period.
Elapse(i) ==
    /\ i \in Depth /\ NeedsTimer(calls[i]) /\ ~calls[i].elapsed
    /\ calls' = [calls EXCEPT ![i].elapsed = TRUE]
    /\ UNCHANGED <<queue, mainTimer, g_nLayersNeedingTimer, scriptTimers,
                   g_DeferMessagesForUnderlyingPump,
                   mOnClipboardChangeIsRunning>>
Due(t) ==
    /\ mEnabled[t] /\ ~due[t]
    /\ due' = [due EXCEPT ![t] = TRUE]
    /\ UNCHANGED <<calls, queue, mainTimer, g_nLayersNeedingTimer,
                   mTimerEnabledCount, mEnabled, mRunOnlyOnce,
                   mExistingThreads, g_DeferMessagesForUnderlyingPump,
                   mOnClipboardChangeIsRunning>>

-----------------------------------------------------------------------------
(* The specification *)

\* The main event loop has started, with the timers that the auto-execute
\* section has turned on.
Init ==
    /\ calls = << [kind |-> "layer", at |-> "loop", waits |-> TRUE,
                   sleeping |-> TRUE, elapsed |-> FALSE, peek |-> FALSE,
                   timer |-> 0, turned |-> FALSE] >>
    /\ queue = <<>> /\ ticked = FALSE
    /\ mEnabled \in [1..Timers -> BOOLEAN]
    /\ mRunOnlyOnce = [t \in 1..Timers |-> FALSE]
    /\ mExistingThreads = [t \in 1..Timers |-> 0]
    /\ due = [t \in 1..Timers |-> FALSE]
    /\ mTimerEnabledCount = Cardinality({t \in 1..Timers : mEnabled[t]})
    /\ g_MainTimerExists = (mTimerEnabledCount > 0)
    /\ g_nLayersNeedingTimer = 0
    /\ g_DeferMessagesForUnderlyingPump = FALSE
    /\ mOnClipboardChangeIsRunning = FALSE

PumpStep ==
    \/ \E t \in 1..Timers : CheckScriptTimers(t)
    \/ AfterCheck \/ AfterTick
    \/ FetchEvent \/ FetchTick \/ FetchNothing
    \/ Discard \/ MainWindowProc \/ DialogTick

ScriptStep ==
    \/ \E sleeping, early \in BOOLEAN : Sleep(sleeping, early)
    \/ MsgBox \/ CloseDialog \/ ThreadReturns
    \/ \E shield \in Shields \cup {"none"} : Shield(shield)
    \/ \E t \in 1..Timers, once \in BOOLEAN : SetTimerOn(t, once)
    \/ \E t \in 1..Timers : SetTimerOff(t)

OutsideStep ==
    \/ \E event \in Events : Post(event)
    \/ Tick
    \/ \E i \in Depth : Elapse(i)
    \/ \E i \in Depth : UninterruptibleTimeout(i)
    \/ \E t \in 1..Timers : Due(t)

Next == PumpStep \/ ScriptStep \/ OutsideStep
Spec == Init /\ [][Next]_vars

-----------------------------------------------------------------------------
(* Properties *)

\* What each variable holds.
TypeOK ==
    /\ calls \in Seq(Layer \cup Thread \cup Dialog)
    /\ queue \in Seq([event : AllEvents, window : BOOLEAN])
    /\ ticked \in BOOLEAN /\ g_MainTimerExists \in BOOLEAN
    /\ g_nLayersNeedingTimer \in Nat /\ mTimerEnabledCount \in Nat
    /\ g_DeferMessagesForUnderlyingPump \in BOOLEAN
    /\ mEnabled \in [1..Timers -> BOOLEAN]
    /\ mRunOnlyOnce \in [1..Timers -> BOOLEAN]
    /\ mExistingThreads \in [1..Timers -> Int]
    /\ due \in [1..Timers -> BOOLEAN]
    /\ mOnClipboardChangeIsRunning \in BOOLEAN

\* The layers that have counted themselves in g_nLayersNeedingTimer.
Counted == {i \in Depth : NeedsTimer(calls[i]) /\ calls[i].at # "entry"}

\* The three counts that decide whether the main timer may be killed are
\* exact, through every nesting of layers, dialogs and launches:
\* g_nLayersNeedingTimer, mTimerEnabledCount, and the flag that tells the
\* layers above a dialog that its pump is on the stack.
CountsExact ==
    /\ g_nLayersNeedingTimer = Cardinality(Counted)
    /\ mTimerEnabledCount = Cardinality({t \in 1..Timers : mEnabled[t]})
    /\ g_DeferMessagesForUnderlyingPump <=>
            \E i \in Depth : calls[i].kind = "layer" /\ calls[i].turned

\* The pump on top, MsgSleep's or a dialog's, is never left without the main
\* timer when it needs it to end its time or to run the script's timers:
\* otherwise it would be "stuck in the GetMessageState()" (application.cpp:190).
\* A layer that empties the queue by PeekMessage does without.
NeverStuck ==
    /\ (TopAt("loop") /\ NeedsTimer(Top) /\ Waits(Top)) => g_MainTimerExists
    /\ mTimerEnabledCount > 0 => g_MainTimerExists

\* GetMessage is never called above a dialog's pump that has called back:
\* a layer that blocks there would keep the dialog's own messages from it.
NoWaitAboveForeignPump ==
    \A i \in Depth : (calls[i].kind = "layer" /\ Waits(calls[i]))
        => \A j \in Depth : calls[j].kind = "layer" => ~calls[j].turned

\* OnClipboardChange and each timer have at most one thread, also when a
\* dialog above it passes the events on.
OneThreadEach ==
    /\ Cardinality({i \in ThreadsAt : calls[i].event = "clipboard"}) <= 1
    /\ mOnClipboardChangeIsRunning <=>
            \E i \in ThreadsAt : calls[i].event = "clipboard"
    /\ \A t \in 1..Timers :
            Cardinality({i \in ThreadsAt : calls[i].timer = t}) <= 1

\* A menu item's message is never discarded by a dialog: it is posted again
\* with its window, and waits there until the script can be interrupted.
MenuKept == [][Discard => Head(queue).event # "menu"]_vars

\* The OS thread runs, the main timer fires while it exists and time passes.
\* Events come at a finite rate: a pump finds the queue empty again and again.
Fairness ==
    /\ WF_vars(PumpStep) /\ SF_vars(FetchTick \/ FetchNothing \/ DialogTick)
    /\ WF_vars(Tick) /\ WF_vars(\E i \in Depth : Elapse(i))
FairSpec == Spec /\ Fairness

\* A Sleep on top of the stack does not wait for ever, whatever has been
\* launched above it before: its time ends or something is launched from it.
SleepEnds == []<>~(TopAt("loop") /\ NeedsTimer(Top))

\* A timer that is due, and may run, does run while any pump is waiting.
MayRun(t) ==
    /\ Top.kind \in {"layer", "dialog"} /\ INTERRUPTIBLE /\ Room
    /\ Eligible(t)
TimersRun == \A t \in 1..Timers : []<>~MayRun(t)

=============================================================================
