# Verification of the AutoHotkey core

TLA+ models, TLC checks and TLAPS proofs for this repository, a port of
AutoHotkey 1.0.47.06 to mingw that also builds as a DLL with a small host
interface. The program runs a script in a single OS thread. Everything that is
hard in it comes from the "quasi-threads" it builds on that one thread: each
hotkey, timer, menu item, GUI event, clipboard change, OnExit subroutine or host
call is a subroutine launched on top of whatever was waiting for messages, and
the launched one must end before the one beneath goes on.

A large part of the command set is a commented-out stub in this port (hooks,
Send, most GUI methods, menus, clipboard, window groups, registry, sound,
`DialogPrep`, `UpdateTrayIcon`): of 98,000 lines in the source files, some
20,000 are live code of the program itself. The models follow the live code.

| Modules | Part | Section |
|---|---|---|
| `Threads`, `Threads_proofs` | the scheduler of quasi-threads | 2 |
| `MsgSleep`, `MsgSleep_proofs` | the message pumps, the main timer, script timers | 3 |
| `Hotkeys`, `Hotkeys_proofs` | registration of hotkeys, variants, buffered presses | 4 |
| `FlowOfControl`, implementing `Structured`; `FlowOfControl_proofs` | the loader's block structure and `ExecUntil` | 5 |
| `FunctionCalls`, implementing `Environments`; `FunctionCalls_proofs` | calls, backup of variables, their memory | 6 |
| `Expressions`, against `ExpressionTrees`; `Expressions_proofs` | infix to postfix and evaluation | 7 |
| `VarLists` on `SimpleHeap`, `VarLists_proofs` | which variable a name stands for; the script's memory | 8 |
| `InductionLemmas` | induction over numbers, sequences and recursive functions, for the proofs | 9 |
| `MC*` | the instances that TLC checks | with each |

## 1. Inventory

| Component | State it keeps | Operations | What makes it correct |
|---|---|---|---|
| Quasi-thread scheduler (`application.cpp`, `script.cpp`) | the struct `g`, `g_default`, `g_nThreads`, `g_nPausedThreads`, `g_IdleIsPaused`, `g_AllowInterruption`, the two `g_*TimerExists` flags, the copies of `g` on the C stack | `InitNewThread`, `ResumeUnderlyingThread`, the launches of `MsgSleep`, `CheckScriptTimers`, `ExitApp`, `callFunc`, `Pause`, `Critical`, `Thread`, the two TimerProcs | counters equal the stack; uninterruptible threads are not covered; OnExit runs alone; a shield always ends; the idle thread answers |
| Script timers and the main timer | the `ScriptTimer` list (`mEnabled`, `mPeriod`, `mTimeLastRun`, `mExistingThreads`), `mTimerEnabledCount`, `g_MainTimerExists`, `g_nLayersNeedingTimer` | `UpdateOrCreateTimer`, `Disable`, `CheckScriptTimers`, `MsgSleep` entry and exit | the count is exact; a waiting layer always has its timer; a due timer runs once per period |
| Hotkeys and hotstrings (`hotkey.cpp`) | `shk[]`, variants, `mExistingThreads`, `mRunAgainAfterFinished`, `mRunAgainTime`, suspension, hook needs | `ManifestAllHotkeysHotstringsHooks`, `Dynamic` (the Hotkey command), `CriterionAllowsFiring`, `Perform`, `RunAgainAfterFinished`, `Suspend` | never more than #MaxThreadsPerHotkey threads; one buffered press, forgotten after a second; what is registered follows what is enabled |
| Message routing (`application.cpp`, `script2.cpp`) | the OS queue, GUI and clipboard "label is running" flags | `MsgSleep`'s loop, `MainWindowProc`, reposting of thread messages, dialog pumps | a message is handled once or deliberately dropped; the flag is clear when its label is not running |
| Host interface (`exports.cpp`) | `mTempFunc`, `tempFunc` results | `ahkFunction`, `ahkLabel`, `ahkassign`, `ahkgetvar`, `callFunc` | a call runs the function it asked for |
| Functions (`script_expression.cpp`, `var.cpp`) | variables of a function, their backups on the C stack, `mInstances` | calls, `BackupFunctionVars`, `FreeAndRestoreFunctionVars` | each activation sees its own locals |
| Variables (`var.cpp`) | contents, capacity, how allocated, aliases | `Assign`, `Free`, aliases, environment variables | length below capacity; no write past it; capacity tiers |
| Flow of control (`script.cpp`) | the line list and its block structure, loop state | `ExecUntil`, `PerformLoop*`, `IfElse`, `Goto`/`Gosub`/`Return`, `PreparseBlocks`, `PreparseIfElse` | the same lines run as the source's structure says |
| Expressions (`script_expression.cpp`) | token arrays, stack | infix to postfix, evaluation with short circuit | precedence; operands are evaluated exactly when needed |
| Script memory (`SimpleHeap.cpp`) | blocks, most recent allocation | `Malloc`, `Delete`, `DeleteAll` | allocations are disjoint; only the most recent is given back |
| Keyboard layout and sending, hooks, GUI, menus, clipboard, window groups, registry, files, strings, start-up, random numbers | | mostly stubs or calls of the Windows API | see `PROJECT.json` for each |

How they interact: `MsgSleep` is the only place where messages are fetched, and
it is called from every line of a script (`LONG_OPERATION_UPDATE`), from each
wait and from the main event loop. It launches threads, calls
`CheckScriptTimers`, and dispatches to `MainWindowProc`, which runs in the modal
pumps of dialogs and menus as well and hands thread messages back to `MsgSleep`.
`ExitApp` is reached from commands, from window messages and from `OldWinMain`.
A host posts messages to the script's window from another OS thread.

Behaviours that are hard: any launch may fall between any two lines of the
interrupted thread; the state of a thread that is not on top is a copy in
another function's frame, and what the thread on top wants for it is a flag in
`g` until it ends; one OS timer serves the uninterruptible start of every
thread, and killing it does not remove a `WM_TIMER` already queued; dialogs,
menus and runtime errors wait inside a command.

## 2. Module `Threads`

`Threads.tla` models the whole scheduler. One step is one scheduling command of
the thread on top, one launch, one return, one TimerProc, or a dialog or menu
that opens or closes.

| TLA+ | code |
|---|---|
| `g`, `g_default` | the fields of `global_struct` that schedule |
| `frames` | the launchers' frames in the C stack, oldest first: `saved` is `global_saved`/`g_saved`, `kind` says which launcher, `timer` is the timer of the loop in `CheckScriptTimers`, `allow` and `pending` are `ExitApp`'s saved switch and timer flag |
| `doing` | whether the top waits in `MsgBox`, in the dialog of `LineError`, in a menu's modal loop, or has failed |
| `labels` | runs of `AHK_EXECUTE_LABEL`, which execute a subroutine inside the interrupted thread without launching one |
| `phase` | auto-execute section, between it and the main event loop (`nonpersistent`: with `ExitApp` to do first), the loop, terminated |
| `late` | killed timers whose `WM_TIMER` was already queued |
| `LaunchMsg`, `FinishMsg` | hotkeys, hotstrings, GUI events, menu items, clipboard changes in `MsgSleep` |
| `LaunchTimer`, `NextTimer`, `FinishTimer` | the loop of `CheckScriptTimers`; `NextTimer` is its next iteration, which replaces the finished thread without the checks made before the loop |
| `ExitApp`, `FinishExit` | `Script::ExitApp`, with and without the OnExit subroutine |
| `callFunc`, `ExecuteLabel` | the host's two calls |
| `FinishAutoExec`, `EnterMainLoop` | the end of `AutoExecSection`, `OldWinMain` |
| `AutoExecSectionTimeout`, `UninterruptibleTimeout` | the TimerProcs |
| `ChangePauseState`, `Critical`, `ThreadPriority`, `ThreadNoTimers`, `ThreadInterrupt`, `LineCountExceeded` | the commands, and `ExecUntil`'s line count |
| `OpenDialog`, `CloseDialog` | `MsgBox` with `DIALOG_PREP`/`DIALOG_END`; an error's command then fails |

Abstractions. Which hotkey, label or timer is due is left open: any message may
come at any time and any eligible timer may be due, so what holds here holds for
every script. `PRIORITY_MINIMUM` stands for `INT_MIN`. What the first line of a
subroutine is (`plain`, `critical`, or one that is always allowed, such as
ExitApp) is chosen at the launch. `DialogPrep` is commented out and returns
nothing, so the value `DIALOG_END` restores is any Boolean. Not modelled: the
tray icon, the warning of `Hotkey::Perform` (which switches
`g_AllowInterruption` off while it is shown; module `Hotkeys` has it), the fields of `g` that do not schedule, and the nesting of a menu
inside a dialog (bound).

### Runs

All of them may stop: `TerminateApp` ends the system, so deadlock is not checked.

| run | what it checks | instance |
|---|---|---|
| `threads` | `TypeOK`, `PausedCountExact`, `TimersRunUnpaused`, `UninterruptibleRespected`, `ExitRunsAlone`, `TimerNotReentered`, `NeverStranded`, `IdleAnswers` | #MaxThreads 2, two timers of different priority, OnExit and host calls on top; Pause in all its forms, Critical |
| `threads_disturbed` | `PausedNeverMissed` | not persistent; runtime errors, a host label run, OnExit |
| `timer_mark` (a violation is expected) | `PauseMarkHonoured` | two timers of one priority, Pause; nothing else |
| `threads_settings` | `ThreadLimit`, `ShieldExpires` (liveness) | Thread Interrupt/Priority/NoTimers, Critical, menu loops, always-allowed first lines |

Bounds. `g_MaxThreadsTotal` 2 (20 in the program) gives a stack of up to five
launchers: two messages or timers, a host call, OnExit and the auto-execute
thread; every hazard listed needs at most three. Two timers are needed for
`NextTimer` and for a timer interrupting the loop of another. `MaxPausedCount`
stops Pause at a count, and `MaxLabelRuns` the nesting of host labels.

Fairness. Only the two TimerProcs are weakly fair: every activity that waits
pumps messages, an uninterruptible one as well, and Windows posts `WM_TIMER` as
long as the timer exists. Nothing is assumed of scripts: a thread may run or
wait for ever.

### Seen while modelling

A thread that is paused (by `Pause,On,1` of a hotkey) while it shows a runtime
error ends without entering `ExecUntil`'s pause loop, so that `g_nPausedThreads`
stays above zero and timers never run again; `PausedCountExact` is checked
without runtime errors for that reason, and `PausedNeverMissed` with them.

The next timer of a `CheckScriptTimers` loop overwrites `g`, and with it what the
previous timer asked of the thread beneath: run `timer_mark` finds it in four
steps (a timer's thread marks the idle thread to be paused, ends, the second timer
is due as well, and `InitNewThread` marks the idle thread as not paused), against
the comments of `script.cpp:12220` and `12243`. It is reported as a finding, and
nothing is claimed or proved of the mark in the passing runs: without a later
timer in the loop, what is left of `PauseMarkHonoured` is the assignment in
`ResumeUnderlyingThread`.

`Thread, Interrupt` tests its
arguments one place too early, so that a blank argument does not leave the
setting alone (`script.cpp:11191` says it does); `Pause` in the OnExit thread of
a script that is not persistent leaves `g_IdleIsPaused` set; a host label that
runs while the script is idle applies Pause and Critical to the idle thread; a
timer's thread that lowers its own priority lets the next timer of the loop
interrupt a thread of higher priority; `callFunc` does not test
`MAX_THREADS_LIMIT`; `AutoExecSectionTimeout` copies to `g_default` whatever
thread's struct is in `g`.

### Theorems (`Threads_proofs.tla`)

Each holds for every value of the constants that satisfies `ThreadsAssumption`:
any number of threads and timers, any priorities, any mix of commands.

| theorem | property | argument |
|---|---|---|
| `TypeCorrect` | `TypeOK` | inductive with `g_nThreads = Len(frames)`: without it the counter could go below zero at a return |
| `ShieldHolds` | `UninterruptibleRespected` | a launch saves `g`, whose shield the launcher has tested; a return only removes; the next timer of a loop keeps the saved struct of the finished one |
| `ExitAlone` | `ExitRunsAlone` | `ExitInv`: `g_AllowInterruption` is off exactly while an OnExit thread is on the stack, which is then on top and found the switch on |
| `NotStranded` | `NeverStranded` | `ShieldInv`: the defaults and the idle thread are never uninterruptible without being critical, and the setting is not negative (assumed of the script; a negative one means "uninterruptible until the line count ends it") |
| `TimerOnce` | `TimerNotReentered` | `TimerInv`: exactly timers' threads carry a timer, no two the same one, and `mExistingThreads` says which timers are carried |

Lemmas `StackRest`, `StackPush`, `Pushed`, `Popped` and `Swapped` say once what
the stack is after a return, a launch and the next timer of a loop; the step
lemma of each invariant has one step per action.

About pausing, the limit and the idle thread:

| theorem | property | argument |
|---|---|---|
| `PausedNeverMissedAlways` | `PausedNeverMissed` | `PauseBound`: the count is at least the number of paused activities, and one more while the idle thread was paused by a host's label run that `g_IdleIsPaused` does not know of. `PausedNeverMissed` itself does not survive the return to such an idle thread |
| `TimersNeverAbovePaused` | `TimersRunUnpaused` | a timer starts only when the count is zero, so by `PauseBound` nothing is paused then, and a launcher's copy does not change while the threads above it run |
| `PausedCountAlwaysExact` | `PausedCountExact` | `SettledInv`; for a persistent script without runtime errors and host label runs: in the others the count is wrong (see above) and only the two theorems before this hold |
| `IdleAlwaysAnswers` | `IdleAnswers` | `IdleInv`: the lowest launcher's copy is an idle thread's. Without host label runs, which apply Critical to the idle thread |
| `ThreadsLimited` | `ThreadLimit` | with `ExitInv`. Unless a host calls a function whose first line is one that may always start: `callFunc` does not test `MAX_THREADS_LIMIT` |

The hypotheses are those under which the runs check these properties too; each
excludes a behaviour that is listed under "Seen while modelling" and would break
the property.

Model-checked only: `ShieldExpires`, because liveness under fairness is out of
the prover's reach.

## 3. Module `MsgSleep`

`Threads` leaves open when a message arrives or a timer is due. `MsgSleep.tla`
models the pump that decides it: nested calls of `MsgSleep`, each in a thread
launched by the one beneath, the message queue, the script's timers and the one
OS timer (the *main timer*) that wakes whoever blocks in `GetMessage`.

| TLA+ | code |
|---|---|
| `calls` | the C stack, oldest first: layers (calls of `MsgSleep`, with their locals: where they are, whether they sleep, whether the time is up, whether they turned on the flag for the pump beneath), threads (what launched them, whether they are shielded) and the message loops of dialogs |
| `queue` | posted messages; one that was reposted with a NULL window is visible to every pump, and a dialog's loop discards it |
| `MsgSleep`, `CallMsgSleep`, `AfterCheck` | entering a layer: `g_DeferMessagesForUnderlyingPump`, the timers' check, then `++g_nLayersNeedingTimer` and `SET_MAIN_TIMER` |
| `CheckScriptTimers`, `ThreadReturns` | launch of due timers and what a launch does to the main timer |
| `FetchTick`, `FetchNothing`, `RETURN_FROM_MSGSLEEP` | a tick, an empty queue, and the five lines every return goes through |
| `MainWindowProc`, `RepostMenu`, `DialogTick`, `Discard` | what the window procedure does for a message that a dialog's loop dispatches |
| `SetTimerOn`, `SetTimerOff`, `Disable` | SetTimer and run-once timers with `mTimerEnabledCount` |

Abstractions. A timer's period is a flag, `due`, that the clock raises; all
priorities are equal (`Threads` has them); joystick hotkeys, which only keep the
main timer on, GUI events and the pause loop are left out.

| run | what it checks | instance |
|---|---|---|
| `msgsleep` | `TypeOK`; `CountsExact`: the layers and the enabled timers are what the two counters say, and the flag for the pump beneath is set by its layer only; `NeverStuck`: no layer waits for time without the main timer, nor do due timers; `NoWaitAboveForeignPump`: no layer blocks in `GetMessage` above a dialog's pump that asked for its messages; `OneThreadEach` (clipboard label), `MenuKept`; the liveness of `SleepEnds` and `TimersRun` | two threads, one timer, menu items, clipboard changes and host calls, both kinds of shield, one message at a time |

Bounds. With two threads up to five pumps are nested: the main loop, what the
first thread waits in, the `MsgSleep` its dialog calls, and the same above the
second thread. A menu thread whose launch kills the main timer while a sleeping
layer beneath needs it is among them. What takes a third thread (a host call or a
run-once timer between the two) is left to the proofs below, which establish the
safety properties for every number of threads. A queue of one message (a repost may add to
it) is enough because the pump handles one at a time and starts over.

Fairness (`FairSpec`). Weak fairness of the pump's own steps (a program that is
not blocked goes on), of the main timer's tick while it exists, and of time
going by. Strong fairness of finding the queue empty, or of fetching the tick:
events come from a person or a host at a finite rate, so the lowest-priority
`WM_TIMER` is not starved for ever. Nothing is assumed of scripts: `SleepEnds`
and `TimersRun` speak of the pump on top of the stack, and a thread that runs for
ever leaves none there.

Seen while modelling: a clipboard notification that `MainWindowProc` reposts
with a NULL window is lost when the `MsgSleep` it then calls first launches a
timer's thread that shows a dialog.

### Theorems (`MsgSleep_proofs.tla`)

Each holds for every number of timers and threads, every set of events and
queues of any length (`MsgSleepAssumption`). Together they are all the safety
properties of the runs.

| theorem | property | argument |
|---|---|---|
| `TypeCorrect` | `TypeOK` | from `IInv`; the counts stay natural numbers because they are cardinalities, and the main event loop at the bottom never returns because no layer is left to set the flag that would let it |
| `Counting` | `CountsExact` | `LayersCounted`, `EnabledCounted` and `DeferOwned` of `IInv`; the flag needs that one layer only has turned it on |
| `Unstuck` | `NeverStuck` | `Repaired`: while the main timer is gone, a counted layer empties the queue by `PeekMessage`, or has above it another layer (whose return sets the timer again) or the thread it launched itself (after which it sets the timer again). `NeverStuck` alone is not inductive: it says nothing of the layers beneath the top, which must find the timer on when what is above them returns |
| `PumpNotStarved` | `NoWaitAboveForeignPump` | from `DeferOwned` |
| `MenuNotLost` | `MenuKept` | `MenuHasWindow` for every message of the queue |
| `NoThreadTwice` | `OneThreadEach` | `OneEach`: the flag and `mExistingThreads` say exactly which threads are on the stack |

The proof of `IInv` goes by the *shape* of a step: `StepShape` shows that every
action leaves the stack alike (`Stays`), lets a layer count itself (`Joins`),
adds a thread (`Starts`) or a layer or dialog (`Enters`), or removes a layer
(`Leaves`) or something else (`Ends`), and says what each does to the counts and
the main timer. Each shape then preserves the invariant, whatever the action.

`SleepEnds` and `TimersRun` are model-checked only: they need fairness.

## 4. Module `Hotkeys`

`Hotkeys.tla` models which keys are registered with the system, and which
variant of a hotkey a press starts. Between the two lie a queue and commands.

| TLA+ | code |
|---|---|
| `shk` (constant) | what never changes of a hotkey: key, prefix, modifiers, its variants' windows |
| `mType`, `mIsRegistered`, `sHotkeyCount`, `g_IsSuspended` | the same; the types are `HK_NORMAL` and `HK_KEYBD_HOOK` |
| `mJumpToLabel`, `mEnabled`, `mMaxThreads`, `mMaxThreadsBuffer`, `mExistingThreads`, `mRunAgainAfterFinished` | the fields of `HotkeyVariant`; a label is what its subroutine begins with |
| `Manifest` | `ManifestAllHotkeysHotstringsHooks`; `FirstPass` goes over the hotkeys in the order of their ids, `ToRegister` is the second pass |
| `Load`, `DynamicNew`, `DynamicOnOff`, `DynamicLabel`, `DynamicOptions`, `ToggleSuspendState` | the end of loading, the Hotkey command by what it is asked for, Suspend |
| `Press`, `Fetch`, `Perform`, `PerformReturns` | WM_HOTKEY posted; fetched by `MsgSleep` with the choice of the variant and the limits; `Hotkey::Perform` up to and from the subroutine |
| `DiscardedByWarning`, `WarningEnds` | the dialog about too many hotkeys |
| `OthersAct` | other programs' windows and registrations |

Abstractions. Windows NT and keyboard hotkeys by virtual key: the Win9x
branches, scan codes, left/right modifiers, mouse, joystick and alt-tab hotkeys
are left out. The hook itself is commented out in this port, so only registered
hotkeys are pressed. Variants exist from the start (a missing one is one that is
disabled). A press may be lost to other threads or to a higher priority
(`Threads` has those); how long a buffered press waited is left open. Too many
threads at a limit, and the interval of the throttle, are as in the code, except
that the first interval begins with the program.

| run | what it checks | instance |
|---|---|---|
| `hotkeys` | `TypeOK`; `RegistrationCurrent`: a new look at all hotkeys would register no other ones than are registered, but for those that another program had at the last look (`refused`, auxiliary); `BufferedTakenUp`: `mExistingThreads` counts the threads of a variant, and a buffered press has one that will take it up; `LaunchChecked` | `b` with a variant for a window, `b & a`, `b up`; #MaxThreads 2, one hotkey per interval, one press in the queue (a buffered one adds to it), `T2` and `T256` |

The instance has each reason for the hook: a prefix, a key-up counterpart, a
missing variant for all windows, a key taken by another program. Two threads are
needed for a limit of two, and for a buffered press above another thread. There
is no liveness: the model does not say when a thread ends. `Suspend` and loading
may leave nothing to do only while a warning waits, and the warning can end, so
deadlock is checked.

Seen while modelling: the first pass sets a hotkey's type anew when it reaches
it, and so undoes what a key-up or wildcard hotkey listed earlier has set
(`a up` before `a`: `a` is then registered although its key-up needs the hook).
`Dynamic` looks at all hotkeys again
for a new label only if the variant is enabled, but `IsExemptFromSuspend` counts
disabled variants too, so under Suspend a hook hotkey with two variants can come
into effect unnoticed (`RegistrationCurrent` holds of scripts, as the run's,
whose prefix hotkeys have one variant); Suspend drops the buffered press only of
a hotkey that is registered at that time; on Win9x `Perform` registers a `$`
hotkey again that was suspended while it ran; `mMaxThreads` is a byte, so `T256`
sets 1.

### Theorems (`Hotkeys_proofs.tla`)

For every set of hotkeys and variants, any limits, any number of threads and
queues of any length (`HotkeysAssumption`).

| theorem | property | argument |
|---|---|---|
| `TypeCorrect` | `TypeOK` | the two passes of `ManifestAllHotkeysHotstringsHooks` are a recursive function over the hotkeys; that each of its values is an assignment of types goes by induction (`InductionLemmas`) |
| `BufferNeverForgotten` | `BufferedTakenUp` | `Created`, `ThreadsCounted`, `Buffered`: whoever disables a variant or drops its last thread also drops its buffered press; the number of threads of a variant is a cardinality, so that it can be counted through any launch and return |
| `EveryLaunchChecked` | `LaunchChecked` | what `Fetch` tests is still so when `Perform` starts, the warning in between included |
| `RegistrationAlwaysCurrent` | `RegistrationCurrent` | `Registered`: what is registered is `ShouldRegister`, which reads switches and labels but no types. The lemma behind it says what the first pass leaves, whatever types it finds: by induction over the hotkeys that it has been through |

`RegistrationAlwaysCurrent` has a hypothesis, `RelabelledInert`: a hotkey with
several variants, whose label may change between Suspend and another, takes no
other hotkey to the hook. Without it the statement is false, and the proof is how
that was found. `Hotkey::Dynamic` (`hotkey.cpp:987`) looks at all hotkeys again
for a new label only if the variant is enabled, while `IsExemptFromSuspend`
(`hotkey.h:250-260`) asks all variants. So while the script is suspended, a
disabled variant of `*b` that is given the label of a Suspend subroutine puts `*b`
in effect through its other, enabled variant, and `b`, which now shares its key
with a hook hotkey, stays registered. The comment at `hotkey.cpp:980-986` gives the
impact on other hotkeys as the reason for looking again. Hotkeys that are exempt
from the start, or have one variant, are not concerned; the instance of the run
`hotkeys` satisfies the hypothesis.

## 5. Modules `FlowOfControl` and `Structured`

A script is loaded once into a list of lines with two pointers each, and
`ExecUntil` runs it by recursion: a C frame for every IF, ELSE, loop, block,
Gosub and call under way. A Goto out of several of them is returned from frame
to frame, each of which decides whether it is its own to make.

`Structured.tla` is the promise: which scripts are well formed, which line
follows which, where jumps, breaks and returns lead and what A_Index is, told of
the text alone. `FlowOfControl.tla` is the code, and `FollowsTheText` says that
it implements the promise, an activation of `Structured` being the stretch of
frames from the base of a thread, Gosub or call up to the next one.

| TLA+ | code |
|---|---|
| `script`, `label`, `dynamic` | the kinds of the lines, the line of the only label, and whether jumps name it through a variable |
| `parent`, `related` | `mParentLine`, `mRelatedLine` |
| `frames` | calls of `ExecUntil`: the line, the mode (`UNTIL_RETURN`, `UNTIL_BLOCK_END`, `ONLY_ONE_LINE`), what the frame waits for, what it saved of `g` |
| `g` | A_Index, the loop item, the current label and function |
| `AddLine`, `Load` | `Script::AddLine`; `LoadFromFile` with `PreparseBlocks` and `PreparseIfElse` (`Parents`, `Preparsed`, `RelatedLines`, `IsJumpValid`) |
| `IfTrue`, `IfFalse`, `Loop`, `Iterate`, `LoopDone`, `Goto`, `Gosub`, `Call`, `ReturnLine`, `BreakOrContinue`, `Exit`, `BlockBegin`, `BlockEnd`, `FunctionBody`, `ElseLine`, `GroupOnly` | the cases of `ExecUntil` and of the `PerformLoop` functions |
| `Perform`, `IfFails`, `LoopFails` | a command, condition or loop parameter that succeeds or fails |
| `Unwound`, `After*` | a return through the frames, and what each of them makes of a result and a jump |
| `Launch` | a thread launched between two lines |

Abstractions. Conditions and commands are left open, so all paths are taken. The
way of a result back through the callers is one step: nobody else runs in
between. `parse` stands for the loops over strings, `files` for the loop over
folders and the registry, which go on into subfolders; one label, one function
per call.

| run | what it checks | instance |
|---|---|---|
| `flow` | `TypeOK`; `RunsWithin`: a frame runs only lines inside the statement its caller waits for; `EndsMetByOwner`: nobody runs into an ELSE or a block's end that is not its own, but for the subroutines named below; `BuiltinsCurrent`: loop item and A_ThisFunc are right while a line runs, on every way out; `FollowsTheText`: the refinement | every script of up to five lines, and of six if they are all braces, less those `MCFlow` names; `MaxNesting` 1 |

`EndsMetByOwner` says of a frame at `}` that it runs that very block (or function),
for the caller on the line before the block, and excepts two cases. A Gosub, or a
launched thread, whose label is inside a block, and which does not return before the
end of that block, meets an end that nobody ran for it: the code reports it
("Gosub without Return", `script.cpp:9464-9473`), and the property allows it for
the block the label is in and no other. One whose label stands on the body of an IF,
an ELSE or a loop has a frame of its own there, which runs on past the body and may
meet the ELSE of the IF above. What the frame does with either is in the model
(`BlockEnd`, `ElseLine`).

Bounds. Five lines hold an IF with ELSE inside a loop, a block inside an IF, and
a Goto out of either; the rarer kinds of lines go up to four lines, folders and
GroupActivate up to three. Scripts of six lines, all braces, show the limit on
nesting (`MaxNesting`, 1000 in the code, 1 here: `{ { { } } }` is rejected). A loop
makes one iteration, at whose end A_Index goes up; six frames; one launched thread over scripts of up
to three lines.
`MaxFolders` 0: folders have no subfolders, see below. The script may end, so
deadlock is not checked; there is no liveness, since a script may loop for ever.

Seen while modelling:

* The loops over folders and over the registry go on into subfolders, and run
  their body again there, although the body has asked for a jump
  (`script.cpp:9976`, 10011-10014, 10117); the jump is made after that.
* A Goto that is by itself the body of an IF or a loop and bears the label it
  jumps to is lost (`KeepsJumps` excludes it), and a Gosub into a block loses the
  jump if its subroutine leaves the block by Goto (`script.cpp:8977-8981`).
* `PreparseIfElse` gives the ELSE of a nested IF without braces its block for a
  parent, which makes `IsJumpValid` stricter there than the language; and it tests
  the constant `UNTIL_BLOCK_END` where it means to test the mode.
* Break in a subroutine acts on the loop of its caller, but only if the Gosub is
  by itself the body of a statement.
* `Func::Call` does not restore A_ThisLabel.
* A function defined where the body of an IF, an ELSE or a loop belongs is accepted
  as that body. `ExecUntil` goes past it (`script.cpp:9397-9408`) without looking at
  its mode, so that the frame that was to run one statement runs the statement that
  follows the function, which then runs once more in its own place. `RunsWithin` and
  `EndsMetByOwner` do not hold of such scripts (`FunctionOnBody`); `MCFlow` leaves
  them out.

### Theorems (`FlowOfControl_proofs.tla`)

For scripts of any length, any number of frames and launches, and folders with any
number of subfolders (`BoundsAssumption`).

| theorem | property | argument |
|---|---|---|
| `ScriptsAreLinked` | (the lemma `LoadLinks` as an invariant) | what `Accepted` lets through is linked as `Links` says: the body of an IF, ELSE or loop is the next line and its parent that line; where a statement is over, `mRelatedLine` or the next line is the beginning of another one on the same level |
| `FlowTypeOK` | `TypeOK` | part of `IInv`; that a result passes through any number of frames in one step (`Unwound`) goes by induction on the stack (`UnwoundGood`) |
| `FramesRunWithin` | `RunsWithin` | `Calls`: the frame called by an IF, an ELSE or a loop stays on the line after it, the one called by a block stays on lines whose parent is the block. If the script has no function in the place of a body |
| `EndsAreMetByOwner` | `EndsMetByOwner` | `LevelOK`: a frame that runs one statement is on a body, and any other at the beginning of a statement, unless it began at a label on a body; `AtHome`: the lines a frame goes on to are in the same blocks as the one it began on, so that the end it meets is that of the block around its label, or around the first line of what it was called for. The same condition |
| `BuiltinsAreCurrent` | `BuiltinsCurrent` | `Seen` and `SavedOK`: whatever frame is on top, what it has saved is right for the frame beneath it, and `g` for itself, so that every way out restores what is right there |
| `LoaderAcceptsWellFormed` | (operators) | `Accepted` holds of a script, a label and the kind of jumps exactly if `Text!WellFormed` does |
| `LoadsAsWritten` | (`LoadedAsWritten`, an invariant) | what runs is well formed and what is rejected is not; `parent` is the text's `Level`, `related` the text's `After`; `IsJumpValid` is `Reachable` |
| `LoadFollowsTheText` | (`LoadingFollows`, half of `FollowsTheText`) | `AddLine` and `Load` are `Write` and `Load` of `Structured`, and `Activations` of one frame is one activation |

The invariant `IInv` has two halves. Of the loaded script it says `Links`, which is
proved from the loader's recursion alone: `PreparseIfElse` is a recursive function over
lines, modes and loops, and `PreparsedUnfolds`, `OpenBlocksExist` and
`AcceptedWhole` say what its solution is of each line. Of the stack it says that each
frame is in order by itself (`FrameOK`: the phase suits the kind of line, the line the
mode) and with the frame beneath it (`Calls`, `SavedOK`). The properties alone are not
inductive: a frame is only on the right line after a return if the frames beneath were
on theirs, and `related` leads where it should only because of how the script was
accepted.

The last three theorems compare the code's way of reading a script with that of
`Structured`: one pass that keeps a stack of open blocks and one that recurs over
lines, modes and loops on the one side, a definition of where each statement ends on
the other. `ReadMatches` says of every line that `PreparseIfElse`, its jumps and loops
left aside, returns where `After` says that the statement ends (`ReadsOn`); `BlocksMatch`
that the braces match for the one exactly if they do for the other; `ReadStrictly` that
with jumps and loops regarded it fails just where one of them is not allowed;
`DepthIs` that the blocks around a line are as many as the stack of open ones holds. The
recursion of `After` in `Structured` is over pairs of a line and whether it goes on a
block, which is one function, as the provers need it.

Two things came to light in the attempt. `EndsMetByOwner` excepted, for the ELSE, only
labels on the body of an IF or an ELSE; its proof failed for a label on the body of a loop and for
scripts of seven lines, longer than TLC's, such as `if, if, cmd, else, L: group, else, cmd`, in
which L is the body of an ELSE without braces. And the model let a function
begin inside another one, which the loader rejects ("Functions cannot contain
functions.", `script.cpp:1712-1720`): `FunctionsApart` was missing from `Accepted`.

Model-checked only: the steps of `FollowsTheText` that run lines. `Activations` cuts the
stack into stretches and settles loops over folders by functions that are recursive in
the stack, with a `CHOOSE` in each; the mapping of one return through many frames onto
a step of `Structured` needs an induction that relates the two recursions, which is
not done.

## 6. Modules `FunctionCalls` and `Environments`

A function has one set of variables. When it is called while an instance of it
exists, by itself, from a thread that interrupts it or by a host, its variables
are backed up, handed to the new instance blank, and put back when it returns.
By-reference parameters become aliases, results are passed in one of three kinds
of memory, and variables own memory that may be a chunk which cannot be given
back.

`Environments.tla` is the promise: each activation has variables of its own, a
ByRef parameter stands for the very variable passed, statics and globals are
shared. `FunctionCalls.tla` is the code. In the mapping, a variable of an
activation is in `mVar` if no later activation of the function exists, and in the
backup of the next one otherwise (`VarOf`).

| TLA+ | code |
|---|---|
| `mem.var` | each `Var`: alias, `mHowAllocated`, a class of capacity, contents |
| `mem.buf`, `mem.allocs`, `mem.simple` | whether `sDerefBuf` exists, how many malloc'd blocks exist, how many chunks of `SimpleHeap` variables have |
| `frames` | activations: the function, the backup made for it, the line in it that waits for calls |
| `Set` | an assignment without a call |
| `Call` | `ExpandArgs` up to the function's body: arguments converted, `BackupFunctionVars`, parameters bound from the last to the first, the refusal of a ByRef argument that is no variable |
| `Return` | the three ways of a result: assigned at once (`Shortcut`), copied before the variables are freed (`Persistent`), or handed back untouched |
| `Exit` | every call of the thread abandoned |
| `Thread`, `CallFunc` | an interrupting thread; `callFunc` of a host |
| `DerefTimeout` | the timer that gives a large deref buffer back |

Abstractions. Texts are `short` (fits a chunk) or `long`; the alloca'd and
static buffers a result may be in are one kind; lines are the few that `MCCalls`
names, and a line makes up to two calls. `said` records what the script did last
and is read by no step, so that leaving it out of the states compared (VIEW) is
sound for properties of states, and the refinement is checked on every step.

| run | what it checks | instance |
|---|---|---|
| `calls` | `TypeOK`; `MemoryOwned`: each malloc'd block has exactly one owner on every way out; `SimpleHeapBounded`: chunks that cannot be given back do not accumulate; `EachCallItsOwnVariables`: the refinement | two functions that call each other and themselves, one with an optional ByRef parameter and a static, four activations in up to two threads, four lines executed |
| `calls_alias` | `EachCallItsOwnVariables`, which the code does not keep with one more line | the same |

Bounds. Three activations are needed for a function below and above another one
that has an alias to it, four for a second backup; four lines assign, call twice
and return. The bound on lines ends the run, so deadlock is not checked.

Finding `calls_alias`: the test whether a result goes to a variable that is about
to be restored (`script_expression.cpp:1506`) looks at the caller's function
only, and misses a ByRef parameter of another function that stands for such a
variable. The result is lost.

Seen while modelling: a function's own variable passed to it ByRef is a
limitation the source states (`script_expression.cpp:1370-1380`, excluded by
`PassesItsOwn`); `callFunc` assigns a host's text to a ByRef parameter that may
still be an alias, and applies no defaults; `NULLIFY_S_DEREF_BUF` zeroes the size
before it tests it (`script.h:520-525`), so that `sLargeDerefBufs` is never
decremented; an argument that is a lone `%x%` points to the contents of `x`, which
a later argument may change; an assignment to a parameter that exceeds #MaxMem
shows a dialog while `mInstances` does not yet count the call.

* Chains of aliases. `Assign`, `Free` and `UpdateAlias` follow an alias to its end
  (`var.h:306`, `var.cpp:402`, 763), while `AcceptNewMem`, `Contents` and `Close`
  follow one link and rely on "aliases can't point to other aliases"
  (`var.h:277`). `Resolve` is one link, which is exact where there is no chain. A
  host's text for a ByRef parameter, or a result that is lost as in `calls_alias`,
  can follow one.
* A function with two ByRef parameters that passes them to itself in the other
  order binds the last one first, and the first one then to what the last one
  now stands for. It is the limitation that the source states; the instance has one
  ByRef parameter.

### Theorems (`FunctionCalls_proofs.tla`)

For any functions with any parameters, any lines and results, any number of
activations and threads (`CallsAssumption`: variables belong to one function, and
the parameters of one have different names, for which `DefineFunc` reports
"Duplicate parameter").

| theorem | property | argument |
|---|---|---|
| `MemoryAlwaysOwned` | `MemoryOwned` | if `LostResults` is false and `HostByValue`: `Settled`, below |
| `CallsTypeCorrect` | `TypeOK` | the same, and the `Bounds` on activations and lines. That `allocs` is a natural number, which is to say that nothing is freed twice, comes from `MemoryOwned` |
| `SimpleHeapAlwaysBounded` | `SimpleHeapBounded` | `Inv`: the memory and the stack are of their types; each backup holds the variables of its function and there is one wherever an activation of it is beneath (`BackupsRight`); and of the layers of a variable - what `mVar` holds and what the backups hold - only the lowest may be a chunk or without memory (`Layered`), so that each chunk taken makes one more variable used for the first time (`Base`). The property alone is not inductive: a variable below could take a second chunk after a restore |

The balance of blocks in `MemoryOwned` says nothing of which variable is written or
freed, and a block is lost as soon as one is freed, restored or blanked twice, or
never because it seemed to be an alias. `Settled` adds to `Inv`:

* `OnlyRefs`: only a ByRef parameter is ever an alias, in `mVar` or in a backup, and an
  alias owns no block, so that what `FreeAndRestore` leaves alone owns nothing;
* `Idle`: the variables of a function that does not run own no block, so that a
  restore without a backup has nothing left to free;
* `Standing`: take the backups off one after the other. What the aliases are for the
  i-th activation then, its parameters stand for variables that are no aliases and
  that belong to an activation beneath it or to none (`Direct`); and a line that waits
  has its result go to no variable that the activation above it restores (`Awaits`).
  That is why it does not matter when a result is assigned. Returning to an activation
  makes its aliases the current ones, which is why the invariant is about all layers;
* `Owed`: the activations' own blocks are what `allocs` has beyond the variables' and
  `sDerefBuf`'s. It is a sum along the activations, so that a call, a return and each
  round of `Unwound` change its last term, and is counted up to the sets of `Owners`
  at the end (`OwedCounted`).

`Bind` and `Unwound` are recursive functions; that each round keeps the invariant goes
through them by induction on the parameters and on the activations.

The argument needs both conditions. Without the first, `Awaits` fails: that is
`calls_alias`. `MemoryOwned` itself may still hold then: TLC finds no violation in the
instance of `calls` with lost results. Without the second `MemoryOwned` fails in the
model: G, called without its optional
ByRef parameter, passes it to H's, H calls G again with a variable, and a host calls H
before that G returns. H's parameter still stands for G's, now itself an alias; the
text is assigned there, and G's return does not free it, since G's parameter is an
alias. `Var::Assign` follows both links and writes into the caller's variable instead.
`SimpleHeapAlwaysBounded` needs neither condition.

## 7. Modules `Expressions` and `ExpressionTrees`

`Line::ExpandExpression` turns an expression into tokens, these into postfix
order with a stack and a table of precedences, and evaluates them. Short circuit
works by a pointer that an operand's last token carries to the operator it
completes: evaluation skips to it.

`ExpressionTrees.tla` says what a tree of operators does to the variables
(`Outcome`) and how it is written with as few parentheses as the precedences
allow (`Written`). It uses recursive operators and serves the checks only.
`Expressions.tla` is the code, from the written form on.

| TLA+ | code |
|---|---|
| `phase`, `tok`, `at`, `stack`, `post` | where `ExpandExpression` is; `infix[]`, the token at hand, `stack[]`, `postfix[]` |
| `Tokenize` | the loop over the text: implicit concatenation, unary or binary, `MAX_TOKENS` |
| `Operand`, `OpenParen`, `CloseParen`, `Else`, `EndOfInfix`, `InfixOperator`, `PopIntoPostfix` | the conversion, one step for each turn of its loop |
| `EvalOperand`, `EvalFunc`, `EvalElse`, `EvalThen`, `EvalComma`, `EvalUnary`, `EvalIncrement`, `EvalAssign`, `EvalAssignAdd`, `EvalBinary`, `EvalConcat` | the evaluation, one step for each postfix token |
| `ShortCircuit`, `PushThisToken` | what becomes of an operand that carries a circuit token |
| `Malformed`, `AbnormalEnd`, `NormalEnd` | the ways out |
| `astray` | (auxiliary) an operator took an operand that is not its own, or a comma ignored a circuit token |

Abstractions. One or two operators for each row of the table and each kind of
handling; numbers are naturals and text is digits; the splitting of text into
tokens, floating point, dynamic variables and the memory of results (section 6)
are left out. `LooksAhead`, `ConcatInPlace` and the rest of the optimizations that
change which operands are popped are in.

| run | what it checks | instance |
|---|---|---|
| `expressions` | `TypeOK`; `CircuitAhead`: a circuit token lies ahead of the operand that carries it, and only operands are on the stack; `DoesWhatItSays`: an expression does to the variables what its tree says, if no operator goes astray | every tree of up to two operators one within the other, with two variables as output; every sequence of up to three lexemes, however malformed |
| `expr_ternary` | `TakesItsOwnOperands`, which the code does not keep | `2 ? 3 : 4` |

Bounds. Two operators show every pair of precedences on either side; three
lexemes every malformed neighbourhood. `MAX_TOKENS` 11 makes the longest
expressions fail for want of room. An expression ends, so deadlock is not checked.

The texts are assumed to be lexemes as the splitting of text makes them
(`TextsAssumption`): each holds what suits it, and a function's name is one that a
parenthesis follows.

Finding `expr_ternary`: the THEN branch of a ternary has been popped into `right`
when `script_expression.cpp:1761` pops a further operand and makes that the
result; the assignment of a nested `:=` (2038) and concatenation in place (2170,
2200) do the same. In C terms the operand comes from below the stack; the model
marks the expression `astray` and stops it where there is none.

Seen while modelling: `x := 1 + (x := a . b)` ends the expression early (2195); a
comma does not look at the circuit token it completes (1765-1773); commas within
a function's parentheses are a limitation the source states (964-978) and are not
among the trees.

### Theorems (`Expressions_proofs.tla`)

For any expressions, however long and malformed, any variables and contents, and any
`MAX_TOKENS` (`TextsAssumption`, `StartAssumption`, `MaxTokensAssumption`).

| theorem | property | argument |
|---|---|---|
| `ExpressionsTypeOK` | `TypeOK` | `postfix[]` and the stack together have no more entries than tokens have been looked at (`InfixOK`), and the stack of the evaluation none more than the tokens evaluated (`PostfixOK`), so that neither array needs a test of its own, as the comment at `script_expression.cpp:192-193` says |
| `ShortCircuitsFindTheirTokens` | `CircuitAhead` | `Pending`: while the tokens are put in order, the circuit token of a token in `postfix[]` is later in `postfix[]` or still on the stack, from where it can only go there. Once the stack is empty this is `CircuitAhead`, which evaluation keeps: a short circuit goes on ahead and within `postfix[]` however many operators it decides at once (`ShortCircuitGoesAhead`, by induction downwards) |

`IInv` needs besides that the tokens on the stack are in their infix order (`StackOK`),
that no token is in `postfix[]` twice or also on the stack (`PostOK`), without which
a circuit token could be set to one that is already behind, and that the functions
on the stack are no more than `functions_on_stack`, which keeps it from going below zero.

Model-checked only: `DoesWhatItSays`, which compares with `Outcome`, a recursive
operator on trees.

## 8. Modules `VarLists` and `SimpleHeap`

`VarLists.tla` models which variable a name stands for. Names, variables and
functions get their memory from `SimpleHeap.tla`, whose operators work on a
record.

| TLA+ | code |
|---|---|
| `lists` | for the script and each function: the sorted `mVar`, the sorted `mLazyVar` that is merged into it when full, `mVarCountMax` |
| `func`, `CurrentFunc`, `exceptions`, `mNextLineIsFunctionBody` | what is known of declarations while a function is loaded |
| `Lookup`, `FindVar`, `AddVar`, `FindOrAddVar`, `Insert`, `Merged` | the same; a search yields where the name would go |
| `AddLine`, `DefineFunc` with `AddParam` and `Defined`, `Declare`, `DeclareAssumeGlobal`, `EndFunc`, `FinishLoading` | loading |
| `Switch`, `ResolveVarOfArg`, `AddElement`, `ahkassign`, each of the last three through `FindsOrAdds` | running: calls, a host's assignment, dynamic names, array elements |
| `FailedHotkey` | a hotkey whose making fails gives its memory back |
| `Malloc`, `CreateBlock`, `Delete` | `SimpleHeap` |

| run | what it checks | instance |
|---|---|---|
| `varlists` | `TypeOK` (lists in ascending order, no name twice, no list over its memory; a lazy list without room for one more only after a refused allocation); `HeapSound`: chunks in use are apart; `NoneLost`: a variable once made is found for good, unless a refused merge overwrites its list; `StaticAndDynamicAgree`: a name in the text and the same name built at run time mean the same variable in a function | four names, one of them built-in, one function with at most one parameter and one declared exception, two allocations or hotkeys that fail |

Bounds. Lists of one, three and five variables and a lazy list of two take four
names through each growth and a merge; blocks of 44 bytes fill after every fourth
variable. Two failures take a lazy list through a refused merge, both the one that
leaves it full and the one that loses it. The write behind the end of a full list
needs a fifth name in its scope: it is in the model (`Corrupts`, `undefined`) and in
the proofs, but the run does not reach it; a search through lost lists it does. The
parameter is one of two names, the built-in one, which is refused, and the watched
one. `StaticAndDynamicAgree` watches one name; names are not symmetric (they are
ordered), and the watched one has neighbours on both sides. A script may have
nothing left to add, so deadlock is not checked.

Seen while modelling:

* A merge that memory is refused to. Where only the main list must grow
  (`script.cpp:7689-7694`), the lazy list stays full, and the next insertion writes
  behind its end (7633-7636), which the comment at 7625-7627 rules out. Where a new
  lazy list is made as well (7677-7682), `mLazyVar` is overwritten by it or by NULL
  before the old one is merged: its variables are lost, and the count then speaks
  of pointers that are not set. `Insert` follows both; `lost` marks lists of the
  second kind. When the program uses memory that is not set, or not the list's,
  `undefined` is set and nothing more is said of it. With the program's own
  2000 and 9999 the second kind cannot find a full lazy list, since there is none
  before the main list has its third size, unless an allocation has failed before.
* `new Var` with the heap's `operator new` constructs the variable before the
  caller tests for NULL (`script.cpp:7617`).
* "Duplicate declaration" is never reported for local and global declarations:
  the exception is looked for in default searches only (`script.cpp:7467`).
* A name declared global below its use as a local means two things in one
  function (`meant` leaves it out), and array elements are local although declared
  global, a limitation the source states (`script.cpp:6815`).
* `ahkassign` and `ahkgetvar` look in whatever function is running
  (`exports.cpp:9`, 15) and may create a local there.
* The order in which `SimpleHeap` evaluates `sLast->mNextBlock = CreateBlock()`
  is unspecified; nothing goes through that list.

### Theorems (`VarLists_proofs.tla`)

For any names, functions, list sizes, sizes of chunks up to the block's and
whichever allocations fail (`VarListsAssumption`, `BlockAssumption`,
`NullAssumption`). They have no other hypotheses.

| theorem | property | argument |
|---|---|---|
| `TypeCorrect` | `TypeOK` | `ListsOK`: sorted, within its memory, no name twice, also after a refused growth or merge; `accidents` is above zero once a list is lost or has no room for one more. Insertion keeps order because a failed binary search yields where the name belongs; a merge is a recursive function, and what it has merged after each step goes by induction |
| `ChunksAlwaysApart` | `HeapSound` | `HeapInv`: chunks of the last block end at the free marker (`BelowMarker`), and the one that can be given back is the last of them (`RecentIsLast`) |
| `VariablesNeverLost` | `NoneLost` | `Lookup` finds exactly the elements of a sorted list (`SearchIs`), by induction over the interval that is left; and every step that changes a list keeps its elements (`Kept`), but for the full lazy list that a refused merge overwrites before the main list has its third size: the property names that case, and the proof shows that it is the only one |
| `DeclarationsOutlived` | `StaticAndDynamicAgree` | `MeantOK` relates what a name meant when it was first used to the declarations while there are some, and to the lists for good: a name that means a global is never made a local later. Lists that are lost are excepted. For every function and name watched |

## 9. What is proved and what is checked

| Module | safety properties of its runs | left to TLC |
|---|---|---|
| `Threads` | all of the passing runs proved, four of ten under the conditions named in section 2 | `ShieldExpires` |
| `MsgSleep` | all proved | `SleepEnds`, `TimersRun` |
| `Hotkeys` | all proved, `RegistrationCurrent` under `RelabelledInert` | |
| `VarLists`, `SimpleHeap` | all proved, with the exception for refused merges that the properties state | |
| `FunctionCalls` | all proved, `MemoryOwned` and `TypeOK` under the two conditions of section 6 | `EachCallItsOwnVariables` |
| `FlowOfControl` | all proved, two of them about scripts without a function in the place of a body, as the properties say; `FollowsTheText` while a script is loaded | `FollowsTheText` while a script runs |
| `Expressions` | `TypeOK` and `CircuitAhead` proved | `DoesWhatItSays` |

The assumptions are the named ASSUMEs of the modules, which say of the constants
what the code's own constants satisfy; TLC evaluates them in every run.

`InductionLemmas` gives induction over data, which the library's theorems cannot
since they take an operator as a parameter: `Induction`, `InductionDown`,
`LeastNumber` and `GreatestNumber` are about sets of numbers, and `Recursion` and
`RecursionByMeasure` say that the equation of a recursive function has a solution,
so that the function that its definition chooses satisfies it.
They rest on the library's well-foundedness of `<`.

What stays with TLC, and why:

* `ShieldExpires`, `SleepEnds`, `TimersRun`: liveness, which needs fairness and
  ENABLED.
* `DoesWhatItSays`: `Written` and `Outcome` are recursive operators, and a module
  with a theorem may not reach them; that precedences are right for a tree of any size
  would be an induction on trees besides.
* `FollowsTheText` while a script runs: see section 5. That what the steps start from is
  right, the pointers, the levels and where jumps may go, is `LoadsAsWritten`.
* `EachCallItsOwnVariables`: that a variable of the i-th activation is in the backup of
  the next one of its function (`VarOf`) has to be carried through `Bind` and `Unwound`
  together with the contents; the layers of `Settled` are the first part of that, for
  aliases and blocks, without the contents.
* `timer_mark`, `expr_ternary` and `calls_alias`, which show what does not hold.

## 10. Not modelled

* Stubs: the bodies of `hook.cpp`, `clipboard.cpp`, `WinGroup.cpp`,
  `script_registry.cpp`, `script_menu.cpp`, `script_autoit.cpp` and most of
  `window.cpp`, `script_gui.cpp` and `keyboard_mouse.cpp` are commented out. A model
  of them would be a model of text that is not compiled.
* `lib_pcre`, `mt19937ar` and the other vendored libraries.
* The Windows API: files, registry, windows and GUI controls, sound, and what the
  program does with them one call after the other without state of its own.
* `util.cpp` and the string and date functions: sequential, without state.
* The splitting of a line of text into command and arguments, of an expression
  into tokens, and of a key's name into modifiers: parsing without state that
  outlives it.
* The race for `mTempFunc`: two calls of `ahkFunction` before the first message is
  handled both run the second function (`exports.cpp:146`). Nothing in the
  repository says what should happen, so there is nothing to hold it to.
* `AutoExecSectionTimeout` copies whatever thread is on top into `g_default`
  (`application.cpp:2100`): it is in `Threads`, without a property for the same
  reason.
* Ticks that wrap after 49.7 days; Win9x.
