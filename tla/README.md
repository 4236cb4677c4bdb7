# NEFramework: TLA+ models, checks and proofs

NEFramework (`src/`) is a Windows desktop framework: a base library with message loops and
threads derived from Chromium's, a DuiLib-based UI library, and an embedding of CEF. This
directory models the parts of it that keep state across threads, callbacks and messages in
TLA+, checks small instances with TLC and proves the main safety properties with TLAPS.

## Inventory

Paths are under `src/toolkits/`. *Hard* names what a unit test would hardly reach.

| Component | State | Operations, interaction | Hard | Correct means |
|---|---|---|---|---|
| MessageLoop (`base/framework/message_loop.*`) | incoming queue (locked), work, deferred and delayed queues, run state stack, `nestable_tasks_allowed_`, `recent_tick_` | Post*Task from any thread; Run, RunAllPending, Quit, QuitNow, SetNestableTasksAllowed on the owner; DoWork / DoDelayedWork / DoIdleWork called by the pump | wakeups, nesting, deferral, stale clock, quitting | no task lost or run twice, order kept, never asleep with work, Quit drains |
| DefaultMessagePump (`default_message_pump.*`) | auto-reset event, `should_quit_`, `delayed_work_time_` | Run calls the loop; ScheduleWork from any thread | one flag and one time for nested Runs | as above |
| MessageLoopProxy (`message_loop_proxy.*`) | `target_message_loop_` under a lock; relays of PostTaskAndReply | clients post; the loop's destructor clears it; a relay goes to the target and back | post against destruction; replies to dead loops | a post is accepted by a live loop or refused; the reply runs once, where it was asked for |
| FrameworkThread (`base/thread/framework_thread.*`) | `message_loop_`, `started_`, `stopping_`, `event_`, thread handle and id | controller: Start, Stop, StopSoon, RunOnCurrentThreadWithLoop; thread: Run | unlocked reads across threads, start handshake, join, restart | Start hands out a live loop, Stop drains, joins and resets |
| ThreadManager (`base/thread/thread_manager.*`) | `threads_` (locked when written), registration counts in TLS, the count of a repeated task | RegisterThread, UnregisterThread, lookups by identifier, Await, PostRepeatedTask | the map is read without its lock; a thread found may end before it is used | the map holds the threads that run, a post reaches one or fails, a cancelled task stops |
| Windows UI pump (`base/framework/win_ui_message_pump.*`) | `have_work_`, timer, dispatch state | window messages, modal loops | flag against message, modal loops | work is picked up in modal loops too |
| Windows I/O pump (`win_io_message_pump.*`) | `have_work_`, completions | completion port | flag against a failed post | as above |
| WaitableEvent, POSIX (`base/synchronization/waitable_event_posix.cpp`) | `signaled_`, the waiter list and lock of each event; a `SyncWaiter` of each waiting thread | Signal, Reset, IsSignaled, Wait with a timeout, WaitMultiple | timeout against signal, a waiter in several lists, lock order | a signal is got once, no waiter sleeps on a signaled event or stays listed |
| Locks, semaphores (`base/synchronization/`) | the system's | wrappers | - | - |
| ObjectWatcher (`base/win32/object_watcher.*`) | the current `Watch`, its registration, the origin loop | StartWatching, StopWatching, the wait thread's DoneWaiting, the loop's end | the report races the stop; the loop goes first | each watch is told at most once, not after a stop, to a watcher that is there |
| ObserverList (`base/framework/observer_list.h`) | list with holes, nesting count | add, remove, traverse | removal during nested traversals | none skipped, none called after removal |
| Memory, AtExitManager, callbacks (`base/memory`, `base/util/at_exit.*`, `base/callback`) | lazy state, stack of callbacks, weak flags | create once, run at exit, call if alive | creation races, reentrancy | run once, in order, not after a cancel |
| Win32 helpers, time, files, encryption, network, strings | little | wrappers of system calls | clock roll-over | - |
| HTTP client (`net/`) | a libcurl handle; a global size | download, resume | shared global | - |
| CEF external pump (`shared/cef/main_message_loop_external_pump*`) | `is_active_`, `reentrancy_detected_`, the timer | OnScheduleMessagePumpWork from any thread, OnScheduleWork, OnTimerTimeout, DoWork, Run | a slice dispatches the messages that ask for the next one; placeholder delays | no request is lost, no slice inside a slice, the pump never stalls |
| Other CEF loops and embedding, shared utilities | browser windows, files | callbacks of CEF | - | - |
| duilib's PaintManager (`duilib/Core/PaintManager.cpp`, with `Control.cpp`, `box.cpp`) | `focus_`, `event_hover_`, `event_click_`, `event_key_`, `timers_`, `delayed_cleanup_`; each control's flags | mouse, keyboard and timer messages, SetFocus, SetTimer, KillTimer, ReapObjects, AddDelayedCleanup | every event calls handlers that call back, or dispatch messages, while the caller holds a control in a local | pointers mean controls that exist; focus, hover and timers agree with what the controls were told |
| duilib's drawing, layout, controls | control tree | layout, drawing | - | - |

`PROJECT.json` lists the same components with their status and, under *hazards*, the places
where this code can go wrong, with the property that covers each or the reason why none does.

## Modules

| Module | Models |
|---|---|
| `TaskRunner` | what the loop promises: closures are accepted in an order, started one at a time (nested loops stack them), finished once; FIFO for plain tasks, due times for delayed ones, non-nestable ones only at the top |
| `MessageLoop`, `MessageLoop_proofs` | `MessageLoop` with its `DefaultMessagePump`, one owner thread, any number of posters |
| `FrameworkThread`, `FrameworkThread_proofs` | `FrameworkThread`, the destruction of its loop, and clients posting through `MessageLoopProxy` |
| `WinUIMessagePump`, `WinUIMessagePump_proofs` | the pump of a thread with windows: `have_work_`, WM_TIMER and OS modal loops around the same delegate |
| `ThreadManager`, `ThreadManager_proofs` | the registry, Await with the relay of PostTaskAndReply, PostRepeatedTask with its weak callback |
| `PaintManager`, `PaintManager_proofs` | the pointers and timers of a window under re-entrant handlers |
| `EventSignals` | what events promise, without a lock or a list: a thread waits for a set of events, in one line for each, and is given one of them or gives up |
| `WaitableEvent`, `WaitableEvent_proofs` | the POSIX events, `SyncWaiter` and WaitMultiple, lock by lock |
| `MainMessageLoopExternalPump`, its `_proofs` | CEF's time slices driven from Windows messages and one timer |
| `ObjectWatcher`, `ObjectWatcher_proofs` | one watcher, its wait in the system's pool and the loops it reports to |
| `MC*` | the small instances |

`MessageLoop` and `WinUIMessagePump` implement `TaskRunner` (property `ImplementsTaskRunner` of
each): one promise for the loop of a plain thread and for that of a thread with windows.
`WaitableEvent` implements `EventSignals` (`ImplementsEventSignals`).
`FrameworkThread` has the loop reduced to what `MessageLoop` shows of it, and `ThreadManager` has framework threads
reduced to what `FrameworkThread` shows of them.

In every module an operator after a *Mutant:* comment is a definition the specification does
not use: a plausible mistake in the code, kept to show that a property notices it. Variables
commented *history* record what happened for the properties and decide nothing.

### MessageLoop

One variable per member of the class (the declarations name it). An owner step runs from one
point where other threads or the program's closures can interfere to the next; so
`AddToIncomingQueue` (under the lock) and `ScheduleWork` (after it) are two steps of a poster,
the pump's decision to wait (`Sleep`) and the end of the wait (`Wake`) are two steps of the
owner, and a closure runs between `StartTask` and `FinishTask`. `frame` is the stack of
activations of `Run`: the pump's position, `did_work`, `quit_received`, and the closure being
executed with the calls on the loop it may still make. A nested `Run` pushes a frame.

Abstractions: a closure is a `Script`, the set of loop calls it may make, each at most once
and in any order; a task is posted at most once, and stands for its `PendingTask`; the clock
counts units (the rounding of `WaitTimeout` to milliseconds is left out) and does not go back;
the sequence number does not wrap; task observers and dispatchers do not change the loop.
`Run` has the guard `~shouldQuit`, the assertion at the head of the pump's `Run`.

### FrameworkThread

Three kinds of actor: the *controller* (the thread that owns the object), the thread in
`FrameworkThread::Run`, and clients with a `MessageLoopProxy`. The variables `started`,
`stopping`, `messageLoop`, `event`, `handle`, `threadId` are the object's members, read and
written without a lock as in the code; `controller` and `pc` say where the two threads are.
`StopSoon` is split where the thread may interfere: the test of `stopping_` and
`message_loop_`, and the post to what was read. `~MessageLoop` is split into the deletion of
pending tasks and the moment the proxy learns of it. Loops are numbered, so that a client can
hold the proxy of a dead one. The loop is reduced to what `MessageLoop` shows of it.

The controller follows the header: it starts an object only when it is new or stopped, it is
one thread, and it does not call `Quit` on the loop. `Init()`, `Cleanup()` and the thread-local
data are part of the steps around them. Tasks that are delayed, or posted after the loop has
decided to quit, are destroyed with it, in spite of the header's "all pending tasks … will run
to completion"; `StopDrains` is the part that holds. The constant `MixedUse` says whether an object that has
hosted a loop on its own thread may later be `Start()`ed. The code does not forbid it, but then
`StartedMeansReady` fails: with `MixedUse = TRUE` TLC finds RunOnCurrentThreadWithLoop, which
leaves the event signaled (framework_thread.cpp:174), then `Stop` and a `Start` that returns on
that signal before there is a loop, against framework_thread.h:57-59 and 88-90. The run and the
theorems are for `MixedUse = FALSE`.

### WinUIMessagePump

The UI thread is a stack of activations: `DoRunLoop`, message handlers (`HandleWorkMessage`,
`HandleTimerMessage`, those of the program), closures and the modal loops of Windows, each with
its position. A step takes the activation on top from one point where other threads or Windows
can interfere to the next; `ScheduleWork` on a poster's thread is the interlocked exchange and
then the post, on the UI thread, which alone takes messages, one step. `queue` holds the posted
messages; WM_TIMER is not queued but made by `PeekMessage` when nothing is posted, as in Windows
(`AnyMessage`). A modal loop dispatches any message, may be told of by `set_os_modal_loop` or
not, may be open before `Run`, and ends when the user likes. `order` is history: what was
posted, in order.

`WaitForWork` has two waits. The first (`WaitForWork`) is timed by `delayed_work_time_`. When it
returns for a mouse message that is another thread's (`MouseElsewhere`), the code calls the
system's WaitMessage, which has no timeout (`WaitMessage`). So what holds of the pump's sleep is
`WaitsUntilDue`, about the timed wait; in the untimed one, as in a modal loop, only WM_TIMER can
bring the pump back in time, and `TimerIsSet`, that the timer is set for it, fails
(`ui_pump_timer`). One step is coarser than the code: ProcessPumpReplacementMessage resets
`have_work_` (line 352) and, with a message to handle, calls ScheduleWork at once (363). A poster
between the two would set the flag and post the message itself, and the other would not.

The delegate is `MessageLoop` without nested Runs and non-nestable tasks, so without deferral;
its comparison of sequence numbers (message_loop.cpp:299) is kept, as it decides about the
timer. Not modelled: nested Runs, dispatchers, WM_QUIT, WM_PAINT, observers, and a PostMessage
that fails because the queue is full (the flag would stay set for ever).

`WorkIsNoticed` needs that no delayed task opens a modal loop. If one does, inside a modal loop
that allows nested tasks, the kMsgHaveWork dispatched in the inner loop finds nesting forbidden
and is lost: when the task returns nobody tells the outer loop of the tasks that wait, and it
blocks on them until it ends (`ui_pump_nested`). It is about the timed wait and modal loops:
the documentation of WaitMessage lets it ignore messages that were already looked at, so a
kMsgHaveWork may wait there for the next message.

### ThreadManager

Each thread is `life` (none, running its loop, in `Cleanup`, its loop gone), the number of its
loop and a queue of relays. A call is split where the code reads shared state without a lock:
`GetMessageLoop` looks the identifier up, then reads the thread's loop, then uses it; what a
caller holds in between is in `call`. A relay (`PostTaskAndReplyRelay`) records the loop it
came from and the loop it was sent to, and moves between them or leaks when one has gone.
PostRepeatedTask posts a callback that posts the next: each repetition looks the identifier up
again, the weak flag is tested before the call, and a count of 0 means for ever, as in the code.
Another thread may have tested the flag when the callback is cancelled, so it can be entered once
more: `late` is the entries after the cancellation, and `CancelStops` says that there is at most
one and that it is not on the thread that cancelled.

Since GetMessageLoop takes no lock, the thread it has found may unregister, leave its loop and
delete it before the loop is used. `crashed` says that it has been; nothing happens after it.
`LookupSafe`, that it never is, is what a caller would expect, and `thread_manager_lookup` refutes
it; the runs and theorems about the rest are about what happens up to such a use.

What the code does that a reader may not expect, and the model does too: a thread registered
under two identifiers leaves the first entry behind (`mixed` remembers such threads and
`RegistryExact` speaks of the others); a relay whose loops have gone is never freed. Left out:
`PostTask(id, …)`, the same lookup and one post; the data race of an unlocked `std::map::find`
against an insertion, whose outcome no model of the map can bound.

### PaintManager

All of it runs on one thread, but every event calls the program. `stack` holds the activations:
those in which a handler runs, where the program may call anything (`Room` bounds how deep:
the deepest handlers only return), and the manager's own, which wait for a handler and go on
where their name says with the control they kept in a local variable. So `SetFocus` is its
three parts (tell the old control, store, tell the new one) with handlers between them, and a
mouse move is the leave, the enter and the move.

Controls are in the tree, removed and kept in `delayed_cleanup_`, or not there. What is in
`delayed_cleanup_` stays as long as the manager: AddDelayedCleanup posts a message (WM_APP + 1,
line 2157), but no handler takes it, and only `Cleanup` (205-211) deletes. `Destroy` is a control
its box deletes at once, and is possible only while no handler runs, so destruction inside a
handler of the control is excluded. WM_MOUSEWHEEL is its event and the WM_MOUSEMOVE it sends
afterwards (`Wheel`). Timer identifiers are a counter modulo 0xF0 which starts at 4096:
the first one is 4097 % 0xF0.

Two histories excuse what the code is known to do when handlers nest: `nested` (a message was
handled inside a handler) and `reentered` (the focus was moved while being taken away). Not
modelled: drawing, layout, capture, drag and drop, tooltips, `SetNextTabControl`, controls
deleted inside a handler with `SetDelayedDestroy(false)`, and the `current_caret_object_`. A
focused control that is hidden keeps the focus, as in the code.

### WaitableEvent

A step holds its locks from beginning to end, except where the code keeps one lock while
taking another: `Signal` with the event's lock and a waiter's, WaitMultiple with all events in
the order of their addresses. Then the lock is a variable. `fired` and `by` are the members of
the `SyncWaiter`. In a call, `left` is the events WaitMultiple has not locked yet, and `events`
what a waiter has still to leave. `owed` is history: the signals an auto-reset event was given and nobody got.
The initial value of each flag is any. WaitMultiple's arrays have no event twice, as it
asserts. A timeout may come whenever the thread waits. There is no fairness: nothing in the
class makes a thread wait or signal.

`EventSignals` is what a user of events may count on. `Ask` is a WaitMultiple that begins to look
at its events, and `asks` which they are; `Take` then takes the signaled one of least address, or,
with nothing asked, the event of a single wait. `Join` enters the lines of all events of
a wait in one step, while none is signaled or being signaled; in the code these are the last
step of `EnqueueMultiple`, with all locks, and of `WaitTimeout`. `Give` serves who has waited
longest *for this event*, by `ahead`, the threads that were in one of the lines before: in the
code the head of the list, once those who refuse are gone. `GiveUp` is for waits with a timeout
only. `Raise` sets the flag when nobody waits. The mapping reads a wait off `pc` and `fired` (a
waiter that has fired or was disabled waits no more, although it is still in lists), `ahead` off
the order of the lists, `asks` off the call while it is locking its events, and `got` off the
delivery on its way to the caller.

### MainMessageLoopExternalPump

`queue` holds the messages CEF's requests post and WM_QUIT; `timer_pending_` the delay of the
one timer; `slices` the calls of `CefDoMessageLoopWork` on the stack, each of which may
dispatch messages and request more slices. WM_TIMER comes only when no message is posted, and
`KillTimer` does not take back one that waits already (`expired`). At the end, `Run` makes some
rounds of slices without setting `is_active_`, so that CEF may be entered again inside them:
`CefNotReentered` is about the slices of `DoWork`. CEF and Windows are external. Left out: a
PostMessage that fails, the truncation of the delay in LPARAM, and a request for exactly the
placeholder delay.

CEF may ask as often as it likes. Each delayed request kills the timer and sets it anew (lines
53-64), so if CEF asks again and again, closer together than the delay, no slice comes; the
comment's "maximum number of milliseconds we're willing to wait between calls to DoWork()"
(21-22) does not hold then. `PumpsOn` says what is left: a slice asked for at once comes whatever
else is asked; one asked for with a delay, and the next slice in general, comes unless CEF does
just this for ever (`PutOffForEver`, a premise about CEF that nothing in `src/` justifies or
refutes).

### ObjectWatcher

One watcher, used on a thread that has several loops in turn; watches are numbered. The wait
thread of the pool fires once per registered object, posts the watch to the loop it remembers
(the split is where the stop may come), and `UnregisterWaitEx` waits for it. A watch in the
loop's queue may be cancelled, run, or deleted with the loop; the destructor of the loop tells
the watcher first. `RegisterWaitForSingleObject` may fail. `UnregisterWaitEx` is assumed to
succeed: if it fails, StopWatching returns with the watch still registered (object_watcher.cpp
65-67), which is not modelled, and nothing here is shown of a watcher after that. Objects once signaled stay signaled.
The system stops when the starts and loops are used up.

## Runs

| Run | Instance | What it shows |
|---|---|---|
| `message_loop` | 4 tasks (one runs nested loops, one quits, one is non-nestable, one is late; two go through the delayed queue), a poster beside the owner, depth 2, clock to 2 | no lost wakeup, no sleep on work or past a due time, each task in one place, Quit drains, QuitNow is immediate, the loop implements `TaskRunner`; posted tasks run and Quit takes effect |
| `message_loop_quit` | 2 delayed tasks, one non-nestable | **violated**: a nested loop returns from RunAllPending with a due task left |
| `framework_thread_stop` | 3 tasks (1 delayed), 2 clients, 2 loops | handshake, Stop, restart, posts against destruction; Stop returns |
| `ui_pump_modal` | 4 tasks (a message box, 2 delayed), 2 posters, 2 nested modal loops, 1 input, clock to 3 | one kMsgHaveWork per set flag, no blocking on untold work, the timed wait ends when the first task is due, and the loop implements `TaskRunner` |
| `ui_pump_timer` | the same without the plain task, 1 poster, no modal loop | **violated**: SetTimer is for the timer that expires soonest |
| `ui_pump_nested` | a message box whose modal loop runs a delayed task that opens another one, 1 poster | **violated**: an allowed nested task runs at once |
| `thread_manager_await` | 2 threads, one of them restarted, 2 identifiers, 1 relay, a task repeated twice, registration nested to 2 | the registry is exact, the relay is in one place, a task runs no more often than asked and once at most after its cancellation, elsewhere |
| `thread_manager_lookup` | the same without repetition, registration not nested | **violated**: a loop found by GetMessageLoop is used after its deletion |
| `paint_manager_events` | 2 controls (one hideable), 2 timers of one control, identifiers modulo 2, handlers nested to 2 | no dangling pointer, one focus, timers as asked, enter and leave paired |
| `waitable_event_waits` | 3 threads, an auto-reset and a manual event, both orders of the array | no signal lost or got twice, no sleeper on a signaled event, no stale waiter, no deadlock of locks; nothing but a lock blocks a call; the events implement `EventSignals` |
| `main_pump_slices` | delays 0, 1, 3 with a largest timer of 2, 2 rounds, 4 messages queued, any number of requests | the pump never stalls, keeps each request, does not re-enter CEF, and serves requests as long as it runs, delayed ones unless CEF puts them off for ever |
| `object_watcher_watches` | 2 objects, 3 starts, 2 loops, 2 queued | no dead watcher or loop is met, no delegate told twice or after a stop, signals arrive |

The violated runs are the findings of `PROJECT.json`, each with the line of the documentation
it contradicts.

Bounds. `MessageLoop`: `MaxDepth` = 2 gives an outermost and a nested loop, the only
distinction the code makes (`run_depth == 1`). `MaxTime` lets a delayed task be posted, waited
for, come due and be late, and two of them be due together or one before the other. One poster
beside the owner is enough to race the wait; the proofs hold for any number. Four tasks fill
each queue with one more to interfere. `FrameworkThread`: `MaxStarts` = 2 is a restart with
proxies of the first loop about. `WinUIMessagePump`: `MaxModal` = 2 lets a modal loop be opened
by a task that runs inside another one; one input is enough for a handler that opens a modal
loop in the loop, in a modal loop, or as the replacement of a kMsgHaveWork; two delayed tasks
with different delays leave a timer of the first while the second waits; two posters race for
the flag (they are symmetric). `ThreadManager`: the
restarted thread gives a second loop under a known identifier; a count of 2 has a repetition
that is neither first nor last. `PaintManager`: two controls are the old and the new one of
every hand-over; `Modulus` = 2 makes the identifiers wrap with `MaxTimers` = 3; the constraint
`Small` keeps nesting apart from timers (once there are timers, the mouse is elsewhere and
handlers do not nest) and the two histories apart from each other; the theorems have no such
limits. `MainMessageLoopExternalPump`: the delays are at once, within and beyond the largest
timer, and `MaxQueue` = 4 holds one request of each kind and a placeholder. `ObjectWatcher`: three starts are a watch, one started in its delegate and one more, two
loops the one that goes and the next. `WaitableEvent` has no bound at all: three threads
(symmetric) are a signaller, a waiter and one before it in a line, two events the least with two
orders. The guards that name these constants are the only bounds.

`CHECK_DEADLOCK FALSE` is used throughout: a loop with nothing to do waits for ever, a closure
that runs a nested loop without allowing nested tasks waits in it, every task may have been
posted, threads may all have ended, and a wait without a signal goes on.

Fairness. `MessageLoop!Fairness`: the owner thread is scheduled (weak fairness of its steps,
which include the return of a closure), time passes up to the bound, and a poster that has
begun `PostTask` finishes it. `FrameworkThread!Fairness`: the thread is scheduled and the
controller finishes the method it is in. `MainMessageLoopExternalPump!Fairness`: `Run`
dispatches the posted messages and WM_TIMER, the timer elapses, and slices return.
`ObjectWatcher`: the wait thread and the loop's thread are scheduled. Nobody has to post, to
call Quit or Stop, to request a slice or to signal. Each is the operating system's scheduling
of a thread that is not blocked; the blocked states (the event, the join) are guards. What the
program may rightly prevent is a premise of the property: a nested `Run` nobody quits blocks
the tasks below it, so `PendingEventuallyRuns` holds if nested loops end again and again, and
`QuitEventuallyReturns` for a depth if the loops above it do; and delayed requests that CEF repeats
for ever put the slice off (`PutOffForEver`), so `PumpsOn` promises them one if it does not.

## Proofs

The theorems hold for all constants that satisfy the named assumptions of the module, so for
any number of tasks, threads, controls, timers, loops and requests. In each module `TypeOK` is
proved with the rest, and the runs do not repeat it. None of the properties is inductive; each
module strengthens them to `IInv`, shows it inductive with one lemma or step per action, and
ends with `PTL`.

`MessageLoop_proofs` (`TasksAssumption`, `BoundsAssumption`): `NoLostWakeup`,
`SleepsOnlyWhenDrained`, `NeverOversleeps`, `NestedOnlyIfAllowed`, `QuitDrains`,
`QuitNowIsImmediate`, `EachTaskInOnePlace`, `ImplementsTaskRunner`. `IInv` adds what the code relies on without saying so:

- `OuterBusy`: every activation but the innermost is inside a closure. Only the innermost
  frame moves, and it is the one the properties speak of.
- `NestingInv`: `nestable_tasks_allowed_` is what the innermost executing closure last set, and
  true when there is none; every closure below it had allowed nesting.
- `WakeInv`: from the moment DoWork has found the queues empty until the wait ends, a task in
  the incoming queue implies the event is set or a poster is about to set it. It must hold at
  every pump position between the two, not only in the wait.
- `DrainInv`: at the positions after DoWork said false, the work queue is empty; after
  DoIdleWork, the deferred queue is (at the top) and Quit was not received.
- `TimerInv`: after DoDelayedWork, `delayedWorkTime` is at most the time of the earliest
  delayed task, and not null while there is one. This is where the stale member could hurt.
- `QuitInv`: `should_quit_` is set only while its setter is executing or the innermost pump is
  on its way out.

`EachTaskInOnePlace` is a count, proved in a second induction on top of `IInv`: `PostedInv` (a
task is with one poster until it enters the history, where it is once) and `DelayedInv` (two
entries of the delayed queue differ in their sequence numbers); `CountAppend`, `CountTail`,
`FramesStart` and `FramesFinish` say what a step of a queue or of Run adds and takes.

`ImplementsTaskRunner` is the refinement, proved step by step (`RunnerNext`) with a third
inductive invariant, `RefInv`. `LineInv`: the work queue and then the incoming queue are the end
of the history, so what has been looked at (`Taken`) precedes what has not. `EntryInv`: the
sequence numbers of the delayed queue follow the history and its times are the due times.
`DueInv`: due times do not change after posting, and the deferred tasks are non-nestable and
due. From these, no waiting task must precede the one that is started (`WorkInOrder`,
`DelayedInOrder`), and `RunningShape` reads `running` off the stack of activations. The
sequence numbers are those of the model, which do not wrap.

Two theorems say where the finding of `message_loop_quit` ends. `ClockInv`: a loop that comes to
DoIdleWork, and has deferred no delayed task, has found none due at `recent_tick_`; it holds
because DoWork and DoDelayedWork answered false on the way. Hence `OutermostQuitRunsDueTasks`,
that the outermost Run never quits with a due task left, for it defers nothing; and, for nested
ones too, `QuitRunsDueTasks` under `NonNestable \cap Delayed = {}`: the deferral of a delayed
non-nestable task, after which DoDelayedWork answers false, is the only way to the violation.

`FrameworkThread_proofs` (`~ MixedUse`, without which `StartedMeansReady` is false):
`StartedMeansReady`, `StopResets`, `NoPostToDeletedLoop`, `StopDrains`, `TasksAccountedFor`.
`ThreadInv` and `ControlInv` tie the two program counters to the members each side may have
written, `QuitInv` says that the loop ends, or has a task that ends it, only when told to,
`PlaceInv` puts each task in one place, and `OwedInv` carries `StopDrains`: a task posted before Stop waits ahead of every
`DoStopSoon`.

`WinUIMessagePump_proofs`: `HaveWorkMeansOneMessage`, `WaitsUntilDue` and, where no delayed
task opens a modal loop (`TimersOpenNoModal`), `WorkIsNoticed`. Everything rests on `StackOk`,
which activation can be above which: only a closure or a handler opens a modal loop, the loop
waits only when nothing is above it, a handler of kMsgHaveWork is between messages only on top.
`MessageInv` names the one place of the message, `NestingInv` says that nesting is forbidden
only while a closure executes, and `WaitInv` and `TimerInv` follow DoRunLoop from the call
that found nothing to its timed wait. For the modal loops `NoticeInv` says who is owed a message: the
innermost closure, unless a HandleWorkMessage above it is going to look at the queues, or the
closure is one that WM_TIMER runs; then the one below it is. It must speak of closures below
the top, for the message that a modal loop needs may be taken by one inside it.

`ImplementsTaskRunner` is the refinement of the UI loop, with a second inductive invariant,
`RefInv`, on top of `IInv`. The abstract `running` is the closures on the stack, read past the
handlers and modal loops between them: `ClosuresAre`, `OneMoreClosure` and `SameClosures` say
what a push, a pop or a change of the frames does to that sequence. `LineInv` and `EntryInv` are
as in `MessageLoop_proofs`; with `StartInv` they say that a task has been started exactly when
it is past the line and in no delayed entry. Only five steps change what the abstract specification sees
(a post, `RunWork`, `RunDelayedWork`, the end of a closure, the clock); every other one keeps the closures
(`TasksStay`) and is a stutter (`QuietIs`). No assumption on the scripts is needed: modal loops
in delayed tasks may lose a wakeup, but not the order.

`ThreadManager_proofs`: `RegistryExact`, `RelayInPlace`, `RepeatBound`, `CancelStops`.
`MapInv` relates the map, the counts and the lives; `CallInv` says what a caller between two
unlocked reads may still rely on; `RelayInv` gives the one place of each relay, and `TokenInv`
the one place of the repeated task (in a queue, in a call or gone), without which the count
would not bound its runs. `LookupSafe` is false; `LookupSafeUnlessOvertaken` proves it under the
premise that no thread ends its last registration between a lookup that found it and the use of
its loop (`Overtakes`), and that each thread has one identifier (`OneIdEach`). So this overtaking
is the only cause of what `thread_manager_lookup` finds, and a fix that excludes it would do.
Its invariant, `FoundInv`, says that the loop a caller holds is that of a registered thread.

`PaintManager_proofs`: `PointersAlive`, `FocusIsOne`, `TimersAsAsked`, `HoverPaired`.
`FrameInv` says that the controls which suspended activations hold still exist; `FocusInv` and
`HoverInv` state focus and hover at each point between a leave and an enter; `IdInv` says that
the identifiers in use are a run of the counter's values, which is why none is given twice
until it wraps.

`MainMessageLoopExternalPump_proofs`: `NeverStalls`, `RequestsKept`, `CefNotReentered`.
`OrderInv` says that behind every delay in the queue comes the one asked for last, `SliceInv`
how slices nest and which of them has set `is_active_`; `UrgentKept` and `DelayKept` are the halves of `RequestsKept`.

`ObjectWatcher_proofs`: `NothingGone`, `ToldOnce`, and `PostsTheLatest`, that
the wait thread posts only the watch that is current. `WatchInv` relates the watcher's members
to the registration, `PoolInv` the steps of the wait thread to both; `QueueInv` says that at
most one queued watch is not cancelled, the latest, and `ToldInv` that those told are over.

`WaitableEvent_proofs`: `SignalsConserved`, `ListsTrue` and `SomeoneProceeds`. `LockInv` says that an event whose
lock is kept from one step to another is not signaled, `HoldsInv` which locks those are: so
WaitMultiple joins no list of a signaled event although it looked at the flags one by one.
`ListInv` and `FiredInv` tie the lists to the calls: a waiter is not in the list of the event
that fired it, and that is an event of its call. `SignalsConserved` is then a count of holders
(`Held`): `HoldersJoin` where a thread takes a signal up or ends with it, `HoldersPass` where
`Fire` hands it on. `SomeoneProceeds` is freedom from deadlock: by `OrderInv` a thread that keeps
an event's lock waits only for a lock of a greater event or of a waiter, and who has a waiter's
lock waits for none; so of the locked events the greatest (`GreatestNatural`) is held by
a thread that goes on. It speaks of `Blocked`, what each position waits for; `OnlyLocksBlock`
shows in TLC that this is the same as a step not being enabled.

`ImplementsEventSignals` is the refinement (`StepSeen`, one lemma per step that can be seen).
It needs two more invariants. `InLines`: who waits is in the lists of *all* events of its call,
so an empty list means that nobody waits for the event, and who has waited longer than another
is in the list before him. `OneOrder`: no two lists have two threads in opposite orders, because a wait for
many joins its lists under all their locks; without it "who waited longest" would not be the
head of each list. `PrecedesAppend`, `PrecedesTail` and `PrecedesWithout` say what a step does to
the order of a list, `ListMoves` that it thins one list or joins those of the call, and
`TakeStep` that the event WaitMultiple takes is the signaled one of least address.

Only model-checked: the liveness properties `PendingEventuallyRuns`, `QuitEventuallyReturns`,
`StopReturns`, `PumpsOn` and `SignalArrives` (fairness), and `OnlyLocksBlock` (ENABLED). Both
are beyond the prover, as are induction over data and recursive operators. Every other property
of a passing run is a theorem; of the refuted ones, `LookupSafe` and `QuitRunsDueTasks` are theorems
under the premises given.

## Not modelled

The models are of the code whose difficulty is its states: about three lines in a hundred of
the repository. Most of the rest is vendored (`stb_image.h`, `unzip.cpp`, libcurl, CEF's sample
code), or computes a value from its arguments (layout, rendering, string and file helpers,
ciphers), or wraps calls of Windows; a model of it would copy it. Specifically:

- The Windows I/O pump: only a unit test starts a loop with it; its `have_work_` protocol is
  that of the UI pump.
- ObserverList, LazyInstance, Singleton, AtExitManager, BlockBuffer, the roll-over of the
  tick counter: small sequential or single-race helpers, no modelled component depends on more
  of them than that they work.
- CEF's standard and multi-threaded loops, which hand their work to CEF or Windows, and the
  embedding of the browser, which nothing in `src/` instantiates.
- duilib's single controls (List, RichEdit, TreeView), their selection and scrolling.
- Dispatchers, observers and WM_QUIT in the pumps; the plain `PostTask(id, …)` of
  ThreadManager, which returns true even when the proxy has refused the task.

## Plan

Done: `TaskRunner` and `MessageLoop` with proofs; `FrameworkThread` with proofs;
`WinUIMessagePump` with its refinement, with proofs; `ThreadManager` with the relay, with proofs; `PaintManager` with proofs;
`WaitableEvent` with its refinement, `MainMessageLoopExternalPump` and `ObjectWatcher` with proofs.

Left, in this order:

1. `ObserverList` under nested traversals, the I/O pump, `LazyInstance` with `AtExitManager`,
   the roll-over of the tick counter.
2. Capture and drag and drop in `PaintManager`.
