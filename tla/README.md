# WebContainer in TLA+

WebContainer lets a Windows program show web pages in its own windows while the
browser engine runs in another process. This directory holds TLA+ models of its
processes, TLC runs that check them on small instances, and TLAPS proofs.
`PROJECT.json` lists the runs, the source lines each definition models, the
mutants that show each property can fail, the findings and the hazards.

    tlc -workers 4 -config ResMgr_safety.cfg MCResMgr.tla
    tlapm ResMgrProofs.tla

## 1. The system

    user process                broker process            engine process       renderer
    WebContainerAPI.dll  --->   WebContainer.exe  --->    MainBrowser.exe ---> BrowserSubProcess
    (InvokeQueue)        <---   (CResMgr)                 (ClientHandler) <--- (CefV8HandlerImpl)
          |                                                  ^
          +--------------------------------------------------+

Processes talk through sRPC, a binary library. A process is a server (it counts
connections), a client of other servers (it holds handles, and gets an error
callback when one breaks), or both.

| Component | Source | State | Operations | Correct when |
|---|---|---|---|---|
| sRPC | `inc/sRPC/*.h` (binary) | handles, error callbacks that are due | create, destroy, call, error callback | external |
| Broker | `WebContainer/CResMgr.cpp`, `CWebCore*`, `CGlobalResMgr`, `AddrKey.h` | requesters (`m_mapReqs`), engines (`m_mapRes`), public engines (`m_mapAddrs`) | get, release, connection error | the registries agree, one public engine a type, private engines are not shared, no working engine is dropped, handles are not lost |
| Task queue | `inc/AnyTaskQueue.hpp` | `m_setTask`, `m_bLoop`, worker | post, delayed post, run, Start, Stop | tasks run once, in order; none after Stop; Stop returns |
| Client library | `WebContainerAPI/InvokeQueue.cpp`, `WebEngineMgr.cpp` | broker handle, requested engines, tasks, `m_initialized` | Init, Start, Stop, LoadUrl, CallJs, Uninit; answers, losses, retries | lost connections are repaired, pages are sent again, Start is reported, no connection is orphaned |
| Lifetime | `WebContainer/main.cpp`, `Chromium/MainBrowser/main.cpp` | `g_ref`, `g_bExit`, checker | connect and disconnect events, checker, main loop | exits when unused, not before |
| Engine | `Chromium/MainBrowser/ClientHandler.cpp`, `main.cpp` | tasks of the UI thread, `browser_map_` (window to browser and connection), connections back to the users | Load, CallJs, load, callJs, OnBeforeClose, notifyMsg; popups | each window that was loaded has one connection and one browser; messages of a page go to the process that loaded it |
| js bridge | `Chromium/BrowserSubProcess` | `callback_map_` (js functions by name and browser), V8 contexts | Execute, OnContextReleased, CallJsFunction, sendMessage | no function of a page that is gone is called, calls keep their order and come to one end |
| CEF | `inc/cef` (vendored headers), binaries | browsers, process messages | create, close, send, callbacks | external |

In the broker and in the client library the sRPC threads and the user's threads
only post tasks; one worker runs them, as the UI thread of CEF does in the engine. So a
handler is one atomic step there, and what is hard is the *order* of the tasks: an error callback handled after the
handle value is in use again, a retry that outlives the request it belongs to, a
task left over in a stopped queue. Inside `AnyTaskQueue` and `main.cpp` threads
share state, and the steps are as small as the code's locks and atomics make them.

Section 6 lists what is not modelled, and why.

## 2. Modules

| Module | Models | Runs |
|---|---|---|
| `Srpc` | client handles and error callbacks; extended by `ResMgr` and `InvokeQueue`, instantiated by `ClientHandler` | through them |
| `Registry` | abstract specification of the broker | `broker_safety`, through `ResMgr` |
| `ResMgr`, `MCResMgr` | the broker | `ResMgr_*.cfg` |
| `ResMgrProofs`, `RegistryProofs` | theorems about `ResMgr` | `tlapm` |
| `Executor` | abstract specification of the queue | `queue`, through `TaskQueue` |
| `TaskQueue`, `MCTaskQueue` | `AnyTaskQueue` | `TaskQueue*.cfg` |
| `TaskQueueProofs` | theorems about `TaskQueue` | `tlapm` |
| `InvokeQueue`, `MCInvokeQueue` | the client library | `InvokeQueue_*.cfg` |
| `InvokeQueueProofs`, `InvokeQueueEngineProofs` | theorems about `InvokeQueue`; the second extends the first | `tlapm` |
| `ServerLife` | abstract specification of a server process's life | `life`, through `Lifetime` |
| `Lifetime` | the two `main.cpp` | `Lifetime.cfg` |
| `LifetimeProofs` | theorems about `Lifetime` | `tlapm` |
| `Cef` | browsers and the messages between the engine's processes | through the next |
| `ClientHandler` | the engine's browser process | through the next |
| `JsBridge` | the engine's renderer process | through the next |
| `Engine`, `MCEngine` | the two processes composed | `Engine.cfg` |
| `EngineProofs`, `EngineCallsProofs` | theorems about `Engine`; the second extends the first | `tlapm` |

Operators named `...None`, `...Any`, `...Only` and the like, marked as mutated
forms, are plausible mistakes; no action uses them. Each stands before the
definition it is a mutant of and exists to show that a property can fail.

### Srpc

`conn[i]` says what the value `i` stands for: `unused`, `open`, `lost` (the
remote end went away, the local side has not called `SRPC_DestroyClient`),
`closed`. `notices` holds the handles whose error callback is due; it is due
after a loss *and* after a local destroy (`sRPCTypeDef.h:122-124`). With
`ReuseHandles` a destroyed handle's value may be returned by a later create,
which the contract does not exclude.

### ResMgr

One action per post (`GetInstance`, `ReleaseInstance`, `OnSRPCError`) and per
task (`ProcGetWebInstance`, `ProcReleaseWebInstance`, `ProcConnectErr`), plus
`PeerDies`. `mapReqs`, `mapRes`, `mapAddrs` are the maps of the code and `cores`
the heap of `CWebCore` objects. Keys of the C++ maps compare by handle only, so
a key built from an address alone is the key `NULL` (`RequesterKey`): the model
looks up what the code looks up. `told` is a history variable: what was last sent to
a requester. Steps that allocate (`new (nothrow)`) succeed; creating a client or
a provider may fail.

`Registry` says what this machinery is for, with three variables: the engines
that are kept, the public one of each type, and who uses which. `ResMgr`
implements it with `engines` as `Running` (the keys of `m_mapRes`), `public` as
`m_mapAddrs` and `uses` as `Listed` (the requester sets of the objects the table
leads to). Objects that the heap keeps for an engine that is gone, the factories
and the task queue do not show: a grant, a release or a loss, which the code
spreads over up to five tables, is one step, and everything else is a stutter.

### TaskQueue

A step is a critical section of `m_mtLock` or a single access outside it: the
clock is read in the constructor of the item, before the lock
(`MakeItem`, then `AddTask`), and `m_bLoop` is written before the clear
(`StopFlag`, then `StopClear`). The set is ordered by expiry, so an item with
the expiry of a queued one is not inserted (`Occupied`).

`Executor` is what the posters and the caller of `Stop` see of it: `posts`, the
`stage` each task is in, and whether the `service` is open. A task begins when
nothing runs and no earlier post of its thread that is due no later is waiting;
it is lost only to a task that is due when it is (`Lose`) or to a stop (`Close`),
from which on nothing begins until `Closed`, when nothing runs. `TaskQueue`
implements it with `posts` as `made`, `stage` read off the history variables and
`current`, and `service` as `closing` from the clear to the join. The critical
sections, the clock, the waits and the wake-ups are stutters.

`ResMgr` and `InvokeQueue` take the queue as a sequence: a post is one step, at
the place its expiry gives it, and no two posts fall in the same tick of the clock.
`Executor` says what that leaves out: `Lose`, and that posts of two threads may
begin in either order. `InvokeQueue` restarts the queue and models what
`Stop` and `Start` do to it.

### InvokeQueue

`queue` holds the tasks that are due, `delayed` those of `PostDelayTask` (all
1000 ms, so they expire in order). `Handle` is the dispatch to the handlers,
which have the names of the code's functions. `ctl` follows `Initialize` and
`Uninitialize`, on one thread of the user, in the steps the other threads can
see: tasks may run before `m_initialized` is set (`queue`) and while it is
already 0 (`stopping`), the worker may finish one task after the queue was
cleared (`LateTask`), and what is posted to the stopped queue survives into the
next session. `requests` are the `GetInstance` calls the broker has; they are
lost with it. `engines` is the heap of `WebEngine` objects, since a retry holds
a pointer to one that may not be in `m_mapRequested` any more. `callJs` changes
no state and is left out. `owed` is a history variable for the callback: a user
who stops a type, or leaves, is owed nothing. One timing assumption: between
`m_queue.Start()` and `m_initialized++` (two statements) no 1000 ms delay expires.

### Lifetime

The broker and the engine differ only in how the exit is passed to the main
thread (a flag that is polled, a task posted to the message loop): both are
`asked`. `--g_ref == 0` is one step and asking is the next, since other threads
may run in between. `RequesterChecker` is one step per read of `g_ref`.

`ServerLife` is what a client can rely on: the process has members, is doomed
when the last one leaves or when nobody comes, and a doomed process ends, with
the members it has by then. `Lifetime` implements it with `members` as
`Counted` (the clients whose connection event was handled and whose
disconnection was not), `doomed` as "the flag is set, or somebody is about to set
it", and `gone` as the end of `main`. The refinement includes the fairness:
a process without members is doomed in the end, and a doomed one ends.

### Cef, ClientHandler, JsBridge, Engine

`Load` and `CallJs` are the sRPC methods: they post a task to `ui`, the tasks of
CEF's UI thread. `LoadAgain`, `LoadNotConnected`, `LoadNoBrowser` and
`LoadBrowser` are the paths of `ClientHandler::load`, `callJs` and
`callJsDropped` those of `ClientHandler::callJs`. Tasks and callbacks of the UI
thread are atomic and alternate with the threads of sRPC and with the renderer.
`LoadNotConnected` is any failure of `SRPC_CreateClient`: the requester does not listen,
or a fault.
`browser_map` is `browser_map_`; `insert` keeps an entry that is there, as
`std::map` does. `LoadAgain` keeps the connection made by the first load. The
process never calls `SRPC_SetConnErrCb`, so `Srpc` is instantiated with no notices.

In `JsBridge`, `home` says which browser a V8 context belongs to; a context may be
released at any time, also while a function of it runs. `CallNotHandled` takes a
message that finds no function, or that is lost with its browser. `CallJsFunction` takes
the message, enters the context and starts the function in one step;
`CallReturns` leaves it. `registerJavascriptFunction` keeps the function that
is registered first. One thread stands for the renderers of all browsers: they
share nothing, and `callback_map_` is keyed by browser, so that nothing depends on
how the steps of two renderers fall between each other.

Browsers come from `load` and from pages. `ClientHandler` is the life-span handler of its
browsers and does not override `OnBeforePopup` (`ClientHandler.h:100-104`), so when
a page opens a popup CEF creates a browser with the same client (`cef_life_span_handler.h`). The action
`OnBeforePopup` does this: the new browser is in `browsers` and in `popups` and in no
entry of `browser_map`. Its pages can load the bridge, register functions and send
messages like any other; `notifyMsg` finds no entry and drops the messages, `callJs`
never names the browser, and `OnBeforeClose` of it erases nothing. `BrowsersRecorded`
is therefore about the browsers that are not popups.

`creator`, `popups`, `orphans`, `heard`, `posted`, `dropped`, `ran` and `unhandled` are
history variables: who made a browser (for a popup, who made its opener), which
browsers pages opened, which handles a failed load left behind,
who had a message from which page, and what became of each call.

Assumed (`MayUse`): Windows gives a window handle to another process only when
no browser and no task for the former owner's window is left in the engine.

## 3. Runs and bounds

| Run | Bounds | Shows |
|---|---|---|
| `broker_safety` | 3 handles with reuse, both types, 1 address, `MaxQueue` 1 | the broker's tables agree with each other and with sRPC; it implements `Registry` |
| `broker_live` | 3 handles, no reuse, Chromium | only lost engines are dropped, and in the end all of them; who was told of an engine is recorded |
| `queue` | 2 posters, 2 tasks, delays 0 and 1, clock 1..3 | order, conservation, Stop, and that tasks run; `TaskQueue` implements `Executor` |
| `client_engine` | 5 handles, 1 type, 1 window, 2 sessions, 2 starts, 1 stop, 2 faults, constraint `StoppedFirst` | retries, handles, pages |
| `client_broker` | 5 handles, 1 window, 2 sessions, 1 start, 1 stop, 2 faults | the broker connection is repaired; no working connection is closed without need |
| `client_live` | 4 handles, 1 start, 1 stop, 2 faults | reconnection, the start report |
| `life` | 2 clients, 3 connections, 5 seconds | requester kept, idle exit; `Lifetime` implements `ServerLife` |
| `engine` | 2 handles with reuse, windows, requesters and contexts; 2 browsers, popups included; 1 name, 2 loads, 2 calls, 1 message, 1 fault | connections, browsers of `load` and entries match; messages reach the loader only; calls keep order and come to one end |

`MaxQueue` bounds only new requests: error tasks always fit, so a request, and up
to one error task a handle, are queued in every order. Three handles are two
requesters that share an engine, or one with an engine and a spare; with reuse they
are enough for a value to be a requester's and then an engine's. The theorems of
section 4 take these bounds away. In the client a
connection takes one handle: the broker's, one a session, one a start, one a fault. That is five in
`client_broker` and, without reuse, at most six in `client_engine`, where a
behaviour that has used up five makes no more connections. A sixth adds one percent
of states (536,220 instead of 531,009), in which the run passes too, but takes close to five minutes. Two faults are a failure and a failure of its
repair. In `client_live` one session needs four handles: the broker's, a start,
and two more. Loads are posted to an empty queue only, since they repeat. In the
engine two of each kind are the least with which a window, a handle or a context
can be taken for another one, and used again, and two browsers are two of `load` or one and
its popup; one message and one name suffice,
since nothing counts messages and names are only keys. The broker may stop sending
requests and the client ends up uninitialized, so some runs
allow the system to stop (`CHECK_DEADLOCK FALSE`); so do `life`, whose process
ends, and `engine`, whose budgets run out.

Violation runs, each a disagreement of the code with a comment or header
(`findings` in `PROJECT.json` quotes it):

| Run | What happens |
|---|---|
| `broker_records` | a repeated request makes a second connection and record |
| `broker_unused` | an engine nobody uses is kept |
| `queue_dropped` | a task with the expiry of another is lost |
| `client_reference` | a stale retry replaces a new engine, whose connection is orphaned |

The first two have different causes: lookups by address search the null key, and
the number of erased entries is read as the number that is left. The same two
causes make a release request without effect, and leave the handle of a lost
requester open. `stopWebEngine` closes the connection to the engine and
sends the broker nothing. Disagreements seen while modelling that no run
states: the callback of a rejected Start is commented out
(`InvokeQueue.cpp:321`), the broker does not answer when it cannot start an
engine, and a server process that was asked to exit does so even if a client has
connected since.

`client_engine` leaves out one kind of behaviour, by the constraint `StoppedFirst`:
a user who calls `Uninitialize` without having stopped every type. `Uninitialize`
leaves the requested engines in the map with handles that the library has dropped,
and the next session does not repair them: `EngineWatched` and `HeldNotClosed` are
false there. A user who stops first may come back in any session, with retries and
answers of the last one still in the queue. One window is enough for `LoadsReplayed`
to fail; that windows do not disturb each other is in its theorem.
`client_broker` has no such constraint.

Three properties hold only while handle values are not reused: `ToldIsRegistered`
and `OnlyLostEnginesDropped` of the broker and `WorkingKept` of the client. With
reuse, the error task of a destroyed handle takes down the engine that has its
value now, in the broker, and the connection that has it, in the client.

### Fairness

Weak fairness only. The worker of a queue runs (a thread of the process, and
every handler returns). sRPC makes the error callback it owes
(`sRPCTypeDef.h:116-126`). The broker answers a request it has received, in the
client's liveness runs: this is an assumption about another process, dropped by
the fault `ignore` and by losing the broker; `EngineReconnects` and
`StartReported` say "while the broker stays up" in their own formula. Delays
expire. `ServerLife` has the fairness its clients may count on, and `Lifetime`'s
implies it. The engine has no liveness property and needs none: its steps are the
users' and the pages'. Nothing is assumed of the user's calls, of clients that connect, or of
faults.

## 4. Proofs

The theorems hold for every value of the constants that the named assumptions
allow: any number of handles, addresses, types, windows, clients, tasks and calls,
any bound, and with or without reuse of handle values unless said otherwise. The
assumptions of the modules (`SrpcAssumption`, `ResMgrAssumption`, ...) only say
that parameters have their types and that `NULL`, `NoReq` and the like are not
among the values. `PROJECT.json` lists the theorems. Each module proves that an
inductive invariant holds initially and that every action keeps it, one lemma per
action or per kind of action, then reads the properties off it.

**`ResMgrProofs`** (`ResMgrInv`). The conjuncts hold each other up, which is
why they are proved together:

- `NoNullRequester` makes the lookups of the handlers fail, so a get always
  registers under a fresh handle.
- `HandleOwned` says that a fresh handle is in neither table. From it and
  `RegistrationMirror` it follows that no core that is held lists it
  (`FreshUnowned`, `UnownedUnlisted`), so registering under it cannot collide.
- `ResIndex` and `OnePublicEngine` say that the public address leads to a core
  of that type, so a shared get registers with the right core.
- `NoDanglingEngine` and `RegistrationMirror` say whose factories must be cleared when an
  engine is dropped: exactly those of the requesters its core lists.

**`RegistryProofs`**. `ImplementsRegistry`: every step of `ResMgr` is a step of
`Registry` or changes nothing it shows; `ResMgrInv` supplies what the abstract
guards need (a handle that was just returned is `Free`, the public address is that of
a running engine). `WorkingEnginesKept` and `ToldAreRegistered` assume
`~ReuseHandles`, and are false without it: the error task of a destroyed handle
takes down the engine that has its value now. Their invariant `NoticeInv` says that every
error callback that is due, and every error task in the queue, names a connection
that is over; it is kept because a connection never opens again (`Ages`).
`ToldInv` says that an unused handle was told nothing.

**`TaskQueueProofs`**. `NothingStarts` (no task starts between the clear and the
return of `Stop`) needs `StopInv` (after the clear the empty
item is in front of a worker that is in `handleTasks`) and `DueInv` (a real item
has a due time above 0, so the empty one comes first). `Conservation` needs
`PlaceInv`: the tasks in a poster's hand, in the set, started and lost are
disjoint, one by one. `PosterOrder` needs `LinkInv` (an item in hand or in the
set is one that was made, with its due time and poster) and `BehindInv` (when a task has started,
none its poster made before it with an earlier expiry is still to come).
`QueueImplementsExecutor` rests on all of these and on `CurrentInv` (the task that runs is the
last that started; the worker runs one only inside `handleTasks`): they give the
`stage` of each task (`Stages`), and so the guards of `Lose`, `Begin` and `Close`.

**`InvokeQueueProofs`, `InvokeQueueEngineProofs`**. `ContainerWatched`, over any number of
sessions: `WatchInv` follows the repair through `Init`, before the worker may read
`m_initialized` as set.

The properties of engines that are false for a user who leaves without stopping
are proved of the other behaviours, over any number of sessions:
`Spec /\ []StoppedFirst => []HeldNotClosed` and so on. `SessionInv` is the state
between two sessions and in one: a stopped type has no engine, the recorded
handles are held, and each has one use; it starts again with every `Init`,
whatever tasks are left over. `LoadsReplayed` has two theorems, one for each half
of what it needs: `PagesSentAgain` assumes `~ReuseHandles` and nothing of the user
(`SentInv`: what `sent` says of a handle is about the connection it has now),
`PagesSentOnReusedHandles` assumes `StoppedFirst` and allows reuse (`ReplayInv`).
`EngineWatched` needs a broker that stays, since nothing sends a lost request
again. `LostEngineRepaired` has it in the constants (faults of engines and of
connecting only) and `RepairedWhileBrokerKept` in the behaviour
(`[]BrokerKept`: whenever the broker's connection is there, it works; the broker
answers what it is asked); by `KeptInv`
the first is a case of the second. `WakeInv` says that each type asked for is connected or on its way.

`NoOrphanHandle` is proved for any user, since it only speaks of connections that are
open: while nothing was stopped a type has one WebEngine (`OnlyInv`), and what
brings its connection is in one place (`PlacedInv`, `DueInv`): in the queue, delayed, in the
task that `Stop` cut off, with the broker, or made. So an answer never finds a handle
in the WebEngine that it fills in, and none is overwritten.

`WorkingConnectionsKept` is an action property, for any user and `~ReuseHandles`. `DeadInv`
says that each handle sRPC reports, or a task is about to be told of, is lost or
closed: the library destroys what it is told of without asking. `StepCuts` then
goes through the handlers that destroy a handle: the answer that replaces one, the stop
and the report.

**`LifetimeProofs`**. `CountInv`: the events of a client alternate, and `g_ref` is
the number of clients whose last handled event was a connection. `KeptInv` and
`LeaveInv` give `RequesterKept`; `ImplementsServerLife` is the safety part of `LifeSpec`.

**`EngineProofs`, `EngineCallsProofs`**. `EngineInv` joins types, `MapInv` (entries, handles
and the browsers that are not popups correspond one to one, except orphaned handles, which
stay held; `PopupsInv`: a popup has an identifier already given out, so a browser that
`load` creates is none) and
`ScriptInv` (a callable function's context is alive). `OrderInv` says that numbers of calls
grow along each station and that what is further along is smaller: that
gives `CallsInOrder`, and that no number occurs twice at a station. With that, `Book` counts every
call at exactly one station or end, which is `CallsConserved`.

Model-checked only: liveness, which is out of the prover's reach (`LostEngineDropped`,
`StopReturns`, `QueuedTaskRuns`, `ContainerReconnects`, `EngineReconnects`,
`StartReported`, `IdleExits`, the fairness of `LifeSpec`).

## 5. Hazards without a property

`PROJECT.json` gives each hazard its line and the properties about it. Those
without one are cases in which the code has no repair and no document promises
one, so that there is nothing to check against: a provider that cannot be
started leaves its requester untold (`CResMgr.cpp:155`); a rejected Start is not reported
(`InvokeQueue.cpp:321`); a page is not recorded during a reconnection
(`InvokeQueue.cpp:520`); a session after one that was left
without a stop inherits dead engines (`InvokeQueue.cpp:91`); a requester that comes back is not reconnected to
its windows (`ClientHandler.cpp:127`); the second frame's function is not
registered (`CefV8HandlerImpl.cpp:32`); a call that comes before its function is dropped
(`CefV8HandlerImpl.cpp:101`); a request that is lost with the broker is not sent again
(`InvokeQueue.cpp:311`); the connection of a load whose browser was not created is kept
(`ClientHandler.cpp:155`, the exception in `HandlesRecorded`); what a popup's page
sends is dropped (`ClientHandler.h:100`, the exception in `BrowsersRecorded`). In two the model lacks the step:
`WebContainerAPI_Uninit` called from `WebStartCb` makes the worker join itself
(`AnyTaskQueue.hpp:78`), and `m_bLoop` is read without the lock
(`AnyTaskQueue.hpp:122`; the loop calls functions that lock in each round).

## 6. Not modelled

- `src/inc/cef`, `src/inc/sRPC`, the libraries and resources: vendored
  interfaces of binaries, without code of this program. They are most of the
  repository's lines: its own code is about 3,000 lines, of which the models
  stand for about 1,400. What the program relies on is in `Cef` and `Srpc`, marked external.
- `InvokeQueue::callJs`, `RegCbForJsCall`, `SetWebStartCb`: the first sends on the
  recorded handle and changes no state; the others fill tables before `Init`.
- The other callbacks of `ClientHandler` (title, address, load errors; popups are
  modelled) and
  `BrowserApp`, which keep no state; arguments and texts of calls; checks of sizes.
- `AnyTaskQueue2.hpp`, `ExternalProtocol.h` (nothing uses them), `AnyTask.hpp`
  and `SystemTraits.h` (no state); `IE` (no source); failed allocations.
- Two sRPC threads inside one `PostTask` are in `TaskQueue` only; elsewhere a
  post is atomic.

## 7. Plan

Done: the broker, the queue and the lifetime rule, each with its abstract
specification, the client library over several sessions, the engine's two
processes; all safety properties proved. Left, in the order of what they would add:

1. `System`: two clients, `Registry` and a `ServerLife` for each engine, for what
   no part shows alone: a client that is told of an engine which ends before it
   connects; an engine kept by the broker's own connection after its users left.
2. `ResMgr` and `InvokeQueue` over `Executor` instead of a sequence, so that two
   posts in one tick lose a task there too.
3. A session of the client that starts with engines of the last one, once the
   code says what `Init` keeps.
