# TLA+ models of the DreamDota client

DreamDota is a Windows companion program for Warcraft III. A *client*
(`src/DreamAuth2`) logs in at a server, keeps the session alive, finds or waits
for a running game and injects a DLL into it; the *in-game module*
(`src/DreamWarcraft`) runs inside the game, adds features to it and talks to
the client through a named pipe. The client is small and heavily threaded: its
threads call each other through delegates, and operations begin on one thread
and are finished by completion handlers on another. The in-game module is large
and runs on the game's thread; its difficulty is code that calls back into
itself (timers, events, scripts). The models follow that division.

Line numbers are those of the files under `src/`; `PROJECT.json` maps every
definition to the lines it stands for.

## Inventory

| component | state | operations | who it interacts with | hard behaviour | correct when |
|---|---|---|---|---|---|
| **WorkerThread, Delegate** (`WorkerThread.*`, `SimpleUI/Delegate.h`) | `thread_`, `running_`, `term_`, a handler list | `Run`, `Wait`, `StopSignal`, `ThreadProc`; `Add`, `Remove`, `Invoke` | every thread of the client | `Run` tests and sets without a lock; a handler may `Run` its own object again before `ThreadProc` has returned; the thread clears its own fields | the fields never lie about the thread |
| **GameModule** with **ThreadSearch**, **ThreadPipe** | `State`, inject method, profile, the pipe handle | `Start`, `Change`, `Stop`, `Cleanup` and their second halves as handlers | called by three Auth threads, the dialog and `Main`; served by its two workers | which of two threads ends last executes `DoStop`; one delegate completes three operations | `State` goes round its cycle; a stop completes; asserts hold |
| **Loggedin, Main, dialogs** | dialog in front, lock of its controls, session event | login, main dialog, change, logout, exit, disconnection, close | drives GameModule and Auth | the lock is taken by a click and released by a handler on another thread | no two operations overlap; the user is never locked in |
| **Auth** (`Auth.*`, `ThreadLogin/Alive/Logout`, `EncryptedData.h`) | `LoggedIn`, `AliveThread`, session data, three threads | `Login`, `Logout`, keep-alive, disconnection, `Cleanup` | tells Loggedin of begun and ended sessions | a `ThreadAlive` object is deleted by its own thread or by the logout thread; reads of session data write back | each session ends once; no object is deleted under its thread |
| **Connection, Message** | a socket, its timeouts; framing, checksum | request, receive, retry | Auth's threads | a timed-out request leaves the socket in the middle of an answer | an answer belongs to its request |
| **HTTP, AutoUpdate** | two threads, the update dialog | check, download, cancel | Main, before login | cancel races completion | one outcome per update |
| **Roaming profile** | three threads sharing one dialog | pull, upload, delete | main dialog | as GameModule | the dialog is unlocked once |
| **Timers** (`Timer.*`, `GameTime.cpp`) | two queues, the clock, per timer its fields | new, start, pause, destroy, setTimeout; `Timer_Update` | every in-game feature; called once per game tick | callbacks operate on the timers being walked; `Timer_Update` returns early; the clock wraps | no timer is updated after deletion, fires early or starves |
| **EventDispatcher** | listeners per event, deferred listens, recursion level | dispatch, listen, subscribe, discard | every in-game feature | nested dispatch shares the discard flag, the current event and the level | a discard concerns its own event; the level never leaks |
| **Input, KeyRepeat** | key state, two timers per key | key events, focus, chat box, repeat | Timers, EventDispatcher | releases are not always seen | pointers and timers agree; only what is held repeats, but for one documented case |
| **ScriptTimer, ScriptProcess** | Lua threads, the registry references to them, sleepers by time | exec, wait, yield, tick | Timers, EventDispatcher | the map changes while it is walked; waits of 0 ms; a clock that wraps | each sleeper is alive and wakes once, on time; a tick ends |
| **Packet, UnitGroup, SmartDeny, DirectionMove** | the program's selection, whether it is on, a timer | orders of the program, selecting back, packets dropped | game network | the game has one selection, the program and the player want two | each order reaches the units it is meant for; the player's selection comes back |
| **ObjectPool, MissileManager, RefreshManager** | a free list, a map of missiles, a list of objects to refresh | take, give back, update | in-game features | nothing but their contents, which the game decides | a slot has one owner |
| **Game-side connection, pipe messages** | both ends of the pipe, its name in shared memory | connect, three requests of a module that starts | ThreadPipe's `GameConnection_Loop` | the game or the session may end at any message | requests and answers alternate; keys are those of the session; nobody waits for ever |
| **Game life cycle, observers** | `GameStarted`, hooks | game start, tick, leave | everything in-game | events before the game object exists | init and cleanup alternate |

The rest has no state machine of its own: wrappers of the operating system,
string tables, start-up, Win32 windows, display features that read game memory,
wrappers of game functions, installer, packer, loader, and the vendored Lua and
json-c. `PROJECT.json` lists every component with its status and reason, and
under `hazards` every place found where the code is hard to test, with
the property that watches it or the reason why none does.

## Modules

```
WorkerThread <- GameModule <- Loggedin
            \<- AuthSession ..implements..> Session
                     Packet ..implements..> Orders
Timer   EventDispatcher   KeyRepeat   ScriptProcess   PipeServer
```

`MC*.tla` are the instances TLC runs, `*_proofs.tla` the theorems about a
module. `Game_proofs` has those of Packet and PipeServer, the in-game module and
what serves it; since it extends both, PipeServer's specification is called
`PipeSpec` (`PipeInit`, `PipeNext`, `PipeFairSpec`).

**WorkerThread** models threads. A `Worker` is a WorkerThread object; an
`OSThread` is a thread of the operating system that executes the `Work` of some
object (`job`) and is somewhere in `ThreadProc` (`at`); a `Caller` is a thread
that exists anyway. Because handlers restart an object before its thread has
returned, several OS threads may be in the same object's `ThreadProc`, at
different places. Every thread has an agenda `todo`: the calls it has yet to
execute, innermost first. An operation pops its own entry and pushes the calls
it makes, so that one TLA+ step is the code between two points where another
thread can interfere: `Run` is two steps (the test of `thread_`, line 10, and
the creation of the thread, 11-14), `ThreadProc` is five (Work, line 22, line
23, `Invoke`, exit). `Invoke` copies the handler list (as the code does) and
turns it into an agenda.

**GameModule** adds the module and its two `Work` functions. Its completion
handlers run from the agenda of the search or pipe thread. The names of the
operations are those of the functions, `ChangeWait`, `StartAdd`, `StopSearch`
and so on being the parts of one function between two such points. `Abort` is a
failed `assert`; from then on nothing runs (`Running`). `Pipe_Term` is
`PipeTerm`: it closes the pipe, or, if a game is connected, may wait in
`CloseHandle` (`ClosePipe`) until the pipe thread has come back from its read.
Nothing in it wakes that read: a thread that serves a game (`serve`) goes on when
the game asks or leaves (`GameAct`), which nobody obliges it to do.

**Loggedin** composes it with the dialogs and `Main`, and with an abstract Auth
that promises one completion per login and one end (logout or disconnection)
per session. It is the complete system TLC runs, with its specifications
(`Spec`, `FairSpec`) and most properties.

**AuthSession** models Auth and its three kinds of thread in detail, on
WorkerThread again, with a client that only clicks. **Session** is what Auth
promises its callers: `Login`, then `Refused` or `Begin`, then `Logout` or not,
then one `End`. `KeepsPromise` is the refinement: AuthSession implements
Session under the mapping `phase`. The abstract Auth inside Loggedin has the
same four phases (`session`).

**PipeServer** is the other side of ThreadPipe: GameModule has the life of its
thread and of the pipe among the threads of the client, PipeServer what it says
to the games. The server's `srv` is the place in `Work`, a game's `pc` the place
in the start of the module (`AuthConnection_Init`, `Language_Init`, `InitMap`).
A pipe is known by its number; its name travels to the game in shared memory
(`smem`), which a game copies and clears in two steps. Messages are records of
who waits for what (`req`, `ans`). A session begins and ends around the thread,
and games exit at any moment. A stop while a game is served is `StopSignal`, which
leaves the pipe alone, and `CloseServing`: the handle is closed at once, or
when the read it waits for has ended, or the thread loses it and the pipe stays
open to that read. The read fails when the game leaves; once the thread has lost
the handle, the next request of the game makes it fail as well (`Fails`).

**Timer** models one game thread: client operations (`New`, `Start`, `Pause`,
`Destroy`, `SetTimeout`) between ticks, in tick callbacks and in the callback of
an expired timer, and `Timer_Update` one iteration per step, with the callback
as a phase of its own between `Expire` and what `update` does after it. `live`
are the objects that have not been deleted; an object that no one can reach any
more when a game ends is `leaked` and not used again. `Game_Init` and
`Game_Cleanup` begin and end a game. Before `Game_Init`, while the game builds
its map, hooks of units and items may already create and start timers of timeout
0 (`GameEventObserver.cpp` 574-578, 621-625). `clock` and `turns` are history variables:
the time a running timer still has to wait, counted down tick by tick, and the
ticks at which it was found due.

**EventDispatcher** models `dispatch` as a stack: a `Frame` for each dispatch
that has not returned, walking first the subscribers, then the listeners of the
event's id, and interrupted while one of them executes (`calls`). Only then, or
with nothing on the stack, may code `listen`, `subscribe`, discard or raise an
event (`DispatchEvent`, or `DispatchDropped` at the limit), since all of it runs
on one thread. The flag, `current` and the level are global, as in the code,
and so are the `id`s of the events, which are static objects. A new game gets a
new dispatcher but keeps the flag and the level. `heard`, `base` and three fields
of a frame (`called`, `discarded`, `raised`) are history variables.

**KeyRepeat** models `KeyRepeat.cpp` with the part of `Input.cpp` that feeds it:
presses and releases of keys and mouse, the focus, the chat box, the option, the
two timers of every code and the ends of games. It uses what Timer promises of
its timers: a destroyed one is not heard of again. `held` is what the user
holds, which the program does not know; `missed` and `away` record the two ways
in which a release escapes it.

**ScriptProcess** models the Lua threads: `ThreadExec` from C++ or from a
running thread, the ways in which a thread stops (`Wait`, an error, `Yield`, the
end), and `Tick`, one record at a time (`TickResumes`, `TickRefused`,
`TickSteps`) with the resumed thread running in between. `stack` are the threads
that run, each started by the one below, and `refs` what the registry of Lua
holds, outside of which a thread is garbage.

**Packet** models just-in-time selection as the steps of the design notes at the
end of `Packet.cpp`, on a record `jit`: the program's state and the selection
the game has, next to the selection it displays (`ui`, `shown`). The player
selects, recalls groups and gives orders; the program sends orders (`UnitGroup`,
`SmartDeny`, `DirectionMove`); units die and are created; games end. **Orders**
is what it promises: every order of either reaches the units meant. The history
variable `order` is the last order; `KeepsPromise` is the refinement.

### Assumptions the models make

* *Pace* (Loggedin, GameModule). The client does its own work in microseconds;
  a user clicks about once a second and a disconnection takes three missed
  keep-alives. `Pace = "any"` assumes nothing; `"opened"` lets clicks,
  disconnections and the game act at any moment after the main dialog has
  opened; `"idle"` lets them act only when every thread has finished or waits
  (`Idle`), and lets nobody close the login dialog while it logs in. The code is
  not correct without such an assumption: under `"any"` a click between the
  showing of the dialog and its first lock calls `Change` on a module that has
  not started, and under `"opened"` a stop can be lost in two windows of a few
  instructions (`ThreadSearch.cpp` 50, `ThreadPipe.cpp` 239).
  These are listed as hazards with notes, and so are two that `"idle"` excludes:
  a login in the microseconds between the first `DoStop` of a stop and the second
  (`GameModule.cpp` 124), and a disconnection in the middle of a change
  (`Loggedin.cpp` 130). No pace binds a game that a stop waits for. Each run's cfg says which pace it
  assumes; so do the theorems: those of Loggedin on types and on `thread_` and
  `running_` assume none, those on stages assume `"idle"`.
* *Calm* (AuthSession) is the same for Auth: `Calm = TRUE` keeps clicks and the
  failure that ends a session out of the instants in which a thread executes
  `Logout` or a completion handler. Everything slow stays interleaved: the
  logout request, the last keep-alive request, the wait of one for the other.
  With `Calm = FALSE` `TypeOK` still holds but `AliveSafe` does not (`Auth.cpp` 47).
  The `GetData` of `onLoginThreadComplete` (`Auth.cpp` 57) is left out: what it
  writes back nobody else changes at that moment. Of the
  theorems `AuthTypes`, `AliveSafely`, `PromiseKept` and `AuthBalanced` assume it,
  `AuthThreadsBacked` does not.
* *Early* (PipeServer). `FALSE`: a game connects once the server listens. Between
  `CreateNamedPipe` and `ConnectNamedPipe` lie a few instructions; a game that
  connects there is left on a pipe nobody reads (`ThreadPipe.cpp` 243), and with
  `Early = TRUE` `Settles` fails. What the thread then does, going on with
  another pipe, is `GameEarly` in GameModule, where it is not excluded.
* *Reuse* (Packet). `FALSE`: no new unit gets the address of a unit that died
  while the program had it selected. With `TRUE` `Tracks` fails: the program
  takes the new unit for the old one.
* `Wait` returns when the thread has exited or `thread_` is NULL; its timeout
  and the `TerminateThread` behind it are not modelled (no caller in these
  modules passes a timeout). The code waits for one thread, that of the handle;
  `Exited` asks for all threads of the object, of which there is one when a
  client at rest is cleaned up, or when a logout waits for its `ThreadAlive`.
* `std::list`, `std::deque` and `std::map` operations are one step, though the
  client does not lock every one of them.
* `Pipe_Create` succeeds, and the message box `OnDisconnect` shows is left out.
* The client is run with administrator privileges (`Admin`) in the runs; the
  theorems cover both values.
* Clients of timers follow pointers to timers that exist; KeyRepeat shows that
  one of them does.
* A listener that a nested dispatch appends to the queue an outer loop walks
  invalidates the loop's iterator by the rules of the language. The iterator of
  the release build is an offset, so the model goes on by index. A game does not
  end inside a dispatch.
* A release of a key that another listener discards does not reach KeyRepeat
  (`DirectionMove.cpp` 138-147 does that to its own keys); the model of KeyRepeat
  has no other listeners.
* A group the player or the program selects has at most the 12 units a selection
  packet takes (`Packet.cpp` 71).
* No script catches the error `Wait` raises where Lua cannot yield, and no game
  lasts 2^32 milliseconds (`ScriptAssumption`).

## Runs

| run | specification, bounds | shows |
|---|---|---|
| `relogin` | Loggedin `FairSpec`, Pace `idle`, 2 logins, 3 changes, 4 OS threads | `AtRest`: after a stop nothing of it is left running (`InitedQuiet`), the lock covers a change from click to completion (`ChangeLocked`), no handler of `onActionComplete` and no `onThreadEndForCleanup` is in its list twice (`AddedOnce`). `LockEnds`: the lock is always released, with the proviso of `StopCompletes`. `Assertions`: Start and Stop find the state they assert. `RunHeeded`: no `Run` is refused or doubled. `ThreadBacked`: `thread_` and `running_` never lie about the thread. `StateCycle`: the state never jumps, whatever handlers earlier operations have left behind. `StopCompletes`: every stop completes, wherever its signal finds the two threads, if it does not go on for ever that a connected game holds the pipe thread (`Held`). |
| `start_assertion` | Loggedin `Spec`, Pace `opened`, 1 login | violation, see Findings. |
| `auth_session` | AuthSession `FairSpec`, Calm, 3 logins, 3 failures, 3 OS threads | `KeepsPromise`: Auth implements Session. `AliveSafe`: no session is kept alive after its end or by two threads (`OneAlive`), no object is deleted under its thread (`DeletedIdle`) or followed when NULL (`AliveNotNull`). `LogoutEnds`: a logout ends although the server may be dead. |
| `cleared` | AuthSession `Spec`, Calm, 1 login | violation, see Findings. |
| `timers` | Timer `FairSpec`, 2 timers of 4 kinds (one-shot, periodic with timeout 0, script timer of 2 ms that is not disposed, and the one-shot with timeout 0 of the hooks), 1 ms ticks, a clock of 4 values | `QueuedOnce`, `CallbackHoldsIts`: queues and objects agree, whatever callbacks do. `Exact`: no early or distorted expiry through skipped ticks, pauses and the wrap. `LateBound`: a due timer is passed over at most once for every timer in front of it. `DestroyedDeleted`: a destroyed timer is deleted, in spite of the early return. |
| `dispatch` | EventDispatcher `Spec`, 2 events, 2 ids, 2 listeners, 2 calls of listen per id, 1 subscriber, limit 2, depth 3, a level of 8 values, symmetric | `OwnState`: flag, current event and id are those of the dispatch on top as long as its callbacks raise nothing. `LevelCounts`: the level is the loops on the stack less those at the last reset, so it wraps when these end. `LevelHeld`: it never leaks towards the limit, and no event is dropped before the limit has been reached. `Registered`: no registration is lost, doubled or out of order, wherever listen is called (`InOrder`), and each dispatch, also one whose queue is lengthened by another inside it, has called the listeners of its id from the first on, in order and none twice (`Calls`). |
| `scripts` | ScriptProcess `FairSpec`, 3 threads, waits of 0, 1 and 4 ms, ticks of 1 and 2 ms, a clock of 5 values, a game of 2 ms | `Referenced`: every thread to be resumed is held by the registry. `SleepsOnce`: none is in the map twice. `OnTime`: none wakes early, and a tick leaves none behind that was due. `TickEnds`: a tick ends, unless scripts go on for ever to wait for a time it has not passed. |
| `key_repeat` | KeyRepeat `Spec`, 2 keys, the wheel, 4 timers, symmetric | `Owned`: pointers and timers agree, and a code has one of the two timers at most. `RepeatsHeld`: what repeats is held, or its release was hidden by the chat box. `DownIsHeld`: so is what is taken for down, or it was released over another program before the game. |
| `pipe_server` | PipeServer `PipeFairSpec`, 2 games, 4 pipes, 2 sessions, 3 revisions, `Early` FALSE | `Alternate`: every answer is to the question asked. `KeyOfSession`: a game that has started has the key of the session its pipe was made in. `Settles`: no game waits for ever while it starts. |
| `version` | PipeServer `PipeSpec`, 2 pipes, 1 session | violation, see Findings. |
| `packet` | Packet `FairSpec`, 3 units of 2 kinds, certain at the 3rd expiry, `Reuse` FALSE | `Tracks`: the program knows the selection of the game whenever it differs from the one displayed. `KeepsPromise`: Packet implements Orders. `Restores`: the player's selection is restored once the program stops. |
| `subgroup` | Packet `Spec`, as `packet` | violation, see Findings. |

Every run of the first kind also checks its module's `TypeOK`.

*Bounds.* `relogin` has two logins because the hazards reach from one session
into the next (a late `DoStop`, leftover handlers), and three changes because
with two the method is back where it began. Four OS threads allow two old threads
that have not returned beside two new ones. The bounds are in the guards of
`Login` and of the click. Three Auth logins: one refused, one ended by the
server, one by the user, in every order. Two timers suffice for one callback
acting on its own timer and on another; `turns` stops at `MaxTurns`, one past
what `LateBound` allows. The clock wraps after four ticks, so every behaviour of
interest crosses the wrap; the theorems of Timer have no such bound. A limit of 2
with a depth of 3 lets the dispatcher meet its limit, be reset, go deeper and
come back through the wrap; nothing in it compares the level with anything but
the limit and 0. Two listeners and two calls of `listen` give two registrations
in either order, one before and one during a dispatch of the id. Three script threads are one that Tick has resumed, one it
starts and one that sleeps; with a clock of 5 a wait of 4 ms ends before, at or
past the wrap. Two keys are the slash, which opens the chat box, and any other;
two codes of one kind never touch each other's timers but through those. Four
timers exceed what two keys and a wheel hold at a time by one. Four pipes
are a new one for each way in which a pipe can end (its game gone, its session
over) in both sessions. Three units are a selection that overlaps another, with
and without a change of subgroup; the expiries until certainty are 12 in the
code (`Packet.cpp` 13-14, 210), and nothing but the certainty depends on the number.

*Deadlock.* The client stops for good when its window is closed, and a failed
assertion ends it, so `CHECK_DEADLOCK FALSE` there; so it is for PipeServer,
whose sessions, pipes and games are bounded and all end. Timer, EventDispatcher,
ScriptProcess, KeyRepeat and Packet never stop and are checked for deadlock.

*Fairness.* Each thread of the client is weakly fair (`WF` per thread: the
operating system schedules it). Requests of Auth end, answered or timed out: in
Loggedin strongly fair, since the pace can suspend them again and again; in
AuthSession part of the thread's `Work`; in PipeServer `Serve` is weakly fair for
the same reason, and so are the thread and the games that start; a `CloseHandle`
with a game connected (`CloseServing`) may wait for ever. Nothing is
assumed of the user, the network or the game: no click, disconnection or
connection need ever happen, and no game need ask or exit. Hence the premise
`[]<>~Held` of `StopCompletes` and `LockEnds`: without it both are false, since
a stop with a game connected waits for that game. In Timer the game ticks while
it lasts and callbacks return; clients owe nothing. In ScriptProcess Tick goes
on, and each thread that gets to run again and again stops (`SF` on `Stop`): no
plugin loops for ever, which nothing in C++ could mend. In Packet the selection
timer expires (`WF`).

## Findings

* `start_assertion` (`GameModule.cpp` 104). The login dialog can be closed
  while it logs in. `Main` then cleans up, and the login that completes
  afterwards opens the main dialog and calls `Start` on a module in
  `STATE_UNINITED`. The assertion of `Stop` (138) fails on the same road, a
  little later: `Cleanup` stops the module the login has just started, and the
  end of that session calls `Stop` on a module that is stopping or gone.
* `cleared` (`EncryptedData.h` 41). `GetData` writes back what it read. A
  keep-alive request that reads the session id while `ThreadLogout` clears it
  (the comment at `ThreadLogout.cpp` 27 says it does) restores the id of the
  ended session.
* `version` (`ThreadPipe.cpp` 147). The comparison of versions ("version
  mismatch") has the comparison of a size with 0 as its length, that is 1: a
  module whose revision agrees in its low byte gets the key data and starts.
* `subgroup` (`Packet.cpp` 188). The design notes (462) say that the subgroup
  displayed is what orders go to. Selecting back compares the units only: if the
  player has displayed another subgroup of the very units the program has
  ordered, the packet was dropped and is not made up for.

Three more that no run lists. A logout with a game connected waits until the game
leaves: `Pipe_Term` is to keep the thread from blocking (the comments at `Pipe.h`
98 and `ThreadPipe.cpp` 143, where an empty request means that the thread is to
leave), but its null byte goes to the handle of the client end, which could not be
opened or has been closed (`Pipe.h` 105-113); the premise of `StopCompletes` and
`LockEnds` is the trace of it. The recursion
limit of the dispatcher resets the level with all loops still on the stack, so
that it does not bound the depth (`LevelCounts` says what the level is
afterwards), and a key released while the chat box is open goes on repeating
(`RepeatsHeld` says that nothing else does).

## Proofs

TLAPS proves the following for every value of the constants: any number of
threads, timers, keys, units, games, pipes, logins and changes, any Pace and any
Calm (but where one is named), any clock, any depth of nested dispatches (of which a `uint32_t`
must be able to count that many and the limit: `DispatcherAssumption`).

* `Loggedin_proofs`: `ThreadsBacked` (`ThreadBacked`), `TypesOK` (`TypeOK`) and
  `WorkersOnlyHandle`. The inductive invariant is
  `Typed == Backed /\ Agendas /\ Lists /\ GameData /\ DialogData`. `TypeOK`
  alone is not inductive: a handler list becomes an agenda at `Invoke`, so one
  must know that lists hold handlers only and which operations each kind of
  thread can have in its agenda (`Agendas`, hence `WorkersOnlyHandle`: the
  search and pipe threads never enter Start, Change, Stop or Cleanup).
  `ThreadBacked` needs in addition the types of the thread variables
  (`Backed == ThreadCore /\ ThreadBacked`); with them `Run` and `ThreadProc`
  preserve it, and no other operation touches the fields. Those lemmas are in
  `WorkerThread_proofs`, with what `Invoke`, `Append` and `Remove` make of
  handler lists that are written out.

  With Pace `"idle"`, as in the run `relogin`: `StagesKept`, and from it
  `RestsBetween` (`AtRest`), `AssertionsHold` (`Assertions`), `RunsHeeded`
  (`RunHeeded`), `OneThreadEach` and `StatesCycle` (`StateCycle`). None of these
  properties is inductive: whether `Start` finds `STATE_INITED` depends on how
  far the stop of the session before has got in three threads and in two lists.
  The inductive invariant is `Typed` with `Placed == Core /\ Somewhere`. `Core`
  is about the two workers: at most one OS thread is in the `Work` of an object,
  and then `running_` and `thread_` are set. `Somewhere` is the disjunction of
  ten stages, the rounds of a session:

  | stage | what is going on |
  |---|---|
  | `Entering`, `Opening`, `Starting` | the dialog is being created and locked; `Start` and its `Change` run to `StartChangeComplete` |
  | `Ready` | the module has started and no change is in progress; clicks, the end of a logout and disconnections come here |
  | `ChangeAsked`, `ChangeWaiting`, `Changed(t)` | the lock is taken and the old method told to end; its thread has not ended; thread t, the old one or the caller, runs the new one |
  | `StopCalled(t)`, `Stopping(t)` | t, Auth's logout or alive thread, is about to call `Stop`; it tells both workers to end, and they end in either order, the first perhaps before the second has been told |
  | `Out` | `DoStop` has been called; what the workers still execute is the completion of the stop, or the second `DoStop`; or all is quiet, or the login dialog is closed and `Cleanup` runs |

  A stage says what each agenda, each handler list, each thread and `State` can
  be at once. Every action is taken in every stage (`EnteringNext` to
  `OutNext`): it is disabled there, keeps the stage or leads to the next one.
  `Pace` is used where the user, the network or the game acts: none of them does
  before every thread has finished or waits, so only `Entering`, `Ready` and
  `Out` have to answer for logins, clicks, disconnections and the closing of the
  login dialog. The hard stages are `Stopping` and `Out`.
  `onThreadEndForModuleCleanup` is never removed from the workers' lists
  (`GameModule.cpp` 131), which gain one at every stop. Each of them asks whether
  both workers have ended, so `DoStop` is called again and again, the first call
  excepted with the module in `STATE_INITED` already. That is harmless because
  those calls find no other `onActionComplete` handler than that of their own
  stop, and no login reaches `Start` before the thread that makes them is done; in
  a change the leftover handlers find that the pipe thread runs.
  `OnlyLeftovers` says that nothing else stays in those lists. At another pace
  this is lost: the run `start_assertion` shows one of the assertions fail.
* `AuthSession_proofs`: `AuthThreadsBacked`, by the same lemmas, with the
  ThreadAlive objects that come and go; and, if `Calm`, `AuthTypes`
  (`TypeOK`), `AliveSafely` (`AliveSafe`), `PromiseKept` (`KeepsPromise`, the
  refinement) and its consequence `AuthBalanced` (by the lemma `SessionsBalanced`
  on whoever keeps the promise of Session). The invariant
  `AuthInv == Core /\ Somewhere` says how far everybody is together. `Somewhere`
  is a disjunction of thirteen places, from `Outside` over `LogsIn(p)`,
  `Entered(p, q)`, `Inside(q)` to `LoggedOut(r)`: at most one thread has
  anything to report, one may keep the session alive, and all others are
  `Spent`, that is about to leave `ThreadProc` without calling anybody. What makes
  it inductive is that a logout removes the only handler of the alive thread
  before it signals it (`RemoveOnly`): from then on that thread may be anywhere
  in `Work` or behind it (`Leaves`) and has nothing to call. `Calm` is used
  twice: a `Logout` finds the alive thread within a round (`LogoutInv`), and a
  session is not lost before its login has been reported or while its logout is
  being set up (`WorkSomewhere`). `Handles` (an object has one thread in its
  Work, and knows of it) is why a `Wait` that does not wait is right
  (`WaitAliveInv`). The lemmas are one per operation (`RunLoginInv` to
  `DialogInv`), after those on agendas (`Turn`, `Places`: which operation is
  executed where).
* `Timer_proofs`: `TimerTypeOK`, `TimersQueuedOnce`, `CallbacksHold`,
  `TimersExact`, `TimersLateBound`. The inductive invariant of the first three
  is `TypeOK`, the place of the iterator (`Position`: at the front before the
  loop, at a timer while its callback runs) and `Queued`:
  `TimerQueue \o TaskQueue`, as one sequence, repeats nothing and holds exactly
  the live timers that have been started. `DoUpdateTasks` does not change that
  sequence, `Start` appends to it, a deletion removes one element
  (`RemoveAtConcat`, `RemoveAtOnce`), and a callback can do nothing else to it.
  The last two add `Punctual`: a timer at place n of a queue of at most N has
  gone at most N + 1 - n ticks, in the middle of a tick, without an update
  (`Bound`), and N - n once it has had its turn. A deletion, which makes
  `Timer_Update` return, also moves everything behind it one place forward; that
  is the whole argument. It bounds the ticks at which the timer was due, hence
  `LateBound`, and the time since its last update, which must be less than the
  width of the clock for the difference of two readings to mean anything
  (`AgeGrows`; the timers of timeout 0 that hooks start before a game have
  nothing left in any case, `Outside`): `Paced` says that N ticks are shorter than that, the assumption
  of both theorems. (The `timers` run satisfies it; in the game a tick is some
  milliseconds and the width is 49 days.)
* `EventDispatcher_proofs`: `DispatcherTypes`, `ListenersRegistered`,
  `DiscardsOwn` (`OwnState`), `LevelsCounted`, `LevelsHeld`. The first lemmas
  say what the three changes of the stack (another top, one removed, one added)
  do to its frames and to the number of its loops; the rest is one step per
  action. `OwnState` is inductive together with `Nested`: every frame below the
  top has raised an event, so what a return uncovers promises nothing.
  `Registered` rests on the queue of an id only ever growing at its end while a
  dispatch stands in it (`LongerKeeps`), and on `i` telling how many listeners
  the dispatch has called.
  `LevelCounts` is inductive by itself and explains the level in full;
  `LevelHeld` follows from it and from the bound on the depth.
* `Game_proofs`, of Packet: `PacketTypes`; `SelectionTracked` (`Tracks`) and `OrdersKept`
  (`KeepsPromise`, the refinement) if addresses are not used again. `Tracked` is
  stated of any state j of the program, so that the lemmas on `JitSelect`,
  `SelectBack` and `BeforeAction` compose as the code composes the functions;
  each order is then read off the selection they leave.
* `Game_proofs`, of PipeServer: `PipeTypes` (`PipeTypeOK`), `Alternates`
  (`Alternate`) and `KeysOfSessions` (`KeyOfSession`), with `Early` or without.
  `Alternate` is inductive once one knows that a pipe's peer is a game that has
  the name of that pipe and has opened it (`Peers`): an answer then goes to the
  game whose request was read. `KeyOfSession` needs two facts more. `OneSession`:
  a login creates another thread, so while one runs the session it has copied is
  that of its pipe, or zeros after `ClearSession`. `Keyed`: a game that has got
  past the decryption does not hold zeros.
* `KeyRepeat_proofs`: `KeyTypes`, `TimersOwned`, `RepeatOnlyHeld`,
  `DownOnlyHeld`. The inductive invariant adds to the four properties that no
  timer exists outside a game (`NoneOutside`) and that a code with a delay timer
  was not released over another program (`DelayFresh`): its expiry looks at the
  state of the key, and must not find a stale one.
* `ScriptProcess_proofs`: `ScriptTypes`, `ThreadsReferenced`, `SleepersOnce`,
  `WakesOnTime` (`OnTime`). `Referenced` and `SleepsOnce` are not inductive: that
  a record is erased when its thread returns, and only it, rests on the thread
  Tick has resumed being the first of the list Tick is at (`AtHead`), at the
  bottom of the stack, and on no other running thread being in the map
  (`Asleep`, `Stacked`). `Left` says what a return makes of the lists, once for
  all the ways to return (`ReturnInv`). `Passed` adds that behind Tick there are
  only waits past the wrap of the clock: a wait during the walk goes to a time
  at or after the one Tick is at, or round the clock. `WalkEnds` concludes from
  it for the step in which Tick returns.

Only model-checked: all liveness properties (`LockEnds`, `StopCompletes`,
`LogoutEnds`, `DestroyedDeleted`, `TickEnds`, `Settles`, `Restores`), which are
beyond the prover. What `Pace` other than `"idle"` leaves true of Loggedin
besides types and `ThreadBacked`, and what `Calm = FALSE` leaves true of
AuthSession besides `ThreadBacked`, is not stated: the runs with a violation
show that most of it is false.

## Not modelled

* **HTTP, AutoUpdate.** The close handler of the update dialog answers FALSE and
  the threads behind it are deleted while they run. What the code promises of
  that moment is nothing; a model that waited for them would be another program.
* **Connection, Message.** Every user makes a Connection, sends one request and
  deletes it. Its ends (answered, refused, timed out) are nondeterministic where
  it is used; framing and encryption of one message tell no property apart.
* **Roaming profile.** Three workers, each started by a button that is disabled
  until its handler runs: nothing beyond WorkerThread, Run and one handler each.
* **Missiles, object pool, refresh manager.** A map and two lists whose contents
  the game's own calls decide; no order of calls is refused or repaired.
* **Game life cycle, observers, features, interface.** They read and patch the
  memory of one version of the game and draw. What the rest needs of them (a
  game begins and ends, ticks come) is part of the models that use them.
* **Latency, counts of actions, key tables, texts.** Data, left out of the
  modules whose control they accompany.
* **Operating system wrappers, start-up, installer, packer, loader,
  protection.** No state machine. Lua, json-c, OpenSSL and curl under `src/` are
  third-party, and most of its lines; the client and the in-game module are some
  tens of thousands, of which wrappers, windows and drawing are the greater part.
