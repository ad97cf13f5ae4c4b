# go-agent-sessions: TLA+ models

`go-agent-sessions` runs coding-agent sessions for a host program. A caller
asks a `Manager` to start a session; a `Runtime` (a factory per kind of agent)
returns a `Session` that wraps a child process, a request/response protocol or
a model provider; the Manager keeps a registry of what is running, one watch
goroutine per session, an optional attach broker that fans the session's output
out to clients, and reports every change of state to a caller-supplied
`StateSink`.

This directory holds the models of that code, the TLC configurations that check
them on small instances, and the machine-checked proofs. All paths and line
numbers are those of `src/agentsessions/` unless they say otherwise.

## 1. Inventory

| component | state it keeps | operations | interacts with |
|---|---|---|---|
| **Manager** `manager.go` | `registry`, `results`, `stopped`, `wg`; per entry `killing`, `attachCount`, `inputMu` | `Start`, `Stop`, `SendInput`, `AttachWith`, `WaitSession`, `Shutdown`, `Get`/`List`/`Health`, the `watch` goroutine | calls `Runtime.Start`, `Session.*`, `StateSink`, `AttachmentSink`; owns one broker per session |
| **Attach broker** `attach.go` | ring buffer, head sequence, subscriber map, `closed` | `Write`, `subscribeSince`, `cancel`, `close`, `copyStream` | written by a session's reader, read by `AttachWith` goroutines |
| **Process sessions** `pty_session.go`, `streaming_stdio_session.go`, `jsonrpc_stdio_session.go`, `supervision.go` | child process, pipes or pty master, attempt counter, supervision cause, session id, idle timer, `alive`, `done` | `Start`, `Wait`, `Stop`, `SendInput`, reader loop, waiter, idle and watchdog supervisors, stop-watcher | the operating system; event channel; boot directory |
| **JSON-RPC correlation** `jsonrpc_stdio_session.go` | `pending` calls, next id | `Call`, `deliverResponse`, `respondToServerRequest`, `failPendingOnClose` | the reader goroutine of the session |
| **Serve-HTTP session** `serve_http_session.go` | server process, turn state, current turn, event stream | `SendInput` (a turn over HTTP), event stream loop, `Stop`, `finishOnProcessExit` | an external HTTP server |
| **Turn sessions** `from_adapter.go`, `from_provider.go` | one turn in flight, captured session id, history | `SendInput`, `Stop`, `Wait` | one child, or one provider stream, per turn |
| **Boot directory, limits** `bootdir_planting.go`, `wraparg_*.go` | planted files, wrapped argument vector | `Plant`, `cleanup` | sessions, at start and at their end |
| **Compliance, example** `src/compliance`, `src/examples` | - | test support | - |

What is hard here, and what each component has to get right:

* **Manager.** `Start`, `watch`, `Stop` and `Shutdown` interleave without one
  lock around them: each takes `m.mu` only for parts of what it does. The watch
  goroutine looks its entry up *by id*, not by pointer. Correct means: exactly
  the sessions whose exit is unseen are registered; the verdict recorded for a
  session says whether a Stop caused its end; a waiter that is let go sees
  everything that belongs to the end of its session; a Shutdown that drained
  leaves nothing behind; nobody who waits waits for ever.
* **Attach broker.** A bounded ring, bounded subscriber channels, resumption by
  the number of bytes received, and a `close` that races `cancel`. Correct means:
  an attached client sees the stream in order and once; a resume is exact for a
  client that has missed nothing, wherever it was cut off; bytes it misses while
  attached are only those dropped from its own full channel, and they are counted; channels are closed
  once; an end of stream means that everything there was has been handed over.
* **Process sessions.** Six kinds of goroutine share a child, its pipes and a
  handful of locks; children are respawned with a backoff while `Stop`, context
  cancellation, idle and watchdog kills come at any time. Correct means: `Wait`
  returns once, for the last attempt; a kill the supervisor asked for is not
  mistaken for a crash nor a crash for a kill; resources are released after the
  last user and only once; a stopped session ends.
* **JSON-RPC, serve-HTTP, turns.** Requests and answers, events and process
  exits arrive in any order. Correct means: every call returns; there is one turn
  at a time, and one that ended is not still in flight; a turn continues the
  conversation where the last one left it; Stop wins over a turn.
* **Start-up.** A session plants a boot directory, opens a log, applies a sandbox
  and resource limits, makes pipes and spawns, and any of these may fail. Correct
  means: what was taken is held as long as something uses it and let go after, on
  every path.

`PROJECT.json` lists these hazards one by one, each at the line where it bites,
with the properties that cover it, or the reason why none does.

## 2. Modules and plan

Each component has the same four modules: the model, `...Properties` (type
invariant, safety, action and liveness properties), `MC...` (the instance TLC
runs) and `...Proofs` (theorems).

| module | content | abstract specification it implements |
|---|---|---|
| `Manager` | one action per critical section of `m.mu` and per call to a sink, broker or session | |
| `AttachBroker` | the broker over stream positions | |
| `SupervisedSession` | restart loop, idle-kill, watchdog, stop-watcher, reader, Stop, SendInput and the end of Start, for the pty and the two stdio runtimes | `SessionContract`, checked and (safety) proved |
| `SingleShotSession` | a pty or streaming session without a Supervisor, from the first step of Start to its last release | `SessionContract` (safety), proved |
| `JsonRpcSession` (proofs in `JsonRpcProofs`) | a single-shot JSON-RPC session: Calls, the pending map, the reader and its answers to the child, the waiter and Stop | `SessionContract`, checked and (safety) proved |
| `ServeHttpSession` | the rest of Start after the server was spawned, turns over HTTP, the event stream, two finishers and Stop | `SessionContract`, checked and (safety) proved |
| `TurnSession` | adapter and provider sessions: one turn at a time, its cancellation, the conversation, Stop | none: Wait of such a session is released by Stop, not by the end of a process |
| `SessionContract` | what the Manager assumes of a Session: one result, after the last process, and an end once it is told to stop | |

The Manager came first because every other part is reached through it, the process
sessions next because they hold most of the concurrency. Left of the plan:

* `ManagedBroker`: the Manager composed with the broker and the writer chain of
  `combineWriters` (`manager.go:598`), where a writer that fails cuts off those
  behind it;
* `computeRestartBackoff` (`supervision.go:304`) against its definition;
* a pending Call across a supervised restart of a JSON-RPC session;
* Start of a serve-http session before its server is spawned, and Resize.

## 3. How the models correspond to the code

### Manager

One action is one critical section of `m.mu`, or one call out of the Manager;
between two actions of a goroutine any other goroutine can run. A session is
named by the `Start` call that launched it, so entries, result objects, watch
goroutines and sessions are all indexed by `Starts`, while `registry`,
`results` and the sink's `row` are indexed by the caller's ids.

| code | model |
|---|---|
| `Start` 162-277 | `StartCheck` (first look at `stopped`), `StartLaunching` (sink), `StartSpawned` / `StartFailed` (`Runtime.Start`), `StartRunning` (sink), `StartRegister` / `StartRefused` (second look), `StartAbandon` (stop and close broker) |
| `watch` 286-326 | `WatchReap` (critical section: `killing`, delete from registry, look up result), `WatchRecord`, `WatchCloseBroker`, `WatchDeliver` (close of `result.done`), `WatchDone` (deferred `wg.Done`) |
| `Stop` 328-344 | `StopMark`, `StopSession` |
| `SendInput` 386-401 | `SendLookup`, `SendLock`, `SendUnlock` |
| `AttachWith` 448-521 | `AttachLookup`, `AttachEnter`, `AttachEOF` / `AttachBreak`, `AttachLeave` |
| `WaitSession` 540-566 | `WaitLookup`, `WaitReturn`, `WaitCancel` |
| `Shutdown` 570-590 | `ShutdownFirst`, `ShutdownAgain`, `ShutdownDrained`, `ShutdownTimeout` |

`Get`, `List`, `Health`, `Resize` and `JsonRpcCall` look an entry up and
forward; they change nothing and are left out. `SessionExit` is the environment:
a session may end at any time with any code. A double close of a channel is a
panic that ends the process (`panicked`, which disables every action).

The Manager does not stop two `Start` calls from using one id. `IdReuse` says
what callers do: start an id again once `WaitSession` on its last session can
return (`"afterWait"`), once `Get` no longer finds it (`"afterUnregister"`), or
at any time (`"overlapping"`). The cfg of each run names the discipline it
assumes; the theorems name theirs as a hypothesis where they need one.

### Attach broker

Bytes are replaced by their positions in the stream: ring, chunks, replays and what
a client has observed are sequences of positions. Actions are the critical sections
of `b.mu` and the steps of the reading goroutine.

`AttachWith` writes raw bytes, so all that a client can resume with is how many it has
received: `since` is that number before an attach, `observed` what this attach has
written to it, `Received` their sum. Its writer may fail after it has taken a part of a
chunk (`CopyBreak`). `missed` is history and guards nothing: a chunk was dropped for the
client, or bytes it lacked were evicted before it attached.

| code | model |
|---|---|
| `Write`, `appendRing` 112-183 | `Write`, with `appendRing` and one non-blocking send per subscriber |
| `subscribeSince`, `computeReplay` 140-232 | `Attach` with `subscribeSince` |
| `cancel` 220-230 | `Cancel` |
| `close` 237-248 | `Close` |
| `copyStream` 252-271 | `CopyReplay`, `CopyChunk`, `CopyEOF`, `CopyBreak` |

### Supervised process session

`pty_session.go`, `streaming_stdio_session.go` and `jsonrpc_stdio_session.go` hold
the same restart loop three times; one module models it, and the variable `opts`
(what Start was given, chosen in `Init`) says which runtime it is and what is
switched on. The differences are kept: the pty's first attempt waits for the boot
prompt before it arms its supervisors (`Gated`), a stdio session's pipes are closed
by `cmd.Wait` (`Reap`), and its Stop closes stdin and waits before it signals
(`StopSnapshot`, `StopEOFGrace`).

Goroutines are control points: `loop` (runSupervised), `guard` (idle-kill, watchdog
and stop-watcher), `reader`, `startPC` (the end of Start), `stopPC` (the Stop that
won `stopOnce`), `sendPC` (each SendInput). Only the child of the current attempt is
kept; a signal sent to an earlier one reaches nobody. `hit` and `lateSpawns` record
history for the properties and guard no action.

| code | model |
|---|---|
| end of `ptyRuntime.Start` 83-165 | `Init`, `StartSignals`, `StartCancelled`, `StartWrites`, `StartWritten`, `StartRefused`, `StartFailed` |
| `spawnAttempt` 259-349 | `Respawn` (the process), `RespawnFails`, `Publish` (its fields, under the lock) |
| `runReaderLoop` 367-418 | `ReadLine`, `ReaderEnds` |
| `runSupervised` 484-577 | `Judge`, `Judgement`, `BackoffAborted`, `BackoffOver`, `Retire`, `Deliver` |
| `waitOnceSupervised` 583-671 | `Arm`, `Reap`, `Join`, `ClearField` |
| `superviseIdle`, `superviseWatchdog` 697-759 | `Lapse`, `GuardSees`, `SupervisorActs`, `SupervisorYields` |
| stop-watcher 633-644, `killWithGrace` | `StopperActs`, `GuardKills`, `GuardQuits` |
| `Stop` 771-815 | `StopBegin`, `StopSnapshot`, `StopEOFGrace`, `StopTerminate`, `StopKills`, `StopReturns` |
| `SendInput` 817-837 | `SendCheck`, `SendRefused`, `SendBegin`, `SendEnd` |

Time is abstracted to what may happen in it: a threshold may lapse at any moment
without activity, a timer may fire at any moment, and a select with several ready
cases takes any. A write to the child may block until the child is gone. The child
may write, exit by itself in three ways, heed SIGTERM or ignore it.

### JSON-RPC session

`JsonRpcSession` is the single-shot form (no `Supervisor`) of the JSON-RPC runtime.
A Call is named by its id; `pending` is the map, `taken` the Calls that the reader
or Stop has removed from it and not yet sent to, `box` what was sent on a Call's
channel. The child's input is a pipe that may block a write, its output a queue of
at most `Cap` frames: answers to Calls (late, repeated and unwanted ones included)
or requests of its own. `sent` and `cut` record history.

| code | model |
|---|---|
| `Call` 855-912 | `CallEnter` (alive), `CallRegister`, `CallUnencodable`, `CallFetch` (stdin, under `ioLock`), `CallWrite` with `WriteSucceeds` / `WriteFails`, `CallReceives`, `CallCancelled`, `CallLeaves` (cleanup) |
| `runReaderLoop` 344-417, `deliverResponse` 423-440 | `ReadAnswer`, `DeliverAnswer`, `ReaderEnds`, `ReaderFails`, `ReaderGone` |
| `respondToServerRequest` 451-480 | `ReadRequest`, `Respond`, `WriteSucceeds` / `WriteFails` |
| `failPendingOnClose` 485-494 | `Take` and `Send`, by the reader and by Stop |
| `spawnWaiterLegacy` 496-543 | `WaiterReaps`, `WaiterClears`, `WaiterJoins`, `WaiterDelivers` |
| `Stop` 771-824 | `StopBegin`, `StopLocks`, `StopCloses`, `StopTakes`, `StopFails`, `StopHasFailed`, `StopTerminates`, `StopKills`, `StopReturns` |

The scanner may end while the child lives (a line over 1 MiB, an output the child has
closed), so `ReaderEnds` is possible at any time and `cut` says that it came early.
Callbacks into the caller (`JsonRpcRequestHook`, `JsonRpcNotificationHook`) are
assumed to return.

### Single-shot session

`SingleShotSession` is a pty or streaming session without a Supervisor (`kind`), with
any of boot directory, sandbox and resource limits (`wants`), and a boot prompt, a
first turn or neither (`first`). Start takes hold of one thing after another; `held`
is what has been taken and not let go. The two runtimes differ in three places, all
kept: streaming writes its boot prompt before it launches the reader (`AfterSpawn`),
the pty after `readerReady`; and Stop of a streaming session closes stdin and waits two
seconds before it signals.

| code | model |
|---|---|
| `Start`, `preparePlant`, `spawnAttempt` | `StartTakes` and `StartFailsAt`, for each of the `Stages`; `LetGo` is what the error branch of a stage releases |
| boot prompt, first turn | `PromptWritten`, `PromptFails`; `StartReady`, `StartCancelled`, `StartFails`, and `Send...("start")` |
| `spawnReaderLegacy`, `runReaderLoop` | `ReaderStarts`, `ReaderReads`, `ReaderEnds` |
| `spawnWaiterLegacy` | `WaiterReaps`, `WaiterClears` (under the lock), `WaiterCloses`, `WaiterJoins` (`copyDone`, log), `WaiterDelivers`, `WaiterCleans` |
| `SendInput` | `SendEnter`, `SendLocks`, `SendWritten`, `SendFails` |
| `Stop` | `StopBegins`, `StopLocks`, `StopSeesDone`, `StopWaited`, `StopTerminates`, `StopKills` |

The child may get stuck on its output (`ChildSticks`) until the reader reads; while it
is stuck it reads no input.

### Serve-HTTP session

`ServeHttpSession` begins when the server has been spawned. HTTP requests are answered
or fail; the server counts the turns it works on, and events that end a turn are a
number on their way, because the code ends whatever turn is in flight when any such
event arrives. `deaf` and `loose` record history: an event was lost with its stream; a
turn went on although the session had reason to believe that it was over.

| code | model |
|---|---|
| `Start` 99-138 | `StartHasURL`, `StartSeesExit`, `StartHealthy`, `StartCreates`, `StartGivesUp`, `StartLaunches`, `StartFails`, first turn as `Send...("start")` |
| `spawn` goroutine 260-268, `finishOnProcessExit` 481-503 (launched twice) | `Reap`; `FinisherReceives`, `FinisherJudges`, `FinisherDelivers`, `FinisherSkips` |
| `SendInput` 582-624, `markTurnDone` | `SendEnter`, `SendClaim`, `SendPost`, `SendAnswered`, `SendFails` |
| `runEventStream` 379-413, `handleSSEData` 415-471 | `StreamArms`, `StreamOpens`, `StreamTakes`, `StreamEnds` |
| `Stop` 524-564 | `StopBegin`, `StopDisposes`, `StopAborts`, `StopSeesDone`, `StopTerminates`, `StopKills` |

### Turn sessions

`TurnSession` is both an adapter session (a child for each turn) and a provider session
(an API call for each turn), by `kind`. A SendInput is a turn from its claim of
`turnInFlight` to its deferred calls.

| code | model |
|---|---|
| `SendInput` `from_adapter.go` 236-289, `from_provider.go` 131-187 | `SendEnter`, `SendClaim`, `TurnBegins`, `TurnRuns`, `TurnSucceeds` / `TurnFails`, `TurnLeaves` (twice: the state, the flag) |
| `handleRunnerEvent` 295-322, the stream loop 160-179 | `ChildReports`, `StreamBrings` |
| the goroutine that cancels a run 260-266 | `TurnCancelled`, with `CancelsWatched` as its fairness |
| `Stop` 220-234, `Start` 160-173 | `StopBegins`, `StopDelivers`, `StopCleans`; `Fired`, `StartFails` |

## 4. Runs

| run (cfg) | question | states |
|---|---|---|
| `lifecycle` (`MCManager_Lifecycle`) | Start, Stop, watch, WaitSession, SendInput and two Shutdowns on one reused id | 1.3 million |
| `liveness` (`MCManager_Liveness`) | exits are delivered, clients counted and let go, refused sessions end, Shutdown returns | 105 thousand |
| `broker` (`MCAttachBroker_Stream`) | replay, resumption by the number of bytes received, loss accounting, end of stream; every attach to a closed broker ends | 366 thousand |
| `supervised` (`MCSupervisedSession_Safety`) | restarts, kills, backoff, Stop and cancellation in every order | 3.3 million |
| `supervised_liveness` (`MCSupervisedSession_Liveness`) | the Session contract; Stop, Start and the restart loop get to their end | 104 thousand |
| `jsonrpc` (`MCJsonRpcSession_Calls`) | Calls, answers, requests, cancellation, the end of the reader, exits and Stop in every order; the session contract | 38 thousand |
| `servehttp` (`MCServeHttpSession_Turns`) | Start, turns, events, exits and Stop in every order; the session contract | 216 thousand |
| `turns` (`MCTurnSession_Turns`) | turns that race, fail, are cancelled or stopped; the conversation they make | 115 thousand |
| `singleshot` (`MCSingleShotSession_Life`) | every failing Start, the boot prompt, blocked writers and Stop; what is held and let go | 78 thousand |
| `stalled_stop`, `lost_call` (`MCJsonRpcSession_StalledStop`, `_LostCall`), `exit_code` (`MCServeHttpSession_ExitCode`) | claims of comments or documents that the code does not keep (section 7) | until violated |

**Bounds.** Two `Start` calls on one id are enough for everything that goes
wrong between a session and its successor under that id; sessions of different
ids share only `stopped` and `wg`. One caller of a kind (two senders, two
Shutdowns where they meet) is enough because callers interact only through the
entry they hold. Every call is made once per caller, except that attaching and
sending repeat. Symmetry is used only for interchangeable callers and only in
runs without liveness properties. The broker's bounds (`RingCap` 2, chunks of up
to 3 bytes, 4 bytes in all, two subscribers, one with a channel of capacity 1 and one of
capacity 2) let a chunk be longer than the ring, fill it exactly, or evict part of it,
let one channel overflow while the other does not, and let a client come back to a ring
that has lost bytes it lacks, or after a part of a chunk. A supervised session is checked with the sets of options in
`MCSupervisedSession`: two restarts (so that a second late spawn and an
exhausted budget could happen), idle-kill alone and together with the watchdog, a
boot prompt, a first turn, both kinds of runtime, and one writer; two writers
exclude each other by the same lock that keeps a writer and Start apart. The
liveness run leaves out the watchdog, whose steps are those of idle-kill. A JSON-RPC
session is checked with one Call and three frames of a child whose output holds one:
enough for a second answer, for a request that the reader answers while the Call
holds the lock, and for an output that is full meanwhile. Calls meet only at
`ioLock`, for which the reader and Stop compete with one Call as well; the safety
invariants are proved for any number of Calls. A serve-http session takes two turns and
one end-of-step event: enough for a turn whose end is still on its way when the next is
sent. Two callers and Start race for two turns of a turn session that reports two
conversation ids, and two senders and Start for the lock of a single-shot session, which
is checked with every subset of the things Start may have to take hold of.

`CHECK_DEADLOCK FALSE` is used because these systems stop: once every caller has
returned and every session has ended nothing is left to do.

## 5. Fairness

Fairness is assumed only of steps the Go scheduler must run: the remaining steps
of a `Start` call that is under way, of a watch goroutine, of a `Stop` that has
unlocked, of a waiter whose channel is closed, of an attached client that has
chunks or an end of stream to read, and of a Shutdown whose `wg` is zero. A
session that was told to stop is assumed to exit, which is what `types.go` asks
of `Session.Stop`; a session left alone may run for ever. No caller is assumed to
make a call, and no context to end.

In `SupervisedSession` goroutines that can run do, timers fire, and a mutex is
granted in the end to whoever waits for it (`sync.Mutex` turns fair after a
millisecond): strong fairness where a step needs the lock, weak fairness
elsewhere. A write that blocks returns only once the child is gone, and a reader
ends only once its descriptor is closed. Nothing is assumed of the child except that
SIGKILL ends it.

`JsonRpcSession` has two specifications. `FairSpec` is the same scheduling with a
child that goes on reading its input; `SerialSpec` with one that does so only while
its own output is not full, as a program that reads and writes in one thread does.
The promises hold under the first; the second shows how Stop can be held up.

In `SingleShotSession` a child that gets rid of its output again and again reads its
input some time (strong fairness of `SendWritten`), but nothing makes it exit or heed
SIGTERM; the reader ends when the waiter has closed the pipe, and `Unread` names the one
case in which Stop may not get through: a reader that gave up before. In
`ServeHttpSession` a request is answered or fails some time (the client of the code has
no timeout, so this is an assumption about the server or the context), a server that
lives ends its turns, and a connection ends with the server or its context. In
`TurnSession` the runner kills the child of a cancelled turn; a provider may keep its
stream open for ever, so that the liveness property is about adapters.

## 6. Proofs

`ManagerProofs` proves, for every set of ids, Start calls and callers:

* `TypeCorrect`: the type invariant.
* `RegistryCorrect`, `VerdictCorrect`, `DeliveryCorrect`, `DrainCorrect`,
  `NoDoubleClose`: the safety invariants, when ids are not started twice at once
  (`IdReuse # "overlapping"`), and `RowCorrect` when ids are reused only after
  `WaitSession` (`IdReuse = "afterWait"`).
* `ResultsCorrect`: a delivered result stays as it is, under the same hypothesis.
* `RowsCorrect`: the row of an id goes through its states in order, when ids are reused
  only after `WaitSession`. Under the other disciplines it is false: the watch goroutine
  of the old session writes its terminal state over the states of the new one.
* `CountsCorrect`: the attach count is the number of clients, under every discipline.
* `WritersCorrect`: `SendInput` calls exclude each other, from the small
  invariant `LockHeld`.

The safety invariants rest on one inductive invariant, `IInv`. None of them is
inductive alone: that the verdict is right needs to know that the `killing`
flag cannot change once the watch goroutine has read it, hence that an entry
marked by `Stop` is still waited for (`RegistryIsLive`), hence that two sessions
never hold one id (`Exclusive`), hence how a Start call's progress, its session,
its watch goroutine and its result go together (`Phases`). `Written` says what is
in the sink, the broker and the result at each control point, `Drain` that a
draining Shutdown keeps new sessions out, `OwnRow` whose state the row of an id
shows. `IInv` was checked by TLC for both disciplines before it was proved.
`IInit` and `IStep` have one step per action and one leaf per part of the
invariant that the action disturbs. `ResultsCorrect` needs from it that no two watch
goroutines deliver the same result. `RowsCorrect` needs one thing more, an invariant of its
own: the row of an id is free to be started again unless a session stands on it (`OnRow`)
or Shutdown has come between, and how far that session is says what the row is
(`RowPhase`). `CountsCorrect` is inductive with the fact that an attached client has an
entry to count in (`Attaching`); each step changes the set of clients by one, and the clamp
at zero is reached by none.

`JsonRpcProofs` proves, for every set of Calls and every capacity of the child's
output, `TypeOK` (with it that `ioLock` is held by who writes), `AnsweredOnce`,
`PendingIsExact`, `StopLeavesNoneWaiting`, `WaitIsLast`, and `ImplementsContract`:
every behaviour is one of `SessionContract!Spec`. The inductive invariant says that
a Call is in one place at most (the map, the reader's hands, Stop's hands) and that
only then its channel is empty (`OnePlace`, `Registered`), which taker holds
something at which control point (`Holding`), what the waiter has done
(`Ending`), and that Stop closes the input before it empties the map (`Stopping`):
that order is why a Call that registers too late fails in its write and does not wait.

`AttachBrokerProofs` proves, for every size of ring and channels and any clients,
`TypeOK`, `RingIsTail`, `ReplayIsExact`, `ClosedOnce`, `ResumeIsExact` and `LossIsCounted`. The ring is the tail of the
stream because `appendRing` keeps a sequence that ends at the head (`EndsAt`), a lemma
with one case for a chunk that fits, one that evicts and one that fills the ring; that
`computeReplay` is exact for every `SinceSeq` then follows without an induction.
Order is a property of where the bytes are: what a client has observed in this attach, its
replay and the chunks in its channel follow each other (`Flow`), which every step moves
along and none disturbs, because an attach begins with nothing observed and a chunk that is
sent begins after everything before it. That the number of bytes received is enough to
resume with needs a second invariant, `Counts`: the i-th byte of an attach is at least `i`
beyond that number, and exactly that for a client that has missed nothing, which also has
everything up to the head of the stream in its hands, its replay or its channel. The step
that matters is `WritingFits`: the next position is in none but the chunk at the head of
the channel, hence is its first byte. Loss is counted by pairs of a client and a position
(`Lost`). A step other than `Write` adds no pair (`LossStays`), and a `Write` adds at most
the length of its chunk for each subscriber whose channel is full, which is what it adds to
the counter (`Blocks`, `WriteLoses`). Neither statement folds over a sequence or a set, so
neither needs an induction.

`SupervisedSessionProofs` proves, for every set of options, any number of restarts,
writers and lines, all six properties of the run `supervised` and the safety half of the
contract. The inductive invariant has four parts: which goroutines and descriptors exist
at which point of the loop (`Control`), who holds the lock (`Locking`), who may have
signalled the child (`Signals`) and what has been decided about its exit (`Decided`).
`KilledStaysDown` needs all of them: a restart is decided on only when the cause is empty
and nobody was told to end the session, and a supervisor signals only after it has left
its cause, which is cleared when the next attempt begins and no supervisor is left.

`SingleShotSessionProofs` proves `HeldWhileUsed`, `NothingLeft` and the safety half of the
contract: `Starting` says what each stage of Start holds, `Running` that the waiter lets go
in its order and only after the child is reaped, `Writing` that the field is taken away
under the lock, `Releasing` what is left at each point of the waiter and of a Start that
failed. `NothingLeft` is the safety half of `RefusedStartLeavesNothing`: a refused Start
leaves nothing that its waiter does not let go, and nothing at all without a waiter; that
the waiter gets to its end is the liveness half. `ServeHttpSessionProofs` proves `FlightIsOwned`, `OneTurnAtATime` and the
safety half of the contract: `Tracked` says that claims, turns and events add up to at
most one, `Finishing` that one finisher judges and only after the process is reaped.
`TurnSessionProofs` proves `StateIsExact` and `TurnsContinue` from `OneTurn`: the claim is
held from the CompareAndSwap to the last deferred call, so the turn that runs is the last
to have begun (`RunsLatest`) and its answer follows its own question (`Ordered`).

The assumptions name what the constants are: `ManagerAssumption`, that nil is neither a
session nor a sender, that the clients are finitely many, and that `IdReuse` is one of its
three values; `JsonRpcAssumption`, that the names of the Calls, of the reader and of nobody
differ and that the capacity is positive; those of the broker and the other sessions, that
sizes are natural numbers and names differ. An exit without a cause is `"none"` in
`SupervisedSession`, the empty string in the code.

Every invariant and action property that a passing run checks is proved. Only
model-checked, because fairness and ENABLED are outside the prover: `ExitIsDelivered`,
`ShutdownReturns`, `CloseEndsAttach`, `StartSettles`, `StopEndsTurns` and `OutputDrains`,
`CallsReturn`, `AttemptsEnd`, `CallsEnd`, `TurnsEnd`, `StartReturns`,
`RefusedStartLeavesNothing`, `StopEndsSession`, and the fair half of the three refinements
of `SessionContract` (`IsSession`), whose safety half is proved for four. Proved and not
checked by a run: `WritersCorrect`, `RowCorrect`, `NoDoubleClose`, `RingCorrect`,
`ChannelsCorrect`, `WaitCorrect` (of `JsonRpcProofs`), `OneTurnCorrect` (of
`TurnSessionProofs`), `LeavesNothing`, and the type invariants. TLC has agreed with each
of these statements and with every inductive invariant before it was proved.

## 7. Where the code and its documentation part

* `manager.go:568` says that Shutdown "blocks until all in-flight watch
  goroutines return or ctx is done. Idempotent."; a second call returns at once
  while watch goroutines are still running.
* `manager.go:69` says that a running session ends `done` or `failed`; a Start
  that finds `stopped` set at its second look has recorded `running` and records
  nothing more.
* `attach.go:31` says that a client may resume with the number of bytes it has
  observed and receives "exactly bytes N+1..head with no duplication". That holds of a
  client that has missed nothing. After an eviction or a drop the number is behind its
  position, and a resume repeats bytes: with a ring of 2, a client that has received
  byte 1 comes back when 3 and 4 are in the ring, receives both, and comes back with 3 to
  be sent byte 4 again. `ResumeIsExact` says what does hold: the number never runs ahead of
  the stream, so that a client has been repeated no more bytes than it lacks.
* `jsonrpc_stdio_session.go:482` says that pending Calls are failed "on EOF, and from
  the lifecycle teardown paths"; no waiter does it. A Call made after the output of a
  living child has ended waits for ever, even once the session is over (`lost_call`).
* `types.go:621` says that Stop causes Wait to return; the Stop of a single-shot
  session takes `ioLock` before it does anything else, and the lock can be held by a
  write to a child that does not read (`stalled_stop`: the reader blocked in its
  answer to the child, the child blocked in its output, Stop behind both).
* `types.go:621` says that Wait "returns its exit code"; a serve-http session has two
  goroutines that wait for its process, and when the second to receive decides first,
  Wait returns 0 for a server that has failed (`exit_code`).

The first three have no run of their own.

Seen while modelling and documented here without a run: cancellation does not quite
abort further restarts (`supervision.go:48`), because the backoff select may prefer the
timer and one more child is started (`OneLateSpawn` shows that it is never two); a
session id announced just before a crash can be lost (`supervision.go:22` says that a
restart preserves it), because the descriptor is closed without draining it
(`ResumesLatest` is what does hold); with one id started twice at once both watch
goroutines work on the second result, so that WaitSession returns for a session that
is still running (`manager.go:524`), and then close it twice; an id started again as soon
as `Get` no longer finds it has the terminal state of the old session written over
the states of the new one (`RowFollowsLifecycle` holds only under `"afterWait"`); a
child that crashes just as idle-kill's ticker fires is reported `idle_timeout` and
not restarted; the boot directory is removed after `Wait` has been released
(`pty_session.go:510-521`), while `types.go:622` says that the session's resources
are released once `Wait` returns (`held` in `SingleShotSession`: the sandbox, limit and
directory cleanups come after `WaiterDelivers`).

In the stdio and HTTP sessions: a streaming session writes its boot prompt before it
launches the reader, so a child that writes more than a pipe holds before it reads blocks
Start for ever (`streaming_stdio_session.go:304-319`; `StartReturns` holds of the pty); its
`cmd.Wait` closes stdin whatever holds `ioLock`; the pipes of a serve-http session stay
open when its sandbox or limits fail (`serve_http_session.go:227-240`); its LiveState says
processing after an idle event that came before SendInput returned (622), and nothing joins
the event-stream goroutine, which may use the log after `Wait`. In the turn sessions: the
end of a turn stores Idle over the Stopped of a Stop (`from_adapter.go:255`, while
`types.go:39` says that Stopped means that Stop has been called), and its exit code may
change after `Wait`; `Wait` returns while the child of a turn still runs
(`from_adapter.go:177-179` says that done is closed "when Stop has fully drained"); a
provider turn that fails leaves its question in the history and its stream undrained, and
Stop does not cancel it.

## 8. Not modelled

In `SupervisedSession`: the resources of a start and restart (`SingleShotSession` has those
of a single shot), the boot prompt a stdio session writes before there is a session. In all
process sessions: Resize and Health, which change nothing the properties tell apart, and
descendants of the child (which can keep a `Stderr` writer, and with it `cmd.Wait`, busy).
In `ServeHttpSession`: everything before the server is spawned, LiveState, output and event
fan-out. In `JsonRpcSession`: supervision, under which a pending Call is failed by the
reader of the old attempt. The writer chain between a session and its broker. The delay of
`computeRestartBackoff`: a timer may fire at any time.

Left out for good: the argument vectors of `wraparg_*.go`, the contents of planted files,
the system calls of `process_group_*.go`, event formatting and logging, static options and
capabilities, the compliance harness and the example.
