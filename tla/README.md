# A TLA+ model of hdbg

hdbg is the C++ library behind the HolyDbg debugger: it launches or attaches to
a Linux process, runs and single-steps its threads, sets breakpoints in it and
reports what happens to listeners. This directory holds TLA+ modules translated
from its source, TLC configurations that check them on small instances, and
theorems that TLAPS checks for every instance. Paths below are relative to
`src/src/hdbg/` unless they begin with `include/`, which is `src/include/hdbg/`.

`tlc -config X.cfg M` checks a run, `tlapm M.tla` a module of proofs.

## 1. Inventory

| component | state | operations | who calls it |
|---|---|---|---|
| Runner, `utils/runner.*`; the global `pt_runner` | `cmd_`, `fn_`, `eptr_`, a mutex, a condition variable, one worker thread | `run`/`do_run`, construction, destruction | every ptrace request of the library |
| LocalDebuggee event loop, `os/linux/dbg/local/debuggee.cc` | `threads_` (thread, `sig_deliv`, `stopped`), `attached_`, `evt_ign_` | `run`, `singlestep`, `pause`, `detach`, `kill`, `discard_event`, `wait_event`, `dispatch_event` and its handlers | the client, its listeners, breakpoint handlers, and itself (a step over a breakpoint nests a dispatch in a dispatch) |
| exec, same file | the forked child; the debuggee under construction | `exec`, `ptrace_child_stub` | the client |
| attach, same file | the debuggee under construction, whose `threads_` grow | `attach`, `ptrace_attach_task`, the enumeration of `/proc/<pid>/task` | the client |
| Fork events, same file | `new_child_`, `child_detach_` | `on_process_created`, `attach_child` | the kernel's events; a listener |
| BreakpointManager, `dbg/breakpoint_manager.*` | `bps_`, `next_id_`, a shared `thr_ctx_` | `set_bp`, `remove_bp`, `remove_all_bps`, `dispatch_bp_hit`, `restore_bps` | the client; `handle_bp_event` |
| SwBreakpoint, `dbg/bps/sw_breakpoint.cc` | `addr_`, `ov_data_` | `setup`, `cleanup`, `match`, `rewind` | the manager |
| HwBreakpoint, `dbg/bps/hw_breakpoint.cc`; `arch/intel/debug_control_reg.hpp` | `bp_regs_`: the debug register taken per thread, and its old value | `setup`, `cleanup`, `set_on_thread`, `remove_from_thread`; the bit fields of DR7 | the manager |
| ThreadContext, `dbg/thread_context.cc`; X64_RawContext | a `shared_ptr` to registers, shared by copies until one writes | construction, `set_reg`, `obtain_from`, `apply_to` | clients, breakpoints, the manager |
| EventEmitter, `include/utils/event_emitter.hpp` | a vector of weak listeners | `add_listener`, `remove_listener`, `emit_event` | the debuggee; listeners themselves |
| Architecture services and tracer, `arch/intel/x86_64/arch_services.cc` | the worklist and the blocks of a trace | `run_trace`; register tables | clients |
| ELF image, `binfmt/elf/from_image` | the header and the program headers | construction, `entry_point`, `sections` | `LocalDebugProcess::image` |
| LocalDebugProcess, LocalDebugThread | a pid and the descriptor of `/proc/<pid>/mem`; a tid | memory access, kill, get and set context | breakpoints, clients |
| Endianness; enumerations of `/proc`; `this_process`; the QML front end; distorm; gtest | | | |

**How they interact.** One client thread drives a debuggee. Every ptrace
request must come from the thread that traces, so it is wrapped in a closure
that `pt_runner`'s worker executes while the caller blocks (a mailbox under one
mutex). `wait_event` calls waitpid on the client's own thread. A status is
dispatched: SIGSTOP is sent to the other threads, the breakpoint manager is
asked whether it is a hit (the handler runs here and may call anything), the
listeners are told through the emitter, and the signal to deliver is remembered
until the thread is resumed. A hit nests a `singlestep`, hence another wait and
another dispatch, before `restore_bps`. A hardware breakpoint enumerates the
target's threads each time it is set or cleaned up. The tracer works on memory
that a client has read from a section the image lists.

**What is hard here.** The kernel's threads run, stop, fork and die while the
debugger acts on what it knew of them; requests and their effects are apart in
time (SIGSTOP); callbacks re-enter the loop, the manager and the emitter; any
system call may throw through half-done work; contexts are shared between
objects that belong to different threads; the mailbox is used by whoever calls
the library. `PROJECT.json` lists these hazards line by line with the
properties aimed at each.

**What makes each part correct.**
- Runner: a closure runs once, while its caller waits; the caller gets its own
  outcome; calls and the destructor return.
- Breakpoints: the target's code is intact but for the int3 of the active
  breakpoints; what was disabled for a step is enabled again.
- Event loop: the debugger's picture of each thread is the kernel's; requests go
  to stopped threads; the signal of a stop reaches the target unless the stop was
  discarded or taken for a hit, and none is made up; `run` ends with the process and
  not before.
- exec: it ends, with a stopped debuggee, or with no child left running.
- attach: it ends, and then every thread of the target is stopped and known.
- Fork events: each new child has a debuggee or is let go, and a child that was
  attached is not detached.
- ThreadContext: an object's registers change through that object only.
- Emitter: a listener sees each event once, until it is removed, whatever other
  listeners do.
- Hardware breakpoints: none is left armed, or armed while it is stepped over.
- Tracer: all reachable control flow is traced, and it returns.
- ELF image: addresses computed from it are the addresses in the process.

## 2. Modules

| module | models | note |
|---|---|---|
| `SyncCall` | what `runner.hpp` promises | abstract specification |
| `Runner` | `runner.cc` | implements `SyncCall` |
| `BreakpointManager` | `breakpoint_manager.cc`, `sw_breakpoint.cc`, `handle_bp_event` | |
| `Ptrace` | the kernel's side of ptrace, as `debuggee.cc` uses it | external |
| `LocalDebuggee` | the event loop of `debuggee.cc` | extends `Ptrace` |
| `Launch` | `exec` and `ptrace_child_stub` | two processes |
| `Attach` | `attach`, `ptrace_attach_task` | with the kernel's group stops |
| `Forks` | `on_process_created`, `attach_child` | |
| `RegisterFile` | what `thread_context.hpp` promises | abstract specification |
| `ThreadContext` | `thread_context.cc`, `raw_context.cc` | implements `RegisterFile` |
| `Selection` | `std::copy_if` and `std::remove_if` | used by the next two, and by `Tracer` |
| `Notification` | what an emitter promises | abstract specification |
| `EventEmitter` | `event_emitter.hpp` | implements `Notification` |
| `DebugControl` | `debug_control_reg.hpp`, `set_hw_bpx_enabled` | operators on words |
| `HwBreakpoints` | `hw_breakpoint.cc` under the manager's calls | extends `DebugControl` |
| `ElfImage` | `elf_image.hpp`, `elf_image.cc` | |
| `Tracer` | `run_trace` | |
| `EntryTrace` | the client of `tests/tracer_unittest.cc` | composes `ElfImage` and `Tracer` |
| `MC*` | values for TLC, history variables | |
| `UtilsProofs` | theorems on `Runner` and `EventEmitter` | TLAPS |
| `SelectionProofs` | lemmas on `Selection`, on recursion and on induction | TLAPS |
| `OriginProofs` | theorems on `Launch`, `Attach` and `Forks` | TLAPS |
| other `*Proofs` | theorems on the module named, with its `MC*` | TLAPS |

In a module, a definition that differs from the code on purpose is marked as
such by its comment ("... forgotten", "... too long") and stands before the
faithful one. Nothing uses it: put in the place of the faithful definition it
makes one of the module's properties fail, which shows that the property can.

### Runner
`pc[t]` is the program point of each thread; the test of the predicate and the
blocking of `cv_.wait` are two steps with the mutex held across them, wakeups
may be spurious, `notify_one` wakes an arbitrary waiter. `~Impl` is three steps,
two of which do not take the mutex, as in the code. A call's closure is its
caller's name: it captures that caller's stack, so it is alive exactly while the
caller waits. `Exclusive` says whether callers take turns.

### BreakpointManager
Memory is the one byte per address an int3 replaces. `frames` is the stack of
`handle_bp_event` calls, each in its handler or in its step; anything a client
may do is enabled meanwhile. Exceptions (unmapped memory, a handler that
throws) unwind to an arbitrary call, where the client catches them. The two
places where the code uses freed memory, a handler that removes its own
breakpoint and the loop of `remove_all_bps`, set `crashed` or leave open which
entries go. `restore_bps` goes through the inactive breakpoints of all frames in
the order of ids and stops at the first that fails. `Shared` are the addresses
where the client sets more than one breakpoint.

### Ptrace and LocalDebuggee
A thread is running, stopped (for a signal, a clone, its exit, a group stop, the
execve, its start), a zombie or gone; a stop has a status that waitpid returns
once. Killing the process ends stops behind the debugger's back, takes each
thread to its exit stop and then to a zombie, at any moment. The leader's status
comes only after the other threads are reaped. A session begins as `exec` or
`attach` leaves it: any set of threads, each stopped, some with a SIGSTOP still
pending.

`ctl` is the stack of API calls in progress with the point each has reached:
`cont` (resuming threads one by one), `wait`, `stop` (SIGSTOP to the others),
`handle`, and `restore` after a nested step. `pause` sends SIGSTOP and waits for
whatever comes. The system calls of a handler that may fail are actions of their
own (`HandleFails`); an error is recorded in `err` and abandons all calls, as an
exception does; `freed` says that a handler has gone on with the entry of a
thread that was erased during its nested step. The client is a listener that
discards the events of certain stops (`Discards`), and breakpoints may be hit at
the stops of `HitStops`; the handler's own calls are left out here, they are in
`BreakpointManager`. A thread's signal is none, a trap, SIGSTOP, or SIGSEGV for
all others that end the process. `MCLocalDebuggee` adds the history variable
`late`, the threads whose signal `on_sig_trap` has written after the step over a
TRAP_BRKPT hit, and states `SignalsFaithful` with it: a thread is resumed with
exactly the signal of its stop if that is in `DeliveredStops`, and with none
otherwise. TRAP_BRKPT is not in `DeliveredStops`, because `on_sig_trap` returns
without a signal when there was no hit.

`SignalAll` has no action for a tgkill that fails. tgkill fails only for a thread
that has been reaped, and no such thread is in the map when SIGSTOPs are sent: the
end of a thread in the map ends the session, and a thread that is reaped as soon as
it is new is entered as stopped, and passed over.

### Launch
The child's program points and `exec`'s own, interleaved, with SIGTERM, SIGSTOP
and SIGKILL from outside at any moment. Whatever goes wrong in the stub leads to
`Quit`, which is what `std::exit` does there (section 4). An execve or chdir may
always fail. So may the construction of the debuggee at the end (`Open`), which
lists the child's mappings and opens `/proc/<pid>/mem`, for a live child too
(`point = "refused"`). `ReturnsStarted`, that the program of the debuggee `exec` returns
has started, is stated but is not a property of this code.

### Attach
The kernel's half: a SIGSTOP sent to a process is taken by one thread. If that
thread is not traced it begins a group stop, which reaches the others one by
one; if it is traced, it stops for its tracer and the signal is spent. Threads
that are not stopped clone and exit. `attach`'s half is the sequence of its
system calls with their failures; `old` records who was there when the threads
were listed.

### Forks
A child is born attached, reaches its first stop on its own, and may die at any
moment. `frames` are the `on_process_created` calls in progress: a listener may
resume the parent, and another fork event is then dispatched inside the first
(`MaxDepth`). `attach_child` may be called at any time, within a notification,
within that of another child, or later. The two members that `on_process_created`
communicates by begin uninitialized, as in the code. Two history variables say what
the properties need: `own`, the children attached while they were told of, and
`inner[c]`, what befell another child last inside the notification of `c`.

### EventEmitter
The walk of `std::remove_if` in `emit_event` is a record of its three iterators;
each entry is two steps, the call of the listener and the move of its entry to
the end of those kept. Listeners expire at any moment but while they are called.
What a listener does in turn is `Reenters`; besides, it may throw
(`ListenerThrows`), which takes the walk away and leaves the vector as it is, with
the entries that were moved from: `remove_if` has not returned, so nothing is
erased. The caller of that emission, which may be a listener of the next outer one,
catches the exception or throws in its turn. A walk whose iterators are invalid sets
`undefined`.

`MCEventEmitter` *assumes* two things, as part of `MCSpec`: listeners at most emit
and throw, and an emission inside another meets no entry that has expired
(`NestedSafely`). Entries it has passed, and those of the outermost emission, may
expire at any moment. Nothing is claimed where the assumptions fail: the inner
emission erases entries from under the outer walk, which then goes past the end; and
if an exception leaves an inner walk that has moved entries, the outer walk puts an
entry that was moved from in the place of a listener's, which is lost.
The refinement mapping shows the living entries of the vector,
and of each walk the listener being called and the living ones ahead of it.

### HwBreakpoints and DebugControl
A word is the set of its one bits; shifts and complements are done in 32 bits
and widened with the sign, as C++ does it for these operands. `setup` and
`cleanup` visit the threads of one enumeration, a step per thread; meanwhile
threads clone others and stop. `get_context` throws for a thread that is not
stopped, and `get_thread` for one that is not known: not yet, or not any more. A
thread that exits is erased in its exit stop and never resumed, and so stays listed
in `/proc/<pid>/task`: from then on every setup and every cleanup throws (section 4). `IsLocalEnabled` tests
with the mask of the setter, which leaves the bit in question out, so that every
register seems to be free, and every breakpoint takes the first.

### ElfImage, Tracer, EntryTrace
The image is a header and a sequence of program headers with the fields that are
used; flags are sets of letters, and the code's test of `p_flags` for PT_LOAD,
a value of `p_type`, is the test for "X". The walks are a step per entry. A class
that is neither 32 nor 64 bits gives no image (`NoImage`), and reading the header or
the program headers may throw (`ReadFails`), in the construction and in `sections`.
Instructions have size one and one of four kinds of control flow; the blocks
known to the sink, the worklist and the address a path has reached are the
tracer's state. `EntryTrace` is what the test does: parse the image of a process
loaded at any bias, list the sections, find the one with the entry point, read
it, and trace it from there. The code found in it is any program of that size.

### ThreadContext
Objects share blocks of registers; `use_count` is the number of objects that
hold the block. `set_reg` and `get_context` test it, clone and assign in three
steps, other objects acting in between (no object is used by two threads at a
time). Transfers go group by group, one ptrace request each; they run on
`pt_runner`'s thread and so one at a time. A request may fail between groups.
The refinement mapping of `RegisterFile` is `val[h]`, the contents of the
block `h` holds.

## 3. Runs

| run | bounds | what it shows |
|---|---|---|
| `runner_exclusive` | two callers by turns | own outcomes, no lost call, refinement of `SyncCall` with its liveness |
| `runner_shared` | three overlapping callers | closures of departed callers never run, the worker's `assert(false)` is unreachable |
| `runner_destructor` | one caller | *violation*: the join may never end |
| `breakpoints` | three addresses, one with an int3 of its own and one shared by breakpoints; three ids, two nested hits | code is intact under the active breakpoints; disabled ones come back |
| `debuggee` | a leader and a thread, calls nested up to 3, SIGSEGV from outside; SIGSTOPs and single steps discarded; hits on int3, SIGSTOP and TRAP_BRKPT | stopped flags, requests, stop requests, signals, the end of a session, and that `run` returns |
| `launch` | three signals from outside, once each | what `exec` returns or leaves behind, and that it ends |
| `thread_context` | three objects, four blocks, two groups of registers, two values | value semantics, whole transfers |
| `attach` | three threads that may clone two more, all of which may exit | what `attach` returns is stopped, and complete but for newcomers; it ends |
| `forks` | three children, notifications nested up to 3, `attach_child` at any time, a listener that throws | which attached child may be detached nevertheless, and which child may be forgotten |
| `emitter` | three listeners that expire, throw and emit, four entries, emissions nested up to 3; inner emissions find everybody alive | listeners stay; what an exception leaves goes with the next emission; refinement of `Notification` |
| `hw_breakpoints` | two threads, one created later, two breakpoints, one register | off while stepping, whatever has thrown; until a call throws, nothing left behind; one alone is armed where recorded |
| `entry_trace` | layouts of up to three segments at two biases; all programs of four instructions | addresses and sections of the image; the trace is complete, hands over, and ends |

**Why the bounds are enough.** Three overlapping callers are the least where one
caller's notification can wake a third. Two breakpoints at two addresses and a
third id make a removal and re-set during a nested hit; with depth 2 an inner
`restore_bps` meets an outer frame's breakpoint; the third address lets two
overlap meanwhile. A leader and one thread give every case of clone, exit before
and after the leader, and kill during a stop; depth 3 is run, a step nested in
it, and one nested in that. In `attach`, the SIGSTOP can be taken by the leader,
by a listed thread before or after it is attached, or by a newcomer, while
another newcomer appears. Three children, each told of inside the
notification of the one before, are the least where what is done about the innermost
is undone by the middle one before the outermost goes on. Four entries for three listeners make one that is there
twice, with others around it to be moved over. Two hardware breakpoints suffice to
fight for a register; a second thread is enough for each of the visits to fail half way, and for a clone to be
unknown. (With three threads the properties hold too, in 6 million states.)
Three segments are one before the text, the text, and one after it; four
instructions are the least with a jump back into a block, one over it and one
out. Three objects are the least where two others still share while one writes;
four blocks allow each an own block and a clone under way. All counters that
could grow are bounded by a constant named as a bound (`MaxId`, `MaxDepth`,
`MaxSize`, `MaxNest`) or by a set (`Outside`, each signal once; `Threads`;
`Kids`).

The type invariants of most modules with a theorem are parts of the proved
invariants (section 5) and not listed in the runs again.

**Deadlock** is checked for `thread_context`, `forks` and `emitter`. In the other
runs the system may stop by itself: nobody has to call `run`, a session ends, an
`exec`, an `attach` or a trace returns, a debugger crashes.

**Fairness.** `Runner`: the worker and each caller are threads with strong
fairness, since they compete for a mutex that is free again and again; nobody
has to call `run` or wake up spuriously. `BreakpointManager`: handlers return
(weak), and a client does not start nested hits for ever while a step is to be
completed (strong, on `RestoreBps`); it may otherwise do anything.
`LocalDebuggee`: the debugger's thread runs (weak, on `Loop`) and the kernel
delivers signals (weak, on `Delivery`); the program need not do anything, and no
thread in particular is served, because the code polls in map order. `Launch`:
both processes run (weak). `Attach`: `attach` runs and the kernel delivers
signals (weak); the program need not exit or go on. `EntryTrace`: the trace, once
begun, runs (weak).

**Conditions of the liveness properties.** `RunEnds` is about a leader that is in
its exit stop when the other threads are gone, calls that have not failed, and
not about `pause`; `AttachEnds` excepts a leader that exits meanwhile;
`TraceEnds` excepts sections that end within an instruction. In each excepted
case the code does hang (section 4).

## 4. Findings

*A lost wakeup in `~Runner::Impl`* (`utils/runner.cc:63`, run
`runner_destructor`). `cmd_ = Ret` and `notify_all` are done without the mutex;
if both fall between the worker's test of its predicate and its blocking, the
worker sleeps for ever and `worker_.join()` never returns.

The models make more visible that no document of the repository promises
otherwise. The conditions of the properties name these cases, and the notes of
the hazards say where they are.

- `exec`: the child reports a failed chdir or execve by `std::exit`, for which
  `exec` tests WIFEXITED. It was forked by the worker thread of the global
  `pt_runner`, and `std::exit` runs that object's destructor, which makes the
  child's only thread join itself: `std::thread::join` throws, in a destructor,
  and the child aborts. Traced, it stops for SIGABRT, which the second wait takes
  for the trap of execve: `exec` returns a debuggee that never executed the
  program (`ReturnsStarted` in `Launch` fails). If the debuggee cannot be made
  (`debuggee.cc:496`, `debug_process.cc:67-77`), the child is left behind, traced and
  stopped (`LeftBehind` says so).
- `run`: a second thread that exits is erased in its exit stop and never resumed.
  The trap of the internal step over a breakpoint is delivered to a target whose
  client does not discard it. The test of `handle_bp_event` is inverted for
  TRAP_BRKPT: one that is no hit is neither told to listeners nor delivered
  (`debuggee.cc:291-292`), and after a hit there the thread's signal is overwritten once the
  step over the breakpoint is done. A SIGSTOP event that is not
  discarded ends `run` with EINVAL.
- `pause` of a target whose threads are all stopped waits for ever.
- `attach`: if the leader exits between PTRACE_ATTACH and its stop, waitpid
  blocks for as long as other threads live. Threads created after the enumeration
  are never attached if the SIGSTOP was spent on a traced thread.
- `attach_child` outside the listener is let through for a child that was
  detached, which then runs free with a debuggee made for it. Fork events dispatched
  inside one another mix up their children: the outer one is detached although it
  was attached, if nobody attaches to the inner one, and is forgotten if somebody
  does. `OwnTraced` and `NoneForgotten` except exactly these.
- `EventEmitter`: adding or removing a listener during an emission, or an
  emission inside another that erases an entry, leaves invalid iterators. A listener
  that throws leaves entries that were moved from until the next emission ends; if it
  was in an inner emission that had moved some, a listener's entry may be lost.
- Hardware breakpoints: a second one takes the register of the first, on every
  thread. A thread created after `set_bp` has none, since the listener meant for
  that is never registered. Once a thread other than the first has exited, no
  hardware breakpoint can be set, hit or removed any more: the thread stays in
  `/proc/<pid>/task`, `get_thread` does not know it, and setup and cleanup throw,
  perhaps half way, with the breakpoint still armed. The value of `BreakOnReadOrWrite` is wider than its
  field.
- `run_trace` never ends if the code ends within an instruction, after a prefix;
  and it traces on behind a return that it knows already.
- ELF: PT_LOAD, a value of `p_type`, is tested as a bit of `p_flags`. With a
  read-only first segment (`-z separate-code`) the preferred base is that of the
  text, and data segments are never listed as sections.
- Overlapping software breakpoints removed in the wrong order leave an int3.

## 5. Proofs

Everything here holds for all values of the constants that satisfy the named
assumptions (`ThreadsAssumption`, `MemoryAssumption`, `BoundAssumption`,
`PtraceAssumption`, `DebuggeeAssumption`, `LaunchAssumption`, `ContextAssumption`,
`EmitterAssumption`, `AttachAssumption`, `ForksAssumption`, `HwAssumption`,
`TracerAssumption`, `ImagesAssumption`), and TLC evaluates these. The inductive
invariants were checked by TLC on the instances of the runs before they were
proved.

- **`UtilsProofs`, the runner.** `ClosuresStayAlive` and `SwitchNeverAsserts`, for any
  callers, overlapping or not. The inductive invariant is `SlotInv`: who owns
  the mutex follows from the program points, and while `cmd_` is ExecFn the
  caller that wrote `fn_` last is in its wait. This is needed because the worker
  may lose the mutex to others between waking and executing.
  `CallsReturnOwnOutcome` and `RunnerImplementsSyncCall` (the safety part) assume
  `Exclusive` and rest on `MailboxInvariant`: the mailbox is in step with the one
  call.
- **`UtilsProofs`, the emitter.** `AddedListenersStay`, `TracesAreErased`,
  `EmitterTypes` and `EmitterImplementsNotification`, for any listeners, entries and
  depth of nested emissions, assuming that listeners at most emit
  and throw (`Reenters \subseteq {"emit"}`: adding or removing one during an emission
  is undefined in the code) and `NestedSafely` (which `MCSpec` imposes, section 2). The inductive invariant is `EmitterInv`.
  Per walk (`InStep`): between `result` and `first` nobody lives; `last` is still the
  end; a walk inside another has moved nothing, since `result` and `first` of it are
  the same. So only the outermost walk moves and erases, and what
  it keeps was not moved from (`KeptWhole`), whatever earlier walks have left. The refinement rests on four facts about `Those`:
  a move over entries that are not selected does not show (`MoveInvisible`), nor does
  the erase of such entries (`EraseInvisible`), the next to be told is the first that
  lives (`ThoseFirst`), and who expires disappears from all that is still to be told
  (`ThoseOfThose`). `PassiveListenersAreTold` does without `NestedSafely`, for
  listeners that leave the emitter alone: there is then one emission at a time.
- **`SelectionProofs`.** `Those` is defined by recursion. `Induct`, `Recursion` and
  `RecursiveFunction` say what is needed of that, for sets and functions instead of
  operators; from there it is lemmas on concatenation, parts and filters.
- **`BreakpointManagerProofs`.** `TargetCodeIsShadowed`: `Shadow`, with the typing
  of ids and with the addresses outside of `Shared` being distinct, is inductive;
  the step that matters is the memory after a set of cleanups (lemma
  `CleanedOwn`). Breakpoints that overlap elsewhere do not disturb it.
  `InactiveOnlyWhileStepping`: an exception that abandons a step sets `skipped`.
- **`ThreadContextProofs`.** `SharingInvisible`: every step of `ThreadContext` is
  a step of `RegisterFile` or leaves its variables alone. The inductive invariant
  is typing, with: objects hold blocks that exist; a clone not yet assigned is
  nobody's and equals the original; who is about to write is alone in its block
  (`WriterAlone`: nobody can copy an object that is in the middle of an
  operation); at most one transfer is in progress. `TransfersWhole` follows from
  the last two.
- **`LocalDebuggeeProofs`.** `FlagsAccurate` and `NoStrayRequests`, for any number
  of threads, any listener, any depth of nested calls, and a target that signals,
  clones and exits as it likes. The inductive invariant is `IInv`. `StoppedAccurate`
  alone does not survive a step for three reasons, each with its conjunct: the
  thread of a clone event enters the map flagged, so a thread outside the map must
  not be running (`StrangersStill`), which in turn needs the thread that
  `on_thread_exited` erases to be in its stop still (`HandlingStopped`: whose stop is
  handled is in the map and flagged); and no status may be pending for a thread that
  runs (`StatusOfStop`). `CallsNested` says what a handler returns to.
  The theorems are about sessions where nobody kills the process and no call has
  failed: SIGKILL does make `run` send requests to threads that are not stopped.
- **`LocalDebuggeeProofs`, second part**, goes on to what an event's handling rests on.
  `EveryoneStops` and `OnlyTheEndEnds` (`StopRequested` and `EndIsEnd`) follow from
  `EndInv`, which needs `IInv` at every step. A thread that the process clones while
  the others are being stopped is covered by its own first SIGSTOP (`BornStopped`),
  and a process that is ending by SIGKILL (`Doomed`). `EndIsEnd` needs more: the stop
  that is handled still lasts (`StopLasts`), nobody but the leader becomes a zombie in
  the map (`NoZombies`), and a clone event tells of a thread that is not in the map
  (`ClonesAreNew`), so that erasing and adding entries cannot lose the leader's.
  `SignalsDelivered` (`SignalsFaithful`) is an action property, from `SignalInv` on
  top of both: the signal in an entry is that of the stop its thread is in
  (`SignalsNoted`), nested calls are about one thread (`OneThread`), and what
  `dispatch_event` knows of the stop is still so when the listeners have returned
  (`EventsTold`). The threads in `late` are excepted.
- **`OriginProofs`**, where debuggees come from. `Launch`, `Attach` and `Forks` have
  distinct names so that one module can extend all three.
  - `DebuggeeStartsStopped` and `FailureLeavesStopped` from `LaunchInv`, which says
    when a traced child may be dead, running or untraced at each point of `exec`.
  - `AttachedStopped`, `NoneEscapes` and `StoppedTargetIsComplete`, for any number of
    threads and any that clone and exit meanwhile. `Points` and `Listed` follow each
    listed thread from the list over `cur` into the map. For the group stop,
    `NoneCreated`: from the moment a thread that is not traced takes the SIGSTOP,
    whoever still runs has its part of the group stop pending, so that the listing
    misses nobody.
  - `AttachedIsKept` and `NoChildForgotten`, for any number of children, any depth of
    nested notifications, and calls of `attach_child` at any time. `ForksInv` ties the
    two members to every child being told of (`DetachFor`): `child_detach_` is right
    for it unless something was done about another child since.
- **`HwBreakpointsProofs`.** `OffWhileStepping` and `NothingLeftOver`, for any number
  of threads and breakpoints. From the fields of DR7 (lemmas `FirstEnabled`,
  `FirstFree`): every breakpoint uses the first register (`FirstRegister`). Then
  `Known`: what is armed is recorded in `bp_regs_`, or will be visited by the setup
  in progress; a thread that was cloned after the enumeration has clear registers
  (`Unborn`), so it may be missed. `InCall` says what a cleanup has dealt with.
  `OffWhileStepping` holds after failed calls as well, since `emplace` and the old
  entry name the same register. `NothingLeftOver` is about sessions in which no call
  has thrown yet, which the first call after the exit of a thread does. `TheOnlyOneIsArmed` (`OnlyOneArmed`): as
  long as one breakpoint only has ever been set, whatever `bp_regs_` records is
  armed, in the middle of a call and after one that threw; `OneInv` adds that the
  manager holds, works on and has recorded only what was set (`EverSet`).
- **`EntryTraceProofs`.** The image and the tracer, for every file that is
  `WellFormed`, every bias, and every program of every size. `ElfInv` describes
  the walks after the first n program headers: `prf_base` is the least address met
  (`BaseOf`) and `sections` holds what was met (`SectionsOf`); `ProgramStarts`,
  `EntryIsListed` and `SectionsAreThere` are this after the last one, in classic
  files. `TraceInv` is that no address is forgotten (`Kept`): where the flow goes
  from the end of a block is being traced, waits in one of the two lists, or is
  `Covered`, which means that the first instruction from there that directs the flow
  is in a block. A block found at an address ends where a path from that address
  would (lemma `InBlock`), and therefore need not be traced again. When the lists
  are empty, what is covered is closed under the flow, so it includes all that can
  be reached: `TraceIsComplete` and `TraceHandsOver`. The lists are filtered
  (`SelectionProofs`) and `Reach` is defined by recursion.

Only model-checked is what needs ENABLED: all liveness (`CallReturns`,
`EventuallyRearmed`, `RunEnds`, `ExecEnds`, `AttachEnds`, `TraceEnds`), and
`ImplementsSyncCall` as far as it is about fairness. Every invariant and every
action property of a run is stated by a theorem; `DestructorJoins`, which the code
violates, is not.

## 6. Not modelled

- **LocalDebugProcess and LocalDebugThread** are wrappers of system calls; they are
  part of the actions that call them.
- **Enumerations of `/proc`, `this_process`, library initialisation**: input
  without state. The enumeration of threads is `Enumerate` in `Attach` and `Listed`
  in `HwBreakpoints`.
- **Endianness**: pure functions of a line each, which the tests call for every
  size and order.
- **Architecture services** other than the tracer: tables of registers and flags.
  In the tracer, links between blocks.
- **HwBreakpoint**: the listener for new threads, which nothing registers, and the
  setters of DR7 that nothing calls. Handlers that change breakpoints are modelled
  for software breakpoints only.
- **EventEmitter**: copies and moves of an emitter.
- **attach**: SIGKILL meanwhile, and a list of threads that cannot be opened.
- **The strings of `exec`**: argv and env are pointers into strings that are moved
  afterwards; this is about memory layout.
- **The memory model of C++**: atomicity of `use_count` is taken as given (its load
  is relaxed; on x86-64 the order needed is there).
- **The QML window**, a layout without logic, and **distorm and gtest**, which are
  vendored and make up nearly all lines of the repository: the library itself has
  about six thousand, tests included.

## 7. What is left

1. Composition: `LocalDebuggee` with `BreakpointManager` in place of `HitStops`,
   and with `Forks` for fork events inside a session.
2. Handlers that set and remove hardware breakpoints.
