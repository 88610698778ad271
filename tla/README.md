# SanitizerSymbolizerTool in TLA+

SanitizerSymbolizerTool is a small C++ library with a C interface.  A host program gives it
the path of `llvm-symbolizer` or `addr2line`; the library runs that program as a child
behind two pipes, sends it one command per request, reads the answer and parses it.  This
directory models that machinery, checks it with TLC and proves its main invariants with
TLAPS.  File names below are relative to `src/`.

## 1. The system

| Component | State | Operations | Modelled by |
|---|---|---|---|
| C interface, `lib/interface.cpp` | the tool, two result buffers, the code of the tool; all global | init, fini, send/read/free for addresses and for data | `Interface`, `Session` |
| `SymbolizerProcess`, `lib/symbolizer.{h,cpp}` | pid, two descriptors, reply buffer, restart counter, "gave up" flag | `SendCommand` with its restart loop, read, write, `Restart`, `Kill`, `StartSymbolizerSubprocess` | `SymbolizerProcess`, `CommandChannel`, `ProcessLife` |
| `StartSubprocess`, `CreateTwoHighNumberedPipes`, same file | up to five pipes, the descriptor tables of parent and child | make pipes, close the extra ones, fork, rewire the child | `StartSubprocess`, `AtomicStart` |
| `LLVMSymbolizer`, `lib/use_llvm_symbolizer.cpp` | one `SymbolizerProcess`, a command buffer | format and send a command, end-of-output test, stop | `SymbolizerProcess` with `Tool = "llvm-symbolizer"`, `Session` |
| `Addr2LineProcess`, `lib/use_addr2line.cpp` | as `SymbolizerProcess` | end-of-output test, trimming of the end mark and the CHECK on it | `SymbolizerProcess` with `Tool = "addr2line"` |
| `Addr2LinePool`, same file | vector of processes, one per module | look up, flush, add, stop | `Addr2LinePool`, `ProcessSet`, `Session` |
| Parsers and token helpers, `lib/use_llvm_symbolizer.cpp`, `lib/symbolizer.cpp` | none | reply to frames, reply to data | `ParseOutput` |
| File helpers, CHECK, Die, `lib/common.{h,cpp}` | none | read, write and close a descriptor, exit | part of the steps that call them |
| `demo/simple_demo.c` | where it is in its loops | all of the interface, for three sections and both tools | `SimpleDemo` |
| Platform macros, `demo/big-symbol.cpp`, CMake files | none | | not modelled |

**How they interact.**  All calls are synchronous and in the caller's thread: interface ->
tool -> (pool ->) process -> system calls -> parser.  What makes the code hard is everything
around that thread: children that exit at any moment and become waitable only later, `fork`
and `pipe` that fail, signals that interrupt a read, descriptor numbers the kernel hands to
the host as soon as the library has closed them, other threads of the host, and callers who
use the eight C functions in any order.

**What makes each part correct.**

- Process: answers belong to the command that was sent; the restart budget bounds the forks;
  the object and the descriptor table agree however starts, kills and deaths interleave; the
  host is killed only when the child is gone; no descriptor of the host is closed, written or
  read, but for those opened in two windows nothing protects (section 2); calls return.
- Start: five pipes are enough; nothing of a pipe is lost or left open; the child gets the
  right ends.
- Pool: bounded in its processes and in the children it feeds, one process per module, answers
  from the right binary, no child forgotten; to its caller a set that changes in one step.
- Interface: globals agree, memory is freed once, what the caller holds stays allocated.
- Interface with the tool behind it: a result belongs to the latest request, also when
  requests fail; commands are sent whole; no process is lost; the demo, which ignores
  result codes, is a caller as the header asks for.
- Parser: what is parsed is what was printed; a cut reply spoils only its last frame.

`PROJECT.json` lists the hazards line by line.

## 2. Modules

| Module | What it is |
|---|---|
| `SymbolizerProcess` | one process object with all its children, pipes, faults and the host's descriptors |
| `CommandChannel` | the abstract promise of `SendCommand` |
| `ProcessLife` | the abstract life of a process as its owner counts on it |
| `SymbolizerProcessRefinement` | the refinement mappings to both |
| `SymbolizerProcessInvariant` | the inductive invariant, in named parts |
| `SymbolizerProcessProofs`, `SymbolizerProcessRefinementProofs` | theorems about the process |
| `StartSubprocess`, `StartSubprocessProofs` | making and handing over pipes, theorems |
| `AtomicStart`, `StartSubprocessRefinement`, `StartSubprocessRefinementProofs` | the start as one step, the mapping to it, the theorem |
| `Addr2LinePool`, `Addr2LinePoolProofs` | the pool, theorems |
| `ProcessSet`, `Addr2LinePoolRefinement` | the pool as its caller sees it, the mapping to it |
| `Interface` | the functions of the C interface |
| `Session` | interface, tool, processes and parser together |
| `SimpleDemo`, `MCSession` | the host: any program or `simple_demo.c`; binaries for TLC |
| `SessionProofs`, `SimpleDemoProofs` | theorems about both |
| `ParseOutput`, `ParseOutputProofs`, `MCParseOutput` | the parsers, theorems; names and numbers for TLC |

How they build on each other: `SymbolizerProcess` takes a start for one step, which
`StartSubprocess` is shown to implement; it implements `CommandChannel`, on which `Session`
relies for what a process may do with a command, and `ProcessLife`, which is the view
`Addr2LinePool` has of each of its processes.  The pool in turn implements `ProcessSet`, and
a request of `Session` does to its processes what `ProcessSet` allows.

An operator `X_Slip...` stands before the definition `X` of which it is a wrong version: a
slip the run of that module must detect.  No specification uses it.

### SymbolizerProcess

`pc` names the system call the library is about to make, so the environment may act
between any two of them:

| `pc` | code | actions |
|---|---|---|
| `idle` | between calls | `SendCommand`, `StopTheWorld` |
| `send` | loop of `SendCommand`, `WriteToSymbolizer` | `GiveUp`, `SendNotStarted`, `Write`, `WriteBrokenPipe`, `WriteBadDescriptor`, `WriteForeign`, `WriteInterrupted` |
| `read` | `ReadFromSymbolizer` and its override | `ReadSome`, `ReadEndOfFile`, `ReadInterrupted`, `ReadBadDescriptor`, `ReadForeign`, each ending in `FinishRead` when the loop ends |
| `restart`, `kill`, `sigkill`, `close` | `Restart`: `IsRunning`, `Kill`, `KillChildProcess`, two `CloseFile` | `RestartIsRunning`, `Kill`, `Sigkill`, `CloseFiles` |
| `start`, `startup` | `StartSymbolizerSubprocess` before and after its 10 ms wait | `StartFails`, `StartForks`, `StartupCheck` |
| `stopped`, `dead` | tool deleted; host gone | `Done` |
| any but `dead` | other threads of the host, the kernel | `HostOpens`, `HostCloses`, `ChildDies`, ... |

A command is its number; its output is a sequence of pieces, a piece being what arrives in
one go, and the last one carries the end mark.  addr2line answers an unknown address with the
end mark itself, which is why one mark does not end its output.  A child goes `running` ->
`exiting` (descriptors closed, not waitable) -> `zombie` -> `reaped`: the window between the
first two is where `write` fails and `waitpid` still says "not exited".  `waitpid(WNOHANG)`
is `StillRunning` and `WaitReaps`.  Two oddities of the code are modelled as they are: the
inner `ret` of `ReadFromSymbolizer` shadows the one returned (`symbolizer.cpp:105`), so every
read is reported as a success, and `KillChildProcess` tests the result of `waitpid` the wrong
way round (`symbolizer.cpp:272`).

The object keeps the numbers of descriptors it has closed.  Between two calls this does no
harm.  Inside a call there are two windows in which another thread of the host can be given
such a number while the library will still use it: `Kill` closes the pair (397-400) and `Restart`
closes the same two numbers again (87-90); and a start that fails (347-359) leaves them to the
next round, which writes on one (126-137) and may go on to read from the other.  The model has
both, and what the library then does to the host's descriptor (`CloseBoth`, `WriteForeign`,
`ReadForeign`, `ReadBadDescriptor`).  The history variable `reused` is set when a number is
taken in the middle of a call and reset by the next fork.  What is true only outside these
calls says so (`~reused`).  In the two abstract specifications such a call shows as the phase "void", of which
they promise only that no child is fed meanwhile and that what has failed stays failed.  The rest
holds in these calls too: no pipe leaks (`NoLeakedDescriptor`), `Kill` closes only its own, the
budget is kept, children leave after the stop, and `CallReturns` unless the library waits for a
descriptor of the host (`WaitsForHost`).

A write that blocks may be ended by a signal, or end short (`WriteInterrupted`): a child that
works is then replaced.  A start is one step here (`StartForks`, `StartFails`); its inside is
`StartSubprocess`.
`Faults` selects what may go wrong, `SigpipeIgnored` whether EPIPE is an error or the end of
the host.

### StartSubprocess

`fdt` is the parent's table from descriptor number to owner (free, the host's, or an end of
the k-th pipe), `cfd` the child's.  `pipe()` hands out the two lowest free numbers.  Any
subset of descriptors may be open at the beginning, the three standard ones included, and
other threads open and close descriptors between any two calls of `pipe` or `close`.  One
`close` pair (`close(sock_pair[i][0]); close(sock_pair[i][1])`) is one step.

### Addr2LinePool

A process is seen from outside, as `ProcessLife` has it: it holds at most one child, starts
another once it has given that one up, answers, or gives up and stays in the pool (`gone`).  `FlushPool` is one
step per process and one that clears the vector.

### ProcessLife, AtomicStart and ProcessSet

`ProcessLife` shows of a process the child that is fed, what has become of each child, and
whether the object has failed for good; a child whose stdin has been closed counts as leaving
whether it has noticed or not.  In the mapping, the child that is fed is the one whose stdin
is still open for the library, which the code knows only indirectly: `active_pid_` is set
after the startup check, and until then may be that of an earlier child.  `AtomicStart` shows
of a start the host's descriptor table: while the start is under way the numbers of its pipes
pass for free ones; when it is over, whatever is still open shows.  `ProcessSet` shows of the
pool its processes, in no order, and whether each has failed for good.  What a request does to
them shows as soon as it is made: while the pool is being flushed, and until the new process is
in the vector, the mapping shows that process alone or next to those that stay.

### Interface, Session and SimpleDemo

Memory is a set of blocks, numbered as they are allocated; `Release` notices a block that is
not allocated.  `held` is what the caller has read and not given back.  `careful` is a history
variable: it stays true as long as the caller frees results before the next request and
finishes before it starts again.

`Interface` has the functions; `Session` puts the tool behind them.  A request is one step, as
all of it happens in the caller's thread and nothing in it depends on what other threads do to
the globals.  The process it reaches replies, gives up for good, or takes the host down.
Processes are kept as the tools keep them: one for llvm-symbolizer, a pool with one per module
for addr2line that is flushed when it is full.  `Formatted` is `snprintf` into a buffer of
`kBufferSize`.  Of a reply that was cut inside a frame the parser makes a frame whose `file`
was never set (`FileUnset`): it holds what the stack slot held, which is null, no block at all,
or any block (`Garbage`): one that is live, of either kind, one that was freed, or one that
malloc has yet to hand out, in place of an address that it hands out again.  If what it leads to
reads "??", the parser frees it at once (`use_llvm_symbolizer.cpp:95-98`); else it is handed on,
and `addr_free` frees it.  `unset` remembers that there was such a frame.  Result numbers are
kept as the request they are of.

`Session` takes a process for a `CommandChannel`.  Its properties, those of `SimpleDemo` and
those of the pool therefore presuppose what this one does: that no signal interrupts a read
(`reply_after_signal` shows what happens otherwise) and that no thread takes a number in one of
the windows above.

`SimpleDemo` adds the host: any program, which calls in any order, or `simple_demo.c` with
its loops over addresses, sections and tools.

### ParseOutput

Here text matters, so a string is a sequence of characters, one for each kind the parser
tells apart (newline, colon, space, question mark, some digits, letters).  The initial state
picks what the symbolizer means (`truth`) and how much of its printout arrives; the parser
has to find `truth` again.

What is printed cannot always be understood: of a file called `a:7`, addr2line prints `a:7:3`,
which is what llvm-symbolizer prints of line 7 and column 3 of `a`.  `PlainNames` assumes that no
name ends in what may follow a name (`Ambiguous`); llvm-symbolizer prints two numbers always, and
so its names may end in a colon and a number.

## 3. What is checked

| Run | Bounds | Distinct states | Shows |
|---|---|---|---|
| `process_faults` | budget 3, 3 calls, 3 descriptor numbers, every fault, other threads at any time | 0.4 M | types, no leaked descriptor, `Kill` closes only its own pipes, no I/O on and no close of foreign descriptors (but for numbers reused inside a call), forks against the budget, giving up is final, no read waits in vain, every step brings a call nearer to its end, the process implements `ProcessLife`; calls return, and after a stop all children leave |
| `process_reply` | budget 5 (the code's value), 3 calls, 3 pieces, one unknown address, addr2line, no signals, SIGPIPE at its default or not | 1.0 M | replies answer the command sent, a living child is heard out, the CHECK and SIGPIPE take the host down only if the child is gone, the process implements `CommandChannel` |
| `start_subprocess` | 10 descriptor numbers, 2 moves by other threads | 1.4 M | five pipes suffice, nothing is lost, the child is wired, the host's descriptors stay, the start implements `AtomicStart` |
| `pool` | 3 modules, pool of 2, 4 children | 0.7 M | bound on processes and on children that are fed, no orphan, the pool implements `ProcessSet` (and so answers come from the right binary), after a stop all children leave |
| `session` | 3 successful init and send calls for any program, 2 addresses in each section for the demo, 2 frames, pool of 1, buffer of 3, an unset file leads to block 4 or to none | 0.7 M | globals, memory, processes and answers, for any caller and for a careful one; what the demo does |
| `parse` | 2 frames, names of 1 to 3 characters, numbers of 1 or 2, every cut | 0.4 M | parsed is what was printed, but for the mark left behind a name of one character |

Why the bounds are enough.  Three descriptor numbers give the library its two and let the
host take one of them (or two, when the library has given them back): every way in which
a stale number can meet the host's needs no more than two numbers of each.  A budget of three
is a first start, one that finds what it left and one that finds what a restart left.  Three calls are a first call,
one that finds what the first left, and one that finds what a restart left.  Two moves by
other threads and ten numbers allow each standard stream to be opened or closed while pipes
of all five rounds exist or are too many to exist.  A pool of two with three modules flushes,
refills and flushes again.  Four children are one for each process of a full pool and one
for each after it was flushed.  Two frames suffice for anything that one frame
can leave behind for the next.  Of the two binaries of `session` the command for one just fits
the buffer and the other's is one character too long; with a pool of one every change of
binary flushes.  Three successful calls are an init and two requests, or two inits and a
request; calls that fail, reads and frees are not bounded.  Block 4 is the first string a request
allocates after the three blocks of init: it is a data string the caller may hold if data were
asked first, a freed one if they were given back, and a string of the very reply if the frames
are the first request; block numbers rise, so whatever was freed is told from what is live.  The demo's calls are bounded by its
addresses alone: two, so that each address has one before it.  For all but liveness the
proofs of section 4 remove the bounds.

**Fairness** (`FairSpec`, of `SymbolizerProcess` and of `Addr2LinePool`).  The library's thread
runs: `WF(Library)`, in which interrupted reads and writes are left out, as no signal need ever
arrive, and calls on a descriptor of the host (`Foreign`), which may block for as long as the host
likes.  A child that was sent a command writes its output: `WF(ChildWrites)`; no symbolizer
does otherwise unless it dies, and `read` has no timeout, so this cannot be weakened.  A child
whose stdin is at its end leaves, `WF(ChildSeesEndOfInput(g))`, and the kernel completes
exits, `WF(ChildBecomesZombie(g))`.  In the pool a flush that was begun is finished and the
kernel completes exits, nothing more.  The host is never forced to call, and no
fault is ever forced to happen.  Deadlock is checked in every run; the final states stutter
explicitly.

### Disagreements found

Six runs expect a violation: what the code does differs from what a line of the repository
says.  `PROJECT.json` quotes the lines.

| Run | What it shows |
|---|---|
| `kill_signal` | SIGKILL is sent only to a child that has just been reaped, never to a running one |
| `stop_releases` | a child that passed its startup check and died later is still the active one when the tool is stopped: `waitpid` reaps it, `kill` on the reaped pid fails (`symbolizer.cpp:282-286`), and `Kill` returns (394) without closing the two pipes |
| `reply_after_signal` | a read interrupted by a signal makes the late answer the reply to the next command |
| `reply_after_death` | a reply cut by the death of the child is reported as a success |
| `double_free` | of a reply that stops after a function name the parser makes a frame whose file is never set and frees what it leads to, at once if that reads "??" (the trace), else in `addr_free`, although the caller (the demo) did nothing wrong |
| `demo_dirty_data` | the demo reads data after a request that failed, against the header, and prints numbers of an earlier address |

Others were met on the way and follow from the same models without a run of their own:

- a child that is still exiting when `Restart` asks is forgotten and stays a zombie, though
  `symbolizer.cpp:84` says "Kill anyway to prevent zombies"; likewise `FlushPool` does not
  wait for the children it is said to kill (`common.h:69-71`).  Both come from line 272;
- an addr2line that exits early takes the host down by the CHECK on `use_addr2line.cpp:80`
  (`HostOutlivesChild` says this is the only way);
- a failed init leaves an earlier tool in place (against `include/sanitizer_symbolizer_tool.h:24`),
  and init does not notice a tool that is too old (against `README.md:66`);
- `addr_free` frees the frames of all requests, not of the latest (against line 91 of the header);
- `f:?`, a file name of one character and the mark, is not trimmed, as `use_llvm_symbolizer.cpp:92`
  asks for more than three characters: `FileRead` says so, and with it the properties of frames;
- a data reply of two lines yields a file name that is a newline: so says the header (line 130), and
  the demo tests for it, but the comment on `use_llvm_symbolizer.cpp:114` says empty.

## 4. What is proved

All proofs are for every value of the constants.  Assumptions on constants are the named
ASSUMEs of the modules, which TLC evaluates in every run.

**SymbolizerProcess.**  `NoLeakedDescriptor`, `KillClosesOwnPipes` and `NoForeignIO` are not
inductive: whether a number is still the library's depends on where the object is between
`CloseFile` and the next fork, and on whether another thread took it meanwhile.  The invariant is `TypeOK /\ Budget /\ Wiring`:

- `Budget` counts rounds against forks and ties the "gave up" flag to the counter;
- `Wiring` says which descriptors are the youngest child's pipes in which control state,
  that nothing else of any pipe is open, and that an active child that was not reaped is the
  youngest and holds these pipes.  A number the object keeps belongs to the host only if it was
  reused (`NumbersNotReused`), and only numbers that are closed can be (`ReusedAreClosed`): this
  is why even such a call leaves no pipe open and no child behind.

From it follow `TypeCorrect`, `BudgetHolds`, `NoDescriptorLeaks`, `KillIsPrecise`,
`OwnDescriptorsOnly`, and the action properties `HostKeepsDescriptors` and `GivingUpIsFinal`.
`RepliesAreCurrent` adds `Transfer`: what was read, what is in the pipe and what the child has
still to write make up, in this order, the answer to the current command, and between calls
pipe and child are empty.  `RepliesAreWhole` and `HostDiesAfterChild` add `Heard`: as long as
the child lives, these three together are as long as the answer, so a read that ends has seen
all of it, and of addr2line's marks only the last is trimmed (`WholeAnswerIsTrimmed`).  These
three need `"eintr" \notin Faults`, and `reply_after_signal` shows that `RepliesAreCurrent`
does.

What calls need to come to an end is proved as far as it is not fairness, with any faults.
`CallsAreBounded`: rounds left, steps left of the round, and pieces that may still be read are a
measure (`ComesNearer`, `MeasureIsBounded`) that falls with every step of the library in a call and
that no child raises; the restart loop and the loop of `ReadFromSymbolizer` therefore end.
`ReadsEnd`: a read never waits for a living child that has nothing more to write; its invariant
`Awaited` says where the last piece of the current answer is, and holds also when signals have put
answers out of step.  `CallReturns` adds that who can take a step takes it.

`SurvivorsAnswerInFull` and `SurvivorsSpareTheHost` assume that no child dies and that no signal
interrupts.  Then a child whose stdin is open runs (`FedIsRunning`), and replies are whole and the
host is safe with either tool (`HostSurvives`); `reply_after_death` shows what one death does.

**The process as others see it.**  `ProcessImplementsChannel` proves, again without `eintr`,
that the process implements `CommandChannel`; `ProcessImplementsLife`, with any set of faults,
that it lives a `ProcessLife`.  The latter needs what `active_pid_` says about the child that
is fed in each control state (`FedIsActive`) and that children are born in order
(`BornInOrder`); given `Wiring`, every step keeps both.  `StopTellsChildren` uses them again: a
stopped object feeds no child, for `Kill` closed the pipes, or did nothing because the
youngest child was gone, which is the only one that could be fed (`YoungestIsTold`).

**StartSubprocess.**  The invariant says at every step which pipe ends the parent holds,
where, and that it holds nothing else (`Held`, `NothingElse`).  Ends at distinct numbers are
distinct, so at most three pipes can have a number below 3; as all pipes made so far stay open
while the loop looks for two high ones, the fifth round cannot fail (`Pigeons`,
`NotTheLast`).  From it: `FivePipesSuffice`, `NoPipeIsLost`, `ChildGetsItsStreams`,
`HostKeepsDescriptors`, and `StartIsAtomic`, the refinement of `AtomicStart`.

**Addr2LinePool.**  The invariant adds that a process holds a child started on its own
module and shares it with no other (`ChildrenAreOwn`), and that a process is made only when
there is room and none for the module (`RoomForNew`).  From it: `TypeCorrect`,
`PoolSoundness`, `RightModule`, `NobodyForgotten`.  `PoolSoundness` bounds more than the vector:
children whose input is open belong each to a process of its own (`NoOrphan`, `ChildrenAreOwn`),
so they are no more than its processes (`FedChildrenFit`), although children of flushed
processes linger and restarts add others.  `StopTellsEverybody`: a pool that was stopped is
empty (`Emptied`), and so no child is left whose input is open.

`PoolImplementsSet` is the refinement of `ProcessSet`.  Requests, answers, failures and the stop
are its steps (`RequestShows`, `AnswerShows`, `FailureShows`, `StopShows`); a flush, a new process
and all that children do show nothing (`FlushShows`, `ChildrenAreHidden`).  The set is as large as
the vector, as no two processes are for the same module (`InPoolSize`); this is what makes the
pool full when the set is.

**Session.**  The theorems hold for any number of calls in any order.  The invariant has,
besides types, five parts:

- `Globals`: tool, buffers and the code of the tool come and go together, and a result the
  caller does not owe is not there;
- `Kinds`: what is allocated was allocated at some time, and as long as every frame came with its
  file, a string belongs to the frames or to the data for good.  This is why freeing the one kind
  cannot take away a string of the other, even after a block was given back;
- `Memory`: as long as every frame came with its file, nothing dangles and each pointer in the
  frames has a block of its own (`NoneShared`);
- `Kept`: with a careful caller, what is allocated is reachable from the globals;
- `Processes`: with a careful caller, the processes are those of the tool in use.

From it: `GlobalsStayInStep`, `MemoryStaysSound`, `StringsStayUntilFreed`, `FiniGivesBack`,
`FramesAreOfLatest`, `CommandsArriveWhole`, `NoProcessIsLost`.  `MemoryStaysSound` and
`StringsStayUntilFreed` stop at the first frame without its file, whose pointer may lead to any block.

Two theorems are about any caller, careful or not.  `ProcessesStayBounded`: the tool in use has one
process, or a pool within its bound with one process per module; its invariant `MineFit` says
that the processes of the tool are a set this tool may have (`FitsTool`), which a lookup and a
failure keep.  `PoolServesSession`: with addr2line the processes a request leaves behind are those
that a request of `ProcessSet` leaves, answered or given up (`LookupIsShown`).

**SimpleDemo.**  `InterfaceServesAnyProgram` shows that each step of the demo is a call the
interface may see from any program, so the invariant of `Session` carries over.  To it comes
the control of the demo (`DemoControl`): what it owes at each of its steps (`Due`), and that the frame it
is about to read exists (`Reading`).  From these: `DemoStaysCareful`, `DemoReadsItsFrames`,
`DemoLeavesNothing`.

**ParseOutput.**  The theorems hold for names, numbers and replies of any length, over any
characters.  `ReadInvariant` says where the parser stands.  Either it is behind a frame: what it
has parsed is what was meant so far (`MeantUpTo`), and in front of it is what was printed behind
that frame, as far as that arrived (`Exact`, `Behind`).  Or it is behind the frame the reply was
cut in, of which it made what it could, and nothing is left (`Spoilt`).  A step from the one to the
other is `ReadsFrame`.  It rests on lemmas on texts (the token up to a newline, whole or cut:
`TokenOfWhole`, `TokenOfCut`), on what a line is taken apart into (`TakesNumber`, `LineIsMeant`:
the last colon in front of digits is the one that was printed), and on `FlattenPeels`, which takes
the first frame off what was printed.  The last is proved by induction on the number of frames,
in the form `InductionOverNat`, a statement on sets of numbers.  What `atoll` makes of digits is
never computed; it is shown to be applied to the digits that were printed.

What is read of a file name is `FileRead`: the name, or the name and the mark of an unknown line
if the name is one character long (`ShortIsKept`, `TrimsMark`).  The four theorems assume nothing
beyond the constants' own assumptions, of which `PlainNames` leaves out names that end in what may
follow a name.

**Only proved.**  `HostSurvives`, under the assumptions of `SurvivorsSpareTheHost`.
`ProcessesAreOwned` and `DemoIsCareful`: what `FiniReleasesAll`, `DemoReadsOwnFrames` and
`DemoEndsClean` look at rests on them, and these are checked.  `ReplyFromRightModule`, which
`ImplementsProcessSet` contains; `AllToldToLeave` and `NobodyWaitsAfterStop`, the part of
`StoppedChildrenLeave` that is not fairness; and `ProcessesAreBounded` and `AnyServed`, by which
`Session` agrees with the pool.

**Only model-checked.**  Liveness (`CallReturns`, `StoppedChildrenLeave` of process and pool),
which the prover does not handle with fairness.
Of all three the part that is not fairness is proved.

## 5. What is left out

- Command lines (`GetArgV`) and the text of commands: of `FormatAndSendCommand` the length of
  the command, the buffer it must fit in and the refusal are modelled, not its characters.
- `WaitForProcess`, `GetPID`, `ExtractInt`, `ExtractSptr`, `OpenFile`, `DirExists`: no caller.
- `(discriminator N)` after a line number, saturation of `atoll`, empty file names, and colons
  in the file name of a data reply: outside the inputs of `ParseOutput`.
- Children that other threads fork while the library holds its pipes: these have no
  O_CLOEXEC, and the fork would inherit them.
- How long the path given to init stays allocated: the object keeps the caller's pointer.
- Concurrent calls of the interface: nothing in the library guards the globals, and the
  header promises nothing about threads.
- What the demo prints, and the platform macros, which choose code at compile time.

## 6. Plan

Done: process, channel, life and the refinements to both; start of a subprocess and its
refinement; pool with its liveness and its refinement; parsers; interface, the tool behind it and the demo in
front of it; and the proofs of all of these.  What could follow:

1. children that another thread of the host forks while pipes of the library are open: they
   keep the write end of a child's stdin open, which puts the end of that child in doubt;
2. the caller's memory: the path given to init, which the object keeps a pointer to;
3. two threads in the interface, to say which calls a host must serialise;
4. `ParseOutput` with the inputs listed above.
